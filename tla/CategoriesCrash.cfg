\* Crashes, lost writes and settings edited between two runs.
CONSTANTS
    A = A
    AB = AB
    AC = AC
    Category = {A, AB}
    Ancestors <- TreeOfTwo
    Options = {Default, o1}
    Default = Default
    Torrent = {t1, t2}
    None = None
    TogglesSubcategories = FALSE
    EditsSettings = TRUE
    WritesMayFail = TRUE
SPECIFICATION Spec
INVARIANTS
    TorrentCategoriesExist
    PendingCategoriesAreComplete
    CategoriesConsistent
