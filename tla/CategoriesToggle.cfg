\* Subcategories are switched on and off at run time; writes succeed.
CONSTANTS
    A = A
    AB = AB
    AC = AC
    Category = {A, AB, AC}
    Ancestors <- TreeOfThree
    Options = {Default, o1}
    Default = Default
    Torrent = {t1}
    None = None
    TogglesSubcategories = TRUE
    EditsSettings = FALSE
    WritesMayFail = FALSE
SPECIFICATION Spec
SYMMETRY SwapChildren
PROPERTY RestartKeepsCategories
