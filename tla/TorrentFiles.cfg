CONSTANTS
    f1 = f1
    p1 = p1
    p2 = p2
    File = {f1}
    Piece = {p1, p2}
    PiecesOf <- Pieces
    Path = {original, layout, other}
    Original = original
    Renamed = layout
    NoPath = NoPath
    Modes <- AllModes
    MaxEvents = 1
    MaxAlerts = 2
SPECIFICATION Spec
SYMMETRY SwapPieces
INVARIANTS
    RenamesAreCounted
    PathsAreTheDisks
    ProgressIsOfPieces
    CompletedWhenQuiet
    WantedFilesAreLoadedWhenResident
CHECK_DEADLOCK FALSE
