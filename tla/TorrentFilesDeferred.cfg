CONSTANTS
    f1 = f1
    p1 = p1
    p2 = p2
    File = {f1}
    Piece = {p1, p2}
    PiecesOf <- Pieces
    Path = {original, layout, other}
    Original = original
    Renamed = layout
    NoPath = NoPath
    Modes <- DeferredModes
    MaxEvents = 1
    MaxAlerts = 2
SPECIFICATION Spec
INVARIANT WantedFilesAreLoaded
CHECK_DEADLOCK FALSE
