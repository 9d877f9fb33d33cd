CONSTANTS
    Id = {i1, i2}
    NoData = NoData
    MaxProcessing = 1
    Overlap = FALSE
    MaxEvents = 2
    MaxRuns = 2
SPECIFICATION FairSpec
INVARIANTS
    OutstandingAreCounted
    NoChangeIsForgotten
    EndSavesAll
    StoredAreRestored
    NativesAreKnown
PROPERTIES
    AddingEnds
    StartupEnds
    ExitEnds
CHECK_DEADLOCK FALSE
