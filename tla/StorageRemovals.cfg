\* A torrent that is removed while it moves, and comes back while its files
\* are still being deleted; the program exits at any time.
CONSTANTS
    h1 = h1
    h2 = h2
    t1 = t1
    t2 = t2
    Handle = {h1, h2}
    Torrent = {t1}
    HashOf <- TwoStays
    Path = {p, q}
    NoPath = NoPath
    None = None
    ReaddsWhileDeleting = TRUE
    MaxRequests = 3
SPECIFICATION FairSpec
INVARIANTS
    RemovalWaitsForJobs
PROPERTIES
    RemovalEnds
    ExitEnds
CHECK_DEADLOCK FALSE
