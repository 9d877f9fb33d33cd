\* Two torrents that move between three paths, change their minds, finish, are
\* checked and removed.
CONSTANTS
    h1 = h1
    h2 = h2
    t1 = t1
    t2 = t2
    Handle = {h1, h2}
    Torrent = {t1, t2}
    HashOf <- OneStay
    Path = {p, q, r}
    NoPath = NoPath
    None = None
    ReaddsWhileDeleting = FALSE
    MaxRequests = 2
SPECIFICATION Spec
SYMMETRY SwapTorrents
INVARIANTS
    FirstJobIsMoving
    NoMeaninglessJob
    MovingMeansJob
    SettledAtTarget
CHECK_DEADLOCK FALSE
