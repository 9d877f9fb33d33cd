\* Two torrents with a silent field that share two trackers, a tag, and a
\* store that is released when idle.
CONSTANTS
    Field = {f, name}
    Value = {v1, v2}
    NoValue = NoValue
    Absent = Absent
    Torrent = {t1, t2}
    Tracker = {u1, u2}
    Tag = {g1}
    SilentField = {name}
    ReleaseIdle = TRUE
    MaxSessions = 1
SPECIFICATION Spec
SYMMETRY Symmetric
INVARIANTS
    PendingDeltaIsComplete
    KnownTrackersAreTheSessions
    IdleStoreIsEmpty
    StoreConsistent
