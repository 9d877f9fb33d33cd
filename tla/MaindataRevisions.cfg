\* Two browsers, one with two tabs; the store is released when idle.
SPECIFICATION Spec
CONSTANTS
    b1 = b1
    b2 = b2
    t1 = t1
    t2 = t2
    RidModulus = 3
    Browser = {b1, b2}
    Tab = {t1, t2}
    BrowserOf <- TwoTabsOneBrowser
    MaxRetained = 2
    ReleaseIdle = TRUE
    InitialCache = TRUE
    TabsOutliveSessions = FALSE
    MaxVersion = 3
    MaxSent = 4
    MaxOrphans = 1
INVARIANTS
    IncrementFitsTab
    ReplyIsRecordedRevision
    CursorsWithinStore
    ProtocolConsistent
PROPERTY
    TabsNeverGoBack
