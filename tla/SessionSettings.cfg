\* One address, a good and a broken file of rules, one torrent.
CONSTANTS
    IP = {ip1}
    File = {good, broken}
    Broken = {broken}
    Seed = {t1}
    AddsInactiveOnly = FALSE
    Rate = {1500}
    Value = {v1, v2}
    Default = v1
    MaxCalls = 3
SPECIFICATION Spec
INVARIANTS
    SettingsInForce
    FilterIsComplete
    QueueIsStored
    RefreshGoesOn
    LimitsAreWatched
CHECK_DEADLOCK FALSE
