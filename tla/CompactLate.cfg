\* Four torrents, so that two share a text that is not the default.
CONSTANTS
    name = name
    dlspeed = dlspeed
    state = state
    seedingTime = seedingTime
    t1 = t1
    t2 = t2
    t3 = t3
    t4 = t4
    Field = {name, dlspeed, state, seedingTime}
    FieldOrder <- Order
    TypeOf <- Types
    Value = {1, 2}
    NoValue = NoValue
    Absent = Absent
    Garbled = Garbled
    Zero = 1
    Torrent = {t1, t2, t3, t4}
    Numeric = {dlspeed}
    Status = {state}
    Lifecycle = {seedingTime}
    SilentField = {name}
    Modes <- LateModes
    FirstRows <- AllAlike
    MaxChanges = 2
SPECIFICATION Spec
PROPERTY TabsSynchronized
