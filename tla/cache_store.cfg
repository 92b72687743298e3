SPECIFICATION Spec
CONSTANTS
    Runners = {r1, r2}
    Addrs = {a1}
    Nobody = Nobody
    Unusable = Unusable
    NoRecord = NoRecord
    Keys = {k1, k2}
    Handlers = {h1, h2}
    MaxId = 2
    MaxSize = 1
    MaxCrashes = 1
    NoEntry = NoEntry
    NoBlob = NoBlob
    Idle = Idle
SYMMETRY Symmetry
CHECK_DEADLOCK FALSE
INVARIANTS OneEntryPerKey CompleteIsWhole StallsOwnOnly
PROPERTIES SavedIsThere ActsForItself FitsTheCap
