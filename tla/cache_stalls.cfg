SPECIFICATION FairSpec
CONSTANTS
    Runners = {r1, r2}
    Addrs = {a1}
    Nobody = Nobody
    Unusable = Unusable
    NoRecord = NoRecord
    Keys = {k1}
    Handlers = {h1}
    MaxId = 2
    MaxSize = 1
    MaxCrashes = 1
    NoEntry = NoEntry
    NoBlob = NoBlob
    Idle = Idle
CHECK_DEADLOCK FALSE
PROPERTIES KeysComeFree
