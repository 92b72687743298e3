SPECIFICATION Spec
CONSTANTS
    Slots = {s1}
    Tiers = {t1, t2}
    TierMax = 2
    PerTier = 1
    NoSlot = NoSlot
    NoRecord = NoRecord
    NoDevice = NoDevice
    HalfMade = HalfMade
    Nobody = Nobody
    Unusable = Unusable
    MaxCrashes = 1
    CommandsFail = FALSE
CHECK_DEADLOCK FALSE
INVARIANTS FreeSlotsClean
