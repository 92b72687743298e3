SPECIFICATION FairSpec
CONSTANTS
    Procs = {p1, p2}
    NTiers = 2
    Nobody = Nobody
    Expiring = Expiring
    MaxFaults = 1
    MaxStuck = 1
CHECK_DEADLOCK FALSE
INVARIANTS LastOneDeregisters
PROPERTIES RedeployServes
