SPECIFICATION Spec
CONSTANTS
    Instances = {i1, i2, i3}
    Runners = {r1}
    NoRunner = NoRunner
    MaxFaults = 0
    MaxSurprises = 1
    MaxCrashes = 0
    Sizes = {0, 1}
SYMMETRY Symmetry
INVARIANTS
    ReaperTypeOK
    OneOwner
PROPERTIES
    NeverOverfilled
    OneShot
