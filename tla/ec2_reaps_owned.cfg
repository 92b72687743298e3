SPECIFICATION Spec
CONSTANTS
    Instances = {i1, i2}
    Runners = {r1}
    NoRunner = NoRunner
    MaxFaults = 1
    MaxSurprises = 0
    MaxCrashes = 0
    Sizes = {1}
SYMMETRY Symmetry
PROPERTY ReapsOnlyOrphans
