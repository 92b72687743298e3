SPECIFICATION FairSpec
CONSTANTS
    Instances = {i1, i2}
    Runners = {r1}
    NoRunner = NoRunner
    MaxFaults = 1
    MaxSurprises = 0
    MaxCrashes = 1
    Sizes = {1}
PROPERTIES
    NoReplacement
    OrphanJobsSpared
    OrphansEnd
