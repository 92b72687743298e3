SPECIFICATION Spec
CONSTANTS
    Launches = {l1, l2, l3}
    NoLaunch = NoLaunch
    MaxRunners = 2
    Floors = {0, 1}
    MaxJobs = 2
    HasRemover = TRUE
SYMMETRY Symmetry
INVARIANTS TypeOK PlacesHeld RemovalOwned DrainedIsQuiet
PROPERTIES BusyNeverCancelled ScaleDownKeepsDemand ExitNeverGrows DemandMet
