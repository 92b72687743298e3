SPECIFICATION FairDemandSpec
CONSTANTS
    Launches = {l1, l2}
    NoLaunch = NoLaunch
    MaxRunners = 1
    Floors = {0, 1}
    MaxJobs = 2
    HasRemover = TRUE
    JobsLeave = TRUE
    BootsFail = TRUE
    Stops = TRUE
CHECK_DEADLOCK FALSE
PROPERTIES ReplanLeavesOutOwnJob QueueMoves SlotServesQueue ShutdownDrains
