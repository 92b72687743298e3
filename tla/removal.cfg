SPECIFICATION FairRemovalSpec
CONSTANTS
    Launches = {l1, l2}
    NoLaunch = NoLaunch
    MaxRunners = 2
    Floors = {0, 1}
    MaxJobs = 1
    HasRemover = TRUE
PROPERTIES JobNeverStranded RemovalSettles UnknownRunnerGoes
