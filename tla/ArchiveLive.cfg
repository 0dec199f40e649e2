CONSTANTS
    N = 2
    Horizon = 4
    Retention = 2
    Budget = 1
    TierAfter = 1
    ListLimit = 1
    TierLimit = 2
    Deletable = FALSE
    Faults = {}
    MaxCrashes = 1
SPECIFICATION FairSpec
INVARIANT LocalFilesOwned
PROPERTIES ExpiredEvicted TieringHappens
