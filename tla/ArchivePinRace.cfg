CONSTANTS
    N = 2
    Horizon = 4
    Retention = 2
    Budget = 0
    TierAfter = 0
    ListLimit = 2
    TierLimit = 2
    Deletable = FALSE
    Faults = {}
    MaxCrashes = 0
SPECIFICATION Spec
PROPERTY ProtectedNeverEvicted
