CONSTANTS
    N = 2
    Horizon = 3
    Retention = 1
    Budget = 1
    TierAfter = 1
    ListLimit = 2
    TierLimit = 2
    Deletable = TRUE
    Faults = {"error", "lost"}
    MaxCrashes = 1
SPECIFICATION Spec
INVARIANT RowsBacked
PROPERTY PinHolds
