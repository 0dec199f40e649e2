CONSTANTS
    Cams = {c1}
    Sources = {"software", "onvif"}
    Buf = 2
    MaxSignals = 3
    MaxErrors = 1
    MaxRestarts = 1
    MaxCancels = 1
SPECIFICATION FairSpec
CHECK_DEADLOCK FALSE
INVARIANT RowsTracked
PROPERTIES ImplementsEventLog EventsClose
