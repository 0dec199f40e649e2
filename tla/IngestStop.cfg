CONSTANTS
    Calls = {a1}
    MaxConnects = 2
SPECIFICATION FairSpec
CHECK_DEADLOCK FALSE
PROPERTY StoppedWorkersEnd
