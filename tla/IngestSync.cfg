CONSTANTS
    Calls = {a1, a2}
    MaxConnects = 2
SPECIFICATION Spec
CHECK_DEADLOCK FALSE
INVARIANTS TypeOK NoWorkerForgotten SequentialCallsMatch GapsFollowTheStream
