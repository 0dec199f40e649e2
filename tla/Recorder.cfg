CONSTANTS
    Modes = {"continuous", "motion", "off"}
    SegDur = 2
    PreRoll = 2
    Skews <- ClocksApart
    Horizon = 4
    MaxSessions = 2
SPECIFICATION Spec
CHECK_DEADLOCK FALSE
INVARIANTS FramesKept SegmentsPlayable RingCovers
PROPERTY CutOnAge
