SPECIFICATION Spec
CONSTANTS
  Viewers = {v1}
  RingMax = 2
  ChanBuf = 2
  VideoClock = 3
  InBand = {2}
  MaxFrames = 4
  MaxSessions = 2
  DetCalls = {a1, a2}
  PostRoll = 1
  Cooldown = 2
INVARIANTS  DetectSafe
PROPERTIES LiveEnds DetectThreeInARow DetectProgress
CHECK_DEADLOCK FALSE
