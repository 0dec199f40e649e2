SPECIFICATION Spec
CONSTANTS
  Users = {u1, u2}
  Reqs = {r1, r2}
  MaxRequests = 3
  MaxSessions = 2
  MaxPw = 2
  MaxHangups = 1
  Lookups = {l1, l2}
  TTL = 6
  Absolute = 11
  RenewAfter = 2
  MaxDay = 13
  MaxLost = 1
  Logins = {p1, p2, p3}
  MaxAttempts = 3
  Window = 2
  MaxProbes = 2
  ProbeWindow = 2
  MaxTick = 4
  Devices = {d1}
  Edits = {e1, e2}
  MaxEdits = 2
  Tags = {t1, t2}
  Secrets = {s1, s2}
  SecretKeys = {f1, f2}
  Puts = {q1, q2}
  Callers = {b1, b2}
  MaxPuts = 2
  Second = 2
  Lengths <- SegmentLengths
  Pauses <- SegmentPauses
  LiveLimit = 2
  Buckets = 3
  Times = {0, 2, 5, 9, 12}
  MaxSegments = 3
  Days = 2
  Minutes = 3
  MaxWindows = 2
  MaxEvent = 3
  MaxTs = 2
  Limit = 1
  Pictured = {1}
  MaxAcks = 1
  MaxDeletes = 1
  Deleters = {x1}
  Watchers = {k1, k2}
  DecodeSlots = 1
  HasSub = TRUE
  MaxKeys = 2
  MaxCalls = 3
INVARIANTS AccessSafe SessSafe LimitOvershoot ProbesExact CamSafe SettingsSafe PlaybackSafe
    ScheduleSafe FeedSafe SnapSafe
PROPERTIES SessEnds NeverBack
CHECK_DEADLOCK FALSE
