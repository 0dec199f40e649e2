SPECIFICATION Spec
CONSTANTS
  Requests = {r1, r2}
  Users = {u1, u2}
  Slots = 1
  MaxTroubles = 2
  Callers = {t1, t2, t3}
  MaxEvicts = 1
  Rules = {n1}
  Channels = {h1}
  InboxSize = 1
  MaxEvents = 2
  MaxMishaps = 2
  PullCalls = {a1, a2}
  MaxChanges = 2
INVARIANTS ExportSafe TranscodeSafe NotifySafe PullSafe
PROPERTIES ExportEnds TranscodeWaiterAnswered NotifyAccounted
CHECK_DEADLOCK FALSE
