SPECIFICATION Spec
CONSTANTS
  Entries = {1, 2, 3}
  Listeners = {r1, r2, h1}
  Requests = {r1, r2}
  Malformed = {}
  Origins = {oA, oB}
  Options = {p}
  MaxSessions = 2
  MaxEmptySessions = 1
  Limits = {1, 2}
  Environment = {"origin", "close", "lost", "agentDestroy", "mismatch", "badServername"}
  OriginFrames <- AllOrigins
  Calls <- AllCalls
  None = None
SYMMETRY Interchangeable
CHECK_DEADLOCK FALSE
INVARIANTS CountersExact KeysConsistent WaitersAccounted NoMissedWakeup NoIdleCapacity
PROPERTY PicksBest
