SPECIFICATION Spec
CONSTANTS
  Entries = {1, 2, 3}
  Listeners = {r1, r2, r3}
  Requests = {r1, r2, r3}
  Malformed = {}
  Origins = {oA, oB, oC}
  Options = {p}
  MaxSessions = 1
  MaxEmptySessions = 1
  Limits = {1, 2}
  Environment = {}
  OriginFrames <- AllOrigins
  Calls <- AllCalls
  None = None
SYMMETRY Interchangeable
CHECK_DEADLOCK FALSE
INVARIANT MaxSessionsRespected
