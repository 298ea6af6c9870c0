SPECIFICATION Spec
CONSTANTS
  Entries = {1, 2, 3}
  Listeners = {r1, r2, r3}
  Requests = {r1, r2, r3}
  Malformed = {r3}
  Origins = {oA, oB}
  Options = {p, q}
  MaxSessions = 2
  MaxEmptySessions = 1
  Limits = {0, 1}
  Environment = {"plain", "connectError", "closeEmpty", "settings", "origin"}
  OriginFrames <- AllOrigins
  Calls <- AlignedCalls
  None = None
SYMMETRY Interchangeable
CHECK_DEADLOCK FALSE
INVARIANTS TypeOK CountersExact WaitersAccounted MaxEmptyRespected NoMissedWakeup GracefulSessionsClose
PROPERTIES NoOverload ImplementsService
