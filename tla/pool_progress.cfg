SPECIFICATION FairSpec
CONSTANTS
  Entries = {1, 2, 3, 4}
  Listeners = {r1, r2, r3}
  Requests = {r1, r2, r3}
  Malformed = {}
  Origins = {oA, oB, oC}
  Options = {p}
  MaxSessions = 2
  MaxEmptySessions = 2
  Limits = {1}
  Environment = {"origin", "lost"}
  OriginFrames <- AllOrigins
  Calls <- AlikeCalls
  None = None
CHECK_DEADLOCK FALSE
PROPERTIES CallersAnswered GracefulSessionsEnd
