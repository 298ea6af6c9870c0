SPECIFICATION FairSpec
CONSTANTS
  n1 = n1
  n2 = n2
  n3 = n3
  Calls = {c1, c2, c3}
  Names = {n1, n2, n3}
  Negotiates <- OneOfEach
  Failures = {"timeout", "error"}
  None = None
CHECK_DEADLOCK FALSE
INVARIANTS TypeOK QueueTracksPending ProperUnlessTimedOut SocketsSettled
PROPERTY CallsEnd
