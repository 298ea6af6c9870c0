SPECIFICATION FairSpec
CONSTANTS
  Methods = {"GET", "POST", "CONNECT"}
  Sessions = {"agent", "open", "refusing"}
  UserMay = {"write", "setTimeout", "flushHeaders", "abort", "destroy", "destroyResponse"}
  MaxCalls = 3
  MaxChunks = 2
  HighWaterMark = 2
  None = None
\* A closed request does nothing more.
CHECK_DEADLOCK FALSE
INVARIANTS TypeOK NoOrphanStream ClosedOnce TruthfulClose CallsInOrder NoStall
PROPERTIES RequestCloses RejectionReported
