SPECIFICATION Spec
CONSTANTS
  Methods = {"GET", "POST", "CONNECT"}
  Sessions = {"agent", "open", "refusing"}
  UserMay = {"write", "flushHeaders"}
  MaxCalls = 3
  MaxChunks = 2
  HighWaterMark = 2
  None = None
CHECK_DEADLOCK FALSE
PROPERTY CompletedNotAborted
