SPECIFICATION FairSpec
CONSTANTS
  Attempts = {a1, a2}
  Kinds = {"h1", "h2"}
\* A user may keep a connection for ever.
CHECK_DEADLOCK FALSE
INVARIANTS TypeOK ProxiedExact NoFalseTunnel NoStraySocket
PROPERTIES EndsTogether AttemptsEnd
