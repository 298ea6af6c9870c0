SPECIFICATION FairSpec
CONSTANTS
  Capacities = {0, 1, 2}
  MaxLength = 5
\* A list of MaxLength sessions takes no more insertions.
CHECK_DEADLOCK FALSE
INVARIANTS Bracketed
PROPERTIES KeepsOrder SearchEnds
