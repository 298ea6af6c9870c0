SPECIFICATION Spec
CONSTANTS
  n1 = n1
  n2 = n2
  n3 = n3
  Calls = {c1, c2}
  Names = {n1, n2, n3}
  Negotiates <- OneOfEach
  Failures = {"timeout"}
  None = None
CHECK_DEADLOCK FALSE
INVARIANT ProperRequest
