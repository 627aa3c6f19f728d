SPECIFICATION Spec
CONSTANTS
  c1 = c1 c2 = c2
  Caller = {c1, c2}
  InitialStates = {"CLOSED"}
  FailureThreshold = 50
  minRequests = 3
  MaxCalls = 4
CHECK_DEADLOCK FALSE
INVARIANTS OpensAtThreshold
