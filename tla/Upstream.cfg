SPECIFICATION FairClientSpec
CONSTANTS
  c1 = c1 c2 = c2
  Caller = {c1, c2}
  InitialStates = {"CLOSED", "OPEN"}
  FailureThreshold = 50
  minRequests = 1
  MaxCalls = 2
  Streaming = {c2}
  maxRetries = 2
  Lines = 2
CHECK_DEADLOCK FALSE
INVARIANTS TypeOK CountersExact ClientTypeOK BilledAsAnswered BreakerCountsRequests
PROPERTIES RetryOnlyTransient ImplementsBreaker EveryRequestAnswered
