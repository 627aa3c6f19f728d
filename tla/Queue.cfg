SPECIFICATION FairSpec
CONSTANTS
  w1 = w1 w2 = w2
  Part = {"queue", "default", "jobs"}
  Worker = {w1, w2}
  DefaultQueue <- PrefixedDefault
  QueueNames <- PrefixedNames
  JobType = {"token_calculation", "unknown"}
  Handled = {"token_calculation", "usage_tracking"}
  Chaining = {"token_calculation"}
  MaxSends = 4
  MaxJobs = 2
  MaxFaults = 3
CHECK_DEADLOCK FALSE
INVARIANTS TypeOK HandledAtMostOnce StopIsPrompt
PROPERTIES DefaultListDrains
