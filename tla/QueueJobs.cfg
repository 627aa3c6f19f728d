SPECIFICATION FairSpec
CONSTANTS
  w1 = w1 w2 = w2
  Part = {"queue", "default", "jobs"}
  Worker = {w1}
  DefaultQueue <- ServerDefault
  QueueNames <- ServerNames
  JobType = {"usage_tracking"}
  Handled = {"token_calculation", "usage_tracking"}
  Chaining = {"token_calculation"}
  MaxSends = 4
  MaxJobs = 1
  MaxFaults = 0
CHECK_DEADLOCK FALSE
PROPERTIES JobsAreProcessed
