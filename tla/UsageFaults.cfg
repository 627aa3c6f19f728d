SPECIFICATION FairSpec
CONSTANTS
  r1 = r1 r2 = r2 r3 = r3 t1 = t1 m1 = m1 m2 = m2 p1 = p1 p2 = p2
  Response = {r1, r2}
  Tenant = {t1}
  Model = {m1, m2}
  TenantOf <- MCTenantOf
  ModelOf <- MCModelOf
  Run = {p1, p2}
  maxAttempts = 2
  MaxConcurrent = 2
  MaxDay = 1
  MaxOutages = 1
  MaxOverlaps = 1
  MaxFaults = 1
  FaultKinds = {"lostAck", "fileError", "crash"}
CHECK_DEADLOCK FALSE
INVARIANTS TypeOK RecordedIsCredited DeadLettersKept RowsPerKeyBounded 
PROPERTIES RecorderTerminates 
