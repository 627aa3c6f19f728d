SPECIFICATION Spec
CONSTANTS
  r1 = r1 r2 = r2 r3 = r3 t1 = t1 m1 = m1 m2 = m2 p1 = p1 p2 = p2
  Response = {r1, r2}
  Tenant = {t1}
  Model = {m1, m2}
  TenantOf <- MCTenantOf
  ModelOf <- MCModelOf
  Run = {}
  maxAttempts = 3
  MaxConcurrent = 2
  MaxDay = 0
  MaxOutages = 0
  MaxOverlaps = 0
  MaxFaults = 0
  FaultKinds = {}
CHECK_DEADLOCK FALSE
INVARIANTS OneRowPerKey
