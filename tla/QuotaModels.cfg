SPECIFICATION QuotaSpec
CONSTANTS
  r1 = r1 r2 = r2 r3 = r3 r4 = r4 r5 = r5 t1 = t1 m1 = m1 m2 = m2 p1 = p1
  Response = {r1, r2, r3}
  Tenant = {t1}
  Model = {m1, m2}
  TenantOf <- MCTenantOf
  ModelOf <- TwoModels
  Cost <- MCCost
  MessageBytes <- MCBytes
  QuotaDaily <- MCQuota
  Run = {}
  maxAttempts = 3
  MaxConcurrent = 1
  MaxDay = 0
  MaxOutages = 0
  MaxOverlaps = 0
  MaxFaults = 0
  FaultKinds = {}
  MaxOpen = 1
CHECK_DEADLOCK FALSE
INVARIANTS AdmittedWithinQuota
