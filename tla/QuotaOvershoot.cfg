SPECIFICATION QuotaSpec
CONSTANTS
  r1 = r1 r2 = r2 r3 = r3 r4 = r4 r5 = r5 t1 = t1 m1 = m1 m2 = m2 p1 = p1
  Response = {r2, r3, r4, r5}
  Tenant = {t1}
  Model = {m1, m2}
  TenantOf <- MCTenantOf
  ModelOf <- OneModel
  Cost <- MCCost
  MessageBytes <- MCBytes
  QuotaDaily <- TightQuota
  Run = {p1}
  maxAttempts = 2
  MaxConcurrent = 2
  MaxDay = 1
  MaxOutages = 1
  MaxOverlaps = 0
  MaxFaults = 1
  FaultKinds = {"crash"}
  MaxOpen = 2
CHECK_DEADLOCK FALSE
SYMMETRY RequestSymmetry
INVARIANTS OvershootBounded
