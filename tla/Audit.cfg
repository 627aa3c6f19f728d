SPECIFICATION FairSpec
CONSTANTS
  r1 = r1 r2 = r2 r3 = r3 r4 = r4
  Request = {r1, r2, r3, r4}
  Audited = {r1, r2, r3, r4}
  BufferSize = 2
  MaxFaults = 2
CHECK_DEADLOCK FALSE
INVARIANTS TypeOK EachInItsPlace CloseLosesAtMostBuffer BatchBounded
PROPERTIES AcceptedIsWritten
