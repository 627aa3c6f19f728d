SPECIFICATION FairChainSpec
CONSTANTS
  k1 = k1 r1 = r1
  Key = {k1}
  Rate = 2
  Capacity = 3
  Window = 4
  MaxSkew = 1
  MaxTime = 4
  Request = {r1}
  Chain <- MCChain
  Clients = {"redis", "nil"}
  LimitsOf <- MCLimitsOf
  Submissions <- MCSubmissions
  Malformed = Malformed
  MaxLost = 1
CHECK_DEADLOCK FALSE
INVARIANTS ChainTypeOK TypeOK AdmissionBounded DebtBounded
           PreflightIsFree HeadersOnEveryAnswer VerdictFitsSchema
PROPERTIES EveryRequestEnds
