------------------------- MODULE MiddlewareChainProofs -------------------------
(***************************************************************************)
(* What the middleware chain guarantees for any number of requests and     *)
(* gateways, any bodies, and any chain of handlers in which those a        *)
(* theorem names come in the order it assumes.                             *)
(***************************************************************************)
EXTENDS MiddlewareChain, TokenBucketProofs, ValidationProofs

\* The chain has a length, and the indices of its handlers end there.
LEMMA Lengths ==
    /\ Len(Chain) \in Nat /\ DOMAIN Chain = 1 .. Len(Chain) /\ End \in Nat
    /\ \A r \in Request : Len(LimitsOf[r]) \in Nat
  BY ChainConstantsOK DEF End

\* The two ways on, by one handler or to the end, stay in the chain.
LEMMA AtTyped ==
    ASSUME ChainTypeOK, NEW r \in Request, at[r] \in DOMAIN Chain,
           GoOn(r) \/ at' = [at EXCEPT ![r] = End]
    PROVE  at' \in [Request -> 0 .. End]
<1>1. at \in [Request -> 0 .. End]
  BY DEF ChainTypeOK
<1>2. End = Len(Chain) + 1 /\ at[r] \in 1 .. Len(Chain)
  BY Lengths DEF End
<1>3. CASE at' = [at EXCEPT ![r] = at[r] + 1]
  BY <1>1, <1>2, <1>3, Lengths
<1>4. CASE at' = [at EXCEPT ![r] = End]
  BY <1>1, <1>4, Lengths
<1>5. QED
  BY <1>3, <1>4 DEF GoOn

\* Every handler keeps the types of what belongs to the request.
LEMMA ChainTypePreserved ==
    ChainTypeOK /\ [ChainNext]_<<vars, chainVars>> => ChainTypeOK'
<1> SUFFICES ASSUME ChainTypeOK, [ChainNext]_<<vars, chainVars>>
             PROVE  ChainTypeOK'
  OBVIOUS
<1> DEFINE AtOK     == at \in [Request -> 0 .. End]
           StatusOK == status \in [Request -> {0, 200, 204, 400, 500}]
           MarksOK  == marks \in [Request -> SUBSET {"X-Request-ID", "X-Frame-Options",
                                     "Access-Control-Allow-Origin", "upstream_client"}]
<1>0. AtOK /\ StatusOK /\ MarksOK
  BY DEF ChainTypeOK
<1>1. ASSUME UNCHANGED chainVars
      PROVE  ChainTypeOK'
  BY <1>1 DEF ChainTypeOK, chainVars, reqVars, seenVars, limitVars
<1>2. ASSUME NEW r \in Request, Arrive(r)
      PROVE  ChainTypeOK'
  BY <1>2 DEF ChainTypeOK, Arrive, seenVars, limitVars, End
<1>3. ASSUME NEW r \in Request, RequestID(r) \/ Security(r) \/ Pool(r)
      PROVE  ChainTypeOK'
  <2>1. AtOK'
    BY <1>3, AtTyped DEF RequestID, Security, Pool, Here
  <2>2. MarksOK'
    BY <1>0, <1>3 DEF RequestID, Security, Pool, Mark
  <2>3. served' = served /\ rejected' = rejected /\ sent' = sent /\ client' = client
    BY <1>3 DEF RequestID, Security, Pool, seenVars, limitVars
  <2>4. asked' = asked /\ charged' = charged /\ lost' = lost /\ status' = status /\ method' = method
    BY <1>3 DEF RequestID, Security, Pool, seenVars, limitVars
  <2>5. QED
    BY <2>1, <2>2, <2>3, <2>4 DEF ChainTypeOK
<1>4. ASSUME NEW r \in Request, CORS(r)
      PROVE  ChainTypeOK'
  <2>1. AtOK'
    BY <1>4, AtTyped DEF CORS, Here, Abort
  <2>2. StatusOK'
    BY <1>0, <1>4 DEF CORS, Abort
  <2>3. MarksOK'
    BY <1>0, <1>4 DEF CORS, Mark
  <2>4. served' = served /\ rejected' = rejected /\ sent' = sent /\ client' = client
    BY <1>4 DEF CORS, seenVars, limitVars
  <2>5. asked' = asked /\ charged' = charged /\ lost' = lost /\ method' = method
    BY <1>4 DEF CORS, seenVars, limitVars
  <2>6. QED
    BY <2>1, <2>2, <2>3, <2>4, <2>5 DEF ChainTypeOK
<1>5. ASSUME NEW r \in Request, CheckNil(r) \/ LimiterPasses(r) \/ Breaker(r)
      PROVE  ChainTypeOK'
  <2>1. AtOK'
    BY <1>5, AtTyped DEF CheckNil, LimiterPasses, Breaker, Here, Recover, Abort
  <2>2. StatusOK'
    BY <1>0, <1>5 DEF CheckNil, LimiterPasses, Breaker, Recover, Abort
  <2>3. served' = served /\ rejected' = rejected /\ sent' = sent /\ client' = client
    BY <1>5 DEF CheckNil, LimiterPasses, Breaker, seenVars, limitVars
  <2>4. asked' = asked /\ charged' = charged /\ lost' = lost /\ method' = method /\ marks' = marks
    BY <1>5 DEF CheckNil, LimiterPasses, Breaker, seenVars, limitVars
  <2>5. QED
    BY <2>1, <2>2, <2>3, <2>4 DEF ChainTypeOK
<1>6. ASSUME NEW r \in Request, CheckAnswered(r)
      PROVE  ChainTypeOK'
  <2>1. AtOK'
    BY <1>6, AtTyped DEF CheckAnswered, Here, Recover, Abort
  <2>2. StatusOK'
    BY <1>0, <1>6 DEF CheckAnswered, Recover, Abort
  <2>3. charged' \in [Request -> Nat]
    BY <1>6 DEF ChainTypeOK, CheckAnswered, Charge
  <2>4. served' = served /\ rejected' = rejected /\ sent' = sent /\ client' = client
    BY <1>6 DEF CheckAnswered, seenVars
  <2>5. asked' = asked /\ lost' = lost /\ method' = method /\ marks' = marks
    BY <1>6 DEF CheckAnswered, seenVars
  <2>6. QED
    BY <2>1, <2>2, <2>3, <2>4, <2>5 DEF ChainTypeOK
<1>7. ASSUME NEW r \in Request, CheckLost(r)
      PROVE  ChainTypeOK'
  <2>1. lost' \in [Request -> 0 .. MaxLost]
    BY <1>7, ChainConstantsOK DEF ChainTypeOK, CheckLost
  <2>2. charged' \in [Request -> Nat]
    BY <1>7 DEF ChainTypeOK, CheckLost, Charge
  <2>3. asked' \in [Request -> Nat] /\ \A q \in Request : asked'[q] <= Len(LimitsOf[q])
    <3>1. /\ asked \in [Request -> Nat] /\ \A q \in Request : asked[q] <= Len(LimitsOf[q])
          /\ asked[r] < Len(LimitsOf[r])
      BY <1>7 DEF ChainTypeOK, CheckLost, Asking
    <3>2. asked' = asked \/ asked' = [asked EXCEPT ![r] = asked[r] + 1]
      BY <1>7 DEF CheckLost
    <3>3. QED
      BY <3>1, <3>2, Lengths
  <2>4. at' = at /\ status' = status /\ marks' = marks /\ method' = method /\ client' = client
    BY <1>7 DEF CheckLost, reqVars
  <2>5. served' = served /\ rejected' = rejected /\ sent' = sent
    BY <1>7 DEF CheckLost, reqVars, seenVars
  <2>6. QED
    BY <2>1, <2>2, <2>3, <2>4, <2>5 DEF ChainTypeOK
<1>8. ASSUME NEW r \in Request, CheckFailed(r)
      PROVE  ChainTypeOK'
  BY <1>8 DEF ChainTypeOK, CheckFailed, Asking, reqVars, seenVars
<1>9. ASSUME NEW r \in Request, Validate(r)
      PROVE  ChainTypeOK'
  <2>1. AtOK'
    BY <1>9, AtTyped DEF Validate, Here
  <2>2. StatusOK'
    BY <1>0, <1>9 DEF Validate, Respond
  <2>3. sent' \in [Request -> {"unseen", "valid", "overlooked", "invalid"}]
    <3>1. PICK v \in Verdicts : sent' = [sent EXCEPT ![r] = v[1]]
      BY <1>9 DEF Validate
    <3>2. v[1] \in {"valid", "overlooked", "invalid"}
      BY ChainConstantsOK DEF Verdicts
    <3>3. QED
      BY <3>1, <3>2 DEF ChainTypeOK
  <2>4. rejected' \in [Request -> BOOLEAN]
    BY <1>9 DEF ChainTypeOK, Validate
  <2>5. served' = served /\ client' = client /\ method' = method /\ marks' = marks
    BY <1>9 DEF Validate, limitVars
  <2>6. asked' = asked /\ charged' = charged /\ lost' = lost
    BY <1>9 DEF Validate, limitVars
  <2>7. QED
    BY <2>1, <2>2, <2>3, <2>4, <2>5, <2>6 DEF ChainTypeOK
<1>10. ASSUME NEW r \in Request, Handle(r)
      PROVE  ChainTypeOK'
  <2>1. AtOK'
    BY <1>10, AtTyped DEF Handle, Here, Recover, Abort
  <2>2. StatusOK'
    BY <1>0, <1>10 DEF Handle, Respond, Recover, Abort
  <2>3. served' \in [Request -> BOOLEAN]
    BY <1>10 DEF ChainTypeOK, Handle
  <2>4. rejected' = rejected /\ sent' = sent /\ client' = client /\ method' = method /\ marks' = marks
    BY <1>10 DEF Handle, limitVars
  <2>5. asked' = asked /\ charged' = charged /\ lost' = lost
    BY <1>10 DEF Handle, limitVars
  <2>6. QED
    BY <2>1, <2>2, <2>3, <2>4, <2>5 DEF ChainTypeOK
<1>11. QED
  BY <1>1, <1>2, <1>3, <1>4, <1>5, <1>6, <1>7, <1>8, <1>9, <1>10
     DEF ChainNext, Step, Limiter, chainVars

\* The type invariant of the chain.
THEOREM ChainTypeCorrect == ChainSpec => []ChainTypeOK
<1>1. ChainInit => ChainTypeOK
  BY Lengths, ChainConstantsOK DEF ChainInit, ChainTypeOK
<1>2. QED
  BY <1>1, ChainTypePreserved, PTL DEF ChainSpec

\* Every step is one call of Check, or leaves the buckets alone: the gateway is one
\* more caller of them.
LEMMA StepsOfBuckets ==
    ChainTypeOK /\ [ChainNext]_<<vars, chainVars>> => [Next]_vars
<1> SUFFICES ASSUME ChainTypeOK, [ChainNext]_<<vars, chainVars>>
             PROVE  [Next]_vars
  OBVIOUS
<1>1. ASSUME NEW r \in Request, NEW now \in Clocks, Charge(r, now), Asking(r)
      PROVE  Next
  <2>1. asked[r] + 1 \in 1 .. Len(LimitsOf[r])
    BY <1>1, Lengths DEF Asking, ChainTypeOK
  <2>2. Limit(r) \in Key
    BY <2>1, ChainConstantsOK DEF Limit
  <2>3. QED
    BY <1>1, <2>2 DEF Charge, Next
<1>2. ASSUME NEW r \in Request, CheckAnswered(r) \/ CheckLost(r)
      PROVE  Next
  BY <1>1, <1>2 DEF CheckAnswered, CheckLost
<1>3. ASSUME NEW r \in Request,
             Arrive(r) \/ RequestID(r) \/ Security(r) \/ CORS(r) \/ CheckNil(r)
             \/ CheckFailed(r) \/ LimiterPasses(r) \/ Pool(r) \/ Breaker(r) \/ Validate(r)
             \/ Handle(r)
      PROVE  UNCHANGED vars
  BY <1>3 DEF Arrive, RequestID, Security, CORS, CheckNil, CheckFailed, LimiterPasses, Pool,
              Breaker, Validate, Handle
<1>4. QED
  BY <1>2, <1>3 DEF ChainNext, Step, Limiter

\* The chain implements the buckets it shares.
THEOREM ChainImplementsBucket == ChainSpec => Spec
<1>1. ChainInit => Init
  BY DEF ChainInit
<1>2. QED
  BY <1>1, ChainTypeCorrect, StepsOfBuckets, PTL DEF ChainSpec, Spec

\* So what the buckets guarantee holds of gateways that answer 500 after each charge,
\* lose replies and repeat commands.
THEOREM ChainAdmissionBounded == ChainSpec => [](AdmissionBounded /\ DebtBounded)
  BY ChainImplementsBucket, AdmissionIsBounded, DebtIsBounded, PTL
-------------------------------------------------------------------------------
(* What one request goes through.                                          *)

Standing(q) ==
    /\ at'[q] = at[q] /\ asked'[q] = asked[q] /\ status'[q] = status[q]
    /\ marks'[q] = marks[q] /\ served'[q] = served[q] /\ rejected'[q] = rejected[q]
    /\ charged'[q] = charged[q] /\ lost'[q] = lost[q]

\* A step is the request's own or none of its business; the client and the methods
\* stay what they are.
LEMMA OwnSteps ==
    ASSUME ChainTypeOK, [ChainNext]_<<vars, chainVars>>, NEW q \in Request
    PROVE  /\ Standing(q) \/ Arrive(q) \/ Step(q)
           /\ client' = client /\ method' = method
<1>1. CASE UNCHANGED chainVars
  BY <1>1 DEF chainVars, reqVars, seenVars, limitVars, Standing
<1>2. ASSUME NEW r \in Request, Arrive(r) \/ Step(r)
      PROVE  client' = client /\ method' = method
  BY <1>2 DEF Arrive, Step, RequestID, Security, CORS, Limiter, CheckNil, CheckAnswered,
      CheckLost, CheckFailed, LimiterPasses, Pool, Breaker, Validate, Handle, reqVars, limitVars
<1>3. ASSUME NEW r \in Request, r # q, Arrive(r) \/ RequestID(r) \/ Security(r) \/ CORS(r)
             \/ LimiterPasses(r) \/ Pool(r) \/ Breaker(r) \/ CheckNil(r)
      PROVE  Standing(q)
  BY <1>3 DEF ChainTypeOK, Arrive, RequestID, Security, CORS, LimiterPasses, Pool, Breaker,
      CheckNil, GoOn, Mark, Abort, Recover, Respond, seenVars, limitVars, Standing
<1>4. ASSUME NEW r \in Request, r # q, CheckAnswered(r) \/ CheckLost(r) \/ CheckFailed(r)
      PROVE  Standing(q)
  BY <1>4 DEF ChainTypeOK, CheckAnswered, CheckLost, CheckFailed, Charge, Abort, Recover,
      reqVars, seenVars, Standing
<1>5. ASSUME NEW r \in Request, r # q, Validate(r) \/ Handle(r)
      PROVE  Standing(q)
  BY <1>5 DEF ChainTypeOK, Validate, Handle, GoOn, Abort, Recover, Respond, limitVars, Standing
<1>6. QED
  BY <1>1, <1>2, <1>3, <1>4, <1>5 DEF ChainNext, Step, Limiter, chainVars

GoesOn(r)     == at'[r] = at[r] + 1 /\ status'[r] = status[r]
Ends(r, code) == at'[r] = End /\ status'[r] = code
Seen(r)       == served'[r] = served[r] /\ rejected'[r] = rejected[r]
Limits(r)     == asked'[r] = asked[r] /\ charged'[r] = charged[r] /\ lost'[r] = lost[r]

\* What each handler does to its request.
LEMMA Effects ==
    ASSUME ChainTypeOK, NEW r \in Request
    PROVE  /\ Arrive(r) => at[r] = 0 /\ at'[r] = 1 /\ status'[r] = status[r]
                           /\ Seen(r) /\ Limits(r)
           /\ RequestID(r) \/ Security(r) \/ Pool(r) \/ Breaker(r) =>
                 /\ \E name \in {"requestid", "security", "pool", "breaker"} : Here(r, name)
                 /\ GoesOn(r) /\ Seen(r) /\ Limits(r)
           /\ CORS(r) => /\ Here(r, "cors") /\ Seen(r) /\ Limits(r)
                         /\ r \in Preflight => Ends(r, 204)
                         /\ r \notin Preflight => GoesOn(r)
           /\ CheckNil(r) => Here(r, "limiter") /\ Ends(r, 500) /\ Seen(r) /\ Limits(r)
           /\ LimiterPasses(r) => Here(r, "limiter") /\ GoesOn(r) /\ Seen(r) /\ Limits(r)
           /\ CheckAnswered(r) => Here(r, "limiter") /\ Ends(r, 500) /\ Seen(r)
           /\ CheckLost(r) \/ CheckFailed(r) =>
                 /\ Here(r, "limiter") /\ at'[r] = at[r] /\ status'[r] = status[r] /\ Seen(r)
           /\ Validate(r) => /\ Here(r, "validation") /\ at'[r] = at[r] + 1
                             /\ served'[r] = served[r] /\ Limits(r)
           /\ Handle(r) => /\ Here(r, "handler") /\ rejected'[r] = rejected[r] /\ Limits(r)
                           /\ (at'[r] = at[r] + 1 /\ status'[r] = 200) \/ Ends(r, 500)
                           /\ served'[r]
<1>1. Arrive(r) => at[r] = 0 /\ at'[r] = 1 /\ status'[r] = status[r] /\ Seen(r) /\ Limits(r)
  BY DEF ChainTypeOK, Arrive, Seen, Limits, seenVars, limitVars
<1>2. RequestID(r) \/ Security(r) \/ Pool(r) \/ Breaker(r) =>
        /\ \E name \in {"requestid", "security", "pool", "breaker"} : Here(r, name)
        /\ GoesOn(r) /\ Seen(r) /\ Limits(r)
  BY DEF ChainTypeOK, RequestID, Security, Pool, Breaker, GoOn, GoesOn, Seen, Limits,
         seenVars, limitVars
<1>3. CORS(r) => /\ Here(r, "cors") /\ Seen(r) /\ Limits(r)
                 /\ r \in Preflight => Ends(r, 204)
                 /\ r \notin Preflight => GoesOn(r)
  BY DEF ChainTypeOK, CORS, Abort, GoOn, GoesOn, Ends, Seen, Limits, seenVars, limitVars
<1>4. CheckNil(r) => Here(r, "limiter") /\ Ends(r, 500) /\ Seen(r) /\ Limits(r)
  BY DEF ChainTypeOK, CheckNil, Recover, Abort, Ends, Seen, Limits, seenVars, limitVars
<1>5. LimiterPasses(r) => Here(r, "limiter") /\ GoesOn(r) /\ Seen(r) /\ Limits(r)
  BY DEF ChainTypeOK, LimiterPasses, GoOn, GoesOn, Seen, Limits, seenVars, limitVars
<1>6. CheckAnswered(r) => Here(r, "limiter") /\ Ends(r, 500) /\ Seen(r)
  BY DEF ChainTypeOK, CheckAnswered, Recover, Abort, Ends, Seen, seenVars
<1>7. CheckLost(r) \/ CheckFailed(r) =>
        /\ Here(r, "limiter") /\ at'[r] = at[r] /\ status'[r] = status[r] /\ Seen(r)
  BY DEF ChainTypeOK, CheckLost, CheckFailed, Seen, reqVars, seenVars
<1>8. Validate(r) => /\ Here(r, "validation") /\ at'[r] = at[r] + 1
                     /\ served'[r] = served[r] /\ Limits(r)
  BY DEF ChainTypeOK, Validate, GoOn, Limits, limitVars
<1>9. Handle(r) => /\ Here(r, "handler") /\ rejected'[r] = rejected[r] /\ Limits(r)
                   /\ (at'[r] = at[r] + 1 /\ status'[r] = 200) \/ Ends(r, 500)
  BY DEF ChainTypeOK, Handle, GoOn, Respond, Recover, Abort, Ends, Limits, limitVars
<1>10. Handle(r) => served'[r]
  BY DEF ChainTypeOK, Handle
<1>11. QED
  BY <1>1, <1>2, <1>3, <1>4, <1>5, <1>6, <1>7, <1>8, <1>9, <1>10

\* With CORS in front of limiter and handler a preflight takes no token and runs
\* nothing, whatever else the chain holds.
THEOREM PreflightsAreFree ==
    ASSUME NEW c \in DOMAIN Chain, Chain[c] = "cors",
           \A i \in DOMAIN Chain : Chain[i] \in {"limiter", "handler"} => c < i
    PROVE  ChainSpec => []PreflightIsFree
<1> DEFINE Free(r) == /\ charged[r] = 0 /\ ~served[r]
                      /\ at[r] <= c \/ at[r] = End
           Inv == \A r \in Preflight : Free(r)
<1>1. ChainInit => Inv
  BY Lengths DEF ChainInit, Preflight
<1>2. ChainTypeOK /\ Inv /\ [ChainNext]_<<vars, chainVars>> => Inv'
  <2> SUFFICES ASSUME ChainTypeOK, Inv, [ChainNext]_<<vars, chainVars>>,
                      NEW r \in Preflight'
               PROVE  Free(r)'
    OBVIOUS
  <2>1. r \in Request /\ r \in Preflight /\ Free(r)
    BY OwnSteps DEF Preflight
  <2>2. Standing(r) \/ Arrive(r) \/ Step(r)
    BY <2>1, OwnSteps
  <2>3. /\ at \in [Request -> Int] /\ at[r] \in 0 .. End
        /\ c \in 1 .. Len(Chain) /\ End = Len(Chain) + 1 /\ Len(Chain) \in Nat
    BY <2>1, Lengths DEF ChainTypeOK, End
  <2>4. CASE Standing(r)
    BY <2>1, <2>3, <2>4 DEF Standing
  <2>5. CASE Arrive(r)
    BY <2>1, <2>3, <2>5, Effects DEF Seen, Limits
  <2>6. CASE RequestID(r) \/ Security(r) \/ Pool(r) \/ Breaker(r)
    BY <2>1, <2>3, <2>6, Effects DEF Here, GoesOn, Seen, Limits
  <2>7. CASE CORS(r)
    BY <2>1, <2>3, <2>7, Effects DEF Here, Ends, Seen, Limits
  <2>8. CASE Limiter(r)
    BY <2>1, <2>3, <2>8, Effects DEF Limiter, Here
  <2>9. CASE Validate(r)
    BY <2>1, <2>3, <2>9, Effects DEF Here, Limits
  <2>10. CASE Handle(r)
    BY <2>1, <2>3, <2>10, Effects DEF Here
  <2>11. QED
    BY <2>2, <2>4, <2>5, <2>6, <2>7, <2>8, <2>9, <2>10 DEF Step
<1>3. Inv => PreflightIsFree
  BY DEF PreflightIsFree
<1>4. QED
  BY <1>1, <1>2, <1>3, ChainTypeCorrect, PTL DEF ChainSpec

\* Headers are only ever added, and each of the three handlers adds its own.
LEMMA MarksGrow ==
    ASSUME ChainTypeOK, NEW r \in Request, Arrive(r) \/ Step(r)
    PROVE  /\ marks[r] \subseteq marks'[r]
           /\ Here(r, "requestid") => "X-Request-ID" \in marks'[r]
           /\ Here(r, "security") => "X-Frame-Options" \in marks'[r]
           /\ Here(r, "cors") => "Access-Control-Allow-Origin" \in marks'[r]
<1>1. CASE RequestID(r) \/ Security(r) \/ CORS(r) \/ Pool(r)
  BY <1>1 DEF ChainTypeOK, RequestID, Security, CORS, Pool, Here, Mark
<1>2. CASE Breaker(r) \/ Validate(r) \/ Handle(r) \/ LimiterPasses(r) \/ CheckNil(r)
           \/ CheckAnswered(r)
  BY <1>2 DEF Breaker, Validate, Handle, LimiterPasses, CheckNil, CheckAnswered, Here
<1>3. CASE CheckLost(r) \/ CheckFailed(r)
  BY <1>3 DEF CheckLost, CheckFailed, Here, reqVars
<1>4. CASE Arrive(r)
  BY <1>4, Lengths DEF Arrive, Here
<1>5. QED
  BY <1>1, <1>2, <1>3, <1>4 DEF Step, Limiter

\* A chain that starts the way NewServer's does puts its headers on every answer, those
\* of panics and preflights too.
THEOREM HeadersAlways ==
    ASSUME {1, 2, 3} \subseteq DOMAIN Chain,
           Chain[1] = "requestid", Chain[2] = "security", Chain[3] = "cors"
    PROVE  ChainSpec => []HeadersOnEveryAnswer
<1> DEFINE Marked(r) == /\ at[r] > 1 => "X-Request-ID" \in marks[r]
                        /\ at[r] > 2 => "X-Frame-Options" \in marks[r]
                        /\ at[r] > 3 => "Access-Control-Allow-Origin" \in marks[r]
           Inv == \A r \in Request : Marked(r)
<1>1. ChainInit => Inv
  BY DEF ChainInit
<1>2. ChainTypeOK /\ Inv /\ [ChainNext]_<<vars, chainVars>> => Inv'
  <2> SUFFICES ASSUME ChainTypeOK, Inv, [ChainNext]_<<vars, chainVars>>, NEW r \in Request
               PROVE  Marked(r)'
    OBVIOUS
  <2>1. /\ Standing(r) \/ Arrive(r) \/ Step(r)
        /\ Marked(r)
    BY OwnSteps
  <2>2. at[r] \in 0 .. End /\ End \in Nat
    BY Lengths DEF ChainTypeOK
  <2>3. CASE Standing(r)
    BY <2>1, <2>3 DEF Standing
  <2>4. CASE Arrive(r)
    BY <2>4, Effects
  <2>5. CASE Step(r)
    <3>1. at[r] \in DOMAIN Chain /\ (at'[r] = at[r] + 1 \/ at'[r] = at[r] \/ at[r] >= 3)
      BY <2>2, <2>5, Lengths, Effects
         DEF Step, Limiter, Here, GoesOn
    <3>2. QED
      BY <2>1, <2>2, <2>5, <3>1, MarksGrow DEF Here
  <2>6. QED
    BY <2>1, <2>3, <2>4, <2>5
<1>3. ChainTypeOK /\ Inv => HeadersOnEveryAnswer
  BY Lengths DEF HeadersOnEveryAnswer, End
<1>4. QED
  BY <1>1, <1>2, <1>3, ChainTypeCorrect, PTL DEF ChainSpec

-------------------------------------------------------------------------------
(* What validation says of a body.                                         *)

\* A submission is no JSON at all, or what encoding/json makes of a body, sent to a
\* schema; its worth is what the words of the schema say, whether or not the code
\* looks at all of them.
Judged(s) ==
    IF s.body = Malformed
    THEN s.worth = "invalid"
    ELSE /\ \A x \in DOMAIN s.body : JSONValue(s.body[x])
         /\ \/ /\ s.schema = LLMChatCompletionSchema
               /\ s.worth = Worth(ChatBodyOK(s.body, TRUE), ChatBodyOK(s.body, FALSE))
            \/ /\ s.schema = QueueJobSchema
               /\ s.worth = Worth(JobBodyOK(s.body, TRUE), JobBodyOK(s.body, FALSE))
            \/ /\ s.schema = TenantCreateSchema
               /\ s.worth = Worth(TenantBodyOK(s.body, TRUE), TenantBodyOK(s.body, FALSE))
            \/ /\ s.schema = APIKeyCreateSchema
               /\ s.worth = Worth(KeyBodyOK(s.body, TRUE), KeyBodyOK(s.body, FALSE))

LEMMA WorthOfAccepted ==
    ASSUME NEW strictly, NEW loosely, NEW accepted, accepted <=> loosely, strictly => accepted
    PROVE  Worth(strictly, loosely) = "invalid" <=> ~accepted
BY DEF Worth

LEMMA VerdictsFit ==
    ASSUME \A s \in Submissions : Judged(s), NEW v \in Verdicts
    PROVE  v[1] = "invalid" <=> ~v[2]
<1>1. PICK s \in Submissions : v = <<s.worth, ValidateRequest(s.body, s.schema)>>
  BY DEF Verdicts
<1>2. s.worth = "invalid" <=> ~ValidateRequest(s.body, s.schema)
  <2>1. CASE s.body = Malformed
    BY <2>1 DEF Judged, ValidateRequest
  <2>2. CASE s.body # Malformed
    <3>1. /\ \A x \in DOMAIN s.body : JSONValue(s.body[x])
          /\ \/ /\ s.schema = LLMChatCompletionSchema
                /\ s.worth = Worth(ChatBodyOK(s.body, TRUE), ChatBodyOK(s.body, FALSE))
             \/ /\ s.schema = QueueJobSchema
                /\ s.worth = Worth(JobBodyOK(s.body, TRUE), JobBodyOK(s.body, FALSE))
             \/ /\ s.schema = TenantCreateSchema
                /\ s.worth = Worth(TenantBodyOK(s.body, TRUE), TenantBodyOK(s.body, FALSE))
             \/ /\ s.schema = APIKeyCreateSchema
                /\ s.worth = Worth(KeyBodyOK(s.body, TRUE), KeyBodyOK(s.body, FALSE))
      BY <2>2 DEF Judged
    <3>2. CASE s.schema = LLMChatCompletionSchema
               /\ s.worth = Worth(ChatBodyOK(s.body, TRUE), ChatBodyOK(s.body, FALSE))
      BY <2>2, <3>1, <3>2, ChatVerdict, WorthOfAccepted, Zenon
    <3>3. CASE s.schema = QueueJobSchema
               /\ s.worth = Worth(JobBodyOK(s.body, TRUE), JobBodyOK(s.body, FALSE))
      BY <2>2, <3>1, <3>3, JobVerdict, WorthOfAccepted, Zenon
    <3>4. CASE s.schema = TenantCreateSchema
               /\ s.worth = Worth(TenantBodyOK(s.body, TRUE), TenantBodyOK(s.body, FALSE))
      BY <2>2, <3>1, <3>4, TenantVerdict, WorthOfAccepted, Zenon
    <3>5. CASE s.schema = APIKeyCreateSchema
               /\ s.worth = Worth(KeyBodyOK(s.body, TRUE), KeyBodyOK(s.body, FALSE))
      BY <2>2, <3>1, <3>5, KeyVerdict, WorthOfAccepted, Zenon
    <3>6. QED
      BY <3>1, <3>2, <3>3, <3>4, <3>5
  <2>3. QED
    BY <2>1, <2>2
<1>3. v[1] = s.worth /\ v[2] = ValidateRequest(s.body, s.schema)
  BY <1>1
<1>4. QED
  BY <1>2, <1>3, Zenon

\* Whatever bodies are sent to the four schemas, in whatever order requests and gateways
\* interleave: validation refuses none that fits its whole schema, and all that break a
\* rule the code looks at; the three rules it never looks at are the ones it overlooks.
THEOREM VerdictsFitSchemas ==
    ASSUME \A s \in Submissions : Judged(s)
    PROVE  ChainSpec => []VerdictFitsSchema
<1>1. ChainInit => VerdictFitsSchema
  BY DEF ChainInit, VerdictFitsSchema
<1>2. ChainTypeOK /\ VerdictFitsSchema /\ [ChainNext]_<<vars, chainVars>> => VerdictFitsSchema'
  <2> SUFFICES ASSUME ChainTypeOK, VerdictFitsSchema, [ChainNext]_<<vars, chainVars>>
               PROVE  VerdictFitsSchema'
    OBVIOUS
  <2>1. ASSUME UNCHANGED <<sent, rejected>>
        PROVE  VerdictFitsSchema'
    BY <2>1, Zenon DEF VerdictFitsSchema
  <2>2. ASSUME NEW r \in Request, Validate(r)
        PROVE  VerdictFitsSchema'
    <3>1. PICK v \in Verdicts : /\ sent' = [sent EXCEPT ![r] = v[1]]
                                /\ rejected' = [rejected EXCEPT ![r] = ~v[2]]
      BY <2>2 DEF Validate
    <3>2. v[1] = "invalid" <=> ~v[2]
      BY VerdictsFit
    <3>3. SUFFICES ASSUME NEW q \in Request
                   PROVE  rejected'[q] <=> sent'[q] = "invalid"
      BY DEF VerdictFitsSchema
    <3>4. sent \in [Request -> {"unseen", "valid", "overlooked", "invalid"}] /\ rejected \in [Request -> BOOLEAN]
      BY DEF ChainTypeOK
    <3>5. CASE q = r
      <4>1. sent'[q] = v[1]
        BY <3>1, <3>4, <3>5
      <4>2. rejected'[q] = ~v[2]
        BY <3>1, <3>4, <3>5, Zenon
      <4>3. QED
        BY <3>2, <4>1, <4>2, Zenon
    <3>6. CASE q # r
      <4>1. sent'[q] = sent[q]
        BY <3>1, <3>4, <3>6
      <4>2. rejected'[q] = rejected[q]
        BY <3>1, <3>4, <3>6
      <4>3. rejected[q] <=> sent[q] = "invalid"
        BY DEF VerdictFitsSchema
      <4>4. QED
        BY <4>1, <4>2, <4>3, Zenon
    <3>7. QED
      BY <3>5, <3>6
  <2>3. ASSUME NEW r \in Request,
               Arrive(r) \/ RequestID(r) \/ Security(r) \/ CORS(r) \/ Limiter(r) \/ Pool(r)
               \/ Breaker(r) \/ Handle(r)
        PROVE  UNCHANGED <<sent, rejected>>
    BY <2>3 DEF Arrive, RequestID, Security, CORS, Limiter, CheckNil, CheckAnswered, CheckLost,
        CheckFailed, LimiterPasses, Pool, Breaker, Handle, reqVars, seenVars
  <2>4. ASSUME UNCHANGED chainVars
        PROVE  UNCHANGED <<sent, rejected>>
    BY <2>4 DEF chainVars, reqVars, seenVars
  <2>5. QED
    BY <2>1, <2>2, <2>3, <2>4 DEF ChainNext, Step
<1>3. QED
  BY <1>1, <1>2, ChainTypeCorrect, PTL DEF ChainSpec
-------------------------------------------------------------------------------
(* What EveryRequestEnds rests on besides fairness.                        *)

\* The steps a request has before it at most: the handlers it has not reached, the buckets
\* its limiter is not done with, and the replies that may yet be lost.
Ahead(r) == (End - at[r]) + (Len(LimitsOf[r]) - asked[r]) + (MaxLost - lost[r])

\* Counting up in one of three bounded counters is counting down in what is left of them.
LEMMA WhatIsLeft ==
    ASSUME NEW e \in Nat, NEW l \in Nat, NEW m \in Nat,
           NEW a \in 0 .. e, NEW b \in 0 .. l, NEW c \in 0 .. m
    PROVE  /\ (e - a) + (l - b) + (m - c) \in Nat
           /\ \A x, y, z \in Int :
                x + y + z > a + b + c =>
                    (e - x) + (l - y) + (m - z) < (e - a) + (l - b) + (m - c)
OBVIOUS

LEMMA AheadIsNat ==
    ASSUME ChainTypeOK, NEW r \in Request
    PROVE  /\ Ahead(r) \in Nat /\ at[r] \in 0 .. End
           /\ asked[r] \in 0 .. Len(LimitsOf[r]) /\ lost[r] \in 0 .. MaxLost
<1>1. /\ at[r] \in 0 .. End /\ asked[r] \in 0 .. Len(LimitsOf[r]) /\ lost[r] \in 0 .. MaxLost
      /\ End \in Nat /\ Len(LimitsOf[r]) \in Nat /\ MaxLost \in Nat
  BY Lengths, ChainConstantsOK DEF ChainTypeOK
<1>2. (End - at[r]) + (Len(LimitsOf[r]) - asked[r]) + (MaxLost - lost[r]) \in Nat
  BY <1>1, WhatIsLeft
<1>3. QED
  BY <1>1, <1>2 DEF Ahead

\* What the limiter's calls do to its request's own counters.
LEMMA LimiterCounts ==
    ASSUME ChainTypeOK, NEW r \in Request
    PROVE  /\ CheckAnswered(r) => asked'[r] = asked[r] /\ lost'[r] = lost[r]
           /\ CheckFailed(r) => /\ asked'[r] = asked[r] + 1 /\ lost'[r] = lost[r]
           /\ CheckLost(r) => /\ asked'[r] = asked[r] \/ asked'[r] = asked[r] + 1
                              /\ lost'[r] = lost[r] + 1
<1>1. /\ asked \in [Request -> Nat] /\ lost \in [Request -> 0 .. MaxLost]
      /\ MaxLost \in Nat
  BY ChainConstantsOK DEF ChainTypeOK
<1>2. CheckAnswered(r) => asked'[r] = asked[r] /\ lost'[r] = lost[r]
  BY DEF CheckAnswered
<1>3. CheckFailed(r) => asked'[r] = asked[r] + 1 /\ lost'[r] = lost[r]
  BY <1>1 DEF CheckFailed
<1>4. CheckLost(r) => lost'[r] = lost[r] + 1
  BY <1>1 DEF CheckLost
<1>5. CheckLost(r) => asked'[r] = asked[r] \/ asked'[r] = asked[r] + 1
  BY <1>1 DEF CheckLost
<1>6. QED
  BY <1>2, <1>3, <1>4, <1>5

LEMMA AheadShrinks ==
    ASSUME ChainTypeOK, NEW r \in Request, Arrive(r) \/ Step(r)
    PROVE  Ahead(r)' < Ahead(r)
<1>1. /\ at[r] \in 0 .. End /\ asked[r] \in 0 .. Len(LimitsOf[r]) /\ lost[r] \in 0 .. MaxLost
      /\ End = Len(Chain) + 1 /\ Len(Chain) \in Nat /\ Len(LimitsOf[r]) \in Nat
      /\ MaxLost \in Nat /\ DOMAIN Chain = 1 .. Len(Chain)
  BY AheadIsNat, Lengths, ChainConstantsOK DEF End
<1>2. Ahead(r)' = (End - at'[r]) + (Len(LimitsOf[r]) - asked'[r]) + (MaxLost - lost'[r])
  BY DEF Ahead, End
<1>3. ASSUME NEW x \in Int, NEW y \in Int, NEW z \in Int, x + y + z > at[r] + asked[r] + lost[r],
             at'[r] = x, asked'[r] = y, lost'[r] = z
      PROVE  Ahead(r)' < Ahead(r)
  <2>1. End \in Nat
    BY <1>1
  <2>2. (End - x) + (Len(LimitsOf[r]) - y) + (MaxLost - z)
          < (End - at[r]) + (Len(LimitsOf[r]) - asked[r]) + (MaxLost - lost[r])
    BY <1>3, <1>1, <2>1, WhatIsLeft
  <2>3. QED
    BY <1>3, <1>2, <2>2 DEF Ahead
<1>4. ASSUME Limits(r), at'[r] > at[r], at'[r] \in Int
      PROVE  Ahead(r)' < Ahead(r)
  <2>1. asked[r] \in Int /\ lost[r] \in Int /\ at[r] \in Int
    BY <1>1
  <2>2. at'[r] + asked[r] + lost[r] > at[r] + asked[r] + lost[r]
    BY <1>4, <2>1
  <2>3. QED
    BY <1>3, <1>4, <2>1, <2>2 DEF Limits
<1>5. CASE Arrive(r)
  BY <1>4, <1>5, Effects
<1>6. CASE RequestID(r) \/ Security(r) \/ Pool(r) \/ Breaker(r)
  BY <1>1, <1>4, <1>6, Effects DEF GoesOn
<1>7. CASE CORS(r)
  BY <1>1, <1>4, <1>7, Effects DEF GoesOn, Ends, Here
<1>8. CASE CheckNil(r) \/ LimiterPasses(r)
  BY <1>1, <1>4, <1>8, Effects DEF GoesOn, Ends, Here
<1>9. CASE Validate(r) \/ Handle(r)
  BY <1>1, <1>4, <1>9, Effects DEF Ends, Here
<1>10. CASE CheckAnswered(r)
  <2>1. at'[r] = End /\ at[r] < End
    BY <1>1, <1>10, Effects DEF Ends, Here
  <2>2. asked'[r] = asked[r] /\ lost'[r] = lost[r]
    BY <1>10, LimiterCounts
  <2>3. End + asked[r] + lost[r] > at[r] + asked[r] + lost[r] /\ End \in Int
    BY <1>1, <2>1
  <2>4. asked[r] \in Int /\ lost[r] \in Int
    BY <1>1
  <2>5. QED
    BY <1>3, <2>1, <2>2, <2>3, <2>4
<1>11. CASE CheckLost(r) \/ CheckFailed(r)
  <2>1. at'[r] = at[r]
    BY <1>11, Effects
  <2>2. \/ asked'[r] = asked[r] + 1 /\ lost'[r] = lost[r]
        \/ lost'[r] = lost[r] + 1 /\ (asked'[r] = asked[r] \/ asked'[r] = asked[r] + 1)
    BY <1>11, LimiterCounts
  <2>3. at[r] \in Int /\ asked[r] \in Int /\ lost[r] \in Int
    BY <1>1
  <2>4. /\ asked'[r] \in Int /\ lost'[r] \in Int
        /\ at[r] + asked'[r] + lost'[r] > at[r] + asked[r] + lost[r]
    BY <2>2, <2>3
  <2>5. QED
    BY <1>3, <2>1, <2>3, <2>4
<1>12. QED
  BY <1>5, <1>6, <1>7, <1>8, <1>9, <1>10, <1>11 DEF Step, Limiter

\* However replies are lost and commands sent again, a request is on its way for a bounded
\* number of steps, whatever the chain: each of its steps leaves it fewer, and no other
\* request's step, call of Check or tick of a clock gives it more.
THEOREM RequestsWindDown ==
    ChainSpec => /\ [](\A r \in Request : Ahead(r) \in Nat)
                 /\ [][\A r \in Request :
                          /\ Ahead(r)' <= Ahead(r)
                          /\ Arrive(r) \/ Step(r) => Ahead(r)' < Ahead(r)]_<<vars, chainVars>>
<1> DEFINE Nearer == \A r \in Request :
                       /\ Ahead(r)' <= Ahead(r)
                       /\ Arrive(r) \/ Step(r) => Ahead(r)' < Ahead(r)
<1>1. ChainTypeOK => \A r \in Request : Ahead(r) \in Nat
  BY AheadIsNat
<1>2. ChainTypeOK /\ ChainTypeOK' /\ [ChainNext]_<<vars, chainVars>>
        => [Nearer]_<<vars, chainVars>>
  <2> SUFFICES ASSUME ChainTypeOK, ChainTypeOK', [ChainNext]_<<vars, chainVars>>,
                      NEW r \in Request
               PROVE  /\ Ahead(r)' <= Ahead(r)
                      /\ Arrive(r) \/ Step(r) => Ahead(r)' < Ahead(r)
    OBVIOUS
  <2>1. Ahead(r) \in Nat
    BY AheadIsNat
  <2>2. CASE Standing(r)
    <3>1. Ahead(r)' = Ahead(r)
      BY <2>2 DEF Standing, Ahead, End
    <3>2. ~(Arrive(r) \/ Step(r))
      BY <2>1, <3>1, AheadShrinks
    <3>3. QED
      BY <2>1, <3>1, <3>2
  <2>3. CASE Arrive(r) \/ Step(r)
    <3>1. Ahead(r)' < Ahead(r)
      BY <2>3, AheadShrinks
    <3>2. Ahead(r)' \in Int
      <4>1. at'[r] \in Int /\ asked'[r] \in Int /\ lost'[r] \in Int
        BY Lengths, ChainConstantsOK DEF ChainTypeOK, End
      <4>2. QED
        BY <4>1, Lengths, ChainConstantsOK DEF Ahead, End
    <3>3. QED
      BY <2>1, <3>1, <3>2
  <2>4. QED
    BY <2>2, <2>3, OwnSteps
<1>3. QED
  BY <1>1, <1>2, ChainTypeCorrect, PTL DEF ChainSpec
===============================================================================
