---------------------------- MODULE MiddlewareChain ----------------------------
(***************************************************************************)
(* Requests on their way through the handlers of internal/server and       *)
(* middleware/: Hertz calls the handler at the request's index, and goes   *)
(* on with the one after it when that handler calls Next and also when it  *)
(* returns without doing so; only Abort, or a panic that the framework's   *)
(* recovery turns into a 500, skips the rest.                              *)
(*                                                                         *)
(* The limiter's buckets are those of TokenBucket, shared with the other   *)
(* gateways, whose calls are the free actions of that module.              *)
(***************************************************************************)
EXTENDS TokenBucket, Validation, Sequences

CONSTANTS Request,
          Chain,        \* the handlers h.Use registers, and the route's at the end
          Clients,      \* what the limiter's Redis client may be: "redis" or "nil"
          LimitsOf,     \* the buckets the limiter asks for a request, in order
          Submissions,  \* bodies, the schemas they are sent to, and their worth
          MaxLost       \* bound: replies of Redis that are lost

ASSUME ChainConstantsOK ==
    /\ Chain \in Seq({"requestid", "security", "cors", "limiter", "pool",
                      "breaker", "validation", "handler"})
    /\ LimitsOf \in [Request -> Seq(Key)]
    /\ Clients \subseteq {"redis", "nil"}
    /\ \A s \in Submissions : s.worth \in {"valid", "overlooked", "invalid"}
    /\ MaxLost \in Nat

VARIABLES client,   \* the one this chain's limiter was built with
          at,       \* the request's index in Chain, 0 before it arrives
          asked,    \* buckets its limiter is done with
          status,   \* its response's status, 0 as long as nothing set one
          marks,    \* what handlers put into its context and response headers
          method,   \* of the request: OPTIONS is a preflight
          sent,     \* history: what its body is, once it was looked at
          served,   \* history: its own handler ran
          rejected, \* history: validation refused it
          charged,  \* history: tokens taken for it
          lost      \* history: of those, the ones whose reply was lost

seenVars  == <<sent, served, rejected>>
reqVars   == <<at, status, marks, method, seenVars>>
limitVars == <<client, asked, charged, lost>>
chainVars == <<reqVars, limitVars>>

End == Len(Chain) + 1

Preflight == {r \in Request : method[r] = "OPTIONS"}

Here(r, name) == at[r] \in DOMAIN Chain /\ Chain[at[r]] = name

\* Middleware and CompositeMiddleware build their limiter with no client at all,
\* MiddlewareWithRedis with the one it is given.
ChainInit ==
    /\ Init
    /\ client \in Clients
    /\ at = [r \in Request |-> 0]
    /\ asked = [r \in Request |-> 0]
    /\ status = [r \in Request |-> 0]
    /\ marks = [r \in Request |-> {}]
    /\ method \in [Request -> {"POST", "OPTIONS"}]
    /\ sent = [r \in Request |-> "unseen"]
    /\ served = [r \in Request |-> FALSE]
    /\ rejected = [r \in Request |-> FALSE]
    /\ charged = [r \in Request |-> 0]
    /\ lost = [r \in Request |-> 0]
-------------------------------------------------------------------------------
(* Hertz.                                                                  *)

Arrive(r) ==
    /\ at[r] = 0 /\ at' = [at EXCEPT ![r] = 1]
    /\ UNCHANGED <<vars, status, marks, method, seenVars, limitVars>>

\* ctx.Next, or a return: either way the next handler of the chain runs.
GoOn(r) == at' = [at EXCEPT ![r] = @ + 1]

\* Mutation of Abort: the handler that aborts also moves on.
AbortMoving(r, code) ==
    /\ at' = [at EXCEPT ![r] = End + 1]
    /\ status' = [status EXCEPT ![r] = code]

Abort(r, code) ==
    /\ at' = [at EXCEPT ![r] = End]
    /\ status' = [status EXCEPT ![r] = code]

Respond(r, code) == status' = [status EXCEPT ![r] = code]

\* Mutation of Recover: server.New instead of server.Default.
RecoverNot(r) == UNCHANGED <<at, status>>

\* A panic, caught by the recovery that server.Default installs.
Recover(r) == Abort(r, 500)

Mark(r, mark) == marks' = [marks EXCEPT ![r] = @ \cup {mark}]
-------------------------------------------------------------------------------
(* The handlers.                                                           *)

\* Mutation of RequestID: the header is set on the way back, if there is one.
RequestIDLate(r) ==
    /\ Here(r, "requestid") /\ GoOn(r)
    /\ UNCHANGED <<vars, status, marks, method, seenVars, limitVars>>

RequestID(r) ==
    /\ Here(r, "requestid") /\ Mark(r, "X-Request-ID") /\ GoOn(r)
    /\ UNCHANGED <<vars, status, method, seenVars, limitVars>>

Security(r) ==
    /\ Here(r, "security") /\ Mark(r, "X-Frame-Options") /\ GoOn(r)
    /\ UNCHANGED <<vars, status, method, seenVars, limitVars>>

\* Mutation of CORS: a preflight is answered, and goes on.
CORSReturning(r) ==
    /\ Here(r, "cors") /\ Mark(r, "Access-Control-Allow-Origin") /\ GoOn(r)
    /\ IF r \in Preflight THEN Respond(r, 204) ELSE UNCHANGED status
    /\ UNCHANGED <<vars, method, seenVars, limitVars>>

\* Every origin is allowed; a preflight ends here.
CORS(r) ==
    /\ Here(r, "cors") /\ Mark(r, "Access-Control-Allow-Origin")
    /\ IF r \in Preflight THEN Abort(r, 204) ELSE GoOn(r) /\ UNCHANGED status
    /\ UNCHANGED <<vars, method, seenVars, limitVars>>

\* The key of the limiter's next call.
Asking(r) == asked[r] < Len(LimitsOf[r])
Limit(r)  == LimitsOf[r][asked[r] + 1]

\* Eval on a nil *redis.Client.
CheckNil(r) ==
    /\ Here(r, "limiter") /\ client = "nil" /\ Asking(r) /\ Recover(r)
    /\ UNCHANGED <<vars, marks, method, seenVars, limitVars>>

Charge(r, now) ==
    /\ Check(Limit(r), now)
    /\ charged' = [charged EXCEPT ![r] = @ + (IF Available(Limit(r), now) >= 1 THEN 1 ELSE 0)]

\* The script ran and its reply was read: integers, where Check asserts float64.
CheckAnswered(r) ==
    /\ Here(r, "limiter") /\ client = "redis" /\ Asking(r)
    /\ \E now \in Clocks : Charge(r, now)
    /\ Recover(r)
    /\ UNCHANGED <<client, marks, method, seenVars, asked, lost>>

\* The script ran, but its reply was lost.  The client sends it once more, or
\* gives up, and the limiter lets the request pass this bucket.
CheckLost(r) ==
    /\ Here(r, "limiter") /\ client = "redis" /\ Asking(r) /\ lost[r] < MaxLost
    /\ \E now \in Clocks : Charge(r, now)
    /\ lost' = [lost EXCEPT ![r] = @ + 1]
    /\ (UNCHANGED asked \/ asked' = [asked EXCEPT ![r] = @ + 1])
    /\ UNCHANGED <<client, reqVars>>

\* Redis did not get the command: an error, and the request passes.
CheckFailed(r) ==
    /\ Here(r, "limiter") /\ client = "redis" /\ Asking(r)
    /\ asked' = [asked EXCEPT ![r] = @ + 1]
    /\ UNCHANGED <<vars, client, reqVars, charged, lost>>

\* No bucket left to ask, and none refused: no reply can be read as a refusal.
LimiterPasses(r) ==
    /\ Here(r, "limiter") /\ ~Asking(r) /\ GoOn(r)
    /\ UNCHANGED <<vars, status, marks, method, seenVars, limitVars>>

Pool(r) ==
    /\ Here(r, "pool") /\ Mark(r, "upstream_client") /\ GoOn(r)
    /\ UNCHANGED <<vars, status, method, seenVars, limitVars>>

\* Call with a function that does nothing: a breaker that counts no failure stays
\* closed, and a closed one refuses nobody.
Breaker(r) ==
    /\ Here(r, "breaker") /\ GoOn(r)
    /\ UNCHANGED <<vars, status, marks, method, seenVars, limitVars>>

\* What the bodies are and what validation says of them.
Verdicts == {<<s.worth, ValidateRequest(s.body, s.schema)>> : s \in Submissions}

\* A refusal writes its 400 and returns; it does not call Abort.
Validate(r) ==
    /\ Here(r, "validation")
    /\ \E v \in Verdicts :
         /\ sent' = [sent EXCEPT ![r] = v[1]]
         /\ rejected' = [rejected EXCEPT ![r] = ~v[2]]
         /\ IF v[2] THEN UNCHANGED status ELSE Respond(r, 400)
    /\ GoOn(r)
    /\ UNCHANGED <<vars, marks, method, served, limitVars>>

\* The route's own handler writes its response over what is there, or panics.
Handle(r) ==
    /\ Here(r, "handler")
    /\ served' = [served EXCEPT ![r] = TRUE]
    /\ (GoOn(r) /\ Respond(r, 200)) \/ Recover(r)
    /\ UNCHANGED <<vars, marks, method, sent, rejected, limitVars>>

Limiter(r) == CheckNil(r) \/ CheckAnswered(r) \/ CheckLost(r) \/ CheckFailed(r)
              \/ LimiterPasses(r)

Step(r) == RequestID(r) \/ Security(r) \/ CORS(r) \/ Limiter(r) \/ Pool(r) \/ Breaker(r)
           \/ Validate(r) \/ Handle(r)

ChainNext ==
    \/ \E r \in Request : Arrive(r) \/ Step(r)
    \/ Next /\ UNCHANGED chainVars

ChainSpec == ChainInit /\ [][ChainNext]_<<vars, chainVars>>

\* Hertz runs a request that can move; clients, clocks and Redis are free.
FairChainSpec == ChainSpec /\ \A r \in Request : WF_<<vars, chainVars>>(Step(r))
-------------------------------------------------------------------------------
(* Properties.                                                             *)

ChainTypeOK ==
    /\ at \in [Request -> 0 .. End]
    /\ method \in [Request -> {"POST", "OPTIONS"}]
    /\ status \in [Request -> {0, 200, 204, 400, 500}]
    /\ marks \in [Request -> SUBSET {"X-Request-ID", "X-Frame-Options",
                                     "Access-Control-Allow-Origin", "upstream_client"}]
    /\ asked \in [Request -> Nat] /\ \A r \in Request : asked[r] <= Len(LimitsOf[r])
    /\ charged \in [Request -> Nat] /\ lost \in [Request -> 0 .. MaxLost]
    /\ sent \in [Request -> {"unseen", "valid", "overlooked", "invalid"}]
    /\ client \in Clients /\ {served, rejected} \subseteq [Request -> BOOLEAN]

\* A preflight costs nothing: it takes no token and runs no handler, whatever the
\* handlers behind CORS do.
PreflightIsFree == \A r \in Preflight : charged[r] = 0 /\ ~served[r]

\* Every answer carries the headers that come first, whichever handler ended the
\* request and however.
HeadersOnEveryAnswer ==
    \A r \in Request :
        at[r] = End => {"X-Request-ID", "X-Frame-Options", "Access-Control-Allow-Origin"}
                          \subseteq marks[r]

\* Validation refuses no body that fits all its schema says, and lets one that does not
\* fit pass only if nothing is wrong with it but what the code never looks at: a number
\* below a minimum of zero, an empty text that has a pattern, the length of an email.
VerdictFitsSchema == \A r \in Request : rejected[r] <=> sent[r] = "invalid"

\* Every request that arrives is answered.
EveryRequestEnds == \A r \in Request : at[r] = 1 ~> at[r] = End

\* "We use a nil client (the TokenBucketRateLimiter handles this)" (composite.go,
\* CompositeMiddleware), "Fallback to in-memory rate limiter" (middleware.go): without
\* Redis a request that is no preflight still gets to its handler.
LimiterHandlesNil ==
    client = "nil" =>
        \A r \in Request : at[r] = End /\ r \notin Preflight => served[r]
===============================================================================
