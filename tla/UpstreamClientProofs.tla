------------------------- MODULE UpstreamClientProofs -------------------------
(***************************************************************************)
(* Proofs about CircuitBreaker, for any number of callers and any          *)
(* configuration, and about the UpstreamClient around it.                  *)
(*                                                                         *)
(* The breaker's rest on one fact: transitionTo only ever stores the state *)
(* it has read, so every step leaves the state alone.  The client          *)
(* implements the breaker's specification, so they hold of it too; besides *)
(* no request is billed without an answer, the breaker counts the requests *)
(* whose retries ended without one, not the attempts, and every request    *)
(* has a bounded number of steps.                                          *)
(***************************************************************************)
EXTENDS UpstreamClient, FiniteSetTheorems, TLAPS

-------------------------------------------------------------------------------
(* The breaker by itself.                                                  *)

LEMMA TransitionKeepsState ==
    ASSUME NEW new, transitionTo(new)
    PROVE  state' = state
BY DEF transitionTo, TransitionAllowed, counters

LEMMA CallKeepsState ==
    ASSUME NEW c \in Caller, Call(c)
    PROVE  state' = state
<1>1. CASE allowRequest(c)
  BY <1>1, TransitionKeepsState
     DEF allowRequest, AllowClosed, AllowOpen
<1>2. CASE CompareRate(c)
  BY <1>2, TransitionKeepsState DEF CompareRate
<1>3. QED
  BY <1>1, <1>2
     DEF Call, Count, RunFn, AddFailure, LoadFailures, LoadSuccesses, AddSuccess

LEMMA NextKeepsState == [Next]_vars => state' = state
BY CallKeepsState DEF Next, CoolDown, vars

-------------------------------------------------------------------------------
LEMMA TransitionType ==
    ASSUME TypeOK, NEW new, transitionTo(new)
    PROVE  state' \in {"CLOSED", "OPEN"}
           /\ failures' \in Nat /\ successes' \in Nat
BY DEF transitionTo, TransitionAllowed, TypeOK, counters

\* Type correctness.
THEOREM TypeCorrect == Spec => []TypeOK
<1>1. Init => TypeOK
  <2> SUFFICES ASSUME Init PROVE TypeOK
    OBVIOUS
  <2>1. state \in {"CLOSED", "OPEN"}
    BY BreakerConstantsOK DEF Init
  <2>2. cooling \in BOOLEAN
    BY Zenon DEF Init
  <2>3. /\ pc \in [Caller -> {"idle"}] /\ total \in [Caller -> Nat]
        /\ {failures, successes, totalRequests} \subseteq Nat
    BY DEF Init
  <2>4. QED
    BY <2>1, <2>2, <2>3 DEF TypeOK
<1>2. TypeOK /\ [Next]_vars => TypeOK'
  <2> SUFFICES ASSUME TypeOK, [Next]_vars PROVE TypeOK'
    OBVIOUS
  <2> USE DEF GoTo, counters
  <2>1. ASSUME NEW c \in Caller, allowRequest(c) PROVE TypeOK'
    <3>1. CASE AllowClosed(c)
      BY <2>1, <3>1 DEF TypeOK, allowRequest, AllowClosed
    <3>2. CASE AllowOpen(c)
      <4>1. /\ state' \in {"CLOSED", "OPEN"}
            /\ failures' \in Nat /\ successes' \in Nat
        BY <3>2, TransitionType DEF AllowOpen, TypeOK
      <4>2. QED
        BY <2>1, <3>2, <4>1 DEF TypeOK, allowRequest, AllowOpen
    <3>3. QED
      BY <2>1, <3>1, <3>2 DEF allowRequest
  <2>2. ASSUME NEW c \in Caller, Count(c) \/ RunFn(c) PROVE TypeOK'
    BY <2>2 DEF TypeOK, Count, RunFn
  <2>3. ASSUME NEW c \in Caller, AddFailure(c) \/ AddSuccess(c) PROVE TypeOK'
    <3>1. /\ {failures', successes', totalRequests'} \subseteq Nat
          /\ state' = state /\ total' = total
      BY <2>3 DEF TypeOK, AddFailure, AddSuccess
    <3>4. cooling' \in BOOLEAN
      BY <2>3, Zenon DEF TypeOK, AddFailure, AddSuccess
    <3>2. pc' \in [Caller -> {"idle", "admitted", "call", "failed", "loadFailures",
                              "loadSuccesses", "rate", "succeeded"}]
      BY <2>3 DEF TypeOK, AddFailure, AddSuccess
    <3>3. QED
      BY <3>1, <3>2, <3>4 DEF TypeOK
  <2>4. ASSUME NEW c \in Caller, LoadFailures(c) \/ LoadSuccesses(c) PROVE TypeOK'
    BY <2>4 DEF TypeOK, LoadFailures, LoadSuccesses
  <2>5. ASSUME NEW c \in Caller, CompareRate(c) PROVE TypeOK'
    <3>1. /\ state' \in {"CLOSED", "OPEN"}
          /\ failures' \in Nat /\ successes' \in Nat
      BY <2>5, TransitionType DEF CompareRate, TypeOK
    <3>2. QED
      BY <2>5, <3>1 DEF TypeOK, CompareRate
  <2>6. CASE CoolDown \/ UNCHANGED vars
    BY <2>6 DEF TypeOK, CoolDown, vars
  <2>7. QED
    BY <2>1, <2>2, <2>3, <2>4, <2>5, <2>6 DEF Next, Call
<1>3. QED
  BY <1>1, <1>2, PTL DEF Spec
-------------------------------------------------------------------------------
\* An open breaker has no caller past allowRequest, so nobody resets its counters.
OpenIsIdle == state = "OPEN" => \A c \in Caller : pc[c] = "idle"

LEMMA OpenIsIdleStep == TypeOK /\ OpenIsIdle /\ [Next]_vars => OpenIsIdle'
<1> SUFFICES ASSUME TypeOK, OpenIsIdle, [Next]_vars, state' = "OPEN"
             PROVE  pc' = pc
  BY NextKeepsState DEF OpenIsIdle
<1>1. state = "OPEN" /\ \A c \in Caller : pc[c] = "idle"
  BY NextKeepsState DEF OpenIsIdle
<1>2. ASSUME NEW c \in Caller, allowRequest(c) PROVE pc' = pc
  <2>1. AllowOpen(c) /\ ~TransitionAllowed("HALF_OPEN")
    BY <1>1, <1>2 DEF allowRequest, AllowClosed, TransitionAllowed
  <2>2. pc' = [pc EXCEPT ![c] = "idle"]
    BY <2>1 DEF AllowOpen, GoTo
  <2>3. QED
    BY <1>1, <2>2 DEF TypeOK
<1>3. QED
  BY <1>1, <1>2
     DEF Next, Call, Count, RunFn, AddFailure, LoadFailures, LoadSuccesses, CompareRate,
         AddSuccess, CoolDown, vars

\* A transition that is refused, or that leaves the open state alone, keeps the counters.
LEMMA TransitionKeepsCounters ==
    ASSUME NEW new, transitionTo(new), state # "OPEN"
    PROVE  failures' = failures /\ successes' = successes
BY DEF transitionTo, TransitionAllowed, counters

LEMMA RunningFinite == IsFiniteSet(Running) /\ Cardinality(Running) \in Nat
BY BreakerConstantsOK, FS_Subset, FS_CardinalityType DEF Running

\* How one call's step moves it in and out of Running.
LEMMA RunningStep ==
    ASSUME TypeOK, NEW c \in Caller, NEW label, GoTo(c, label)
    PROVE  Running' = IF label \in {"call", "failed", "succeeded"}
                      THEN Running \cup {c} ELSE Running \ {c}
BY DEF GoTo, TypeOK, Running

LEMMA CountersStep ==
    ASSUME TypeOK, OpenIsIdle, CountersExact, [Next]_vars
    PROVE  CountersExact'
<1> USE DEF CountersExact
<1>1. /\ IsFiniteSet(Running) /\ Cardinality(Running) \in Nat
      /\ failures \in Nat /\ successes \in Nat /\ totalRequests \in Nat
  BY RunningFinite DEF TypeOK
<1>2. ASSUME NEW c \in Caller, Count(c) PROVE CountersExact'
  <2>1. c \notin Running /\ Running' = Running \cup {c}
    BY <1>2, RunningStep DEF Count, Running
  <2>2. /\ totalRequests' = totalRequests + 1
        /\ failures' = failures /\ successes' = successes
    BY <1>2 DEF Count, counters
  <2>3. QED
    BY <1>1, <2>1, <2>2, FS_AddElement
<1>3. ASSUME NEW c \in Caller, AddFailure(c) \/ AddSuccess(c) PROVE CountersExact'
  <2>1. c \in Running /\ Running' = Running \ {c}
    BY <1>3, RunningStep DEF AddFailure, AddSuccess, Running
  <2>2. /\ totalRequests' = totalRequests
        /\ \/ failures' = failures + 1 /\ successes' = successes
           \/ failures' = failures /\ successes' = successes + 1
    BY <1>3 DEF AddFailure, AddSuccess
  <2>3. Cardinality(Running)' = Cardinality(Running) - 1
    BY <1>1, <2>1, FS_RemoveElement
  <2>4. QED
    BY <1>1, <2>2, <2>3
<1>4. ASSUME /\ Running' = Running /\ totalRequests' = totalRequests
             /\ failures' = failures /\ successes' = successes
      PROVE  CountersExact'
  BY <1>4
<1>5. ASSUME NEW c \in Caller, allowRequest(c) PROVE CountersExact'
  <2>1. Running' = Running
    BY <1>5, RunningStep DEF allowRequest, AllowClosed, AllowOpen,
                             Running
  <2>2. /\ failures' = failures /\ successes' = successes
        /\ totalRequests' = totalRequests
    BY <1>5 DEF allowRequest, AllowClosed, AllowOpen, transitionTo,
                TransitionAllowed, counters
  <2>3. QED
    BY <1>4, <2>1, <2>2
<1>6. ASSUME NEW c \in Caller, RunFn(c) \/ LoadFailures(c) \/ LoadSuccesses(c) PROVE CountersExact'
  <2>1. Running' = Running
    BY <1>6, RunningStep DEF RunFn, LoadFailures, LoadSuccesses, Running
  <2>2. QED
    BY <1>4, <1>6, <2>1 DEF RunFn, LoadFailures, LoadSuccesses, counters
<1>7. ASSUME NEW c \in Caller, CompareRate(c) PROVE CountersExact'
  <2>1. Running' = Running
    BY <1>7, RunningStep DEF CompareRate, Running
  <2>2. state # "OPEN"
    BY <1>7 DEF CompareRate, OpenIsIdle
  <2>3. /\ failures' = failures /\ successes' = successes
        /\ totalRequests' = totalRequests
    BY <1>7, <2>2, TransitionKeepsCounters DEF CompareRate, counters
  <2>4. QED
    BY <1>4, <2>1, <2>3
<1>8. CASE CoolDown \/ UNCHANGED vars
  BY <1>4, <1>8 DEF CoolDown, vars, counters, Running
<1>9. QED
  BY <1>2, <1>3, <1>5, <1>6, <1>7, <1>8 DEF Next, Call

\* Whatever the interleaving, every counted request is accounted for.
THEOREM CountersAgree == Spec => []CountersExact
<1>1. Init => OpenIsIdle /\ CountersExact
  <2> SUFFICES ASSUME Init PROVE OpenIsIdle /\ CountersExact
    OBVIOUS
  <2>1. Running = {}
    BY DEF Init, Running
  <2>2. QED
    BY <2>1, FS_EmptySet DEF Init, OpenIsIdle, CountersExact
<1>2. QED
  BY <1>1, OpenIsIdleStep, CountersStep, TypeCorrect, PTL DEF Spec
-------------------------------------------------------------------------------
-------------------------------------------------------------------------------
(* The client around it.                                                  *)

\* Every step of a request is a step of the breaker or leaves the breaker alone.
LEMMA HandlerStep ==
    ASSUME NEW c \in Caller, Handler(c)
    PROVE  Call(c) \/ UNCHANGED vars
<1>1. CASE Enter(c)
  BY <1>1 DEF Enter, Call
<1>2. CASE Breaker(c)
  BY <1>2 DEF Breaker, Call
<1>3. CASE EndFn(c)
  BY <1>3 DEF EndFn, Call
<1>4. CASE SendFails(c) \/ SendCompletes(c) \/ StreamOpens(c)
  BY <1>4 DEF SendFails, SendCompletes, StreamOpens, Post
<1>5. CASE Backoff(c) \/ ReadChunk(c) \/ ReadEOF(c) \/ ReadFails(c)
  BY <1>5 DEF Backoff, ReadChunk, ReadEOF, ReadFails
<1>6. CASE ReplyCompleted(c) \/ ReplyFailed(c) \/ ReplyStreamed(c) \/ EstimateRecurses(c)
  BY <1>6 DEF ReplyCompleted, ReplyFailed, ReplyStreamed, EstimateRecurses, Reply
<1>7. QED
  BY <1>1, <1>2, <1>3, <1>4, <1>5, <1>6 DEF Handler

\* Whatever the upstream answers and however often requests are retried, the
\* breaker sees the calls CircuitBreaker describes.
THEOREM ClientImplementsBreaker == ClientSpec => ImplementsBreaker
<1>1. ClientInit => Init
  BY DEF ClientInit
<1>2. [ClientNext]_upVars => [Next]_vars
  <2>1. ASSUME NEW c \in Caller, Handler(c) PROVE [Next]_vars
    BY <2>1, HandlerStep DEF Next
  <2>2. CASE alive /\ CoolDown /\ UNCHANGED clientVars
    BY <2>2 DEF Next
  <2>3. CASE UNCHANGED upVars
    BY <2>3 DEF upVars
  <2>4. QED
    BY <2>1, <2>2, <2>3 DEF ClientNext
<1>3. QED
  BY <1>1, <1>2, PTL DEF ClientSpec, ImplementsBreaker, Spec

-------------------------------------------------------------------------------
\* A request is billed in its last step only, and a success has cost the upstream
\* a completion.
BillInv ==
    /\ step \in [Caller -> {"new", "send", "backoff", "read", "end", "returned", "answered"}]
    /\ served \in [Caller -> Nat]
    /\ outcome \in [Caller -> Failures \cup {"none", "open", "ok"}]
    /\ billed \in [Caller -> BOOLEAN]
    /\ status \in [Caller -> {0, 200, 502}]
    /\ \A c \in Caller :
         /\ step[c] = "read" \/ outcome[c] = "ok" => served[c] > 0
         /\ step[c] # "answered" => ~billed[c]
    /\ BilledAsAnswered

\* The steps before the answer: they touch neither bills nor answers.
LEMMA UnansweredStep ==
    ASSUME BillInv, NEW c \in Caller, step[c] # "answered",
           NEW label \in {"send", "backoff", "read", "end", "returned"}, Move(c, label),
           NEW res \in Failures \cup {"none", "open", "ok"},
           outcome' = [outcome EXCEPT ![c] = res],
           NEW work \in {0, 1}, served' = [served EXCEPT ![c] = @ + work],
           label = "read" \/ res = "ok" => served[c] + work > 0,
           UNCHANGED <<billed, status>>
    PROVE  BillInv'
<1>1. /\ step' \in [Caller -> {"new", "send", "backoff", "read", "end", "returned", "answered"}]
      /\ served' \in [Caller -> Nat]
      /\ outcome' \in [Caller -> Failures \cup {"none", "open", "ok"}]
      /\ status' \in [Caller -> {0, 200, 502}]
  BY DEF BillInv, Move
<1>2. billed' \in [Caller -> BOOLEAN]
  BY Zenon DEF BillInv
<1>3. ASSUME NEW d \in Caller, d # c
      PROVE  /\ step'[d] = step[d] /\ outcome'[d] = outcome[d] /\ served'[d] = served[d]
             /\ billed'[d] = billed[d] /\ status'[d] = status[d]
  BY <1>3 DEF BillInv, Move
<1>4. /\ step'[c] = label /\ outcome'[c] = res /\ served'[c] = served[c] + work
      /\ ~billed'[c] /\ label # "answered"
  BY DEF BillInv, Move
<1>5. ASSUME NEW d \in Caller
      PROVE  /\ step'[d] = "read" \/ outcome'[d] = "ok" => served'[d] > 0
             /\ step'[d] # "answered" => ~billed'[d]
             /\ billed'[d] => served'[d] > 0 /\ status'[d] = 200
             /\ d \notin Streaming /\ step'[d] = "answered" =>
                    (billed'[d] <=> status'[d] = 200)
  <2>1. CASE d = c
    BY <1>4, <2>1
  <2>2. CASE d # c
    BY <1>3, <2>2 DEF BillInv, BilledAsAnswered
  <2>3. QED
    BY <2>1, <2>2
<1>6. QED
  BY <1>1, <1>2, <1>5 DEF BillInv, BilledAsAnswered

\* The answer: a bill goes with it exactly when it is for a success.
LEMMA AnswerStep ==
    ASSUME BillInv, NEW c \in Caller, step[c] # "answered",
           NEW code \in {200, 502}, Reply(c, code),
           billed' \in [Caller -> BOOLEAN],
           \A d \in Caller \ {c} : billed'[d] <=> billed[d],
           billed'[c] => outcome[c] = "ok" /\ code = 200,
           c \notin Streaming => (billed'[c] <=> code = 200)
    PROVE  BillInv'
<1>1. /\ step' \in [Caller -> {"new", "send", "backoff", "read", "end", "returned", "answered"}]
      /\ served' \in [Caller -> Nat]
      /\ outcome' \in [Caller -> Failures \cup {"none", "open", "ok"}]
      /\ status' \in [Caller -> {0, 200, 502}]
  BY DEF BillInv, Reply, Move
<1>3. ASSUME NEW d \in Caller, d # c
      PROVE  /\ step'[d] = step[d] /\ outcome'[d] = outcome[d] /\ served'[d] = served[d]
             /\ (billed'[d] <=> billed[d]) /\ status'[d] = status[d]
  BY <1>3 DEF BillInv, Reply, Move
<1>4. /\ step'[c] = "answered" /\ outcome'[c] = outcome[c] /\ served'[c] = served[c]
      /\ status'[c] = code
  BY DEF BillInv, Reply, Move
<1>5. ASSUME NEW d \in Caller
      PROVE  /\ step'[d] = "read" \/ outcome'[d] = "ok" => served'[d] > 0
             /\ step'[d] # "answered" => ~billed'[d]
             /\ billed'[d] => served'[d] > 0 /\ status'[d] = 200
             /\ d \notin Streaming /\ step'[d] = "answered" =>
                    (billed'[d] <=> status'[d] = 200)
  <2>1. CASE d = c
    BY <1>4, <2>1 DEF BillInv
  <2>2. CASE d # c
    BY <1>3, <2>2 DEF BillInv, BilledAsAnswered
  <2>3. QED
    BY <2>1, <2>2
<1>6. QED
  BY <1>1, <1>5 DEF BillInv, BilledAsAnswered

LEMMA BillStep == BillInv /\ [ClientNext]_upVars => BillInv'
<1> SUFFICES ASSUME BillInv, [ClientNext]_upVars PROVE BillInv'
  OBVIOUS
<1>1. ASSUME UNCHANGED clientVars PROVE BillInv'
  BY <1>1 DEF BillInv, BilledAsAnswered, clientVars
<1>2. ASSUME NEW c \in Caller, Post(c, "open", 1) /\ Move(c, "read") PROVE BillInv'
  <2>1. step[c] # "answered" /\ served[c] + 1 > 0
    BY <1>2 DEF BillInv, Post, At
  <2>2. /\ outcome' = [outcome EXCEPT ![c] = "open"] /\ served' = [served EXCEPT ![c] = @ + 1]
        /\ Move(c, "read") /\ UNCHANGED <<billed, status>>
    BY <1>2 DEF Post
  <2>3. QED
    BY <2>1, <2>2, UnansweredStep
<1>3. ASSUME NEW c \in Caller, NEW res \in Failures \cup {"ok"}, NEW work \in {0, 1},
             res = "ok" => work = 1, NEW label \in {"backoff", "end"},
             Post(c, res, work), Move(c, label)
      PROVE  BillInv'
  <2>1. served[c] \in Nat /\ step[c] # "answered"
    BY <1>3 DEF BillInv, Post, At
  <2>2. label = "read" \/ res = "ok" => served[c] + work > 0
    BY <1>3, <2>1
  <2>3. QED
    BY <1>3, <2>1, <2>2, UnansweredStep DEF Post
<1>4. ASSUME NEW c \in Caller, SendFails(c) PROVE BillInv'
  <2>1. PICK res \in {"transient", "hard", "client_error", "server_error", "other_status"} :
            SendFails(c)!(res)
    BY <1>4 DEF SendFails
  <2>2. PICK work \in {0, 1} : Post(c, res, work)
    BY <2>1
  <2>3. PICK label \in {"backoff", "end"} : Move(c, label)
    BY <2>1
  <2>4. QED
    BY <1>3, <2>2, <2>3 DEF Failures
<1>5. ASSUME NEW c \in Caller, SendCompletes(c) PROVE BillInv'
  BY <1>3, <1>5 DEF SendCompletes, Failures
<1>6. ASSUME NEW c \in Caller, NEW res \in Failures \cup {"none", "open", "ok"},
             NEW label \in {"send", "backoff", "read", "end", "returned"}, Move(c, label),
             step[c] # "answered", outcome' = [outcome EXCEPT ![c] = res],
             label = "read" \/ res = "ok" => served[c] > 0,
             UNCHANGED <<served, billed, status>>
      PROVE  BillInv'
  <2>1. served' = [served EXCEPT ![c] = @ + 0] /\ served[c] + 0 = served[c]
    BY <1>6 DEF BillInv
  <2>2. QED
    BY <1>6, <2>1, UnansweredStep
<1>7. ASSUME NEW c \in Caller,
             Enter(c) \/ EndFn(c) \/ Backoff(c) \/ ReadChunk(c) \/ ReadEOF(c) \/ ReadFails(c)
      PROVE  BillInv'
  <2>1. step[c] # "answered" /\ UNCHANGED <<served, billed, status>>
    BY <1>7 DEF Enter, EndFn, Backoff, ReadChunk, ReadEOF, ReadFails, At
  <2>2. /\ outcome = [outcome EXCEPT ![c] = outcome[c]]
        /\ outcome[c] \in Failures \cup {"none", "open", "ok"}
        /\ step = [step EXCEPT ![c] = step[c]]
        /\ step[c] = "read" \/ outcome[c] = "ok" => served[c] > 0
    BY DEF BillInv
  <2>3. CASE Enter(c)
    <3>1. CASE Move(c, "send") /\ UNCHANGED outcome
      BY <1>6, <2>1, <2>2, <3>1
    <3>2. CASE Move(c, "returned") /\ outcome' = [outcome EXCEPT ![c] = "rejected"]
      BY <1>6, <2>1, <3>2 DEF Failures
    <3>3. QED
      BY <2>3, <3>1, <3>2 DEF Enter
  <2>4. CASE EndFn(c)
    BY <1>6, <2>1, <2>2, <2>4 DEF EndFn
  <2>5. CASE Backoff(c)
    BY <1>6, <2>1, <2>2, <2>5 DEF Backoff
  <2>6. CASE ReadChunk(c)
    <3>1. step[c] = "read" /\ step' = step /\ outcome' = outcome
      BY <2>6 DEF ReadChunk, At
    <3>2. Move(c, "read")
      BY <2>2, <3>1 DEF Move
    <3>3. QED
      BY <1>6, <2>1, <2>2, <3>1, <3>2
  <2>7. CASE ReadEOF(c)
    BY <1>6, <2>1, <2>2, <2>7 DEF ReadEOF, At
  <2>8. CASE ReadFails(c)
    BY <1>6, <2>1, <2>8 DEF ReadFails, Failures
  <2>9. QED
    BY <1>7, <2>3, <2>4, <2>5, <2>6, <2>7, <2>8
<1>8. ASSUME NEW c \in Caller, ReplyCompleted(c) \/ ReplyStreamed(c) PROVE BillInv'
  <2>1. step[c] # "answered" /\ outcome[c] = "ok" /\ Reply(c, 200)
    BY <1>8 DEF ReplyCompleted, ReplyStreamed, Returned, At
  <2>2. billed' = [billed EXCEPT ![c] = TRUE] /\ billed \in [Caller -> BOOLEAN]
    BY <1>8, Zenon DEF ReplyCompleted, ReplyStreamed, BillInv
  <2>3. billed' \in [Caller -> BOOLEAN]
    BY <2>2, Zenon
  <2>4. billed'[c] /\ \A d \in Caller \ {c} : billed'[d] <=> billed[d]
    BY <2>2
  <2>5. QED
    BY <2>1, <2>3, <2>4, AnswerStep
<1>9. ASSUME NEW c \in Caller, ReplyFailed(c) PROVE BillInv'
  <2>1. step[c] # "answered" /\ ~billed[c]
    BY <1>9 DEF ReplyFailed, Returned, At, BillInv
  <2>2. billed' = billed /\ billed' \in [Caller -> BOOLEAN]
    BY <1>9, Zenon DEF ReplyFailed, BillInv
  <2>3. CASE c \in Streaming /\ Reply(c, 200)
    BY <2>1, <2>2, <2>3, AnswerStep
  <2>4. CASE c \notin Streaming /\ Reply(c, 502)
    BY <2>1, <2>2, <2>4, AnswerStep
  <2>5. QED
    BY <1>9, <2>3, <2>4 DEF ReplyFailed
<1>10. ASSUME NEW c \in Caller, EstimateRecurses(c) PROVE BillInv'
  BY <1>10 DEF EstimateRecurses, BillInv, BilledAsAnswered
<1>11. QED
  BY <1>1, <1>2, <1>4, <1>5, <1>7, <1>8, <1>9, <1>10
     DEF ClientNext, Handler, Breaker, StreamOpens, upVars, clientVars

LEMMA BillInvHolds == ClientSpec => []BillInv
<1>1. ClientInit => BillInv
  <2> SUFFICES ASSUME ClientInit PROVE BillInv
    OBVIOUS
  <2>1. billed \in [Caller -> BOOLEAN] /\ \A c \in Caller : ~billed[c]
    BY Zenon DEF ClientInit
  <2>2. QED
    BY <2>1 DEF ClientInit, BillInv, BilledAsAnswered
<1>2. QED
  BY <1>1, BillStep, PTL DEF ClientSpec

\* No interleaving of requests, retries and stream reads bills a request the
\* upstream never completed, or answers a plain request 200 without its bill.
THEOREM BillsMatchAnswers == ClientSpec => []BilledAsAnswered
<1>1. BillInv => BilledAsAnswered
  BY DEF BillInv
<1>2. QED
  BY <1>1, BillInvHolds, PTL
-------------------------------------------------------------------------------
\* How often a request was sent, by where its handler is, and what sent it again.
RetryAt(c) ==
    /\ sends[c] \in Nat /\ attempt[c] \in Nat
    /\ step[c] = "new" => sends[c] = 0 /\ attempt[c] = 0
    /\ step[c] = "send" =>
         /\ sends[c] = attempt[c] /\ attempt[c] < maxRetries
         /\ attempt[c] > 0 => Retryable(outcome[c]) /\ c \notin Streaming
    /\ step[c] = "backoff" =>
         /\ sends[c] = attempt[c] + 1 /\ sends[c] < maxRetries
         /\ Retryable(outcome[c]) /\ c \notin Streaming

ClientFunctions ==
    /\ step = [c \in Caller |-> step[c]] /\ sends = [c \in Caller |-> sends[c]]
    /\ attempt = [c \in Caller |-> attempt[c]] /\ outcome = [c \in Caller |-> outcome[c]]

RetryInv == ClientFunctions /\ \A c \in Caller : RetryAt(c)

\* A handler's step is its own request's.
LEMMA OthersUntouched ==
    ASSUME ClientFunctions, NEW c \in Caller, Handler(c)
    PROVE  /\ ClientFunctions'
           /\ \A d \in Caller \ {c} : /\ step'[d] = step[d] /\ sends'[d] = sends[d]
                                     /\ attempt'[d] = attempt[d] /\ outcome'[d] = outcome[d]
<1> USE DEF ClientFunctions, Move
<1>1. CASE Enter(c) \/ EndFn(c) \/ Backoff(c)
  BY <1>1 DEF Enter, EndFn, Backoff
<1>2. CASE SendFails(c) \/ SendCompletes(c) \/ StreamOpens(c)
  BY <1>2 DEF SendFails, SendCompletes, StreamOpens, Post
<1>3. CASE ReadChunk(c) \/ ReadEOF(c) \/ ReadFails(c)
  BY <1>3 DEF ReadChunk, ReadEOF, ReadFails
<1>4. CASE ReplyCompleted(c) \/ ReplyFailed(c) \/ ReplyStreamed(c)
  BY <1>4 DEF ReplyCompleted, ReplyFailed, ReplyStreamed, Reply
<1>5. CASE Breaker(c) \/ EstimateRecurses(c)
  BY <1>5 DEF Breaker, EstimateRecurses, clientVars
<1>6. QED
  BY <1>1, <1>2, <1>3, <1>4, <1>5 DEF Handler

\* What a POST needs and what becomes of it.
LEMMA PostAt ==
    ASSUME RetryInv, NEW c \in Caller, NEW res, NEW work, Post(c, res, work)
    PROVE  /\ step[c] = "send" /\ sends'[c] = sends[c] + 1 /\ attempt'[c] = attempt[c]
           /\ outcome'[c] = res
  BY DEF RetryInv, ClientFunctions, Post, At

LEMMA RetryStep ==
    ASSUME RetryInv, NEW c \in Caller, Handler(c)
    PROVE  RetryAt(c)'
<1>1. RetryAt(c) /\ ClientFunctions /\ maxRetries \in Nat \ {0}
  BY ClientConstantsOK DEF RetryInv
<1>2. ASSUME NEW label, Move(c, label) PROVE step'[c] = label
  BY <1>1, <1>2 DEF Move, ClientFunctions
<1>3. CASE Enter(c)
  <2>1. step[c] = "new" /\ sends'[c] = sends[c] /\ attempt'[c] = attempt[c]
    BY <1>3 DEF Enter, At
  <2>2. step'[c] \in {"send", "returned"}
    BY <1>2, <1>3 DEF Enter
  <2>3. QED
    BY <1>1, <2>1, <2>2 DEF RetryAt
<1>4. CASE Backoff(c)
  <2>1. /\ step[c] = "backoff" /\ step'[c] = "send" /\ sends'[c] = sends[c]
        /\ attempt'[c] = attempt[c] + 1 /\ outcome'[c] = outcome[c]
    BY <1>1, <1>2, <1>4 DEF Backoff, At, ClientFunctions
  <2>2. QED
    BY <1>1, <2>1 DEF RetryAt
<1>5. CASE SendFails(c)
  <2>1. PICK res \in {"transient", "hard", "client_error", "server_error", "other_status"} :
            SendFails(c)!(res)
    BY <1>5 DEF SendFails
  <2>2. PICK work \in {0, 1} : Post(c, res, work)
    BY <2>1
  <2>3. /\ step[c] = "send" /\ sends'[c] = sends[c] + 1 /\ attempt'[c] = attempt[c]
        /\ outcome'[c] = res
    BY <2>2, PostAt
  <2>4. \/ step'[c] = "end"
        \/ /\ step'[c] = "backoff" /\ c \notin Streaming /\ Retryable(res)
           /\ attempt[c] < maxRetries - 1
    BY <1>2, <2>1
  <2>5. QED
    BY <1>1, <2>3, <2>4 DEF RetryAt
<1>6. CASE SendCompletes(c) \/ StreamOpens(c)
  <2>1. \E res : Post(c, res, 1)
    BY <1>6 DEF SendCompletes, StreamOpens
  <2>2. sends'[c] = sends[c] + 1 /\ attempt'[c] = attempt[c]
    BY <2>1, PostAt
  <2>3. step'[c] \in {"end", "read"}
    BY <1>2, <1>6 DEF SendCompletes, StreamOpens
  <2>4. QED
    BY <1>1, <2>2, <2>3 DEF RetryAt
<1>7. CASE EndFn(c) \/ ReadEOF(c) \/ ReadFails(c)
  <2>1. step'[c] \in {"returned", "end"} /\ sends' = sends /\ attempt' = attempt
    BY <1>2, <1>7 DEF EndFn, ReadEOF, ReadFails
  <2>2. QED
    BY <1>1, <2>1 DEF RetryAt
<1>8. CASE ReplyCompleted(c) \/ ReplyFailed(c) \/ ReplyStreamed(c)
  <2>1. step'[c] = "answered" /\ sends' = sends /\ attempt' = attempt
    BY <1>2, <1>8 DEF ReplyCompleted, ReplyFailed, ReplyStreamed, Reply
  <2>2. QED
    BY <1>1, <2>1 DEF RetryAt
<1>9. CASE Breaker(c) \/ ReadChunk(c) \/ EstimateRecurses(c)
  <2>1. UNCHANGED <<step, sends, attempt, outcome>>
    BY <1>9 DEF Breaker, ReadChunk, EstimateRecurses, clientVars
  <2>2. QED
    BY <1>1, <2>1 DEF RetryAt
<1>10. QED
  BY <1>3, <1>4, <1>5, <1>6, <1>7, <1>8, <1>9 DEF Handler

\* A request leaves the gateway again only from "send", and only by its own handler.
LEMMA SendAgain ==
    ASSUME RetryInv, [ClientNext]_upVars, NEW c \in Caller, sends'[c] > sends[c]
    PROVE  step[c] = "send"
<1>1. sends[c] \in Nat
  BY DEF RetryInv, RetryAt
<1>2. sends'[c] # sends[c]
  BY <1>1
<1>3. Handler(c)
  <2>1. ASSUME NEW d \in Caller, Handler(d), d # c PROVE FALSE
    BY <1>2, <2>1, OthersUntouched DEF RetryInv
  <2>2. QED
    BY <1>2, <2>1 DEF ClientNext, upVars, clientVars
<1>4. \E res, work : Post(c, res, work)
  BY <1>2, <1>3 DEF Handler, Enter, Breaker, EndFn, Backoff, ReadChunk, ReadEOF, ReadFails,
     ReplyCompleted, ReplyFailed, ReplyStreamed, EstimateRecurses, Reply, SendFails,
     SendCompletes, StreamOpens, clientVars
<1>5. QED
  BY <1>4, PostAt

LEMMA RetryInvHolds == ClientSpec => []RetryInv
<1>1. ClientInit => RetryInv
  BY ClientConstantsOK DEF ClientInit, RetryInv, ClientFunctions, RetryAt
<1>2. RetryInv /\ [ClientNext]_upVars => RetryInv'
  <2> SUFFICES ASSUME RetryInv, [ClientNext]_upVars PROVE RetryInv'
    OBVIOUS
  <2>1. ASSUME NEW c \in Caller, Handler(c) PROVE RetryInv'
    BY <2>1, OthersUntouched, RetryStep DEF RetryInv, RetryAt
  <2>2. CASE UNCHANGED clientVars
    BY <2>2 DEF RetryInv, RetryAt, ClientFunctions, clientVars
  <2>3. QED
    BY <2>1, <2>2 DEF ClientNext, upVars
<1>3. QED
  BY <1>1, <1>2, PTL DEF ClientSpec

\* Only a plain request whose last attempt failed in a transient way is sent again, and
\* never more than maxRetries times, whatever else is in flight.
THEOREM RetriesAreTransient == ClientSpec => RetryOnlyTransient
<1>1. RetryInv /\ [ClientNext]_upVars =>
        [\A c \in Caller :
          sends[c] > 0 /\ sends'[c] > sends[c] =>
              /\ outcome[c] \in {"transient", "server_error"}
              /\ sends[c] < maxRetries /\ c \notin Streaming]_upVars
  <2> SUFFICES ASSUME RetryInv, [ClientNext]_upVars, NEW c \in Caller,
                      sends[c] > 0, sends'[c] > sends[c]
               PROVE  /\ outcome[c] \in {"transient", "server_error"}
                      /\ sends[c] < maxRetries /\ c \notin Streaming
    OBVIOUS
  <2>1. step[c] = "send" /\ RetryAt(c)
    BY SendAgain DEF RetryInv
  <2>2. QED
    BY <2>1 DEF RetryAt, Retryable
<1>2. QED
  BY <1>1, RetryInvHolds, PTL DEF ClientSpec, RetryOnlyTransient
-------------------------------------------------------------------------------
\* How far a request can have come: never more sent than allowed, never more carried
\* out by the upstream than sent.
ProgressAt(c) ==
    /\ attempt[c] \in 0 .. maxRetries - 1 /\ sends[c] \in 0 .. maxRetries
    /\ served[c] \in Nat /\ served[c] <= sends[c] /\ pos[c] \in 0 .. 2 * Lines

Alive == alive \in BOOLEAN
UsageFlags == usage \in [Caller -> BOOLEAN]

ProgressFunctions ==
    served = [c \in Caller |-> served[c]] /\ pos = [c \in Caller |-> pos[c]]

ProgressInv == UsageFlags /\ ProgressFunctions /\ \A c \in Caller : ProgressAt(c)

LEMMA FlagsStep ==
    ASSUME UsageFlags, Alive, [ClientNext]_upVars
    PROVE  UsageFlags' /\ Alive'
<1>1. ASSUME UNCHANGED usage PROVE UsageFlags'
  BY <1>1 DEF UsageFlags
<1>2. ASSUME UNCHANGED alive PROVE Alive'
  BY <1>2 DEF Alive
<1>3. ASSUME NEW c \in Caller, ReadChunk(c) PROVE UsageFlags' /\ Alive'
  <2>1. PICK to \in pos[c] + 1 .. 2 * Lines : ReadChunk(c)!2!(to)
    BY <1>3 DEF ReadChunk
  <2>2. (to = 2 * Lines /\ pos[c] <= 2 * Lines - 2) \in BOOLEAN
    BY Zenon
  <2>3. UsageFlags'
    BY <2>1, <2>2, Zenon DEF UsageFlags
  <2>4. QED
    BY <1>2, <1>3, <2>3 DEF ReadChunk
<1>4. ASSUME NEW c \in Caller, EstimateRecurses(c) PROVE UsageFlags' /\ Alive'
  <2>1. Alive'
    BY <1>4, Zenon DEF EstimateRecurses, Alive
  <2>2. QED
    BY <1>1, <1>4, <2>1 DEF EstimateRecurses
<1>5. ASSUME NEW c \in Caller,
             \/ Enter(c) \/ Breaker(c) \/ EndFn(c) \/ SendFails(c) \/ SendCompletes(c)
             \/ Backoff(c) \/ StreamOpens(c) \/ ReadEOF(c) \/ ReadFails(c)
             \/ ReplyCompleted(c) \/ ReplyFailed(c) \/ ReplyStreamed(c)
      PROVE  UNCHANGED <<usage, alive>>
  BY <1>5 DEF Enter, Breaker, EndFn, SendFails, SendCompletes, Backoff, StreamOpens, ReadEOF,
              ReadFails, ReplyCompleted, ReplyFailed, ReplyStreamed, Reply, Post, clientVars
<1>6. QED
  BY <1>1, <1>2, <1>3, <1>4, <1>5 DEF ClientNext, Handler, upVars, clientVars

\* A POST goes out below the limit, and adds at most one to what the upstream has done.
LEMMA PostProgress ==
    ASSUME RetryInv, ProgressInv, NEW c \in Caller, NEW res, NEW work \in {0, 1},
           Post(c, res, work)
    PROVE  (ProgressFunctions /\ \A d \in Caller : ProgressAt(d))'
<1>1. /\ step[c] = "send" /\ RetryAt(c) /\ ProgressAt(c)
      /\ sends = [d \in Caller |-> sends[d]] /\ maxRetries \in Nat
  BY ClientConstantsOK DEF RetryInv, ClientFunctions, ProgressInv, Post, At
<1>2. sends[c] < maxRetries
  BY <1>1 DEF RetryAt
<1>3. /\ sends' = [sends EXCEPT ![c] = @ + 1] /\ served' = [served EXCEPT ![c] = @ + work]
      /\ attempt' = attempt /\ pos' = pos
  BY DEF Post
<1>4. ProgressFunctions'
  BY <1>3 DEF ProgressInv, ProgressFunctions
<1>5. /\ sends'[c] = sends[c] + 1 /\ served'[c] = served[c] + work
      /\ \A d \in Caller \ {c} : sends'[d] = sends[d] /\ served'[d] = served[d]
  BY <1>1, <1>3 DEF ProgressInv, ProgressFunctions
<1>6. ProgressAt(c)'
  BY <1>1, <1>2, <1>3, <1>5 DEF ProgressAt
<1>7. ASSUME NEW d \in Caller \ {c} PROVE ProgressAt(d)'
  BY <1>3, <1>5, <1>7 DEF ProgressInv, ProgressAt
<1>8. QED
  BY <1>4, <1>6, <1>7

LEMMA ProgressStep ==
    ASSUME RetryInv, ProgressInv, [ClientNext]_upVars
    PROVE  (ProgressFunctions /\ \A c \in Caller : ProgressAt(c))'
<1> DEFINE Goal == (ProgressFunctions /\ \A c \in Caller : ProgressAt(c))'
<1>1. ASSUME UNCHANGED <<attempt, sends, served, pos>> PROVE Goal
  BY <1>1 DEF ProgressInv, ProgressFunctions, ProgressAt
<1>2. ASSUME NEW c \in Caller, SendFails(c) \/ SendCompletes(c) \/ StreamOpens(c) PROVE Goal
  <2>1. \E res : \E work \in {0, 1} : Post(c, res, work)
    BY <1>2 DEF SendFails, SendCompletes, StreamOpens
  <2>2. QED
    BY <2>1, PostProgress
<1>3. ASSUME NEW c \in Caller, Backoff(c) PROVE Goal
  <2>1. /\ step[c] = "backoff" /\ attempt' = [attempt EXCEPT ![c] = @ + 1]
        /\ UNCHANGED <<sends, served, pos>>
    BY <1>3 DEF Backoff, At
  <2>2. /\ attempt[c] + 1 < maxRetries /\ attempt[c] \in Nat /\ maxRetries \in Nat
        /\ attempt = [d \in Caller |-> attempt[d]]
    BY <2>1, ClientConstantsOK DEF RetryInv, ClientFunctions, RetryAt
  <2>3. attempt'[c] \in 0 .. maxRetries - 1
    BY <2>1, <2>2
  <2>4. \A d \in Caller \ {c} : attempt'[d] = attempt[d]
    BY <2>1, <2>2
  <2>5. QED
    BY <2>1, <2>3, <2>4 DEF ProgressInv, ProgressFunctions, ProgressAt
<1>4. ASSUME NEW c \in Caller, ReadChunk(c) PROVE Goal
  <2>1. PICK to \in pos[c] + 1 .. 2 * Lines : pos' = [pos EXCEPT ![c] = to]
    BY <1>4 DEF ReadChunk
  <2>2. UNCHANGED <<attempt, sends, served>>
    BY <1>4 DEF ReadChunk
  <2>3. to \in 0 .. 2 * Lines
    BY ClientConstantsOK DEF ProgressInv, ProgressAt
  <2>4. pos'[c] = to /\ \A d \in Caller \ {c} : pos'[d] = pos[d]
    BY <2>1 DEF ProgressInv, ProgressFunctions
  <2>5. ProgressFunctions'
    BY <2>1, <2>2 DEF ProgressInv, ProgressFunctions
  <2>6. QED
    BY <2>2, <2>3, <2>4, <2>5 DEF ProgressInv, ProgressAt
<1>5. ASSUME NEW c \in Caller,
             \/ Enter(c) \/ Breaker(c) \/ EndFn(c) \/ ReadEOF(c) \/ ReadFails(c)
             \/ ReplyCompleted(c) \/ ReplyFailed(c) \/ ReplyStreamed(c) \/ EstimateRecurses(c)
      PROVE  Goal
  <2>1. UNCHANGED <<attempt, sends, served, pos>>
    BY <1>5 DEF Enter, Breaker, EndFn, ReadEOF, ReadFails, ReplyCompleted, ReplyFailed,
                ReplyStreamed, EstimateRecurses, Reply, clientVars
  <2>2. QED
    BY <1>1, <2>1
<1>6. CASE UNCHANGED clientVars
  BY <1>1, <1>6 DEF clientVars
<1>7. QED
  BY <1>2, <1>3, <1>4, <1>5, <1>6 DEF ClientNext, Handler, upVars

\* Type correctness; with it, that no request is sent more than maxRetries times, nor
\* carried out more often than that, and no stream is read past its end.
THEOREM ClientTypesCorrect == ClientSpec => []ClientTypeOK
<1>1. ClientInit => Alive /\ ProgressInv
  <2> SUFFICES ASSUME ClientInit PROVE Alive /\ ProgressInv
    OBVIOUS
  <2>1. UsageFlags /\ Alive
    BY Zenon DEF ClientInit, UsageFlags, Alive
  <2>2. QED
    BY <2>1, ClientConstantsOK DEF ClientInit, ProgressInv, ProgressFunctions, ProgressAt
<1>2. RetryInv /\ Alive /\ ProgressInv /\ [ClientNext]_upVars => (Alive /\ ProgressInv)'
  <2> SUFFICES ASSUME RetryInv, Alive, ProgressInv, [ClientNext]_upVars
               PROVE  (Alive /\ ProgressInv)'
    OBVIOUS
  <2>1. UsageFlags' /\ Alive'
    BY FlagsStep DEF ProgressInv
  <2>2. QED
    BY <2>1, ProgressStep DEF ProgressInv
<1>3. RetryInv /\ BillInv /\ Alive /\ ProgressInv => ClientTypeOK
  <2> SUFFICES ASSUME RetryInv, BillInv, Alive, ProgressInv PROVE ClientTypeOK
    OBVIOUS
  <2>1. {usage, billed} \subseteq [Caller -> BOOLEAN] /\ alive \in BOOLEAN
    <3>1. usage \in [Caller -> BOOLEAN] /\ alive \in BOOLEAN
      BY Zenon DEF Alive, ProgressInv, UsageFlags
    <3>2. billed \in [Caller -> BOOLEAN]
      BY Zenon DEF BillInv
    <3>3. QED
      BY <3>1, <3>2, Zenon
  <2>2. attempt \in [Caller -> 0 .. maxRetries - 1] /\ pos \in [Caller -> 0 .. 2 * Lines]
    BY DEF RetryInv, ClientFunctions, ProgressInv, ProgressFunctions, ProgressAt
  <2>3. ASSUME NEW c \in Caller
        PROVE  sends[c] \in 0 .. maxRetries /\ served[c] \in 0 .. maxRetries
    BY ClientConstantsOK DEF ProgressInv, ProgressAt
  <2>4. {sends, served} \subseteq [Caller -> 0 .. maxRetries]
    BY <2>3 DEF RetryInv, ClientFunctions, ProgressInv, ProgressFunctions
  <2>5. QED
    BY <2>1, <2>2, <2>4 DEF ClientTypeOK, BillInv
<1>4. QED
  BY <1>1, <1>2, <1>3, RetryInvHolds, BillInvHolds, PTL DEF ClientSpec
-------------------------------------------------------------------------------
\* The requests whose failure the breaker has counted, and where a request is in the
\* breaker once its fn has failed.
Counted == {c \in Caller : /\ step[c] \in {"returned", "answered"}
                           /\ outcome[c] \in Failures \ {"rejected"} /\ pc[c] # "failed"}

EndAt(c) ==
    /\ pc[c] = "failed" => step[c] = "returned" /\ outcome[c] \in Failures \ {"rejected"}
    /\ step[c] = "end" => outcome[c] \in (Failures \ {"rejected"}) \cup {"ok"}

EndInv == \A c \in Caller : EndAt(c)

\* A breaker's step moves nobody else, and moves the failures only where it counts one.
LEMMA CallMovesOwn ==
    ASSUME TypeOK, OpenIsIdle, NEW c \in Caller, Call(c)
    PROVE  /\ \A d \in Caller \ {c} : pc'[d] = pc[d]
           /\ AddFailure(c) \/ failures' = failures
           /\ pc'[c] = "failed" => RunFn(c)
<1> USE DEF GoTo, TypeOK
<1>1. CASE allowRequest(c)
  <2>1. failures' = failures
    BY <1>1 DEF allowRequest, AllowClosed, AllowOpen, transitionTo,
                TransitionAllowed, counters
  <2>2. QED
    BY <1>1, <2>1 DEF allowRequest, AllowClosed, AllowOpen
<1>2. CASE Count(c) \/ RunFn(c) \/ LoadFailures(c) \/ LoadSuccesses(c) \/ AddFailure(c) \/ AddSuccess(c)
  BY <1>2 DEF Count, RunFn, LoadFailures, LoadSuccesses, AddFailure, AddSuccess, counters
<1>3. CASE CompareRate(c)
  <2>1. state # "OPEN"
    BY <1>3 DEF CompareRate, OpenIsIdle
  <2>2. failures' = failures
    BY <1>3, <2>1, TransitionKeepsCounters DEF CompareRate, counters
  <2>3. QED
    BY <1>3, <2>2 DEF CompareRate
<1>4. QED
  BY <1>1, <1>2, <1>3 DEF Call

\* Every step of a handler but the breaker's AddFailure keeps its request where it was
\* with respect to Counted, and AddFailure moves it in.
LEMMA EndStep ==
    ASSUME TypeOK, OpenIsIdle, ClientFunctions, NEW c \in Caller, EndAt(c), Handler(c)
    PROVE  /\ EndAt(c)'
           /\ \/ failures' = failures /\ (c \in Counted' <=> c \in Counted)
              \/ failures' = failures + 1 /\ c \notin Counted /\ c \in Counted'
<1> DEFINE Goal ==
        /\ EndAt(c)'
        /\ \/ failures' = failures /\ (c \in Counted' <=> c \in Counted)
           \/ failures' = failures + 1 /\ c \notin Counted /\ c \in Counted'
<1>1. ASSUME NEW label, Move(c, label) PROVE step'[c] = label
  BY <1>1 DEF Move, ClientFunctions
<1>2. ASSUME NEW label, GoTo(c, label) PROVE pc'[c] = label
  BY <1>2 DEF GoTo, TypeOK
<1>3. ASSUME NEW res, outcome' = [outcome EXCEPT ![c] = res] PROVE outcome'[c] = res
  BY <1>3 DEF ClientFunctions
<1>4. ASSUME UNCHANGED vars PROVE failures' = failures /\ pc' = pc
  BY <1>4 DEF vars, counters
<1>5. CASE Enter(c)
  <2>1. step[c] = "new" /\ failures' = failures
    BY <1>5, CallMovesOwn DEF Enter, At, Call, allowRequest, AddFailure
  <2>2. pc'[c] # "failed"
    BY <1>2, <1>5 DEF Enter, allowRequest, AllowClosed, AllowOpen
  <2>3. step'[c] = "send" \/ (step'[c] = "returned" /\ outcome'[c] = "rejected")
    BY <1>1, <1>3, <1>5 DEF Enter
  <2>4. QED
    BY <2>1, <2>2, <2>3 DEF EndAt, Counted
<1>6. CASE Breaker(c)
  <2>1. Call(c) /\ ~RunFn(c) /\ UNCHANGED <<step, outcome>>
    BY <1>6 DEF Breaker, Call, clientVars, RunFn, Count, AddFailure, LoadFailures, LoadSuccesses,
                CompareRate, AddSuccess
  <2>2. pc'[c] # "failed"
    BY <2>1, CallMovesOwn
  <2>3. CASE AddFailure(c)
    BY <2>1, <2>2, <2>3 DEF AddFailure, EndAt, Counted
  <2>4. CASE ~AddFailure(c)
    <3>1. failures' = failures
      BY <2>1, <2>4, CallMovesOwn
    <3>2. pc[c] # "failed"
      BY <1>6, <2>4 DEF Breaker, Count, LoadFailures, LoadSuccesses, CompareRate, AddSuccess
    <3>3. QED
      BY <2>1, <2>2, <3>1, <3>2 DEF EndAt, Counted
  <2>5. QED
    BY <2>3, <2>4
<1>7. CASE EndFn(c)
  <2>1. step[c] = "end" /\ step'[c] = "returned" /\ failures' = failures /\ outcome' = outcome
    BY <1>1, <1>7 DEF EndFn, At, RunFn, counters
  <2>2. pc'[c] = IF outcome[c] = "ok" THEN "succeeded" ELSE "failed"
    BY <1>2, <1>7 DEF EndFn
  <2>3. QED
    BY <2>1, <2>2 DEF EndAt, Counted, Failures
<1>8. CASE SendFails(c) \/ SendCompletes(c) \/ StreamOpens(c)
  <2>1. PICK res \in (Failures \ {"rejected"}) \cup {"ok", "open"}, work \in {0, 1} :
            Post(c, res, work) /\ (res = "open" => Move(c, "read"))
    BY <1>8 DEF SendFails, SendCompletes, StreamOpens, Failures
  <2>2. step[c] = "send" /\ outcome'[c] = res /\ UNCHANGED vars
    BY <1>3, <2>1 DEF Post, At
  <2>3. step'[c] \in {"backoff", "end", "read"} /\ (res = "open" => step'[c] = "read")
    BY <1>1, <1>8, <2>1 DEF SendFails, SendCompletes, StreamOpens
  <2>4. QED
    BY <1>4, <2>2, <2>3 DEF EndAt, Counted
<1>9. CASE Backoff(c) \/ ReadChunk(c)
  <2>1. /\ step[c] \in {"backoff", "read"} /\ UNCHANGED vars
        /\ step'[c] = step[c] \/ step'[c] = "send"
    BY <1>1, <1>9 DEF Backoff, ReadChunk, At
  <2>2. QED
    BY <1>4, <2>1 DEF EndAt, Counted
<1>10. CASE ReadEOF(c) \/ ReadFails(c)
  <2>1. /\ step[c] = "read" /\ step'[c] = "end" /\ outcome'[c] \in {"ok", "broken"}
        /\ UNCHANGED vars
    BY <1>1, <1>3, <1>10 DEF ReadEOF, ReadFails, At
  <2>2. QED
    BY <1>4, <2>1 DEF EndAt, Counted, Failures
<1>11. CASE ReplyCompleted(c) \/ ReplyFailed(c) \/ ReplyStreamed(c)
  <2>1. /\ step[c] = "returned" /\ pc[c] = "idle" /\ step'[c] = "answered"
        /\ outcome' = outcome /\ UNCHANGED vars
    BY <1>1, <1>11 DEF ReplyCompleted, ReplyFailed, ReplyStreamed, Reply, Returned, At
  <2>2. QED
    BY <1>4, <2>1 DEF EndAt, Counted
<1>12. CASE EstimateRecurses(c)
  BY <1>4, <1>12 DEF EstimateRecurses, EndAt, Counted
<1>13. QED
  BY <1>5, <1>6, <1>7, <1>8, <1>9, <1>10, <1>11, <1>12 DEF Handler

LEMMA CountedStep ==
    ASSUME TypeOK, OpenIsIdle, ClientFunctions, EndInv, failures = Cardinality(Counted),
           [ClientNext]_upVars
    PROVE  EndInv' /\ failures' = Cardinality(Counted')
<1>1. IsFiniteSet(Counted)
  BY BreakerConstantsOK, FS_Subset DEF Counted
<1>2. ASSUME NEW c \in Caller, Handler(c) PROVE EndInv' /\ failures' = Cardinality(Counted')
  <2>1. /\ EndAt(c)'
        /\ \/ failures' = failures /\ (c \in Counted' <=> c \in Counted)
           \/ failures' = failures + 1 /\ c \notin Counted /\ c \in Counted'
    BY <1>2, EndStep DEF EndInv
  <2>2. \A d \in Caller \ {c} :
            step'[d] = step[d] /\ outcome'[d] = outcome[d] /\ pc'[d] = pc[d]
    BY <1>2, OthersUntouched, HandlerStep, CallMovesOwn DEF vars
  <2>3. \A d \in Caller \ {c} : EndAt(d)' /\ (d \in Counted' <=> d \in Counted)
    BY <2>2 DEF EndInv, EndAt, Counted
  <2>4. EndInv'
    BY <2>1, <2>3 DEF EndInv
  <2>5. Counted \subseteq Caller /\ Counted' \subseteq Caller
    BY DEF Counted
  <2>6. CASE failures' = failures /\ (c \in Counted' <=> c \in Counted)
    <3>1. Counted' = Counted
      BY <2>3, <2>5, <2>6
    <3>2. QED
      BY <2>4, <2>6, <3>1
  <2>7. CASE failures' = failures + 1 /\ c \notin Counted /\ c \in Counted'
    <3>1. Counted' = Counted \cup {c}
      BY <2>3, <2>5, <2>7
    <3>2. Cardinality(Counted') = Cardinality(Counted) + 1
      BY <1>1, <2>7, <3>1, FS_AddElement
    <3>3. QED
      BY <2>4, <2>7, <3>2
  <2>8. QED
    BY <2>1, <2>6, <2>7
<1>3. ASSUME UNCHANGED <<step, outcome, pc, failures>>
      PROVE  EndInv' /\ failures' = Cardinality(Counted')
  BY <1>3 DEF EndInv, EndAt, Counted
<1>4. QED
  BY <1>2, <1>3 DEF ClientNext, CoolDown, upVars, clientVars, vars, counters

LEMMA OpenIsIdleHolds == Spec => []OpenIsIdle
<1>1. Init => OpenIsIdle
  BY DEF Init, OpenIsIdle
<1>2. QED
  BY <1>1, OpenIsIdleStep, TypeCorrect, PTL DEF Spec

\* A failed request is one failure to the breaker, however often it was tried, however
\* many others run beside it, and a refused one is none.
THEOREM FailuresAreRequests == ClientSpec => []BreakerCountsRequests
<1>1. ClientInit => EndInv /\ failures = Cardinality(Counted)
  <2> SUFFICES ASSUME ClientInit PROVE EndInv /\ failures = Cardinality(Counted)
    OBVIOUS
  <2>1. Counted = {} /\ failures = 0 /\ EndInv
    BY DEF ClientInit, Init, Counted, EndInv, EndAt
  <2>2. QED
    BY <2>1, FS_EmptySet
<1>2. /\ TypeOK /\ OpenIsIdle /\ RetryInv /\ EndInv /\ failures = Cardinality(Counted)
      /\ [ClientNext]_upVars
      => (EndInv /\ failures = Cardinality(Counted))'
  BY CountedStep DEF RetryInv
<1>3. failures = Cardinality(Counted) => BreakerCountsRequests
  BY DEF Counted, BreakerCountsRequests
<1>4. ClientSpec => []TypeOK /\ []OpenIsIdle
  BY ClientImplementsBreaker, TypeCorrect, OpenIsIdleHolds DEF ImplementsBreaker
<1>5. QED
  BY <1>1, <1>2, <1>3, <1>4, RetryInvHolds, PTL DEF ClientSpec
-------------------------------------------------------------------------------
(* What EveryRequestAnswered rests on besides fairness.                    *)

\* The steps a request has before it at most: outside the breaker, from label s on with n
\* attempts begun and h half-lines read; inside it, from its label p on.
Outside(s, n, h) ==
    CASE s = "new"      -> 2 * maxRetries + 2 * Lines + 9
      [] s = "send"     -> 2 * (maxRetries - n) + 2 * Lines + 2
      [] s = "backoff"  -> 2 * (maxRetries - n) + 2 * Lines + 1
      [] s = "read"     -> 2 * Lines - h + 3
      [] s = "end"      -> 2
      [] s = "returned" -> 1
      [] OTHER          -> 0

Inside(p) ==
    CASE p = "admitted" -> 6 [] p = "call" -> 5 [] p = "failed" -> 4
      [] p = "loadFailures" -> 3 [] p = "loadSuccesses" -> 2 [] p = "rate" -> 1
      [] p = "succeeded" -> 1
      [] OTHER -> 0

Left(c) == IF alive THEN Outside(step[c], attempt[c], pos[c]) + Inside(pc[c]) ELSE 0

LEMMA LeftTyped ==
    ASSUME TypeOK, ClientTypeOK, NEW c \in Caller
    PROVE  /\ attempt[c] \in 0 .. maxRetries - 1 /\ pos[c] \in 0 .. 2 * Lines
           /\ maxRetries \in Nat \ {0} /\ Lines \in Nat \ {0}
           /\ Outside(step[c], attempt[c], pos[c]) \in 0 .. 2 * maxRetries + 2 * Lines + 9
           /\ Inside(pc[c]) \in 0 .. 6
           /\ Left(c) \in 0 .. 2 * maxRetries + 2 * Lines + 15
<1>1. /\ attempt[c] \in 0 .. maxRetries - 1 /\ pos[c] \in 0 .. 2 * Lines
      /\ maxRetries \in Nat \ {0} /\ Lines \in Nat \ {0}
  BY ClientConstantsOK DEF ClientTypeOK
<1>2. Outside(step[c], attempt[c], pos[c]) \in 0 .. 2 * maxRetries + 2 * Lines + 9
  BY <1>1 DEF Outside
<1>3. Inside(pc[c]) \in 0 .. 6
  BY DEF Inside
<1>4. Left(c) \in 0 .. 2 * maxRetries + 2 * Lines + 15
  BY <1>1, <1>2, <1>3 DEF Left
<1>5. QED
  BY <1>1, <1>2, <1>3, <1>4

\* A request's own steps bring it nearer to its answer.
LEMMA BreakerNearer ==
    ASSUME TypeOK, NEW c \in Caller, Breaker(c)
    PROVE  Inside(pc'[c]) < Inside(pc[c])
<1>1. ASSUME NEW label, GoTo(c, label) PROVE pc'[c] = label
  BY <1>1 DEF GoTo, TypeOK
<1>2. CASE Count(c) \/ AddFailure(c) \/ LoadFailures(c) \/ LoadSuccesses(c)
  BY <1>1, <1>2 DEF Count, AddFailure, LoadFailures, LoadSuccesses, Inside
<1>3. CASE CompareRate(c) \/ AddSuccess(c)
  BY <1>1, <1>3 DEF CompareRate, AddSuccess, Inside
<1>4. QED
  BY <1>2, <1>3 DEF Breaker

LEMMA HandlerNearer ==
    ASSUME TypeOK, ClientTypeOK, NEW c \in Caller, Handler(c)
    PROVE  Left(c)' < Left(c)
<1> DEFINE out  == Outside(step[c], attempt[c], pos[c])
           outN == Outside(step'[c], attempt'[c], pos'[c])
           in   == Inside(pc[c])
           inN  == Inside(pc'[c])
<1>1. /\ attempt[c] \in 0 .. maxRetries - 1 /\ pos[c] \in 0 .. 2 * Lines
      /\ maxRetries \in Nat \ {0} /\ Lines \in Nat \ {0} /\ in \in 0 .. 6 /\ out \in Nat
  BY LeftTyped
<1>2. Left(c) = (IF alive THEN out + in ELSE 0) /\ Left(c)' = (IF alive' THEN outN + inN ELSE 0)
  BY DEF Left, Outside, Inside
<1>3. ASSUME NEW label, Move(c, label) PROVE step'[c] = label
  BY <1>3 DEF Move, ClientTypeOK
<1>4. ASSUME NEW label, GoTo(c, label) PROVE pc'[c] = label
  BY <1>4 DEF GoTo, TypeOK
<1>5. ASSUME alive, outN \in Nat, inN \in Nat, outN + inN < out + in PROVE Left(c)' < Left(c)
  <2> HIDE DEF out, outN, in, inN
  <2>1. /\ Left(c) = out + in
        /\ Left(c)' = (IF alive' THEN outN + inN ELSE 0)
    BY <1>2, <1>5
  <2>2. QED
    BY <1>1, <1>5, <2>1
<1>6. ASSUME pc' = pc, outN \in Nat, outN < out, alive PROVE Left(c)' < Left(c)
  <2>1. inN = in
    BY <1>6
  <2> HIDE DEF out, outN, in, inN
  <2>2. QED
    BY <1>1, <1>5, <1>6, <2>1
<1>7. ASSUME UNCHANGED vars PROVE pc' = pc
  BY <1>7 DEF vars
<1>8. CASE Enter(c)
  <2>1. step[c] = "new" /\ pc[c] = "idle" /\ alive /\ UNCHANGED <<attempt, pos>>
    BY <1>8 DEF Enter, At, allowRequest
  <2>2. pc'[c] \in {"idle", "admitted"}
    BY <1>4, <1>8 DEF Enter, allowRequest, AllowClosed, AllowOpen
  <2>3. step'[c] \in {"send", "returned"}
    BY <1>3, <1>8 DEF Enter
  <2>4. out = 2 * maxRetries + 2 * Lines + 9 /\ in = 0
    BY <2>1 DEF Outside, Inside
  <2>5. outN \in Nat /\ outN <= 2 * maxRetries + 2 * Lines + 2
    BY <1>1, <2>1, <2>3 DEF Outside
  <2>6. inN \in 0 .. 6
    BY <2>2 DEF Inside
  <2> HIDE DEF out, outN, in, inN
  <2>7. QED
    BY <1>1, <1>5, <2>1, <2>4, <2>5, <2>6
<1>9. CASE Breaker(c)
  <2>1. alive /\ step' = step /\ attempt' = attempt /\ pos' = pos
    BY <1>9 DEF Breaker, clientVars
  <2>2. outN = out
    BY <2>1
  <2>3. inN < in
    BY <1>9, BreakerNearer
  <2>4. inN \in Nat
    BY DEF Inside
  <2> HIDE DEF out, outN, in, inN
  <2>5. QED
    BY <1>1, <1>5, <2>1, <2>2, <2>3, <2>4
<1>10. CASE EndFn(c)
  <2>1. /\ alive /\ step[c] = "end" /\ pc[c] = "call" /\ step'[c] = "returned"
        /\ pc'[c] \in {"succeeded", "failed"}
    BY <1>3, <1>4, <1>10 DEF EndFn, At, RunFn
  <2>2. out = 2 /\ outN = 1 /\ in = 5 /\ inN \in 1 .. 4
    BY <2>1 DEF Outside, Inside
  <2> HIDE DEF out, outN, in, inN
  <2>3. QED
    BY <1>5, <2>1, <2>2
<1>11. CASE SendFails(c) \/ SendCompletes(c) \/ StreamOpens(c)
  <2>1. PICK res, work : Post(c, res, work)
    BY <1>11 DEF SendFails, SendCompletes, StreamOpens
  <2>2. alive /\ step[c] = "send" /\ pc' = pc /\ attempt' = attempt /\ pos' = pos
    BY <1>7, <2>1 DEF Post, At
  <2>3. step'[c] \in {"backoff", "end", "read"}
    BY <1>3, <1>11 DEF SendFails, SendCompletes, StreamOpens
  <2>4. outN \in Nat /\ outN < out
    BY <1>1, <2>2, <2>3 DEF Outside
  <2>5. QED
    BY <1>6, <2>2, <2>4
<1>12. CASE Backoff(c)
  <2>1. /\ alive /\ step[c] = "backoff" /\ step'[c] = "send" /\ pc' = pc
        /\ attempt'[c] = attempt[c] + 1 /\ pos' = pos
    BY <1>3, <1>7, <1>12 DEF Backoff, At, ClientTypeOK
  <2>2. outN \in Nat /\ outN < out
    BY <1>1, <2>1 DEF Outside
  <2>3. QED
    BY <1>6, <2>1, <2>2
<1>13. CASE ReadChunk(c)
  <2>1. PICK to \in pos[c] + 1 .. 2 * Lines : pos' = [pos EXCEPT ![c] = to]
    BY <1>13 DEF ReadChunk
  <2>2. alive /\ step[c] = "read" /\ step' = step /\ pc' = pc /\ attempt' = attempt
    BY <1>7, <1>13 DEF ReadChunk, At
  <2>3. pos'[c] = to
    BY <2>1 DEF ClientTypeOK
  <2>4. outN \in Nat /\ outN < out
    BY <1>1, <2>2, <2>3 DEF Outside
  <2>5. QED
    BY <1>6, <2>2, <2>4
<1>14. CASE ReadEOF(c) \/ ReadFails(c)
  <2>1. alive /\ step[c] = "read" /\ step'[c] = "end" /\ pc' = pc
    BY <1>3, <1>7, <1>14 DEF ReadEOF, ReadFails, At
  <2>2. outN \in Nat /\ outN < out
    BY <1>1, <2>1 DEF Outside
  <2>3. QED
    BY <1>6, <2>1, <2>2
<1>15. CASE ReplyCompleted(c) \/ ReplyFailed(c) \/ ReplyStreamed(c)
  <2>1. alive /\ step[c] = "returned" /\ step'[c] = "answered" /\ pc' = pc
    BY <1>3, <1>7, <1>15 DEF ReplyCompleted, ReplyFailed, ReplyStreamed, Reply, Returned, At
  <2>2. outN \in Nat /\ outN < out
    BY <2>1 DEF Outside
  <2>3. QED
    BY <1>6, <2>1, <2>2
<1>16. CASE EstimateRecurses(c)
  <2>1. alive /\ step[c] = "returned" /\ alive' = FALSE
    BY <1>16 DEF EstimateRecurses, Returned, At
  <2>2. out = 1
    BY <2>1 DEF Outside
  <2> HIDE DEF out, outN, in, inN
  <2>3. QED
    BY <1>1, <1>2, <2>1, <2>2
<1>17. QED
  BY <1>8, <1>9, <1>10, <1>11, <1>12, <1>13, <1>14, <1>15, <1>16 DEF Handler

\* Nobody else takes it further away: only the death of the process touches it.
LEMMA OthersNoFurther ==
    ASSUME TypeOK, OpenIsIdle, ClientTypeOK, [ClientNext]_upVars, NEW d \in Caller,
           ~Handler(d)
    PROVE  Left(d)' <= Left(d)
<1>1. Left(d) \in Nat
  BY LeftTyped, ClientConstantsOK
<1>2. ASSUME step'[d] = step[d], attempt'[d] = attempt[d], pos'[d] = pos[d], pc'[d] = pc[d],
             alive' = alive \/ ~alive'
      PROVE  Left(d)' <= Left(d)
  <2>1. Left(d)' = Left(d) \/ Left(d)' = 0
    BY <1>2 DEF Left
  <2>2. QED
    BY <1>1, <2>1
<1>3. ASSUME NEW c \in Caller, c # d, Handler(c) PROVE Left(d)' <= Left(d)
  <2>1. ClientFunctions
    BY DEF ClientTypeOK, ClientFunctions
  <2>2. step'[d] = step[d] /\ attempt'[d] = attempt[d]
    BY <1>3, <2>1, OthersUntouched
  <2>3. pc'[d] = pc[d]
    BY <1>3, HandlerStep, CallMovesOwn DEF vars
  <2>4. pos'[d] = pos[d] /\ (alive' = alive \/ ~alive')
    <3>1. CASE ReadChunk(c) \/ EstimateRecurses(c)
      BY <1>3, <3>1 DEF ReadChunk, EstimateRecurses, ClientTypeOK
    <3>2. CASE \/ Enter(c) \/ Breaker(c) \/ EndFn(c) \/ SendFails(c) \/ SendCompletes(c)
               \/ Backoff(c) \/ StreamOpens(c) \/ ReadEOF(c) \/ ReadFails(c)
               \/ ReplyCompleted(c) \/ ReplyFailed(c) \/ ReplyStreamed(c)
      BY <3>2 DEF Enter, Breaker, EndFn, SendFails, SendCompletes, Backoff, StreamOpens,
                  ReadEOF, ReadFails, ReplyCompleted, ReplyFailed, ReplyStreamed, Reply, Post,
                  clientVars
    <3>3. QED
      BY <1>3, <3>1, <3>2 DEF Handler
  <2>5. QED
    BY <1>2, <2>2, <2>3, <2>4
<1>4. CASE UNCHANGED <<clientVars, pc>>
  BY <1>2, <1>4 DEF clientVars
<1>5. QED
  BY <1>3, <1>4 DEF ClientNext, CoolDown, upVars, vars

\* Whatever the upstream and the breaker do, a request is at work for a bounded number of
\* steps: each of its own leaves it fewer, and no other request gives it more.
THEOREM ClientsWindDown ==
    ClientSpec => /\ [](\A c \in Caller :
                           /\ Left(c) \in 0 .. 2 * maxRetries + 2 * Lines + 15
                           /\ Left(c) = 0 => step[c] = "answered" \/ ~alive)
                  /\ [][\A c \in Caller :
                           /\ Left(c)' <= Left(c)
                           /\ Handler(c) => Left(c)' < Left(c)]_upVars
<1> DEFINE Bounded == \A c \in Caller :
                        /\ Left(c) \in 0 .. 2 * maxRetries + 2 * Lines + 15
                        /\ Left(c) = 0 => step[c] = "answered" \/ ~alive
           Nearer  == \A c \in Caller :
                        /\ Left(c)' <= Left(c)
                        /\ Handler(c) => Left(c)' < Left(c)
<1>1. TypeOK /\ ClientTypeOK => Bounded
  <2> SUFFICES ASSUME TypeOK, ClientTypeOK, NEW c \in Caller
               PROVE  /\ Left(c) \in 0 .. 2 * maxRetries + 2 * Lines + 15
                      /\ Left(c) = 0 => step[c] = "answered" \/ ~alive
    OBVIOUS
  <2>1. /\ attempt[c] \in 0 .. maxRetries - 1 /\ pos[c] \in 0 .. 2 * Lines
        /\ maxRetries \in Nat \ {0} /\ Lines \in Nat \ {0} /\ Inside(pc[c]) \in 0 .. 6
        /\ Left(c) \in 0 .. 2 * maxRetries + 2 * Lines + 15
    BY LeftTyped
  <2>2. step[c] # "answered" => Outside(step[c], attempt[c], pos[c]) > 0
    BY <2>1 DEF Outside, ClientTypeOK
  <2>3. Outside(step[c], attempt[c], pos[c]) \in Int
    BY <2>1 DEF Outside
  <2>4. QED
    BY <2>1, <2>2, <2>3 DEF Left
<1>2. TypeOK /\ OpenIsIdle /\ ClientTypeOK /\ TypeOK' /\ ClientTypeOK' /\ [ClientNext]_upVars
        => [Nearer]_upVars
  <2> SUFFICES ASSUME TypeOK, OpenIsIdle, ClientTypeOK, TypeOK', ClientTypeOK',
                      [ClientNext]_upVars, NEW c \in Caller
               PROVE  /\ Left(c)' <= Left(c)
                      /\ Handler(c) => Left(c)' < Left(c)
    OBVIOUS
  <2>1. Left(c) \in Int
    BY LeftTyped, ClientConstantsOK
  <2>2. Left(c)' \in Int
    <3>1. attempt'[c] \in Int /\ pos'[c] \in Int /\ maxRetries \in Int /\ Lines \in Int
      BY ClientConstantsOK DEF ClientTypeOK
    <3>2. Inside(pc'[c]) \in Int
      BY DEF Inside
    <3>3. Outside(step'[c], attempt'[c], pos'[c]) \in Int
      BY <3>1 DEF Outside
    <3>4. Left(c)' = IF alive' THEN Outside(step'[c], attempt'[c], pos'[c]) + Inside(pc'[c])
                               ELSE 0
      BY DEF Left, Outside, Inside
    <3>5. QED
      BY <3>2, <3>3, <3>4
  <2>3. Handler(c) => Left(c)' < Left(c)
    BY HandlerNearer
  <2>4. ~Handler(c) => Left(c)' <= Left(c)
    BY OthersNoFurther
  <2>5. QED
    BY <2>1, <2>2, <2>3, <2>4
<1>3. ClientSpec => []TypeOK /\ []OpenIsIdle
  BY ClientImplementsBreaker, TypeCorrect, OpenIsIdleHolds DEF ImplementsBreaker
<1>4. QED
  BY <1>1, <1>2, <1>3, ClientTypesCorrect, PTL DEF ClientSpec
===============================================================================
