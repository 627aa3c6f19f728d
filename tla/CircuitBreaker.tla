---------------------------- MODULE CircuitBreaker ----------------------------
(***************************************************************************)
(* middleware/circuitbreaker/circuit.go: the breaker every LLM client of   *)
(* the gateway shares.  Its fields are separate atomics; only transitionTo *)
(* takes the mutex, so concurrent Calls interleave between any two of the  *)
(* accesses below.                                                         *)
(*                                                                         *)
(* The half-open branches of allowRequest and recordSuccess, with their    *)
(* counter, are left out: transitionTo, which is whole here, lets no call  *)
(* into that state (TypeOK), and nothing else stores it.                   *)
(***************************************************************************)
EXTENDS Integers, FiniteSets

CONSTANTS Caller,               \* goroutines inside Call at the same time
          InitialStates,        \* CLOSED from NewCircuitBreaker; a test stores OPEN
          FailureThreshold,     \* percent
          minRequests,          \* 10: requests needed before the rate counts
          MaxCalls              \* bound: no call begins once so many were counted

ASSUME BreakerConstantsOK ==
    /\ IsFiniteSet(Caller)
    /\ InitialStates \subseteq {"CLOSED", "OPEN"}
    /\ {FailureThreshold, minRequests, MaxCalls} \subseteq Nat

VARIABLES state, failures, successes, totalRequests,
          pc,       \* where each caller is
          total,    \* its local `total` in recordFailure
          cooling   \* time.Since(lastFailureTime) <= ResetTimeout

counters == <<failures, successes>>
vars == <<state, counters, totalRequests, pc, total, cooling>>

Init ==
    /\ state \in InitialStates
    /\ failures = 0 /\ successes = 0 /\ totalRequests = 0
    /\ pc = [c \in Caller |-> "idle"]
    /\ total = [c \in Caller |-> 0]
    /\ cooling = FALSE

GoTo(c, label) == pc' = [pc EXCEPT ![c] = label]
-------------------------------------------------------------------------------
\* transitionTo refuses a state that differs from the current one.
TransitionAllowed(new) == ~(state # new \/ (new = "HALF_OPEN" /\ state # "OPEN"))

transitionTo(new) ==
    IF TransitionAllowed(new)
    THEN /\ state' = new
         /\ IF new = "OPEN" THEN failures' = 0 /\ successes' = 0 ELSE UNCHANGED counters
    ELSE UNCHANGED <<state, counters>>

\* allowRequest: what it does depends on the state it loads first.
AllowClosed(c) ==
    /\ state = "CLOSED" /\ GoTo(c, "admitted")
    /\ UNCHANGED <<state, counters>>

AllowOpen(c) ==
    /\ state = "OPEN"
    /\ IF cooling THEN UNCHANGED <<state, counters>> ELSE transitionTo("HALF_OPEN")
    /\ GoTo(c, IF ~cooling /\ TransitionAllowed("HALF_OPEN") THEN "admitted" ELSE "idle")

allowRequest(c) ==
    /\ pc[c] = "idle" /\ totalRequests < MaxCalls
    /\ AllowClosed(c) \/ AllowOpen(c)
    /\ UNCHANGED <<totalRequests, total, cooling>>

\* Call counts the request, then runs fn; a context cancelled before or after fn
\* counts as a failure like an error of fn.
Count(c) ==
    /\ pc[c] = "admitted" /\ GoTo(c, "call")
    /\ totalRequests' = totalRequests + 1
    /\ UNCHANGED <<state, counters, total, cooling>>

RunFn(c) ==
    /\ pc[c] = "call" /\ (GoTo(c, "failed") \/ GoTo(c, "succeeded"))
    /\ UNCHANGED <<state, counters, totalRequests, total, cooling>>

\* recordFailure: add and store the time, load both counters one after the other, then
\* load the failures again to compare their rate.
AddFailure(c) ==
    /\ pc[c] = "failed" /\ GoTo(c, "loadFailures")
    /\ failures' = failures + 1 /\ cooling' = TRUE
    /\ UNCHANGED <<state, successes, totalRequests, total>>

LoadFailures(c) ==
    /\ pc[c] = "loadFailures" /\ GoTo(c, "loadSuccesses")
    /\ total' = [total EXCEPT ![c] = failures]
    /\ UNCHANGED <<state, counters, totalRequests, cooling>>

LoadSuccesses(c) ==
    /\ pc[c] = "loadSuccesses"
    /\ total' = [total EXCEPT ![c] = @ + successes]
    /\ GoTo(c, IF total[c] + successes < minRequests THEN "idle" ELSE "rate")
    /\ UNCHANGED <<state, counters, totalRequests, cooling>>

CompareRate(c) ==
    /\ pc[c] = "rate" /\ GoTo(c, "idle")
    /\ IF failures * 100 >= FailureThreshold * total[c]
       THEN transitionTo("OPEN") ELSE UNCHANGED <<state, counters>>
    /\ UNCHANGED <<totalRequests, total, cooling>>

\* Mutation of AddSuccess: a success pays for an earlier failure.
AddSuccessForgiving(c) ==
    /\ pc[c] = "succeeded" /\ GoTo(c, "idle")
    /\ successes' = successes + 1 /\ failures' = failures - 1
    /\ UNCHANGED <<state, totalRequests, total, cooling>>

\* recordSuccess: add; the load of a state that is not half-open ends it.
AddSuccess(c) ==
    /\ pc[c] = "succeeded" /\ GoTo(c, "idle")
    /\ successes' = successes + 1
    /\ UNCHANGED <<state, failures, totalRequests, total, cooling>>

Call(c) == \/ allowRequest(c) \/ Count(c) \/ RunFn(c)
           \/ AddFailure(c) \/ LoadFailures(c) \/ LoadSuccesses(c) \/ CompareRate(c)
           \/ AddSuccess(c)

\* ResetTimeout has passed since the last failure.
CoolDown ==
    /\ cooling /\ cooling' = FALSE
    /\ UNCHANGED <<state, counters, totalRequests, pc, total>>

Next == (\E c \in Caller : Call(c)) \/ CoolDown

Spec == Init /\ [][Next]_vars
-------------------------------------------------------------------------------
(* Properties.                                                             *)

\* The fields keep the types circuit.go gives them, and no call makes the breaker
\* half-open.
TypeOK ==
    /\ state \in {"CLOSED", "OPEN"}
    /\ {failures, successes, totalRequests} \subseteq Nat
    /\ total \in [Caller -> Nat] /\ cooling \in BOOLEAN
    /\ pc \in [Caller -> {"idle", "admitted", "call", "failed", "loadFailures",
                          "loadSuccesses", "rate", "succeeded"}]

Running == {c \in Caller : pc[c] \in {"call", "failed", "succeeded"}}

\* However Calls interleave, every counted request is a failure, a success, or
\* still running: no reset loses one.
CountersExact == totalRequests = failures + successes + Cardinality(Running)

\* What Plans.md promises of the breaker ("Fallback on 50% failure rate"): once
\* minRequests calls have failed, none has succeeded and all have recorded it, the
\* breaker is closed no more.
OpensAtThreshold ==
    (\A c \in Caller : pc[c] = "idle") /\ successes = 0 /\ failures >= minRequests
        => state # "CLOSED"
===============================================================================
