----------------------------- MODULE UsageLedger -----------------------------
(***************************************************************************)
(* What usage accounting promises a tenant: the tokens of a response are   *)
(* one claim on its account from the moment it was answered.  A booking    *)
(* uses a claim up, a claim may be dropped, and it takes a mishap for one  *)
(* to be made again.                                                       *)
(***************************************************************************)
EXTENDS Naturals

CONSTANT Response

VARIABLES answered,  \* responses whose usage has to be booked
          claims,    \* how many parties are still to book each of them
          booked,    \* how often each was booked
          mishaps    \* lost answers, crashes and the like

ledger == <<answered, claims, booked, mishaps>>

Init ==
    /\ answered = {} /\ mishaps = 0
    /\ claims = [r \in Response |-> 0] /\ booked = [r \in Response |-> 0]

Answer(r) ==
    /\ r \notin answered /\ answered' = answered \cup {r}
    /\ claims' = [claims EXCEPT ![r] = 1]
    /\ UNCHANGED <<booked, mishaps>>

Book(r) ==
    /\ claims[r] > 0
    /\ claims' = [claims EXCEPT ![r] = @ - 1]
    /\ booked' = [booked EXCEPT ![r] = @ + 1]
    /\ UNCHANGED <<answered, mishaps>>

\* Claims are lost, such as lines of a file that is written over.
Drop ==
    /\ claims' \in [Response -> Nat] /\ \A r \in Response : claims'[r] <= claims[r]
    /\ UNCHANGED <<answered, booked, mishaps>>

\* A mishap renews at most one claim on each response, or leaves one that is booked.
Mishap ==
    /\ mishaps' = mishaps + 1
    /\ claims' \in [Response -> Nat] /\ booked' \in [Response -> Nat]
    /\ \A r \in Response :
         /\ booked[r] <= booked'[r]
         /\ booked'[r] + claims'[r] <= booked[r] + claims[r] + 1
         /\ claims[r] = 0 => booked'[r] = booked[r]
    /\ UNCHANGED answered

Next == (\E r \in Response : Answer(r) \/ Book(r)) \/ Drop \/ Mishap

Spec == Init /\ [][Next]_ledger
===============================================================================
