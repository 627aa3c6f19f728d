---------------------------- MODULE UsageAccounts ----------------------------
(***************************************************************************)
(* UsageRecorder seen as a ledger: who may still book a response is read   *)
(* off its recorder, the dead-letter file and the runs that replay it.     *)
(***************************************************************************)
EXTENDS UsageRecorder

One(condition) == IF condition THEN 1 ELSE 0

\* The runs that have still to replay, or to write back, the line of response r.
Holding(r) == {p \in Active : r \in todo[p] \cup kept[p]}

\* A run that has not truncated the file yet is about to remove what the file holds.
AboutToTruncate == \E p \in Run : runPc[p] \in {"lines", "replay"}

Claims(r) ==
    One(r \in InFlight) + Cardinality(Holding(r)) + One(r \in log /\ ~AboutToTruncate)

Ledger == INSTANCE UsageLedger WITH
    answered <- {r \in Response : pc[r] # "idle"},
    claims   <- [r \in Response |-> Claims(r)],
    booked   <- bookings,
    mishaps  <- faults + overlaps

\* Concurrent recorders and runs, outages, midnights, lost acknowledgements, file errors
\* and crashes keep the ledger: every statement of recordUsageWithRetry and of
\* ProcessUsageDeadLetter uses up the claim it was sent for, unless a mishap renews it.
ImplementsLedger == Ledger!Spec
===============================================================================
