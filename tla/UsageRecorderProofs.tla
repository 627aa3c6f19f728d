-------------------------- MODULE UsageRecorderProofs --------------------------
(***************************************************************************)
(* Proofs about UsageRecorder, for any number of responses, recorders and  *)
(* faults.  The inductive invariant adds to the type invariant, for every  *)
(* dead letter not appended during a run, where its record is: booked, in  *)
(* the file and still in reach of a run that has read the file, or in the  *)
(* kept lines of a run that has truncated it.  The second half bounds the  *)
(* rows a key can have, shows that recorders, replays, faults and crashes  *)
(* in any order implement UsageLedger and what that says of billing, and   *)
(* that every recorder has a bounded number of steps.                      *)
(***************************************************************************)
EXTENDS UsageAccounts, SequenceTheorems, FiniteSetTheorems, WellFoundedInduction, TLAPS

LEMMA UpdateType ==
    ASSUME NEW table \in Seq(UsageTrack), NEW key \in Key, NEW r \in Response
    PROVE  /\ Update(table, key, r) \in Seq(UsageTrack)
           /\ DOMAIN Update(table, key, r) = DOMAIN table
<1>1. PICK n \in Nat : DOMAIN table = 1 .. n
  OBVIOUS
<1>2. table \in [1 .. n -> UsageTrack]
  BY <1>1
<1>3. \A i \in 1 .. n : table[i] \in UsageTrack
  BY <1>2
<1>4. ASSUME NEW i \in 1 .. n
      PROVE  [key |-> key, added |-> [table[i].added EXCEPT ![r] = @ + 1]] \in UsageTrack
  BY <1>3, <1>4 DEF UsageTrack
<1>5. Update(table, key, r) \in [1 .. n -> UsageTrack]
  BY <1>1, <1>3, <1>4 DEF Update
<1>6. QED
  BY <1>1, <1>5 DEF Update

\* UPDATE only adds: what counted before still counts, and r counts if a row matched.
LEMMA UpdateCredits ==
    ASSUME NEW table \in Seq(UsageTrack), NEW key \in Key, NEW r \in Response,
           NEW s \in Response
    PROVE  /\ Credited(table, s) => Credited(Update(table, key, r), s)
           /\ Matching(table, key) # {} => Credited(Update(table, key, r), r)
<1> DEFINE new == Update(table, key, r)
<1>1. DOMAIN new = DOMAIN table
  BY UpdateType
<1>2. \A i \in DOMAIN table : table[i] \in UsageTrack
  OBVIOUS
<1>3. ASSUME NEW f \in [Response -> Nat]
      PROVE  LET g == [f EXCEPT ![r] = @ + 1]
             IN  g[s] \in Nat /\ f[s] \in Nat /\ g[s] >= f[s] /\ g[r] > 0
  OBVIOUS
<1>4. ASSUME NEW i \in DOMAIN table
      PROVE  /\ new[i].added[s] \in Nat /\ table[i].added[s] \in Nat
             /\ new[i].added[s] >= table[i].added[s]
             /\ table[i].key = key => new[i].added[r] > 0
  <2>1. table[i].added \in [Response -> Nat]
    BY <1>2 DEF UsageTrack
  <2>2. CASE table[i].key = key
    <3>1. new[i].added = [table[i].added EXCEPT ![r] = @ + 1]
      BY <2>2 DEF Update
    <3>2. QED
      BY <1>3, <2>1, <3>1
  <2>3. CASE table[i].key # key
    BY <2>1, <2>3 DEF Update
  <2>4. QED
    BY <2>2, <2>3
<1>5. Credited(table, s) => Credited(new, s)
  BY <1>1, <1>4 DEF Credited
<1>6. Matching(table, key) # {} => Credited(new, r)
  BY <1>1, <1>4 DEF Credited, Matching
<1>7. QED
  BY <1>5, <1>6

\* INSERT adds a row for r and leaves the others.
LEMMA InsertCredits ==
    ASSUME NEW table \in Seq(UsageTrack), NEW key \in Key, NEW r \in Response,
           NEW s \in Response
    PROVE  /\ Insert(table, key, r) \in Seq(UsageTrack)
           /\ Credited(table, s) => Credited(Insert(table, key, r), s)
           /\ Credited(Insert(table, key, r), r)
<1> DEFINE row == [key |-> key, added |-> [q \in Response |-> IF q = r THEN 1 ELSE 0]]
           new == Append(table, row)
<1>1. row \in UsageTrack
  BY DEF UsageTrack
<1>2. /\ new \in Seq(UsageTrack) /\ Len(new) = Len(table) + 1
      /\ \A i \in 1 .. Len(table) : new[i] = table[i]
      /\ new[Len(table) + 1] = row
  BY <1>1
<1>3. /\ DOMAIN table = 1 .. Len(table) /\ Len(table) \in Nat
      /\ DOMAIN new = 1 .. Len(table) + 1
  BY <1>2
<1>4. row.added[r] > 0
  OBVIOUS
<1>5. Credited(new, r)
  <2>1. Len(table) + 1 \in DOMAIN new
    BY <1>3
  <2>2. QED
    BY <1>2, <1>4, <2>1 DEF Credited
<1>6. Credited(table, s) => Credited(new, s)
  BY <1>2, <1>3 DEF Credited
<1>7. QED
  BY <1>2, <1>5, <1>6 DEF Insert

LEMMA KeyForType ==
    ASSUME NEW r \in Response, NEW day \in Nat
    PROVE  KeyFor(r, day) \in Key
BY ConstantsOK DEF KeyFor, Key

LEMMA NextAttemptType ==
    ASSUME TypeOK, NEW r \in Response, NextAttempt(r)
    PROVE  /\ attempt' \in [Response -> 0 .. maxAttempts - 1]
           /\ pc' = [pc EXCEPT ![r] = "deadletter"] \/ pc' = [pc EXCEPT ![r] = "start"]
<1>1. attempt[r] \in 0 .. maxAttempts - 1 /\ maxAttempts \in Nat \ {0}
  BY ConstantsOK DEF TypeOK
<1>2. attempt[r] # maxAttempts - 1 => attempt[r] + 1 \in 0 .. maxAttempts - 1
  BY <1>1
<1>3. attempt \in [Response -> 0 .. maxAttempts - 1]
  BY DEF TypeOK
<1>4. QED
  BY <1>2, <1>3 DEF NextAttempt

\* What each outcome of a statement does to the table.
LEMMA ApplyType ==
    ASSUME TypeOK, NEW r \in Response, NEW table, Apply(table, r)
    PROVE  rows' = table /\ bookings' \in [Response -> Nat]
<1>1. bookings \in [Response -> Nat] /\ bookings[r] + 1 \in Nat
  BY DEF TypeOK
<1>2. QED
  BY <1>1 DEF Apply

LEMMA UpdateUsageRows ==
    ASSUME TypeOK, NEW r \in Response, UpdateUsage(r)
    PROVE  /\ rows' \in Seq(UsageTrack)
           /\ \A s \in Response : Credited(rows, s) => Credited(rows, s)'
           /\ pc'[r] = "recorded" => Credited(rows, r)'
<1>1. rows \in Seq(UsageTrack) /\ KeyFor(r, recDay[r]) \in Key /\ pc = [q \in Response |-> pc[q]]
  BY KeyForType DEF TypeOK
<1>2. CASE Matching(rows, KeyFor(r, recDay[r])) # {} /\ rows' = Update(rows, KeyFor(r, recDay[r]), r)
  BY <1>1, <1>2, UpdateType, UpdateCredits
<1>3. CASE rows' = rows /\ pc'[r] # "recorded"
  BY <1>1, <1>3
<1>4. QED
  BY <1>1, <1>2, <1>3 DEF UpdateUsage, NextAttempt, Apply

LEMMA CreateUsageRows ==
    ASSUME TypeOK, NEW r \in Response, CreateUsage(r)
    PROVE  /\ rows' \in Seq(UsageTrack)
           /\ \A s \in Response : Credited(rows, s) => Credited(rows, s)'
           /\ pc'[r] = "recorded" => Credited(rows, r)'
<1>1. /\ rows \in Seq(UsageTrack) /\ KeyFor(r, recDay[r]) \in Key
      /\ pc = [q \in Response |-> pc[q]]
  BY KeyForType DEF TypeOK
<1>2. CASE rows' = Insert(rows, KeyFor(r, recDay[r]), r)
  BY <1>1, <1>2, InsertCredits
<1>3. CASE rows' = rows /\ pc'[r] # "recorded"
  BY <1>1, <1>3
<1>4. QED
  BY <1>1, <1>2, <1>3 DEF CreateUsage, NextAttempt, Apply

LEMMA ReplayLineRows ==
    ASSUME TypeOK, NEW p \in Run, ReplayLine(p)
    PROVE  /\ rows' \in Seq(UsageTrack)
           /\ \A s \in Response : Credited(rows, s) => Credited(rows, s)'
           /\ \A s \in todo[p] \cup kept[p] :
                s \in todo'[p] \cup kept'[p] \/ Credited(rows, s)'
<1>1. PICK r \in todo[p] : ReplayLine(p)!2!(r)
  BY DEF ReplayLine
<1> DEFINE key == KeyFor(r, runDay[p])
<1>2. /\ todo \in [Run -> SUBSET Response] /\ kept \in [Run -> SUBSET Response]
      /\ rows \in Seq(UsageTrack) /\ runDay \in [Run -> Nat]
  BY DEF TypeOK
<1>3. r \in Response /\ key \in Key
  BY <1>2, KeyForType
<1>4. todo'[p] = todo[p] \ {r}
  BY <1>1, <1>2
<1>5. CASE Matching(rows, key) # {} /\ rows' = Update(rows, key, r)
  <2>1. kept[p] \subseteq kept'[p]
    BY <1>1, <1>2
  <2>2. /\ rows' \in Seq(UsageTrack) /\ Credited(rows, r)'
        /\ \A s \in Response : Credited(rows, s) => Credited(rows, s)'
    BY <1>2, <1>3, <1>5, UpdateType, UpdateCredits
  <2>3. QED
    BY <1>2, <1>4, <2>1, <2>2
<1>6. CASE rows' = rows /\ kept' = [kept EXCEPT ![p] = @ \cup {r}]
  BY <1>2, <1>4, <1>6 DEF Credited
<1>7. QED
  BY <1>1, <1>5, <1>6 DEF Apply

-------------------------------------------------------------------------------
LEMMA TypeInit == Init => TypeOK
<1> SUFFICES ASSUME Init PROVE TypeOK
  OBVIOUS
<1>1. rows \in Seq(UsageTrack)
  BY DEF Init
<1>2. attempt \in [Response -> 0 .. maxAttempts - 1]
  <2>1. 0 \in 0 .. maxAttempts - 1
    BY ConstantsOK
  <2>2. QED
    BY <2>1 DEF Init
<1>3. QED
  BY <1>1, <1>2 DEF Init, TypeOK

LEMMA TypeNext == TypeOK /\ [Next]_vars => TypeOK'
<1> SUFFICES ASSUME TypeOK, [Next]_vars PROVE TypeOK'
  OBVIOUS
<1> USE DEF dbVars, recVars, runVars, fileVars
<1>1. ASSUME NEW r \in Response, recordUsage(r) \/ BeginAttempt(r) PROVE TypeOK'
  BY <1>1 DEF TypeOK, recordUsage, BeginAttempt
<1>2. ASSUME NEW r \in Response, UpdateUsage(r) PROVE TypeOK'
  <2>1. rows' \in Seq(UsageTrack)
    BY <1>2, UpdateUsageRows
  <2>2. faults' \in Nat
    BY <1>2 DEF TypeOK, UpdateUsage, Fault
  <2>3. /\ pc' \in [Response -> {"idle", "start", "update", "insert", "deadletter",
                               "recorded", "dead", "lost", "crashed"}]
        /\ attempt' \in [Response -> 0 .. maxAttempts - 1]
    <3>1. CASE NextAttempt(r)
      BY <3>1, NextAttemptType DEF TypeOK
    <3>2. CASE ~NextAttempt(r)
      BY <1>2, <3>2 DEF TypeOK, UpdateUsage
    <3>3. QED
      BY <3>1, <3>2
  <2>4. bookings' \in [Response -> Nat]
    <3>1. ASSUME NEW table, Apply(table, r) PROVE bookings' \in [Response -> Nat]
      BY <3>1, ApplyType
    <3>2. CASE bookings' = bookings
      BY <3>2 DEF TypeOK
    <3>3. QED
      BY <1>2, <3>1, <3>2 DEF UpdateUsage
  <2>5. QED
    BY <1>2, <2>1, <2>2, <2>3, <2>4 DEF TypeOK, UpdateUsage
<1>3. ASSUME NEW r \in Response, CreateUsage(r) PROVE TypeOK'
  <2>1. rows' \in Seq(UsageTrack)
    BY <1>3, CreateUsageRows
  <2>2. faults' \in Nat
    BY <1>3 DEF TypeOK, CreateUsage, Fault
  <2>3. /\ pc' \in [Response -> {"idle", "start", "update", "insert", "deadletter",
                               "recorded", "dead", "lost", "crashed"}]
        /\ attempt' \in [Response -> 0 .. maxAttempts - 1]
    <3>1. CASE NextAttempt(r)
      BY <3>1, NextAttemptType DEF TypeOK
    <3>2. CASE ~NextAttempt(r)
      BY <1>3, <3>2 DEF TypeOK, CreateUsage
    <3>3. QED
      BY <3>1, <3>2
  <2>4. bookings' \in [Response -> Nat]
    <3>1. ASSUME NEW table, Apply(table, r) PROVE bookings' \in [Response -> Nat]
      BY <3>1, ApplyType
    <3>2. CASE bookings' = bookings
      BY <3>2 DEF TypeOK
    <3>3. QED
      BY <1>3, <3>1, <3>2 DEF CreateUsage
  <2>5. QED
    BY <1>3, <2>1, <2>2, <2>3, <2>4 DEF TypeOK, CreateUsage
<1>4. ASSUME NEW r \in Response, writeUsageDeadLetter(r) PROVE TypeOK'
  <2>1. rows' = rows /\ bookings' = bookings /\ faults' \in Nat
    BY <1>4 DEF TypeOK, writeUsageDeadLetter, Fault
  <2>2. /\ log' \subseteq Response /\ late' \subseteq Response /\ logExists' \in BOOLEAN
        /\ pc' \in [Response -> {"idle", "start", "update", "insert", "deadletter",
                               "recorded", "dead", "lost", "crashed"}]
    BY <1>4 DEF TypeOK, writeUsageDeadLetter
  <2>3. QED
    BY <1>4, <2>1, <2>2 DEF TypeOK, writeUsageDeadLetter
<1>5. ASSUME NEW p \in Run, ReadLog(p) PROVE TypeOK'
  <2>1. overlaps' \in Nat
    BY <1>5 DEF TypeOK, ReadLog
  <2>2. /\ runPc' \in [Run -> {"idle", "lines", "replay", "write"}]
        /\ todo' \in [Run -> SUBSET Response] /\ kept' \in [Run -> SUBSET Response]
    BY <1>5 DEF TypeOK, ReadLog
  <2>3. QED
    BY <1>5, <2>1, <2>2 DEF TypeOK, ReadLog
<1>6. ASSUME NEW p \in Run, NextLine(p) PROVE TypeOK'
  BY <1>6 DEF TypeOK, NextLine
<1>7. ASSUME NEW p \in Run, ReplayLine(p) PROVE TypeOK'
  <2>1. PICK r \in todo[p] : ReplayLine(p)!2!(r)
    BY <1>7 DEF ReplayLine
  <2>2. r \in Response /\ kept \in [Run -> SUBSET Response]
        /\ todo \in [Run -> SUBSET Response]
    BY DEF TypeOK
  <2>3. rows' \in Seq(UsageTrack)
    BY <1>7, ReplayLineRows
  <2>4. todo' \in [Run -> SUBSET Response] /\ kept' \in [Run -> SUBSET Response]
    <3>1. kept' = kept \/ kept' = [kept EXCEPT ![p] = @ \cup {r}]
      BY <2>1
    <3>2. QED
      BY <2>1, <2>2, <3>1
  <2>5. faults' \in Nat
    BY <2>1 DEF TypeOK, Fault
  <2>6. bookings' \in [Response -> Nat]
    <3>1. ASSUME NEW table, Apply(table, r) PROVE bookings' \in [Response -> Nat]
      BY <2>2, <3>1, ApplyType
    <3>2. CASE bookings' = bookings
      BY <3>2 DEF TypeOK
    <3>3. QED
      BY <2>1, <3>1, <3>2
  <2>7. runPc' \in [Run -> {"idle", "lines", "replay", "write"}]
    BY <1>7 DEF TypeOK, ReplayLine
  <2>8. QED
    BY <1>7, <2>3, <2>4, <2>5, <2>6, <2>7 DEF TypeOK, ReplayLine
<1>8. ASSUME NEW p \in Run, TruncateLog(p) PROVE TypeOK'
  <2>1. rows' = rows /\ bookings' = bookings /\ faults' \in Nat
    BY <1>8 DEF TypeOK, TruncateLog, Fault
  <2>2. log' \subseteq Response /\ runPc' \in [Run -> {"idle", "lines", "replay", "write"}]
    BY <1>8 DEF TypeOK, TruncateLog
  <2>3. QED
    BY <1>8, <2>1, <2>2 DEF TypeOK, TruncateLog
<1>9. ASSUME NEW p \in Run, RewriteLog(p) PROVE TypeOK'
  <2>1. rows' = rows /\ bookings' = bookings /\ faults' \in Nat
    BY <1>9 DEF TypeOK, RewriteLog, Fault
  <2>2. damaged' \in BOOLEAN /\ runPc' \in [Run -> {"idle", "lines", "replay", "write"}]
    BY <1>9 DEF TypeOK, RewriteLog
  <2>3. log' \subseteq Response
    <3>1. log \subseteq Response /\ kept[p] \subseteq Response
      BY DEF TypeOK
    <3>2. log' \subseteq kept[p] \cup log
      BY <1>9 DEF RewriteLog
    <3>3. QED
      BY <3>1, <3>2
  <2>4. QED
    BY <1>9, <2>1, <2>2, <2>3 DEF TypeOK, RewriteLog
<1>10. ASSUME Crash PROVE TypeOK'
  BY <1>10 DEF TypeOK, Crash, Die, Fault
<1>11. ASSUME Midnight \/ DbDown \/ DbUp PROVE TypeOK'
  <2>1. CASE Midnight
    BY <2>1 DEF TypeOK, Midnight
  <2>2. CASE DbDown
    <3>1. dbUp' \in BOOLEAN
      BY <2>2, Zenon DEF DbDown
    <3>2. outages' = outages + 1 /\ outages \in Nat
      BY <2>2 DEF TypeOK, DbDown
    <3>3. QED
      BY <2>2, <3>1, <3>2 DEF TypeOK, DbDown
  <2>3. CASE DbUp
    BY <2>3 DEF TypeOK, DbUp
  <2>4. QED
    BY <1>11, <2>1, <2>2, <2>3
<1>12. CASE UNCHANGED vars
  BY <1>12 DEF TypeOK, vars
<1>13. QED
  BY <1>1, <1>2, <1>3, <1>4, <1>5, <1>6, <1>7, <1>8, <1>9, <1>10, <1>11, <1>12
     DEF Next, Recorder, Reprocess

\* Type correctness, for every value of the constants.
THEOREM TypeCorrect == Spec => []TypeOK
BY TypeInit, TypeNext, PTL DEF Spec
-------------------------------------------------------------------------------
\* No step takes credit away, and a recorder that reports success has its row.
LEMMA CreditKept ==
    ASSUME TypeOK, [Next]_vars, NEW r \in Response
    PROVE  Credited(rows, r) => Credited(rows, r)'
<1>1. CASE rows' = rows
  BY <1>1 DEF Credited
<1>2. CASE rows' # rows
  <2>1. \/ \E s \in Response : UpdateUsage(s) \/ CreateUsage(s)
        \/ \E p \in Run : ReplayLine(p)
    BY <1>2 DEF Next, Recorder, Reprocess, recordUsage, writeUsageDeadLetter, ReadLog, BeginAttempt, NextLine,
                TruncateLog, RewriteLog, Crash, Die, Midnight, DbDown, DbUp, vars, dbVars
  <2>2. QED
    BY <2>1, UpdateUsageRows, CreateUsageRows, ReplayLineRows
<1>3. QED
  BY <1>1, <1>2

LEMMA NewlyRecorded ==
    ASSUME TypeOK, [Next]_vars, NEW r \in Response, pc'[r] = "recorded"
    PROVE  pc[r] = "recorded" \/ UpdateUsage(r) \/ CreateUsage(r)
<1>1. pc = [q \in Response |-> pc[q]]
  BY DEF TypeOK
<1> USE DEF recVars, vars
<1>2. CASE UNCHANGED vars
  BY <1>2
<1>3. ASSUME NEW s \in Response, recordUsage(s) \/ Recorder(s)
      PROVE  pc[r] = "recorded" \/ UpdateUsage(r) \/ CreateUsage(r)
  BY <1>1, <1>3 DEF recordUsage, Recorder, BeginAttempt, UpdateUsage, CreateUsage,
                    writeUsageDeadLetter, NextAttempt
<1>4. ASSUME NEW p \in Run, Reprocess(p) PROVE pc' = pc
  BY <1>4 DEF Reprocess, ReadLog, NextLine, ReplayLine, TruncateLog, RewriteLog
<1>5. CASE Crash
  BY <1>1, <1>5 DEF Crash, Die, InFlight
<1>6. CASE Midnight \/ DbDown \/ DbUp
  BY <1>6 DEF Midnight, DbDown, DbUp
<1>7. QED
  BY <1>2, <1>3, <1>4, <1>5, <1>6 DEF Next

\* recordUsageWithRetry returns without a dead letter only if the tokens are in
\* the table, and they stay there.
THEOREM SuccessIsBooked == Spec => []RecordedIsCredited
<1>1. Init => RecordedIsCredited
  BY DEF Init, RecordedIsCredited
<1>2. TypeOK /\ RecordedIsCredited /\ [Next]_vars => RecordedIsCredited'
  <2> SUFFICES ASSUME TypeOK, RecordedIsCredited, [Next]_vars,
                      NEW r \in Response, pc'[r] = "recorded"
               PROVE  Credited(rows, r)'
    BY DEF RecordedIsCredited
  <2>1. CASE pc[r] = "recorded"
    BY <2>1, CreditKept DEF RecordedIsCredited
  <2>2. CASE UpdateUsage(r) \/ CreateUsage(r)
    BY <2>2, UpdateUsageRows, CreateUsageRows
  <2>3. QED
    BY <2>1, <2>2, NewlyRecorded
<1>3. QED
  BY <1>1, <1>2, TypeCorrect, PTL DEF Spec
-------------------------------------------------------------------------------
\* Where the record of a dead letter is: booked; in the file and, if a run has
\* read the file, among that run's lines; or about to be written back.
Placed(r) ==
    \/ Credited(rows, r)
    \/ /\ r \in log
       /\ \A p \in Run : /\ runPc[p] # "write"
                         /\ runPc[p] \in {"lines", "replay"} => r \in todo[p] \cup kept[p]
    \/ Rewriting(r)

OneRunActive == \A p, q \in Active : p = q

DeadLetterInv ==
    overlaps = 0 =>
        /\ OneRunActive
        /\ ~damaged => \A r \in Response \ late : pc[r] = "dead" => Placed(r)

LEMMA DeadStays ==
    ASSUME TypeOK, [Next]_vars, NEW r \in Response, pc'[r] = "dead"
    PROVE  pc[r] = "dead" \/ writeUsageDeadLetter(r)
<1>1. pc = [q \in Response |-> pc[q]]
  BY DEF TypeOK
<1> USE DEF recVars, vars
<1>2. CASE UNCHANGED vars
  BY <1>2
<1>3. ASSUME NEW s \in Response, recordUsage(s) \/ Recorder(s)
      PROVE  pc[r] = "dead" \/ writeUsageDeadLetter(r)
  BY <1>1, <1>3 DEF recordUsage, Recorder, BeginAttempt, UpdateUsage, CreateUsage,
                    writeUsageDeadLetter, NextAttempt
<1>4. ASSUME NEW p \in Run, Reprocess(p) PROVE pc' = pc
  BY <1>4 DEF Reprocess, ReadLog, NextLine, ReplayLine, TruncateLog, RewriteLog
<1>5. CASE Crash
  BY <1>1, <1>5 DEF Crash, Die, InFlight
<1>6. CASE Midnight \/ DbDown \/ DbUp
  BY <1>6 DEF Midnight, DbDown, DbUp
<1>7. QED
  BY <1>2, <1>3, <1>4, <1>5, <1>6 DEF Next

\* The history variables only grow.
LEMMA HistoryGrows ==
    ASSUME TypeOK, [Next]_vars
    PROVE  late \subseteq late' /\ (damaged => damaged') /\ (overlaps' = 0 => overlaps = 0)
<1> DEFINE Grows == late \subseteq late' /\ (damaged => damaged') /\ (overlaps' = 0 => overlaps = 0)
<1> USE DEF fileVars, runVars
<1>1. ASSUME NEW r \in Response,
             recordUsage(r) \/ BeginAttempt(r) \/ UpdateUsage(r) \/ CreateUsage(r)
      PROVE  Grows
  BY <1>1 DEF recordUsage, BeginAttempt, UpdateUsage, CreateUsage
<1>2. ASSUME NEW r \in Response, writeUsageDeadLetter(r) PROVE Grows
  BY <1>2 DEF writeUsageDeadLetter
<1>3. ASSUME NEW p \in Run, Reprocess(p) PROVE Grows
  <2>1. late' = late /\ (damaged => damaged')
    BY <1>3 DEF Reprocess, ReadLog, NextLine, ReplayLine, TruncateLog, RewriteLog
  <2>2. overlaps' = overlaps \/ overlaps' = overlaps + 1
    BY <1>3 DEF Reprocess, ReadLog, NextLine, ReplayLine, TruncateLog, RewriteLog
  <2>3. QED
    BY <2>1, <2>2 DEF TypeOK
<1>4. ASSUME Crash PROVE Grows
  BY <1>4 DEF Crash, Die
<1>5. ASSUME Midnight \/ DbDown \/ DbUp \/ UNCHANGED vars PROVE Grows
  BY <1>5 DEF Midnight, DbDown, DbUp, vars
<1>6. QED
  BY <1>1, <1>2, <1>3, <1>4, <1>5 DEF Next, Recorder

\* Without an overlap, a run begins only when no other is active.
LEMMA OneRunStep ==
    ASSUME TypeOK, OneRunActive, [Next]_vars, overlaps' = 0, overlaps = 0
    PROVE  OneRunActive'
<1> USE DEF runVars, Active, OneRunActive
<1>1. ASSUME NEW p \in Run, ReadLog(p) PROVE OneRunActive'
  <2>1. Active = {} /\ runPc' = [runPc EXCEPT ![p] = "lines"] /\ runPc \in [Run -> {"idle", "lines", "replay", "write"}]
    BY <1>1 DEF ReadLog, TypeOK
  <2>2. QED
    BY <2>1
<1>2. CASE Active' \subseteq Active
  BY <1>2
<1>3. ASSUME NEW p \in Run, NextLine(p) \/ ReplayLine(p) \/ TruncateLog(p) \/ RewriteLog(p)
      PROVE  Active' \subseteq Active
  BY <1>3 DEF NextLine, ReplayLine, TruncateLog, RewriteLog, TypeOK
<1>4. ASSUME \/ \E r \in Response : recordUsage(r) \/ Recorder(r)
             \/ Midnight \/ DbDown \/ DbUp \/ UNCHANGED vars
      PROVE  Active' = Active
  BY <1>4 DEF recordUsage, Recorder, BeginAttempt, UpdateUsage, CreateUsage,
              writeUsageDeadLetter, Midnight, DbDown, DbUp, vars
<1>5. ASSUME Crash PROVE Active' = {}
  BY <1>5 DEF Crash, Die
<1>6. QED
  BY <1>1, <1>2, <1>3, <1>4, <1>5 DEF Next, Reprocess

LEMMA DeadLetterStep ==
    ASSUME TypeOK, DeadLetterInv, [Next]_vars
    PROVE  DeadLetterInv'
<1> SUFFICES ASSUME overlaps' = 0
             PROVE  /\ OneRunActive'
                    /\ ~damaged' => \A r \in Response \ late' : pc'[r] = "dead" => Placed(r)'
  BY DEF DeadLetterInv
<1>1. overlaps = 0 /\ OneRunActive /\ OneRunActive'
  BY HistoryGrows, OneRunStep DEF DeadLetterInv
<1> SUFFICES ASSUME ~damaged', NEW r \in Response, r \notin late', pc'[r] = "dead",
                    ~Credited(rows, r)'
             PROVE  Placed(r)'
  BY <1>1 DEF Placed
<1>2. ~damaged /\ r \notin late /\ ~Credited(rows, r)
  BY HistoryGrows, CreditKept
<1> USE DEF dbVars, recVars, runVars, fileVars, Placed, Rewriting, Active
<1>3. CASE writeUsageDeadLetter(r) /\ pc[r] # "dead"
  BY <1>3 DEF writeUsageDeadLetter, TypeOK
<1>4. CASE pc[r] = "dead"
  <2>1. Placed(r)
    BY <1>1, <1>2, <1>4 DEF DeadLetterInv
  <2>2. CASE UNCHANGED <<log, runPc, todo, kept>>
    BY <1>2, <2>1, <2>2
  <2>3. ASSUME NEW s \in Response, writeUsageDeadLetter(s) PROVE Placed(r)'
    BY <1>2, <2>1, <2>3 DEF writeUsageDeadLetter
  <2>4. ASSUME NEW p \in Run, ReadLog(p) PROVE Placed(r)'
    <3>1. Active = {}
      BY <1>1, <2>4 DEF ReadLog, TypeOK
    <3>2. QED
      BY <1>2, <2>1, <2>4, <3>1 DEF ReadLog, TypeOK
  <2>5. ASSUME NEW p \in Run, NextLine(p) PROVE Placed(r)'
    BY <1>2, <2>1, <2>5 DEF NextLine, TypeOK
  <2>6. ASSUME NEW p \in Run, ReplayLine(p) PROVE Placed(r)'
    <3>1. runPc[p] = "replay" /\ \A q \in Run \ {p} : runPc[q] = "idle"
      BY <1>1, <2>6 DEF ReplayLine, OneRunActive
    <3>2. r \in log /\ r \in todo[p] \cup kept[p]
      BY <1>2, <2>1, <3>1
    <3>3. r \in todo'[p] \cup kept'[p]
      BY <2>6, <3>2, ReplayLineRows
    <3>4. QED
      BY <2>6, <3>1, <3>2, <3>3 DEF ReplayLine, TypeOK
  <2>7. ASSUME NEW p \in Run, TruncateLog(p) PROVE Placed(r)'
    <3>1. runPc[p] = "lines" /\ \A q \in Run \ {p} : runPc[q] = "idle"
      BY <1>1, <2>7 DEF TruncateLog, OneRunActive
    <3>2. QED
      BY <1>2, <2>1, <2>7, <3>1 DEF TruncateLog, TypeOK
  <2>8. ASSUME NEW p \in Run, RewriteLog(p) PROVE Placed(r)'
    <3>1. runPc[p] = "write" /\ \A q \in Run \ {p} : runPc[q] = "idle"
      BY <1>1, <2>8 DEF RewriteLog, OneRunActive
    <3>2. r \in kept[p]
      BY <1>2, <2>1, <3>1
    <3>3. r \in log'
      BY <1>2, <2>8, <3>2 DEF RewriteLog
    <3>4. \A q \in Run : runPc'[q] = "idle"
      BY <2>8, <3>1 DEF RewriteLog, TypeOK
    <3>5. QED
      BY <3>3, <3>4
  <2>9. CASE Crash
    BY <1>2, <2>1, <2>9 DEF Crash, Die, TypeOK
  <2>10. QED
    BY <2>2, <2>3, <2>4, <2>5, <2>6, <2>7, <2>8, <2>9
       DEF Next, Recorder, Reprocess, recordUsage, BeginAttempt, UpdateUsage, CreateUsage,
           Midnight, DbDown, DbUp, vars
<1>5. QED
  BY <1>3, <1>4, DeadStays

\* As long as runs have not overlapped and no rewrite was cut short, a dead letter that
\* was not appended while a run was active is in the file, in a run's kept lines, or booked.
THEOREM DeadLettersStay == Spec => []DeadLettersKept
<1>1. Init => DeadLetterInv
  BY DEF Init, DeadLetterInv, OneRunActive, Active
<1>2. DeadLetterInv => DeadLettersKept
  BY DEF DeadLetterInv, DeadLettersKept, Placed, Recoverable
<1>3. TypeOK /\ DeadLetterInv /\ [Next]_vars => DeadLetterInv'
  BY DeadLetterStep
<1>4. QED
  BY <1>1, <1>2, <1>3, TypeCorrect, PTL DEF Spec
-------------------------------------------------------------------------------
(* How many rows a key can have.  A recorder inserts because it found no   *)
(* row; as soon as one is there, nobody joins those who are about to       *)
(* insert.  The rows of a key and the recorders about to add one are never *)
(* more than the recorders there were before the first row.                *)

AboutToInsert(key) == {r \in Response : pc[r] = "insert" /\ KeyFor(r, recDay[r]) = key}

FewInFlight == IsFiniteSet(InFlight) /\ Cardinality(InFlight) <= MaxConcurrent

RowsCounted(key) ==
    Cardinality(Matching(rows, key)) + Cardinality(AboutToInsert(key)) <= MaxConcurrent

RowsInv == FewInFlight /\ \A key \in Key : RowsCounted(key)

LEMMA MatchingFinite ==
    ASSUME NEW table \in Seq(UsageTrack), NEW key
    PROVE  IsFiniteSet(Matching(table, key)) /\ Cardinality(Matching(table, key)) \in Nat
<1>1. DOMAIN table = 1 .. Len(table) /\ Len(table) \in Nat
  OBVIOUS
<1>2. IsFiniteSet(1 .. Len(table))
  BY <1>1, FS_Interval
<1>3. Matching(table, key) \subseteq 1 .. Len(table)
  BY <1>1 DEF Matching
<1>4. QED
  BY <1>2, <1>3, FS_Subset, FS_CardinalityType

\* An UPDATE changes no key.
LEMMA UpdateMatches ==
    ASSUME NEW table \in Seq(UsageTrack), NEW k \in Key, NEW r \in Response, NEW key
    PROVE  Matching(Update(table, k, r), key) = Matching(table, key)
<1>1. DOMAIN Update(table, k, r) = DOMAIN table
  BY UpdateType
<1>2. \A i \in DOMAIN table : Update(table, k, r)[i].key = table[i].key
  BY DEF Update
<1>3. QED
  BY <1>1, <1>2 DEF Matching

\* An INSERT adds one row to those of its key.
LEMMA InsertMatches ==
    ASSUME NEW table \in Seq(UsageTrack), NEW k \in Key, NEW r \in Response, NEW key
    PROVE  /\ key # k => Matching(Insert(table, k, r), key) = Matching(table, key)
           /\ \E last : /\ last \notin Matching(table, k)
                        /\ Matching(Insert(table, k, r), k) = Matching(table, k) \cup {last}
<1> DEFINE last == Len(table) + 1
           row == [key |-> k, added |-> [q \in Response |-> IF q = r THEN 1 ELSE 0]]
           new == Append(table, row)
<1>1. row \in UsageTrack /\ row.key = k
  BY DEF UsageTrack
<1> HIDE DEF row
<1>2. /\ DOMAIN new = 1 .. last /\ DOMAIN table = 1 .. Len(table) /\ Len(table) \in Nat
      /\ \A i \in 1 .. Len(table) : new[i] = table[i]
      /\ new[last] = row
  BY <1>1
<1>3. DOMAIN new = DOMAIN table \cup {last} /\ last \notin DOMAIN table
  BY <1>2
<1>4. new = Insert(table, k, r)
  BY DEF Insert, row
<1> HIDE DEF new, last
<1>5. /\ key # k => Matching(new, key) = Matching(table, key)
      /\ Matching(new, k) = Matching(table, k) \cup {last}
  BY <1>1, <1>2, <1>3 DEF Matching
<1>6. last \notin Matching(table, k)
  BY <1>3 DEF Matching
<1>7. QED
  BY <1>4, <1>5, <1>6

LEMMA InFlightStep ==
    ASSUME TypeOK, FewInFlight, [Next]_vars
    PROVE  FewInFlight'
<1>1. Cardinality(InFlight) \in Nat /\ MaxConcurrent \in Nat /\ pc = [q \in Response |-> pc[q]]
  BY FS_CardinalityType, ConstantsOK DEF FewInFlight, TypeOK
<1>2. ASSUME NEW r \in Response, recordUsage(r) PROVE FewInFlight'
  <2>1. InFlight' = InFlight \cup {r} /\ Cardinality(InFlight) < MaxConcurrent
    BY <1>1, <1>2 DEF recordUsage, InFlight
  <2>2. /\ IsFiniteSet(InFlight \cup {r})
        /\ Cardinality(InFlight \cup {r}) \in {Cardinality(InFlight), Cardinality(InFlight) + 1}
    BY <1>1, FS_AddElement DEF FewInFlight
  <2>3. QED
    BY <1>1, <2>1, <2>2 DEF FewInFlight
<1>3. CASE InFlight' \subseteq InFlight
  <2>1. IsFiniteSet(InFlight') /\ Cardinality(InFlight') <= Cardinality(InFlight)
    BY <1>3, FS_Subset DEF FewInFlight
  <2>2. Cardinality(InFlight') \in Nat
    BY <2>1, FS_CardinalityType
  <2>3. QED
    BY <1>1, <2>1, <2>2 DEF FewInFlight
<1> USE DEF recVars, vars
<1>4. ASSUME NEW r \in Response, Recorder(r) PROVE InFlight' \subseteq InFlight
  BY <1>1, <1>4 DEF Recorder, BeginAttempt, UpdateUsage, CreateUsage, writeUsageDeadLetter,
                    NextAttempt, InFlight
<1>5. ASSUME \/ \E p \in Run : Reprocess(p)
             \/ Midnight \/ DbDown \/ DbUp \/ UNCHANGED vars
      PROVE  pc' = pc
  BY <1>5 DEF Reprocess, ReadLog, NextLine, ReplayLine, TruncateLog, RewriteLog, Midnight,
              DbDown, DbUp
<1>6. ASSUME Crash PROVE InFlight' \subseteq InFlight
  BY <1>1, <1>6 DEF Crash, Die, InFlight
<1>7. QED
  BY <1>2, <1>3, <1>4, <1>5, <1>6 DEF Next, InFlight

\* Fewer inserters, or as many and no more rows.
LEMMA CountKept ==
    ASSUME TypeOK, TypeOK', FewInFlight, NEW key \in Key, RowsCounted(key),
           Matching(rows, key)' = Matching(rows, key),
           AboutToInsert(key)' \subseteq AboutToInsert(key)
    PROVE  RowsCounted(key)'
<1>1. IsFiniteSet(AboutToInsert(key))
  <2>1. AboutToInsert(key) \subseteq InFlight
    BY DEF AboutToInsert, InFlight
  <2>2. QED
    BY <2>1, FS_Subset DEF FewInFlight
<1>2. /\ Cardinality(AboutToInsert(key)') <= Cardinality(AboutToInsert(key))
      /\ Cardinality(AboutToInsert(key)') \in Nat /\ Cardinality(AboutToInsert(key)) \in Nat
  BY <1>1, FS_Subset, FS_CardinalityType
<1>3. Cardinality(Matching(rows, key)) \in Nat /\ MaxConcurrent \in Nat
  BY MatchingFinite, ConstantsOK DEF TypeOK
<1>4. QED
  BY <1>2, <1>3 DEF RowsCounted

LEMMA RowsStep ==
    ASSUME TypeOK, TypeOK', RowsInv, [Next]_vars
    PROVE  RowsInv'
<1>1. FewInFlight /\ FewInFlight'
  BY InFlightStep DEF RowsInv
<1> SUFFICES ASSUME NEW key \in Key PROVE RowsCounted(key)'
  BY <1>1 DEF RowsInv
<1>2. RowsCounted(key)
  BY DEF RowsInv
<1>3. /\ pc = [q \in Response |-> pc[q]] /\ recDay = [q \in Response |-> recDay[q]]
      /\ rows \in Seq(UsageTrack) /\ MaxConcurrent \in Nat
      /\ \A q \in Response : KeyFor(q, recDay[q]) \in Key
      /\ \A p \in Run, q \in Response : KeyFor(q, runDay[p]) \in Key
      /\ todo \in [Run -> SUBSET Response]
  BY KeyForType, ConstantsOK DEF TypeOK
<1> USE DEF dbVars, recVars, vars
<1>4. ASSUME rows' = rows, AboutToInsert(key)' \subseteq AboutToInsert(key) PROVE RowsCounted(key)'
  <2>1. Matching(rows, key)' = Matching(rows, key)
    BY <1>4 DEF Matching
  <2>2. QED
    BY <1>1, <1>2, <1>4, <2>1, CountKept
<1>5. ASSUME NEW r \in Response, recordUsage(r) \/ BeginAttempt(r) \/ writeUsageDeadLetter(r)
      PROVE  RowsCounted(key)'
  <2>1. rows' = rows /\ AboutToInsert(key)' \subseteq AboutToInsert(key)
    BY <1>3, <1>5 DEF recordUsage, BeginAttempt, writeUsageDeadLetter, AboutToInsert, KeyFor
  <2>2. QED
    BY <1>4, <2>1
<1>6. ASSUME NEW r \in Response, UpdateUsage(r) PROVE RowsCounted(key)'
  <2>1. CASE pc'[r] = "insert" /\ KeyFor(r, recDay[r]) = key
    <3>1. rows' = rows /\ Matching(rows, key) = {}
      BY <1>3, <1>6, <2>1 DEF UpdateUsage, NextAttempt
    <3>2. Cardinality(Matching(rows, key)') = 0
      BY <3>1, FS_EmptySet DEF Matching
    <3>3. AboutToInsert(key)' \subseteq InFlight'
      BY DEF AboutToInsert, InFlight
    <3>4. Cardinality(AboutToInsert(key)') <= Cardinality(InFlight')
      BY <1>1, <3>3, FS_Subset DEF FewInFlight
    <3>5. Cardinality(AboutToInsert(key)') \in Nat /\ Cardinality(InFlight') \in Nat
      BY <1>1, <3>3, FS_Subset, FS_CardinalityType DEF FewInFlight
    <3>6. Cardinality(InFlight') <= MaxConcurrent
      BY <1>1 DEF FewInFlight
    <3>7. QED
      BY <1>3, <3>2, <3>4, <3>5, <3>6 DEF RowsCounted
  <2>2. CASE ~(pc'[r] = "insert" /\ KeyFor(r, recDay[r]) = key)
    <3>1. AboutToInsert(key)' \subseteq AboutToInsert(key)
      BY <1>3, <1>6, <2>2 DEF UpdateUsage, NextAttempt, AboutToInsert, KeyFor
    <3>2. rows' = rows \/ rows' = Update(rows, KeyFor(r, recDay[r]), r)
      BY <1>6 DEF UpdateUsage, Apply
    <3>3. Matching(rows, key)' = Matching(rows, key)
      BY <1>3, <3>2, UpdateMatches
    <3>4. QED
      BY <1>1, <1>2, <3>1, <3>3, CountKept
  <2>3. QED
    BY <2>1, <2>2
<1>7. ASSUME NEW r \in Response, CreateUsage(r) PROVE RowsCounted(key)'
  <2>1. AboutToInsert(key)' \subseteq AboutToInsert(key) \ {r}
    BY <1>3, <1>7 DEF CreateUsage, NextAttempt, AboutToInsert, KeyFor
  <2>2. CASE rows' = rows
    BY <1>4, <2>1, <2>2
  <2>3. CASE rows' = Insert(rows, KeyFor(r, recDay[r]), r) /\ key # KeyFor(r, recDay[r])
    <3>1. Matching(rows, key)' = Matching(rows, key)
      BY <1>3, <2>3, InsertMatches
    <3>2. QED
      BY <1>1, <1>2, <2>1, <3>1, CountKept
  <2>4. CASE rows' = Insert(rows, KeyFor(r, recDay[r]), r) /\ key = KeyFor(r, recDay[r])
    <3>1. PICK last : /\ last \notin Matching(rows, key)
                      /\ Matching(rows, key)' = Matching(rows, key) \cup {last}
      <4>1. \E last :
              /\ last \notin Matching(rows, key)
              /\ Matching(Insert(rows, key, r), key) = Matching(rows, key) \cup {last}
        BY <1>3, InsertMatches
      <4>2. Matching(rows, key)' = Matching(Insert(rows, key, r), key)
        BY <2>4
      <4>3. QED
        BY <4>1, <4>2
    <3>2. Cardinality(Matching(rows, key)') = Cardinality(Matching(rows, key)) + 1
      BY <1>3, <3>1, MatchingFinite, FS_AddElement
    <3>3. r \in AboutToInsert(key)
      BY <1>7, <2>4 DEF CreateUsage, AboutToInsert
    <3>4. IsFiniteSet(AboutToInsert(key))
      <4>1. AboutToInsert(key) \subseteq InFlight
        BY DEF AboutToInsert, InFlight
      <4>2. QED
        BY <1>1, <4>1, FS_Subset DEF FewInFlight
    <3>5. /\ Cardinality(AboutToInsert(key) \ {r}) = Cardinality(AboutToInsert(key)) - 1
          /\ IsFiniteSet(AboutToInsert(key) \ {r})
      BY <3>3, <3>4, FS_RemoveElement
    <3>6. Cardinality(AboutToInsert(key)') <= Cardinality(AboutToInsert(key) \ {r})
      BY <2>1, <3>5, FS_Subset
    <3>7. /\ Cardinality(AboutToInsert(key)') \in Nat /\ Cardinality(AboutToInsert(key)) \in Nat
          /\ Cardinality(Matching(rows, key)) \in Nat
      BY <1>3, <2>1, <3>4, <3>5, MatchingFinite, FS_Subset, FS_CardinalityType
    <3>8. QED
      BY <1>2, <1>3, <3>2, <3>5, <3>6, <3>7 DEF RowsCounted
  <2>5. QED
    BY <1>7, <2>2, <2>3, <2>4 DEF CreateUsage, Apply
<1>8. ASSUME NEW p \in Run, ReplayLine(p) PROVE RowsCounted(key)'
  <2>1. PICK r \in todo[p] : ReplayLine(p)!2!(r)
    BY <1>8 DEF ReplayLine
  <2>2. r \in Response /\ KeyFor(r, runDay[p]) \in Key
    BY <1>3
  <2>3. rows' = rows \/ rows' = Update(rows, KeyFor(r, runDay[p]), r)
    BY <2>1 DEF Apply
  <2>4. Matching(rows, key)' = Matching(rows, key)
    BY <1>3, <2>2, <2>3, UpdateMatches
  <2>5. AboutToInsert(key)' = AboutToInsert(key)
    BY <1>8 DEF ReplayLine, AboutToInsert, KeyFor
  <2>6. QED
    BY <1>1, <1>2, <2>4, <2>5, CountKept
<1>9. ASSUME \/ \E p \in Run : ReadLog(p) \/ NextLine(p) \/ TruncateLog(p) \/ RewriteLog(p)
             \/ Midnight \/ DbDown \/ DbUp \/ UNCHANGED vars
      PROVE  RowsCounted(key)'
  <2>1. rows' = rows /\ pc' = pc /\ recDay' = recDay
    BY <1>9 DEF ReadLog, NextLine, TruncateLog, RewriteLog, Midnight, DbDown, DbUp
  <2>2. QED
    BY <1>4, <2>1 DEF AboutToInsert, KeyFor
<1>10. ASSUME Crash PROVE RowsCounted(key)'
  <2>1. rows' = rows /\ AboutToInsert(key)' \subseteq AboutToInsert(key)
    BY <1>3, <1>10 DEF Crash, Die, AboutToInsert, KeyFor
  <2>2. QED
    BY <1>4, <2>1
<1>11. QED
  BY <1>5, <1>6, <1>7, <1>8, <1>9, <1>10 DEF Next, Recorder, Reprocess

\* However recorders interleave, and whatever fails, restarts or is replayed meanwhile, a key
\* has at most as many rows as recorders may run at once.
THEOREM RowsStayFew == Spec => []RowsPerKeyBounded
<1>1. Init => RowsInv
  <2> SUFFICES ASSUME Init PROVE RowsInv
    OBVIOUS
  <2>1. InFlight = {} /\ \A key : Matching(rows, key) = {} /\ AboutToInsert(key) = {}
    BY DEF Init, InFlight, Matching, AboutToInsert
  <2>2. MaxConcurrent \in Nat
    BY ConstantsOK
  <2>3. QED
    BY <2>1, <2>2, FS_EmptySet DEF RowsInv, FewInFlight, RowsCounted
<1>2. TypeOK /\ TypeOK' /\ RowsInv /\ [Next]_vars => RowsInv'
  BY RowsStep
<1>3. TypeOK /\ RowsInv => RowsPerKeyBounded
  <2> SUFFICES ASSUME TypeOK, RowsInv, NEW i \in DOMAIN rows
               PROVE  Cardinality(Matching(rows, rows[i].key)) <= MaxConcurrent
    BY DEF RowsPerKeyBounded
  <2>1. rows \in Seq(UsageTrack)
    BY DEF TypeOK
  <2>2. rows[i].key \in Key
    <3>1. rows[i] \in UsageTrack
      BY <2>1
    <3>2. QED
      BY <3>1 DEF UsageTrack
  <2>3. RowsCounted(rows[i].key) /\ MaxConcurrent \in Nat
    BY <2>2, ConstantsOK DEF RowsInv
  <2>4. AboutToInsert(rows[i].key) \subseteq InFlight
    BY DEF AboutToInsert, InFlight
  <2>5. Cardinality(AboutToInsert(rows[i].key)) \in Nat
    BY <2>4, FS_Subset, FS_CardinalityType DEF RowsInv, FewInFlight
  <2>6. Cardinality(Matching(rows, rows[i].key)) \in Nat
    BY <2>1, MatchingFinite
  <2>7. QED
    BY <2>3, <2>5, <2>6 DEF RowsCounted
<1>4. QED
  BY <1>1, <1>2, <1>3, TypeCorrect, PTL DEF Spec
-------------------------------------------------------------------------------
(* Billing.  Who may still book a response holds a claim on it: its        *)
(* recorder, a run that has its line, the file no run is about to          *)
(* truncate.  A statement uses up the claim it was sent for, and only a    *)
(* mishap makes a claim again; UsageLedger says no more than that.         *)

Answered == {r \in Response : pc[r] # "idle"}
AllClaims == [r \in Response |-> Claims(r)]
Mishaps == faults + overlaps

InLog(s) == One(s \in log /\ ~AboutToTruncate)

\* No run has a line both ahead of it and kept.
LinesApart == \A p \in Run : todo[p] \cap kept[p] = {}

\* Nothing is known yet of a response that was not answered.
IdleUnknown ==
    \A r \in Response : pc[r] = "idle" =>
        bookings[r] = 0 /\ r \notin log /\ \A p \in Run : r \notin todo[p] \cup kept[p]

WithinMishaps == \A r \in Response : bookings[r] + Claims(r) <= 1 + faults + overlaps

RowsWithinBookings ==
    \A r \in Response : \A i \in DOMAIN rows : rows[i].added[r] <= bookings[r]

BillInv == LinesApart /\ IdleUnknown /\ WithinMishaps /\ RowsWithinBookings

LEMMA OneIs == \A c \in BOOLEAN : One(c) \in {0, 1} /\ (c => One(c) = 1) /\ (~c => One(c) = 0)
BY DEF One

LEMMA HoldingFinite ==
    ASSUME NEW s \in Response
    PROVE  /\ IsFiniteSet(Holding(s)) /\ Cardinality(Holding(s)) \in Nat
           /\ IsFiniteSet(Holding(s)') /\ Cardinality(Holding(s)') \in Nat
<1>1. Holding(s) \subseteq Run /\ Holding(s)' \subseteq Run
  BY DEF Holding, Active
<1>2. QED
  BY <1>1, ConstantsOK, FS_Subset, FS_CardinalityType

LEMMA ClaimsTyped ==
    ASSUME NEW s \in Response
    PROVE  Claims(s) \in Nat /\ Claims(s)' \in Nat
<1>1. /\ One(s \in InFlight) \in {0, 1} /\ InLog(s) \in {0, 1}
      /\ One(s \in InFlight)' \in {0, 1} /\ InLog(s)' \in {0, 1}
  BY DEF One, InLog
<1>2. QED
  BY <1>1, HoldingFinite DEF Claims, InLog

\* How the number of runs that hold a line moves.
LEMMA HoldingMoves ==
    ASSUME NEW s \in Response, NEW p \in Run
    PROVE  /\ Holding(s)' \subseteq Holding(s)
                => Cardinality(Holding(s)') <= Cardinality(Holding(s))
           /\ Holding(s)' \subseteq Holding(s) \cup {p}
                => Cardinality(Holding(s)') <= Cardinality(Holding(s)) + 1
           /\ p \in Holding(s) /\ Holding(s)' = Holding(s) \ {p}
                => Cardinality(Holding(s)') = Cardinality(Holding(s)) - 1
<1>1. /\ IsFiniteSet(Holding(s)) /\ Cardinality(Holding(s)) \in Nat
      /\ Cardinality(Holding(s)') \in Nat
  BY HoldingFinite
<1>2. ASSUME Holding(s)' \subseteq Holding(s) \cup {p}
      PROVE  Cardinality(Holding(s)') <= Cardinality(Holding(s)) + 1
  <2>1. /\ IsFiniteSet(Holding(s) \cup {p})
        /\ \/ Cardinality(Holding(s) \cup {p}) = Cardinality(Holding(s))
           \/ Cardinality(Holding(s) \cup {p}) = Cardinality(Holding(s)) + 1
    BY <1>1, FS_AddElement
  <2>2. Cardinality(Holding(s)') <= Cardinality(Holding(s) \cup {p})
    BY <1>2, <2>1, FS_Subset
  <2>3. QED
    BY <1>1, <2>1, <2>2
<1>3. QED
  BY <1>1, <1>2, FS_Subset, FS_RemoveElement

\* Claims seen from their three parts.
LEMMA ClaimsMove ==
    ASSUME NEW s \in Response
    PROVE  /\ /\ One(s \in InFlight)' = One(s \in InFlight) /\ InLog(s)' = InLog(s)
              /\ Cardinality(Holding(s)') = Cardinality(Holding(s))
              => Claims(s)' = Claims(s)
           /\ /\ One(s \in InFlight)' <= One(s \in InFlight)
              /\ Cardinality(Holding(s)') <= Cardinality(Holding(s))
              => Claims(s)' <= Claims(s) + 1
           /\ /\ One(s \in InFlight)' <= One(s \in InFlight) /\ InLog(s)' <= InLog(s)
              /\ Cardinality(Holding(s)') <= Cardinality(Holding(s))
              => Claims(s)' <= Claims(s)
<1>1. /\ One(s \in InFlight) \in {0, 1} /\ InLog(s) \in {0, 1}
      /\ One(s \in InFlight)' \in {0, 1} /\ InLog(s)' \in {0, 1}
  BY DEF One, InLog
<1>2. QED
  BY <1>1, HoldingFinite DEF Claims, InLog

\* What the ledger sees of a state, by name.
LEMMA LedgerSeen ==
    /\ Ledger!ledger = <<Answered, AllClaims, bookings, Mishaps>>
    /\ (UNCHANGED <<Answered, AllClaims, bookings, Mishaps>>) => UNCHANGED Ledger!ledger
BY DEF Ledger!ledger, Answered, AllClaims, Mishaps

\* A step in which claims only go, and nothing is booked.
LEMMA DropStep ==
    ASSUME \A s \in Response : Claims(s)' <= Claims(s),
           Answered' = Answered, bookings' = bookings, Mishaps' = Mishaps
    PROVE  Ledger!Drop
<1>1. AllClaims' \in [Response -> Nat] /\ \A s \in Response : AllClaims'[s] <= AllClaims[s]
  BY ClaimsTyped DEF AllClaims
<1>2. QED
  BY <1>1 DEF Ledger!Drop, Answered, AllClaims, Mishaps

\* A mishap in which nothing is booked.
LEMMA MishapStep ==
    ASSUME TypeOK, TypeOK', \A s \in Response : Claims(s)' <= Claims(s) + 1,
           Answered' = Answered, bookings' = bookings, Mishaps' = Mishaps + 1
    PROVE  Ledger!Mishap
<1>1. /\ AllClaims' \in [Response -> Nat] /\ AllClaims \in [Response -> Nat]
      /\ \A s \in Response : AllClaims'[s] <= AllClaims[s] + 1
  BY ClaimsTyped DEF AllClaims
<1>2. bookings \in [Response -> Nat] /\ bookings' \in [Response -> Nat]
  BY DEF TypeOK
<1>3. \A s \in Response :
        /\ bookings[s] <= bookings'[s]
        /\ bookings'[s] + AllClaims'[s] <= bookings[s] + AllClaims[s] + 1
        /\ AllClaims[s] = 0 => bookings'[s] = bookings[s]
  BY <1>1, <1>2
<1>4. QED
  BY <1>1, <1>2, <1>3 DEF Ledger!Mishap, Answered, AllClaims, Mishaps

\* Response r is booked and its claim stays, since the answer was lost.
LEMMA LostAckStep ==
    ASSUME TypeOK, TypeOK', NEW r \in Response, NEW table, Apply(table, r), Claims(r) > 0,
           \A s \in Response : Claims(s)' = Claims(s),
           Answered' = Answered, Mishaps' = Mishaps + 1
    PROVE  Ledger!Mishap
<1>1. /\ AllClaims' \in [Response -> Nat] /\ AllClaims \in [Response -> Nat]
      /\ \A s \in Response : AllClaims'[s] = AllClaims[s]
      /\ AllClaims[r] > 0
  BY ClaimsTyped DEF AllClaims
<1>2. /\ bookings \in [Response -> Nat] /\ bookings' \in [Response -> Nat]
      /\ bookings' = [bookings EXCEPT ![r] = @ + 1]
  BY DEF TypeOK, Apply
<1>3. \A s \in Response :
        /\ bookings[s] <= bookings'[s]
        /\ bookings'[s] + AllClaims'[s] <= bookings[s] + AllClaims[s] + 1
        /\ AllClaims[s] = 0 => bookings'[s] = bookings[s]
  BY <1>1, <1>2
<1>4. QED
  BY <1>1, <1>2, <1>3 DEF Ledger!Mishap, Answered, AllClaims, Mishaps

\* Response r is booked, and the claim it was booked for is gone.
LEMMA BookStep ==
    ASSUME NEW r \in Response, NEW table, Apply(table, r),
           Claims(r) > 0, Claims(r)' = Claims(r) - 1,
           \A s \in Response \ {r} : Claims(s)' = Claims(s),
           Answered' = Answered, Mishaps' = Mishaps
    PROVE  Ledger!Book(r)
<1>1. AllClaims' = [AllClaims EXCEPT ![r] = @ - 1]
  BY DEF AllClaims
<1>2. AllClaims[r] > 0
  BY DEF AllClaims
<1>3. QED
  BY <1>1, <1>2 DEF Ledger!Book, Apply, Answered, AllClaims, Mishaps

\* The recorder's statements: a booking, a booking whose answer is lost, or neither.
LEMMA StatementOutcome ==
    ASSUME TypeOK, TypeOK', NEW r \in Response, UpdateUsage(r) \/ CreateUsage(r)
    PROVE  /\ r \in InFlight /\ Answered' = Answered
           /\ UNCHANGED <<runPc, todo, kept, log, overlaps>>
           /\ \A s \in Response \ {r} : s \in InFlight' <=> s \in InFlight
           /\ \/ /\ \E table : Apply(table, r)
                 /\ r \notin InFlight' /\ faults' = faults
              \/ /\ \E table : Apply(table, r)
                 /\ r \in InFlight' /\ faults' = faults + 1
              \/ /\ rows' = rows /\ bookings' = bookings
                 /\ r \in InFlight' /\ faults' = faults
<1>1. pc = [q \in Response |-> pc[q]]
  BY DEF TypeOK
<1> USE DEF runVars, fileVars
<1>2. pc[r] \in {"update", "insert"} /\ UNCHANGED <<runPc, todo, kept, log, overlaps>>
  BY DEF UpdateUsage, CreateUsage
<1>3. /\ \/ pc' = [pc EXCEPT ![r] = "recorded"]
         \/ pc' = [pc EXCEPT ![r] = "insert"]
         \/ NextAttempt(r)
      /\ NextAttempt(r) => \/ pc' = [pc EXCEPT ![r] = "deadletter"]
                           \/ pc' = [pc EXCEPT ![r] = "start"]
  BY NextAttemptType DEF UpdateUsage, CreateUsage
<1>4. Answered' = Answered /\ \A s \in Response \ {r} : s \in InFlight' <=> s \in InFlight
  BY <1>1, <1>2, <1>3 DEF Answered, InFlight
<1>5. \/ (\E table : Apply(table, r)) /\ pc' = [pc EXCEPT ![r] = "recorded"] /\ faults' = faults
      \/ (\E table : Apply(table, r)) /\ NextAttempt(r) /\ faults' = faults + 1
      \/ /\ rows' = rows /\ bookings' = bookings /\ faults' = faults
         /\ NextAttempt(r) \/ pc' = [pc EXCEPT ![r] = "insert"]
  BY DEF UpdateUsage, CreateUsage, Fault
<1>6. QED
  BY <1>1, <1>2, <1>3, <1>4, <1>5 DEF InFlight

LEMMA StatementLedger ==
    ASSUME TypeOK, TypeOK', NEW r \in Response, UpdateUsage(r) \/ CreateUsage(r)
    PROVE  [Ledger!Next]_(Ledger!ledger)
<1>1. /\ r \in InFlight /\ Answered' = Answered
      /\ UNCHANGED <<runPc, todo, kept, log, overlaps>>
      /\ \A s \in Response \ {r} : s \in InFlight' <=> s \in InFlight
  BY StatementOutcome
<1>2. \A s \in Response : InLog(s)' = InLog(s) /\ Holding(s)' = Holding(s)
  BY <1>1 DEF InLog, One, AboutToTruncate, Holding, Active
<1>3. \A s \in Response \ {r} : Claims(s)' = Claims(s)
  <2> SUFFICES ASSUME NEW s \in Response \ {r} PROVE Claims(s)' = Claims(s)
    OBVIOUS
  <2>1. One(s \in InFlight)' = One(s \in InFlight)
    BY <1>1 DEF One
  <2>2. QED
    BY <1>2, <2>1, ClaimsMove
<1>4. Claims(r) > 0
  <2>1. One(r \in InFlight) = 1 /\ InLog(r) \in {0, 1}
    BY <1>1 DEF One, InLog
  <2>2. QED
    BY <2>1, HoldingFinite DEF Claims, InLog
<1>5. r \in InFlight' => Claims(r)' = Claims(r)
  BY <1>1, <1>2, ClaimsMove DEF One
<1>6. r \notin InFlight' => Claims(r)' = Claims(r) - 1
  <2> SUFFICES ASSUME r \notin InFlight' PROVE Claims(r)' = Claims(r) - 1
    OBVIOUS
  <2>1. /\ One(r \in InFlight) = 1 /\ One(r \in InFlight)' = 0
        /\ InLog(r) \in {0, 1} /\ InLog(r)' = InLog(r)
    BY <1>1, <1>2 DEF One, InLog
  <2>2. QED
    BY <1>2, <2>1, HoldingFinite DEF Claims, InLog
<1>7. /\ faults' = faults => Mishaps' = Mishaps
      /\ faults' = faults + 1 => Mishaps' = Mishaps + 1
  <2>1. faults \in Nat /\ overlaps \in Nat /\ overlaps' = overlaps
    BY <1>1 DEF TypeOK
  <2>2. QED
    BY <2>1 DEF Mishaps
<1>8. CASE (\E table : Apply(table, r)) /\ r \notin InFlight' /\ faults' = faults
  <2>1. Ledger!Book(r)
    BY <1>1, <1>3, <1>4, <1>6, <1>7, <1>8, BookStep
  <2>2. QED
    BY <2>1 DEF Ledger!Next
<1>9. CASE (\E table : Apply(table, r)) /\ r \in InFlight' /\ faults' = faults + 1
  <2>1. \A s \in Response : Claims(s)' = Claims(s)
    BY <1>3, <1>5, <1>9
  <2>2. Ledger!Mishap
    BY <1>1, <1>4, <1>7, <1>9, <2>1, LostAckStep
  <2>3. QED
    BY <2>2 DEF Ledger!Next
<1>10. CASE bookings' = bookings /\ r \in InFlight' /\ faults' = faults
  <2>1. \A s \in Response : Claims(s)' = Claims(s)
    BY <1>3, <1>5, <1>10
  <2>2. \A s \in Response : Claims(s)' <= Claims(s)
    BY <2>1, ClaimsTyped
  <2>3. Ledger!Drop
    BY <1>1, <1>7, <1>10, <2>2, DropStep
  <2>4. QED
    BY <2>3 DEF Ledger!Next
<1>11. QED
  BY <1>8, <1>9, <1>10, StatementOutcome

\* The dead letter takes the recorder's claim into the file, or the claim is lost.
LEMMA LetterLedger ==
    ASSUME TypeOK, TypeOK', NEW r \in Response, writeUsageDeadLetter(r)
    PROVE  [Ledger!Next]_(Ledger!ledger)
<1> USE DEF dbVars, runVars
<1>1. pc = [q \in Response |-> pc[q]]
  BY DEF TypeOK
<1>2. /\ pc[r] = "deadletter" /\ UNCHANGED <<runPc, todo, kept, overlaps, bookings>>
      /\ \/ log' = log \cup {r} /\ faults' = faults
         \/ log' = log /\ faults' = faults + 1
      /\ pc' = [pc EXCEPT ![r] = "dead"] \/ pc' = [pc EXCEPT ![r] = "lost"]
  BY DEF writeUsageDeadLetter, Fault
<1>3. /\ Answered' = Answered /\ r \in InFlight /\ r \notin InFlight'
      /\ \A s \in Response \ {r} : s \in InFlight' <=> s \in InFlight
  BY <1>1, <1>2 DEF Answered, InFlight
<1>4. \A s \in Response : Holding(s)' = Holding(s)
  BY <1>2 DEF Holding, Active
<1>5. AboutToTruncate' = AboutToTruncate
  BY <1>2 DEF AboutToTruncate
<1>6. ASSUME NEW s \in Response PROVE Claims(s)' <= Claims(s)
  <2>1. CASE s # r
    <3>1. One(s \in InFlight)' = One(s \in InFlight) /\ (s \in log' <=> s \in log)
      BY <1>2, <1>3, <2>1 DEF One
    <3>2. InLog(s)' = InLog(s)
      BY <1>5, <3>1 DEF InLog, One
    <3>3. QED
      BY <1>4, <3>1, <3>2, ClaimsMove, ClaimsTyped
  <2>2. CASE s = r
    <3>1. One(r \in InFlight) = 1 /\ One(r \in InFlight)' = 0 /\ InLog(r)' \in {0, 1} /\ InLog(r) \in {0, 1}
      BY <1>3 DEF One, InLog
    <3>2. QED
      BY <1>4, <2>2, <3>1, HoldingFinite DEF Claims, InLog
  <2>3. QED
    BY <2>1, <2>2
<1>7. /\ faults' = faults => Mishaps' = Mishaps
      /\ faults' = faults + 1 => Mishaps' = Mishaps + 1
  <2>1. faults \in Nat /\ overlaps \in Nat /\ overlaps' = overlaps
    BY <1>2 DEF TypeOK
  <2>2. QED
    BY <2>1 DEF Mishaps
<1>8. CASE faults' = faults
  BY <1>2, <1>3, <1>6, <1>7, <1>8, DropStep DEF Ledger!Next
<1>9. CASE faults' = faults + 1
  <2>1. \A s \in Response : Claims(s)' <= Claims(s) + 1
    BY <1>6, ClaimsTyped
  <2>2. QED
    BY <1>2, <1>3, <1>7, <1>9, <2>1, MishapStep DEF Ledger!Next
<1>10. QED
  BY <1>2, <1>8, <1>9

\* A replayed line: its claim is used up, or goes on in the kept lines.
LEMMA ReplayLedger ==
    ASSUME TypeOK, TypeOK', LinesApart, NEW p \in Run, ReplayLine(p)
    PROVE  [Ledger!Next]_(Ledger!ledger)
<1>1. PICK r \in todo[p] : ReplayLine(p)!2!(r)
  BY DEF ReplayLine
<1>2. /\ todo \in [Run -> SUBSET Response] /\ kept \in [Run -> SUBSET Response]
      /\ runPc \in [Run -> {"idle", "lines", "replay", "write"}] /\ r \in Response
      /\ faults \in Nat /\ overlaps \in Nat
  BY DEF TypeOK
<1>3. /\ runPc[p] = "replay" /\ runPc' = [runPc EXCEPT ![p] = "lines"]
      /\ pc' = pc /\ log' = log /\ overlaps' = overlaps
  BY DEF ReplayLine, recVars, fileVars
<1>4. todo' = [todo EXCEPT ![p] = @ \ {r}] /\ r \notin kept[p]
  BY <1>1 DEF LinesApart
<1>5. Answered' = Answered /\ InFlight' = InFlight /\ Active' = Active
  BY <1>2, <1>3 DEF Answered, InFlight, Active
<1>6. AboutToTruncate /\ AboutToTruncate'
  BY <1>2, <1>3 DEF AboutToTruncate
<1>7. \A s \in Response : One(s \in InFlight)' = One(s \in InFlight) /\ InLog(s)' = InLog(s)
  <2>1. \A s \in Response : InLog(s) = 0 /\ InLog(s)' = 0
    BY <1>6 DEF One, InLog
  <2>2. QED
    BY <1>5, <2>1 DEF One
<1>8. p \in Active /\ p \in Holding(r)
  BY <1>3 DEF Holding, Active
<1>9. ASSUME kept' = [kept EXCEPT ![p] = @ \cup {r}]
      PROVE  \A s \in Response : Claims(s)' = Claims(s)
  <2>1. \A s \in Response : Holding(s)' = Holding(s)
    BY <1>2, <1>4, <1>5, <1>9 DEF Holding
  <2>2. QED
    BY <1>7, <2>1, ClaimsMove
<1>10. ASSUME kept' = kept
       PROVE  /\ Claims(r)' = Claims(r) - 1
              /\ \A s \in Response \ {r} : Claims(s)' = Claims(s)
  <2>1. \A s \in Response \ {r} : Holding(s)' = Holding(s)
    BY <1>2, <1>4, <1>5, <1>10 DEF Holding
  <2>2. Holding(r)' = Holding(r) \ {p}
    BY <1>2, <1>4, <1>5, <1>8, <1>10 DEF Holding
  <2>3. Cardinality(Holding(r)') = Cardinality(Holding(r)) - 1
    BY <1>2, <1>8, <2>2, HoldingMoves
  <2>4. Claims(r)' = Claims(r) - 1
    <3>1. /\ One(r \in InFlight) \in {0, 1} /\ InLog(r) \in {0, 1}
          /\ One(r \in InFlight)' = One(r \in InFlight) /\ InLog(r)' = InLog(r)
      BY <1>2, <1>7 DEF One, InLog
    <3>2. QED
      BY <1>2, <2>3, <3>1, HoldingFinite DEF Claims, InLog
  <2>5. QED
    BY <1>7, <2>1, <2>4, ClaimsMove
<1>11. Claims(r) > 0
  <2>1. Cardinality(Holding(r)) # 0 /\ Cardinality(Holding(r)) \in Nat
    BY <1>2, <1>8, HoldingFinite, FS_EmptySet
  <2>2. One(r \in InFlight) \in {0, 1} /\ InLog(r) \in {0, 1}
    BY DEF One, InLog
  <2>3. QED
    BY <2>1, <2>2 DEF Claims, InLog
<1>12. /\ faults' = faults => Mishaps' = Mishaps
       /\ faults' = faults + 1 => Mishaps' = Mishaps + 1
  BY <1>2, <1>3 DEF Mishaps
<1>13. \/ (\E table : Apply(table, r)) /\ kept' = kept /\ faults' = faults
       \/ /\ (\E table : Apply(table, r)) /\ faults' = faults + 1
          /\ kept' = [kept EXCEPT ![p] = @ \cup {r}]
       \/ /\ bookings' = bookings /\ faults' = faults
          /\ kept' = [kept EXCEPT ![p] = @ \cup {r}]
  BY <1>1 DEF Fault
<1>14. CASE (\E table : Apply(table, r)) /\ kept' = kept /\ faults' = faults
  BY <1>2, <1>5, <1>10, <1>11, <1>12, <1>14, BookStep DEF Ledger!Next
<1>15. CASE /\ (\E table : Apply(table, r)) /\ faults' = faults + 1
            /\ kept' = [kept EXCEPT ![p] = @ \cup {r}]
  BY <1>2, <1>5, <1>9, <1>11, <1>12, <1>15, LostAckStep DEF Ledger!Next
<1>16. CASE /\ bookings' = bookings /\ faults' = faults
            /\ kept' = [kept EXCEPT ![p] = @ \cup {r}]
  <2>1. \A s \in Response : Claims(s)' <= Claims(s)
    BY <1>9, <1>16, ClaimsTyped
  <2>2. QED
    BY <1>5, <1>12, <1>16, <2>1, DropStep DEF Ledger!Next
<1>17. QED
  BY <1>13, <1>14, <1>15, <1>16

\* A response is answered: its recorder is the one party that will book it.
LEMMA AnswerLedger ==
    ASSUME TypeOK, IdleUnknown, NEW r \in Response, recordUsage(r)
    PROVE  [Ledger!Next]_(Ledger!ledger)
<1> USE DEF dbVars, runVars, fileVars
<1>1. /\ pc[r] = "idle" /\ pc' = [pc EXCEPT ![r] = "start"] /\ pc = [q \in Response |-> pc[q]]
      /\ UNCHANGED <<bookings, faults, overlaps, runPc, todo, kept, log>>
  BY DEF recordUsage, TypeOK
<1>2. /\ r \notin Answered /\ Answered' = Answered \cup {r} /\ r \in InFlight'
      /\ \A s \in Response \ {r} : s \in InFlight' <=> s \in InFlight
  BY <1>1 DEF Answered, InFlight
<1>3. \A s \in Response : Holding(s)' = Holding(s) /\ InLog(s)' = InLog(s)
  BY <1>1 DEF Holding, Active, InLog, One, AboutToTruncate
<1>4. Claims(r)' = 1
  <2>1. Holding(r) = {} /\ r \notin log
    BY <1>1 DEF IdleUnknown, Holding, Active
  <2>2. One(r \in InFlight)' = 1 /\ InLog(r)' = 0 /\ Cardinality(Holding(r)') = 0
    BY <1>2, <1>3, <2>1, FS_EmptySet DEF One, InLog
  <2>3. QED
    BY <2>2 DEF Claims, InLog
<1>5. \A s \in Response \ {r} : Claims(s)' = Claims(s)
  <2> SUFFICES ASSUME NEW s \in Response \ {r} PROVE Claims(s)' = Claims(s)
    OBVIOUS
  <2>1. One(s \in InFlight)' = One(s \in InFlight)
    BY <1>2 DEF One
  <2>2. QED
    BY <1>3, <2>1, ClaimsMove
<1>6. AllClaims' = [AllClaims EXCEPT ![r] = 1]
  BY <1>4, <1>5 DEF AllClaims
<1>7. Ledger!Answer(r)
  BY <1>1, <1>2, <1>6 DEF Ledger!Answer, Answered, AllClaims, Mishaps
<1>8. QED
  BY <1>7 DEF Ledger!Next

\* What moves neither a recorder to its end, nor a line, nor a run in or out.
LEMMA QuietLedger ==
    ASSUME TypeOK,
           \/ \E r \in Response : BeginAttempt(r)
           \/ \E p \in Run : NextLine(p)
           \/ Midnight \/ DbDown \/ DbUp \/ UNCHANGED vars
    PROVE  [Ledger!Next]_(Ledger!ledger)
<1> USE DEF dbVars, recVars, runVars, fileVars, vars
<1>1. /\ pc = [q \in Response |-> pc[q]]
      /\ runPc \in [Run -> {"idle", "lines", "replay", "write"}]
  BY DEF TypeOK
<1>2. /\ UNCHANGED <<todo, kept, log, faults, overlaps, bookings>>
      /\ \/ UNCHANGED pc
         \/ \E r \in Response : pc[r] = "start" /\ pc' = [pc EXCEPT ![r] = "update"]
      /\ \/ UNCHANGED runPc
         \/ \E p \in Run : runPc[p] = "lines" /\ runPc' = [runPc EXCEPT ![p] = "replay"]
  BY DEF BeginAttempt, NextLine, Midnight, DbDown, DbUp
<1>3. InFlight' = InFlight /\ Answered' = Answered
  BY <1>1, <1>2 DEF InFlight, Answered
<1>4. Active' = Active /\ (AboutToTruncate' <=> AboutToTruncate)
  BY <1>1, <1>2 DEF Active, AboutToTruncate
<1>5. \A s \in Response : Claims(s)' <= Claims(s)
  <2> SUFFICES ASSUME NEW s \in Response PROVE Claims(s)' <= Claims(s)
    OBVIOUS
  <2>1. Holding(s)' = Holding(s) /\ InLog(s)' = InLog(s) /\ One(s \in InFlight)' = One(s \in InFlight)
    BY <1>2, <1>3, <1>4 DEF Holding, InLog, One
  <2>2. QED
    BY <2>1, ClaimsMove, ClaimsTyped
<1>6. Ledger!Drop
  BY <1>2, <1>3, <1>5, DropStep DEF Mishaps
<1>7. QED
  BY <1>6 DEF Ledger!Next

\* A run takes over the claims of the file; one that begins beside another makes them again.
LEMMA ReadLedger ==
    ASSUME TypeOK, TypeOK', NEW p \in Run, ReadLog(p)
    PROVE  [Ledger!Next]_(Ledger!ledger)
<1> USE DEF dbVars, recVars, fileVars
<1>1. /\ todo \in [Run -> SUBSET Response] /\ kept \in [Run -> SUBSET Response]
      /\ runPc \in [Run -> {"idle", "lines", "replay", "write"}]
      /\ faults \in Nat /\ overlaps \in Nat
  BY DEF TypeOK
<1>2. /\ runPc' = [runPc EXCEPT ![p] = "lines"] /\ runPc[p] = "idle"
      /\ todo' = [todo EXCEPT ![p] = log] /\ kept' = [kept EXCEPT ![p] = {}]
      /\ UNCHANGED <<pc, log, faults, bookings>>
      /\ \/ Active = {} /\ overlaps' = overlaps
         \/ overlaps' = overlaps + 1
  BY DEF ReadLog
<1>3. Answered' = Answered /\ InFlight' = InFlight
  BY <1>2 DEF Answered, InFlight
<1>4. \A s \in Response : InLog(s)' = 0 /\ InLog(s) \in {0, 1}
  <2>1. AboutToTruncate'
    BY <1>1, <1>2 DEF AboutToTruncate
  <2>2. QED
    BY <2>1 DEF InLog, One
<1>5. ASSUME NEW s \in Response
      PROVE  /\ Cardinality(Holding(s)') <= Cardinality(Holding(s)) + 1
             /\ s \notin log => Cardinality(Holding(s)') <= Cardinality(Holding(s))
  <2>1. /\ Holding(s)' \subseteq Holding(s) \cup {p}
        /\ s \notin log => Holding(s)' \subseteq Holding(s)
    BY <1>1, <1>2 DEF Holding, Active
  <2>2. QED
    BY <2>1, HoldingMoves
<1>6. \A s \in Response : One(s \in InFlight)' = One(s \in InFlight) /\ One(s \in InFlight) \in {0, 1}
  BY <1>3 DEF One
<1>7. CASE Active = {} /\ overlaps' = overlaps
  <2>1. ASSUME NEW s \in Response PROVE Claims(s)' <= Claims(s)
    <3>1. s \in log => InLog(s) = 1
      BY <1>7 DEF InLog, One, AboutToTruncate, Active
    <3>2. QED
      BY <1>4, <1>5, <1>6, <3>1, HoldingFinite DEF Claims, InLog
  <2>2. Mishaps' = Mishaps
    BY <1>2, <1>7 DEF Mishaps
  <2>3. Ledger!Drop
    BY <1>2, <1>3, <2>1, <2>2, DropStep
  <2>4. QED
    BY <2>3 DEF Ledger!Next
<1>8. CASE overlaps' = overlaps + 1
  <2>1. ASSUME NEW s \in Response PROVE Claims(s)' <= Claims(s) + 1
    BY <1>4, <1>5, <1>6, HoldingFinite DEF Claims, InLog
  <2>2. Mishaps' = Mishaps + 1
    BY <1>1, <1>2, <1>8 DEF Mishaps
  <2>3. Ledger!Mishap
    BY <1>2, <1>3, <2>1, <2>2, MishapStep
  <2>4. QED
    BY <2>3 DEF Ledger!Next
<1>9. QED
  BY <1>2, <1>7, <1>8

\* Truncating drops what was appended since; a file that cannot be opened keeps its lines,
\* those the run has booked too.
LEMMA TruncateLedger ==
    ASSUME TypeOK, TypeOK', NEW p \in Run, TruncateLog(p)
    PROVE  [Ledger!Next]_(Ledger!ledger)
<1> USE DEF dbVars, recVars
<1>1. /\ runPc \in [Run -> {"idle", "lines", "replay", "write"}]
      /\ faults \in Nat /\ overlaps \in Nat
  BY DEF TypeOK
<1>2. /\ runPc[p] = "lines" /\ UNCHANGED <<pc, todo, kept, overlaps, bookings>>
      /\ \/ log' = {} /\ runPc' = [runPc EXCEPT ![p] = "write"] /\ faults' = faults
         \/ faults' = faults + 1 /\ runPc' = [runPc EXCEPT ![p] = "idle"] /\ log' = log
  BY DEF TruncateLog, Fault
<1>3. Answered' = Answered /\ InFlight' = InFlight
  BY <1>2 DEF Answered, InFlight
<1>4. \A s \in Response : One(s \in InFlight)' = One(s \in InFlight) /\ One(s \in InFlight) \in {0, 1}
  BY <1>3 DEF One
<1>5. \A s \in Response : Cardinality(Holding(s)') <= Cardinality(Holding(s))
  <2>1. \A s \in Response : Holding(s)' \subseteq Holding(s)
    BY <1>1, <1>2 DEF Holding, Active
  <2>2. QED
    BY <2>1, HoldingMoves
<1>6. CASE log' = {} /\ faults' = faults
  <2>1. ASSUME NEW s \in Response PROVE Claims(s)' <= Claims(s)
    <3>1. InLog(s)' = 0 /\ InLog(s) \in {0, 1}
      BY <1>6 DEF InLog, One
    <3>2. QED
      BY <1>4, <1>5, <3>1, HoldingFinite DEF Claims, InLog
  <2>2. Ledger!Drop
    BY <1>2, <1>3, <1>6, <2>1, DropStep DEF Mishaps
  <2>3. QED
    BY <2>2 DEF Ledger!Next
<1>7. CASE faults' = faults + 1
  <2>1. ASSUME NEW s \in Response PROVE Claims(s)' <= Claims(s) + 1
    BY <1>4, <1>5, HoldingFinite, ClaimsMove
  <2>2. Mishaps' = Mishaps + 1
    BY <1>1, <1>2, <1>7 DEF Mishaps
  <2>3. Ledger!Mishap
    BY <1>2, <1>3, <2>1, <2>2, MishapStep
  <2>4. QED
    BY <2>3 DEF Ledger!Next
<1>8. QED
  BY <1>2, <1>6, <1>7

\* The kept lines go back into the file, or are lost with what was cut short.
LEMMA RewriteLedger ==
    ASSUME TypeOK, TypeOK', NEW p \in Run, RewriteLog(p)
    PROVE  [Ledger!Next]_(Ledger!ledger)
<1> USE DEF dbVars, recVars
<1>1. /\ runPc \in [Run -> {"idle", "lines", "replay", "write"}]
      /\ faults \in Nat /\ overlaps \in Nat
  BY DEF TypeOK
<1>2. /\ runPc[p] = "write" /\ UNCHANGED <<pc, todo, kept, overlaps, bookings>>
      /\ runPc' = [runPc EXCEPT ![p] = "idle"]
      /\ \/ log' \subseteq kept[p] \cup log /\ faults' = faults
         \/ log' = log /\ faults' = faults + 1
  BY DEF RewriteLog, Fault
<1>3. Answered' = Answered /\ InFlight' = InFlight
  BY <1>2 DEF Answered, InFlight
<1>4. \A s \in Response : One(s \in InFlight)' = One(s \in InFlight) /\ One(s \in InFlight) \in {0, 1}
  BY <1>3 DEF One
<1>5. ASSUME NEW s \in Response
      PROVE  /\ Cardinality(Holding(s)') <= Cardinality(Holding(s))
             /\ s \in kept[p] => Cardinality(Holding(s)') = Cardinality(Holding(s)) - 1
  <2>1. Holding(s)' = Holding(s) \ {p} /\ (s \in kept[p] => p \in Holding(s))
    BY <1>1, <1>2 DEF Holding, Active
  <2>2. QED
    BY <2>1, HoldingMoves
<1>6. AboutToTruncate' <=> AboutToTruncate
  BY <1>1, <1>2 DEF AboutToTruncate
<1>7. ASSUME NEW s \in Response PROVE Claims(s)' <= Claims(s)
  <2>1. InLog(s)' \in {0, 1} /\ InLog(s) \in {0, 1}
    BY DEF InLog, One
  <2>2. s \notin kept[p] => InLog(s)' <= InLog(s)
    BY <1>2, <1>6, <2>1 DEF InLog, One
  <2>3. QED
    BY <1>4, <1>5, <2>1, <2>2, HoldingFinite DEF Claims, InLog
<1>8. CASE faults' = faults
  <2>1. Mishaps' = Mishaps
    BY <1>2, <1>8 DEF Mishaps
  <2>2. Ledger!Drop
    BY <1>2, <1>3, <1>7, <2>1, DropStep
  <2>3. QED
    BY <2>2 DEF Ledger!Next
<1>9. CASE faults' = faults + 1
  <2>1. \A s \in Response : Claims(s)' <= Claims(s) + 1
    BY <1>7, ClaimsTyped
  <2>2. Mishaps' = Mishaps + 1
    BY <1>1, <1>2, <1>9 DEF Mishaps
  <2>3. Ledger!Mishap
    BY <1>2, <1>3, <2>1, <2>2, MishapStep
  <2>4. QED
    BY <2>3 DEF Ledger!Next
<1>10. QED
  BY <1>2, <1>8, <1>9

\* Only the file's claims outlive a crash.
LEMMA CrashLedger ==
    ASSUME TypeOK, TypeOK', Crash
    PROVE  [Ledger!Next]_(Ledger!ledger)
<1> USE DEF dbVars
<1>1. /\ pc' = [r \in Response |-> IF r \in InFlight THEN "crashed" ELSE pc[r]]
      /\ runPc' = [p \in Run |-> "idle"] /\ faults' = faults + 1
      /\ UNCHANGED <<bookings, overlaps, log>>
  BY DEF Crash, Die, Fault
<1>2. Answered' = Answered /\ InFlight' = {} /\ Active' = {}
  BY <1>1 DEF Answered, InFlight, Active
<1>3. ASSUME NEW s \in Response PROVE Claims(s)' <= Claims(s) + 1
  <2>1. Holding(s)' = {}
    BY <1>2 DEF Holding
  <2>2. /\ One(s \in InFlight)' = 0 /\ InLog(s)' \in {0, 1}
        /\ Cardinality(Holding(s)') = 0
    BY <1>2, <2>1, FS_EmptySet DEF One, InLog
  <2>3. QED
    BY <2>2, ClaimsTyped DEF Claims, InLog
<1>4. Mishaps' = Mishaps + 1
  <2>1. faults \in Nat /\ overlaps \in Nat
    BY DEF TypeOK
  <2>2. QED
    BY <1>1, <2>1 DEF Mishaps
<1>5. Ledger!Mishap
  BY <1>1, <1>2, <1>3, <1>4, MishapStep
<1>6. QED
  BY <1>5 DEF Ledger!Next

\* Every step of the program is one of the ledger, or nothing to it.
LEMMA LedgerStep ==
    ASSUME TypeOK, TypeOK', LinesApart, IdleUnknown, [Next]_vars
    PROVE  [Ledger!Next]_(Ledger!ledger)
<1>1. ASSUME NEW r \in Response, recordUsage(r) \/ Recorder(r)
      PROVE  [Ledger!Next]_(Ledger!ledger)
  BY <1>1, AnswerLedger, QuietLedger, StatementLedger, LetterLedger DEF Recorder
<1>2. ASSUME NEW p \in Run, Reprocess(p)
      PROVE  [Ledger!Next]_(Ledger!ledger)
  BY <1>2, ReadLedger, QuietLedger, ReplayLedger, TruncateLedger, RewriteLedger DEF Reprocess
<1>3. QED
  BY <1>1, <1>2, CrashLedger, QuietLedger DEF Next

\* The invariants the steps rest on: where the lines are, and what cannot be known yet.
LEMMA LinesStep ==
    ASSUME TypeOK, LinesApart, [Next]_vars
    PROVE  LinesApart'
<1> USE DEF LinesApart, runVars, vars
<1>1. todo \in [Run -> SUBSET Response] /\ kept \in [Run -> SUBSET Response]
  BY DEF TypeOK
<1>2. ASSUME NEW p \in Run, ReadLog(p) PROVE LinesApart'
  BY <1>1, <1>2 DEF ReadLog
<1>3. ASSUME NEW p \in Run, ReplayLine(p) PROVE LinesApart'
  <2>1. PICK r \in todo[p] : ReplayLine(p)!2!(r)
    BY <1>3 DEF ReplayLine
  <2>2. /\ todo' = [todo EXCEPT ![p] = @ \ {r}]
        /\ kept' = kept \/ kept' = [kept EXCEPT ![p] = @ \cup {r}]
    BY <2>1
  <2>3. QED
    BY <1>1, <2>2
<1>4. ASSUME \/ \E r \in Response : recordUsage(r) \/ Recorder(r)
             \/ \E p \in Run : NextLine(p) \/ TruncateLog(p) \/ RewriteLog(p)
             \/ Crash \/ Midnight \/ DbDown \/ DbUp \/ UNCHANGED vars
      PROVE  LinesApart'
  <2>1. todo' = todo /\ kept' = kept
    BY <1>4 DEF recordUsage, Recorder, BeginAttempt, UpdateUsage, CreateUsage, writeUsageDeadLetter,
                NextLine, TruncateLog, RewriteLog, Crash, Die, Midnight, DbDown, DbUp
  <2>2. QED
    BY <2>1
<1>5. QED
  BY <1>2, <1>3, <1>4 DEF Next, Reprocess

LEMMA UnknownStep ==
    ASSUME TypeOK, IdleUnknown, [Next]_vars
    PROVE  IdleUnknown'
<1> USE DEF IdleUnknown, dbVars, recVars, runVars, fileVars, vars
<1>1. /\ todo \in [Run -> SUBSET Response] /\ kept \in [Run -> SUBSET Response]
      /\ pc = [q \in Response |-> pc[q]] /\ bookings \in [Response -> Nat]
      /\ log \subseteq Response
  BY DEF TypeOK
<1>2. ASSUME NEW r \in Response, recordUsage(r) \/ BeginAttempt(r) PROVE IdleUnknown'
  BY <1>1, <1>2 DEF recordUsage, BeginAttempt
<1>3. ASSUME NEW r \in Response, UpdateUsage(r) \/ CreateUsage(r) PROVE IdleUnknown'
  <2>1. /\ pc[r] # "idle" /\ pc'[r] # "idle" /\ \A s \in Response \ {r} : pc'[s] = pc[s]
        /\ UNCHANGED <<log, todo, kept>>
    BY <1>1, <1>3 DEF UpdateUsage, CreateUsage, NextAttempt
  <2>2. \A s \in Response \ {r} : bookings'[s] = bookings[s]
    BY <1>1, <1>3 DEF UpdateUsage, CreateUsage, Apply
  <2>3. QED
    BY <2>1, <2>2
<1>4. ASSUME NEW r \in Response, writeUsageDeadLetter(r) PROVE IdleUnknown'
  <2>1. /\ pc[r] # "idle" /\ pc'[r] # "idle" /\ \A s \in Response \ {r} : pc'[s] = pc[s]
        /\ log' \subseteq log \cup {r} /\ UNCHANGED <<bookings, todo, kept>>
    BY <1>1, <1>4 DEF writeUsageDeadLetter
  <2>2. QED
    BY <2>1
<1>5. ASSUME NEW p \in Run, ReadLog(p) PROVE IdleUnknown'
  BY <1>1, <1>5 DEF ReadLog
<1>6. ASSUME NEW p \in Run, ReplayLine(p) PROVE IdleUnknown'
  <2>1. PICK r \in todo[p] : ReplayLine(p)!2!(r)
    BY <1>6 DEF ReplayLine
  <2>2. /\ r \in Response /\ pc' = pc /\ log' = log
        /\ todo' = [todo EXCEPT ![p] = @ \ {r}]
        /\ kept' = kept \/ kept' = [kept EXCEPT ![p] = @ \cup {r}]
        /\ \A s \in Response \ {r} : bookings'[s] = bookings[s]
    BY <1>1, <1>6, <2>1 DEF ReplayLine, Apply
  <2>3. pc[r] # "idle"
    BY <2>1, <2>2
  <2>4. QED
    BY <1>1, <2>2, <2>3
<1>7. ASSUME NEW p \in Run, NextLine(p) \/ TruncateLog(p) \/ RewriteLog(p) PROVE IdleUnknown'
  <2>1. log' \subseteq kept[p] \cup log /\ UNCHANGED <<pc, bookings, todo, kept>>
    BY <1>7 DEF NextLine, TruncateLog, RewriteLog
  <2>2. QED
    BY <2>1
<1>8. ASSUME Crash PROVE IdleUnknown'
  BY <1>1, <1>8 DEF Crash, Die
<1>9. ASSUME Midnight \/ DbDown \/ DbUp \/ UNCHANGED vars PROVE IdleUnknown'
  BY <1>9 DEF Midnight, DbDown, DbUp
<1>10. QED
  BY <1>2, <1>3, <1>4, <1>5, <1>6, <1>7, <1>8, <1>9 DEF Next, Recorder, Reprocess

LEMMA MishapsTyped == ASSUME TypeOK, TypeOK' PROVE Mishaps \in Nat /\ Mishaps' \in Nat
<1>1. faults \in Nat /\ overlaps \in Nat /\ faults' \in Nat /\ overlaps' \in Nat
  BY DEF TypeOK
<1>2. \A m \in Nat, n \in Nat : m + n \in Nat
  OBVIOUS
<1>3. Mishaps \in Nat
  BY <1>1, <1>2 DEF Mishaps
<1>4. faults' + overlaps' \in Nat
  BY <1>1, <1>2
<1>5. QED
  BY <1>3, <1>4 DEF Mishaps

\* Booked and claimed together stay within a bound that only a mishap raises.
LEMMA StaysWithin ==
    ASSUME NEW b \in [Response -> Nat], NEW b2 \in [Response -> Nat],
           NEW c \in [Response -> Nat], NEW c2 \in [Response -> Nat],
           NEW m \in Nat, NEW m2 \in Nat,
           \A s \in Response : b[s] + c[s] <= 1 + m,
           \/ \E r \in Response : b[r] = 0 /\ c2 = [c EXCEPT ![r] = 1] /\ b2 = b /\ m2 = m
           \/ \E r \in Response : /\ c2 = [c EXCEPT ![r] = @ - 1]
                                  /\ b2 = [b EXCEPT ![r] = @ + 1] /\ m2 = m
           \/ (\A s \in Response : c2[s] <= c[s]) /\ b2 = b /\ m2 = m
           \/ m2 = m + 1 /\ \A s \in Response : b2[s] + c2[s] <= b[s] + c[s] + 1
    PROVE  \A s \in Response : b2[s] + c2[s] <= 1 + m2
<1> SUFFICES ASSUME NEW s \in Response PROVE b2[s] + c2[s] <= 1 + m2
  OBVIOUS
<1>1. b[s] \in Nat /\ b2[s] \in Nat /\ c[s] \in Nat /\ c2[s] \in Nat /\ b[s] + c[s] <= 1 + m
  OBVIOUS
<1>2. ASSUME NEW r \in Response, b[r] = 0, c2 = [c EXCEPT ![r] = 1], b2 = b, m2 = m
      PROVE  b2[s] + c2[s] <= 1 + m2
  BY <1>1, <1>2
<1>3. ASSUME NEW r \in Response, c2 = [c EXCEPT ![r] = @ - 1], b2 = [b EXCEPT ![r] = @ + 1], m2 = m
      PROVE  b2[s] + c2[s] <= 1 + m2
  <2>1. CASE s = r
    <3>1. c2[s] = c[s] - 1 /\ b2[s] = b[s] + 1
      BY <1>3, <2>1
    <3>2. QED
      BY <1>1, <1>3, <3>1
  <2>2. CASE s # r
    BY <1>1, <1>3, <2>2
  <2>3. QED
    BY <2>1, <2>2
<1>4. QED
  BY <1>1, <1>2, <1>3

\* The ledger bounds what is booked and still claimed by the mishaps there were.
LEMMA LedgerBounds ==
    ASSUME TypeOK, TypeOK', IdleUnknown, WithinMishaps, [Ledger!Next]_(Ledger!ledger)
    PROVE  WithinMishaps'
<1>1. /\ bookings \in [Response -> Nat] /\ bookings' \in [Response -> Nat]
      /\ faults \in Nat /\ overlaps \in Nat /\ faults' \in Nat /\ overlaps' \in Nat
  BY DEF TypeOK
<1>2. /\ AllClaims \in [Response -> Nat] /\ AllClaims' \in [Response -> Nat]
      /\ \A s \in Response : AllClaims[s] = Claims(s) /\ AllClaims'[s] = Claims(s)'
  BY ClaimsTyped DEF AllClaims
<1>3. Mishaps \in Nat /\ Mishaps' \in Nat
  BY MishapsTyped
<1>4. \A s \in Response : bookings[s] + AllClaims[s] <= 1 + Mishaps
  BY <1>1, <1>2 DEF WithinMishaps, Mishaps
<1>5. \/ \E r \in Response : /\ bookings[r] = 0 /\ AllClaims' = [AllClaims EXCEPT ![r] = 1]
                            /\ bookings' = bookings /\ Mishaps' = Mishaps
      \/ \E r \in Response : /\ AllClaims' = [AllClaims EXCEPT ![r] = @ - 1]
                            /\ bookings' = [bookings EXCEPT ![r] = @ + 1] /\ Mishaps' = Mishaps
      \/ /\ \A s \in Response : AllClaims'[s] <= AllClaims[s]
         /\ bookings' = bookings /\ Mishaps' = Mishaps
      \/ /\ Mishaps' = Mishaps + 1
         /\ \A s \in Response : bookings'[s] + AllClaims'[s] <= bookings[s] + AllClaims[s] + 1
  <2>1. ASSUME NEW r \in Response, Ledger!Answer(r)
        PROVE  /\ bookings[r] = 0 /\ AllClaims' = [AllClaims EXCEPT ![r] = 1]
               /\ bookings' = bookings /\ Mishaps' = Mishaps
    BY <2>1 DEF Ledger!Answer, IdleUnknown, AllClaims, Mishaps
  <2>2. ASSUME NEW r \in Response, Ledger!Book(r)
        PROVE  /\ AllClaims' = [AllClaims EXCEPT ![r] = @ - 1]
               /\ bookings' = [bookings EXCEPT ![r] = @ + 1] /\ Mishaps' = Mishaps
    BY <2>2 DEF Ledger!Book, AllClaims, Mishaps
  <2>3. ASSUME Ledger!Drop
        PROVE  /\ \A s \in Response : AllClaims'[s] <= AllClaims[s]
               /\ bookings' = bookings /\ Mishaps' = Mishaps
    BY <2>3 DEF Ledger!Drop, AllClaims, Mishaps
  <2>4. ASSUME Ledger!Mishap
        PROVE  /\ Mishaps' = Mishaps + 1
               /\ \A s \in Response : bookings'[s] + AllClaims'[s] <= bookings[s] + AllClaims[s] + 1
    BY <2>4 DEF Ledger!Mishap, AllClaims, Mishaps
  <2>5. ASSUME UNCHANGED Ledger!ledger
        PROVE  /\ \A s \in Response : AllClaims'[s] <= AllClaims[s]
               /\ bookings' = bookings /\ Mishaps' = Mishaps
    <3>1. AllClaims' = AllClaims /\ bookings' = bookings /\ Mishaps' = Mishaps
      BY <2>5 DEF Ledger!ledger, AllClaims, Mishaps
    <3>2. QED
      BY <1>2, <3>1
  <2>6. QED
    BY <2>1, <2>2, <2>3, <2>4, <2>5 DEF Ledger!Next
<1>6. \A s \in Response : bookings'[s] + AllClaims'[s] <= 1 + Mishaps'
  BY <1>1, <1>2, <1>3, <1>4, <1>5, StaysWithin
<1>7. QED
  BY <1>1, <1>2, <1>6 DEF WithinMishaps, Mishaps

\* A statement counts at most once in a row.
LEMMA ApplyWithin ==
    ASSUME TypeOK, RowsWithinBookings, NEW r \in Response, NEW k \in Key,
           Apply(Update(rows, k, r), r) \/ Apply(Insert(rows, k, r), r)
    PROVE  RowsWithinBookings'
<1>1. /\ rows \in Seq(UsageTrack) /\ bookings \in [Response -> Nat]
      /\ bookings' = [bookings EXCEPT ![r] = @ + 1]
  BY DEF TypeOK, Apply
<1>2. \A i \in DOMAIN rows : rows[i].added \in [Response -> Nat]
  <2>1. \A i \in DOMAIN rows : rows[i] \in UsageTrack
    BY <1>1
  <2>2. QED
    BY <2>1 DEF UsageTrack
<1>3. \A s \in Response : /\ bookings[s] \in Nat /\ bookings'[s] \in Nat
                          /\ bookings'[s] = IF s = r THEN bookings[s] + 1 ELSE bookings[s]
  BY <1>1
<1>4. ASSUME rows' = Update(rows, k, r) PROVE RowsWithinBookings'
  <2> SUFFICES ASSUME NEW s \in Response, NEW i \in DOMAIN rows'
               PROVE  rows'[i].added[s] <= bookings'[s]
    BY DEF RowsWithinBookings
  <2>1. i \in DOMAIN rows /\ rows[i].added[s] <= bookings[s] /\ rows[i].added[s] \in Nat
    BY <1>1, <1>2, <1>4, UpdateType DEF RowsWithinBookings
  <2>2. CASE rows[i].key = k
    <3>1. rows'[i].added = [rows[i].added EXCEPT ![r] = @ + 1]
      BY <1>4, <2>1, <2>2 DEF Update
    <3>2. rows'[i].added[s] = IF s = r THEN rows[i].added[s] + 1 ELSE rows[i].added[s]
      BY <1>2, <2>1, <3>1
    <3>3. QED
      BY <1>3, <2>1, <3>2
  <2>3. CASE rows[i].key # k
    <3>1. rows'[i] = rows[i]
      BY <1>4, <2>1, <2>3 DEF Update
    <3>2. QED
      BY <1>3, <2>1, <3>1
  <2>4. QED
    BY <2>2, <2>3
<1>5. ASSUME rows' = Insert(rows, k, r) PROVE RowsWithinBookings'
  <2> DEFINE row == [key |-> k, added |-> [q \in Response |-> IF q = r THEN 1 ELSE 0]]
             new == Append(rows, row)
  <2>1. row \in UsageTrack /\ \A s \in Response : row.added[s] = IF s = r THEN 1 ELSE 0
    BY DEF UsageTrack
  <2>2. rows' = new
    BY <1>5 DEF Insert
  <2> HIDE DEF row
  <2>3. \A i \in DOMAIN new : (i \in DOMAIN rows /\ new[i] = rows[i]) \/ new[i] = row
    BY <1>1, <2>1
  <2> HIDE DEF new
  <2> SUFFICES ASSUME NEW s \in Response, NEW i \in DOMAIN rows'
               PROVE  rows'[i].added[s] <= bookings'[s]
    BY DEF RowsWithinBookings
  <2>4. CASE i \in DOMAIN rows /\ rows'[i] = rows[i]
    <3>1. rows[i].added[s] <= bookings[s] /\ rows[i].added[s] \in Nat
      BY <1>2, <2>4 DEF RowsWithinBookings
    <3>2. QED
      BY <1>3, <2>4, <3>1
  <2>5. CASE rows'[i] = row
    BY <1>3, <2>1, <2>5
  <2>6. QED
    BY <2>2, <2>3, <2>4, <2>5
<1>6. QED
  BY <1>4, <1>5 DEF Apply

LEMMA RowsWithinStep ==
    ASSUME TypeOK, RowsWithinBookings, [Next]_vars
    PROVE  RowsWithinBookings'
<1> USE DEF dbVars, vars
<1>1. /\ \A q \in Response : KeyFor(q, recDay[q]) \in Key
      /\ \A p \in Run, q \in Response : KeyFor(q, runDay[p]) \in Key
      /\ todo \in [Run -> SUBSET Response]
  BY KeyForType DEF TypeOK
<1>2. ASSUME rows' = rows, bookings' = bookings PROVE RowsWithinBookings'
  BY <1>2 DEF RowsWithinBookings
<1>3. ASSUME NEW r \in Response, UpdateUsage(r) \/ CreateUsage(r) PROVE RowsWithinBookings'
  <2>1. \/ rows' = rows /\ bookings' = bookings
        \/ Apply(Update(rows, KeyFor(r, recDay[r]), r), r)
        \/ Apply(Insert(rows, KeyFor(r, recDay[r]), r), r)
    BY <1>3 DEF UpdateUsage, CreateUsage
  <2>2. QED
    BY <1>1, <1>2, <2>1, ApplyWithin
<1>4. ASSUME NEW p \in Run, ReplayLine(p) PROVE RowsWithinBookings'
  <2>1. PICK r \in todo[p] : ReplayLine(p)!2!(r)
    BY <1>4 DEF ReplayLine
  <2>2. \/ rows' = rows /\ bookings' = bookings
        \/ Apply(Update(rows, KeyFor(r, runDay[p]), r), r)
    BY <2>1
  <2>3. QED
    BY <1>1, <1>2, <2>2, ApplyWithin
<1>5. ASSUME \/ \E r \in Response : recordUsage(r) \/ BeginAttempt(r) \/ writeUsageDeadLetter(r)
             \/ \E p \in Run : ReadLog(p) \/ NextLine(p) \/ TruncateLog(p) \/ RewriteLog(p)
             \/ Crash \/ Midnight \/ DbDown \/ DbUp \/ UNCHANGED vars
      PROVE  rows' = rows /\ bookings' = bookings
  BY <1>5 DEF recordUsage, BeginAttempt, writeUsageDeadLetter, ReadLog, NextLine, TruncateLog,
              RewriteLog, Crash, Die, Midnight, DbDown, DbUp
<1>6. QED
  BY <1>2, <1>3, <1>4, <1>5 DEF Next, Recorder, Reprocess

LEMMA BillInit == Init => BillInv /\ Ledger!Init
<1> SUFFICES ASSUME Init PROVE BillInv /\ Ledger!Init
  OBVIOUS
<1>1. \A s \in Response : Claims(s) = 0
  <2> SUFFICES ASSUME NEW s \in Response PROVE Claims(s) = 0
    OBVIOUS
  <2>1. s \notin InFlight /\ Holding(s) = {} /\ s \notin log
    BY DEF Init, InFlight, Holding, Active
  <2>2. One(s \in InFlight) = 0 /\ InLog(s) = 0 /\ Cardinality(Holding(s)) = 0
    BY <2>1, FS_EmptySet DEF One, InLog
  <2>3. QED
    BY <2>2 DEF Claims, InLog
<1>2. LinesApart /\ IdleUnknown
  BY DEF Init, LinesApart, IdleUnknown
<1>3. WithinMishaps /\ RowsWithinBookings
  BY <1>1 DEF Init, WithinMishaps, RowsWithinBookings
<1>4. Ledger!Init
  BY <1>1 DEF Init, Ledger!Init
<1>5. QED
  BY <1>2, <1>3, <1>4 DEF BillInv

LEMMA BillStep ==
    ASSUME TypeOK, TypeOK', BillInv, [Next]_vars
    PROVE  BillInv' /\ [Ledger!Next]_(Ledger!ledger)
<1>1. [Ledger!Next]_(Ledger!ledger)
  BY LedgerStep DEF BillInv
<1>2. WithinMishaps'
  BY <1>1, LedgerBounds DEF BillInv
<1>3. QED
  BY <1>1, <1>2, LinesStep, UnknownStep, RowsWithinStep DEF BillInv

\* The recorder with its retries, dead letters, replays, faults and crashes keeps the ledger,
\* whatever overlaps: each statement uses up the claim it was sent for unless a mishap, counted
\* once, renews it.
THEOREM KeepsTheLedger == Spec => ImplementsLedger
<1>1. TypeOK /\ TypeOK' /\ BillInv /\ [Next]_vars => BillInv' /\ [Ledger!Next]_(Ledger!ledger)
  BY BillStep
<1>2. QED
  BY <1>1, BillInit, TypeCorrect, PTL DEF Spec, ImplementsLedger, Ledger!Spec

\* No interleaving books a response more often than mishaps explain, and no row counts it more
\* often than it was booked.
THEOREM BillingIsBounded == Spec => []BilledOncePerMishap
<1>1. TypeOK /\ TypeOK' /\ BillInv /\ [Next]_vars => BillInv'
  BY BillStep
<1>2. TypeOK /\ BillInv => BilledOncePerMishap
  <2> SUFFICES ASSUME TypeOK, BillInv, NEW r \in Response
               PROVE  /\ bookings[r] <= 1 + faults + overlaps
                      /\ \A i \in DOMAIN rows : rows[i].added[r] <= bookings[r]
    BY DEF BilledOncePerMishap
  <2>1. bookings[r] \in Nat /\ faults \in Nat /\ overlaps \in Nat
    BY DEF TypeOK
  <2>2. bookings[r] + Claims(r) <= 1 + faults + overlaps /\ Claims(r) \in Nat
    BY ClaimsTyped DEF BillInv, WithinMishaps
  <2>3. bookings[r] <= 1 + faults + overlaps
    BY <2>1, <2>2
  <2>4. QED
    BY <2>3 DEF BillInv, RowsWithinBookings
<1>3. QED
  BY <1>1, <1>2, BillInit, TypeCorrect, PTL DEF Spec
-------------------------------------------------------------------------------
(* What RecorderTerminates rests on besides fairness.                      *)

\* The steps a recorder has before it at most: the date, an UPDATE and an INSERT for each
\* attempt still to make, and the dead letter.
Left(r) ==
    CASE pc[r] = "idle"       -> 3 * maxAttempts + 2
      [] pc[r] = "start"      -> 3 * (maxAttempts - attempt[r]) + 1
      [] pc[r] = "update"     -> 3 * (maxAttempts - attempt[r])
      [] pc[r] = "insert"     -> 3 * (maxAttempts - attempt[r]) - 1
      [] pc[r] = "deadletter" -> 1
      [] OTHER                -> 0

LEMMA LeftIs ==
    ASSUME TypeOK, NEW r \in Response
    PROVE  /\ Left(r) \in 0 .. 3 * maxAttempts + 2
           /\ r \in InFlight => Left(r) > 0
<1>1. attempt[r] \in 0 .. maxAttempts - 1 /\ maxAttempts \in Nat \ {0}
  BY ConstantsOK DEF TypeOK
<1>2. QED
  BY <1>1 DEF Left, InFlight

\* A recorder's own steps bring it nearer to its end.
LEMMA OwnStepNearer ==
    ASSUME TypeOK, TypeOK', NEW r \in Response, recordUsage(r) \/ Recorder(r)
    PROVE  Left(r)' < Left(r)
<1>1. /\ pc \in [Response -> {"idle", "start", "update", "insert", "deadletter",
                              "recorded", "dead", "lost", "crashed"}]
      /\ attempt \in [Response -> 0 .. maxAttempts - 1] /\ maxAttempts \in Nat \ {0}
  BY ConstantsOK DEF TypeOK
<1>2. ASSUME NextAttempt(r), pc[r] \in {"update", "insert"}
      PROVE  Left(r)' < Left(r)
  <2>1. CASE pc' = [pc EXCEPT ![r] = "deadletter"] /\ attempt' = attempt
    BY <1>1, <1>2, <2>1 DEF Left
  <2>2. CASE /\ pc' = [pc EXCEPT ![r] = "start"]
             /\ attempt' = [attempt EXCEPT ![r] = @ + 1]
    BY <1>1, <1>2, <2>2 DEF Left
  <2>3. QED
    BY <1>2, <2>1, <2>2 DEF NextAttempt
<1>3. CASE recordUsage(r)
  BY <1>1, <1>3 DEF Left, recordUsage
<1>4. CASE BeginAttempt(r)
  BY <1>1, <1>4 DEF Left, BeginAttempt
<1>5. CASE UpdateUsage(r)
  <2>1. \/ NextAttempt(r)
        \/ pc' = [pc EXCEPT ![r] = "recorded"]
        \/ pc' = [pc EXCEPT ![r] = "insert"] /\ attempt' = attempt
    BY <1>5 DEF UpdateUsage
  <2>2. pc[r] = "update"
    BY <1>5 DEF UpdateUsage
  <2>3. QED
    BY <1>1, <1>2, <2>1, <2>2 DEF Left
<1>6. CASE CreateUsage(r)
  <2>1. NextAttempt(r) \/ pc' = [pc EXCEPT ![r] = "recorded"]
    BY <1>6 DEF CreateUsage
  <2>2. pc[r] = "insert"
    BY <1>6 DEF CreateUsage
  <2>3. QED
    BY <1>1, <1>2, <2>1, <2>2 DEF Left
<1>7. CASE writeUsageDeadLetter(r)
  <2>1. \/ pc' = [pc EXCEPT ![r] = "dead"]
        \/ pc' = [pc EXCEPT ![r] = "lost"]
    BY <1>7 DEF writeUsageDeadLetter
  <2>2. pc[r] = "deadletter"
    BY <1>7 DEF writeUsageDeadLetter
  <2>3. QED
    BY <1>1, <2>1, <2>2 DEF Left
<1>8. QED
  BY <1>3, <1>4, <1>5, <1>6, <1>7 DEF Recorder

\* Nobody else takes it further away: other recorders leave it alone, and a crash ends it.
LEMMA OtherStepNoFurther ==
    ASSUME TypeOK, TypeOK', [Next]_vars, NEW r \in Response, ~(recordUsage(r) \/ Recorder(r))
    PROVE  Left(r)' <= Left(r)
<1>1. /\ pc \in [Response -> {"idle", "start", "update", "insert", "deadletter",
                              "recorded", "dead", "lost", "crashed"}]
      /\ attempt \in [Response -> 0 .. maxAttempts - 1]
  BY DEF TypeOK
<1>2. ASSUME pc'[r] = pc[r], attempt'[r] = attempt[r]
      PROVE  Left(r)' <= Left(r)
  <2>1. Left(r)' = Left(r)
    BY <1>2 DEF Left
  <2>2. QED
    BY <2>1, LeftIs, ConstantsOK
<1>3. ASSUME NEW s \in Response, s # r, recordUsage(s) \/ Recorder(s)
      PROVE  pc'[r] = pc[r] /\ attempt'[r] = attempt[r]
  BY <1>1, <1>3 DEF recordUsage, Recorder, BeginAttempt, UpdateUsage, CreateUsage,
                    writeUsageDeadLetter, NextAttempt
<1>4. ASSUME \/ \E p \in Run : Reprocess(p)
             \/ Midnight \/ DbDown \/ DbUp \/ UNCHANGED vars
      PROVE  pc' = pc /\ attempt' = attempt
  BY <1>4 DEF Reprocess, ReadLog, NextLine, ReplayLine, TruncateLog, RewriteLog, Midnight,
              DbDown, DbUp, vars, recVars
<1>5. CASE Crash
  <2>1. attempt' = attempt /\ (pc'[r] = pc[r] \/ pc'[r] = "crashed")
    BY <1>1, <1>5 DEF Crash, Die
  <2>2. pc'[r] = "crashed" => Left(r)' = 0
    BY DEF Left
  <2>3. QED
    BY <1>2, <2>1, <2>2, LeftIs, ConstantsOK
<1>6. QED
  BY <1>2, <1>3, <1>4, <1>5 DEF Next

\* Whatever the database answers, a recorder comes to an end after 3 * maxAttempts + 2 steps
\* at most: each of its steps leaves it fewer, and no other step gives it more.
THEOREM RecordersWindDown ==
    Spec => /\ [](\A r \in Response :
                     /\ Left(r) \in 0 .. 3 * maxAttempts + 2
                     /\ Left(r) = 0 => r \notin InFlight)
            /\ [][\A r \in Response :
                     /\ Left(r)' <= Left(r)
                     /\ recordUsage(r) \/ Recorder(r) => Left(r)' < Left(r)]_vars
<1> DEFINE Bounded == \A r \in Response : /\ Left(r) \in 0 .. 3 * maxAttempts + 2
                                          /\ Left(r) = 0 => r \notin InFlight
           Nearer  == \A r \in Response :
                        /\ Left(r)' <= Left(r)
                        /\ recordUsage(r) \/ Recorder(r) => Left(r)' < Left(r)
<1>1. TypeOK => Bounded
  <2> SUFFICES ASSUME TypeOK, NEW r \in Response
               PROVE  /\ Left(r) \in 0 .. 3 * maxAttempts + 2
                      /\ Left(r) = 0 => r \notin InFlight
    OBVIOUS
  <2>1. Left(r) \in 0 .. 3 * maxAttempts + 2 /\ (r \in InFlight => Left(r) > 0)
    BY LeftIs
  <2>2. QED
    BY <2>1, ConstantsOK
<1>2. TypeOK /\ TypeOK' /\ [Next]_vars => [Nearer]_vars
  <2> SUFFICES ASSUME TypeOK, TypeOK', [Next]_vars, NEW r \in Response
               PROVE  /\ Left(r)' <= Left(r)
                      /\ recordUsage(r) \/ Recorder(r) => Left(r)' < Left(r)
    OBVIOUS
  <2>1. Left(r)' \in Int /\ Left(r) \in Int
    <3>1. Left(r) \in Int
      BY LeftIs, ConstantsOK
    <3>2. attempt'[r] \in Int /\ maxAttempts \in Int
      BY ConstantsOK DEF TypeOK
    <3>3. Left(r)' \in Int
      BY <3>2 DEF Left
    <3>4. QED
      BY <3>1, <3>3
  <2>2. QED
    BY <2>1, OwnStepNearer, OtherStepNoFurther
<1>3. QED
  BY <1>1, <1>2, TypeCorrect, PTL DEF Spec
===============================================================================
