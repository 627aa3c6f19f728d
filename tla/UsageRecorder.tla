----------------------------- MODULE UsageRecorder -----------------------------
(***************************************************************************)
(* Usage accounting of internal/handler/helpers.go: recordUsage starts one *)
(* goroutine per response, recordUsageWithRetry tries to UPDATE the day's  *)
(* row and INSERTs one when no row matched, up to maxAttempts times; the   *)
(* last failure appends the record to usage_deadletter.log, and            *)
(* ProcessUsageDeadLetter replays that file.                               *)
(*                                                                         *)
(* Responses here are those recordUsage does not drop at once (a database  *)
(* is configured and TotalTokens # 0).  Lines of the log are the responses *)
(* they describe; their order plays no part.                               *)
(***************************************************************************)
EXTENDS UsageStore, FiniteSets

CONSTANTS TenantOf,       \* the tenant each response is billed to
          ModelOf,        \* the model each response came from
          Run,            \* callers of ProcessUsageDeadLetter
          maxAttempts,    \* attempts of recordUsageWithRetry
          MaxConcurrent,  \* bound: recorders in flight at once
          MaxDay,         \* bound: midnights that pass
          MaxOutages,     \* bound: times the database goes away
          MaxOverlaps,    \* bound: runs that begin while another is active
          MaxFaults,      \* bound: lost acknowledgements, file errors and crashes
          FaultKinds      \* which of those the environment produces

ASSUME ConstantsOK ==
    /\ TenantOf \in [Response -> Tenant]
    /\ ModelOf \in [Response -> Model]
    /\ maxAttempts \in Nat \ {0}
    /\ IsFiniteSet(Run)
    /\ {MaxConcurrent, MaxDay, MaxOutages, MaxOverlaps, MaxFaults} \subseteq Nat
    /\ FaultKinds \subseteq {"lostAck", "fileError", "crash"}

VARIABLES rows,       \* the usage_tracks table
          log,        \* records in usage_deadletter.log
          logExists,  \* the file has been created
          today,      \* the wall clock's date
          dbUp,       \* the database answers
          outages,    \* outages so far (bounded)
          faults,     \* other faults so far (bounded)
          pc,         \* where each response's recorder is
          attempt,    \* its loop counter
          recDay,     \* its local variable `today`
          runPc,      \* where each reprocessing run is
          todo,       \* its lines not yet visited
          kept,       \* its keptLines
          runDay,     \* its local variable `today`
          late,       \* history: records appended while a run was active
          damaged,    \* history: a rewrite was cut short after truncating the log
          bookings,   \* history: statements applied to the table for each response
          overlaps    \* history: runs that began while another was active

dbVars   == <<rows, bookings, today, dbUp, outages>>
recVars  == <<pc, attempt, recDay>>
runVars  == <<runPc, todo, kept, runDay, overlaps>>
fileVars == <<log, logExists, late, damaged>>
vars     == <<dbVars, faults, recVars, runVars, fileVars>>

InFlight == {r \in Response : pc[r] \in {"start", "update", "insert", "deadletter"}}
Active   == {p \in Run : runPc[p] # "idle"}

KeyFor(r, day) == [tenant |-> TenantOf[r], date |-> day, model |-> ModelOf[r]]

Fault(kind) == kind \in FaultKinds /\ faults < MaxFaults /\ faults' = faults + 1

Init ==
    /\ rows = <<>> /\ bookings = [r \in Response |-> 0] /\ overlaps = 0
    /\ today = 0 /\ dbUp = TRUE /\ outages = 0 /\ faults = 0
    /\ log = {} /\ logExists = FALSE /\ late = {} /\ damaged = FALSE
    /\ pc = [r \in Response |-> "idle"]
    /\ attempt = [r \in Response |-> 0]
    /\ recDay = [r \in Response |-> 0]
    /\ runPc = [p \in Run |-> "idle"]
    /\ todo = [p \in Run |-> {}]
    /\ kept = [p \in Run |-> {}]
    /\ runDay = [p \in Run |-> 0]

\* A statement for response r is applied: the table becomes `table`.
Apply(table, r) == rows' = table /\ bookings' = [bookings EXCEPT ![r] = @ + 1]
-------------------------------------------------------------------------------
(* The recorder: recordUsage and recordUsageWithRetry.                     *)

recordUsage(r) ==
    /\ pc[r] = "idle"
    /\ Cardinality(InFlight) < MaxConcurrent
    /\ pc' = [pc EXCEPT ![r] = "start"]
    /\ UNCHANGED <<dbVars, faults, attempt, recDay, runVars, fileVars>>

\* Mutations of NextAttempt: the loop runs once too often; the counter stands still;
\* the statement that failed is sent again, where the code begins with the UPDATE.
NextAttemptOffByOne(r) ==
    IF attempt[r] = maxAttempts
    THEN pc' = [pc EXCEPT ![r] = "deadletter"] /\ UNCHANGED attempt
    ELSE /\ pc' = [pc EXCEPT ![r] = "start"]
         /\ attempt' = [attempt EXCEPT ![r] = @ + 1]

NextAttemptForever(r) == pc' = [pc EXCEPT ![r] = "start"] /\ UNCHANGED attempt

NextAttemptResending(r) ==
    IF attempt[r] = maxAttempts - 1
    THEN pc' = [pc EXCEPT ![r] = "deadletter"] /\ UNCHANGED attempt
    ELSE UNCHANGED pc /\ attempt' = [attempt EXCEPT ![r] = @ + 1]

\* `continue` of the retry loop, or the dead letter after the last attempt.
NextAttempt(r) ==
    IF attempt[r] = maxAttempts - 1
    THEN pc' = [pc EXCEPT ![r] = "deadletter"] /\ UNCHANGED attempt
    ELSE /\ pc' = [pc EXCEPT ![r] = "start"]
         /\ attempt' = [attempt EXCEPT ![r] = @ + 1]

\* The back-off is over, and the attempt takes the date it is now.
BeginAttempt(r) ==
    /\ pc[r] = "start"
    /\ pc' = [pc EXCEPT ![r] = "update"]
    /\ recDay' = [recDay EXCEPT ![r] = today]
    /\ UNCHANGED <<dbVars, faults, attempt, runVars, fileVars>>

\* The UPDATE of one attempt.
UpdateUsage(r) ==
    /\ pc[r] = "update"
    /\ LET key == KeyFor(r, recDay[r]) IN
       \/ /\ dbUp /\ Matching(rows, key) # {}
          /\ Apply(Update(rows, key, r), r)
          /\ \/ pc' = [pc EXCEPT ![r] = "recorded"] /\ UNCHANGED <<attempt, faults>>
             \/ Fault("lostAck") /\ NextAttempt(r)
       \/ /\ dbUp /\ Matching(rows, key) = {}
          /\ pc' = [pc EXCEPT ![r] = "insert"]
          /\ UNCHANGED <<rows, bookings, attempt, faults>>
       \/ ~dbUp /\ NextAttempt(r) /\ UNCHANGED <<rows, bookings, faults>>
    /\ UNCHANGED <<recDay, today, dbUp, outages, runVars, fileVars>>

\* Mutation of CreateUsage: its error is not looked at.
CreateUsageUnchecked(r) ==
    /\ pc[r] = "insert"
    /\ pc' = [pc EXCEPT ![r] = "recorded"]
    /\ IF dbUp THEN Apply(Insert(rows, KeyFor(r, recDay[r]), r), r) ELSE UNCHANGED <<rows, bookings>>
    /\ UNCHANGED <<today, dbUp, outages, faults, attempt, recDay, runVars, fileVars>>

\* The INSERT of the same attempt, after the UPDATE affected no row.
CreateUsage(r) ==
    /\ pc[r] = "insert"
    /\ \/ /\ dbUp
          /\ Apply(Insert(rows, KeyFor(r, recDay[r]), r), r)
          /\ \/ pc' = [pc EXCEPT ![r] = "recorded"] /\ UNCHANGED <<attempt, faults>>
             \/ Fault("lostAck") /\ NextAttempt(r)
       \/ ~dbUp /\ NextAttempt(r) /\ UNCHANGED <<rows, bookings, faults>>
    /\ UNCHANGED <<recDay, today, dbUp, outages, runVars, fileVars>>

\* O_APPEND of one line; an error to open or write is ignored.
writeUsageDeadLetter(r) ==
    /\ pc[r] = "deadletter"
    /\ \/ /\ log' = log \cup {r} /\ logExists' = TRUE
          /\ late' = IF Active # {} THEN late \cup {r} ELSE late
          /\ pc' = [pc EXCEPT ![r] = "dead"]
          /\ UNCHANGED faults
       \/ /\ Fault("fileError")
          /\ pc' = [pc EXCEPT ![r] = "lost"]
          /\ UNCHANGED <<log, logExists, late>>
    /\ UNCHANGED <<dbVars, attempt, recDay, runVars, damaged>>

Recorder(r) ==
    BeginAttempt(r) \/ UpdateUsage(r) \/ CreateUsage(r) \/ writeUsageDeadLetter(r)
-------------------------------------------------------------------------------
(* ProcessUsageDeadLetter.  Nothing keeps two runs apart.                  *)

\* os.ReadFile: the run works on what the log holds now.
ReadLog(p) ==
    /\ runPc[p] = "idle" /\ logExists
    /\ runPc' = [runPc EXCEPT ![p] = "lines"]
    /\ todo' = [todo EXCEPT ![p] = log]
    /\ kept' = [kept EXCEPT ![p] = {}]
    /\ IF Active = {} THEN UNCHANGED overlaps
                      ELSE overlaps < MaxOverlaps /\ overlaps' = overlaps + 1
    /\ UNCHANGED <<dbVars, faults, recVars, runDay, fileVars>>

\* The next line is parsed, and takes the date it is now.
NextLine(p) ==
    /\ runPc[p] = "lines" /\ todo[p] # {}
    /\ runPc' = [runPc EXCEPT ![p] = "replay"]
    /\ runDay' = [runDay EXCEPT ![p] = today]
    /\ UNCHANGED <<dbVars, faults, recVars, todo, kept, overlaps, fileVars>>

\* Mutation of ReplayLine: the line of a booked record is kept.
ReplayLineKeeping(p) ==
    /\ runPc[p] = "replay" /\ runPc' = [runPc EXCEPT ![p] = "lines"]
    /\ \E r \in todo[p] :
         /\ todo' = [todo EXCEPT ![p] = @ \ {r}]
         /\ kept' = [kept EXCEPT ![p] = @ \cup {r}]
         /\ IF dbUp /\ Matching(rows, KeyFor(r, runDay[p])) # {}
            THEN Apply(Update(rows, KeyFor(r, runDay[p]), r), r) ELSE UNCHANGED <<rows, bookings>>
    /\ UNCHANGED <<today, dbUp, outages, faults, recVars, runDay, overlaps, fileVars>>

\* Its UPDATE of the row of that date; without a row, the line is kept.
ReplayLine(p) ==
    /\ runPc[p] = "replay" /\ runPc' = [runPc EXCEPT ![p] = "lines"]
    /\ \E r \in todo[p] :
         /\ todo' = [todo EXCEPT ![p] = @ \ {r}]
         /\ LET key  == KeyFor(r, runDay[p])
                keep == kept' = [kept EXCEPT ![p] = @ \cup {r}]
            IN \/ /\ dbUp /\ Matching(rows, key) # {}
                  /\ Apply(Update(rows, key, r), r)
                  /\ \/ UNCHANGED <<kept, faults>>
                     \/ Fault("lostAck") /\ keep
               \/ /\ dbUp => Matching(rows, key) = {}
                  /\ keep /\ UNCHANGED <<rows, bookings, faults>>
    /\ UNCHANGED <<today, dbUp, outages, recVars, runDay, overlaps, fileVars>>

\* Mutation of TruncateLog: the old lines stay.
AppendToLog(p) ==
    /\ runPc[p] = "lines" /\ todo[p] = {}
    /\ runPc' = [runPc EXCEPT ![p] = "write"]
    /\ UNCHANGED <<dbVars, faults, recVars, todo, kept, runDay, overlaps, fileVars>>

\* os.WriteFile opens with O_TRUNC ...
TruncateLog(p) ==
    /\ runPc[p] = "lines" /\ todo[p] = {}
    /\ \/ /\ log' = {} /\ runPc' = [runPc EXCEPT ![p] = "write"]
          /\ UNCHANGED faults
       \/ /\ Fault("fileError") /\ runPc' = [runPc EXCEPT ![p] = "idle"]
          /\ UNCHANGED log
    /\ UNCHANGED <<dbVars, recVars, todo, kept, runDay, overlaps, logExists, late, damaged>>

\* Mutation of RewriteLog: the log is removed, whatever was kept.
RemoveLog(p) ==
    /\ runPc[p] = "write" /\ runPc' = [runPc EXCEPT ![p] = "idle"]
    /\ log' = {}
    /\ UNCHANGED <<dbVars, faults, recVars, todo, kept, runDay, overlaps, logExists, late, damaged>>

\* ... and writes the kept lines from offset 0, over some or all of what was appended
\* meanwhile.
RewriteLog(p) ==
    /\ runPc[p] = "write"
    /\ runPc' = [runPc EXCEPT ![p] = "idle"]
    /\ \/ /\ \E left \in (IF kept[p] = {} THEN {log} ELSE SUBSET log) : log' = kept[p] \cup left
          /\ UNCHANGED <<faults, damaged>>
       \/ /\ kept[p] # {} /\ Fault("fileError")
          /\ damaged' = TRUE /\ UNCHANGED log
    /\ UNCHANGED <<dbVars, recVars, todo, kept, runDay, overlaps, logExists, late>>

Reprocess(p) ==
    ReadLog(p) \/ NextLine(p) \/ ReplayLine(p) \/ TruncateLog(p) \/ RewriteLog(p)
-------------------------------------------------------------------------------
(* The environment.                                                        *)

\* The process dies and restarts: goroutines and runs are gone, table and file stay.
Die ==
    /\ pc' = [r \in Response |-> IF r \in InFlight THEN "crashed" ELSE pc[r]]
    /\ runPc' = [p \in Run |-> "idle"]
    /\ damaged' = (damaged \/ \E p \in Run : runPc[p] = "write" /\ kept[p] # {})
    /\ UNCHANGED <<dbVars, attempt, recDay, todo, kept, runDay, overlaps, log, logExists, late>>

Crash == Fault("crash") /\ Die

Midnight ==
    /\ today < MaxDay
    /\ today' = today + 1
    /\ UNCHANGED <<rows, bookings, dbUp, outages, faults, recVars, runVars, fileVars>>

DbDown ==
    /\ dbUp /\ outages < MaxOutages
    /\ dbUp' = FALSE /\ outages' = outages + 1
    /\ UNCHANGED <<rows, bookings, today, faults, recVars, runVars, fileVars>>

DbUp ==
    /\ ~dbUp /\ dbUp' = TRUE
    /\ UNCHANGED <<rows, bookings, today, outages, faults, recVars, runVars, fileVars>>

Next ==
    \/ \E r \in Response : recordUsage(r) \/ Recorder(r)
    \/ \E p \in Run : Reprocess(p)
    \/ Crash \/ Midnight \/ DbDown \/ DbUp

Spec == Init /\ [][Next]_vars

\* The Go scheduler runs every goroutine that can move; nothing is assumed of
\* the database, the clock or the traffic.
FairSpec == /\ Spec
            /\ \A r \in Response : WF_vars(Recorder(r))
            /\ \A p \in Run : WF_vars(Reprocess(p))

\* README.md advises a periodic run; here the database also comes back.
RecoverySpec == FairSpec /\ WF_vars(DbUp)
-------------------------------------------------------------------------------
(* Properties.                                                             *)

\* The variables keep the types of the Go variables, rows and files they stand for.
TypeOK ==
    /\ rows \in Seq(UsageTrack) /\ bookings \in [Response -> Nat]
    /\ log \subseteq Response /\ logExists \in BOOLEAN
    /\ late \subseteq Response /\ damaged \in BOOLEAN /\ overlaps \in Nat
    /\ today \in Nat /\ dbUp \in BOOLEAN /\ outages \in Nat /\ faults \in Nat
    /\ pc \in [Response -> {"idle", "start", "update", "insert", "deadletter",
                            "recorded", "dead", "lost", "crashed"}]
    /\ attempt \in [Response -> 0 .. maxAttempts - 1]
    /\ recDay \in [Response -> Nat]
    /\ runPc \in [Run -> {"idle", "lines", "replay", "write"}]
    /\ todo \in [Run -> SUBSET Response]
    /\ kept \in [Run -> SUBSET Response]
    /\ runDay \in [Run -> Nat]

\* A recorder that returned without a dead letter has its tokens in the table.
RecordedIsCredited == \A r \in Response : pc[r] = "recorded" => Credited(rows, r)

Rewriting(r) == \E p \in Run : runPc[p] = "write" /\ r \in kept[p]

Recoverable(r) == r \in log \/ Credited(rows, r) \/ Rewriting(r)

\* As long as runs have not overlapped, a dead letter stays in the file until its
\* tokens are in the table, except when it was appended while a run was active or
\* a rewrite was cut short.
DeadLettersKept ==
    overlaps = 0 /\ ~damaged => \A r \in Response \ late : pc[r] = "dead" => Recoverable(r)

\* One row per tenant, date and model: what every reader of the table assumes.
OneRowPerKey == KeysUnique(rows)

\* The race between UPDATE and INSERT adds rows only until the first of them is there:
\* a tenant, date and model never has more rows than recorders run at the same time.
RowsPerKeyBounded ==
    \A i \in DOMAIN rows : Cardinality(Matching(rows, rows[i].key)) <= MaxConcurrent

\* Only a lost acknowledgement, a file error, a crash or a run begun during another
\* can have a response booked again, each at most once; and each booking counts at
\* most once in a row.
BilledOncePerMishap ==
    \A r \in Response :
        /\ bookings[r] <= 1 + faults + overlaps
        /\ \A i \in DOMAIN rows : rows[i].added[r] <= bookings[r]

\* Every recorder stops, whatever the database does.
RecorderTerminates ==
    \A r \in Response : r \in InFlight ~> r \notin InFlight

\* Re-running ProcessUsageDeadLetter eventually books a dead letter.
DeadLetterRecovered ==
    \A r \in Response : pc[r] = "dead" ~> Credited(rows, r)
===============================================================================
