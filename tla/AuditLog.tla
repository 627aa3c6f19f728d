-------------------------------- MODULE AuditLog --------------------------------
(***************************************************************************)
(* middleware/audit/audit.go: requests that carry an admin action end in   *)
(* Save on the file store, a bounded channel in front of one writer        *)
(* goroutine that collects events and appends them to a file.              *)
(*                                                                         *)
(* An event is the request it is about.  What a failed write left of its   *)
(* bytes in the file is not counted as written.                            *)
(***************************************************************************)
EXTENDS Naturals, Sequences, FiniteSets, SequencesExt

CONSTANTS Request,
          Audited,     \* requests whose action ShouldAudit lists
          BufferSize,  \* capacity of the channel, and the writer's batch
          MaxFaults    \* bound: failed opens, failed writes and crashes

ASSUME AuditConstantsOK ==
    /\ Audited \subseteq Request
    /\ BufferSize \in Nat \ {0} /\ MaxFaults \in Nat

VARIABLES step,      \* where each request is
          buffer,    \* the channel f.buffer
          open,      \* it has not been closed
          done,      \* f.done has been closed by Close
          pending,   \* the writer's own buffer
          writer,    \* where the writer is
          file,      \* the events in the audit file
          accepted,  \* history: events Save returned nil for, in order
          dropped,   \* history: of those, the ones a failed write or a crash took
          failed,    \* history: opens of the file that failed in this process
          faults

callVars  == <<step, accepted>>
writeVars == <<pending, file, dropped, failed, faults>>
vars == <<callVars, buffer, open, done, writer, writeVars>>

Init ==
    /\ step = [r \in Request |-> "serving"]
    /\ buffer = <<>> /\ open = TRUE /\ done = FALSE
    /\ pending = <<>> /\ writer = "select"
    /\ file = <<>> /\ accepted = <<>> /\ dropped = {}
    /\ failed = 0 /\ faults = 0

Move(r, label) == step' = [step EXCEPT ![r] = label]
-------------------------------------------------------------------------------
(* Middleware and Save.                                                    *)

\* ctx.Next has run the handler.  A panic of the handler passes the middleware by,
\* so does an action nobody set or ShouldAudit does not know.
Served(r) ==
    /\ step[r] = "serving"
    /\ (Move(r, "unaudited") \/ (r \in Audited /\ Move(r, "save")))
    /\ UNCHANGED <<accepted, buffer, open, done, writer, writeVars>>

HasRoom == open /\ Len(buffer) < BufferSize

\* Mutation of Send: a slice in the place of the channel.
SendUnbounded(r) ==
    /\ step[r] \in {"save", "wait"} /\ open
    /\ buffer' = Append(buffer, r)
    /\ accepted' = Append(accepted, r) /\ Move(r, "saved")
    /\ UNCHANGED <<open, done, writer, writeVars>>

Send(r) ==
    /\ step[r] \in {"save", "wait"} /\ HasRoom
    /\ buffer' = Append(buffer, r)
    /\ accepted' = Append(accepted, r) /\ Move(r, "saved")
    /\ UNCHANGED <<open, done, writer, writeVars>>

Block(r) ==
    /\ step[r] = "save" /\ open /\ ~HasRoom /\ Move(r, "wait")
    /\ UNCHANGED <<accepted, buffer, open, done, writer, writeVars>>

\* time.After(5 * time.Second) may be picked even if there is room by then.
GiveUp(r) ==
    /\ step[r] = "wait" /\ Move(r, "refused")
    /\ UNCHANGED <<accepted, buffer, open, done, writer, writeVars>>

\* A send on the closed channel, waiting or not.
Panic(r) ==
    /\ step[r] \in {"save", "wait"} /\ ~open /\ Move(r, "panicked")
    /\ UNCHANGED <<accepted, buffer, open, done, writer, writeVars>>

Save(r) == Send(r) \/ Block(r) \/ GiveUp(r) \/ Panic(r)
-------------------------------------------------------------------------------
(* writeLoop.                                                              *)

Fault == faults < MaxFaults /\ faults' = faults + 1

\* Mutation of write: the batch is not emptied after it was written.
writeKeeping(batch) ==
    \/ /\ file' = file \o batch /\ pending' = batch
       /\ UNCHANGED <<dropped, failed, faults>>
    \/ /\ batch # <<>> /\ Fault /\ pending' = batch
       /\ failed' = failed + 1 /\ UNCHANGED <<file, dropped>>

\* An empty batch is not written; events that cannot be encoded or a file that
\* cannot be opened leave the batch for the next time; a write that fails takes it along.
write(batch) ==
    \/ /\ file' = file \o batch /\ pending' = <<>>
       /\ UNCHANGED <<dropped, failed, faults>>
    \/ /\ batch # <<>> /\ Fault /\ pending' = batch
       /\ failed' = failed + 1 /\ UNCHANGED <<file, dropped>>
    \/ /\ batch # <<>> /\ Fault /\ pending' = <<>>
       /\ dropped' = dropped \cup Range(batch) /\ UNCHANGED <<file, failed>>

\* Mutation of Receive: a full batch waits for the ticker.
ReceiveOnly ==
    /\ writer = "select" /\ buffer # <<>>
    /\ buffer' = Tail(buffer) /\ pending' = Append(pending, Head(buffer))
    /\ UNCHANGED <<callVars, open, done, writer, file, dropped, failed, faults>>

\* An event; a batch as large as the channel is written at once.
Receive ==
    /\ writer = "select" /\ buffer # <<>>
    /\ buffer' = Tail(buffer)
    /\ LET batch == Append(pending, Head(buffer))
       IN IF Len(batch) >= BufferSize
          THEN write(batch)
          ELSE pending' = batch /\ UNCHANGED <<file, dropped, failed, faults>>
    /\ UNCHANGED <<callVars, open, done, writer>>

\* Mutation of Flush: the ticker is stopped.
FlushNever == FALSE /\ UNCHANGED vars

\* The ticker.
Flush ==
    /\ writer = "select" /\ write(pending)
    /\ UNCHANGED <<callVars, buffer, open, done, writer>>

\* Mutation of Finish: the last batch is forgotten.
FinishUnwritten ==
    /\ writer = "select" /\ done /\ writer' = "closing"
    /\ UNCHANGED <<callVars, buffer, open, done, writeVars>>

\* f.done: a last batch is written, what the channel holds is not ...
Finish ==
    /\ writer = "select" /\ done /\ write(pending)
    /\ writer' = "closing"
    /\ UNCHANGED <<callVars, buffer, open, done>>

\* ... and the channel is closed under the feet of those who save.
CloseBuffer ==
    /\ writer = "closing" /\ writer' = "ended" /\ open' = FALSE
    /\ UNCHANGED <<callVars, buffer, done, writeVars>>

writeLoop == Receive \/ Flush \/ Finish \/ CloseBuffer
-------------------------------------------------------------------------------
\* f.done is closed once: a second Close would panic.
Close ==
    /\ ~done /\ done' = TRUE
    /\ UNCHANGED <<callVars, buffer, open, writer, writeVars>>

\* The process dies, and a new one opens the same file with a new store.
Crash ==
    /\ Fault
    /\ step' = [r \in Request |-> IF step[r] \in {"save", "wait"} THEN "crashed" ELSE step[r]]
    /\ dropped' = dropped \cup Range(pending) \cup Range(buffer)
    /\ buffer' = <<>> /\ pending' = <<>> /\ failed' = 0
    /\ open' = TRUE /\ done' = FALSE /\ writer' = "select"
    /\ UNCHANGED <<file, accepted>>

Next ==
    \/ \E r \in Request : Served(r) \/ Save(r)
    \/ writeLoop \/ Close \/ Crash

Spec == Init /\ [][Next]_vars

\* Go's select picks among the ready cases at random, the ticker fires for ever, and
\* every goroutine that can move does.
FairSpec ==
    /\ Spec
    /\ WF_vars(Receive) /\ WF_vars(Flush) /\ WF_vars(Finish) /\ WF_vars(CloseBuffer)
    /\ \A r \in Request : WF_vars(Save(r))
-------------------------------------------------------------------------------
(* Properties.                                                             *)

\* The channel, the batch and the file hold events of audited requests.
TypeOK ==
    /\ step \in [Request -> {"serving", "unaudited", "save", "wait", "saved", "refused",
                             "panicked", "crashed"}]
    /\ {buffer, pending, file, accepted} \subseteq Seq(Audited)
    /\ Len(buffer) <= BufferSize /\ dropped \subseteq Audited
    /\ {open, done} \subseteq BOOLEAN /\ writer \in {"select", "closing", "ended"}
    /\ {failed, faults} \subseteq Nat

\* What is left of the first n elements of s without those in gone.
WithoutUpTo(s, gone) ==
    LET upTo[n \in 0 .. Len(s)] ==
            IF n = 0 THEN <<>>
            ELSE IF s[n] \in gone THEN upTo[n - 1] ELSE Append(upTo[n - 1], s[n])
    IN  upTo

\* s without the elements in gone: SelectSeq, in a form that can be reasoned about.
Without(s, gone) == WithoutUpTo(s, gone)[Len(s)]

\* Whatever the file, the ticker and Close do to each other, an event that Save
\* accepted is in exactly one place, and in the order it was accepted: written, with
\* the writer, in the channel, or taken by a failure that is known.
EachInItsPlace == file \o pending \o buffer = Without(accepted, dropped)

\* Close costs no more than what fits into the channel: with no failure of the
\* file, that is all the file misses once the writer has ended.
CloseLosesAtMostBuffer ==
    writer = "ended" /\ failed = 0 =>
        Len(accepted) - Cardinality(dropped) - Len(file) <= BufferSize

\* The writer's memory does not grow with the traffic, only with the number of
\* times the file could not be opened.
BatchBounded == Len(pending) < BufferSize + failed

\* An accepted event reaches the file, unless a failure or Close gets there first.
AcceptedIsWritten ==
    \A r \in Request :
        step[r] = "saved" ~> r \in Range(file) \/ r \in dropped \/ done
===============================================================================
