------------------------------- MODULE TaskQueue -------------------------------
(***************************************************************************)
(* pkg/queue/queue.go and the handlers in front of it: a task queue kept   *)
(* in Redis lists, and the worker pool that NewServer starts.              *)
(*                                                                         *)
(* A Redis key and a queue name are the sequences of their parts between   *)
(* colons: queueKey("default") is <<"queue", "default">>.  Redis outlives  *)
(* the gateway; what a worker holds does not.                              *)
(***************************************************************************)
EXTENDS Naturals, Sequences, FiniteSets, SequencesExt

CONSTANTS Part,          \* what stands between the colons of a name
          Worker,        \* the goroutines of the pool
          DefaultQueue,  \* config.DefaultQueue, <<"default">> in NewServer
          QueueNames,    \* names clients put in a request; <<>> when they name none
          JobType,       \* job types clients send
          Handled,       \* job types with a registered handler
          Chaining,      \* job types whose handler enqueues a usage_tracking job
          MaxSends,      \* 4: how often the Redis client sends one command at most
          MaxJobs,       \* bound: jobs ever enqueued
          MaxFaults      \* bound: crashes, and commands that fail or whose answer is lost

ASSUME QueueConstantsOK ==
    /\ "queue" \in Part
    /\ DefaultQueue \in Seq(Part) /\ QueueNames \subseteq Seq(Part)
    /\ Chaining \subseteq Handled /\ JobType \subseteq STRING
    /\ MaxSends \in Nat \ {0} /\ MaxJobs \in Nat /\ MaxFaults \in Nat

VARIABLES jobs,     \* the jobs ever enqueued, a job's id is its index
          lists,    \* Redis lists: key -> sequence of job ids
          records,  \* Redis strings written under jobKey: job id -> status
          running,  \* Worker.running
          closed,   \* the Redis client has been closed by Shutdown
          wpc,      \* where each worker is
          holds,    \* the job id each worker popped, 0 for none
          results,  \* history: job id -> what its handler returned, each time it ran
          gone,     \* history: job ids popped by a process that lost them
          popsAfterStop, \* history: jobs this process took after Stop
          faults

redisVars  == <<jobs, lists, records>>
workerVars == <<wpc, holds>>
histVars   == <<results, gone, popsAfterStop>>
vars == <<redisVars, running, closed, workerVars, histVars, faults>>

\* normalizeQueue, queueKey.
normalizeQueue(name) == IF name = <<>> THEN DefaultQueue ELSE name
queueKey(name) == <<"queue">> \o name

Keys == {queueKey(normalizeQueue(name)) : name \in QueueNames \cup {<<>>}}
        \cup {normalizeQueue(<<>>)}

Init ==
    /\ jobs = <<>> /\ records = <<>>
    /\ lists = [k \in Keys |-> <<>>]
    /\ running = TRUE /\ closed = FALSE
    /\ wpc = [w \in Worker |-> "check"] /\ holds = [w \in Worker |-> 0]
    /\ results = <<>> /\ gone = {} /\ popsAfterStop = 0 /\ faults = 0

Goto(w, label) == wpc' = [wpc EXCEPT ![w] = label]
-------------------------------------------------------------------------------
\* Mutation of Push: the command sent again carries a new job id.
PushNewId(name, type) ==
    LET id == Len(jobs) + 1
        q  == normalizeQueue(name)
    IN /\ jobs' = Append(jobs, [type |-> type, queue |-> q, sent |-> 2])
       /\ lists' = [lists EXCEPT ![queueKey(q)] = @ \o <<id, id + 1>>]
       /\ UNCHANGED faults

\* TaskQueue.Enqueue: RPUSH of a new job; nothing is stored under its jobKey.  The
\* Redis client sends the command again each time its answer is lost, so the same
\* job may be pushed several times.
Push(name, type) ==
    LET id == Len(jobs) + 1
        q  == normalizeQueue(name)
    IN \E copies \in 1 .. MaxSends :
          /\ faults' = faults + copies - 1 /\ faults' <= MaxFaults
          /\ jobs' = Append(jobs, [type |-> type, queue |-> q, sent |-> copies])
          /\ lists' = [lists EXCEPT ![queueKey(q)] = @ \o [i \in 1 .. copies |-> id]]

\* POST /v1/queue/enqueue.
Enqueue(name, type) ==
    /\ ~closed /\ Len(jobs) < MaxJobs
    /\ Push(name, type)
    /\ UNCHANGED <<records, running, closed, workerVars, histVars>>

\* Mutation of CheckRunning: a worker never looks.
CheckNothing(w) ==
    /\ wpc[w] = "check" /\ Goto(w, "pop")
    /\ UNCHANGED <<redisVars, running, closed, holds, histVars, faults>>

\* The worker's loop looks at `running` first.
CheckRunning(w) ==
    /\ wpc[w] = "check"
    /\ Goto(w, IF running THEN "pop" ELSE "exited")
    /\ UNCHANGED <<redisVars, running, closed, holds, histVars, faults>>

\* Mutation of Dequeue: the job is read and stays on the list.
DequeuePeeking(w) ==
    /\ wpc[w] = "pop" /\ ~closed
    /\ LET key == normalizeQueue(<<>>) IN
       /\ lists[key] # <<>>
       /\ holds' = [holds EXCEPT ![w] = Last(lists[key])]
    /\ popsAfterStop' = IF running THEN popsAfterStop ELSE popsAfterStop + 1
    /\ Goto(w, "dispatch")
    /\ UNCHANGED <<redisVars, running, closed, results, gone, faults>>

\* Dequeue(""): BRPOP of the list named by normalizeQueue, from the end RPUSH fills.
\* A popped job whose answer is lost is gone; the client may send BRPOP again.
Dequeue(w) ==
    /\ wpc[w] = "pop" /\ ~closed
    /\ LET key == normalizeQueue(<<>>) IN
       /\ lists[key] # <<>>
       /\ lists' = [lists EXCEPT ![key] = Front(@)]
       /\ \/ /\ holds' = [holds EXCEPT ![w] = Last(lists[key])]
             /\ popsAfterStop' = IF running THEN popsAfterStop ELSE popsAfterStop + 1
             /\ Goto(w, "dispatch") /\ UNCHANGED <<gone, faults>>
          \/ /\ faults < MaxFaults /\ faults' = faults + 1
             /\ gone' = gone \cup {Last(lists[key])}
             /\ Goto(w, "check") \/ Goto(w, "pop")
             /\ UNCHANGED <<holds, popsAfterStop>>
    /\ UNCHANGED <<jobs, records, running, closed, results>>

\* BRPOP fails: the client is closed, the list stayed empty until the timeout, or
\* Redis did not answer although jobs wait on the list.
PopFails == \/ closed /\ UNCHANGED faults
            \/ lists[normalizeQueue(<<>>)] = <<>> /\ UNCHANGED faults
            \/ faults < MaxFaults /\ faults' = faults + 1

\* Mutation of DequeueError: the error ends the worker.
DequeueErrorExits(w) ==
    /\ wpc[w] = "pop" /\ PopFails /\ Goto(w, "exited")
    /\ UNCHANGED <<redisVars, running, closed, holds, histVars>>

\* The error sends the worker round its loop.
DequeueError(w) ==
    /\ wpc[w] = "pop" /\ PopFails /\ Goto(w, "check")
    /\ UNCHANGED <<redisVars, running, closed, holds, histVars>>

\* A job type without a handler goes to Fail; Start rewrites the job's record if
\* there is one.
Dispatch(w) ==
    /\ wpc[w] = "dispatch"
    /\ IF jobs[holds[w]].type \in Handled
       THEN /\ records' = [i \in DOMAIN records |->
                              IF i = holds[w] /\ ~closed THEN "running" ELSE records[i]]
            /\ Goto(w, "handle")
       ELSE Goto(w, "fail") /\ UNCHANGED records
    /\ UNCHANGED <<jobs, lists, running, closed, holds, histVars, faults>>

\* handler.Handle: some handlers enqueue a job for the default queue themselves.
Handle(w) ==
    /\ wpc[w] = "handle"
    /\ \E ok \in BOOLEAN :
         /\ Goto(w, IF ok THEN "complete" ELSE "fail")
         /\ results' = [i \in (DOMAIN results) \cup {holds[w]} |->
                           IF i \in DOMAIN results
                           THEN IF i = holds[w] THEN Append(results[i], ok) ELSE results[i]
                           ELSE <<ok>>]
         /\ IF ok /\ jobs[holds[w]].type \in Chaining /\ ~closed /\ Len(jobs) < MaxJobs
            THEN Push(<<>>, "usage_tracking")
            ELSE UNCHANGED <<jobs, lists, faults>>
    /\ UNCHANGED <<records, running, closed, holds, gone, popsAfterStop>>

Release(w) == Goto(w, "check") /\ holds' = [holds EXCEPT ![w] = 0]

\* Complete: DEL of the job's record.
Complete(w) ==
    /\ wpc[w] = "complete" /\ Release(w)
    /\ records' = [i \in (DOMAIN records) \ (IF closed THEN {} ELSE {holds[w]}) |-> records[i]]
    /\ UNCHANGED <<jobs, lists, running, closed, histVars, faults>>

Lose == gone' = gone \cup ({holds[w] : w \in Worker} \ {0})

\* Every worker starts over in a new process.
Restart ==
    /\ Lose
    /\ wpc' = [w \in Worker |-> "check"] /\ holds' = [w \in Worker |-> 0]
    /\ running' = TRUE /\ closed' = FALSE /\ popsAfterStop' = 0
    /\ UNCHANGED <<redisVars, results>>

\* Fail: without a record Get's error is returned; with one, its nil error has
\* replaced the argument and err.Error() panics, which ends the process.
Fail(w) ==
    /\ wpc[w] = "fail"
    /\ IF holds[w] \in DOMAIN records /\ ~closed
       THEN Restart /\ UNCHANGED faults
       ELSE /\ Release(w)
            /\ UNCHANGED <<redisVars, running, closed, histVars, faults>>

Work(w) == \/ CheckRunning(w) \/ Dequeue(w) \/ DequeueError(w) \/ Dispatch(w)
           \/ Handle(w) \/ Complete(w) \/ Fail(w)
-------------------------------------------------------------------------------
\* Server.Shutdown: Worker.Stop, then queue.Close while workers may still run.
Stop ==
    /\ running /\ running' = FALSE
    /\ UNCHANGED <<redisVars, closed, workerVars, histVars, faults>>

Close ==
    /\ ~running /\ ~closed /\ closed' = TRUE
    /\ UNCHANGED <<redisVars, running, workerVars, histVars, faults>>

\* The process ends, by Shutdown or a crash, and is started again.
Crash ==
    /\ faults < MaxFaults /\ faults' = faults + 1
    /\ Restart

Next ==
    \/ \E name \in QueueNames, type \in JobType : Enqueue(name, type)
    \/ \E w \in Worker : Work(w)
    \/ Stop \/ Close \/ Crash

Spec == Init /\ [][Next]_vars

\* Goroutines run; nothing obliges clients or operators to act.
FairSpec == Spec /\ \A w \in Worker : WF_vars(Work(w))
-------------------------------------------------------------------------------
(* Properties.                                                             *)

\* Lists hold job ids, workers at most one each.
TypeOK ==
    /\ jobs \in Seq([type : JobType \cup {"usage_tracking"}, queue : Seq(Part),
                     sent : 1 .. MaxSends])
    /\ lists \in [Keys -> Seq(1 .. Len(jobs))]
    /\ DOMAIN records \subseteq 1 .. Len(jobs)
    /\ running \in BOOLEAN /\ closed \in BOOLEAN
    /\ wpc \in [Worker -> {"check", "pop", "dispatch", "handle", "complete", "fail", "exited"}]
    /\ holds \in [Worker -> 0 .. Len(jobs)]
    /\ DOMAIN results \subseteq 1 .. Len(jobs) /\ gone \subseteq 1 .. Len(jobs)
    /\ popsAfterStop \in Nat /\ faults \in Nat

Listed(id) == Cardinality({e \in Keys \X (1 .. MaxSends * MaxJobs) :
                              e[2] \in DOMAIN lists[e[1]] /\ lists[e[1]][e[2]] = id})

Runs(id) == IF id \in DOMAIN results THEN Len(results[id]) ELSE 0

\* A job never runs more often than it was pushed, counting the runs still to come:
\* the atomic pop hands each copy to one worker, whatever crashes.
HandledAtMostOnce ==
    \A id \in 1 .. Len(jobs) :
        Runs(id) + Listed(id)
          + Cardinality({w \in Worker : holds[w] = id /\ wpc[w] \in {"dispatch", "handle"}})
        <= jobs[id].sent

\* The pool's name is no key queueKey makes, as in NewServer's configuration.
PoolReadsAnotherKey == DefaultQueue = <<>> \/ DefaultQueue[1] # "queue"

\* Then no worker ever takes a job: Dequeue pops the bare name, Enqueue pushes to
\* the prefixed one.
ServerPoolIdle == PoolReadsAnotherKey => \A w \in Worker : holds[w] = 0

\* Workers that were past the check when Stop came take one more job each, no more.
StopIsPrompt == popsAfterStop <= Cardinality(Worker)

\* A worker pool whose default name is the key clients push to drains that list, as
\* often as Redis fails its workers before.
DefaultListDrains ==
    []<>(~running \/ lists[normalizeQueue(<<>>)] = <<>>)

\* "Jobs are processed asynchronously by worker pools" (openapi.yaml).
JobsAreProcessed ==
    \A id \in 1 .. MaxJobs :
        id \in 1 .. Len(jobs) ~> (~running \/ id \in DOMAIN results \/ id \in gone)
===============================================================================
