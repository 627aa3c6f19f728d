---------------------------- MODULE TaskQueueProofs ----------------------------
(***************************************************************************)
(* What TLAPS proves of TaskQueue, for every pool, queue name and bound:   *)
(* types, that the pool NewServer configures reads a list nobody pushes    *)
(* to, that Stop is obeyed, and that no copy of a job is handled twice:    *)
(* what is left of the pushed copies is in the lists, with a worker, or    *)
(* handled.                                                                *)
(***************************************************************************)
EXTENDS TaskQueue, SequenceTheorems, FiniteSetTheorems, TLAPS

\* queueKey puts "queue" in front of the name, whatever the name.
LEMMA KeyHasPrefix ==
    ASSUME NEW name \in Seq(Part)
    PROVE  /\ queueKey(name) \in Seq(Part)
           /\ queueKey(name) # <<>>
           /\ queueKey(name)[1] = "queue"
<1> DEFINE head == <<"queue">>
<1>1. head \in Seq(Part) /\ Len(head) = 1 /\ head[1] = "queue"
  BY QueueConstantsOK
<1>2. /\ head \o name \in Seq(Part)
      /\ Len(head \o name) = Len(head) + Len(name)
      /\ \A i \in 1 .. Len(head) + Len(name) :
            (head \o name)[i] = IF i <= Len(head) THEN head[i] ELSE name[i - Len(head)]
  BY <1>1, ConcatProperties, Zenon
<1>3. Len(name) \in Nat
  OBVIOUS
<1>4. queueKey(name) = head \o name
  BY DEF queueKey
<1> HIDE DEF head
<1>5. Len(head \o name) # 0 /\ (head \o name)[1] = "queue"
  BY <1>1, <1>2, <1>3
<1> QED
  BY <1>2, <1>4, <1>5

\* Names a client leaves out are replaced by another sequence of parts.
LEMMA NormalType ==
    ASSUME NEW name \in Seq(Part)
    PROVE  normalizeQueue(name) \in Seq(Part)
BY QueueConstantsOK DEF normalizeQueue

\* A push changes no list but those whose key starts with "queue".
LEMMA PushElsewhere ==
    ASSUME NEW name \in Seq(Part), NEW type, Push(name, type),
           NEW key \in DOMAIN lists, key = <<>> \/ key[1] # "queue"
    PROVE  DOMAIN lists' = DOMAIN lists /\ lists'[key] = lists[key]
<1>1. queueKey(normalizeQueue(name)) # key
  BY NormalType, KeyHasPrefix
<1>2. PICK more : lists' = [lists EXCEPT ![queueKey(normalizeQueue(name))] = more]
  BY DEF Push
<1> QED
  BY <1>1, <1>2
-------------------------------------------------------------------------------
\* Start, Complete and Fail change records that are there; nothing creates one.
NoJobRecord == DOMAIN records = {}

LEMMA RecordsNeverWritten == Spec => []NoJobRecord
<1>1. Init => NoJobRecord
  BY DEF Init, NoJobRecord
<1>2. NoJobRecord /\ [Next]_vars => NoJobRecord'
  <2> SUFFICES ASSUME NoJobRecord, [Next]_vars PROVE DOMAIN records' = {}
    BY DEF NoJobRecord
  <2>1. CASE \E name \in QueueNames, type \in JobType : Enqueue(name, type)
    BY <2>1 DEF Enqueue, NoJobRecord
  <2>2. ASSUME NEW w \in Worker, Work(w) PROVE DOMAIN records' = {}
    <3>1. CASE Dispatch(w)
      BY <3>1 DEF Dispatch, NoJobRecord
    <3>2. CASE Complete(w)
      BY <3>2 DEF Complete, NoJobRecord
    <3>3. CASE CheckRunning(w) \/ Dequeue(w) \/ DequeueError(w) \/ Handle(w) \/ Fail(w)
      BY <3>3 DEF CheckRunning, Dequeue, DequeueError, Handle, Fail, Restart, redisVars,
                  NoJobRecord
    <3> QED
      BY <2>2, <3>1, <3>2, <3>3 DEF Work
  <2>3. CASE Stop \/ Close \/ Crash
    BY <2>3 DEF Stop, Close, Crash, Restart, redisVars, NoJobRecord
  <2>4. CASE UNCHANGED vars
    BY <2>4 DEF vars, redisVars, NoJobRecord
  <2> QED
    BY <2>1, <2>2, <2>3, <2>4 DEF Next
<1> QED
  BY <1>1, <1>2, PTL DEF Spec
-------------------------------------------------------------------------------
\* The list the pool pops from, when its name lacks the prefix.
PoolList == lists[normalizeQueue(<<>>)]

IdleInv == /\ DOMAIN lists = Keys
           /\ PoolReadsAnotherKey => PoolList = <<>> /\ holds = [w \in Worker |-> 0]

\* The pool's list is one of the modelled keys, and no push can reach it.
LEMMA PoolKey ==
    /\ normalizeQueue(<<>>) \in Keys
    /\ normalizeQueue(<<>>) = DefaultQueue
BY DEF Keys, normalizeQueue

\* With a default queue name that is not a key clients push to, as in NewServer, no
\* worker ever takes a job.
THEOREM ServerPoolStarves == Spec => []ServerPoolIdle
<1>1. Init => IdleInv
  BY PoolKey DEF Init, IdleInv, PoolList
<1>2. IdleInv /\ [Next]_vars => IdleInv'
  <2> SUFFICES ASSUME IdleInv, [Next]_vars PROVE IdleInv'
    OBVIOUS
  <2>0. PoolReadsAnotherKey => /\ PoolList = <<>>
                              /\ \A w \in Worker : [holds EXCEPT ![w] = 0] = holds
    BY DEF IdleInv
  <2>1. ASSUME NEW name \in Seq(Part), NEW type, Push(name, type),
               UNCHANGED holds
        PROVE  IdleInv'
    <3>1. DOMAIN lists' = Keys
      BY <2>1 DEF Push, IdleInv
    <3>2. PoolReadsAnotherKey => PoolList' = PoolList
      BY <2>1, PoolKey, PushElsewhere DEF PoolReadsAnotherKey, PoolList, IdleInv
    <3> QED
      BY <2>1, <3>1, <3>2 DEF IdleInv
  <2>2. ASSUME UNCHANGED lists,
               UNCHANGED holds \/ (\E w \in Worker : holds' = [holds EXCEPT ![w] = 0])
                 \/ holds' = [w \in Worker |-> 0]
        PROVE  IdleInv'
    BY <2>2, <2>0 DEF IdleInv, PoolList
  <2>3. CASE \E name \in QueueNames, type \in JobType : Enqueue(name, type)
    BY <2>1, <2>3, QueueConstantsOK DEF Enqueue, workerVars
  <2>4. ASSUME NEW w \in Worker, Work(w) PROVE IdleInv'
    <3>1. CASE Dequeue(w)
      <4>1. ~PoolReadsAnotherKey
        BY <3>1, <2>0 DEF Dequeue, PoolList
      <4> QED
        BY <3>1, <4>1 DEF Dequeue, IdleInv
    <3>2. CASE Handle(w)
      <4>1. CASE Push(<<>>, "usage_tracking")
        <5>1. <<>> \in Seq(Part)
          OBVIOUS
        <5>2. UNCHANGED holds
          BY <3>2 DEF Handle
        <5> QED
          BY <4>1, <5>1, <5>2, <2>1
      <4>2. CASE UNCHANGED lists
        BY <4>2, <3>2, <2>2 DEF Handle
      <4> QED
        BY <3>2, <4>1, <4>2 DEF Handle
    <3>3. CASE CheckRunning(w) \/ DequeueError(w) \/ Dispatch(w) \/ Complete(w) \/ Fail(w)
      BY <3>3, <2>2 DEF CheckRunning, DequeueError, Dispatch, Complete, Fail, Release,
                        Restart, redisVars, workerVars
    <3> QED
      BY <2>4, <3>1, <3>2, <3>3 DEF Work
  <2>5. CASE Stop \/ Close \/ Crash
    BY <2>5, <2>2 DEF Stop, Close, Crash, Restart, redisVars, workerVars
  <2>6. CASE UNCHANGED vars
    BY <2>6, <2>2 DEF vars, redisVars, workerVars
  <2> QED
    BY <2>3, <2>4, <2>5, <2>6 DEF Next
<1>3. IdleInv => ServerPoolIdle
  BY DEF IdleInv, ServerPoolIdle
<1> QED
  BY <1>1, <1>2, <1>3, PTL DEF Spec
-------------------------------------------------------------------------------
\* Workers past the check of `running` that have not taken a job since.
Popping == {w \in Worker : wpc[w] = "pop"}

SwitchOK == running \in BOOLEAN

StopInv ==
    /\ popsAfterStop \in Nat /\ wpc = [w \in Worker |-> wpc[w]]
    /\ running => popsAfterStop = 0
    /\ ~running => popsAfterStop + Cardinality(Popping) <= Cardinality(Worker)

LEMMA StopStep ==
    ASSUME IsFiniteSet(Worker), SwitchOK, StopInv, [Next]_vars
    PROVE  StopInv'
<1> USE DEF SwitchOK, StopInv, Goto
<1>1. /\ IsFiniteSet(Popping) /\ Cardinality(Popping) \in Nat /\ Cardinality(Worker) \in Nat
      /\ Cardinality(Popping) <= Cardinality(Worker)
  BY FS_Subset, FS_CardinalityType DEF Popping
<1>2. ASSUME Popping' \subseteq Popping
      PROVE  Cardinality(Popping)' <= Cardinality(Popping) /\ Cardinality(Popping)' \in Nat
  BY <1>1, <1>2, FS_Subset, FS_CardinalityType
<1>3. ASSUME UNCHANGED <<running, popsAfterStop>>, wpc' = [w \in Worker |-> wpc'[w]],
             ~running => Popping' \subseteq Popping
      PROVE  StopInv'
  BY <1>1, <1>2, <1>3
<1>4. ASSUME Restart PROVE StopInv'
  BY <1>4 DEF Restart
<1>5. CASE \E name \in QueueNames, type \in JobType : Enqueue(name, type)
  BY <1>3, <1>5 DEF Enqueue, workerVars, histVars, Popping
<1>6. ASSUME NEW w \in Worker, CheckRunning(w) PROVE StopInv'
  <2>1. ~running => Popping' \subseteq Popping
    BY <1>6 DEF CheckRunning, Popping
  <2>2. QED
    BY <1>3, <1>6, <2>1 DEF CheckRunning, histVars
<1>7. ASSUME NEW w \in Worker, Dequeue(w) PROVE StopInv'
  <2>1. wpc[w] = "pop" /\ running' = running
    BY <1>7 DEF Dequeue
  <2>2. CASE /\ popsAfterStop' = IF running THEN popsAfterStop ELSE popsAfterStop + 1
             /\ Goto(w, "dispatch")
    <3>1. w \in Popping /\ Popping' = Popping \ {w}
      BY <2>1, <2>2 DEF Popping
    <3>2. Cardinality(Popping)' = Cardinality(Popping) - 1
      BY <1>1, <3>1, FS_RemoveElement
    <3>3. QED
      BY <1>1, <2>1, <2>2, <3>2
  <2>3. CASE UNCHANGED popsAfterStop /\ (Goto(w, "check") \/ Goto(w, "pop"))
    <3>1. Popping' \subseteq Popping
      BY <2>1, <2>3 DEF Popping
    <3>2. QED
      BY <1>3, <2>1, <2>3, <3>1
  <2>4. QED
    BY <1>7, <2>2, <2>3 DEF Dequeue
<1>8. ASSUME NEW w \in Worker,
             DequeueError(w) \/ Dispatch(w) \/ Handle(w) \/ Complete(w)
      PROVE  StopInv'
  <2>1. Popping' \subseteq Popping /\ wpc' = [v \in Worker |-> wpc'[v]]
    BY <1>8 DEF DequeueError, Dispatch, Handle, Complete, Release, Popping
  <2>2. UNCHANGED <<running, popsAfterStop>>
    BY <1>8 DEF DequeueError, Dispatch, Handle, Complete, histVars
  <2>3. QED
    BY <1>3, <2>1, <2>2
<1>9. ASSUME NEW w \in Worker, Fail(w) PROVE StopInv'
  <2>1. CASE Release(w) /\ UNCHANGED <<running, histVars>>
    <3>1. Popping' \subseteq Popping /\ wpc' = [v \in Worker |-> wpc'[v]]
      BY <2>1 DEF Release, Popping
    <3>2. QED
      BY <1>3, <2>1, <3>1 DEF histVars
  <2>2. QED
    BY <1>4, <1>9, <2>1 DEF Fail
<1>10. CASE Stop
  BY <1>1, <1>10 DEF Stop, workerVars, histVars, Popping
<1>11. CASE Close \/ UNCHANGED vars
  BY <1>3, <1>11 DEF Close, vars, workerVars, histVars, Popping
<1>12. CASE Crash
  BY <1>4, <1>12 DEF Crash
<1>13. QED
  BY <1>5, <1>6, <1>7, <1>8, <1>9, <1>10, <1>11, <1>12 DEF Next, Work

LEMMA SwitchHolds == Spec => []SwitchOK
<1>1. Init => SwitchOK
  BY DEF Init, SwitchOK
<1>2. SwitchOK /\ [Next]_vars => SwitchOK'
  BY Zenon DEF SwitchOK, Next, Enqueue, Work, CheckRunning, Dequeue, DequeueError, Dispatch, Handle,
     Complete, Fail, Restart, Stop, Close, Crash, vars
<1>3. QED
  BY <1>1, <1>2, PTL DEF Spec

\* However many workers the pool has, those that looked at `running` before Stop came
\* take no more than a job each, although BRPOP is retried and its answers are lost.
THEOREM StopIsObeyed ==
    ASSUME IsFiniteSet(Worker)
    PROVE  Spec => []StopIsPrompt
<1>1. Init => StopInv
  BY DEF Init, StopInv
<1>2. SwitchOK /\ StopInv /\ [Next]_vars => StopInv'
  BY StopStep
<1>3. SwitchOK /\ StopInv => StopIsPrompt
  BY FS_Subset, FS_CardinalityType DEF SwitchOK, StopInv, StopIsPrompt, Popping
<1>4. QED
  BY <1>1, <1>2, <1>3, SwitchHolds, PTL DEF Spec
-------------------------------------------------------------------------------
(* Every copy of a job is accounted for.                                   *)

\* The block of copies a push adds when there were n jobs before it.
CopiesOf(n, m) == [i \in 1 .. m |-> n + 1]

\* What a sequence of numbers looks like after a push at its end, and after a pop.
Extended(n, s, m, t) ==
    /\ t \in Seq(1 .. n + 1) /\ Len(t) = Len(s) + m
    /\ \A i \in 1 .. Len(s) : t[i] = s[i]
    /\ \A i \in Len(s) + 1 .. Len(s) + m : t[i] = n + 1

LEMMA PushedOften ==
    ASSUME NEW n \in Nat, NEW s \in Seq(1 .. n), NEW m \in Nat
    PROVE  Extended(n, s, m, s \o CopiesOf(n, m))
<1> DEFINE more == CopiesOf(n, m)
           t == s \o more
<1>1. s \in Seq(1 .. n + 1) /\ Len(s) \in Nat
  OBVIOUS
<1>2. more \in Seq(1 .. n + 1) /\ Len(more) = m /\ \A i \in 1 .. m : more[i] = n + 1
  BY DEF CopiesOf
<1> HIDE DEF more
<1>3. /\ t \in Seq(1 .. n + 1) /\ Len(t) = Len(s) + Len(more)
      /\ \A i \in 1 .. Len(s) + Len(more) :
             t[i] = IF i <= Len(s) THEN s[i] ELSE more[i - Len(s)]
  BY <1>1, <1>2, ConcatProperties, Zenon
<1> HIDE DEF t
<1>4. /\ t \in Seq(1 .. n + 1) /\ Len(t) = Len(s) + m
      /\ \A i \in 1 .. Len(s) + m : t[i] = IF i <= Len(s) THEN s[i] ELSE more[i - Len(s)]
  BY <1>2, <1>3
<1>5. ASSUME NEW i \in 1 .. Len(s) PROVE t[i] = s[i]
  <2>1. i \in 1 .. Len(s) + m /\ i <= Len(s)
    BY <1>1
  <2>2. QED
    BY <1>4, <2>1
<1>6. ASSUME NEW i \in Len(s) + 1 .. Len(s) + m PROVE t[i] = n + 1
  <2>1. i \in 1 .. Len(s) + m /\ ~(i <= Len(s)) /\ i - Len(s) \in 1 .. m
    BY <1>1
  <2>2. QED
    BY <1>2, <1>4, <2>1
<1>7. QED
  BY <1>4, <1>5, <1>6 DEF Extended, more, t

LEMMA Popped ==
    ASSUME NEW n \in Nat, NEW s \in Seq(1 .. n), s # <<>>
    PROVE  /\ Front(s) \in Seq(1 .. n)
           /\ Len(Front(s)) = Len(s) - 1 /\ Len(s) \in Nat \ {0}
           /\ \A i \in 1 .. Len(s) - 1 : Front(s)[i] = s[i]
           /\ Last(s) = s[Len(s)] /\ Last(s) \in 1 .. n
<1>1. Len(s) \in Nat \ {0} /\ \A i \in 1 .. Len(s) : s[i] \in 1 .. n
  OBVIOUS
<1>2. Last(s) = s[Len(s)] /\ Last(s) \in 1 .. n
  BY <1>1 DEF Last
<1> DEFINE l == Len(s) - 1
<1>3. l \in Nat /\ 1 \in Int /\ l \in Int /\ \A i \in 1 .. l : s[i] \in 1 .. n
  BY <1>1
<1> HIDE DEF l
<1>4. /\ SubSeq(s, 1, l) \in Seq(1 .. n) /\ Len(SubSeq(s, 1, l)) = l
      /\ \A i \in 1 .. l : SubSeq(s, 1, l)[i] = s[i]
  BY <1>3, SubSeqProperties
<1>5. QED
  BY <1>1, <1>2, <1>4 DEF Front, l
\* The copies n jobs have at most.
Room(n) == MaxSends * n

LEMMA RoomGrows ==
    ASSUME NEW m \in Nat, NEW n \in Nat
    PROVE  /\ Room(n) \in Nat /\ Room(n + 1) = Room(n) + MaxSends
           /\ m <= n => Room(m) <= Room(n)
<1>1. MaxSends \in Nat
  BY QueueConstantsOK
<1>2. Room(n) \in Nat /\ Room(n + 1) = Room(n) + MaxSends
  BY <1>1 DEF Room
<1>3. ASSUME m <= n PROVE Room(m) <= Room(n)
  <2>1. n - m \in Nat /\ n = m + (n - m)
    BY <1>3
  <2>2. MaxSends * (n - m) \in Nat /\ MaxSends * n = MaxSends * m + MaxSends * (n - m)
    BY <1>1, <2>1
  <2>3. MaxSends * m \in Nat
    BY <1>1
  <2>4. QED
    BY <2>2, <2>3 DEF Room
<1>4. QED
  BY <1>2, <1>3

\* The types, the bounds on jobs and lists, and that a worker past its pop holds a job.
Job == [type : JobType \cup {"usage_tracking"}, queue : Seq(Part), sent : 1 .. MaxSends]

JobsOK ==
    /\ jobs \in Seq(Job)
    /\ Len(jobs) <= MaxJobs

ListsOK ==
    /\ lists \in [Keys -> Seq(1 .. Len(jobs))]
    /\ \A k \in Keys : Len(lists[k]) <= Room(Len(jobs))

Labels == {"check", "pop", "dispatch", "handle", "complete", "fail", "exited"}

WorkersOK ==
    /\ wpc \in [Worker -> Labels] /\ holds \in [Worker -> 0 .. Len(jobs)]
    /\ \A w \in Worker :
         wpc[w] \in {"dispatch", "handle", "complete", "fail"} => holds[w] # 0

HistoryOK ==
    /\ DOMAIN results \subseteq 1 .. Len(jobs) /\ gone \subseteq 1 .. Len(jobs)
    /\ results = [i \in DOMAIN results |-> results[i]]
    /\ \A i \in DOMAIN results : results[i] \in Seq(BOOLEAN)

QueueOK == JobsOK /\ ListsOK /\ WorkersOK /\ HistoryOK

\* What a push does: a new job, as many copies of its id at the end of one list as
\* the job was sent.
Pushed(k, more) ==
    /\ Len(jobs') = Len(jobs) + 1 /\ jobs'[Len(jobs) + 1].sent = more
    /\ \A i \in 1 .. Len(jobs) : jobs'[i] = jobs[i]
    /\ \A key \in Keys \ {k} : lists'[key] = lists[key]
    /\ Len(lists'[k]) = Len(lists[k]) + more
    /\ \A i \in 1 .. Len(lists[k]) : lists'[k][i] = lists[k][i]
    /\ \A i \in Len(lists[k]) + 1 .. Len(lists[k]) + more : lists'[k][i] = Len(jobs) + 1

LEMMA PushEffect ==
    ASSUME JobsOK, ListsOK, NEW name \in QueueNames \cup {<<>>}, NEW type \in JobType \cup {"usage_tracking"},
           Push(name, type), Len(jobs) < MaxJobs
    PROVE  /\ \E k \in Keys, more \in 1 .. MaxSends : Pushed(k, more)
           /\ JobsOK' /\ ListsOK'
<1> DEFINE q == normalizeQueue(name)
           k == queueKey(q)
           n == Len(jobs)
<1>1. k \in Keys
  BY DEF Keys
<1>2. name \in Seq(Part) /\ q \in Seq(Part)
  <2>1. <<>> \in Seq(Part)
    OBVIOUS
  <2>2. name \in Seq(Part)
    BY <2>1, QueueConstantsOK
  <2>3. QED
    BY <2>2, NormalType
<1>3. PICK more \in 1 .. MaxSends :
        /\ jobs' = Append(jobs, [type |-> type, queue |-> q, sent |-> more])
        /\ lists' = [lists EXCEPT ![k] = @ \o CopiesOf(n, more)]
  BY DEF Push, CopiesOf
<1>4. n \in Nat /\ lists[k] \in Seq(1 .. n) /\ Len(lists[k]) \in Nat /\ Len(lists[k]) <= Room(n)
  BY <1>1 DEF JobsOK, ListsOK
<1> HIDE DEF q, k
<1>14. Room(n + 1) = Room(n) + MaxSends /\ Room(n) \in Nat /\ MaxSends \in Nat
  BY <1>4, RoomGrows, QueueConstantsOK
<1>5. [type |-> type, queue |-> q, sent |-> more] \in Job
  BY <1>2 DEF Job
<1>6. /\ Len(jobs') = n + 1 /\ jobs'[n + 1].sent = more
      /\ \A i \in 1 .. n : jobs'[i] = jobs[i]
  BY <1>3, <1>5 DEF JobsOK
<1>7. JobsOK'
  <2>1. jobs' \in Seq(Job)
    BY <1>3, <1>5 DEF JobsOK
  <2>2. QED
    BY <2>1, <1>4, <1>6, QueueConstantsOK DEF JobsOK
<1>8. lists'[k] = lists[k] \o CopiesOf(n, more)
  BY <1>1, <1>3 DEF ListsOK
<1>9. /\ lists'[k] \in Seq(1 .. n + 1) /\ Len(lists'[k]) = Len(lists[k]) + more
      /\ \A i \in 1 .. Len(lists[k]) : lists'[k][i] = lists[k][i]
      /\ \A i \in Len(lists[k]) + 1 .. Len(lists[k]) + more : lists'[k][i] = n + 1
  <2> DEFINE t == lists[k] \o CopiesOf(n, more)
  <2>0. more \in Nat /\ lists[k] \in Seq(1 .. n) /\ n \in Nat
    BY <1>4, QueueConstantsOK
  <2>1. Extended(n, lists[k], more, t)
    BY <2>0, PushedOften, Zenon
  <2>2. lists'[k] = t
    BY <1>8
  <2> HIDE DEF t
  <2>3. QED
    BY <2>1, <2>2 DEF Extended
<1>10. \A key \in Keys \ {k} : lists'[key] = lists[key]
  BY <1>3 DEF ListsOK
<1>11. Pushed(k, more)
  BY <1>6, <1>9, <1>10 DEF Pushed
<1>12. ListsOK'
  <2>1. ASSUME NEW key \in Keys
        PROVE  lists'[key] \in Seq(1 .. n + 1) /\ Len(lists'[key]) <= Room(n + 1)
    <3>1. CASE key = k
      BY <1>4, <1>9, <1>14, <3>1
    <3>2. CASE key # k
      <4>1. lists'[key] \in Seq(1 .. n) /\ Len(lists'[key]) <= Room(n)
        BY <1>10, <3>2 DEF ListsOK
      <4>2. QED
        BY <1>4, <1>14, <4>1
    <3>3. QED
      BY <3>1, <3>2
  <2>2. lists' = [key \in Keys |-> lists'[key]]
    BY <1>3 DEF ListsOK
  <2>3. QED
    BY <1>6, <2>1, <2>2 DEF ListsOK
<1>13. QED
  BY <1>1, <1>7, <1>11, <1>12

\* More jobs make no type narrower.
LEMMA MoreJobs ==
    ASSUME QueueOK, Len(jobs') \in Nat, Len(jobs') >= Len(jobs)
    PROVE  /\ UNCHANGED <<wpc, holds>> => WorkersOK'
           /\ UNCHANGED <<results, gone>> => HistoryOK'
           /\ UNCHANGED <<jobs, lists>> => JobsOK' /\ ListsOK'
<1>1. Len(jobs) \in Nat /\ \A i : i \in 1 .. Len(jobs) => i \in 1 .. Len(jobs')
  BY DEF QueueOK, JobsOK
<1>2. \A i : i \in 0 .. Len(jobs) => i \in 0 .. Len(jobs')
  BY <1>1
<1>3. UNCHANGED <<wpc, holds>> => WorkersOK'
  BY <1>2 DEF QueueOK, WorkersOK
<1>4. UNCHANGED <<results, gone>> => HistoryOK'
  BY <1>1 DEF QueueOK, HistoryOK
<1>5. QED
  BY <1>3, <1>4 DEF QueueOK, JobsOK, ListsOK
\* What Handle does to the history and the worker, whether or not it pushes a job.
LEMMA HandleEffect ==
    ASSUME QueueOK, NEW w \in Worker, Handle(w)
    PROVE  /\ wpc[w] = "handle" /\ holds[w] \in 1 .. Len(jobs)
           /\ \E label \in {"complete", "fail"} : wpc' = [wpc EXCEPT ![w] = label]
           /\ UNCHANGED <<holds, gone, running, closed, popsAfterStop, records>>
           /\ DOMAIN results' = DOMAIN results \cup {holds[w]}
           /\ results' = [i \in DOMAIN results' |-> results'[i]]
           /\ \A i \in DOMAIN results : i # holds[w] => results'[i] = results[i]
           /\ results'[holds[w]] \in Seq(BOOLEAN)
           /\ Runs(holds[w])' = Runs(holds[w]) + 1 /\ Runs(holds[w]) \in Nat
<1> DEFINE id == holds[w]
<1>1. wpc[w] = "handle" /\ id \in 1 .. Len(jobs) /\ UNCHANGED holds
  BY DEF Handle, QueueOK, WorkersOK, JobsOK
<1>2. PICK ok \in BOOLEAN : Handle(w)!2!(ok)
  BY DEF Handle
<1>3. results' = [i \in DOMAIN results \cup {id} |->
                     IF i \in DOMAIN results
                     THEN IF i = id THEN Append(results[i], ok) ELSE results[i]
                     ELSE <<ok>>]
  BY <1>2, Zenon
<1>4. \E label \in {"complete", "fail"} : wpc' = [wpc EXCEPT ![w] = label]
  BY <1>2 DEF Goto
<1>5. /\ DOMAIN results' = DOMAIN results \cup {id}
      /\ results' = [i \in DOMAIN results' |-> results'[i]]
      /\ \A i \in DOMAIN results : i # id => results'[i] = results[i]
      /\ id \in DOMAIN results => results'[id] = Append(results[id], ok)
      /\ id \notin DOMAIN results => results'[id] = <<ok>>
  BY <1>3
<1>6. ASSUME NEW s \in Seq(BOOLEAN)
      PROVE  Append(s, ok) \in Seq(BOOLEAN) /\ Len(Append(s, ok)) = Len(s) + 1 /\ Len(s) \in Nat
  BY AppendProperties, LenProperties
<1>7. <<ok>> \in Seq(BOOLEAN) /\ Len(<<ok>>) = 1
  OBVIOUS
<1>8. /\ results'[id] \in Seq(BOOLEAN)
      /\ Runs(id) \in Nat
      /\ (IF id \in DOMAIN results' THEN Len(results'[id]) ELSE 0) = Runs(id) + 1
  <2>1. CASE id \in DOMAIN results
    <3>1. results[id] \in Seq(BOOLEAN) /\ results'[id] = Append(results[id], ok)
      BY <1>5, <2>1 DEF QueueOK, HistoryOK
    <3>2. /\ Append(results[id], ok) \in Seq(BOOLEAN) /\ Len(results[id]) \in Nat
          /\ Len(Append(results[id], ok)) = Len(results[id]) + 1
      BY <1>6, <3>1
    <3>3. Runs(id) = Len(results[id])
      BY <2>1 DEF Runs
    <3>4. /\ results'[id] \in Seq(BOOLEAN) /\ Len(results'[id]) = Len(results[id]) + 1
      BY <3>1, <3>2, Zenon
    <3>5. id \in DOMAIN results'
      BY <1>5, Zenon
    <3>6. QED
      BY <3>2, <3>3, <3>4, <3>5
  <2>2. CASE id \notin DOMAIN results
    <3>1. results'[id] \in Seq(BOOLEAN) /\ Len(results'[id]) = 1
      BY <1>5, <1>7, <2>2, Zenon
    <3>2. id \in DOMAIN results'
      BY <1>5, Zenon
    <3>3. Runs(id) = 0
      BY <2>2 DEF Runs
    <3>4. QED
      BY <3>1, <3>2, <3>3
  <2>3. QED
    BY <2>1, <2>2
<1>9. Runs(id)' = Runs(id) + 1
  BY <1>1, <1>8 DEF Runs
<1>10. QED
  BY <1>1, <1>4, <1>5, <1>8, <1>9 DEF Handle
\* A worker moves on, or takes or drops a job.
LEMMA WorkerMoves ==
    ASSUME QueueOK, NEW w \in Worker, NEW label \in Labels, NEW id \in 0 .. Len(jobs),
           UNCHANGED jobs, Goto(w, label), holds' = [holds EXCEPT ![w] = id],
           label \in {"dispatch", "handle", "complete", "fail"} => id # 0
    PROVE  WorkersOK'
<1>1. /\ wpc' \in [Worker -> Labels] /\ holds' \in [Worker -> 0 .. Len(jobs')]
      /\ wpc'[w] = label /\ holds'[w] = id
      /\ \A v \in Worker \ {w} : wpc'[v] = wpc[v] /\ holds'[v] = holds[v]
  BY DEF QueueOK, WorkersOK, Goto
<1>2. QED
  BY <1>1 DEF QueueOK, WorkersOK

LEMMA RestartTypes == ASSUME QueueOK, Restart PROVE QueueOK'
<1>1. /\ JobsOK' /\ ListsOK'
  BY DEF Restart, redisVars, QueueOK, JobsOK, ListsOK
<1>2. Len(jobs) \in Nat /\ jobs' = jobs /\ results' = results
  BY DEF Restart, redisVars, QueueOK, JobsOK
<1>3. WorkersOK'
  BY <1>2 DEF Restart, WorkersOK, Labels
<1>4. gone' \subseteq 1 .. Len(jobs)
  BY <1>2 DEF Restart, Lose, QueueOK, WorkersOK, HistoryOK
<1>5. HistoryOK'
  BY <1>2, <1>4 DEF QueueOK, HistoryOK
<1>6. QED
  BY <1>1, <1>3, <1>5 DEF QueueOK

\* What a worker's pop does to the pool's list, whoever gets the job.
LEMMA DequeueEffect ==
    ASSUME QueueOK, NEW w \in Worker, Dequeue(w)
    PROVE  LET key == normalizeQueue(<<>>) IN
           /\ wpc[w] = "pop" /\ key \in Keys /\ Len(lists[key]) \in Nat \ {0}
           /\ UNCHANGED <<jobs, results>>
           /\ \A k \in Keys \ {key} : lists'[k] = lists[k]
           /\ Len(lists'[key]) = Len(lists[key]) - 1
           /\ \A i \in 1 .. Len(lists[key]) - 1 : lists'[key][i] = lists[key][i]
           /\ lists[key][Len(lists[key])] \in 1 .. Len(jobs)
           /\ \/ /\ holds' = [holds EXCEPT ![w] = lists[key][Len(lists[key])]]
                 /\ Goto(w, "dispatch") /\ UNCHANGED gone
              \/ /\ \E label \in {"check", "pop"} : Goto(w, label)
                 /\ gone' = gone \cup {lists[key][Len(lists[key])]} /\ UNCHANGED holds
           /\ ListsOK'
<1> DEFINE key == normalizeQueue(<<>>)
           s == lists[key]
<1>1. key \in Keys
  BY PoolKey
<1>2. /\ wpc[w] = "pop" /\ s # <<>> /\ lists' = [lists EXCEPT ![key] = Front(s)]
      /\ UNCHANGED <<jobs, results>>
  BY DEF Dequeue
<1>3. /\ Len(jobs) \in Nat /\ s \in Seq(1 .. Len(jobs)) /\ Len(s) <= Room(Len(jobs))
      /\ Room(Len(jobs)) \in Nat
  BY <1>1, RoomGrows DEF QueueOK, JobsOK, ListsOK
<1>4. /\ Front(s) \in Seq(1 .. Len(jobs))
      /\ Len(Front(s)) = Len(s) - 1 /\ Len(s) \in Nat \ {0}
      /\ \A i \in 1 .. Len(s) - 1 : Front(s)[i] = s[i]
      /\ Last(s) = s[Len(s)] /\ Last(s) \in 1 .. Len(jobs)
  BY <1>2, <1>3, Popped
<1>5. /\ lists'[key] = Front(s) /\ \A k \in Keys \ {key} : lists'[k] = lists[k]
      /\ lists' \in [Keys -> Seq(1 .. Len(jobs))]
  BY <1>1, <1>2, <1>4 DEF QueueOK, ListsOK
<1>6. ListsOK'
  <2>1. ASSUME NEW k \in Keys PROVE Len(lists'[k]) <= Room(Len(jobs))
    <3>1. CASE k = key
      BY <1>3, <1>4, <1>5, <3>1
    <3>2. CASE k # key
      BY <1>5, <3>2 DEF QueueOK, ListsOK
    <3>3. QED
      BY <3>1, <3>2
  <2>2. QED
    BY <1>2, <1>5, <2>1 DEF ListsOK
<1>7. \/ /\ holds' = [holds EXCEPT ![w] = Last(s)] /\ Goto(w, "dispatch") /\ UNCHANGED gone
      \/ /\ \E label \in {"check", "pop"} : Goto(w, label)
         /\ gone' = gone \cup {Last(s)} /\ UNCHANGED holds
  BY DEF Dequeue
<1>8. QED
  BY <1>1, <1>2, <1>4, <1>5, <1>6, <1>7

LEMMA QueueStep == QueueOK /\ [Next]_vars => QueueOK'
<1> SUFFICES ASSUME QueueOK, [Next]_vars PROVE QueueOK'
  OBVIOUS
<1>1. ASSUME UNCHANGED <<jobs, lists, results, gone>>, WorkersOK' PROVE QueueOK'
  BY <1>1 DEF QueueOK, JobsOK, ListsOK, HistoryOK
<1>2. ASSUME UNCHANGED <<jobs, lists, wpc, holds, results, gone>> PROVE QueueOK'
  BY <1>2 DEF QueueOK, JobsOK, ListsOK, WorkersOK, HistoryOK
<1>3. \A w \in Worker : /\ holds = [holds EXCEPT ![w] = holds[w]] /\ holds[w] \in 0 .. Len(jobs)
                        /\ 0 \in 0 .. Len(jobs) /\ Len(jobs) \in Nat
  BY DEF QueueOK, WorkersOK, JobsOK
<1>4. ASSUME NEW name \in QueueNames \cup {<<>>}, NEW type \in JobType \cup {"usage_tracking"}, Push(name, type),
             Len(jobs) < MaxJobs
      PROVE  JobsOK' /\ ListsOK' /\ Len(jobs') = Len(jobs) + 1
  BY <1>4, PushEffect DEF QueueOK, Pushed
<1>5. ASSUME NEW name \in QueueNames, NEW type \in JobType, Enqueue(name, type) PROVE QueueOK'
  <2>1. /\ Push(name, type) /\ Len(jobs) < MaxJobs
        /\ UNCHANGED <<wpc, holds, results, gone>>
    BY <1>5 DEF Enqueue, workerVars, histVars
  <2>2. JobsOK' /\ ListsOK' /\ Len(jobs') = Len(jobs) + 1
    BY <1>4, <2>1
  <2>3. Len(jobs) \in Nat
    BY DEF QueueOK, JobsOK
  <2>4. Len(jobs') \in Nat /\ Len(jobs') >= Len(jobs)
    BY <2>2, <2>3
  <2>5. WorkersOK' /\ HistoryOK'
    BY <2>1, <2>4, MoreJobs
  <2>6. QED
    BY <2>2, <2>5 DEF QueueOK
<1>6. ASSUME NEW w \in Worker, CheckRunning(w) \/ DequeueError(w) PROVE QueueOK'
  <2>1. PICK label \in {"pop", "exited", "check"} : Goto(w, label)
    BY <1>6 DEF CheckRunning, DequeueError
  <2>2. UNCHANGED <<jobs, lists, holds, results, gone>>
    BY <1>6 DEF CheckRunning, DequeueError, redisVars, histVars
  <2>3. WorkersOK'
    BY <1>3, <2>1, <2>2, WorkerMoves DEF Labels
  <2>4. QED
    BY <1>1, <2>2, <2>3
<1>7. ASSUME NEW w \in Worker, Dequeue(w) PROVE QueueOK'
  <2> DEFINE key == normalizeQueue(<<>>)
             id == lists[key][Len(lists[key])]
  <2>1. /\ UNCHANGED <<jobs, results>> /\ ListsOK' /\ id \in 1 .. Len(jobs)
        /\ \/ holds' = [holds EXCEPT ![w] = id] /\ Goto(w, "dispatch") /\ UNCHANGED gone
           \/ /\ \E label \in {"check", "pop"} : Goto(w, label)
              /\ gone' = gone \cup {id} /\ UNCHANGED holds
    BY <1>7, DequeueEffect
  <2> HIDE DEF id
  <2>2. id \in 0 .. Len(jobs) /\ id # 0
    BY <1>3, <2>1
  <2>3. WorkersOK'
    <3>1. CASE holds' = [holds EXCEPT ![w] = id] /\ Goto(w, "dispatch")
      BY <2>1, <2>2, <3>1, WorkerMoves DEF Labels
    <3>2. CASE UNCHANGED holds /\ \E label \in {"check", "pop"} : Goto(w, label)
      BY <1>3, <2>1, <3>2, WorkerMoves DEF Labels
    <3>3. QED
      BY <2>1, <3>1, <3>2
  <2>4. HistoryOK'
    BY <2>1 DEF QueueOK, HistoryOK
  <2>5. JobsOK'
    BY <2>1 DEF QueueOK, JobsOK
  <2>6. QED
    BY <2>1, <2>3, <2>4, <2>5 DEF QueueOK
<1>8. ASSUME NEW w \in Worker, Dispatch(w) PROVE QueueOK'
  <2>1. PICK label \in {"handle", "fail"} : Goto(w, label)
    BY <1>8 DEF Dispatch
  <2>2. UNCHANGED <<jobs, lists, holds, results, gone>> /\ wpc[w] = "dispatch"
    BY <1>8 DEF Dispatch, histVars
  <2>3. holds[w] # 0
    BY <2>2 DEF QueueOK, WorkersOK
  <2>4. WorkersOK'
    BY <1>3, <2>1, <2>2, <2>3, WorkerMoves DEF Labels
  <2>5. QED
    BY <1>1, <2>2, <2>4
<1>9. ASSUME NEW w \in Worker, Handle(w) PROVE QueueOK'
  <2>1. /\ wpc[w] = "handle" /\ holds[w] \in 1 .. Len(jobs)
        /\ UNCHANGED <<holds, gone>>
        /\ DOMAIN results' = DOMAIN results \cup {holds[w]}
        /\ results' = [i \in DOMAIN results' |-> results'[i]]
        /\ \A i \in DOMAIN results : i # holds[w] => results'[i] = results[i]
        /\ results'[holds[w]] \in Seq(BOOLEAN)
    BY <1>9, HandleEffect
  <2>2. PICK label \in {"complete", "fail"} : wpc' = [wpc EXCEPT ![w] = label]
    BY <1>9, HandleEffect
  <2>3. /\ JobsOK' /\ ListsOK'
        /\ Len(jobs') = Len(jobs) \/ Len(jobs') = Len(jobs) + 1
    <3>1. CASE Push(<<>>, "usage_tracking") /\ Len(jobs) < MaxJobs
      <4>1. <<>> \in QueueNames \cup {<<>>}
        BY Zenon
      <4>2. QED
        BY <1>4, <3>1, <4>1
    <3>2. CASE UNCHANGED <<jobs, lists>>
      BY <3>2 DEF QueueOK, JobsOK, ListsOK
    <3>3. QED
      BY <1>9, <3>1, <3>2 DEF Handle
  <2>4. /\ Len(jobs) \in Nat
        /\ \A i : i \in 1 .. Len(jobs) => i \in 1 .. Len(jobs')
        /\ \A i : i \in 0 .. Len(jobs) => i \in 0 .. Len(jobs')
    BY <1>3, <2>1, <2>3 DEF QueueOK, JobsOK
  <2>5. WorkersOK'
    <3>1. holds[w] # 0 /\ label \in Labels
      BY <2>1, <2>4 DEF Labels
    <3>2. wpc' \in [Worker -> Labels] /\ holds' \in [Worker -> 0 .. Len(jobs')]
      BY <2>1, <2>2, <2>4, <3>1 DEF QueueOK, WorkersOK
    <3>3. QED
      BY <2>1, <2>2, <3>1, <3>2 DEF QueueOK, WorkersOK
  <2>6. HistoryOK'
    <3>1. DOMAIN results' \subseteq 1 .. Len(jobs') /\ gone' \subseteq 1 .. Len(jobs')
      BY <2>1, <2>4 DEF QueueOK, HistoryOK
    <3>2. ASSUME NEW i \in DOMAIN results' PROVE results'[i] \in Seq(BOOLEAN)
      <4>1. CASE i = holds[w]
        BY <2>1, <4>1, Zenon
      <4>2. CASE i # holds[w]
        <5>1. i \in DOMAIN results /\ results'[i] = results[i]
          BY <2>1, <4>2
        <5>2. results[i] \in Seq(BOOLEAN)
          BY <5>1, Zenon DEF QueueOK, HistoryOK
        <5>3. QED
          BY <5>1, <5>2, Zenon
      <4>3. QED
        BY <4>1, <4>2
    <3>3. QED
      BY <2>1, <3>1, <3>2, Zenon DEF HistoryOK
  <2>7. QED
    BY <2>3, <2>5, <2>6 DEF QueueOK
<1>10. ASSUME NEW w \in Worker, Release(w), UNCHANGED <<jobs, lists, results, gone>>
       PROVE  QueueOK'
  <2>1. WorkersOK'
    BY <1>3, <1>10, WorkerMoves DEF Release, Labels
  <2>2. QED
    BY <1>1, <1>10, <2>1
<1>11. ASSUME NEW w \in Worker, Complete(w) \/ Fail(w) PROVE QueueOK'
  BY <1>10, <1>11, RestartTypes DEF Complete, Fail, redisVars, histVars
<1>12. CASE Stop \/ Close \/ UNCHANGED vars
  BY <1>2, <1>12 DEF Stop, Close, vars, redisVars, workerVars, histVars
<1>13. CASE Crash
  BY <1>13, RestartTypes DEF Crash
<1>14. QED
  BY <1>5, <1>6, <1>7, <1>8, <1>9, <1>11, <1>12, <1>13 DEF Next, Work

LEMMA QueueHolds == Spec => []QueueOK
<1>1. Init => QueueOK
  <2> SUFFICES ASSUME Init PROVE QueueOK
    OBVIOUS
  <2>1. Len(jobs) = 0 /\ jobs \in Seq(Job)
    BY DEF Init
  <2>2. JobsOK
    BY <2>1, QueueConstantsOK DEF JobsOK
  <2>3. ListsOK
    <3>1. <<>> \in Seq(1 .. Len(jobs)) /\ Len(<<>>) = 0
      OBVIOUS
    <3>2. Room(Len(jobs)) \in Nat
      BY <2>1, RoomGrows
    <3>3. QED
      BY <2>1, <3>1, <3>2 DEF Init, ListsOK
  <2>4. WorkersOK
    BY <2>1 DEF Init, WorkersOK, Labels
  <2>5. HistoryOK
    BY DEF Init, HistoryOK
  <2>6. QED
    BY <2>2, <2>3, <2>4, <2>5 DEF QueueOK
<1>2. QED
  BY <1>1, QueueStep, PTL DEF Spec
-------------------------------------------------------------------------------
\* Where the copies of a job are: on lists, and with workers that still have to run it.
Copies(id) == {e \in Keys \X (1 .. Room(MaxJobs)) :
                  e[2] \in DOMAIN lists[e[1]] /\ lists[e[1]][e[2]] = id}

Holding(id) == {w \in Worker : holds[w] = id /\ wpc[w] \in {"dispatch", "handle"}}

CopyAt(id) ==
    /\ IsFiniteSet(Copies(id))
    /\ Runs(id) + Cardinality(Copies(id)) + Cardinality(Holding(id)) <= jobs[id].sent

CopyInv == \A id \in 1 .. Len(jobs) : CopyAt(id)

LEMMA CountTypes ==
    ASSUME IsFiniteSet(Worker), QueueOK, NEW id
    PROVE  /\ Runs(id) \in Nat /\ IsFiniteSet(Holding(id)) /\ Cardinality(Holding(id)) \in Nat
           /\ Len(jobs) \in Nat
           /\ id \in 1 .. Len(jobs) => jobs[id].sent \in Nat
<1>1. IsFiniteSet(Holding(id)) /\ Cardinality(Holding(id)) \in Nat
  BY FS_Subset, FS_CardinalityType DEF Holding
<1>2. Runs(id) \in Nat
  BY LenProperties DEF QueueOK, HistoryOK, Runs
<1>3. Len(jobs) \in Nat /\ (id \in 1 .. Len(jobs) => jobs[id] \in Job)
  BY DEF QueueOK, JobsOK
<1>4. QED
  BY <1>1, <1>2, <1>3, QueueConstantsOK DEF Job

\* Positions of a list, as ListsOK bounds them.
LEMMA Positions ==
    ASSUME QueueOK, NEW k \in Keys
    PROVE  /\ Len(lists[k]) \in Nat /\ Len(lists[k]) <= Room(MaxJobs)
           /\ DOMAIN lists[k] = 1 .. Len(lists[k])
           /\ \A i \in 1 .. Len(lists[k]) : lists[k][i] \in 1 .. Len(jobs)
<1>1. /\ lists[k] \in Seq(1 .. Len(jobs)) /\ Len(lists[k]) <= Room(Len(jobs))
      /\ Len(jobs) <= MaxJobs /\ Len(jobs) \in Nat /\ MaxJobs \in Nat
  BY QueueConstantsOK DEF QueueOK, JobsOK, ListsOK
<1>2. ASSUME NEW s \in Seq(1 .. Len(jobs))
      PROVE  /\ Len(s) \in Nat /\ DOMAIN s = 1 .. Len(s)
             /\ \A i \in 1 .. Len(s) : s[i] \in 1 .. Len(jobs)
  OBVIOUS
<1>3. /\ Room(Len(jobs)) \in Nat /\ Room(MaxJobs) \in Nat
      /\ Room(Len(jobs)) <= Room(MaxJobs)
  BY <1>1, RoomGrows
<1>4. Len(lists[k]) <= Room(MaxJobs)
  BY <1>1, <1>2, <1>3
<1>5. QED
  BY <1>1, <1>2, <1>4

\* A stretch of positions of one list has as many elements as it is long.
Stretch(k, l, m) == {<<k, i>> : i \in l + 1 .. l + m}

LEMMA StretchCounted ==
    ASSUME NEW k, NEW l \in Nat, NEW m \in Nat
    PROVE  IsFiniteSet(Stretch(k, l, m)) /\ Cardinality(Stretch(k, l, m)) = m
<1> DEFINE S == Stretch(k, l, m)
           f == [i \in 1 .. m |-> <<k, l + i>>]
<1>1. \A e : e \in S <=> \E i \in l + 1 .. l + m : e = <<k, i>>
  BY DEF Stretch
<1>2. f = [i \in 1 .. m |-> f[i]] /\ \A i \in 1 .. m : f[i] = <<k, l + i>>
  OBVIOUS
<1> HIDE DEF S, f
<1>3. ASSUME NEW i \in 1 .. m PROVE f[i] \in S
  <2>1. l + i \in l + 1 .. l + m
    OBVIOUS
  <2>2. QED
    BY <1>1, <1>2, <2>1
<1>4. f \in [1 .. m -> S]
  BY <1>2, <1>3
<1>5. \A i, j \in 1 .. m : f[i] = f[j] => i = j
  BY <1>2
<1>6. \A e \in S : \E i \in 1 .. m : f[i] = e
  <2> SUFFICES ASSUME NEW e \in S PROVE \E i \in 1 .. m : f[i] = e
    OBVIOUS
  <2>1. PICK i \in l + 1 .. l + m : e = <<k, i>>
    BY <1>1
  <2>2. i - l \in 1 .. m /\ l + (i - l) = i
    OBVIOUS
  <2>3. QED
    BY <1>2, <2>1, <2>2
<1>7. f \in Bijection(1 .. m, S)
  BY <1>4, <1>5, <1>6 DEF Bijection, Injection, Surjection, IsInjective
<1>8. ExistsBijection(1 .. m, S)
  BY <1>7 DEF ExistsBijection
<1>9. QED
  BY <1>8, FS_NatBijection, FS_CountingElements DEF S

\* A push adds the copies of the new job and moves no other.
LEMMA PushedCopies ==
    ASSUME QueueOK, ListsOK', JobsOK', NEW k \in Keys, NEW more \in 1 .. MaxSends, Pushed(k, more)
    PROVE  /\ \A id \in 1 .. Len(jobs) : Copies(id)' = Copies(id) /\ jobs'[id] = jobs[id]
           /\ \A id : id = Len(jobs) + 1 =>
                /\ IsFiniteSet(Copies(id)') /\ Cardinality(Copies(id)') = more
                /\ jobs'[id].sent = more
<1> DEFINE n == Len(jobs)
           l == Len(lists[k])
<1>1. /\ n \in Nat /\ l \in Nat /\ DOMAIN lists[k] = 1 .. l /\ l <= Room(MaxJobs)
      /\ \A i \in 1 .. l : lists[k][i] \in 1 .. n
  BY Positions DEF QueueOK, JobsOK
<1>2. /\ Len(lists'[k]) = l + more /\ \A i \in 1 .. l : lists'[k][i] = lists[k][i]
      /\ \A i \in l + 1 .. l + more : lists'[k][i] = n + 1
      /\ \A key \in Keys \ {k} : lists'[key] = lists[key]
  BY DEF Pushed
<1>3. l + more <= Room(MaxJobs)
  <2>1. Len(lists'[k]) <= Room(Len(jobs')) /\ Len(jobs') <= MaxJobs
    BY DEF ListsOK, JobsOK
  <2>2. Len(jobs') \in Nat /\ MaxJobs \in Nat /\ more \in Nat
    BY <1>1, QueueConstantsOK DEF Pushed
  <2>3. /\ Room(Len(jobs')) \in Nat /\ Room(MaxJobs) \in Nat
        /\ Room(Len(jobs')) <= Room(MaxJobs)
    BY <2>1, <2>2, RoomGrows
  <2>4. QED
    BY <1>1, <1>2, <2>1, <2>2, <2>3
<1>4. DOMAIN lists'[k] = 1 .. l + more
  <2>1. lists'[k] \in Seq(1 .. Len(jobs'))
    BY DEF ListsOK
  <2>2. QED
    BY <1>2, <2>1
<1> HIDE DEF l, n
<1>5. ASSUME NEW id, NEW e \in Keys \X (1 .. Room(MaxJobs))
      PROVE  e \in Copies(id)' <=>
                \/ e \in Copies(id)
                \/ e[1] = k /\ e[2] \in l + 1 .. l + more /\ id = n + 1
  <2>1. e[1] \in Keys /\ e[2] \in Nat /\ e[2] >= 1
    OBVIOUS
  <2>2. CASE e[1] = k
    <3>1. e \in Copies(id)' <=> e[2] \in 1 .. l + more /\ lists'[k][e[2]] = id
      BY <1>4, <2>2 DEF Copies
    <3>2. e \in Copies(id) <=> e[2] \in 1 .. l /\ lists[k][e[2]] = id
      BY <1>1, <2>2 DEF Copies
    <3>3. e[2] \in 1 .. l + more <=> e[2] \in 1 .. l \/ e[2] \in l + 1 .. l + more
      BY <1>1, <2>1
    <3>4. QED
      BY <1>2, <2>2, <3>1, <3>2, <3>3
  <2>3. CASE e[1] # k
    BY <1>2, <2>1, <2>3 DEF Copies
  <2>4. QED
    BY <2>2, <2>3
<1>6. ASSUME NEW id \in 1 .. n PROVE Copies(id)' = Copies(id) /\ jobs'[id] = jobs[id]
  <2>1. id # n + 1
    BY <1>1
  <2>2. /\ Copies(id)' \subseteq Keys \X (1 .. Room(MaxJobs))
        /\ Copies(id) \subseteq Keys \X (1 .. Room(MaxJobs))
    BY DEF Copies
  <2>3. Copies(id)' = Copies(id)
    BY <1>5, <2>1, <2>2
  <2>4. QED
    BY <2>3 DEF Pushed, n
<1>7. ASSUME NEW id, id = n + 1
      PROVE  IsFiniteSet(Copies(id)') /\ Cardinality(Copies(id)') = more
  <2>1. Copies(id) = {}
    <3>1. ASSUME NEW e \in Copies(id) PROVE FALSE
      <4>1. e[1] \in Keys /\ e[2] \in DOMAIN lists[e[1]] /\ lists[e[1]][e[2]] = id
        BY <3>1 DEF Copies
      <4>2. id \in 1 .. n
        BY <4>1, Positions DEF n
      <4>3. QED
        BY <1>1, <1>7, <4>2
    <3>2. QED
      BY <3>1
  <2>2. \A e \in Keys \X (1 .. Room(MaxJobs)) :
            e \in Copies(id)' <=> e[1] = k /\ e[2] \in l + 1 .. l + more
    BY <1>5, <1>7, <2>1
  <2>3. Copies(id)' \subseteq Keys \X (1 .. Room(MaxJobs))
    BY DEF Copies
  <2>4. \A i \in l + 1 .. l + more : <<k, i>> \in Keys \X (1 .. Room(MaxJobs))
    <3>1. more \in Nat /\ MaxJobs \in Nat
      BY QueueConstantsOK
    <3>2. Room(MaxJobs) \in Nat
      BY <3>1, RoomGrows
    <3>3. QED
      BY <1>1, <1>3, <3>1, <3>2
  <2>5. Copies(id)' = Stretch(k, l, more)
    BY <2>2, <2>3, <2>4 DEF Stretch
  <2>6. more \in Nat
    BY QueueConstantsOK
  <2>7. QED
    BY <1>1, <2>5, <2>6, StretchCounted
<1>8. ASSUME NEW id, id = n + 1 PROVE jobs'[id].sent = more
  BY <1>8 DEF Pushed, n
<1>9. QED
  BY <1>6, <1>7, <1>8 DEF n
LEMMA CopyStep ==
    ASSUME IsFiniteSet(Worker), QueueOK, QueueOK', CopyInv, [Next]_vars
    PROVE  CopyInv'
<1>1. Len(jobs) \in Nat /\ Len(jobs') \in Nat
  BY DEF QueueOK, JobsOK
\* Nothing added to what a job may still run.
<1>2. ASSUME NEW id \in 1 .. Len(jobs), jobs'[id] = jobs[id], Copies(id)' = Copies(id),
             Runs(id)' = Runs(id), Holding(id)' \subseteq Holding(id)
      PROVE  CopyAt(id)'
  <2> DEFINE r == Runs(id)
             s == jobs[id].sent
             c == Cardinality(Copies(id))
             h == Cardinality(Holding(id))
             hh == Cardinality(Holding(id)')
  <2>1. h \in Nat /\ hh \in Nat /\ hh <= h
    BY <1>2, CountTypes, FS_Subset, FS_CardinalityType
  <2>2. /\ c \in Nat /\ r \in Nat /\ s \in Nat /\ r + c + h <= s
        /\ IsFiniteSet(Copies(id))
    BY CountTypes, FS_CardinalityType DEF CopyInv, CopyAt
  <2> HIDE DEF r, s, c, h, hh
  <2>3. r + c + hh <= s
    BY <2>1, <2>2
  <2>4. QED
    BY <1>2, <2>2, <2>3 DEF CopyAt, r, s, c, hh
<1>3. ASSUME UNCHANGED <<jobs, lists, results>>,
             \A id \in 1 .. Len(jobs) : Holding(id)' \subseteq Holding(id)
      PROVE  CopyInv'
  BY <1>2, <1>3 DEF CopyInv, Copies, Runs
<1>4. ASSUME NEW w \in Worker, NEW label \in Labels \ {"dispatch", "handle"}, Goto(w, label),
             NEW id, UNCHANGED holds
      PROVE  Holding(id)' \subseteq Holding(id)
  BY <1>4 DEF Holding, Goto, QueueOK, WorkersOK
<1>5. ASSUME UNCHANGED <<wpc, holds>>, NEW id PROVE Holding(id)' = Holding(id)
  BY <1>5 DEF Holding
\* A new job: the copies pushed, and nothing else.
<1>6. ASSUME NEW id, id = Len(jobs) + 1, NEW more \in 1 .. MaxSends,
             IsFiniteSet(Copies(id)'), Cardinality(Copies(id)') = more, jobs'[id].sent = more,
             \A v \in Worker : holds'[v] = holds[v],
             id \notin DOMAIN results'
      PROVE  CopyAt(id)'
  <2>1. Holding(id)' = {}
    BY <1>1, <1>6 DEF Holding, QueueOK, WorkersOK
  <2>2. Cardinality(Holding(id)') = 0
    BY <2>1, FS_EmptySet
  <2>3. Runs(id)' = 0
    BY <1>6 DEF Runs
  <2>4. QED
    BY <1>6, <2>2, <2>3 DEF CopyAt
<1>7. Len(jobs) + 1 \notin DOMAIN results
  BY <1>1 DEF QueueOK, HistoryOK
<1>8. ASSUME NEW name \in QueueNames, NEW type \in JobType, Enqueue(name, type) PROVE CopyInv'
  <2>1. /\ Push(name, type) /\ Len(jobs) < MaxJobs
        /\ UNCHANGED <<wpc, holds, results>>
    BY <1>8 DEF Enqueue, workerVars, histVars
  <2>2. PICK k \in Keys, more \in 1 .. MaxSends : Pushed(k, more)
    BY <2>1, PushEffect DEF QueueOK
  <2>3. /\ \A id \in 1 .. Len(jobs) : Copies(id)' = Copies(id) /\ jobs'[id] = jobs[id]
        /\ \A id : id = Len(jobs) + 1 =>
             /\ IsFiniteSet(Copies(id)') /\ Cardinality(Copies(id)') = more
             /\ jobs'[id].sent = more
    BY <2>2, PushedCopies DEF QueueOK
  <2>4. ASSUME NEW id \in 1 .. Len(jobs) PROVE CopyAt(id)'
    BY <1>2, <1>5, <2>1, <2>3 DEF Runs
  <2>5. ASSUME NEW id, id = Len(jobs) + 1 PROVE CopyAt(id)'
    BY <1>6, <1>7, <2>1, <2>3, <2>5
  <2>6. Len(jobs') = Len(jobs) + 1
    BY <2>2 DEF Pushed
  <2>7. QED
    BY <1>1, <2>4, <2>5, <2>6 DEF CopyInv
<1>9. ASSUME NEW w \in Worker, CheckRunning(w) \/ DequeueError(w) PROVE CopyInv'
  <2>1. PICK label \in {"pop", "exited", "check"} : Goto(w, label)
    BY <1>9 DEF CheckRunning, DequeueError
  <2>2. UNCHANGED <<jobs, lists, holds, results>>
    BY <1>9 DEF CheckRunning, DequeueError, redisVars, histVars
  <2>3. QED
    BY <1>3, <1>4, <2>1, <2>2 DEF Labels
\* The pop takes one copy off the list and gives it to one worker, or to nobody.
<1>10. ASSUME NEW w \in Worker, Dequeue(w) PROVE CopyInv'
  <2> DEFINE key == normalizeQueue(<<>>)
  <2>1. PICK l \in Nat \ {0}, job \in 1 .. Len(jobs) :
        /\ wpc[w] = "pop" /\ key \in Keys /\ Len(lists[key]) = l
        /\ UNCHANGED <<jobs, results>>
        /\ \A k \in Keys \ {key} : lists'[k] = lists[k]
        /\ Len(lists'[key]) = l - 1
        /\ \A i \in 1 .. l - 1 : lists'[key][i] = lists[key][i]
        /\ lists[key][l] = job
        /\ \/ holds' = [holds EXCEPT ![w] = job] /\ Goto(w, "dispatch")
           \/ (\E label \in {"check", "pop"} : Goto(w, label)) /\ UNCHANGED holds
    BY <1>10, DequeueEffect
  <2>2. DOMAIN lists[key] = 1 .. l /\ l <= Room(MaxJobs)
    BY <2>1, Positions
  <2>3. DOMAIN lists'[key] = 1 .. l - 1
    <3>1. lists'[key] \in Seq(1 .. Len(jobs'))
      BY <2>1 DEF QueueOK, ListsOK
    <3>2. QED
      BY <2>1, <3>1
  <2>4. ASSUME NEW id, NEW e \in Keys \X (1 .. Room(MaxJobs))
        PROVE  e \in Copies(id)' <=> e \in Copies(id) /\ e # <<key, l>>
    <3>1. e[1] \in Keys /\ e[2] \in Nat /\ e[2] >= 1 /\ e = <<e[1], e[2]>>
      OBVIOUS
    <3>2. CASE e[1] = key
      <4>1. e \in Copies(id)' <=> e[2] \in 1 .. l - 1 /\ lists'[key][e[2]] = id
        BY <2>3, <3>2 DEF Copies
      <4>2. e \in Copies(id) <=> e[2] \in 1 .. l /\ lists[key][e[2]] = id
        BY <2>2, <3>2 DEF Copies
      <4>3. e[2] \in 1 .. l - 1 <=> e[2] \in 1 .. l /\ e[2] # l
        BY <2>1, <3>1
      <4>4. e = <<key, l>> <=> e[2] = l
        BY <3>1, <3>2
      <4>5. QED
        BY <2>1, <4>1, <4>2, <4>3, <4>4
    <3>3. CASE e[1] # key
      BY <2>1, <3>1, <3>3 DEF Copies
    <3>4. QED
      BY <3>2, <3>3
  <2>5. \A id : Copies(id) \subseteq Keys \X (1 .. Room(MaxJobs))
                /\ Copies(id)' \subseteq Keys \X (1 .. Room(MaxJobs))
    BY DEF Copies
  <2>6. \A id : Copies(id)' = Copies(id) \ {<<key, l>>}
    BY <2>4, <2>5
  <2>7. <<key, l>> \in Copies(job) /\ \A id : id # job => <<key, l>> \notin Copies(id)
    BY <2>1, <2>2, QueueConstantsOK DEF Copies
  <2>8. w \notin Holding(job)
    BY <2>1 DEF Holding
  <2>9. \A id : Holding(id)' \subseteq Holding(id) \cup (IF id = job THEN {w} ELSE {})
    <3>1. CASE holds' = [holds EXCEPT ![w] = job] /\ Goto(w, "dispatch")
      BY <2>1, <3>1 DEF Holding, Goto, QueueOK, WorkersOK
    <3>2. CASE (\E label \in {"check", "pop"} : Goto(w, label)) /\ UNCHANGED holds
      <4>1. \A id : Holding(id)' \subseteq Holding(id)
        BY <1>4, <3>2 DEF Labels
      <4>2. QED
        BY <4>1
    <3>3. QED
      BY <2>1, <3>1, <3>2
  <2>10. ASSUME NEW id \in 1 .. Len(jobs), id # job PROVE CopyAt(id)'
    <3>1. Copies(id)' = Copies(id)
      BY <2>6, <2>7, <2>10
    <3>2. Holding(id)' \subseteq Holding(id)
      BY <2>9, <2>10
    <3>3. Runs(id)' = Runs(id)
      BY <2>1 DEF Runs
    <3>4. QED
      BY <1>2, <2>1, <3>1, <3>2, <3>3
  <2>11. CopyAt(job)'
    <3> DEFINE r == Runs(job)
               s == jobs[job].sent
               c == Cardinality(Copies(job))
               h == Cardinality(Holding(job))
               cc == Cardinality(Copies(job)')
               hh == Cardinality(Holding(job)')
    <3>1. /\ IsFiniteSet(Copies(job)) /\ c \in Nat /\ h \in Nat /\ r \in Nat /\ s \in Nat
          /\ r + c + h <= s
      BY <2>1, CountTypes, FS_CardinalityType DEF CopyInv, CopyAt
    <3>2. cc = c - 1 /\ IsFiniteSet(Copies(job)')
      BY <2>6, <2>7, <3>1, FS_RemoveElement
    <3>3. hh \in Nat /\ hh <= h + 1
      <4>1. IsFiniteSet(Holding(job))
        BY CountTypes
      <4>2. IsFiniteSet(Holding(job) \cup {w}) /\ Cardinality(Holding(job) \cup {w}) = h + 1
        BY <2>8, <4>1, FS_AddElement
      <4>3. Holding(job)' \in SUBSET (Holding(job) \cup {w})
        BY <2>9
      <4>4. QED
        BY <4>2, <4>3, FS_Subset, FS_CardinalityType
    <3>4. Runs(job)' = Runs(job) /\ jobs'[job] = jobs[job]
      BY <2>1 DEF Runs
    <3> HIDE DEF r, s, c, h, cc, hh
    <3>5. r + cc + hh <= s
      BY <3>1, <3>2, <3>3
    <3>6. QED
      BY <3>2, <3>4, <3>5 DEF CopyAt, r, s, cc, hh
  <2>12. QED
    BY <2>1, <2>10, <2>11 DEF CopyInv
<1>11. ASSUME NEW w \in Worker, Dispatch(w) PROVE CopyInv'
  <2>1. UNCHANGED <<jobs, lists, holds, results>> /\ wpc[w] = "dispatch"
    BY <1>11 DEF Dispatch, histVars
  <2>2. \A v \in Worker \ {w} : wpc'[v] = wpc[v]
    BY <1>11 DEF Dispatch, Goto, QueueOK, WorkersOK
  <2>3. \A id : Holding(id)' \subseteq Holding(id)
    BY <2>1, <2>2 DEF Holding
  <2>4. QED
    BY <1>3, <2>1, <2>3
\* The handler's run is no longer to come, but done.
<1>12. ASSUME NEW w \in Worker, Handle(w) PROVE CopyInv'
  <2>1. PICK job \in 1 .. Len(jobs) :
        /\ holds[w] = job /\ wpc[w] = "handle" /\ UNCHANGED holds
        /\ DOMAIN results' = DOMAIN results \cup {job}
        /\ \A i \in DOMAIN results : i # job => results'[i] = results[i]
        /\ Runs(job)' = Runs(job) + 1
    <3>1. /\ holds[w] \in 1 .. Len(jobs) /\ wpc[w] = "handle" /\ UNCHANGED holds
          /\ DOMAIN results' = DOMAIN results \cup {holds[w]}
          /\ \A i \in DOMAIN results : i # holds[w] => results'[i] = results[i]
          /\ Runs(holds[w])' = Runs(holds[w]) + 1
      BY <1>12, HandleEffect
    <3>2. ASSUME NEW job, job = holds[w] PROVE Runs(job)' = Runs(job) + 1
      BY <3>1, <3>2 DEF Runs
    <3>3. QED
      BY <3>1, <3>2
  <2>2. PICK label \in {"complete", "fail"} : Goto(w, label)
    BY <1>12, HandleEffect DEF Goto
  <2>3. \A id : Holding(id)' \subseteq Holding(id)
    BY <1>4, <2>1, <2>2 DEF Labels
  <2>4. w \in Holding(job) /\ w \notin Holding(job)'
    BY <2>1, <2>2 DEF Holding, Goto, QueueOK, WorkersOK
  <2>5. \A id : id # job => Runs(id)' = Runs(id)
    BY <2>1 DEF Runs
  <2>6. /\ \A id \in 1 .. Len(jobs) : Copies(id)' = Copies(id) /\ jobs'[id] = jobs[id]
        /\ \/ Len(jobs') = Len(jobs)
           \/ /\ Len(jobs') = Len(jobs) + 1
              /\ \E more \in 1 .. MaxSends : \A id : id = Len(jobs) + 1 =>
                   /\ IsFiniteSet(Copies(id)') /\ Cardinality(Copies(id)') = more
                   /\ jobs'[id].sent = more
    <3>1. CASE UNCHANGED <<jobs, lists>>
      BY <3>1 DEF Copies
    <3>2. CASE Push(<<>>, "usage_tracking") /\ Len(jobs) < MaxJobs
      <4>1. <<>> \in QueueNames \cup {<<>>}
        BY Zenon
      <4>2. PICK k \in Keys, more \in 1 .. MaxSends : Pushed(k, more)
        BY <3>2, <4>1, PushEffect DEF QueueOK
      <4>3. /\ \A id \in 1 .. Len(jobs) : Copies(id)' = Copies(id) /\ jobs'[id] = jobs[id]
            /\ \A id : id = Len(jobs) + 1 =>
                 /\ IsFiniteSet(Copies(id)') /\ Cardinality(Copies(id)') = more
                 /\ jobs'[id].sent = more
        BY <4>2, PushedCopies DEF QueueOK
      <4>4. Len(jobs') = Len(jobs) + 1
        BY <4>2 DEF Pushed
      <4>5. QED
        BY <4>3, <4>4
    <3>3. QED
      BY <1>12, <3>1, <3>2 DEF Handle
  <2>7. ASSUME NEW id \in 1 .. Len(jobs), id # job PROVE CopyAt(id)'
    BY <1>2, <2>3, <2>5, <2>6, <2>7
  <2>8. CopyAt(job)'
    <3> DEFINE r == Runs(job)
               s == jobs[job].sent
               c == Cardinality(Copies(job))
               h == Cardinality(Holding(job))
               hh == Cardinality(Holding(job)')
    <3>1. /\ IsFiniteSet(Copies(job)) /\ c \in Nat /\ h \in Nat /\ r \in Nat /\ s \in Nat
          /\ r + c + h <= s
      BY CountTypes, FS_CardinalityType DEF CopyInv, CopyAt
    <3>2. hh \in Nat /\ hh <= h - 1
      <4>1. IsFiniteSet(Holding(job))
        BY CountTypes
      <4>2. IsFiniteSet(Holding(job) \ {w}) /\ Cardinality(Holding(job) \ {w}) = h - 1
        BY <2>4, <4>1, FS_RemoveElement
      <4>3. Holding(job)' \in SUBSET (Holding(job) \ {w})
        BY <2>3, <2>4
      <4>4. QED
        BY <4>2, <4>3, FS_Subset, FS_CardinalityType
    <3>3. /\ Copies(job)' = Copies(job) /\ jobs'[job] = jobs[job]
          /\ Runs(job)' = Runs(job) + 1
      BY <2>1, <2>6
    <3> HIDE DEF r, s, c, h, hh
    <3>4. r + 1 + c + hh <= s
      BY <3>1, <3>2
    <3>5. QED
      BY <3>1, <3>3, <3>4 DEF CopyAt, r, s, c, hh
  <2>9. ASSUME NEW id, id = Len(jobs) + 1, Len(jobs') = Len(jobs) + 1 PROVE CopyAt(id)'
    <3>1. PICK more \in 1 .. MaxSends : /\ IsFiniteSet(Copies(id)') /\ Cardinality(Copies(id)') = more
                                 /\ jobs'[id].sent = more
      BY <1>1, <2>6, <2>9
    <3>2. id \notin DOMAIN results' /\ \A v \in Worker : holds'[v] = holds[v]
      BY <1>1, <1>7, <2>1, <2>9
    <3>3. QED
      BY <1>6, <2>9, <3>1, <3>2
  <2>10. QED
    BY <1>1, <2>6, <2>7, <2>8, <2>9 DEF CopyInv
<1>13. ASSUME NEW w \in Worker, Release(w), UNCHANGED <<jobs, lists, results>> PROVE CopyInv'
  <2>1. \A id \in 1 .. Len(jobs) : Holding(id)' \subseteq Holding(id)
    BY <1>13 DEF Release, Goto, Holding, QueueOK, WorkersOK
  <2>2. QED
    BY <1>3, <1>13, <2>1
<1>14. ASSUME Restart PROVE CopyInv'
  <2>1. \A id \in 1 .. Len(jobs) : Holding(id)' \subseteq Holding(id)
    BY <1>14 DEF Restart, Holding
  <2>2. QED
    BY <1>3, <1>14, <2>1 DEF Restart, redisVars
<1>15. ASSUME NEW w \in Worker, Complete(w) \/ Fail(w) PROVE CopyInv'
  BY <1>13, <1>14, <1>15 DEF Complete, Fail, redisVars, histVars
<1>16. CASE Stop \/ Close \/ UNCHANGED vars
  <2>1. UNCHANGED <<jobs, lists, results, wpc, holds>>
    BY <1>16 DEF Stop, Close, vars, redisVars, workerVars, histVars
  <2>2. QED
    BY <1>3, <1>5, <2>1
<1>17. CASE Crash
  BY <1>14, <1>17 DEF Crash
<1>18. QED
  BY <1>8, <1>9, <1>10, <1>11, <1>12, <1>15, <1>16, <1>17 DEF Next, Work

\* Whatever crashes and whichever commands are sent again, a job runs at most as often as
\* it was pushed, counting what still lies on the lists or with a worker.
THEOREM CopiesRunOnce ==
    ASSUME IsFiniteSet(Worker)
    PROVE  Spec => []HandledAtMostOnce
<1>1. Init => CopyInv
  BY DEF Init, CopyInv
<1>2. QueueOK /\ CopyInv => HandledAtMostOnce
  BY DEF CopyInv, CopyAt, Copies, Holding, Listed, HandledAtMostOnce, Room
<1>3. QueueOK /\ QueueOK' /\ CopyInv /\ [Next]_vars => CopyInv'
  BY CopyStep
<1>4. QED
  BY <1>1, <1>2, <1>3, QueueHolds, PTL DEF Spec
-------------------------------------------------------------------------------
ClosedOK == closed \in BOOLEAN
TalliesOK == popsAfterStop \in Nat /\ faults \in Nat

LEMMA ClosedHolds == Spec => []ClosedOK
<1>1. Init => ClosedOK
  BY DEF Init, ClosedOK
<1>2. ClosedOK /\ [Next]_vars => ClosedOK'
  BY Zenon DEF ClosedOK, Next, Enqueue, Work, CheckRunning, Dequeue, DequeueError, Dispatch, Handle,
     Complete, Fail, Restart, Stop, Close, Crash, vars
<1>3. QED
  BY <1>1, <1>2, PTL DEF Spec

LEMMA TalliesStep == TalliesOK /\ [Next]_vars => TalliesOK'
<1> SUFFICES ASSUME TalliesOK, [Next]_vars PROVE TalliesOK'
  OBVIOUS
<1> USE DEF TalliesOK
<1>1. ASSUME NEW name, NEW type, Push(name, type) PROVE faults' \in Nat
  <2>1. PICK copies \in 1 .. MaxSends : faults' = faults + copies - 1
    BY <1>1 DEF Push
  <2>2. QED
    BY <2>1, QueueConstantsOK
<1>2. ASSUME NEW w \in Worker, Work(w) PROVE TalliesOK'
  <2>1. CASE CheckRunning(w) \/ Dequeue(w) \/ DequeueError(w) \/ Dispatch(w)
    BY <2>1 DEF CheckRunning, Dequeue, DequeueError, PopFails, Dispatch, histVars
  <2>2. CASE Handle(w)
    BY <1>1, <2>2 DEF Handle
  <2>3. CASE Complete(w) \/ Fail(w)
    BY <2>3 DEF Complete, Fail, Restart, histVars
  <2>4. QED
    BY <1>2, <2>1, <2>2, <2>3 DEF Work
<1>3. CASE \E name \in QueueNames, type \in JobType : Enqueue(name, type)
  BY <1>1, <1>3 DEF Enqueue, histVars
<1>4. CASE Stop \/ Close \/ Crash \/ UNCHANGED vars
  BY <1>4 DEF Stop, Close, Crash, Restart, vars, histVars
<1>5. QED
  BY <1>2, <1>3, <1>4 DEF Next

\* Type correctness: every id on a list, with a worker or in the history is a job's.
THEOREM QueueTypesCorrect == Spec => []TypeOK
<1>1. Init => TalliesOK
  BY DEF Init, TalliesOK
<1>2. QueueOK /\ NoJobRecord /\ SwitchOK /\ ClosedOK /\ TalliesOK => TypeOK
  <2> SUFFICES ASSUME QueueOK, NoJobRecord, SwitchOK, ClosedOK, TalliesOK PROVE TypeOK
    OBVIOUS
  <2>1. running \in BOOLEAN /\ closed \in BOOLEAN
    BY Zenon DEF SwitchOK, ClosedOK
  <2>2. /\ jobs \in Seq(Job) /\ lists \in [Keys -> Seq(1 .. Len(jobs))]
        /\ DOMAIN records \subseteq 1 .. Len(jobs)
        /\ wpc \in [Worker -> Labels] /\ holds \in [Worker -> 0 .. Len(jobs)]
        /\ DOMAIN results \subseteq 1 .. Len(jobs) /\ gone \subseteq 1 .. Len(jobs)
        /\ popsAfterStop \in Nat /\ faults \in Nat
    BY DEF QueueOK, JobsOK, ListsOK, WorkersOK, HistoryOK, NoJobRecord, TalliesOK
  <2>3. QED
    BY <2>1, <2>2, Zenon DEF TypeOK, Job, Labels
<1>3. QED
  BY <1>1, <1>2, TalliesStep, QueueHolds, RecordsNeverWritten, SwitchHolds, ClosedHolds, PTL
     DEF Spec
===============================================================================
