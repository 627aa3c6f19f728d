---------------------------- MODULE AuditLogProofs ----------------------------
(***************************************************************************)
(* Proofs about AuditLog, for any traffic, any size of the channel and any *)
(* number of faults: the writer's batch stays small, Close costs no more   *)
(* than what the channel holds, and no event leaves its place in the order *)
(* in which Save accepted them.                                            *)
(*                                                                         *)
(* The second rests on a count: what Save accepted is in the file, in the  *)
(* batch, in the channel, or dropped, and in one of them only.  The third  *)
(* rests on what sifting a sequence does to concatenations.                *)
(***************************************************************************)
EXTENDS AuditLog, SequenceTheorems, FiniteSetTheorems, WellFoundedInduction, TLAPS

\* A sequence of different events has as many elements as its length says.
LEMMA DistinctCount ==
    ASSUME NEW S, NEW s \in Seq(S), IsInjective(s)
    PROVE  IsFiniteSet(Range(s)) /\ Cardinality(Range(s)) = Len(s)
<1>1. Len(s) \in Nat /\ DOMAIN s = 1 .. Len(s) /\ s \in [1 .. Len(s) -> Range(s)]
  BY DEF Range
<1>2. s \in Bijection(1 .. Len(s), Range(s))
  BY <1>1 DEF Bijection, Injection, Surjection, IsInjective, Range
<1>3. ExistsBijection(1 .. Len(s), Range(s))
  BY <1>2 DEF ExistsBijection
<1>4. QED
  BY <1>1, <1>3, FS_NatBijection, FS_CountingElements

LEMMA AppendDistinct ==
    ASSUME NEW S, NEW s \in Seq(S), NEW e \in S
    PROVE  /\ Append(s, e) \in Seq(S) /\ Len(Append(s, e)) = Len(s) + 1
           /\ Range(Append(s, e)) = Range(s) \cup {e}
           /\ IsInjective(s) /\ e \notin Range(s) => IsInjective(Append(s, e))
<1> DEFINE t == Append(s, e)
           last == Len(s) + 1
<1>1. /\ t \in Seq(S) /\ Len(t) = last /\ t[last] = e
      /\ \A i \in 1 .. Len(s) : t[i] = s[i]
  BY AppendProperties
<1>2. /\ DOMAIN s = 1 .. Len(s) /\ Len(s) \in Nat /\ DOMAIN t = DOMAIN s \cup {last}
      /\ last \notin DOMAIN s
  BY <1>1
<1>3. \A i \in DOMAIN s : t[i] = s[i]
  BY <1>1, <1>2
<1> HIDE DEF t, last
<1>4. Range(t) = Range(s) \cup {e}
  BY <1>1, <1>2, <1>3 DEF Range
<1>5. IsInjective(s) /\ e \notin Range(s) => IsInjective(t)
  BY <1>1, <1>2, <1>3 DEF IsInjective, Range
<1>6. QED
  BY <1>1, <1>4, <1>5 DEF t, last

LEMMA TailDistinct ==
    ASSUME NEW S, NEW s \in Seq(S), s # <<>>
    PROVE  /\ Head(s) \in Range(s) /\ Head(s) \in S
           /\ Tail(s) \in Seq(S) /\ Len(Tail(s)) = Len(s) - 1
           /\ Range(Tail(s)) \subseteq Range(s)
           /\ IsInjective(s) => IsInjective(Tail(s)) /\ Head(s) \notin Range(Tail(s))
<1> DEFINE t == Tail(s)
<1>1. /\ Head(s) \in S /\ t \in Seq(S) /\ Len(t) = Len(s) - 1
      /\ \A i \in 1 .. Len(t) : t[i] = s[i + 1]
  BY HeadTailProperties
<1>2. /\ Len(s) \in Nat \ {0} /\ DOMAIN s = 1 .. Len(s) /\ DOMAIN t = 1 .. Len(s) - 1
      /\ Head(s) = s[1]
  BY <1>1
<1>3. \A i \in DOMAIN t : i + 1 \in DOMAIN s /\ t[i] = s[i + 1] /\ i + 1 # 1
  BY <1>1, <1>2
<1> HIDE DEF t
<1>4. 1 \in DOMAIN s /\ \A i, j \in DOMAIN t : i + 1 = j + 1 => i = j
  BY <1>2
<1>5. Head(s) \in Range(s) /\ Range(t) \subseteq Range(s)
  BY <1>2, <1>3, <1>4 DEF Range
<1>6. IsInjective(s) => IsInjective(t) /\ Head(s) \notin Range(t)
  BY <1>2, <1>3, <1>4 DEF IsInjective, Range
<1>7. QED
  BY <1>1, <1>5, <1>6 DEF t
-------------------------------------------------------------------------------
(* Types.                                                                  *)

Steps == {"serving", "unaudited", "save", "wait", "saved", "refused", "panicked", "crashed"}

\* The types of what the writer writes.
WriteTypes ==
    /\ pending \in Seq(Audited) /\ file \in Seq(Audited) /\ dropped \subseteq Audited
    /\ failed \in Nat /\ faults \in Nat

LEMMA RangeType ==
    ASSUME NEW S, NEW s \in Seq(S)
    PROVE  Range(s) \subseteq S
  BY DEF Range

LEMMA WriteTyped ==
    ASSUME WriteTypes, NEW batch \in Seq(Audited), write(batch)
    PROVE  WriteTypes'
<1>1. file \o batch \in Seq(Audited) /\ <<>> \in Seq(Audited)
  BY ConcatProperties, EmptySeq DEF WriteTypes
<1>2. Range(batch) \subseteq Audited
  BY RangeType
<1>3. failed + 1 \in Nat /\ faults + 1 \in Nat
  BY DEF WriteTypes
<1> USE <1>1, <1>2, <1>3 DEF WriteTypes, Fault
<1>4. CASE /\ file' = file \o batch /\ pending' = <<>>
           /\ UNCHANGED <<dropped, failed, faults>>
  BY <1>4
<1>5. CASE /\ batch # <<>> /\ Fault /\ pending' = batch
           /\ failed' = failed + 1 /\ UNCHANGED <<file, dropped>>
  BY <1>5
<1>6. CASE /\ batch # <<>> /\ Fault /\ pending' = <<>>
           /\ dropped' = dropped \cup Range(batch) /\ UNCHANGED <<file, failed>>
  BY <1>6
<1>7. QED
  BY <1>4, <1>5, <1>6 DEF write

\* Only requests with an audited action come as far as Save.
SavingAudited == \A r \in Request : step[r] \in {"save", "wait"} => r \in Audited

LEMMA TypeStep == TypeOK /\ SavingAudited /\ [Next]_vars => TypeOK'
<1> SUFFICES ASSUME TypeOK, SavingAudited, [Next]_vars PROVE TypeOK'
  OBVIOUS
<1> DEFINE Calls == step \in [Request -> Steps] /\ accepted \in Seq(Audited)
           Channel == buffer \in Seq(Audited) /\ Len(buffer) <= BufferSize
           Flags == open \in BOOLEAN /\ done \in BOOLEAN
           Loop == writer \in {"select", "closing", "ended"}
<1>1. Calls /\ Channel /\ Flags /\ Loop /\ WriteTypes
  BY Zenon DEF TypeOK, WriteTypes, Steps
<1>2. SUFFICES Calls' /\ Channel' /\ Flags' /\ Loop' /\ WriteTypes'
  BY Zenon DEF TypeOK, WriteTypes, Steps
<1>3. Audited \subseteq Request /\ BufferSize \in Nat \ {0}
  BY AuditConstantsOK
<1> USE DEF callVars, writeVars, Move, Steps
<1>4. ASSUME NEW r \in Request, Served(r) \/ Block(r) \/ GiveUp(r) \/ Panic(r)
      PROVE  Calls' /\ UNCHANGED <<buffer, open, done, writer, writeVars>>
  BY <1>1, <1>4 DEF Served, Block, GiveUp, Panic
<1>5. ASSUME NEW r \in Audited, Send(r)
      PROVE  Calls' /\ Channel' /\ UNCHANGED <<open, done, writer, writeVars>>
  <2>1. /\ Append(buffer, r) \in Seq(Audited) /\ Len(Append(buffer, r)) = Len(buffer) + 1
        /\ Append(accepted, r) \in Seq(Audited)
    BY <1>1, AppendDistinct
  <2>2. QED
    BY <1>1, <1>3, <1>5, <2>1 DEF Send, HasRoom
<1>6. ASSUME Receive
      PROVE  Channel' /\ WriteTypes' /\ UNCHANGED <<callVars, open, done, writer>>
  <2>1. Head(buffer) \in Audited /\ buffer' \in Seq(Audited) /\ Len(buffer') = Len(buffer) - 1
    BY <1>1, <1>6, TailDistinct DEF Receive
  <2>2. Append(pending, Head(buffer)) \in Seq(Audited)
    BY <1>1, <2>1, AppendDistinct DEF WriteTypes
  <2>3. WriteTypes'
    <3>1. CASE write(Append(pending, Head(buffer)))
      BY <1>1, <2>2, <3>1, WriteTyped
    <3>2. CASE pending' = Append(pending, Head(buffer)) /\ UNCHANGED <<file, dropped, failed, faults>>
      BY <1>1, <2>2, <3>2 DEF WriteTypes
    <3>3. QED
      BY <1>6, <3>1, <3>2 DEF Receive
  <2>4. QED
    BY <1>1, <1>3, <1>6, <2>1, <2>3 DEF Receive
<1>7. ASSUME Flush \/ Finish PROVE WriteTypes' /\ Loop' /\ UNCHANGED <<callVars, buffer, open, done>>
  <2>1. pending \in Seq(Audited)
    BY <1>1 DEF WriteTypes
  <2>2. QED
    BY <1>1, <1>7, <2>1, WriteTyped DEF Flush, Finish
<1>8. ASSUME CloseBuffer PROVE Flags' /\ Loop' /\ UNCHANGED <<callVars, buffer, writeVars>>
  BY <1>1, <1>8, Zenon DEF CloseBuffer
<1>9. ASSUME Close PROVE Flags' /\ UNCHANGED <<callVars, buffer, writer, writeVars>>
  BY <1>1, <1>9, Zenon DEF Close
<1>10. ASSUME Crash PROVE Calls' /\ Channel' /\ Flags' /\ Loop' /\ WriteTypes'
  <2>1. Calls' /\ Loop'
    BY <1>1, <1>10 DEF Crash
  <2>2. Flags'
    BY <1>10, Zenon DEF Crash
  <2>3. Channel'
    BY <1>3, <1>10 DEF Crash
  <2>4. WriteTypes'
    BY <1>1, <1>10, RangeType DEF Crash, Fault, WriteTypes
  <2>5. QED
    BY <2>1, <2>2, <2>3, <2>4
<1>11. UNCHANGED writeVars => WriteTypes'
  BY <1>1 DEF WriteTypes
<1>12. ASSUME NEW r \in Request, Send(r) PROVE r \in Audited
  BY <1>12 DEF Send, SavingAudited
<1>13. QED
  BY <1>1, <1>4, <1>5, <1>6, <1>7, <1>8, <1>9, <1>10, <1>11, <1>12 DEF Next, Save, writeLoop, vars

LEMMA SavingStep == TypeOK /\ SavingAudited /\ [Next]_vars => SavingAudited'
<1> SUFFICES ASSUME TypeOK, SavingAudited, [Next]_vars,
                    NEW r \in Request, step'[r] \in {"save", "wait"}
             PROVE  r \in Audited
  BY DEF SavingAudited
<1>1. step \in [Request -> Steps]
  BY DEF TypeOK, Steps
<1> USE DEF callVars, writeVars, Move
<1>2. ASSUME NEW q \in Request, Served(q) \/ Save(q)
      PROVE  step[r] \in {"save", "wait"} \/ r \in Audited
  BY <1>1, <1>2 DEF Served, Save, Send, Block, GiveUp, Panic
<1>3. ASSUME writeLoop \/ Close \/ UNCHANGED vars PROVE step' = step
  BY <1>3, Zenon DEF writeLoop, Receive, Flush, Finish, CloseBuffer, Close, vars
<1>4. ASSUME Crash PROVE step[r] \in {"save", "wait"}
  BY <1>1, <1>4 DEF Crash
<1>5. QED
  BY <1>2, <1>3, <1>4 DEF Next, SavingAudited

LEMMA Typed == Spec => [](TypeOK /\ SavingAudited)
<1>1. Init => TypeOK /\ SavingAudited
  <2> SUFFICES ASSUME Init PROVE TypeOK /\ SavingAudited
    OBVIOUS
  <2>1. {open, done} \subseteq BOOLEAN /\ writer \in {"select", "closing", "ended"}
    BY Zenon DEF Init
  <2>2. /\ step \in [Request -> Steps] /\ {failed, faults} \subseteq Nat
        /\ {buffer, pending, file, accepted} \subseteq Seq(Audited)
        /\ Len(buffer) <= BufferSize /\ dropped \subseteq Audited
    BY AuditConstantsOK, EmptySeq DEF Init, Steps
  <2>3. SavingAudited
    BY DEF Init, SavingAudited
  <2>4. QED
    BY <2>1, <2>2, <2>3, Zenon DEF TypeOK, Steps
<1>2. TypeOK /\ SavingAudited /\ [Next]_vars => (TypeOK /\ SavingAudited)'
  BY TypeStep, SavingStep
<1>3. QED
  BY <1>1, <1>2, PTL DEF Spec

\* The channel never holds more than its capacity, and nothing but audited requests
\* comes into the channel, the batch, the file or the history.
THEOREM AuditTypeCorrect == Spec => []TypeOK
  BY Typed, PTL
-------------------------------------------------------------------------------
(* The count.                                                              *)

\* What Save accepted and the file does not hold yet.
Waiting == Range(pending) \cup Range(buffer)

\* The events that wait are different ones, all accepted, none of them dropped.
Apart ==
    /\ IsInjective(pending) /\ IsInjective(buffer)
    /\ Range(pending) \cap Range(buffer) = {}
    /\ dropped \cap Waiting = {} /\ IsFiniteSet(dropped)
    /\ \A r \in Waiting \cup dropped : step[r] = "saved"

Counted == Len(accepted) = Len(file) + Len(pending) + Len(buffer) + Cardinality(dropped)

\* A writer that has left its loop has written its batch, or could not.
LastBatch == writer # "select" /\ failed = 0 => pending = <<>>

CountInv == Apart /\ Counted /\ LastBatch /\ BatchBounded

\* What a write does to a batch of new events: it is in the file, with the writer
\* or dropped, and the writer keeps it only when the file could not be opened.
LEMMA WriteCounts ==
    ASSUME WriteTypes, NEW batch \in Seq(Audited), write(batch),
           IsInjective(batch), dropped \cap Range(batch) = {}, IsFiniteSet(dropped)
    PROVE  /\ pending' = <<>> \/ (pending' = batch /\ failed' = failed + 1)
           /\ Range(pending') \subseteq Range(batch) /\ IsInjective(pending')
           /\ dropped \subseteq dropped' /\ dropped' \subseteq dropped \cup Range(batch)
           /\ dropped' \cap Range(pending') = {} /\ IsFiniteSet(dropped')
           /\ failed' >= failed
           /\ Len(file') + Len(pending') + Cardinality(dropped')
              = Len(file) + Len(batch) + Cardinality(dropped)
<1>1. Len(file \o batch) = Len(file) + Len(batch) /\ Len(batch) \in Nat /\ Len(file) \in Nat
  BY ConcatProperties DEF WriteTypes
<1>2. Len(<<>>) = 0 /\ Range(<<>>) = {} /\ IsInjective(<<>>)
  BY DEF Range, IsInjective
<1>3. Cardinality(dropped) \in Nat /\ failed \in Nat /\ faults \in Nat
  BY FS_CardinalityType DEF WriteTypes
<1>4. /\ IsFiniteSet(Range(batch)) /\ Cardinality(Range(batch)) = Len(batch)
  BY DistinctCount
<1>5. /\ IsFiniteSet(dropped \cup Range(batch))
      /\ Cardinality(dropped \cup Range(batch)) = Cardinality(dropped) + Len(batch)
  <2>1. Cardinality(dropped \cap Range(batch)) = 0
    BY FS_EmptySet
  <2>2. /\ IsFiniteSet(dropped \cup Range(batch))
        /\ Cardinality(dropped \cup Range(batch))
           = Cardinality(dropped) + Cardinality(Range(batch)) - Cardinality(dropped \cap Range(batch))
    BY <1>4, FS_Union, Zenon
  <2>3. QED
    BY <1>1, <1>3, <1>4, <2>1, <2>2
<1>6. CASE /\ file' = file \o batch /\ pending' = <<>>
           /\ UNCHANGED <<dropped, failed, faults>>
  BY <1>1, <1>2, <1>3, <1>6
<1>7. CASE /\ batch # <<>> /\ Fault /\ pending' = batch
           /\ failed' = failed + 1 /\ UNCHANGED <<file, dropped>>
  BY <1>1, <1>3, <1>7
<1>8. CASE /\ batch # <<>> /\ Fault /\ pending' = <<>>
           /\ dropped' = dropped \cup Range(batch) /\ UNCHANGED <<file, failed>>
  BY <1>1, <1>2, <1>3, <1>5, <1>8
<1>9. QED
  BY <1>6, <1>7, <1>8 DEF write

\* The same, of a batch that takes over what the writer and part of the channel held.
LEMMA WriteKeepsCount ==
    ASSUME TypeOK, CountInv, NEW batch \in Seq(Audited), write(batch),
           IsInjective(batch), Range(batch) \subseteq Waiting,
           buffer' \in Seq(Audited), IsInjective(buffer'), Range(buffer') \subseteq Range(buffer),
           Range(batch) \cap Range(buffer') = {},
           Len(batch) + Len(buffer') = Len(pending) + Len(buffer),
           step' = step, accepted' = accepted,
           Len(batch) <= BufferSize + failed
    PROVE  Apart' /\ Counted' /\ BatchBounded' /\ (failed' = 0 => pending' = <<>>)
<1>1. WriteTypes /\ BufferSize \in Nat \ {0} /\ Len(pending) \in Nat /\ Len(buffer) \in Nat
  BY AuditConstantsOK, Zenon, LenProperties DEF TypeOK, WriteTypes
<1>2. /\ IsFiniteSet(dropped) /\ dropped \cap Waiting = {}
      /\ \A r \in Waiting \cup dropped : step[r] = "saved"
  BY DEF CountInv, Apart
<1>3. dropped \cap Range(batch) = {}
  BY <1>2
<1>4. /\ pending' = <<>> \/ (pending' = batch /\ failed' = failed + 1)
      /\ Range(pending') \subseteq Range(batch) /\ IsInjective(pending')
      /\ dropped \subseteq dropped' /\ dropped' \subseteq dropped \cup Range(batch)
      /\ dropped' \cap Range(pending') = {} /\ IsFiniteSet(dropped')
      /\ failed' >= failed
      /\ Len(file') + Len(pending') + Cardinality(dropped')
         = Len(file) + Len(batch) + Cardinality(dropped)
  BY <1>1, <1>2, <1>3, WriteCounts
<1>5. WriteTypes'
  BY <1>1, WriteTyped
<1>6. Apart'
  <2>1. Range(pending') \cap Range(buffer') = {}
    BY <1>4
  <2>2. dropped' \cap Waiting' = {}
    BY <1>2, <1>4 DEF Waiting
  <2>3. \A r \in (Waiting \cup dropped)' : step'[r] = "saved"
    BY <1>2, <1>4 DEF Waiting
  <2>4. QED
    BY <1>4, <2>1, <2>2, <2>3 DEF Apart
<1>7. Counted'
  <2>1. /\ Len(file) \in Nat /\ Len(file') \in Nat /\ Len(pending') \in Nat
        /\ Len(batch) \in Nat /\ Len(buffer') \in Nat
    BY <1>1, <1>5, LenProperties DEF WriteTypes
  <2>2. Cardinality(dropped) \in Nat /\ Cardinality(dropped') \in Nat
    BY <1>2, <1>4, FS_CardinalityType
  <2>3. Len(accepted') = Len(file) + Len(pending) + Len(buffer) + Cardinality(dropped)
    BY DEF CountInv, Counted
  <2>4. Len(file') + Len(pending') + Len(buffer') + Cardinality(dropped')
        = Len(file) + Len(pending) + Len(buffer) + Cardinality(dropped)
    <3> DEFINE f == Len(file)     f2 == Len(file')
               p == Len(pending)  p2 == Len(pending')
               b == Len(buffer)   b2 == Len(buffer')
               d == Cardinality(dropped)  d2 == Cardinality(dropped')
               n == Len(batch)
    <3>1. /\ f \in Nat /\ p \in Nat /\ b \in Nat /\ d \in Nat /\ n \in Nat
          /\ f2 \in Nat /\ p2 \in Nat /\ b2 \in Nat /\ d2 \in Nat
      BY <1>1, <2>1, <2>2
    <3>2. n + b2 = p + b /\ f2 + p2 + d2 = f + n + d
      BY <1>4
    <3> HIDE DEF f, f2, p, p2, b, b2, d, d2, n
    <3>3. f2 + p2 + b2 + d2 = f + p + b + d
      BY <3>1, <3>2
    <3>4. QED
      BY <3>3, Zenon DEF f, f2, p, p2, b, b2, d, d2
  <2>5. QED
    BY <2>3, <2>4, Zenon DEF Counted
<1>8. BatchBounded' /\ (failed' = 0 => pending' = <<>>)
  <2>1. failed \in Nat /\ failed' \in Nat /\ Len(<<>>) = 0 /\ Len(batch) \in Nat
    BY <1>1, <1>5, LenProperties DEF WriteTypes
  <2>2. QED
    BY <1>1, <1>4, <2>1 DEF BatchBounded
<1>9. QED
  BY <1>6, <1>7, <1>8

\* Everything but Send and the request's own step leaves the books as they are.
LEMMA Unmoved ==
    ASSUME CountInv, UNCHANGED <<buffer, pending, file, dropped, failed, accepted>>,
           \A r \in Waiting \cup dropped : step'[r] = "saved",
           writer' = writer \/ writer # "select"
    PROVE  CountInv'
<1>1. Waiting' = Waiting
  BY DEF Waiting
<1>2. Apart'
  BY <1>1 DEF CountInv, Apart
<1>3. Counted' /\ LastBatch' /\ BatchBounded'
  BY DEF CountInv, Counted, LastBatch, BatchBounded
<1>4. QED
  BY <1>2, <1>3 DEF CountInv

LEMMA SendCounts ==
    ASSUME TypeOK, SavingAudited, CountInv, NEW r \in Request, Send(r)
    PROVE  CountInv'
<1>1. /\ r \in Audited /\ step[r] # "saved" /\ step \in [Request -> Steps]
      /\ buffer \in Seq(Audited) /\ accepted \in Seq(Audited)
      /\ pending \in Seq(Audited) /\ file \in Seq(Audited)
  BY DEF Send, SavingAudited, TypeOK, Steps
<1>2. /\ buffer' = Append(buffer, r) /\ accepted' = Append(accepted, r)
      /\ step' = [step EXCEPT ![r] = "saved"]
      /\ UNCHANGED <<writer, pending, file, dropped, failed>>
  BY DEF Send, Move, writeVars
<1>3. r \notin Waiting \cup dropped
  BY <1>1 DEF CountInv, Apart
<1>4. /\ Len(buffer') = Len(buffer) + 1 /\ Len(accepted') = Len(accepted) + 1
      /\ Range(buffer') = Range(buffer) \cup {r}
      /\ IsInjective(buffer) /\ r \notin Range(buffer) => IsInjective(buffer')
  BY <1>1, <1>2, AppendDistinct
<1>5. Apart'
  <2>1. Waiting' = Waiting \cup {r}
    BY <1>2, <1>4 DEF Waiting
  <2>2. IsInjective(buffer') /\ Range(pending') \cap Range(buffer') = {}
    BY <1>2, <1>3, <1>4 DEF CountInv, Apart, Waiting
  <2>3. dropped' \cap Waiting' = {}
    BY <1>2, <1>3, <2>1 DEF CountInv, Apart
  <2>4. \A q \in (Waiting \cup dropped)' : step'[q] = "saved"
    <3> SUFFICES ASSUME NEW q \in (Waiting \cup dropped)' PROVE step'[q] = "saved"
      OBVIOUS
    <3>1. CASE q = r
      BY <1>1, <1>2, <3>1
    <3>2. CASE q # r
      <4>1. q \in Waiting \cup dropped
        BY <1>2, <2>1, <3>2
      <4>2. step[q] = "saved"
        BY <4>1 DEF CountInv, Apart
      <4>3. QED
        BY <1>1, <1>2, <3>2, <4>2
    <3>3. QED
      BY <3>1, <3>2
  <2>5. QED
    BY <1>2, <2>2, <2>3, <2>4 DEF CountInv, Apart
<1>6. Counted'
  <2>1. /\ Len(file) \in Nat /\ Len(pending) \in Nat /\ Len(buffer) \in Nat
        /\ Cardinality(dropped) \in Nat
    BY <1>1, LenProperties, FS_CardinalityType DEF CountInv, Apart
  <2>2. QED
    BY <1>2, <1>4, <2>1 DEF CountInv, Counted
<1>7. LastBatch' /\ BatchBounded'
  BY <1>2 DEF CountInv, LastBatch, BatchBounded
<1>8. QED
  BY <1>5, <1>6, <1>7 DEF CountInv

LEMMA ReceiveCounts ==
    ASSUME TypeOK, CountInv, Receive
    PROVE  CountInv'
<1> DEFINE batch == Append(pending, Head(buffer))
<1>1. /\ buffer \in Seq(Audited) /\ pending \in Seq(Audited) /\ buffer # <<>>
      /\ Len(pending) \in Nat /\ Len(buffer) \in Nat /\ failed \in Nat
      /\ BufferSize \in Nat \ {0}
  BY AuditConstantsOK, LenProperties DEF TypeOK, Receive
<1>2. buffer' = Tail(buffer) /\ step' = step /\ accepted' = accepted /\ writer' = writer
      /\ writer = "select"
  BY DEF Receive, callVars
<1>3. /\ Head(buffer) \in Range(buffer) /\ Head(buffer) \in Audited
      /\ buffer' \in Seq(Audited) /\ Len(buffer') = Len(buffer) - 1
      /\ Range(buffer') \subseteq Range(buffer)
      /\ IsInjective(buffer') /\ Head(buffer) \notin Range(buffer')
  BY <1>1, <1>2, TailDistinct DEF CountInv, Apart
<1>4. /\ batch \in Seq(Audited) /\ Len(batch) = Len(pending) + 1
      /\ Range(batch) = Range(pending) \cup {Head(buffer)}
      /\ IsInjective(pending) /\ Head(buffer) \notin Range(pending) => IsInjective(batch)
  BY <1>1, <1>3, AppendDistinct
<1>5. write(batch) \/ /\ Len(batch) < BufferSize /\ pending' = batch
                      /\ UNCHANGED <<file, dropped, failed, faults>>
  <2>1. ~(Len(batch) >= BufferSize) => Len(batch) < BufferSize
    BY <1>1, <1>4
  <2>2. QED
    BY <2>1 DEF Receive
<1> HIDE DEF batch
<1>6. /\ IsInjective(batch) /\ Range(batch) \cap Range(buffer') = {}
      /\ Range(batch) \subseteq Waiting /\ Range(batch) \cup Range(buffer') \subseteq Waiting
  BY <1>3, <1>4 DEF CountInv, Apart, Waiting
<1>7. Len(batch) + Len(buffer') = Len(pending) + Len(buffer) /\ Len(batch) <= BufferSize + failed
  BY <1>1, <1>3, <1>4 DEF CountInv, BatchBounded
<1>8. CASE write(batch)
  <2>1. Apart' /\ Counted' /\ BatchBounded'
    BY <1>2, <1>3, <1>4, <1>6, <1>7, <1>8, WriteKeepsCount
  <2>2. QED
    BY <1>2, <2>1 DEF CountInv, LastBatch
<1>9. CASE /\ Len(batch) < BufferSize /\ pending' = batch
           /\ UNCHANGED <<file, dropped, failed, faults>>
  <2>1. Waiting' \subseteq Waiting
    BY <1>6, <1>9 DEF Waiting
  <2>2. Apart'
    BY <1>2, <1>3, <1>6, <1>9, <2>1 DEF CountInv, Apart
  <2>3. Counted'
    <3>1. Len(file) \in Nat /\ Cardinality(dropped) \in Nat /\ Len(batch) \in Nat /\ Len(buffer') \in Nat
      BY <1>1, <1>3, <1>4, LenProperties, FS_CardinalityType DEF TypeOK, CountInv, Apart
    <3>2. Len(pending') + Len(buffer') = Len(pending) + Len(buffer)
      BY <1>7, <1>9
    <3>3. QED
      BY <1>1, <1>2, <1>7, <1>9, <3>1, <3>2 DEF CountInv, Counted
  <2>4. LastBatch' /\ BatchBounded'
    <3>1. Len(batch) \in Nat
      BY <1>4, LenProperties
    <3>2. QED
      BY <1>1, <1>2, <1>9, <3>1 DEF LastBatch, BatchBounded
  <2>5. QED
    BY <2>2, <2>3, <2>4 DEF CountInv
<1>10. QED
  BY <1>5, <1>8, <1>9

LEMMA FlushCounts ==
    ASSUME TypeOK, CountInv, Flush \/ Finish
    PROVE  CountInv'
<1>1. /\ buffer \in Seq(Audited) /\ pending \in Seq(Audited) /\ failed \in Nat
      /\ Len(pending) \in Nat /\ BufferSize \in Nat \ {0}
  BY AuditConstantsOK, LenProperties DEF TypeOK
<1>2. write(pending) /\ step' = step /\ accepted' = accepted /\ buffer' = buffer
  BY DEF Flush, Finish, callVars
<1>3. /\ IsInjective(pending) /\ IsInjective(buffer) /\ Range(pending) \cap Range(buffer) = {}
      /\ Range(pending) \subseteq Waiting /\ Len(pending) <= BufferSize + failed
  BY <1>1 DEF CountInv, Apart, Waiting, BatchBounded
<1>4. Apart' /\ Counted' /\ BatchBounded' /\ (failed' = 0 => pending' = <<>>)
  BY <1>1, <1>2, <1>3, WriteKeepsCount
<1>5. QED
  BY <1>4 DEF CountInv, LastBatch

LEMMA CrashCounts ==
    ASSUME TypeOK, CountInv, Crash
    PROVE  CountInv'
<1>1. /\ buffer \in Seq(Audited) /\ pending \in Seq(Audited) /\ file \in Seq(Audited)
      /\ BufferSize \in Nat \ {0} /\ step \in [Request -> Steps]
      /\ dropped \subseteq Audited /\ Audited \subseteq Request
  BY AuditConstantsOK DEF TypeOK, Steps
<1>2. /\ buffer' = <<>> /\ pending' = <<>> /\ failed' = 0 /\ writer' = "select"
      /\ dropped' = dropped \cup Waiting /\ file' = file /\ accepted' = accepted
      /\ step' = [r \in Request |-> IF step[r] \in {"save", "wait"} THEN "crashed" ELSE step[r]]
  BY DEF Crash, Waiting
<1>3. Len(<<>>) = 0 /\ Range(<<>>) = {} /\ IsInjective(<<>>)
  BY DEF Range, IsInjective
<1>4. /\ IsFiniteSet(Range(pending)) /\ Cardinality(Range(pending)) = Len(pending)
      /\ IsFiniteSet(Range(buffer)) /\ Cardinality(Range(buffer)) = Len(buffer)
  BY <1>1, DistinctCount DEF CountInv, Apart
<1>5. Len(pending) \in Nat /\ Len(buffer) \in Nat /\ Len(file) \in Nat /\ Cardinality(dropped) \in Nat
  BY <1>1, LenProperties, FS_CardinalityType DEF CountInv, Apart
<1>6. IsFiniteSet(Waiting) /\ Cardinality(Waiting) = Len(pending) + Len(buffer)
  <2>1. /\ IsFiniteSet(Waiting)
        /\ Cardinality(Waiting) = Cardinality(Range(pending)) + Cardinality(Range(buffer))
                                  - Cardinality(Range(pending) \cap Range(buffer))
    BY <1>4, FS_Union, Zenon DEF Waiting
  <2>2. Cardinality(Range(pending) \cap Range(buffer)) = 0
    BY FS_EmptySet DEF CountInv, Apart
  <2>3. QED
    BY <1>4, <1>5, <2>1, <2>2
<1>7. IsFiniteSet(dropped') /\ Cardinality(dropped') = Cardinality(dropped) + Len(pending) + Len(buffer)
  <2>1. /\ IsFiniteSet(dropped')
        /\ Cardinality(dropped') = Cardinality(dropped) + Cardinality(Waiting)
                                   - Cardinality(dropped \cap Waiting)
    BY <1>2, <1>6, FS_Union, Zenon DEF CountInv, Apart
  <2>2. Cardinality(dropped \cap Waiting) = 0
    BY FS_EmptySet DEF CountInv, Apart
  <2>3. QED
    BY <1>5, <1>6, <2>1, <2>2
<1>8. Waiting' = {}
  BY <1>2, <1>3 DEF Waiting
<1>9. \A r \in dropped' : step'[r] = "saved"
  <2>1. \A r \in dropped' : r \in Request /\ step[r] = "saved"
    <3>1. Waiting \subseteq Audited
      BY <1>1, RangeType DEF Waiting
    <3>2. QED
      BY <1>1, <1>2, <3>1 DEF CountInv, Apart
  <2>2. QED
    BY <1>2, <2>1
<1>10. Apart'
  BY <1>2, <1>3, <1>7, <1>8, <1>9 DEF Apart
<1>11. Counted'
  BY <1>2, <1>3, <1>5, <1>7 DEF CountInv, Counted
<1>12. LastBatch' /\ BatchBounded'
  BY <1>1, <1>2, <1>3 DEF LastBatch, BatchBounded
<1>13. QED
  BY <1>10, <1>11, <1>12 DEF CountInv

LEMMA CountStep == TypeOK /\ SavingAudited /\ CountInv /\ [Next]_vars => CountInv'
<1> SUFFICES ASSUME TypeOK, SavingAudited, CountInv, [Next]_vars PROVE CountInv'
  OBVIOUS
<1> USE DEF callVars, writeVars
<1>1. /\ step \in [Request -> Steps]
      /\ \A q \in Waiting \cup dropped : step[q] = "saved"
  BY DEF TypeOK, Steps, CountInv, Apart
<1>2. ASSUME NEW r \in Request, Served(r) \/ Block(r) \/ GiveUp(r) \/ Panic(r) PROVE CountInv'
  <2>1. /\ UNCHANGED <<accepted, buffer, writer, pending, file, dropped, failed>>
        /\ step[r] # "saved" /\ \E label \in Steps : step' = [step EXCEPT ![r] = label]
    BY <1>2 DEF Served, Block, GiveUp, Panic, Move, Steps
  <2>2. \A q \in Waiting \cup dropped : step'[q] = "saved"
    BY <1>1, <2>1
  <2>3. QED
    BY <2>1, <2>2, Unmoved
<1>3. ASSUME CloseBuffer \/ Close \/ UNCHANGED vars PROVE CountInv'
  <2>1. /\ UNCHANGED <<buffer, pending, file, dropped, failed, accepted>> /\ step' = step
        /\ writer' = writer \/ writer # "select"
    BY <1>3 DEF CloseBuffer, Close, vars
  <2>2. \A q \in Waiting \cup dropped : step'[q] = "saved"
    BY <1>1, <2>1
  <2>3. QED
    BY <2>1, <2>2, Unmoved
<1>4. QED
  BY <1>2, <1>3, SendCounts, ReceiveCounts, FlushCounts, CrashCounts DEF Next, Save, writeLoop

LEMMA Count == Spec => [](TypeOK /\ CountInv)
<1>1. Init => CountInv
  <2> SUFFICES ASSUME Init PROVE CountInv
    OBVIOUS
  <2>1. /\ pending = <<>> /\ buffer = <<>> /\ dropped = {} /\ file = <<>> /\ accepted = <<>>
        /\ failed = 0 /\ BufferSize \in Nat \ {0}
    BY AuditConstantsOK DEF Init
  <2>2. Len(<<>>) = 0 /\ Range(<<>>) = {} /\ IsInjective(<<>>)
    BY DEF Range, IsInjective
  <2>3. IsFiniteSet(dropped) /\ Cardinality(dropped) = 0
    BY <2>1, FS_EmptySet
  <2>4. Apart
    BY <2>1, <2>2, <2>3 DEF Apart, Waiting
  <2>5. Counted /\ LastBatch /\ BatchBounded
    BY <2>1, <2>2, <2>3 DEF Counted, LastBatch, BatchBounded
  <2>6. QED
    BY <2>4, <2>5 DEF CountInv
<1>2. TypeOK /\ SavingAudited /\ CountInv /\ [Next]_vars => CountInv'
  BY CountStep
<1>3. QED
  BY <1>1, <1>2, Typed, PTL DEF Spec

\* The writer's batch is shorter than the channel is long, but for one event with
\* each time the file could not be opened.
THEOREM BatchStaysSmall == Spec => []BatchBounded
<1>1. CountInv => BatchBounded
  BY DEF CountInv
<1>2. QED
  BY <1>1, Count, PTL

\* Once the writer has ended, and as long as the file opened whenever it was needed,
\* the accepted events that are neither written nor dropped fit into the channel.
THEOREM CloseCostsAtMostBuffer == Spec => []CloseLosesAtMostBuffer
<1>1. TypeOK /\ CountInv => CloseLosesAtMostBuffer
  <2> SUFFICES ASSUME TypeOK, CountInv, writer = "ended", failed = 0
               PROVE  Len(accepted) - Cardinality(dropped) - Len(file) <= BufferSize
    BY DEF CloseLosesAtMostBuffer
  <2>1. pending = <<>> /\ Len(<<>>) = 0
    BY DEF CountInv, LastBatch
  <2>2. Len(accepted) = Len(file) + Len(pending) + Len(buffer) + Cardinality(dropped)
    BY DEF CountInv, Counted
  <2>3. Len(buffer) <= BufferSize /\ BufferSize \in Nat
    BY AuditConstantsOK DEF TypeOK
  <2>4. Len(file) \in Nat /\ Len(buffer) \in Nat /\ Cardinality(dropped) \in Nat
    BY LenProperties, FS_CardinalityType DEF TypeOK, CountInv, Apart
  <2>5. QED
    BY <2>1, <2>2, <2>3, <2>4
<1>2. QED
  BY <1>1, Count, PTL
-------------------------------------------------------------------------------
(* The order.                                                              *)

LEMMA AppendOfConcat ==
    ASSUME NEW S, NEW s \in Seq(S), NEW t \in Seq(S), NEW e \in S
    PROVE  s \o Append(t, e) = Append(s \o t, e)
<1>1. /\ <<e>> \in Seq(S) /\ s \o t \in Seq(S)
  BY ConcatProperties
<1>2. Append(t, e) = t \o <<e>> /\ Append(s \o t, e) = (s \o t) \o <<e>>
  BY <1>1, AppendIsConcat
<1>3. QED
  BY <1>1, <1>2, ConcatAssociative

\* Induction, the way it can be cited: a set of naturals has a least element.
LEMMA LeastOfNat ==
    ASSUME NEW T, T \subseteq Nat, T # {}
    PROVE  \E n \in T : \A m \in T : n <= m
<1>1. PICK n \in T : \A m \in T : ~(<<m, n>> \in OpToRel(<, Nat))
  BY NatLessThanWellFounded, WFMin
<1>2. ASSUME NEW m \in T
      PROVE  n <= m
  <2>1. m \in Nat /\ n \in Nat
    OBVIOUS
  <2>2. <<m, n>> \in OpToRel(<, Nat) <=> m < n
    BY <2>1 DEF OpToRel
  <2>3. ~(<<m, n>> \in OpToRel(<, Nat))
    BY <1>1
  <2>4. ~(m < n)
    BY <2>2, <2>3
  <2>5. QED
    BY <2>1, <2>4
<1>3. QED
  BY <1>2

\* A sequence grows from the empty one by appending: what holds of <<>> and is kept by
\* Append holds of every sequence.  The good sequences are a set, not an operator.
LEMMA GrownByAppend ==
    ASSUME NEW S, NEW Good, <<>> \in Good,
           \A s \in Seq(S) : \A e \in S : s \in Good => Append(s, e) \in Good
    PROVE  Seq(S) \subseteq Good
<1> SUFFICES ASSUME NEW s0 \in Seq(S), s0 \notin Good PROVE FALSE
  OBVIOUS
<1> DEFINE Bad == {n \in Nat : \E s \in Seq(S) : s \notin Good /\ Len(s) = n}
<1>1. PICK n \in Bad : \A m \in Bad : n <= m
  <2>1. Bad \subseteq Nat /\ Len(s0) \in Bad
    OBVIOUS
  <2>2. Bad # {}
    BY <2>1
  <2> HIDE DEF Bad
  <2>3. QED
    BY <2>1, <2>2, LeastOfNat
<1>2. PICK s \in Seq(S) : s \notin Good /\ Len(s) = n
  BY <1>1
<1>3. s # <<>>
  BY <1>2
<1>4. PICK front \in Seq(S), last \in S : s = Append(front, last)
  BY <1>3, SequenceEmptyOrAppend
<1>5. front \in Good
  <2>1. Len(front) \in Nat /\ n = Len(front) + 1
    BY <1>2, <1>4, AppendProperties
  <2>2. ~(n <= Len(front))
    BY <2>1
  <2>3. QED
    BY <1>1, <2>1, <2>2
<1>6. QED
  BY <1>2, <1>4, <1>5

\* f[n] is what the first n elements of s leave, up to the first N of them.
Sifted(f, s, gone, N) ==
    f = [n \in 0 .. N |-> IF n = 0 THEN <<>>
                          ELSE IF s[n] \in gone THEN f[n - 1] ELSE Append(f[n - 1], s[n])]

\* There is such an f, and only one.
LEMMA OneSieve ==
    ASSUME NEW N \in Nat, NEW s, NEW gone, NEW f, NEW g,
           Sifted(f, s, gone, N), Sifted(g, s, gone, N)
    PROVE  f = g
<1> USE DEF Sifted
<1> DEFINE Differ == {n \in 0 .. N : f[n] # g[n]}
<1>1. Differ = {}
  <2> SUFFICES ASSUME Differ # {} PROVE FALSE
    OBVIOUS
  <2>1. PICK n \in Differ : \A m \in Differ : n <= m
    <3>1. Differ \subseteq Nat
      OBVIOUS
    <3> HIDE DEF Differ
    <3>2. QED
      BY <3>1, LeastOfNat
  <2>2. n \in 0 .. N /\ f[n] # g[n]
    OBVIOUS
  <2>3. n # 0
    BY <2>2
  <2>4. n - 1 \in 0 .. N /\ n - 1 \notin Differ
    BY <2>1, <2>2, <2>3
  <2>5. f[n - 1] = g[n - 1]
    BY <2>4
  <2>6. /\ f[n] = IF s[n] \in gone THEN f[n - 1] ELSE Append(f[n - 1], s[n])
        /\ g[n] = IF s[n] \in gone THEN g[n - 1] ELSE Append(g[n - 1], s[n])
    BY <2>2, <2>3
  <2>7. QED
    BY <2>2, <2>5, <2>6
<1>2. \A n \in 0 .. N : f[n] = g[n]
  BY <1>1
<1>3. QED
  BY <1>2

LEMMA SomeSieve ==
    ASSUME NEW N \in Nat, NEW s, NEW gone
    PROVE  \E f : Sifted(f, s, gone, N)
<1> DEFINE Without_ == {n \in 0 .. N : ~ \E f : Sifted(f, s, gone, n)}
<1>1. Without_ = {}
  <2> SUFFICES ASSUME Without_ # {} PROVE FALSE
    OBVIOUS
  <2>1. PICK n \in Without_ : \A m \in Without_ : n <= m
    <3>1. Without_ \subseteq Nat
      OBVIOUS
    <3> HIDE DEF Without_
    <3>2. QED
      BY <3>1, LeastOfNat
  <2>2. n \in 0 .. N /\ ~ \E f : Sifted(f, s, gone, n)
    OBVIOUS
  <2>3. n # 0
    <3> DEFINE f == [m \in 0 .. 0 |-> <<>>]
    <3>1. f = [m \in 0 .. 0 |-> IF m = 0 THEN <<>>
                          ELSE IF s[m] \in gone THEN f[m - 1] ELSE Append(f[m - 1], s[m])]
      OBVIOUS
    <3>2. Sifted(f, s, gone, 0)
      BY <3>1 DEF Sifted
    <3>3. QED
      BY <2>2, <3>2
  <2>4. n - 1 \in 0 .. N /\ n - 1 \notin Without_
    BY <2>1, <2>2, <2>3
  <2>5. PICK f : Sifted(f, s, gone, n - 1)
    BY <2>4
  <2> DEFINE g == [m \in 0 .. n |-> IF m < n THEN f[m]
                      ELSE IF s[n] \in gone THEN f[n - 1] ELSE Append(f[n - 1], s[n])]
  <2>6. ASSUME NEW m \in 0 .. n
        PROVE  g[m] = IF m = 0 THEN <<>>
                      ELSE IF s[m] \in gone THEN g[m - 1] ELSE Append(g[m - 1], s[m])
    <3>1. CASE m = n
      <4>1. g[n - 1] = f[n - 1]
        BY <2>2, <2>3
      <4>2. QED
        BY <2>2, <2>3, <3>1, <4>1
    <3>2. CASE m = 0 /\ m # n
      BY <2>2, <2>3, <2>5, <3>2 DEF Sifted
    <3>3. CASE m # 0 /\ m # n
      <4>1. m \in 0 .. n - 1 /\ m - 1 \in 0 .. n /\ m < n /\ m - 1 < n
        BY <2>2, <3>3
      <4>2. g[m] = f[m] /\ g[m - 1] = f[m - 1]
        BY <4>1
      <4>3. f[m] = IF s[m] \in gone THEN f[m - 1] ELSE Append(f[m - 1], s[m])
        BY <2>5, <3>3, <4>1 DEF Sifted
      <4>4. QED
        BY <3>3, <4>2, <4>3
    <3>4. QED
      BY <3>1, <3>2, <3>3
  <2>7. g = [m \in 0 .. n |-> IF m = 0 THEN <<>>
                      ELSE IF s[m] \in gone THEN g[m - 1] ELSE Append(g[m - 1], s[m])]
    <3>1. g = [m \in 0 .. n |-> g[m]]
      OBVIOUS
    <3> HIDE DEF g
    <3>2. QED
      BY <2>6, <3>1, Zenon
  <2>8. Sifted(g, s, gone, n)
    <3> HIDE DEF g
    <3>1. QED
      BY <2>7 DEF Sifted
  <2>9. QED
    BY <2>2, <2>8
<1>2. N \in 0 .. N
  OBVIOUS
<1>3. QED
  BY <1>1, <1>2

LEMMA SievesFit ==
    ASSUME NEW N \in Nat, NEW s, Len(s) = N, NEW gone
    PROVE  Sifted(WithoutUpTo(s, gone), s, gone, N)
<1> DEFINE Fits(f) ==
        f = [n \in 0 .. Len(s) |-> IF n = 0 THEN <<>>
                 ELSE IF s[n] \in gone THEN f[n - 1] ELSE Append(f[n - 1], s[n])]
<1>1. WithoutUpTo(s, gone) = CHOOSE f : Fits(f)
  BY DEF WithoutUpTo
<1>2. ASSUME NEW f
      PROVE  Fits(f) <=> Sifted(f, s, gone, N)
  BY DEF Sifted
<1>3. \E f : Fits(f)
  BY <1>2, SomeSieve
<1>4. Fits(WithoutUpTo(s, gone))
  <2> HIDE DEF Fits
  <2>1. QED
    BY <1>1, <1>3
<1>5. QED
  BY <1>2, <1>4

\* Without, element by element.
LEMMA WithoutNothing ==
    ASSUME NEW gone
    PROVE  Without(<<>>, gone) = <<>>
<1>1. Len(<<>>) = 0
  OBVIOUS
<1>2. Sifted(WithoutUpTo(<<>>, gone), <<>>, gone, 0)
  BY <1>1, SievesFit
<1>3. WithoutUpTo(<<>>, gone)[0] = <<>>
  BY <1>2 DEF Sifted
<1>4. QED
  BY <1>1, <1>3 DEF Without

LEMMA WithoutAppended ==
    ASSUME NEW S, NEW s \in Seq(S), NEW e \in S, NEW gone
    PROVE  Without(Append(s, e), gone)
           = IF e \in gone THEN Without(s, gone) ELSE Append(Without(s, gone), e)
<1> DEFINE t == Append(s, e)
           N == Len(s)
           f == WithoutUpTo(t, gone)
           g == [n \in 0 .. N |-> f[n]]
<1>1. /\ N \in Nat /\ Len(t) = N + 1 /\ t[N + 1] = e
      /\ \A n \in 1 .. N : t[n] = s[n]
  BY AppendProperties
<1> HIDE DEF t
<1>2. Sifted(f, t, gone, N + 1) /\ Sifted(WithoutUpTo(s, gone), s, gone, N)
  BY <1>1, SievesFit
<1> HIDE DEF f
<1>3. \A n \in 0 .. N + 1 :
        f[n] = IF n = 0 THEN <<>>
               ELSE IF t[n] \in gone THEN f[n - 1] ELSE Append(f[n - 1], t[n])
  BY <1>2 DEF Sifted
<1>4. Sifted(g, s, gone, N)
  <2>1. ASSUME NEW n \in 0 .. N
        PROVE  f[n] = IF n = 0 THEN <<>>
                      ELSE IF s[n] \in gone THEN g[n - 1] ELSE Append(g[n - 1], s[n])
    <3>1. CASE n = 0
      BY <1>1, <1>3, <3>1
    <3>2. CASE n # 0
      <4>1. n \in 1 .. N /\ n - 1 \in 0 .. N /\ n \in 0 .. N + 1
        BY <1>1, <3>2
      <4>2. QED
        BY <1>1, <1>3, <3>2, <4>1
    <3>3. QED
      BY <3>1, <3>2
  <2>2. g = [n \in 0 .. N |-> IF n = 0 THEN <<>>
                  ELSE IF s[n] \in gone THEN g[n - 1] ELSE Append(g[n - 1], s[n])]
    BY <2>1, Zenon
  <2>3. QED
    BY <2>2 DEF Sifted
<1>5. g = WithoutUpTo(s, gone)
  <2> HIDE DEF g
  <2>1. QED
    BY <1>1, <1>2, <1>4, OneSieve
<1>6. f[N] = Without(s, gone)
  <2>1. N \in 0 .. N
    BY <1>1
  <2>2. QED
    BY <1>5, <2>1 DEF Without
<1>7. f[N + 1] = IF e \in gone THEN f[N] ELSE Append(f[N], e)
  <2>1. N + 1 \in 0 .. N + 1 /\ N + 1 # 0 /\ (N + 1) - 1 = N
    BY <1>1
  <2>2. QED
    BY <1>1, <1>3, <2>1
<1>8. QED
  BY <1>1, <1>6, <1>7 DEF Without, t, f

\* What is left is a sequence of the same elements, in the order they had: what is said
\* of concatenations says so.
LEMMA WithoutTyped ==
    ASSUME NEW S, NEW s \in Seq(S), NEW gone
    PROVE  Without(s, gone) \in Seq(S)
<1> DEFINE Good == {t \in Seq(S) : Without(t, gone) \in Seq(S)}
<1>1. <<>> \in Good
  <2>1. <<>> \in Seq(S)
    OBVIOUS
  <2>2. QED
    BY <2>1, WithoutNothing
<1>2. ASSUME NEW t \in Seq(S), NEW e \in S, t \in Good
      PROVE  Append(t, e) \in Good
  <2>1. /\ Append(t, e) \in Seq(S) /\ Without(t, gone) \in Seq(S)
        /\ Append(Without(t, gone), e) \in Seq(S)
    BY <1>2
  <2>2. Without(Append(t, e), gone)
        = IF e \in gone THEN Without(t, gone) ELSE Append(Without(t, gone), e)
    BY WithoutAppended
  <2>3. QED
    BY <2>1, <2>2
<1> HIDE DEF Good
<1>3. Seq(S) \subseteq Good
  BY <1>1, <1>2, GrownByAppend
<1>4. QED
  BY <1>3 DEF Good

\* Concatenation, by a name that the provers do not take apart.
Joined(s, t) == s \o t

LEMMA WithoutJoined ==
    ASSUME NEW S, NEW s \in Seq(S), NEW t \in Seq(S), NEW gone
    PROVE  /\ Joined(s, t) \in Seq(S)
           /\ Without(Joined(s, t), gone) = Joined(Without(s, gone), Without(t, gone))
<1> DEFINE left == Without(s, gone)
           Good == {u \in Seq(S) : Without(s \o u, gone) = left \o Without(u, gone)}
<1>0. left \in Seq(S)
  BY WithoutTyped
<1>1. <<>> \in Good
  <2>1. s \o <<>> = s /\ left \o <<>> = left /\ <<>> \in Seq(S)
    BY <1>0, ConcatEmptySeq
  <2>2. QED
    BY <2>1, WithoutNothing
<1>2. ASSUME NEW u \in Seq(S), NEW e \in S, u \in Good
      PROVE  Append(u, e) \in Good
  <2> DEFINE right == Without(u, gone)
  <2>1. /\ Append(u, e) \in Seq(S) /\ s \o u \in Seq(S) /\ right \in Seq(S)
        /\ Without(s \o u, gone) = left \o right
    BY <1>2, WithoutTyped, ConcatProperties
  <2>2. s \o Append(u, e) = Append(s \o u, e)
    BY <2>1, AppendOfConcat
  <2>3. left \o Append(right, e) = Append(left \o right, e)
    BY <1>0, <2>1, AppendOfConcat
  <2>4. Without(Append(u, e), gone) = IF e \in gone THEN right ELSE Append(right, e)
    BY WithoutAppended
  <2>5. Without(Append(s \o u, e), gone)
        = IF e \in gone THEN left \o right ELSE Append(left \o right, e)
    <3> DEFINE both == s \o u
    <3>1. both \in Seq(S) /\ Without(both, gone) = left \o right
      BY <2>1
    <3> HIDE DEF both, left, right
    <3>2. Without(Append(both, e), gone)
          = IF e \in gone THEN Without(both, gone) ELSE Append(Without(both, gone), e)
      BY <3>1, WithoutAppended
    <3>3. QED
      BY <3>1, <3>2 DEF both
  <2> HIDE DEF left, right
  <2>6. Without(s \o Append(u, e), gone) = left \o Without(Append(u, e), gone)
    BY <2>2, <2>3, <2>4, <2>5
  <2>7. QED
    BY <2>1, <2>6
<1> HIDE DEF Good
<1>3. Seq(S) \subseteq Good
  BY <1>1, <1>2, GrownByAppend
<1>4. QED
  BY <1>3, ConcatProperties DEF Good, left, Joined

\* Sifting twice is sifting once, and sifting for what is not there, or for everything.
LEMMA WithoutTwice ==
    ASSUME NEW S, NEW s \in Seq(S), NEW gone, NEW more
    PROVE  Without(s, gone \cup more) = Without(Without(s, gone), more)
<1> DEFINE Good == {t \in Seq(S) : Without(t, gone \cup more) = Without(Without(t, gone), more)}
<1>1. <<>> \in Good
  BY WithoutNothing
<1>2. ASSUME NEW t \in Seq(S), NEW e \in S, t \in Good
      PROVE  Append(t, e) \in Good
  <2> DEFINE once == Without(t, gone)
  <2>1. Append(t, e) \in Seq(S) /\ once \in Seq(S) /\ Without(t, gone \cup more) = Without(once, more)
    BY <1>2, WithoutTyped
  <2>2. /\ Without(Append(t, e), gone \cup more)
           = IF e \in gone \cup more THEN Without(once, more) ELSE Append(Without(once, more), e)
        /\ Without(Append(t, e), gone) = IF e \in gone THEN once ELSE Append(once, e)
        /\ Without(Append(once, e), more)
           = IF e \in more THEN Without(once, more) ELSE Append(Without(once, more), e)
    BY <2>1, WithoutAppended
  <2> HIDE DEF once
  <2>3. Without(Append(t, e), gone \cup more) = Without(Without(Append(t, e), gone), more)
    BY <2>2
  <2>4. QED
    BY <2>1, <2>3
<1> HIDE DEF Good
<1>3. Seq(S) \subseteq Good
  BY <1>1, <1>2, GrownByAppend
<1>4. QED
  BY <1>3 DEF Good

LEMMA WithoutStrangers ==
    ASSUME NEW S, NEW s \in Seq(S), NEW gone
    PROVE  /\ Range(s) \cap gone = {} => Without(s, gone) = s
           /\ Range(s) \subseteq gone => Without(s, gone) = <<>>
<1> DEFINE Good == {t \in Seq(S) : /\ Range(t) \cap gone = {} => Without(t, gone) = t
                                   /\ Range(t) \subseteq gone => Without(t, gone) = <<>>}
<1>1. <<>> \in Good
  BY WithoutNothing
<1>2. ASSUME NEW t \in Seq(S), NEW e \in S, t \in Good
      PROVE  Append(t, e) \in Good
  <2>1. Append(t, e) \in Seq(S) /\ Range(Append(t, e)) = Range(t) \cup {e}
    BY AppendDistinct
  <2>2. Without(Append(t, e), gone)
        = IF e \in gone THEN Without(t, gone) ELSE Append(Without(t, gone), e)
    BY WithoutAppended
  <2>3. /\ Range(t) \cap gone = {} => Without(t, gone) = t
        /\ Range(t) \subseteq gone => Without(t, gone) = <<>>
    BY <1>2
  <2>4. QED
    BY <2>1, <2>2, <2>3
<1> HIDE DEF Good
<1>3. Seq(S) \subseteq Good
  BY <1>1, <1>2, GrownByAppend
<1>4. QED
  BY <1>3 DEF Good

\* What the writer or a crash takes out of the middle or off the end.
LEMMA TakenOut ==
    ASSUME NEW S, NEW f \in Seq(S), NEW b \in Seq(S), NEW t \in Seq(S), NEW R,
           Range(f) \cap R = {}, Range(b) \subseteq R
    PROVE  /\ Range(t) \cap R = {} =>
                Without(Joined(Joined(f, b), t), R) = Joined(Joined(f, <<>>), t)
           /\ Range(t) \subseteq R =>
                Without(Joined(Joined(f, b), t), R) = Joined(Joined(f, <<>>), <<>>)
<1>1. Joined(f, b) \in Seq(S) /\ Without(Joined(f, b), R) = Joined(Without(f, R), Without(b, R))
  BY WithoutJoined
<1>2. Without(Joined(Joined(f, b), t), R) = Joined(Without(Joined(f, b), R), Without(t, R))
  BY <1>1, WithoutJoined
<1>3. /\ Without(f, R) = f /\ Without(b, R) = <<>>
      /\ Range(t) \cap R = {} => Without(t, R) = t
      /\ Range(t) \subseteq R => Without(t, R) = <<>>
  BY WithoutStrangers
<1>4. QED
  BY <1>1, <1>2, <1>3

LEMMA RangeOfConcat ==
    ASSUME NEW S, NEW s \in Seq(S), NEW t \in Seq(S)
    PROVE  Range(s \o t) \subseteq Range(s) \cup Range(t)
<1>1. /\ Len(s) \in Nat /\ Len(t) \in Nat /\ DOMAIN s = 1 .. Len(s) /\ DOMAIN t = 1 .. Len(t)
      /\ DOMAIN (s \o t) = 1 .. Len(s) + Len(t)
      /\ \A i \in 1 .. Len(s) + Len(t) :
            (s \o t)[i] = IF i <= Len(s) THEN s[i] ELSE t[i - Len(s)]
  BY ConcatProperties
<1>2. ASSUME NEW i \in 1 .. Len(s) + Len(t)
      PROVE  (s \o t)[i] \in Range(s) \cup Range(t)
  <2>1. CASE i <= Len(s)
    BY <1>1, <2>1 DEF Range
  <2>2. CASE ~(i <= Len(s))
    <3>1. i - Len(s) \in 1 .. Len(t) /\ (s \o t)[i] = t[i - Len(s)]
      BY <1>1, <2>2
    <3>2. QED
      BY <1>1, <3>1 DEF Range
  <2>3. QED
    BY <2>1, <2>2
<1>3. QED
  BY <1>1, <1>2 DEF Range

\* A batch on its way, with what waits behind it: wherever write puts it, it stays
\* between what was written before and what waits.
LEMMA WriteKeepsPlace ==
    ASSUME WriteTypes, accepted \in Seq(Audited), accepted' = accepted,
           NEW batch \in Seq(Audited), NEW rest \in Seq(Audited), write(batch),
           Range(batch) \cap Range(rest) = {},
           Range(file) \cap (Range(batch) \cup Range(rest)) = {},
           (file \o batch) \o rest = Without(accepted, dropped)
    PROVE  /\ (file' \o pending') \o rest = Without(accepted', dropped')
           /\ Range(file') \subseteq Range(file) \cup Range(batch)
           /\ Range(file') \cap (Range(pending') \cup Range(rest)) = {}
<1>1. file \in Seq(Audited) /\ Range(<<>>) = {}
  BY DEF WriteTypes, Range
<1>2. file \o batch \in Seq(Audited) /\ Range(file \o batch) \subseteq Range(file) \cup Range(batch)
  BY <1>1, ConcatProperties, RangeOfConcat
<1>3. CASE /\ file' = file \o batch /\ pending' = <<>>
           /\ UNCHANGED <<dropped, failed, faults>>
  <2>1. (file \o batch) \o <<>> = file \o batch
    BY <1>2, ConcatEmptySeq
  <2>2. QED
    BY <1>1, <1>2, <1>3, <2>1
<1>4. CASE /\ batch # <<>> /\ Fault /\ pending' = batch
           /\ failed' = failed + 1 /\ UNCHANGED <<file, dropped>>
  BY <1>4
<1>5. CASE /\ batch # <<>> /\ Fault /\ pending' = <<>>
           /\ dropped' = dropped \cup Range(batch) /\ UNCHANGED <<file, failed>>
  <2>1. Without((file \o batch) \o rest, Range(batch)) = (file \o <<>>) \o rest
    <3> DEFINE R == Range(batch)
    <3>1. Range(file) \cap R = {} /\ Range(batch) \subseteq R /\ Range(rest) \cap R = {}
      OBVIOUS
    <3> HIDE DEF R
    <3>2. Without(Joined(Joined(file, batch), rest), R) = Joined(Joined(file, <<>>), rest)
      BY <1>1, <3>1, TakenOut
    <3>3. QED
      BY <3>2 DEF R, Joined
  <2>2. Without(accepted, dropped \cup Range(batch)) = Without(Without(accepted, dropped), Range(batch))
    BY WithoutTwice
  <2>3. QED
    BY <1>1, <1>5, <2>1, <2>2
<1>6. QED
  BY <1>3, <1>4, <1>5 DEF write

\* What is written waits no more.
Filed == Range(file) \cap Waiting = {} /\ \A r \in Range(file) : step[r] = "saved"

PlaceInv == Filed /\ EachInItsPlace

LEMMA SendKeepsPlace ==
    ASSUME TypeOK, SavingAudited, CountInv, PlaceInv, NEW r \in Request, Send(r)
    PROVE  PlaceInv'
<1>1. /\ r \in Audited /\ step[r] # "saved" /\ step \in [Request -> Steps]
      /\ buffer \in Seq(Audited) /\ accepted \in Seq(Audited)
      /\ pending \in Seq(Audited) /\ file \in Seq(Audited)
  BY DEF Send, SavingAudited, TypeOK, Steps
<1>2. /\ buffer' = Append(buffer, r) /\ accepted' = Append(accepted, r)
      /\ step' = [step EXCEPT ![r] = "saved"]
      /\ UNCHANGED <<pending, file, dropped>>
  BY DEF Send, Move, writeVars
<1>3. r \notin Waiting \cup dropped \cup Range(file)
  BY <1>1 DEF CountInv, Apart, PlaceInv, Filed
<1>4. Range(buffer') = Range(buffer) \cup {r}
  BY <1>1, <1>2, AppendDistinct
<1>5. Filed'
  <2>1. Waiting' = Waiting \cup {r}
    BY <1>2, <1>4 DEF Waiting
  <2>2. Range(file') = Range(file)
    BY <1>2
  <2>3. \A q \in Range(file) : q # r => step'[q] = step[q]
    BY <1>1, <1>2
  <2>4. QED
    BY <1>3, <2>1, <2>2, <2>3 DEF PlaceInv, Filed
<1>6. (file \o pending) \o Append(buffer, r) = Append((file \o pending) \o buffer, r)
  <2>1. file \o pending \in Seq(Audited)
    BY <1>1, ConcatProperties
  <2>2. QED
    BY <1>1, <2>1, AppendOfConcat
<1>7. Without(Append(accepted, r), dropped) = Append(Without(accepted, dropped), r)
  BY <1>1, <1>3, WithoutAppended
<1>8. QED
  BY <1>2, <1>5, <1>6, <1>7 DEF PlaceInv, EachInItsPlace

\* The first event of the channel becomes the last of the batch.
LEMMA HeadMoves ==
    ASSUME NEW S, NEW f \in Seq(S), NEW p \in Seq(S), NEW s \in Seq(S), s # <<>>
    PROVE  Joined(Joined(f, Append(p, Head(s))), Tail(s)) = Joined(Joined(f, p), s)
<1> DEFINE h == Head(s)  t == Tail(s)
<1>1. h \in S /\ t \in Seq(S)
  BY HeadTailProperties
<1>2. s = <<h>> \o t
  <2>1. /\ Len(t) = Len(s) - 1 /\ \A i \in 1 .. Len(t) : t[i] = s[i + 1]
    BY HeadTailProperties
  <2>2. Len(s) \in Nat \ {0} /\ h = s[1]
    BY EmptySeq
  <2>3. <<h>> \in Seq(S) /\ Len(<<h>>) = 1 /\ <<h>>[1] = h
    BY <1>1
  <2> HIDE DEF h, t
  <2>4. /\ <<h>> \o t \in Seq(S) /\ Len(<<h>> \o t) = Len(s)
        /\ \A i \in 1 .. Len(s) : (<<h>> \o t)[i] = IF i <= 1 THEN <<h>>[i] ELSE t[i - 1]
    BY <1>1, <2>1, <2>2, <2>3, ConcatProperties
  <2>5. \A i \in 1 .. Len(s) : (<<h>> \o t)[i] = s[i]
    BY <2>1, <2>2, <2>3, <2>4
  <2>6. QED
    BY <2>4, <2>5, SeqEqual
<1> HIDE DEF h, t
<1>3. <<h>> \in Seq(S) /\ f \o p \in Seq(S)
  BY <1>1, ConcatProperties
<1>4. f \o Append(p, h) = (f \o p) \o <<h>>
  BY <1>1, <1>3, AppendIsConcat, ConcatAssociative
<1>5. ((f \o p) \o <<h>>) \o t = (f \o p) \o (<<h>> \o t)
  BY <1>1, <1>3, ConcatAssociative
<1>6. QED
  BY <1>2, <1>4, <1>5 DEF h, t, Joined

LEMMA ReceiveKeepsPlace ==
    ASSUME TypeOK, CountInv, PlaceInv, Receive
    PROVE  PlaceInv'
<1> DEFINE batch == Append(pending, Head(buffer))
<1>1. /\ buffer \in Seq(Audited) /\ pending \in Seq(Audited) /\ buffer # <<>>
      /\ accepted \in Seq(Audited) /\ file \in Seq(Audited) /\ WriteTypes
  BY DEF TypeOK, Receive, WriteTypes
<1>2. buffer' = Tail(buffer) /\ step' = step /\ accepted' = accepted
  BY DEF Receive, callVars
<1>3. /\ Head(buffer) \in Range(buffer) /\ Head(buffer) \in Audited
      /\ buffer' \in Seq(Audited) /\ Range(buffer') \subseteq Range(buffer)
      /\ Head(buffer) \notin Range(buffer')
  BY <1>1, <1>2, TailDistinct DEF CountInv, Apart
<1>4. batch \in Seq(Audited) /\ Range(batch) = Range(pending) \cup {Head(buffer)}
  BY <1>1, <1>3, AppendDistinct
<1>5. (file \o batch) \o buffer' = Without(accepted, dropped)
  <2>1. Joined(Joined(file, batch), Tail(buffer)) = Joined(Joined(file, pending), buffer)
    BY <1>1, HeadMoves
  <2>2. QED
    BY <1>2, <2>1 DEF PlaceInv, EachInItsPlace, Joined
<1>6. write(batch) \/ (pending' = batch /\ UNCHANGED <<file, dropped>>)
  BY DEF Receive
<1> HIDE DEF batch
<1>7. /\ Range(batch) \cap Range(buffer') = {} /\ Range(batch) \cup Range(buffer') \subseteq Waiting
      /\ Range(file) \cap (Range(batch) \cup Range(buffer')) = {}
  BY <1>3, <1>4 DEF CountInv, Apart, Waiting, PlaceInv, Filed
<1>8. /\ (file' \o pending') \o buffer' = Without(accepted', dropped')
      /\ Range(file') \subseteq Range(file) \cup Range(batch)
      /\ Range(file') \cap (Range(pending') \cup Range(buffer')) = {}
  <2>1. CASE write(batch)
    BY <1>1, <1>2, <1>3, <1>4, <1>5, <1>7, <2>1, WriteKeepsPlace
  <2>2. CASE pending' = batch /\ UNCHANGED <<file, dropped>>
    BY <1>2, <1>5, <1>7, <2>2
  <2>3. QED
    BY <1>6, <2>1, <2>2
<1>9. \A r \in Range(file') : step'[r] = "saved"
  BY <1>2, <1>7, <1>8 DEF CountInv, Apart, PlaceInv, Filed
<1>10. QED
  BY <1>8, <1>9 DEF PlaceInv, Filed, EachInItsPlace, Waiting

LEMMA FlushKeepsPlace ==
    ASSUME TypeOK, CountInv, PlaceInv, Flush \/ Finish
    PROVE  PlaceInv'
<1>1. /\ buffer \in Seq(Audited) /\ pending \in Seq(Audited)
      /\ accepted \in Seq(Audited) /\ WriteTypes
  BY DEF TypeOK, WriteTypes
<1>2. write(pending) /\ step' = step /\ accepted' = accepted /\ buffer' = buffer
  BY DEF Flush, Finish, callVars
<1>3. /\ Range(pending) \cap Range(buffer) = {} /\ Range(pending) \subseteq Waiting
      /\ Range(file) \cap (Range(pending) \cup Range(buffer)) = {}
      /\ (file \o pending) \o buffer = Without(accepted, dropped)
  BY DEF CountInv, Apart, Waiting, PlaceInv, Filed, EachInItsPlace
<1>4. /\ (file' \o pending') \o buffer = Without(accepted', dropped')
      /\ Range(file') \subseteq Range(file) \cup Range(pending)
      /\ Range(file') \cap (Range(pending') \cup Range(buffer)) = {}
  BY <1>1, <1>2, <1>3, WriteKeepsPlace
<1>5. \A r \in Range(file') : step'[r] = "saved"
  BY <1>2, <1>3, <1>4 DEF CountInv, Apart, PlaceInv, Filed
<1>6. QED
  BY <1>2, <1>4, <1>5 DEF PlaceInv, Filed, EachInItsPlace, Waiting

LEMMA CrashKeepsPlace ==
    ASSUME TypeOK, CountInv, PlaceInv, Crash
    PROVE  PlaceInv'
<1>1. /\ buffer \in Seq(Audited) /\ pending \in Seq(Audited) /\ file \in Seq(Audited)
      /\ accepted \in Seq(Audited) /\ Audited \subseteq Request
  BY AuditConstantsOK DEF TypeOK
<1>2. /\ buffer' = <<>> /\ pending' = <<>>
      /\ dropped' = dropped \cup Waiting /\ file' = file /\ accepted' = accepted
      /\ step' = [r \in Request |-> IF step[r] \in {"save", "wait"} THEN "crashed" ELSE step[r]]
  BY DEF Crash, Waiting
<1>3. Range(<<>>) = {}
  BY DEF Range
<1>4. Filed'
  <2>1. Waiting' = {}
    BY <1>2, <1>3 DEF Waiting
  <2>2. Range(file) \subseteq Request
    BY <1>1, RangeType
  <2>3. \A r \in Range(file) : step'[r] = "saved"
    BY <1>2, <2>2 DEF PlaceInv, Filed
  <2>4. QED
    BY <1>2, <2>1, <2>3 DEF Filed
<1>5. Without(Joined(Joined(file, pending), buffer), Waiting) = Joined(Joined(file, <<>>), <<>>)
  <2>1. /\ Range(file) \cap Waiting = {} /\ Range(pending) \subseteq Waiting
        /\ Range(buffer) \subseteq Waiting
    BY DEF PlaceInv, Filed, Waiting
  <2>2. QED
    BY <1>1, <2>1, TakenOut
<1>6. Without(accepted, dropped \cup Waiting) = Without(Without(accepted, dropped), Waiting)
  BY <1>1, WithoutTwice
<1>7. QED
  BY <1>2, <1>4, <1>5, <1>6 DEF PlaceInv, EachInItsPlace, Joined

LEMMA PlaceStep == TypeOK /\ SavingAudited /\ CountInv /\ PlaceInv /\ [Next]_vars => PlaceInv'
<1> SUFFICES ASSUME TypeOK, SavingAudited, CountInv, PlaceInv, [Next]_vars PROVE PlaceInv'
  OBVIOUS
<1> USE DEF callVars, writeVars
<1>1. step \in [Request -> Steps] /\ \A q \in Range(file) : step[q] = "saved"
  BY DEF TypeOK, Steps, PlaceInv, Filed
<1>2. ASSUME UNCHANGED <<accepted, buffer, pending, file, dropped>>,
             \A q \in Range(file) : step'[q] = "saved"
      PROVE  PlaceInv'
  BY <1>2 DEF PlaceInv, Filed, Waiting, EachInItsPlace
<1>3. ASSUME NEW r \in Request, Served(r) \/ Block(r) \/ GiveUp(r) \/ Panic(r) PROVE PlaceInv'
  <2>1. /\ UNCHANGED <<accepted, buffer, pending, file, dropped>>
        /\ step[r] # "saved" /\ \E label \in Steps : step' = [step EXCEPT ![r] = label]
    BY <1>3 DEF Served, Block, GiveUp, Panic, Move, Steps
  <2>2. \A q \in Range(file) : step'[q] = "saved"
    BY <1>1, <2>1
  <2>3. QED
    BY <1>2, <2>1, <2>2
<1>4. ASSUME CloseBuffer \/ Close \/ UNCHANGED vars PROVE PlaceInv'
  <2>1. UNCHANGED <<accepted, buffer, pending, file, dropped>> /\ step' = step
    BY <1>4 DEF CloseBuffer, Close, vars
  <2>2. QED
    BY <1>1, <1>2, <2>1
<1>5. QED
  BY <1>3, <1>4, SendKeepsPlace, ReceiveKeepsPlace, FlushKeepsPlace, CrashKeepsPlace
     DEF Next, Save, writeLoop

\* For any traffic, any size of the channel and any faults, in every state: the file, the
\* batch and the channel, one after the other, are what Save accepted, in that order,
\* without what failures took.
THEOREM OrderIsKept == Spec => []EachInItsPlace
<1>1. Init => PlaceInv
  <2> SUFFICES ASSUME Init PROVE PlaceInv
    OBVIOUS
  <2>1. pending = <<>> /\ buffer = <<>> /\ file = <<>> /\ accepted = <<>> /\ dropped = {}
    BY DEF Init
  <2>2. Range(<<>>) = {} /\ (<<>> \o <<>>) \o <<>> = <<>>
    BY DEF Range
  <2>3. QED
    BY <2>1, <2>2, WithoutNothing DEF PlaceInv, Filed, EachInItsPlace
<1>2. TypeOK /\ SavingAudited /\ CountInv /\ PlaceInv /\ [Next]_vars => PlaceInv'
  BY PlaceStep
<1>3. PlaceInv => EachInItsPlace
  BY DEF PlaceInv
<1>4. QED
  BY <1>1, <1>2, <1>3, Typed, Count, PTL DEF Spec
===============================================================================
