--------------------------- MODULE TokenBucketProofs ---------------------------
(***************************************************************************)
(* The safety properties of TokenBucket for any number of buckets, any     *)
(* rate, burst, expiry and skew, and without the bound on time.            *)
(*                                                                         *)
(* Neither bound is inductive: what was granted has to be weighed against  *)
(* what is left in the bucket at the time it was last refilled up to, and  *)
(* against the moment it would expire.                                     *)
(***************************************************************************)
EXTENDS TokenBucket, TLAPS

\* The debt of a bucket is the way from the latest clock it can have seen back to
\* the one it saw last.
LevelOK(k) ==
    stored[k] =>
        /\ tokens[k] >= Rate * (last[k] - time - MaxSkew)
        /\ tokens[k] >= -2 * Rate * MaxSkew

\* What an observer counted, alone as it may be found at expiry, and together
\* with what is still to be had.
CountOK(k) ==
    granted[k] > 0 =>
        /\ stored[k] /\ since[k] <= checkedAt[k]
        /\ granted[k] <= Capacity + Rate * (checkedAt[k] - since[k] + 2 * MaxSkew)
        /\ granted[k] + tokens[k] <= Capacity + Rate * (last[k] - since[k] + MaxSkew)

BucketInv ==
    /\ TypeOK
    /\ \A k \in Key : /\ checkedAt[k] <= time /\ since[k] <= time
                      /\ LevelOK(k) /\ CountOK(k)
\* A tick is worth the same tokens wherever it is counted.
LEMMA RateGrows ==
    ASSUME NEW a \in Int, NEW b \in Int, a <= b
    PROVE  Rate * a \in Int /\ Rate * b \in Int /\ Rate * a <= Rate * b
<1>1. Rate \in Nat
  BY BucketConstantsOK
<1>2. Rate * (b - a) >= 0
  BY <1>1
<1>3. Rate * (b - a) = Rate * b - Rate * a
  BY <1>1
<1> QED
  BY <1>1, <1>2, <1>3

\* What refilling a bucket leaves in it.
LEMMA RefillLevel ==
    ASSUME NEW k \in Key, NEW now \in Int, TypeOK
    PROVE  /\ Refill(k, now) \in Int /\ Refill(k, now) <= Capacity
           /\ Refill(k, now) <= tokens[k] + Rate * (now - last[k])
           /\ \/ Refill(k, now) = Capacity
              \/ Refill(k, now) = tokens[k] + Rate * (now - last[k])
<1>1. tokens[k] \in Int /\ last[k] \in Int /\ Capacity \in Int
  BY BucketConstantsOK DEF TypeOK
<1>2. Rate * (now - last[k]) \in Int
  BY <1>1, RateGrows
<1> QED
  BY <1>1, <1>2 DEF Refill

\* The types survive every action.
LEMMA TypePreserved == TypeOK /\ [Next]_vars => TypeOK'
<1> SUFFICES ASSUME TypeOK, [Next]_vars PROVE TypeOK'
  OBVIOUS
<1>0. Capacity \in Nat \ {0} /\ MaxSkew \in Nat
  BY BucketConstantsOK
<1>1. ASSUME NEW k \in Key, NEW now \in Clocks, Check(k, now) PROVE TypeOK'
  <2>1. now \in Int
    BY <1>0, <1>1 DEF Clocks, TypeOK
  <2>2. Available(k, now) \in Int /\ Available(k, now) <= Capacity
    BY <2>1, <1>0, RefillLevel DEF Available
  <2>3. stored' \in [Key -> BOOLEAN]
    BY <1>1, Zenon DEF Check, TypeOK
  <2> QED
    BY <1>0, <1>1, <2>1, <2>2, <2>3 DEF Check, TypeOK
<1>2. ASSUME NEW k \in Key, NEW now \in Clocks, GetTokens(k, now) PROVE TypeOK'
  <2>1. now \in Int
    BY <1>0, <1>2 DEF Clocks, TypeOK
  <2>2. Refill(k, now) \in Int /\ Refill(k, now) <= Capacity
    BY <2>1, RefillLevel
  <2>3. stored' \in [Key -> BOOLEAN]
    BY <1>2, Zenon DEF GetTokens, TypeOK
  <2> QED
    BY <1>2, <2>1, <2>2, <2>3 DEF GetTokens, TypeOK
<1>3. ASSUME NEW k \in Key, Observe(k) PROVE TypeOK'
  <2>1. stored' \in [Key -> BOOLEAN]
    BY <1>3, Zenon DEF Observe, TypeOK
  <2> QED
    BY <1>3, <2>1 DEF Observe, TypeOK
<1>4. ASSUME NEW k \in Key, Reset(k) PROVE TypeOK'
  <2>1. stored' \in [Key -> BOOLEAN]
    BY <1>4, Zenon DEF Reset, TypeOK
  <2> QED
    BY <1>4, <2>1 DEF Reset, TypeOK
<1>5. CASE Tick
  <2>1. stored' \in [Key -> BOOLEAN]
    BY <1>5, Zenon DEF Tick, TypeOK
  <2> QED
    BY <1>5, <2>1 DEF Tick, TypeOK
<1>6. CASE UNCHANGED vars
  <2>1. stored' \in [Key -> BOOLEAN]
    BY <1>6, Zenon DEF vars, TypeOK
  <2> QED
    BY <1>6, <2>1 DEF vars, TypeOK
<1> QED
  BY <1>1, <1>2, <1>3, <1>4, <1>5, <1>6 DEF Next
-------------------------------------------------------------------------------
\* Nothing is in a bucket that its action does not touch.
Untouched(k) ==
    /\ stored'[k] = stored[k] /\ tokens'[k] = tokens[k] /\ last'[k] = last[k]
    /\ checkedAt'[k] = checkedAt[k] /\ since'[k] = since[k] /\ granted'[k] = granted[k]

\* Time only passes: it makes room for debts, and no count grows.
LEMMA TimePasses ==
    ASSUME BucketInv, NEW k \in Key, Untouched(k), time' \in Nat, time <= time'
    PROVE  checkedAt'[k] <= time' /\ since'[k] <= time' /\ LevelOK(k)' /\ CountOK(k)'
<1>1. /\ tokens[k] \in Int /\ last[k] \in Int /\ checkedAt[k] \in Nat /\ since[k] \in Nat
      /\ granted[k] \in Nat /\ time \in Nat /\ MaxSkew \in Nat
  BY BucketConstantsOK DEF BucketInv, TypeOK
<1>2. Rate * (last[k] - time' - MaxSkew) <= Rate * (last[k] - time - MaxSkew)
      /\ Rate * (last[k] - time' - MaxSkew) \in Int /\ Rate * (last[k] - time - MaxSkew) \in Int
  BY <1>1, RateGrows
<1>3. LevelOK(k)'
  <2> SUFFICES ASSUME stored'[k]
               PROVE  /\ tokens'[k] >= Rate * (last'[k] - time' - MaxSkew)
                      /\ tokens'[k] >= -2 * Rate * MaxSkew
    BY DEF LevelOK
  <2>1. stored[k]
    BY Zenon DEF Untouched
  <2>2. /\ tokens[k] >= -2 * Rate * MaxSkew
        /\ tokens[k] >= Rate * (last[k] - time - MaxSkew)
    BY <2>1 DEF BucketInv, LevelOK
  <2>3. tokens'[k] = tokens[k] /\ last'[k] = last[k]
    BY DEF Untouched
  <2>4. tokens[k] >= Rate * (last[k] - time' - MaxSkew)
    BY <1>1, <1>2, <2>2
  <2> QED
    BY <2>2, <2>3, <2>4
<1>4. CountOK(k)'
  BY <1>1 DEF CountOK, Untouched, BucketInv
<1> QED
  BY <1>1, <1>3, <1>4 DEF Untouched, BucketInv

\* Refilling keeps a level where the clock just used allows it.
LEMMA RefillKeepsLevel ==
    ASSUME BucketInv, NEW k \in Key, stored[k], NEW now \in Clocks
    PROVE  /\ Refill(k, now) >= Rate * (now - time - MaxSkew)
           /\ Rate * (now - time - MaxSkew) \in Int
           /\ Rate * (now - time - MaxSkew) >= -2 * Rate * MaxSkew
           /\ Rate * (now - time - MaxSkew) <= 0
<1>1. /\ tokens[k] \in Int /\ last[k] \in Int /\ time \in Nat /\ MaxSkew \in Nat
      /\ now \in Int /\ time - MaxSkew <= now /\ now <= time + MaxSkew
      /\ Rate \in Nat /\ Capacity \in Nat
  BY BucketConstantsOK DEF BucketInv, TypeOK, Clocks
<1>2. /\ Rate * (now - time - MaxSkew) \in Int
      /\ Rate * (now - time - MaxSkew) <= Rate * 0
      /\ Rate * (-2 * MaxSkew) <= Rate * (now - time - MaxSkew)
  BY <1>1, RateGrows
<1>3. Rate * 0 = 0 /\ Rate * (-2 * MaxSkew) = -2 * Rate * MaxSkew
  BY <1>1
<1>4. Rate * (last[k] - time - MaxSkew) + Rate * (now - last[k])
        = Rate * (now - time - MaxSkew)
  BY <1>1
<1>5. tokens[k] >= Rate * (last[k] - time - MaxSkew)
  BY DEF BucketInv, LevelOK
<1>6. Rate * (last[k] - time - MaxSkew) \in Int /\ Rate * (now - last[k]) \in Int
  BY <1>1, RateGrows
<1>7. now \in Int /\ TypeOK
  BY <1>1 DEF BucketInv
<1>8. \/ Refill(k, now) = Capacity
      \/ Refill(k, now) = tokens[k] + Rate * (now - last[k])
  BY <1>7, RefillLevel
<1>9. Refill(k, now) >= Rate * (now - time - MaxSkew)
  BY <1>1, <1>2, <1>3, <1>4, <1>5, <1>6, <1>8
<1> QED
  BY <1>2, <1>3, <1>9
-------------------------------------------------------------------------------
\* A check of a live bucket.
LEMMA CheckLive ==
    ASSUME BucketInv, NEW k \in Key, NEW now \in Clocks, Check(k, now), Live(k)
    PROVE  checkedAt'[k] <= time' /\ since'[k] <= time' /\ LevelOK(k)' /\ CountOK(k)'
<1>1. /\ tokens[k] \in Int /\ last[k] \in Int /\ checkedAt[k] \in Nat /\ since[k] \in Nat
      /\ granted[k] \in Nat /\ time \in Nat /\ MaxSkew \in Nat /\ Capacity \in Nat \ {0}
      /\ now \in Int /\ time - MaxSkew <= now /\ now <= time + MaxSkew /\ Rate \in Nat
      /\ checkedAt[k] <= time /\ since[k] <= time
  BY BucketConstantsOK DEF BucketInv, TypeOK, Clocks
<1> DEFINE level == Refill(k, now)
           took == IF level >= 1 THEN 1 ELSE 0
<1>2. level \in Int /\ level <= Capacity /\ level <= tokens[k] + Rate * (now - last[k])
  BY <1>1, RefillLevel DEF BucketInv
<1>3. stored[k] /\ Available(k, now) = level
  BY DEF Live, Available
<1>4. /\ tokens'[k] = level - took /\ last'[k] = now /\ granted'[k] = granted[k] + took
      /\ checkedAt'[k] = time /\ time' = time /\ since'[k] = since[k]
  BY <1>3 DEF Check, BucketInv, TypeOK
<1>5. stored'[k]
  BY Zenon DEF Check, BucketInv, TypeOK
<1>6. took \in {0, 1} /\ (took = 1 => level >= 1)
  OBVIOUS
<1>7. /\ level >= Rate * (now - time - MaxSkew) /\ Rate * (now - time - MaxSkew) \in Int
      /\ Rate * (now - time - MaxSkew) >= -2 * Rate * MaxSkew
      /\ Rate * (now - time - MaxSkew) <= 0
  BY <1>3, RefillKeepsLevel
<1>8. -2 * Rate * MaxSkew \in Int
  BY <1>1
<1> HIDE DEF level, took
<1>9. LevelOK(k)'
  <2>1. /\ level - took >= Rate * (now - time - MaxSkew)
        /\ level - took >= -2 * Rate * MaxSkew
    BY <1>1, <1>2, <1>6, <1>7, <1>8
  <2> QED
    BY <1>4, <2>1 DEF LevelOK
<1>10. CountOK(k)'
  <2>1. /\ Rate * (now - since[k] + MaxSkew) \in Int
        /\ Rate * (now - since[k] + MaxSkew) <= Rate * (time - since[k] + 2 * MaxSkew)
        /\ Rate * 0 <= Rate * (now - since[k] + MaxSkew)
        /\ Rate * (time - since[k] + 2 * MaxSkew) \in Int
    BY <1>1, RateGrows
  <2>2. Rate * 0 = 0
    BY <1>1
  <2>3. granted[k] + level <= Capacity + Rate * (now - since[k] + MaxSkew)
    <3>1. CASE granted[k] = 0
      BY <3>1, <1>1, <1>2, <2>1, <2>2
    <3>2. CASE granted[k] > 0
      <4>1. granted[k] + tokens[k] <= Capacity + Rate * (last[k] - since[k] + MaxSkew)
        BY <3>2 DEF BucketInv, CountOK
      <4>2. Rate * (last[k] - since[k] + MaxSkew) + Rate * (now - last[k])
              = Rate * (now - since[k] + MaxSkew)
        BY <1>1
      <4>3. Rate * (last[k] - since[k] + MaxSkew) \in Int /\ Rate * (now - last[k]) \in Int
        BY <1>1, RateGrows
      <4> QED
        BY <4>1, <4>2, <4>3, <1>1, <1>2, <2>1
    <3> QED
      BY <3>1, <3>2, <1>1
  <2>4. ASSUME granted[k] + took > 0
        PROVE  granted[k] + took <= Capacity + Rate * (time - since[k] + 2 * MaxSkew)
    <3>1. CASE took = 1
      BY <3>1, <1>1, <1>2, <1>6, <2>1, <2>3
    <3>2. CASE took = 0
      <4>1. granted[k] > 0
        BY <3>2, <2>4, <1>1
      <4>2. granted[k] <= Capacity + Rate * (checkedAt[k] - since[k] + 2 * MaxSkew)
        BY <4>1 DEF BucketInv, CountOK
      <4>3. /\ Rate * (checkedAt[k] - since[k] + 2 * MaxSkew) \in Int
            /\ Rate * (checkedAt[k] - since[k] + 2 * MaxSkew)
                 <= Rate * (time - since[k] + 2 * MaxSkew)
        BY <1>1, RateGrows
      <4> QED
        BY <4>2, <4>3, <3>2, <1>1, <2>1
    <3> QED
      BY <3>1, <3>2, <1>6
  <2>5. granted[k] + took + (level - took) <= Capacity + Rate * (now - since[k] + MaxSkew)
    BY <1>1, <1>2, <1>6, <2>3
  <2> QED
    BY <1>1, <1>4, <1>5, <2>4, <2>5 DEF CountOK
<1> QED
  BY <1>1, <1>4, <1>9, <1>10

\* A check of a bucket that is absent or has expired starts a full one.
LEMMA CheckFresh ==
    ASSUME BucketInv, NEW k \in Key, NEW now \in Clocks, Check(k, now), ~Live(k)
    PROVE  checkedAt'[k] <= time' /\ since'[k] <= time' /\ LevelOK(k)' /\ CountOK(k)'
<1>1. /\ checkedAt[k] \in Nat /\ since[k] \in Nat
      /\ granted[k] \in Nat /\ time \in Nat /\ MaxSkew \in Nat /\ Capacity \in Nat \ {0}
      /\ now \in Int /\ time - MaxSkew <= now /\ now <= time + MaxSkew /\ Rate \in Nat
      /\ checkedAt[k] <= time /\ since[k] <= time /\ Window \in Nat
  BY BucketConstantsOK DEF BucketInv, TypeOK, Clocks
<1>2. Available(k, now) = Capacity
  BY DEF Available
<1>3. /\ tokens'[k] = Capacity - 1 /\ last'[k] = now /\ granted'[k] = granted[k] + 1
      /\ checkedAt'[k] = time /\ time' = time /\ since'[k] = since[k]
  BY <1>1, <1>2 DEF Check, BucketInv, TypeOK
<1>4. stored'[k]
  BY Zenon DEF Check, BucketInv, TypeOK
<1>5. LevelOK(k)'
  <2>1. Rate * (now - time - MaxSkew) <= Rate * 0 /\ Rate * (now - time - MaxSkew) \in Int
    BY <1>1, RateGrows
  <2>2. Rate * 0 = 0 /\ -2 * Rate * MaxSkew \in Int /\ -2 * Rate * MaxSkew <= 0
    BY <1>1
  <2>3. /\ Capacity - 1 >= Rate * (now - time - MaxSkew)
        /\ Capacity - 1 >= -2 * Rate * MaxSkew
    BY <1>1, <2>1, <2>2
  <2> QED
    BY <1>3, <2>3 DEF LevelOK
<1>6. CountOK(k)'
  <2>1. /\ Rate * (now - since[k] + MaxSkew) \in Int
        /\ Rate * (now - since[k] + MaxSkew) <= Rate * (time - since[k] + 2 * MaxSkew)
        /\ Rate * 0 <= Rate * (now - since[k] + MaxSkew)
        /\ Rate * (time - since[k] + 2 * MaxSkew) \in Int
    BY <1>1, RateGrows
  <2>2. granted[k] <= Rate * (now - since[k] + MaxSkew)
    <3>1. CASE granted[k] = 0
      BY <3>1, <1>1, <2>1
    <3>2. CASE granted[k] > 0
      <4>1. /\ granted[k] <= Capacity + Rate * (checkedAt[k] - since[k] + 2 * MaxSkew)
            /\ stored[k]
        BY <3>2 DEF BucketInv, CountOK
      <4>2. checkedAt[k] + Window <= time
        BY <4>1, <1>1 DEF Live
      <4>3. Capacity <= Rate * (Window - 2 * MaxSkew)
        BY WindowRefills, RateGrows, <1>1
      <4>4. Rate * (checkedAt[k] - since[k] + 2 * MaxSkew) + Rate * (Window - 2 * MaxSkew)
              = Rate * (checkedAt[k] + Window - since[k])
        BY <1>1
      <4>5. /\ Rate * (checkedAt[k] + Window - since[k]) <= Rate * (now - since[k] + MaxSkew)
            /\ Rate * (checkedAt[k] + Window - since[k]) \in Int
        BY <1>1, <4>2, RateGrows
      <4>6. /\ Rate * (checkedAt[k] - since[k] + 2 * MaxSkew) \in Int
            /\ Rate * (Window - 2 * MaxSkew) \in Int
        BY <1>1, RateGrows
      <4> QED
        BY <4>1, <4>3, <4>4, <4>5, <4>6, <1>1, <2>1
    <3> QED
      BY <3>1, <3>2, <1>1
  <2>3. /\ granted[k] + 1 <= Capacity + Rate * (time - since[k] + 2 * MaxSkew)
        /\ granted[k] + 1 + (Capacity - 1) <= Capacity + Rate * (now - since[k] + MaxSkew)
    BY <1>1, <2>1, <2>2
  <2> QED
    BY <1>1, <1>3, <1>4, <2>3 DEF CountOK
<1> QED
  BY <1>1, <1>3, <1>5, <1>6

\* A read of a live bucket refills it and counts nothing.
LEMMA ReadLive ==
    ASSUME BucketInv, NEW k \in Key, NEW now \in Clocks, GetTokens(k, now)
    PROVE  checkedAt'[k] <= time' /\ since'[k] <= time' /\ LevelOK(k)' /\ CountOK(k)'
<1>1. /\ tokens[k] \in Int /\ last[k] \in Int /\ checkedAt[k] \in Nat /\ since[k] \in Nat
      /\ granted[k] \in Nat /\ time \in Nat /\ MaxSkew \in Nat /\ Capacity \in Nat
      /\ now \in Int /\ Rate \in Nat /\ checkedAt[k] <= time /\ since[k] <= time
  BY BucketConstantsOK DEF BucketInv, TypeOK, Clocks
<1> DEFINE level == Refill(k, now)
<1>2. level \in Int /\ level <= Capacity /\ level <= tokens[k] + Rate * (now - last[k])
  BY <1>1, RefillLevel DEF BucketInv
<1>3. stored[k]
  BY DEF GetTokens, Live
<1>4. /\ tokens'[k] = level /\ last'[k] = now /\ granted' = granted
      /\ checkedAt' = checkedAt /\ time' = time /\ since' = since /\ stored' = stored
  BY DEF GetTokens, BucketInv, TypeOK
<1>5. /\ level >= Rate * (now - time - MaxSkew) /\ Rate * (now - time - MaxSkew) \in Int
      /\ Rate * (now - time - MaxSkew) >= -2 * Rate * MaxSkew
  BY <1>3, RefillKeepsLevel
<1>6. -2 * Rate * MaxSkew \in Int
  BY <1>1
<1> HIDE DEF level
<1>7. LevelOK(k)'
  <2>1. level >= -2 * Rate * MaxSkew
    BY <1>2, <1>5, <1>6
  <2> QED
    BY <1>2, <1>4, <1>5, <2>1 DEF LevelOK
<1>8. ASSUME granted[k] > 0
      PROVE  granted[k] + level <= Capacity + Rate * (now - since[k] + MaxSkew)
  <2>1. granted[k] + tokens[k] <= Capacity + Rate * (last[k] - since[k] + MaxSkew)
    BY <1>8 DEF BucketInv, CountOK
  <2>2. Rate * (last[k] - since[k] + MaxSkew) + Rate * (now - last[k])
          = Rate * (now - since[k] + MaxSkew)
    BY <1>1
  <2>3. /\ Rate * (last[k] - since[k] + MaxSkew) \in Int /\ Rate * (now - last[k]) \in Int
        /\ Rate * (now - since[k] + MaxSkew) \in Int
    BY <1>1, RateGrows
  <2> QED
    BY <1>1, <1>2, <2>1, <2>2, <2>3
<1>9. CountOK(k)'
  <2> SUFFICES ASSUME granted'[k] > 0
               PROVE  /\ stored'[k] /\ since'[k] <= checkedAt'[k]
                      /\ granted'[k] <= Capacity
                                        + Rate * (checkedAt'[k] - since'[k] + 2 * MaxSkew)
                      /\ granted'[k] + tokens'[k]
                           <= Capacity + Rate * (last'[k] - since'[k] + MaxSkew)
    BY DEF CountOK
  <2>1. granted[k] > 0
    BY <1>4
  <2>2. stored'[k]
    BY <1>3, <1>4, Zenon
  <2>3. /\ since[k] <= checkedAt[k]
        /\ granted[k] <= Capacity + Rate * (checkedAt[k] - since[k] + 2 * MaxSkew)
    BY <2>1 DEF BucketInv, CountOK
  <2> QED
    BY <2>1, <2>2, <2>3, <1>4, <1>8
<1> QED
  BY <1>1, <1>4, <1>7, <1>9
-------------------------------------------------------------------------------
\* The strengthened invariant survives every step.
LEMMA InvStep == BucketInv /\ [Next]_vars => BucketInv'
<1> SUFFICES ASSUME BucketInv, [Next]_vars PROVE BucketInv'
  OBVIOUS
<1>0. TypeOK' /\ time \in Nat /\ time' \in Nat
  BY TypePreserved DEF BucketInv, TypeOK
<1> SUFFICES ASSUME NEW k \in Key
             PROVE  /\ checkedAt'[k] <= time' /\ since'[k] <= time'
                    /\ LevelOK(k)' /\ CountOK(k)'
  BY <1>0 DEF BucketInv
<1>1. ASSUME NEW j \in Key, NEW now \in Clocks, Check(j, now)
      PROVE  /\ checkedAt'[k] <= time' /\ since'[k] <= time'
             /\ LevelOK(k)' /\ CountOK(k)'
  <2>1. CASE k = j /\ Live(k)
    BY <1>1, <2>1, CheckLive
  <2>2. CASE k = j /\ ~Live(k)
    BY <1>1, <2>2, CheckFresh
  <2>3. CASE k # j
    <3>1. Untouched(k)
      BY <1>1, <2>3, Zenon DEF Check, Untouched, BucketInv, TypeOK
    <3>2. time' = time
      BY <1>1 DEF Check
    <3> QED
      BY <3>1, <3>2, <1>0, TimePasses
  <2> QED
    BY <2>1, <2>2, <2>3
<1>2. ASSUME NEW j \in Key, NEW now \in Clocks, GetTokens(j, now)
      PROVE  /\ checkedAt'[k] <= time' /\ since'[k] <= time'
             /\ LevelOK(k)' /\ CountOK(k)'
  <2>1. CASE k = j
    BY <1>2, <2>1, ReadLive
  <2>2. CASE k # j
    <3>1. Untouched(k)
      BY <1>2, <2>2, Zenon DEF GetTokens, Untouched, BucketInv, TypeOK
    <3>2. time' = time
      BY <1>2 DEF GetTokens
    <3> QED
      BY <3>1, <3>2, <1>0, TimePasses
  <2> QED
    BY <2>1, <2>2
<1>3. ASSUME NEW j \in Key, Observe(j)
      PROVE  /\ checkedAt'[k] <= time' /\ since'[k] <= time'
             /\ LevelOK(k)' /\ CountOK(k)'
  <2>1. CASE k = j
    <3>1. since'[k] = time /\ granted'[k] = 0
      BY <1>3, <2>1 DEF Observe, BucketInv, TypeOK
    <3>2. CountOK(k)'
      BY <3>1 DEF CountOK
    <3>3. LevelOK(k)'
      BY <1>3 DEF Observe, LevelOK, BucketInv
    <3> QED
      BY <3>1, <3>2, <3>3, <1>0, <1>3 DEF Observe, BucketInv
  <2>2. CASE k # j
    <3>1. Untouched(k)
      BY <1>3, <2>2, Zenon DEF Observe, Untouched, BucketInv, TypeOK
    <3>2. time' = time
      BY <1>3 DEF Observe
    <3> QED
      BY <3>1, <3>2, <1>0, TimePasses
  <2> QED
    BY <2>1, <2>2
<1>4. ASSUME NEW j \in Key, Reset(j)
      PROVE  /\ checkedAt'[k] <= time' /\ since'[k] <= time'
             /\ LevelOK(k)' /\ CountOK(k)'
  <2>1. CASE k = j
    <3>1. since'[k] = time /\ granted'[k] = 0
      BY <1>4, <2>1 DEF Reset, BucketInv, TypeOK
    <3>2. CountOK(k)'
      BY <3>1 DEF CountOK
    <3>3. ~stored'[k]
      BY <1>4, <2>1, Zenon DEF Reset, BucketInv, TypeOK
    <3>4. LevelOK(k)'
      BY <3>3, Zenon DEF LevelOK
    <3> QED
      BY <3>1, <3>2, <3>4, <1>0, <1>4 DEF Reset, BucketInv
  <2>2. CASE k # j
    <3>1. Untouched(k)
      BY <1>4, <2>2, Zenon DEF Reset, Untouched, BucketInv, TypeOK
    <3>2. time' = time
      BY <1>4 DEF Reset
    <3> QED
      BY <3>1, <3>2, <1>0, TimePasses
  <2> QED
    BY <2>1, <2>2
<1>5. CASE Tick
  <2>1. Untouched(k)
    BY <1>5, Zenon DEF Tick, Untouched
  <2>2. time <= time'
    BY <1>0, <1>5 DEF Tick
  <2> QED
    BY <2>1, <2>2, <1>0, TimePasses
<1>6. CASE UNCHANGED vars
  <2>1. Untouched(k)
    BY <1>6, Zenon DEF vars, Untouched
  <2>2. time' = time
    BY <1>6 DEF vars
  <2> QED
    BY <2>1, <2>2, <1>0, TimePasses
<1> QED
  BY <1>1, <1>2, <1>3, <1>4, <1>5, <1>6 DEF Next

\* Absent buckets satisfy it.
LEMMA InvInit == Init => BucketInv
<1> SUFFICES ASSUME Init PROVE BucketInv
  OBVIOUS
<1>1. TypeOK
  <2>1. stored \in [Key -> BOOLEAN]
    BY Zenon DEF Init
  <2>2. Capacity \in Nat
    BY BucketConstantsOK
  <2> QED
    BY <2>1, <2>2 DEF Init, TypeOK
<1>2. ASSUME NEW k \in Key PROVE LevelOK(k)
  <2>1. ~stored[k]
    BY Zenon DEF Init
  <2> QED
    BY <2>1, Zenon DEF LevelOK
<1>3. ASSUME NEW k \in Key
      PROVE  checkedAt[k] <= time /\ since[k] <= time /\ CountOK(k)
  BY DEF Init, CountOK
<1> QED
  BY <1>1, <1>2, <1>3 DEF BucketInv

\* It holds in every reachable state.
THEOREM BucketsConsistent == Spec => []BucketInv
<1> QED
  BY InvInit, InvStep, PTL DEF Spec

\* Hash fields, clocks and counters keep their types.
THEOREM TypeCorrect == Spec => []TypeOK
<1>1. BucketInv => TypeOK
  BY DEF BucketInv
<1> QED
  BY <1>1, BucketsConsistent, PTL

\* Over any stretch of time the gateways sharing a bucket let through a burst, the
\* refill, and what their clocks' disagreement is worth, and not a request more.
THEOREM AdmissionIsBounded == Spec => []AdmissionBounded
<1>1. BucketInv => AdmissionBounded
  <2> SUFFICES ASSUME BucketInv, NEW k \in Key
               PROVE  granted[k] <= Capacity + Rate * (time - since[k] + 2 * MaxSkew)
    BY DEF AdmissionBounded
  <2>1. /\ checkedAt[k] \in Nat /\ since[k] \in Nat /\ granted[k] \in Nat /\ time \in Nat
        /\ MaxSkew \in Nat /\ Capacity \in Nat /\ checkedAt[k] <= time /\ since[k] <= time
        /\ Rate \in Nat
    BY BucketConstantsOK DEF BucketInv, TypeOK
  <2>2. /\ Rate * (checkedAt[k] - since[k] + 2 * MaxSkew) \in Int
        /\ Rate * (time - since[k] + 2 * MaxSkew) \in Int
        /\ Rate * (checkedAt[k] - since[k] + 2 * MaxSkew)
             <= Rate * (time - since[k] + 2 * MaxSkew)
        /\ Rate * 0 <= Rate * (time - since[k] + 2 * MaxSkew)
    BY <2>1, RateGrows
  <2>3. CASE granted[k] = 0
    BY <2>1, <2>2, <2>3
  <2>4. CASE granted[k] > 0
    <3>1. granted[k] <= Capacity + Rate * (checkedAt[k] - since[k] + 2 * MaxSkew)
      BY <2>4 DEF BucketInv, CountOK
    <3> QED
      BY <3>1, <2>1, <2>2
  <2> QED
    BY <2>1, <2>3, <2>4
<1> QED
  BY <1>1, BucketsConsistent, PTL

\* No bucket is ever driven further below zero than the skew is worth.
THEOREM DebtIsBounded == Spec => []DebtBounded
<1>1. BucketInv => DebtBounded
  BY DEF BucketInv, DebtBounded, LevelOK, Live
<1> QED
  BY <1>1, BucketsConsistent, PTL
===============================================================================
