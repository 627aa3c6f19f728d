------------------------------ MODULE TokenBucket ------------------------------
(***************************************************************************)
(* middleware/ratelimit/token_bucket.go: the token buckets that several    *)
(* gateways share in Redis.  A Lua script is atomic; what is not shared is *)
(* the clock: each call passes its own gateway's time, taken before the    *)
(* script runs, while keys expire by the clock of Redis.                   *)
(*                                                                         *)
(* Time is in ticks that are worth Rate tokens; fractions of a tick's      *)
(* tokens are not modelled.  What is counted as granted is what the script *)
(* grants: Go's reading of its reply comes after the token is gone.        *)
(***************************************************************************)
EXTENDS Integers

CONSTANTS Key,       \* buckets: client addresses, API keys, tenants
          Rate,      \* tokens added per tick
          Capacity,  \* bucketSize
          Window,    \* EXPIRE of a bucket
          MaxSkew,   \* how far a call's time is from that of Redis, latency included
          MaxTime    \* bound: last tick

ASSUME BucketConstantsOK ==
    /\ Rate \in Nat \ {0} /\ Capacity \in Nat \ {0}
    /\ Window \in Nat /\ MaxSkew \in Nat /\ MaxTime \in Nat

\* A bucket refills before it expires, whatever the clocks: true of the default
\* options (10 per second, 100 tokens, one minute) up to 25 seconds of skew.
ASSUME WindowRefills == Rate * (Window - 2 * MaxSkew) >= Capacity

VARIABLES stored,    \* the bucket's hash is in Redis
          tokens,    \* its fields
          last,
          checkedAt, \* Redis time of its last EXPIRE
          time,      \* the clock of Redis
          since,     \* history: when the observer of a bucket began to count
          granted    \* history: requests allowed since then

vars == <<stored, tokens, last, checkedAt, time, since, granted>>

Init ==
    /\ stored = [k \in Key |-> FALSE]
    /\ tokens = [k \in Key |-> 0] /\ last = [k \in Key |-> 0]
    /\ checkedAt = [k \in Key |-> 0]
    /\ time = 0
    /\ since = [k \in Key |-> 0] /\ granted = [k \in Key |-> 0]

Clocks == time - MaxSkew .. time + MaxSkew

Live(k) == stored[k] /\ time < checkedAt[k] + Window

\* Mutation of Refill: math.min is forgotten.
RefillUncapped(k, now) == tokens[k] + Rate * (now - last[k])

\* math.min(capacity, tokens + tokensToAdd).
Refill(k, now) ==
    LET full == tokens[k] + Rate * (now - last[k])
    IN IF full < Capacity THEN full ELSE Capacity

Available(k, now) == IF Live(k) THEN Refill(k, now) ELSE Capacity

\* Mutation of Check: a refused call is charged as well.
CheckCharging(k, now) ==
    LET allowed == Available(k, now) >= 1 IN
    /\ tokens' = [tokens EXCEPT ![k] = Available(k, now) - 1]
    /\ last' = [last EXCEPT ![k] = now]
    /\ granted' = [granted EXCEPT ![k] = @ + (IF allowed THEN 1 ELSE 0)]
    /\ stored' = [stored EXCEPT ![k] = TRUE]
    /\ checkedAt' = [checkedAt EXCEPT ![k] = time]
    /\ UNCHANGED <<time, since>>

\* Check: refill, take a token if there is one, store both fields, set the expiry.
Check(k, now) ==
    LET allowed == Available(k, now) >= 1 IN
    /\ tokens' = [tokens EXCEPT ![k] = Available(k, now) - (IF allowed THEN 1 ELSE 0)]
    /\ last' = [last EXCEPT ![k] = now]
    /\ granted' = [granted EXCEPT ![k] = @ + (IF allowed THEN 1 ELSE 0)]
    /\ stored' = [stored EXCEPT ![k] = TRUE]
    /\ checkedAt' = [checkedAt EXCEPT ![k] = time]
    /\ UNCHANGED <<time, since>>

\* GetTokens refills and stores as well; it takes nothing and sets no expiry.
GetTokens(k, now) ==
    /\ Live(k)
    /\ tokens' = [tokens EXCEPT ![k] = Refill(k, now)]
    /\ last' = [last EXCEPT ![k] = now]
    /\ UNCHANGED <<stored, checkedAt, time, since, granted>>

Observe(k) ==
    /\ since' = [since EXCEPT ![k] = time]
    /\ granted' = [granted EXCEPT ![k] = 0]
    /\ UNCHANGED <<stored, tokens, last, checkedAt, time>>

\* Reset deletes the bucket; a count can only start again after it.
Reset(k) ==
    /\ stored' = [stored EXCEPT ![k] = FALSE]
    /\ since' = [since EXCEPT ![k] = time]
    /\ granted' = [granted EXCEPT ![k] = 0]
    /\ UNCHANGED <<tokens, last, checkedAt, time>>

Tick ==
    /\ time < MaxTime /\ time' = time + 1
    /\ UNCHANGED <<stored, tokens, last, checkedAt, since, granted>>

Next ==
    \/ \E k \in Key :
          \/ \E now \in Clocks : Check(k, now) \/ GetTokens(k, now)
          \/ Observe(k) \/ Reset(k)
    \/ Tick

Spec == Init /\ [][Next]_vars
-------------------------------------------------------------------------------
(* Properties.                                                             *)

\* The hash fields, clocks and counters are integers of the expected sign, and no
\* bucket holds more than its size.
TypeOK ==
    /\ stored \in [Key -> BOOLEAN]
    /\ {tokens, last} \subseteq [Key -> Int] /\ \A k \in Key : tokens[k] <= Capacity
    /\ {checkedAt, since, granted} \subseteq [Key -> Nat] /\ time \in Nat

\* Over any stretch of time, from whenever one starts counting, the gateways
\* together allow a burst and the refill of that time, plus what the disagreement
\* of their clocks is worth: expiry, skew and reads never hand out more.
AdmissionBounded ==
    \A k \in Key :
        granted[k] <= Capacity + Rate * (time - since[k] + 2 * MaxSkew)

\* A gateway with a slow clock may drive a bucket below zero, but no further than
\* the skew: no client is shut out for longer than that.
DebtBounded == \A k \in Key : Live(k) => tokens[k] >= -2 * Rate * MaxSkew
===============================================================================
