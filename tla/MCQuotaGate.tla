------------------------------ MODULE MCQuotaGate ------------------------------
(* Small instances of QuotaGate for TLC. *)
EXTENDS QuotaGate, TLC

CONSTANTS r1, r2, r3, r4, r5, t1, m1, m2, p1

MCTenantOf == [r \in Response |-> t1]

\* All requests ask for one model, or the first asks for another.
OneModel  == [r \in Response |-> m1]
TwoModels == [r \in Response |-> IF r = r1 THEN m1 ELSE m2]

\* One message of 5 bytes is estimated at 1000 tokens.
MCBytes == [r \in Response |-> 5]
MCCost  == [r \in Response |-> IF r = r1 THEN 1000 ELSE 1500]

\* Requests that cost the same are interchangeable.
RequestSymmetry == Permutations(Response \ {r1})

MCQuota == [t \in Tenant |-> 2000]
TightQuota == [t \in Tenant |-> 1000]
===============================================================================
