---------------------------- MODULE MCUsageRecorder ----------------------------
(* Small instances of UsageRecorder for TLC. *)
EXTENDS UsageAccounts

CONSTANTS r1, r2, r3, t1, m1, m2, p1, p2

\* Two responses of one tenant and model, a third (if any) of another model.
MCTenantOf == [r \in Response |-> t1]
MCModelOf  == [r \in Response |-> IF r = r3 THEN m2 ELSE m1]
===============================================================================
