------------------------------- MODULE MCAuditLog -------------------------------
(* Small instances of AuditLog for TLC. *)
EXTENDS AuditLog

CONSTANTS r1, r2, r3, r4

\* Without is the SelectSeq of the standard modules.
ASSUME WithoutIsSelectSeq ==
    \A n \in 0 .. 4, gone \in SUBSET Request : \A s \in [1 .. n -> Request] :
        Without(s, gone) = SelectSeq(s, LAMBDA e : e \notin gone)
===============================================================================
