------------------------------ MODULE UsageStore ------------------------------
(***************************************************************************)
(* The usage_tracks table (internal/model/usage.go) and the two SQL        *)
(* statements internal/handler/helpers.go runs against it.                 *)
(*                                                                         *)
(* The table is the sequence of its rows in primary-key order.  A row's    *)
(* total_tokens is kept as the formal sum it is: added[r] counts how often *)
(* the tokens of response r were added to the row, so the number stored is *)
(* the sum of added[r] * tokens[r].                                        *)
(***************************************************************************)
EXTENDS Naturals, Sequences

CONSTANTS Response,  \* the upstream responses whose usage is recorded
          Tenant,    \* tenant ids
          Model      \* model names

Key == [tenant : Tenant, date : Nat, model : Model]

\* UsageTrack: nothing makes (tenant_id, date, model) unique.
UsageTrack == [key : Key, added : [Response -> Nat]]

\* The rows WHERE tenant_id = ? AND date = ? AND model = ? selects.
Matching(table, key) == {i \in DOMAIN table : table[i].key = key}

\* UPDATE ... SET total_tokens = total_tokens + ?: every matching row, atomically.
Update(table, key, r) ==
    [i \in DOMAIN table |->
        IF table[i].key = key
        THEN [key |-> key, added |-> [table[i].added EXCEPT ![r] = @ + 1]]
        ELSE table[i]]

\* db.Create: a new row, with the highest primary key.
Insert(table, key, r) ==
    Append(table, [key |-> key, added |-> [s \in Response |-> IF s = r THEN 1 ELSE 0]])

\* Response r counts in at least one row.
Credited(table, r) == \E i \in DOMAIN table : table[i].added[r] > 0

\* No two rows share tenant, date and model.
KeysUnique(table) == \A i, j \in DOMAIN table : table[i].key = table[j].key => i = j
===============================================================================
