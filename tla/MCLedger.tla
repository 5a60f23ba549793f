------------------------------ MODULE MCLedger ------------------------------
(* Instances of Ledger for TLC. *)
EXTENDS Ledger

Allow(f) == [e \in Events |-> IF e \in DOMAIN f THEN f[e] ELSE 0]

CONSTANTS p1, p2

Key(p, s) == [plain |-> p, status |-> s, uses |-> 0]
OneKey  == <<Key(p1, "active"), Absent>>
SameKey == <<Key(p1, "disabled"), Key(p1, "active")>>
Tables2 == {OneKey, SameKey}

\* The panel changes keys, two handlers at a time, with a failing statement.
KeyChanges == Allow([create |-> 1, update |-> 1, delete |-> 1, fail |-> 1])
\* A key is updated or deleted under the requests that use it.
KeyUses == Allow([update |-> 1, delete |-> 1, call |-> 2])
\* A stop or a failing statement meets a change, a request and the cleaning.
Restarts == Allow([update |-> 1, call |-> 1, clean |-> 1, fail |-> 1, stop |-> 1])
\* Requests fill the log, which is cleaned by size; days pass.
LogGrows == Allow([call |-> 3, clean |-> 1])
LogAges  == Allow([call |-> 2, clean |-> 1, dawn |-> 2])
Everything == {KeyChanges, KeyUses, Restarts, LogGrows, LogAges}
=============================================================================
