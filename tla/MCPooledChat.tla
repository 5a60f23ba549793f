---------------------------- MODULE MCPooledChat ----------------------------
(* Instances of PooledChat for TLC. *)
EXTENDS PooledChat, TLC

Allow(f) == [e \in Events |-> IF e \in DOMAIN f THEN f[e] ELSE 0]

\* Two sessions at once, one failure; one request failing on every account.
Together == Allow([request |-> 2, failure |-> 1])
Hopeless == Allow([request |-> 1, failure |-> 3, remove |-> 1, thaw |-> 1])
Requesting == {Together, Hopeless}

\* Requests of two sessions around a table with one place.
Bindings == {Allow([request |-> 2, failure |-> 1, manual |-> 1, reset |-> 1,
                    tick |-> 2, probe |-> 1])}

AllSymmetry == Permutations(Requests) \cup Permutations(Uids)
                 \cup Permutations(Sessions)
=============================================================================
