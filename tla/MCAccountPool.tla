---------------------------- MODULE MCAccountPool ----------------------------
(* Instances of AccountPool for TLC: how often each event may happen in a run. *)
EXTENDS AccountPool, TLC

Allow(f) == [e \in Events |-> IF e \in DOMAIN f THEN f[e] ELSE 0]

\* Chat traffic against one click, two goroutines; a probe waiting for its
\* answer against the clicks.
Traffic == Allow([error |-> 2, success |-> 1, manual |-> 1])
Probing == Allow([error |-> 1, probe |-> 1, manual |-> 1, remove |-> 1])
Concurrent == {Traffic, Probing}

\* One goroutine at a time: with faults, stops and crashes; with accounts
\* coming and going; with a crash in the middle of a removal.
Stops == Allow([error |-> 1, success |-> 1, manual |-> 1, login |-> 1,
                clear |-> 1, fault |-> 1, stop |-> 1, crash |-> 1])
Membership == Allow([error |-> 1, manual |-> 1, reload |-> 1, fault |-> 1,
                     import |-> 1, activate |-> 1, remove |-> 1, logout |-> 1])
Orphans == Allow([error |-> 1, import |-> 1, reload |-> 1, remove |-> 1, crash |-> 1])
OneByOne == {Stops, Membership, Orphans}

\* A stop while handlers are running: errors beside a click; a probe beside a
\* reload.  Clicks and reloads may wait for the database.
Stopping == {Allow([error |-> 2, manual |-> 1, stop |-> 1]),
             Allow([probe |-> 1, reload |-> 1, stop |-> 1])}

\* The shortest story of each disagreement.
DisableAfterError == {Allow([error |-> 1, manual |-> 1])}
LogoutThenReload  == {Allow([logout |-> 1, reload |-> 1])}

ThreadSymmetry == Permutations(Threads)
=============================================================================
