---------------------------- MODULE AccountState ----------------------------
(***************************************************************************)
(* The account-level state of the pool (internal/pool/state.go) and what   *)
(* each event does to it inside Manager.mu (internal/pool/pool.go and      *)
(* probe.go).  Time stamps, messages, probe results and usage counters are *)
(* shown on the panel but never read by a decision, so they are left out.  *)
(***************************************************************************)
EXTENDS Naturals

CONSTANT Absent      \* "no such account": not in the map, or no such row

AutoReasons == {"quota", "credential"}

\* QuotaFailStreak is only ever compared with this limit, so the model
\* counts up to it and stays there.
StreakLimit == 2

AccountStates == [manual: BOOLEAN, auto: {""} \cup AutoReasons,
                  streak: 0..StreakLimit]

ASSUME AbsentAssumption == Absent \notin AccountStates

Fresh == [manual |-> FALSE, auto |-> "", streak |-> 0]

\* AccountState.Available: the two domains are orthogonal.
Available(s) == s # Absent /\ ~s.manual /\ s.auto = ""

-----------------------------------------------------------------------------
NextStreak(n) == IF n < StreakLimit THEN n + 1 ELSE n

AfterSuccessKeeps(s) == s                        \* mutant: no reset

AfterSuccess(s) == [s EXCEPT !.streak = 0]

AfterQuota(s) ==
  [s EXCEPT !.streak = NextStreak(@),
            !.auto   = IF NextStreak(s.streak) >= StreakLimit /\ @ = ""
                       THEN "quota" ELSE @]

AfterCredentialOther(s) == [s EXCEPT !.auto = "expired"]        \* mutant

AfterCredential(s) == [s EXCEPT !.auto = IF @ = "" THEN "credential" ELSE @]

\* The kinds that Punishes() lets through; a rate limit only cools a model.
PunishingKinds == {"rate", "quota", "credential"}

AfterError(s, kind) ==
  CASE kind = "rate"       -> s
    [] kind = "quota"      -> AfterQuota(s)
    [] kind = "credential" -> AfterCredential(s)

\* Enabling by hand also clears the automatic domain.
AfterManual(s, off) ==
  IF off THEN [s EXCEPT !.manual = TRUE]
         ELSE [s EXCEPT !.manual = FALSE, !.auto = "", !.streak = 0]

RecoveredFully(s) == Fresh                       \* mutant: clears both domains

\* What a probe that got an answer does.
Recovered(s)         == [s EXCEPT !.auto = "", !.streak = 0]
Condemned(s, reason) == [s EXCEPT !.auto = reason]
=============================================================================
