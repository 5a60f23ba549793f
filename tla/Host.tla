-------------------------------- MODULE Host --------------------------------
(***************************************************************************)
(* What every background job of the gateway looks at: the process, the     *)
(* account that is logged in, the settings and the date.                   *)
(***************************************************************************)
EXTENDS Settings, FiniteSets

CONSTANTS
  Accts,       \* accounts
  Enterprise,  \* those of an enterprise, which have no tasks and no growth
  None         \* no account, no goroutine

Events == {"edit", "switch", "grow", "hand", "task", "click", "look",
           "fail", "stop", "mark", "dawn", "refresh"}

ASSUME HostAssumption == None \notin Accts /\ Enterprise \subseteq Accts

VARIABLES
  up,          \* the process is running
  acct,        \* the account token.json holds
  day,         \* date, counted from 1
  budget       \* bound: how often each event may still happen

host == <<up, acct, day, budget>>

Spend(e) == budget[e] > 0 /\ budget' = [budget EXCEPT ![e] = @ - 1]

\* A call upstream ends well, or is one of the failures explored; without an
\* account it fails.  For an enterprise any call may fail: which of them it is
\* denied is the upstream's choice.
Answered == acct # None /\ UNCHANGED budget
Local == UNCHANGED budget
Failed == Spend("fail") \/ (acct \in Enterprise \cup {None} /\ UNCHANGED budget)

\* growthPrecondition: logged in, and the Chinese region.
Allowed == conf["region"] = "cn" /\ acct # None
\* Runner.Gate, which guards all of the task centre but the night task of cron.
Gate == Allowed /\ acct \notin Enterprise
=============================================================================
