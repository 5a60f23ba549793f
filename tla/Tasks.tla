-------------------------------- MODULE Tasks --------------------------------
(***************************************************************************)
(* taskops.Runner and the handlers of the panel that use it: accept the    *)
(* tasks of the task centre, do what they ask for, wait for the progress,  *)
(* claim the rewards.                                                      *)
(*                                                                         *)
(* One round at a time: a run of one task, of all of them, or a sweep      *)
(* (which only accepts and claims) takes Runner.mu by TryLock and is       *)
(* turned away if another one has it.  A round works on the list it has    *)
(* read at its start; upstream counts the progress some time after the     *)
(* behaviour.  The panel's own accept and claim take no lock.  What a      *)
(* round has brought is stored for the panel when it is over.              *)
(***************************************************************************)
EXTENDS Host

CONSTANTS
  Codes,       \* tasks
  MPCodes,     \* those of the mini program, which has a list of its own
  AutoCodes,   \* those with an action
  NightCodes,  \* those that count at night only (black_cat)
  Workers      \* goroutines that run rounds

TaskStates == {"locked", "offered", "accepted", "played", "done", "claimed"}
Lists == UNION {[S -> TaskStates] : S \in SUBSET Codes}

ASSUME TasksAssumption == MPCodes \cup AutoCodes \cup NightCodes \subseteq Codes

VARIABLES
  rmu,         \* Runner.mu: the goroutine that holds it
  board,       \* upstream: per account and task
  work,        \* per goroutine
  stats,       \* task_last_sweep, task_last_queue, overview: whose, or None
  late         \* history: the results stored after the account had changed

tasks == <<rmu, board, work, stats, late>>

NoWork == [pc |-> "idle"]
Kinds == {"auto", "all", "queue", "sweep"}
WorkStates ==
  {NoWork}
    \cup [pc: {"find", "offers", "snapshot", "list", "take", "next", "accept",
               "play", "wait", "claim", "record"},
          kind: Kinds, for: Accts, list: Lists, todo: SUBSET Codes,
          code: Codes \cup {None}]

Results == {"sweep", "queue", "overview"}

TasksTypeOK ==
  /\ rmu \in Workers \cup {None}
  /\ board \in [Accts -> [Codes -> TaskStates]]
  /\ work \in [Workers -> WorkStates]
  /\ stats \in [Results -> Accts \cup {None}]
  /\ late \subseteq Results

TasksInit ==
  /\ rmu = None
  /\ work = [w \in Workers |-> NoWork]
  /\ stats = [s \in Results |-> None] /\ late = {}

-----------------------------------------------------------------------------
Turn(w, s) == work' = [work EXCEPT ![w] = s]
To(w, p) == Turn(w, [work[w] EXCEPT !.pc = p])
Doing(w, p) == up /\ work[w].pc = p
Kind(w) == work[w].kind
Frees(w) == rmu' = IF rmu = w THEN None ELSE rmu

\* Upstream.
Accepted(b, S) == [c \in Codes |-> IF c \in S /\ b[c] = "offered" THEN "accepted" ELSE b[c]]
Played(b, c) == IF b[c] = "accepted" THEN [b EXCEPT ![c] = "played"] ELSE b
\* Claiming what is claimed already is no error (already_claimed).
Claimed(b, c) == IF b[c] = "done" THEN [b EXCEPT ![c] = "claimed"] ELSE b
Put(b) == board' = [board EXCEPT ![acct] = b]

\* ListTasksMerged: it does without the list of the mini program if that fails.
Part == [c \in Codes \ MPCodes |-> board[acct][c]]
Merged(l) ==
  \/ l = board[acct] /\ Answered
  \/ l = Part /\ Spend("fail")
Answers == IF acct = None THEN {} ELSE {board[acct], Part}

Pending(l) == {c \in DOMAIN l : l[c] = "offered"}
Claimable(l) == {c \in DOMAIN l : l[c] = "done"}

-----------------------------------------------------------------------------
(* Starts: the gate, TryLock.  Cron's night task asks for Allowed only. *)
Round(k, p, S) ==
  [pc |-> p, kind |-> k, for |-> acct, list |-> [c \in {} |-> "locked"],
   todo |-> S, code |-> None]
Begins(w, k, p, S) ==
  /\ up /\ work[w] = NoWork /\ Allowed
  /\ rmu = None /\ rmu' = w /\ Turn(w, Round(k, p, S))
  /\ UNCHANGED <<board, stats, late>>

AutoContext(w, c) == c \in AutoCodes /\ Begins(w, "auto", "find", {c})
AutoAllContext(w) == Gate /\ Begins(w, "all", "offers", AutoCodes)
\* RunTaskQueueOnce: only if Scan finds something to do.
Scan == {c \in AutoCodes : board[acct][c] \notin {"claimed", "locked"}}
RunTaskQueueOnce(w) ==
  Gate /\ Begins(w, "queue", "offers", AutoCodes) /\ Scan # {}
\* What a start that is turned away leaves.
Refused(gate) == up /\ (~gate \/ rmu # None) /\ UNCHANGED tasks
NothingToDo == up /\ Gate /\ Scan = {} /\ UNCHANGED tasks
RunTaskSweep(w) == Gate /\ Begins(w, "sweep", "list", {})

Rest == UNCHANGED <<stats, late>>
Keeps == UNCHANGED rmu

-----------------------------------------------------------------------------
(* A run of all tasks: accept what is offered, read the list once. *)
Offers(w) ==
  /\ Doing(w, "offers") /\ Keeps /\ Rest
  /\ \/ \E l \in Answers : Merged(l) /\ Put(Accepted(board[acct], Pending(l)))
     \/ Failed /\ UNCHANGED board
  /\ To(w, "snapshot")

With(w, p, l) == Turn(w, [work[w] EXCEPT !.pc = p, !.list = l])
Snapshot(w) ==
  /\ Doing(w, "snapshot") /\ Keeps /\ Rest /\ UNCHANGED board
  /\ \/ \E l \in Answers : Merged(l) /\ With(w, "next", l)
     \/ Failed /\ To(w, "next")

(* A sweep: accept and claim what its one list says. *)
List(w) ==
  /\ Doing(w, "list") /\ Rest /\ UNCHANGED board
  /\ \/ Keeps /\ \E l \in Answers :
                  Merged(l) /\ Turn(w, [work[w] EXCEPT !.pc = "take", !.list = l,
                                                       !.todo = Claimable(l)])
     \/ Failed /\ Frees(w) /\ To(w, "record")
Take(w) ==
  /\ Doing(w, "take") /\ Keeps /\ Rest /\ To(w, "next")
  /\ \/ Answered /\ Put(Accepted(board[acct], Pending(work[w].list)))
     \/ Failed /\ UNCHANGED board

(* A run of one task. *)
Find(w) ==
  /\ Doing(w, "find") /\ Keeps /\ Rest /\ UNCHANGED board
  /\ \/ Answered /\ With(w, "next", board[acct])
     \/ Failed /\ Turn(w, [work[w] EXCEPT !.pc = "next", !.todo = {}])
\* acceptPending reads the task again.
AcceptOne(w) ==
  /\ Doing(w, "accept") /\ Keeps /\ Rest /\ To(w, "play")
  /\ \/ Answered /\ Put(Accepted(board[acct], {work[w].code}))
     \/ Failed /\ UNCHANGED board

-----------------------------------------------------------------------------
(* One task after the other (runOneSnap, runOneWith). *)
\* What the round believes of a task: its list; upstream, if the task may be
\* missing from it; or that there is no such task.
Believed(w, c) ==
  LET l == work[w].list IN
  IF c \in DOMAIN l THEN l[c]
  ELSE IF DOMAIN l = {} \/ c \in MPCodes THEN board[acct][c] ELSE "locked"

Due(w, c) ==
  IF Kind(w) = "sweep" THEN "claim"
  ELSE CASE Believed(w, c) \in {"locked", "claimed"} -> "next"
         [] Believed(w, c) = "done" -> "claim"
         [] OTHER -> IF Kind(w) = "auto" THEN "accept" ELSE "play"

NextTask(w) ==
  /\ Doing(w, "next") /\ Keeps /\ Rest /\ UNCHANGED board /\ acct # None /\ Local
  /\ \E c \in work[w].todo :
       Turn(w, [work[w] EXCEPT !.pc = Due(w, c), !.todo = @ \ {c}, !.code = c])

\* The behaviour: events, conversations; a night task does nothing by day.
Play(w, night) ==
  LET c == work[w].code IN
  /\ Doing(w, "play") /\ Keeps /\ Rest
  /\ \/ /\ Answered /\ To(w, "wait")
        /\ Put(IF c \in NightCodes /\ ~night THEN board[acct] ELSE Played(board[acct], c))
     \/ Failed /\ To(w, "next") /\ UNCHANGED board

\* TaskByCodeWaiting: some polls, then it gives up.
Wait(w) ==
  /\ Doing(w, "wait") /\ Keeps /\ Rest /\ UNCHANGED board
  /\ \/ Answered /\ To(w, IF board[acct][work[w].code] = "done" THEN "claim" ELSE "next")
     \/ Failed /\ To(w, "next")

\* ClaimRewardFor: a failure is left to the next sweep.
Claim(w) ==
  /\ Doing(w, "claim") /\ Keeps /\ Rest /\ To(w, "next")
  /\ \/ Answered /\ Put(Claimed(board[acct], work[w].code))
     \/ Failed /\ UNCHANGED board

KeepsLock(w) == IF Kind(w) = "sweep" THEN UNCHANGED rmu ELSE Frees(w)  \* mutant
GivesBack(w) == Frees(w)

\* The end of the round: unlock; without an account nothing is left to do.
Finish(w) ==
  /\ Doing(w, "next") /\ (work[w].todo = {} \/ acct = None) /\ Local
  /\ GivesBack(w) /\ Rest /\ UNCHANGED board
  /\ IF Kind(w) \in {"sweep", "queue"} THEN To(w, "record") ELSE Turn(w, NoWork)

Stored(s, a) ==
  /\ stats' = [stats EXCEPT ![s] = a]
  /\ late' = IF a = acct THEN late \ {s} ELSE late \cup {s}

\* recordSweep, recordQueue
Record(w) ==
  /\ Doing(w, "record") /\ Local /\ Turn(w, NoWork)
  /\ Stored(Kind(w), work[w].for)
  /\ UNCHANGED <<rmu, board>>

-----------------------------------------------------------------------------
(* The panel's own calls: no lock. *)
TasksAccept ==
  /\ up /\ Gate /\ Put(Accepted(board[acct], Codes))
  /\ UNCHANGED <<rmu, work, stats, late>>
TasksClaim(c) ==
  /\ up /\ Gate /\ Put(Claimed(board[acct], c))
  /\ UNCHANGED <<rmu, work, stats, late>>

\* growthInvalidateOverview; the part of the caches that serves the panel.
InvalidateOverview ==
  /\ stats' = [stats EXCEPT !["overview"] = None] /\ late' = late \ {"overview"}
  /\ UNCHANGED <<rmu, board, work>>

\* A sweep that is turned away is recorded too, over the one before.
SweepBusy ==
  /\ up /\ Gate /\ rmu # None /\ Stored("sweep", acct)
  /\ UNCHANGED <<rmu, board, work>>

WorkStep(w, night) ==
  \/ Offers(w) \/ Snapshot(w) \/ List(w) \/ Take(w) \/ Find(w) \/ AcceptOne(w)
  \/ NextTask(w) \/ Play(w, night) \/ Wait(w) \/ Claim(w) \/ Finish(w) \/ Record(w)

KeepStats == UNCHANGED <<stats, late>>                            \* mutant
\* ResetAccountState, its part for the tasks.
ResetStats ==
  /\ stats' = [stats EXCEPT !["sweep"] = None, !["queue"] = None]
  /\ late' = late \ {"sweep", "queue"}

\* Upstream's own steps: it counts a behaviour; the next day opens a task.
Score(a, c) ==
  /\ board[a][c] = "played" /\ board' = [board EXCEPT ![a][c] = "done"]
  /\ UNCHANGED <<rmu, work, stats, late>>
TasksDawn ==
  /\ board' = [a \in Accts |-> [c \in Codes |->
                 IF board[a][c] = "locked" THEN "offered" ELSE board[a][c]]]
  /\ UNCHANGED <<rmu, work, stats, late>>

TasksCrash ==
  /\ rmu' = None /\ work' = [w \in Workers |-> NoWork]
  /\ UNCHANGED <<board, stats, late>>

-----------------------------------------------------------------------------
\* The results on show are the present account's.
StatsOwn == \A s \in Results \ late : stats[s] \in {None, acct}
=============================================================================
