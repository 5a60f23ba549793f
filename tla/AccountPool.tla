---------------------------- MODULE AccountPool ----------------------------
(***************************************************************************)
(* pool.Manager: the state of every account in memory, its rows in SQLite, *)
(* and the ways a change travels from the one to the other.                *)
(*                                                                         *)
(* A handler changes memory in one critical section of Manager.mu.  What   *)
(* it does after the unlock (numbering a write, sending it to the          *)
(* persister's channel, writing the database itself) is left in todo[t],   *)
(* the rest of the handler of goroutine t, and runs step by step between   *)
(* the steps of the other goroutines and of the persister.                 *)
(*                                                                         *)
(* The router's bindings, which some handlers also touch, are in module    *)
(* SessionRouter: nothing here reads them.                                 *)
(***************************************************************************)
EXTENDS AccountState, Sequences, FiniteSets

CONSTANTS
  Uids, Models,
  Threads,     \* goroutines running handlers; the persister is apart
  QueueCap,    \* persistQueueSize
  Budgets,     \* bounds to explore: how often each environment event happens
  NoUid,       \* token.json is absent
  Archived, Current   \* archives and token.json when the process starts

Events == {"success", "error", "manual", "clear", "probe", "reload",
           "login", "import", "activate", "remove", "logout",
           "fault", "stop", "crash"}

ASSUME CapAssumption    == QueueCap \in Nat \ {0}
ASSUME BudgetAssumption == Budgets \subseteq [Events -> Nat]
ASSUME UidAssumption    == NoUid \notin Uids
ASSUME FilesAssumption  == Archived \subseteq Uids /\ Current \in Uids \cup {NoUid}

VARIABLES
  acc,       \* Manager.accounts, uid -> AccountState
  cool,      \* Manager.cools: the (uid, model) pairs with an entry
  dbRow,     \* table pool_account_state
  dbCool,    \* table pool_model_cool
  queue,     \* persistCh
  worker,    \* what the persister goroutine is doing
  seq,       \* Manager.seq
  applied,   \* Manager.applied
  todo,      \* per goroutine, the rest of its handler
  snap,      \* per goroutine, what a ReloadMembers has read so far
  phase,     \* "up"; "closing" after Close was called; "down"
  archives,  \* uids with a file in data/accounts
  active,    \* uid in data/token.json
  budget,    \* what is left of the chosen one of Budgets
  userOff,   \* history: accounts whose last manual action was "disable"; a
             \* restart forgets those whose write the last process lost
  fails,     \* history: quota failures since the last success, up to the limit
  late,      \* history: rows the persister wrote over a newer direct write
  lost,      \* history: what has gone amiss since the last start
  out        \* history: accounts logged out and not brought back since

mem   == <<acc, cool>>
db    == <<dbRow, dbCool>>
files == <<archives, active>>
hist  == <<userOff, fails, late, lost, out>>
vars  == <<mem, db, queue, worker, seq, applied, todo, snap, phase, files,
           budget, hist>>

-----------------------------------------------------------------------------
(* Writes, and the steps a handler is made of. *)

Row(u, s)   == [kind |-> "row", uid |-> u, row |-> s]
Cool(k,u,m) == [kind |-> k, uid |-> u, model |-> m]     \* k: "cool", "uncool"
Gone(k, u)  == [kind |-> k, uid |-> u]                  \* k: "gone", "goneCools"

Rows   == [kind: {"row"}, uid: Uids, row: AccountStates]
Cools  == [kind: {"cool", "uncool"}, uid: Uids, model: Models]
Goners == [kind: {"gone", "goneCools"}, uid: Uids]
Ops    == [w: Rows \cup Cools, seq: Nat]

Steps ==
  [do: {"persist", "send"}, w: Rows \cup Cools, seq: Nat]
    \cup [do: {"sync", "mark"}, w: Rows \cup Goners, seq: Nat]
    \cup [do: {"write"}, w: Rows \cup Cools \cup Goners, seq: Nat]
    \cup [do: {"forget", "answer", "record"}, uid: Uids]
    \cup [do: {"rows", "scan", "swap"}]

Persist(w) == <<[do |-> "persist", w |-> w, seq |-> 0]>>
Sync(w)    == <<[do |-> "sync", w |-> w, seq |-> 0]>>
Write(w)   == <<[do |-> "write", w |-> w, seq |-> 0]>>
OnUid(d,u) == <<[do |-> d, uid |-> u]>>
Reload     == <<[do |-> "rows"], [do |-> "scan"], [do |-> "swap"]>>
DeleteRows(u)   == Sync(Gone("gone", u))                        \* mutant
DeleteMemory(u) == OnUid("forget", u)                           \* mutant
Delete(u)  == OnUid("forget", u) \o Sync(Gone("gone", u))
                \o Write(Gone("goneCools", u))

NoSnap == [rows |-> [u \in Uids |-> Absent], files |-> {}]
Idle   == [stage |-> "idle"]

\* "fault": a write was dropped, a statement failed or a crash cut a handler
\* short; "lag": a reload read the rows before the queue was written;
\* "orphan": at the start there was a row of an account that is not on disk.
Harms   == {"fault", "lag", "orphan"}
Drained == queue = <<>> /\ worker = Idle

TypeOK ==
  /\ acc \in [Uids -> AccountStates \cup {Absent}]
  /\ cool \subseteq Uids \X Models
  /\ dbRow \in [Uids -> AccountStates \cup {Absent}]
  /\ dbCool \subseteq Uids \X Models
  /\ queue \in Seq(Ops)
  /\ worker \in {Idle} \cup [stage: {"judge", "save"}, op: Ops]
  /\ seq \in Nat
  /\ applied \in [Uids -> Nat]
  /\ todo \in [Threads -> Seq(Steps)]
  /\ snap \in [Threads -> [rows: [Uids -> AccountStates \cup {Absent}],
                           files: SUBSET Uids]]
  /\ phase \in {"up", "closing", "down"}
  /\ archives \subseteq Uids
  /\ active \in Uids \cup {NoUid}
  /\ budget \in [Events -> Nat]
  /\ userOff \subseteq Uids
  /\ fails \in [Uids -> 0..StreakLimit]
  /\ late \in [Uids -> Nat]
  /\ lost \subseteq Harms
  /\ out \subseteq Uids

-----------------------------------------------------------------------------
(* reloadMembers: the members are the uids on disk; a row already read from *)
(* the database decides the state of its account.                          *)
OnDisk == archives \cup ({active} \ {NoUid})

MembersAfresh(rows, on) ==                                      \* mutant
  [u \in Uids |-> IF u \in on THEN Fresh ELSE Absent]

Members(rows, on) ==
  [u \in Uids |-> IF u \notin on THEN Absent
                  ELSE IF rows[u] = Absent THEN Fresh ELSE rows[u]]

Init ==
  /\ archives = Archived /\ active = Current
  /\ dbRow = [u \in Uids |-> Absent] /\ dbCool = {}
  /\ acc = Members(dbRow, OnDisk) /\ cool = {}
  /\ queue = <<>> /\ worker = Idle
  /\ seq = 0 /\ applied = [u \in Uids |-> 0]
  /\ todo = [t \in Threads |-> <<>>] /\ snap = [t \in Threads |-> NoSnap]
  /\ phase = "up" /\ budget \in Budgets
  /\ userOff = {} /\ fails = [u \in Uids |-> 0]
  /\ late = [u \in Uids |-> 0] /\ lost = {} /\ out = {}

-----------------------------------------------------------------------------
(* Handlers: the first critical section of each. *)

ServingUp == phase = "up"                                       \* mutant
Serving == phase # "down"

Spend(e) == budget[e] > 0 /\ budget' = [budget EXCEPT ![e] = @ - 1]

Start(t, e, rest) ==
  /\ Serving /\ todo[t] = <<>> /\ Spend(e)
  /\ todo' = [todo EXCEPT ![t] = rest]

NoteSuccess(t, u, m) ==
  /\ acc' = [acc EXCEPT ![u] = IF @ = Absent THEN @ ELSE AfterSuccess(@)]
  /\ cool' = cool \ {<<u, m>>}
  /\ Start(t, "success",
           (IF <<u, m>> \in cool THEN Persist(Cool("uncool", u, m)) ELSE <<>>)
             \o (IF acc[u] # Absent /\ acc[u].auto # ""
                 THEN Persist(Row(u, acc'[u])) ELSE <<>>))
  /\ fails' = [fails EXCEPT ![u] = 0]
  /\ UNCHANGED <<db, queue, worker, seq, applied, snap, phase, files,
                 userOff, late, lost, out>>

NoteError(t, u, m, kind) ==
  /\ acc[u] # Absent
  /\ acc' = [acc EXCEPT ![u] = AfterError(@, kind)]
  /\ cool' = IF kind = "rate" THEN cool \cup {<<u, m>>} ELSE cool
  /\ Start(t, "error",
           (IF kind = "rate" THEN Persist(Cool("cool", u, m)) ELSE <<>>)
             \o Persist(Row(u, acc'[u])))
  /\ fails' = IF kind = "quota" THEN [fails EXCEPT ![u] = NextStreak(@)]
                                ELSE fails
  /\ UNCHANGED <<db, queue, worker, seq, applied, snap, phase, files,
                 userOff, late, lost, out>>

SetManualDisabled(t, u, off) ==
  /\ acc[u] # Absent
  /\ acc' = [acc EXCEPT ![u] = AfterManual(@, off)]
  /\ Start(t, "manual", Sync(Row(u, acc'[u])))
  /\ userOff' = IF off THEN userOff \cup {u} ELSE userOff \ {u}
  /\ fails' = IF off THEN fails ELSE [fails EXCEPT ![u] = 0]
  /\ UNCHANGED <<cool, db, queue, worker, seq, applied, snap, phase, files,
                 late, lost, out>>

\* The direct delete carries no sequence number.
ClearModelCool(t, u, m) ==
  /\ cool' = cool \ {<<u, m>>}
  /\ Start(t, "clear", Write(Cool("uncool", u, m)))
  /\ UNCHANGED <<acc, db, queue, worker, seq, applied, snap, phase, files,
                 hist>>

\* Probe reads the account, then waits for the upstream ("answer"), unless
\* the account is disabled by hand: then it only records the time.
Probe(t, u) ==
  /\ acc[u] # Absent
  /\ Start(t, "probe", OnUid(IF acc[u].manual THEN "record" ELSE "answer", u))
  /\ UNCHANGED <<mem, db, queue, worker, seq, applied, snap, phase, files,
                 hist>>

ReloadMembers(t) ==
  /\ Start(t, "reload", Reload)
  /\ UNCHANGED <<mem, db, queue, worker, seq, applied, snap, phase, files,
                 hist>>

\* activateAccount: archive the current account, install the chosen one.
Activate(t, u) ==
  /\ u \in archives /\ active # u
  /\ archives' = OnDisk /\ active' = u
  /\ out' = out \ {u}
  /\ Start(t, "activate", Reload)
  /\ UNCHANGED <<mem, db, queue, worker, seq, applied, snap, phase,
                 userOff, fails, late, lost>>

\* deleteAccountProfile: never the active account.
RemoveProfile(t, u) ==
  /\ u \in archives /\ active # u
  /\ archives' = archives \ {u}
  /\ Start(t, "remove", Delete(u))
  /\ UNCHANGED <<mem, db, queue, worker, seq, applied, snap, phase, active,
                 hist>>

\* accountDelete ("log out"): token.json goes, the archive stays.
Logout(t) ==
  /\ active # NoUid
  /\ active' = NoUid
  /\ Start(t, "logout", Delete(active))
  /\ out' = out \cup {active}
  /\ UNCHANGED <<mem, db, queue, worker, seq, applied, snap, phase, archives,
                 userOff, fails, late, lost>>

\* oauthPoll, accountImport with activate: token.json and an archive.
Login(u) ==
  /\ Serving /\ Spend("login")
  /\ active' = u /\ archives' = archives \cup {u}
  /\ out' = out \ {u}
  /\ UNCHANGED <<mem, db, queue, worker, seq, applied, todo, snap, phase,
                 userOff, fails, late, lost>>

\* accountImport without activate, accountImportBatch: an archive only.
Import(u) ==
  /\ Serving /\ Spend("import")
  /\ archives' = archives \cup {u}
  /\ out' = out \ {u}
  /\ UNCHANGED <<mem, db, queue, worker, seq, applied, todo, snap, phase,
                 active, userOff, fails, late, lost>>

-----------------------------------------------------------------------------
(* The rest of a handler, one step at a time. *)

At(t, d) == todo[t] # <<>> /\ Head(todo[t]).do = d
Done(t)  == todo' = [todo EXCEPT ![t] = Tail(@)]
Become(t, d, n) ==
  todo' = [todo EXCEPT ![t] = <<[do |-> d, w |-> Head(@).w, seq |-> n]>>
                                \o Tail(@)]
Then(t, more) == todo' = [todo EXCEPT ![t] = more \o Tail(@)]

\* nextSeq, under seqMu and after Manager.mu was released.
Number(t) ==
  /\ \/ At(t, "persist") /\ Become(t, "send", seq + 1)
     \/ At(t, "sync") /\ Become(t, "mark", seq + 1)
  /\ seq' = seq + 1
  /\ UNCHANGED <<mem, db, queue, worker, applied, snap, phase, files, budget,
                 hist>>

\* persist's default branch, and the send on a closed channel it recovers from.
RefusedNever == FALSE                                           \* mutant
Refused == phase # "up" \/ Len(queue) = QueueCap

\* persist's select: a full or closed channel drops the write, never blocks.
Send(t) ==
  LET s == Head(todo[t]) IN
  /\ At(t, "send") /\ Done(t)
  /\ \/ /\ phase = "up" /\ Len(queue) < QueueCap
        /\ queue' = Append(queue, [w |-> s.w, seq |-> s.seq])
        /\ UNCHANGED lost
     \/ /\ Refused
        /\ lost' = lost \cup {"fault"}
        /\ UNCHANGED queue
  /\ UNCHANGED <<mem, db, worker, seq, applied, snap, phase, files, budget,
                 userOff, fails, late, out>>

\* markApplied: the number only grows.
Raised(u, n) == [applied EXCEPT ![u] = IF n > @ THEN n ELSE @]

\* The mark of a direct write; the count of late rows starts again.
Mark(t) ==
  LET s == Head(todo[t]) IN
  /\ At(t, "mark") /\ Become(t, "write", s.seq)
  /\ IF s.seq > applied[s.w.uid]
     THEN /\ applied' = Raised(s.w.uid, s.seq)
          /\ late' = [late EXCEPT ![s.w.uid] = 0]
     ELSE UNCHANGED <<applied, late>>
  /\ UNCHANGED <<mem, db, queue, worker, seq, snap, phase, files, budget,
                 userOff, fails, lost, out>>

\* One SQL statement.
Store(w) ==
  /\ dbRow' = CASE w.kind = "row"  -> [dbRow EXCEPT ![w.uid] = w.row]
                [] w.kind = "gone" -> [dbRow EXCEPT ![w.uid] = Absent]
                [] OTHER           -> dbRow
  /\ dbCool' = CASE w.kind = "cool"      -> dbCool \cup {<<w.uid, w.model>>}
                 [] w.kind = "uncool"    -> dbCool \ {<<w.uid, w.model>>}
                 [] w.kind = "goneCools" -> {c \in dbCool : c[1] # w.uid}
                 [] OTHER                -> dbCool

\* A failed statement is only logged.
StoreFails ==
  Spend("fault") /\ lost' = lost \cup {"fault"} /\ UNCHANGED db

\* The direct write of the handler itself; DeletePoolAccount stops at its
\* first failing statement.
WriteDb(t) ==
  LET w == Head(todo[t]).w IN
  /\ At(t, "write")
  /\ \/ Store(w) /\ Done(t) /\ UNCHANGED <<budget, lost>>
     \/ StoreFails /\ todo' = [todo EXCEPT ![t] = <<>>]
  /\ UNCHANGED <<mem, queue, worker, seq, applied, snap, phase, files,
                 userOff, fails, late, out>>

\* DeleteAccount's critical section.
Forget(t) ==
  LET u == Head(todo[t]).uid IN
  /\ At(t, "forget") /\ Done(t)
  /\ acc' = [acc EXCEPT ![u] = Absent]
  /\ cool' = {c \in cool : c[1] # u}
  /\ userOff' = userOff \ {u} /\ fails' = [fails EXCEPT ![u] = 0]
  /\ UNCHANGED <<db, queue, worker, seq, applied, snap, phase, files, budget,
                 late, lost, out>>

\* The upstream has answered the probe.  A network error changes nothing.
Answer(t) ==
  LET u == Head(todo[t]).uid
      Row1 == IF acc[u] = Absent THEN <<>> ELSE Persist(Row(u, acc'[u]))
  IN
  /\ At(t, "answer")
  /\ \/ /\ Then(t, OnUid("record", u))
        /\ UNCHANGED <<acc, fails>>
     \/ \E reason \in AutoReasons :
          /\ acc' = [acc EXCEPT ![u] =
                       IF @ = Absent THEN @ ELSE Condemned(@, reason)]
          /\ Then(t, Row1 \o OnUid("record", u))
          /\ UNCHANGED fails
     \/ /\ acc' = [acc EXCEPT ![u] = IF @ = Absent THEN @ ELSE Recovered(@)]
        /\ Then(t, OnUid("record", u))
        /\ fails' = [fails EXCEPT ![u] = 0]
  /\ UNCHANGED <<cool, db, queue, worker, seq, applied, snap, phase, files,
                 budget, userOff, late, lost, out>>

\* recordProbe writes the row it finds now.
Record(t) ==
  LET u == Head(todo[t]).uid IN
  /\ At(t, "record")
  /\ Then(t, IF acc[u] = Absent THEN <<>> ELSE Persist(Row(u, acc[u])))
  /\ UNCHANGED <<mem, db, queue, worker, seq, applied, snap, phase, files,
                 budget, hist>>

\* ReloadMembers: LoadPoolAccounts (an error leaves no rows), then the
\* files, then the swap under Manager.mu.
ReadRows(t) ==
  /\ At(t, "rows") /\ Done(t)
  /\ \/ /\ snap' = [snap EXCEPT ![t].rows = dbRow]
        /\ lost' = IF Drained THEN lost ELSE lost \cup {"lag"}
        /\ UNCHANGED budget
     \/ Spend("fault") /\ lost' = lost \cup {"fault"} /\ UNCHANGED snap
  /\ UNCHANGED <<mem, db, queue, worker, seq, applied, phase, files,
                 userOff, fails, late, out>>

Scan(t) ==
  /\ At(t, "scan") /\ Done(t)
  /\ snap' = [snap EXCEPT ![t].files = OnDisk]
  /\ UNCHANGED <<mem, db, queue, worker, seq, applied, phase, files, budget,
                 hist>>

Swap(t) ==
  /\ At(t, "swap") /\ Done(t)
  /\ acc' = Members(snap[t].rows, snap[t].files)
  /\ snap' = [snap EXCEPT ![t] = NoSnap]
  /\ UNCHANGED <<cool, db, queue, worker, seq, applied, phase, files, budget,
                 hist>>

Step(t) ==
  \/ Number(t) \/ Send(t) \/ Mark(t) \/ WriteDb(t)
  \/ Forget(t) \/ Answer(t) \/ Record(t)
  \/ ReadRows(t) \/ Scan(t) \/ Swap(t)

-----------------------------------------------------------------------------
(* The persister. *)

Take ==
  /\ Serving /\ worker = Idle /\ queue # <<>>
  /\ worker' = [stage |-> "judge", op |-> Head(queue)]
  /\ queue' = Tail(queue)
  /\ UNCHANGED <<mem, db, seq, applied, todo, snap, phase, files, budget, hist>>

IsStaleNever(op) == FALSE                                       \* mutant
IsStale(op) == op.seq < applied[op.w.uid]

\* isStale and markApplied, two sections of seqMu: nobody else reads applied
\* and it only grows, so nothing can tell them from one.  Only account rows
\* are judged, never cooldowns.
Judge ==
  LET op == worker.op IN
  /\ worker.stage = "judge"
  /\ \/ /\ op.w.kind # "row"
        /\ worker' = [worker EXCEPT !.stage = "save"]
        /\ UNCHANGED applied
     \/ /\ op.w.kind = "row" /\ ~IsStale(op)
        /\ worker' = [worker EXCEPT !.stage = "save"]
        /\ applied' = Raised(op.w.uid, op.seq)
     \/ /\ op.w.kind = "row" /\ IsStale(op)
        /\ worker' = Idle
        /\ UNCHANGED applied
  /\ UNCHANGED <<mem, db, queue, seq, todo, snap, phase, files, budget, hist>>

Save ==
  LET op == worker.op IN
  /\ worker.stage = "save"
  /\ worker' = Idle
  /\ \/ /\ Store(op.w)
        /\ late' = IF op.w.kind = "row" /\ op.seq < applied[op.w.uid]
                   THEN [late EXCEPT ![op.w.uid] = @ + 1] ELSE late
        /\ UNCHANGED <<budget, lost>>
     \/ StoreFails /\ UNCHANGED late
  /\ UNCHANGED <<mem, queue, seq, applied, todo, snap, phase, files,
                 userOff, fails, out>>

Persister == Take \/ Judge \/ Save

-----------------------------------------------------------------------------
(* The process. *)

\* Close: no more sends; the persister empties the channel.
Close ==
  /\ phase = "up" /\ Spend("stop")
  /\ phase' = "closing"
  /\ UNCHANGED <<mem, db, queue, worker, seq, applied, todo, snap, files, hist>>

MidHandler == \E t \in Threads : todo[t] # <<>>
Quiescent  == Drained /\ ~MidHandler

Die(cut) ==
  /\ phase' = "down"
  /\ queue' = <<>> /\ worker' = Idle
  /\ todo' = [t \in Threads |-> <<>>] /\ snap' = [t \in Threads |-> NoSnap]
  /\ lost' = IF cut THEN lost \cup {"fault"} ELSE lost
  /\ UNCHANGED <<mem, db, seq, applied, files, userOff, fails, late, out>>

ExitAtOnce ==                                                   \* mutant
  phase = "closing" /\ Die(MidHandler) /\ UNCHANGED budget

\* main returns once Close has seen the persister finish.
Exit ==
  /\ phase = "closing" /\ Drained
  /\ Die(MidHandler) /\ UNCHANGED budget

Crash == Serving /\ Spend("crash") /\ Die(~Quiescent)

\* New: Load, then a new persister.  LoadPoolCools leaves the cooldowns out
\* that have expired by now; a failed read leaves no rows.
Boot ==
  /\ phase = "down"
  /\ phase' = "up"
  /\ \/ /\ cool' \in SUBSET dbCool
        /\ acc' = Members(dbRow, OnDisk)
        /\ lost' = IF \E u \in Uids : dbRow[u] # Absent /\ acc'[u] = Absent
                   THEN {"orphan"} ELSE {}
        /\ UNCHANGED budget
     \/ /\ Spend("fault")
        /\ cool' = {} /\ acc' = Members(NoSnap.rows, OnDisk)
        /\ lost' = {"fault"}
  /\ seq' = 0 /\ applied' = [u \in Uids |-> 0]
  /\ late' = [u \in Uids |-> 0]
  /\ userOff' = {u \in userOff : "fault" \in lost \/ late[u] > 0
                                   => acc'[u] # Absent /\ acc'[u].manual}
  /\ UNCHANGED <<db, queue, worker, todo, snap, files, fails, out>>

-----------------------------------------------------------------------------
Handlers ==
  \E t \in Threads :
    \/ ReloadMembers(t) \/ Logout(t)
    \/ \E u \in Uids :
         \/ Probe(t, u) \/ Activate(t, u) \/ RemoveProfile(t, u)
         \/ \E off \in BOOLEAN : SetManualDisabled(t, u, off)
         \/ \E m \in Models :
              \/ NoteSuccess(t, u, m) \/ ClearModelCool(t, u, m)
              \/ \E kind \in PunishingKinds : NoteError(t, u, m, kind)

Files == \E u \in Uids : Login(u) \/ Import(u)

Process == Close \/ Exit \/ Crash \/ Boot

Next == Handlers \/ (\E t \in Threads : Step(t)) \/ Persister \/ Files \/ Process

Spec == Init /\ [][Next]_vars

\* The next step is a statement the handler runs itself.  It waits for the
\* store's only connection (SetMaxOpenConns), which a hung statement keeps.
Asks(t) == At(t, "write") \/ At(t, "rows")

\* Go schedules the goroutines, the upstream answers a probe or runs into its
\* timeout.  The database need never answer: neither the persister nor a
\* statement of a handler is fair.  Calls, stops and crashes need never come.
FairSpec == Spec /\ \A t \in Threads : WF_vars(Step(t) /\ ~Asks(t))

-----------------------------------------------------------------------------
(* What the sequence numbers achieve (comment of persistOp): after a write   *)
(* of the user was numbered and marked, the persister puts at most one older *)
(* row over it, the one it had already judged.                               *)
AtMostOneLate == \A u \in Uids : late[u] <= 1

\* The state a restart would give the account.
Stored(u) == IF dbRow[u] = Absent THEN Fresh ELSE dbRow[u]

(* When handlers run one after the other, nothing is dropped and no reload   *)
(* reads rows the queue has still to write, a restart finds the disabled     *)
(* flags and the cooldowns memory had, unless the persister overtook a       *)
(* direct write of that account.  Also says that Close empties the channel   *)
(* before main exits.  Rows of accounts that are not on disk do no harm.     *)
DurableUnlessOvertaken ==
  Quiescent /\ lost \subseteq {"orphan"} =>
    /\ \A u \in Uids : acc[u] # Absent /\ late[u] = 0 =>
         Stored(u).manual = acc[u].manual /\ Stored(u).auto = acc[u].auto
    /\ phase = "up" => cool \subseteq dbCool

(* An account the user disabled stays disabled in memory, whatever probes,   *)
(* errors and successes in flight do after the click (state.go: the manual   *)
(* domain is the user's).                                                    *)
ManualStaysOff ==
  \A u \in userOff : acc[u] # Absent => acc[u].manual

(* ReloadMembers, whatever row it reads, does not give a manually disabled   *)
(* account back, when handlers run one after the other and the persister did *)
(* not overtake the user's write, unless the database failed.                *)
ReloadKeepsManual ==
  "fault" \notin lost =>
    \A u \in userOff : acc[u] # Absent /\ late[u] = 0 => acc[u].manual

(* Between handlers that run one after the other the pool holds no account   *)
(* whose credentials are gone from the disk, if the current account had an   *)
(* archive when the process started (a login since writes one).              *)
MembersOnDisk ==
  Quiescent /\ phase = "up" => \A u \in Uids : acc[u] # Absent => u \in OnDisk

(* Between such handlers there is no row of an account that was deleted: a   *)
(* write still in the queue must not bring it back (DeleteAccount).  A crash *)
(* between the removal of the file and that of the row leaves an orphan,     *)
(* which no later start deletes.                                             *)
DeletedRowStaysGone ==
  Quiescent /\ lost = {} =>
    \A u \in Uids : acc[u] = Absent /\ late[u] = 0 => dbRow[u] = Absent

(* A chat error disables an account for its quota only after two quota       *)
(* failures with no success between them (NoteError, NoteSuccess).  Holds    *)
(* while nothing is read back from the database: a success resets the streak *)
(* in memory and leaves it in the row.                                       *)
QuotaNeedsTwo ==
  [][\A t \in Threads, u \in Uids, m \in Models :
       NoteError(t, u, m, "quota") /\ acc[u].auto = "" /\ acc'[u].auto # ""
         => fails[u] >= StreakLimit - 1]_vars

(* persist never waits: a handler with nothing left to do but such writes    *)
(* (chat errors and successes, the answer to a probe) ends, even when the    *)
(* database hangs, other handlers wait for it and the channel is full        *)
(* (comments of persist and persistQueueSize).  Clicks, deletions and        *)
(* reloads run statements of their own, and do wait.                         *)
OnlyQueues(t) ==
  \A i \in DOMAIN todo[t] : todo[t][i].do \notin {"sync", "mark", "write", "rows"}
HandlersNeverWait ==
  \A t \in Threads : todo[t] # <<>> /\ OnlyQueues(t) ~> todo[t] = <<>>

(* As long as the database answers the persister and main goes on, Close     *)
(* returns: the channel is emptied and the process exits.                    *)
CloseReturns ==
  WF_vars(Persister) /\ WF_vars(Exit) => (phase = "closing" ~> phase = "down")

-----------------------------------------------------------------------------
(* What the comments say and the code does not do.                           *)

(* pool.go:84-86: the queue must not write an old manual_disabled = 0 back   *)
(* over the user's "disable", or a restart revives the account.              *)
UserDisableDurable ==
  Quiescent /\ lost = {} =>
    \A u \in userOff : acc[u] # Absent => Stored(u).manual

(* admin.go:384-387: an account that was logged out is no longer used.       *)
LoggedOutUnused == Quiescent => \A u \in out : acc[u] = Absent
=============================================================================
