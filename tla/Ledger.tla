------------------------------- MODULE Ledger -------------------------------
(***************************************************************************)
(* apikey.Manager and the request log: which callers the gateway lets in   *)
(* and what it writes down about them.                                     *)
(*                                                                         *)
(* The keys are rows of SQLite and a copy of them in memory (cache); only  *)
(* the copy is looked at when a request comes.  A handler of the panel     *)
(* changes a row and then reloads the copy: a query, and a section of      *)
(* Manager.mu.  A request that has been served puts an entry into the      *)
(* channel of the log and one into the channel of the usage, and drops     *)
(* what does not fit; a worker behind each channel writes the rows.  Once  *)
(* a day the scheduler deletes log rows by age and by size.                *)
(***************************************************************************)
EXTENDS Integers, FiniteSets, SequencesExt

CONSTANTS
  MaxKeys,     \* bound: rows the table of keys ever has
  Plains,      \* the texts of keys
  Absent,      \* no row, no match
  Admins,      \* goroutines of the panel
  Callers,     \* goroutines of the proxy
  UsageCap, LogCap,    \* capacities of the two channels (256 in the code)
  Sizes,       \* sizes of log entries
  MaxBytes,    \* log_max_size_mb
  Retention,   \* log_retention_days
  Starts,      \* bound: the tables of keys to start with (any is possible)
  Budgets      \* bounds to explore: how often each event happens

Events == {"create", "update", "delete", "call", "clean", "dawn",
           "fail", "stop"}
Ids == 1..MaxKeys
Status == {"active", "disabled"}

Rows == [plain: Plains, status: Status, uses: Nat]
Keys == [plain: Plains, status: Status]
Tables == [Ids -> Rows \cup {Absent}]
Caches == [Ids -> Keys \cup {Absent}]
Entries == [key: Ids, size: Sizes, day: Nat]

ASSUME BoundAssumption ==
  /\ {MaxKeys, Retention} \subseteq Nat /\ Sizes \subseteq Nat \ {0}
  /\ {UsageCap, LogCap, MaxBytes} \subseteq Nat \ {0}
  /\ Budgets \subseteq [Events -> Nat] /\ Starts \subseteq Tables
ASSUME AbsentAssumption == Absent \notin Rows \cup Keys \cup Ids

VARIABLES
  up,          \* the process is running
  row, created,        \* api_keys, and the ids AUTOINCREMENT has given
  cache,       \* Manager.cache
  job,         \* per goroutine of the panel, what is left to do
  call,        \* per goroutine of the proxy
  usageCh, usageHand,  \* Manager.usageCh, what the worker has taken from it
  logCh, logHand,
  logs,        \* table logs, in the order of its ids
  cleaner, excess,     \* cleanupLogs, and the rows it is going to delete
  day, budget,
  alone,       \* history: no other handler has overlapped this one
  calm,        \* history: the last reload succeeded and belonged to such a one
  served,      \* history: per key, the requests that were to be counted
  lost         \* history: those of them that were dropped or failed

keys  == <<row, created, cache>>
usage == <<usageCh, usageHand>>
log   == <<logCh, logHand, logs>>
time  == <<day, cleaner, excess>>
vars  == <<up, keys, job, call, usage, log, time, budget, alone, calm, served, lost>>

Idle == [pc |-> "idle"]
Jobs ==
  {Idle, [pc |-> "list"]}
    \cup [pc: {"insert"}, plain: Plains]
    \cup [pc: {"get"}, id: Ids, status: Status \cup {Absent}]
    \cup [pc: {"write"}, id: Ids, row: Rows]
    \cup [pc: {"delete"}, id: Ids]
    \cup [pc: {"set"}, keys: Caches]
Calls == {Idle} \cup [pc: {"serve", "log", "count"}, key: Ids]

TypeOK ==
  /\ up \in BOOLEAN
  /\ row \in Tables /\ created \in 0..MaxKeys /\ cache \in Caches
  /\ job \in [Admins -> Jobs]
  /\ call \in [Callers -> Calls]
  /\ usageCh \in Seq(Ids) /\ Len(usageCh) <= UsageCap
  /\ usageHand \in Ids \cup {Absent}
  /\ logCh \in Seq(Entries) /\ Len(logCh) <= LogCap
  /\ logHand \in Entries \cup {Absent} /\ logs \in Seq(Entries)
  /\ cleaner \in {"idle", "size", "delete"} /\ excess \in Nat
  /\ day \in Nat /\ budget \in [Events -> Nat]
  /\ alone \in [Admins -> BOOLEAN] /\ calm \in BOOLEAN
  /\ served \in [Ids -> Nat] /\ lost \in [Ids -> Nat]

-----------------------------------------------------------------------------
\* New: the copy is made of the rows, or empty when the query fails.
Copy == [id \in Ids |-> IF row[id] = Absent THEN Absent
                        ELSE [plain |-> row[id].plain, status |-> row[id].status]]
Empty == [id \in Ids |-> Absent]

Init ==
  /\ up = TRUE
  /\ created \in 0..MaxKeys
  /\ row \in {t \in Starts : \A id \in Ids : id > created => t[id] = Absent}
  /\ cache = Copy
  /\ job = [a \in Admins |-> Idle] /\ call = [c \in Callers |-> Idle]
  /\ usageCh = <<>> /\ usageHand = Absent
  /\ logCh = <<>> /\ logHand = Absent /\ logs = <<>>
  /\ cleaner = "idle" /\ excess = 0 /\ day = 0 /\ budget \in Budgets
  /\ alone = [a \in Admins |-> TRUE] /\ calm = TRUE
  /\ served = [id \in Ids |-> IF row[id] = Absent THEN 0 ELSE row[id].uses]
  /\ lost = [id \in Ids |-> 0]

-----------------------------------------------------------------------------
Spend(e) == budget[e] > 0 /\ budget' = [budget EXCEPT ![e] = @ - 1]

Goto(a, j) == job' = [job EXCEPT ![a] = j]
Alone(a) == \A b \in Admins : b # a => job[b] = Idle

Enter(a, j) ==
  /\ up /\ job[a] = Idle /\ Goto(a, j)
  /\ alone' = [b \in Admins |-> IF b = a THEN Alone(a)
                                ELSE alone[b] /\ job[b] = Idle]
  /\ UNCHANGED <<up, keys, call, usage, log, time, calm, served, lost>>

(* The panel's handlers. *)
Create(a, p) == Spend("create") /\ Enter(a, [pc |-> "insert", plain |-> p])
\* Update with a status, or with a note only.
Update(a, id, s) ==
  Spend("update") /\ Enter(a, [pc |-> "get", id |-> id, status |-> s])
Discard(a, id) == Spend("delete") /\ Enter(a, [pc |-> "delete", id |-> id])

Changing(a) ==
  UNCHANGED <<up, cache, call, usage, log, time, budget, alone, calm, served, lost>>

ThenNothing == Idle                                              \* mutant
ThenReload == [pc |-> "list"]

\* Store.CreateKey: ids are never given twice, texts may be.
Insert(a) ==
  /\ job[a].pc = "insert" /\ created < MaxKeys
  /\ created' = created + 1
  /\ row' = [row EXCEPT ![created'] =
               [plain |-> job[a].plain, status |-> "active", uses |-> 0]]
  /\ Goto(a, ThenReload) /\ Changing(a)

\* Store.UpdateKey: read the row, then write its note and status.
Get(a) ==
  LET id == job[a].id   s == job[a].status IN
  /\ job[a].pc = "get"
  /\ Goto(a, IF row[id] = Absent THEN Idle
             ELSE [pc |-> "write", id |-> id,
                   row |-> IF s = Absent THEN row[id]
                           ELSE [row[id] EXCEPT !.status = s]])
  /\ UNCHANGED <<row, created>> /\ Changing(a)

WrittenWhole(id, r) ==                                           \* mutant
  IF row[id] = Absent THEN row ELSE [row EXCEPT ![id] = r]
WrittenAnew(id, r) ==                                            \* mutant
  IF row[id] = Absent THEN [row EXCEPT ![id] = r]
  ELSE [row EXCEPT ![id].status = r.status]
Written(id, r) ==
  IF row[id] = Absent THEN row ELSE [row EXCEPT ![id].status = r.status]

Write(a) ==
  /\ job[a].pc = "write"
  /\ row' = Written(job[a].id, job[a].row)
  /\ Goto(a, ThenReload) /\ UNCHANGED created /\ Changing(a)

Delete(a) ==
  /\ job[a].pc = "delete"
  /\ row' = [row EXCEPT ![job[a].id] = Absent]
  /\ Goto(a, ThenReload) /\ UNCHANGED created /\ Changing(a)

\* reload: the query, and the section that puts its result in the place of
\* the copy.
List(a) ==
  /\ job[a].pc = "list" /\ Goto(a, [pc |-> "set", keys |-> Copy])
  /\ UNCHANGED <<row, created>> /\ Changing(a)

Set(a) ==
  /\ job[a].pc = "set" /\ Goto(a, Idle)
  /\ cache' = job[a].keys /\ calm' = alone[a]
  /\ UNCHANGED <<up, row, created, call, usage, log, time, budget, alone, served, lost>>

\* A statement fails: the change is refused, a failed reload only logged.
Failed(a) ==
  /\ job[a].pc \in {"insert", "get", "write", "delete", "list"} /\ Spend("fail")
  /\ Goto(a, Idle)
  /\ calm' = (calm /\ job[a].pc # "list")
  /\ UNCHANGED <<up, keys, call, usage, log, time, alone, served, lost>>

Handler(a) == Insert(a) \/ Get(a) \/ Write(a) \/ Delete(a) \/ List(a) \/ Set(a)
-----------------------------------------------------------------------------
(* A request. *)

\* Authenticate goes through the copy, newest key first, to its end: of two
\* keys with one text the older counts.
Matches(ks, p) == {id \in Ids : ks[id] # Absent /\ ks[id].plain = p}
Found(ks, p) ==
  IF Matches(ks, p) = {} THEN Absent
  ELSE CHOOSE id \in Matches(ks, p) : \A o \in Matches(ks, p) : id <= o
Admitted(ks, p) ==
  LET id == Found(ks, p) IN
  IF id # Absent /\ ks[id].status = "active" THEN id ELSE Absent

Authenticate(c, p) ==
  /\ up /\ call[c] = Idle /\ Spend("call")
  /\ Admitted(cache, p) # Absent
  /\ call' = [call EXCEPT ![c] = [pc |-> "serve", key |-> Admitted(cache, p)]]
  /\ UNCHANGED <<up, keys, job, usage, log, time, alone, calm, served, lost>>

\* A body that is not understood is answered and not counted; nor is a list of
\* models.
Misread(c) ==
  /\ call[c].pc = "serve" /\ call' = [call EXCEPT ![c] = Idle]
  /\ UNCHANGED <<up, keys, job, usage, log, time, budget, alone, calm, served, lost>>

\* Chat and Embeddings end, well or not.
Serve(c) ==
  /\ call[c].pc = "serve" /\ call' = [call EXCEPT ![c].pc = "log"]
  /\ UNCHANGED <<up, keys, job, usage, log, time, budget, alone, calm, served, lost>>

OfferedPast(ch, cap, e) ==                                       \* mutant
  IF Len(ch) <= cap THEN {Append(ch, e)} ELSE {ch}
OfferedWaiting(ch, cap, e) ==                                    \* mutant
  IF Len(ch) < cap THEN {Append(ch, e)} ELSE {}
\* A send with a default branch: what does not fit is dropped.
Offered(ch, cap, e) == IF Len(ch) < cap THEN {Append(ch, e)} ELSE {ch}

\* writeLog, in the deferred function of the handler.
WriteLog(c, size) ==
  LET e == [key |-> call[c].key, size |-> size, day |-> day] IN
  /\ call[c].pc = "log"
  /\ logCh' \in Offered(logCh, LogCap, e)
  /\ call' = [call EXCEPT ![c].pc = "count"]
  /\ UNCHANGED <<up, keys, job, usage, logHand, logs, time, budget, alone, calm,
                 served, lost>>

More(f, id, n) == [f EXCEPT ![id] = @ + n]

\* RecordUsage, the last thing a request does.
RecordUsage(c) ==
  LET id == call[c].key IN
  /\ call[c].pc = "count"
  /\ usageCh' \in Offered(usageCh, UsageCap, id)
  /\ served' = More(served, id, 1)
  /\ lost' = IF usageCh' = usageCh THEN More(lost, id, 1) ELSE lost
  /\ call' = [call EXCEPT ![c] = Idle]
  /\ UNCHANGED <<up, keys, job, usageHand, log, time, budget, alone, calm>>

Request(c) == Serve(c) \/ RecordUsage(c) \/ \E size \in Sizes : WriteLog(c, size)
-----------------------------------------------------------------------------
(* The workers behind the channels. *)
TakeUsage ==
  /\ up /\ usageHand = Absent /\ usageCh # <<>>
  /\ usageHand' = Head(usageCh) /\ usageCh' = Tail(usageCh)
  /\ UNCHANGED <<up, keys, job, call, log, time, budget, alone, calm, served, lost>>

\* Store.IncrementKeyUsage: one statement, and none for a row that has gone.
IncrementKeyUsage ==
  /\ usageHand # Absent /\ usageHand' = Absent
  /\ row' = IF row[usageHand] = Absent THEN row
            ELSE [row EXCEPT ![usageHand].uses = @ + 1]
  /\ UNCHANGED <<up, created, cache, job, call, usageCh, log, time, budget, alone,
                 calm, served, lost>>

IncrementFailed ==
  /\ usageHand # Absent /\ Spend("fail") /\ usageHand' = Absent
  /\ lost' = More(lost, usageHand, 1)
  /\ UNCHANGED <<up, keys, job, call, usageCh, log, time, alone, calm, served>>

TakeLog ==
  /\ up /\ logHand = Absent /\ logCh # <<>>
  /\ logHand' = Head(logCh) /\ logCh' = Tail(logCh)
  /\ UNCHANGED <<up, keys, job, call, usage, logs, time, budget, alone, calm,
                 served, lost>>

InsertLog ==
  /\ logHand # Absent /\ logHand' = Absent
  /\ \/ logs' = Append(logs, logHand) /\ UNCHANGED budget
     \/ logs' = logs /\ Spend("fail")
  /\ UNCHANGED <<up, keys, job, call, usage, logCh, time, alone, calm, served, lost>>
-----------------------------------------------------------------------------
(* cleanupLogs: CleanupLogs, then CleanupLogsBySize.  The budget only says *)
(* whether there is any cleaning: it comes every day, for ever.            *)
Young(ls) ==
  FoldLeft(LAMBDA kept, e : IF e.day < day - Retention THEN kept ELSE Append(kept, e),
           <<>>, ls)

CleanByAge ==
  /\ up /\ cleaner = "idle" /\ budget["clean"] > 0
  /\ logs' = Young(logs) /\ cleaner' = "size"
  /\ UNCHANGED <<up, keys, job, call, usage, logCh, logHand, day, excess, budget, alone, calm,
                 served, lost>>

Total(ls) == FoldLeft(LAMBDA n, e : n + e.size, 0, ls)

\* How many of the oldest rows to delete, from an average rounded down.
ExcessUnclamped(ls) ==                                           \* mutant
  IF ls = <<>> \/ Total(ls) <= MaxBytes THEN 0
  ELSE (Total(ls) - MaxBytes) \div (Total(ls) \div Len(ls))
ExcessOfTotal(ls) ==                                             \* mutant
  IF ls = <<>> \/ Total(ls) <= MaxBytes THEN 0
  ELSE Total(ls) \div (Total(ls) \div Len(ls))
AtLeastOne(n) == IF n < 1 THEN 1 ELSE n
Excess(ls) ==
  IF ls = <<>> \/ Total(ls) <= MaxBytes THEN 0
  ELSE AtLeastOne((Total(ls) - MaxBytes) \div AtLeastOne(Total(ls) \div Len(ls)))

\* The query, and the deletion of the rows with the smallest ids.
Measure ==
  /\ cleaner = "size"
  /\ excess' = Excess(logs)
  /\ cleaner' = IF excess' = 0 THEN "idle" ELSE "delete"
  /\ UNCHANGED <<up, keys, job, call, usage, log, day, budget, alone, calm, served, lost>>

Oldest(ls, n) == SubSeq(ls, n + 1, Len(ls))
CleanBySize ==
  /\ cleaner = "delete"
  /\ logs' = Oldest(logs, excess) /\ excess' = 0 /\ cleaner' = "idle"
  /\ UNCHANGED <<up, keys, job, call, usage, logCh, logHand, day, budget, alone, calm,
                 served, lost>>

Cleaning == CleanByAge \/ Measure \/ CleanBySize

\* Any of its three statements fails.
CleanFailed ==
  /\ up /\ Spend("fail") /\ cleaner' = "idle" /\ excess' = 0
  /\ UNCHANGED <<up, keys, job, call, usage, log, day, alone, calm, served, lost>>

Dawn ==
  /\ Spend("dawn") /\ day' = day + 1
  /\ UNCHANGED <<up, keys, job, call, usage, log, cleaner, excess, alone, calm,
                 served, lost>>
-----------------------------------------------------------------------------
(* main waits for requests for eight seconds and ends, or the process is     *)
(* killed: nothing empties the two channels.                                 *)
InChannel(id) == Cardinality({i \in DOMAIN usageCh : usageCh[i] = id})
                   + (IF usageHand = id THEN 1 ELSE 0)

Exit ==
  /\ up /\ Spend("stop") /\ up' = FALSE
  /\ lost' = [id \in Ids |-> lost[id] + InChannel(id)]
  /\ cache' = Empty
  /\ job' = [a \in Admins |-> Idle] /\ call' = [c \in Callers |-> Idle]
  /\ usageCh' = <<>> /\ usageHand' = Absent /\ logCh' = <<>> /\ logHand' = Absent
  /\ cleaner' = "idle" /\ excess' = 0
  /\ UNCHANGED <<row, created, logs, day, alone, calm, served>>

Boot ==
  /\ ~up /\ up' = TRUE
  /\ \/ cache' = Copy /\ calm' = TRUE /\ UNCHANGED budget
     \/ cache' = Empty /\ calm' = FALSE /\ Spend("fail")
  /\ UNCHANGED <<row, created, job, call, usage, log, time, alone, served, lost>>
-----------------------------------------------------------------------------
Next ==
  \/ \E a \in Admins :
       \/ \E p \in Plains : Create(a, p)
       \/ \E id \in Ids, s \in Status \cup {Absent} : Update(a, id, s)
       \/ \E id \in Ids : Discard(a, id)
       \/ Handler(a) \/ Failed(a)
  \/ \E c \in Callers :
       (\E p \in Plains : Authenticate(c, p)) \/ Misread(c) \/ Request(c)
  \/ TakeUsage \/ IncrementKeyUsage \/ IncrementFailed \/ TakeLog \/ InsertLog
  \/ Cleaning \/ CleanFailed \/ Dawn
  \/ Exit \/ Boot

Spec == Init /\ [][Next]_vars

\* A request goes on (the upstream answers or the client's timeout does); the
\* workers and the cleaner may wait for the database for ever.
FairSpec == Spec /\ \A c \in Callers : WF_vars(Request(c))
-----------------------------------------------------------------------------
(* Once a change of the keys that met no other one has been answered, and   *)
(* its reload did not fail, a request is let in exactly if the table says   *)
(* so, whatever earlier changes left in the copy (comment of Manager).      *)
KeysObeyed ==
  up /\ calm /\ (\A a \in Admins : job[a] = Idle)
    => \A p \in Plains : Admitted(cache, p) = Admitted(row, p)

(* A key that was deleted never comes back, even if it was being updated or *)
(* counted.                                                                 *)
DeletedStaysDeleted ==
  [][\A id \in 1..created : row[id] = Absent => row'[id] = Absent]_vars

(* Every request that was served under a key is counted once: it is in the  *)
(* row, or under way, or was dropped, whatever the panel does to the row.   *)
UsageAccounted ==
  \A id \in Ids :
    row[id] # Absent => row[id].uses + InChannel(id) + lost[id] = served[id]

(* Deleting by size goes from the oldest on and leaves the newest row,      *)
(* though it deletes by the average size of what was there a moment before, *)
(* unless that row alone is over the limit, or there are more rows than the *)
(* limit has bytes: the average is rounded down (CleanupLogsBySize).        *)
Fitting == Len(logs) <= MaxBytes /\ Last(logs).size <= MaxBytes
NewestKept ==
  [][CleanBySize => IsSuffix(logs', logs) /\ (Fitting => logs' # <<>>)]_vars

(* Once there are no more requests the daily cleaning brings the log under  *)
(* its limit and keeps it there, though one round may delete too little     *)
(* (comment of CleanupLogsBySize).                                          *)
SizeSettles ==
  budget["clean"] > 0 /\ WF_vars(Cleaning) /\ WF_vars(Boot) => <>[](Total(logs) <= MaxBytes)

(* A request is answered though nobody empties the channels.                *)
RequestsEnd == \A c \in Callers : call[c].pc # "idle" ~> call[c].pc = "idle"
=============================================================================
