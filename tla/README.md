# Buddy-2API-Go in TLA+

Buddy-2API-Go is a gateway: it offers an OpenAI-style API, forwards each chat to
a CodeBuddy upstream with the credentials of one of several accounts, keeps those
accounts in a pool, and runs daily check-ins and tasks for them.  This directory
holds TLA+ models of its stateful parts, the TLC configurations that check them
and TLAPS proofs about them.  Line references are to `src/`.

## 1. Inventory

| Part | Code | State | Operations | Talks to |
|---|---|---|---|---|
| Account pool manager | `pool/pool.go`, `pool/state.go` | accounts, cooldowns, write queue, sequence numbers | NoteSuccess, NoteError, SetManualDisabled, ClearModelCool, DeleteAccount, ReloadMembers, Load, Close | store (rows), credential files, router (DropUID) |
| Pool prober | `pool/probe.go` | none of its own | Probe, ProbeDisabled | upstream, manager |
| Session router | `pool/router.go` | session+model -> account, with a time | Resolve, Bind, UnbindIf, DropUID, Reset, eviction | manager (candidates) |
| Session key | `pool/session.go` | none | a hash of headers and body | router |
| Pooled chat | `proxy/proxy.go` | per request: tried accounts, attempt | chatPooled, chatOnce, aggregate, stream | router, manager, upstream client |
| Embeddings, request log | `proxy/embeddings.go`, `proxy/proxy.go` | a log channel | Embeddings, saveLog | upstream, store |
| Error classification | `upstream/classify.go` | none | ClassifyChatError, Punishes, Retryable | chat, prober |
| Credentials | `auth/*.go` | token in memory, `token.json`, `accounts/*.json` | Save, Clear, Reload, single-flight refresh, archive | upstream client, manager, panel |
| API keys | `apikey/apikey.go` | key cache, usage channel | Verify, Create, Update, Delete, reload, RecordUsage | store |
| Store | `store/store.go` | SQLite | one statement per call, cleanup of logs | everybody |
| Scheduler, growth chain | `scheduler/*.go` | day of the check-in, day flags, sweep | tick, Reconfigure, Stop, ResetAccountState | upstream, store, task runner |
| Task operations | `taskops/*.go` | one runner lock, progress | Run, RunQueue, Sweep | upstream |
| Admin panel | `admin/*.go` | sessions, caches | login, import, activate, logout, delete, pool buttons, growth and task panels | everything above |
| Upstream client | `upstream/*.go` | model cache | DoChat, refresh on 401, tasks, growth, desktop events | credentials |
| Configuration | `config/config.go` | one guarded record, a file | Get, Update with rollback | everybody |
| Billing, web panel | `billing`, `web` | none | sums, static pages | |
| Process | `main.go` | | start, stop in order | |

What makes the parts correct, and what is hard about each:

* **Manager.**  Memory is changed under `Manager.mu`; rows reach SQLite later,
  numbered by `seqMu`, either through a bounded channel (chat traffic) or directly
  (clicks).  The two ways race; a restart believes the rows.  A manual disable must
  not be undone by a late row, a probe or a reload; a handler must not wait for the
  database; stopping must empty the channel; an account that left the disk must
  leave the pool.
* **Router.**  A session should stay on its account (the upstream's prompt cache),
  sessions should spread over the accounts, the table must stay bounded; look-ups
  and insertions are separate sections of `Router.mu`.
* **Chat.**  It may ask another account only when the last one refused before doing
  any work, never the same one twice, never more than `1 + PoolMaxRetry`, and it
  must end with the most telling error, whatever the panel does meanwhile.
* **Credentials.**  `token.json` is shared by two token stores with a memory and a
  refresh lock each; the upstream's refresh tokens rotate; files are overwritten in
  place.  A refresh must not undo a login, a switch or a logout.
* **API keys.**  A deleted or disabled key must stop working; usage must not grow
  without being used.
* **Scheduler, growth, tasks.**  Day flags are read, an upstream is awaited and the
  flags are written: midnight, an account switch or a second run may fall in between.
* **Admin caches.**  An answer fetched for one account must not be shown for another.

## 2. Modules

| Module | Models | Checked by | Proved in |
|---|---|---|---|
| `AccountState` | what each event does to one account | the runs of the pool and the chat | `AccountState_proofs` (lemmas) |
| `AccountPool` (+ `MCAccountPool`) | manager, persister, rows, membership, prober, process | `pool_*` | `AccountPool_proofs`, `AccountRows_proofs` |
| `SessionRouter` | the table of bindings | `chat_*` | `PooledChat_proofs` |
| `PooledChat` (+ `MCPooledChat`), `ChatPromise` | requests, router and manager composed; the abstract specification of one request | `chat_*` | `PooledChat_proofs` |
| `Credentials` (+ `MCCredentials`) | the panel's and the pool's token stores, the files, refresh, login, switch, logout | `credentials_*` | `Credentials_proofs` |
| `Ledger` (+ `MCLedger`) | API keys with their copy in memory, usage channel, request log and its cleaning | `ledger` | `Ledger_proofs` |
| `Settings` | configuration: file, environment, normalisation, Update and its rollback | `daily` | `Daily_proofs` |
| `Host` | process, logged-in account, date: what all background jobs look at | `daily` | |
| `Growth` (extends `Host`) | the growth chain and the buttons of its page | `daily` | `Growth_proofs` (lemmas), `Daily_proofs` |
| `Tasks` (extends `Host`) | the task centre's runner: rounds, queue, sweep | `daily` | `Daily_proofs` |
| `Daily` (extends `Growth`, `Tasks`; + `MCDaily`) | scheduler, check-in, cron, sweeper, panel handlers, list of models; all of the above composed | `daily` | `Daily_proofs` |

The pure functions worth checking (normalisation of the settings, the window of the
check-in, the bounds of numbers) are operators of `Settings`; the classification of
errors and the times of cooldowns are not modelled as functions.

Every safety property a run checks is a theorem, too; what only the runs show is listed at the end
of section 8.

## 3. The pool: `AccountState`, `AccountPool`

`AccountState` has the record of one account with the fields decisions read (the
manual flag, the automatic reason, the quota streak) and one operator per event.
Times, messages, credits and usage counters only appear on the panel and are left
out.  The streak is counted up to the limit it is compared with.

In `AccountPool` a handler is one action for its critical section of `Manager.mu`;
what the code does after the unlock is put into `todo[t]`, a sequence of small steps
(`persist`/`sync` take a sequence number, `send` puts the row in the channel or drops
it, `mark` is `markApplied`, `write` a direct statement, `answer` the upstream's answer
to a probe, `rows`/`scan`/`swap` the three stages of `ReloadMembers`), and the steps of
several goroutines and of the persister interleave.  The persister takes, judges
(`isStale`, `markApplied`) and saves in separate steps, as `startPersister` does.
`Close`, `Exit`, `Crash` and `Boot` are the process; a row statement may fail where the
code only logs the failure.  Credential files appear as sets of uids, since members
are found on the disk.

History variables, which no action reads: `userOff` (the user's last word), `fails`,
`late` (rows the persister wrote over a newer direct write), `lost` (a write was
dropped, failed or cut short, a reload read rows the queue had not written yet, or the
start found rows of accounts that are not on disk), `out` (logged out).  They are what the properties compare the state with.

**Bounds.**  `QueueCap` is `persistQueueSize` (1 or 2 here; full and empty both happen),
`Budgets` is a set of functions giving how often each environment event may happen;
the initial state picks one, so one run covers several scenarios.  `StreakLimit` is 2 as
in the code.  Every disagreement found needs at most four events, and the races are
between two goroutines and the persister, so two handler goroutines and two or three
clicks or errors reach every order of the steps.

**Runs.**
`pool_concurrent` - two goroutines: at most one late row (`AtMostOneLate`), a manual
disable is never undone in memory (`ManualStaysOff`), one quota failure after a success
never disables, as long as no row is read back (`QuotaNeedsTwo`; see 9 for what a reload does).
`pool_serial` - one goroutine, two accounts, with faults, crashes and membership changes,
among them a crash in the middle of a removal: memory equals the rows once everything is
quiet (`DurableUnlessOvertaken`), a reload keeps a manual disable (`ReloadKeepsManual`), members are on the disk
(`MembersOnDisk`), rows of deleted accounts are gone (`DeletedRowStaysGone`).  Handlers
that overlap can break these four; the code has no protection against it (see 9).
`pool_waiting` - the handlers of chats and probes, which only queue their rows, end though
the database hangs (`HandlersNeverWait`); `Close` returns if the database answers
(`CloseReturns`).
`pool_user_disable`, `pool_logout` - two comments the code does not live up to (see 9).

**Fairness.**  `FairSpec` assumes that a running handler takes its next step (the Go
scheduler; no lock is held across I/O), unless that step asks the database itself (`Asks`):
the store has one connection (`store.go:67`), so a statement of a click, a removal or a
reload waits behind one that hangs.  Only `persist` never waits, and `HandlersNeverWait`
speaks of the handlers whose remaining steps are of that kind (`OnlyQueues`); the scenarios of
`pool_waiting` run them beside a click and a reload that may stay stuck.  The persister,
which waits for the database, gets no fairness either; `CloseReturns` assumes it, together
with main going on, as an antecedent.  Calls, stops, crashes and failures are never assumed
to come.

## 4. Requests: `SessionRouter`, `PooledChat`, `ChatPromise`

`SessionRouter` has the table and one operator per critical section; `PooledChat`
extends it and adds the requests.  `Resolve` is four steps (candidates from the
manager, look under `RLock`, touch or assign under `Lock`), then the token store, the
exchange with the upstream, `NoteSuccess`/`NoteError`, `DropUID`, `UnbindIf`, `Bind`.
The panel, the prober and the clock act between any two.  Hashing and the round robin
become an open choice among the accounts allowed.  `ChatPromise` is the abstract
specification: which accounts one request is sent to, what the last of them answered and
what the caller gets.  `PooledChat` implements it (`KeepsPromise`), under a mapping that is
computed from the state of the code: `asked` from `tried` less the account that is chosen but
not yet asked (`Sent`), `last` from where the request stands and from `lastStatus`, the
local of `chatPooled` (`Working`), `reply` from the answer of a request that is over.  Steps
of the router and the manager map to stutters.  `reply` is the only history variable.

**Runs.**  `chat_requests` - three accounts, two requests at once with a failure, and one
that fails everywhere: the promise is kept, every request is answered, and first
requests get accounts of their own (`OwnAccount`).  `chat_bindings` - a table with one
place, two sessions, failures, clicks, probes, resets, time: never over `MaxSize`
(`TableBounded`), and a session leaves its account only for a reason the code names
(`StickyKept`).

**Bounds.**  `MaxSize` 1 or 2, `Ttl` 1 tick, `MaxRetry` 1, `FrameLimit` 2 error frames per
answer (the stream and its tool-stall retry); one model, since keys are pairs and a
second model only adds keys, which sessions already do.  The symmetry sets of
`chat_bindings` are sound: no definition distinguishes the members of those sets, and
the run checks no liveness.

**Fairness.**  A request that is running goes on, and the upstream answers or the HTTP
client times out: `WF(Step(r) \/ Failure(r))`.

## 5. Credentials: `Credentials`

A credential is a number per account, in the order the upstream issues them.  `file`
has `token.json` (`Main`) and the archives (their path is their uid), `mem` the memory of
every `TokenStore`: the panel's, and one per member of the pool and per load of the
members, since `reloadMembers` makes new stores each time and a chat may still hold an
old one.  `path` is the file a store of the pool was made from.

A goroutine runs a chat or a handler of the panel; `job[g]` says where it is.  A chat
goes `Use`, (`Look`, `Renewed` or `NotRenewed`, `Keep`), `Served` or `Unauthorized`: `refresh` reads
the memory with the store's `refreshMu` held, waits for the upstream with no other lock,
and saves only if the memory was not replaced meanwhile.  The code compares pointers;
here `same` is cleared by whoever replaces the memory (`Replaced`).  The panel's handlers
are split where the code reaches the disk or another store: `Login`/`Archive`,
`Activate`/`Archive`/`Install`/`List`/`Open`, `Logout`/`Clear`/`Forget`,
`Remove`/`Delete`/`Forget`, `Heal`/`Archive`, `Import`.  `List` and `Open` are the two reads of
`token.json` in `reloadMembers`.

The initial states are all arrangements of the accounts in `token.json` and the
archives, with an empty memory filled from them, so a restart is not an action: it is a
behaviour of its own.  `owner`, `torn` and `kept` are histories.

**Bounds.**  Two accounts, two goroutines, one reload after the start (`Loads`), and three
scenarios of events (`Budgets`).  The races are between a refresh and one handler, or two
refreshes, so two goroutines reach them; a third would only queue at a lock.

**Fairness.**  A running goroutine goes on and the upstream answers, if only by the
client's timeout (`WF(Step(g))`).  A 401 (`Unauthorized`) need never come.

**Runs.**  `credentials_shared` - the panel's store holds what the user last chose
(`PanelFollowsUser`); no member chats with another account's credential (`OwnCredential`,
as long as `token.json` keeps its account while the members are loaded); goroutines that
find one credential expired renew it once (`RenewedOnce`); every chat and handler ends
(`EverythingEnds`).  `credentials_login`, `credentials_switch` - see 9.

## 6. Keys, usage and the log: `Ledger`

`row` is the table `api_keys` (`created` is AUTOINCREMENT), `cache` the copy of it in
`Manager.cache`, which alone is asked when a request comes.  `job[a]` is what a goroutine
of the panel still has to do: `insert`, `get` then `write` (`UpdateKey` reads the row and
writes note and status), `delete`, and after each of them the reload, in the two pieces
the code has: the query (`list`), and the section of `Manager.mu` that replaces the copy
(`set`).  `call[c]` is a request: `Authenticate`, `Serve`, `WriteLog`, `RecordUsage`, the
last two with a send that drops what does not fit.  `usageCh`/`usageHand` and
`logCh`/`logHand` are the channels and what their workers have taken.  `logs` is the table
of the log in the order of its ids; `cleaner` goes through `CleanByAge`, `Measure` and
`CleanBySize`, the statements of the daily cleaning.  `Exit` is an orderly end or a kill:
neither drains the channels; `Boot` reads the rows again.  Any statement may fail
(`Failed`, `IncrementFailed`, `InsertLog`, `CleanFailed`, `Boot`).

Histories: `alone` (no other handler of the panel has overlapped this one), `calm` (the
last reload belonged to such a handler and did not fail), `served` and `lost` (per key, the
requests that were to be counted, and those whose count was dropped, failed or went down
with the process).

**Run.**  `ledger` - requests obey the table once the panel is quiet, if its last change
overlapped no other (`KeysObeyed`); every served request is counted once or known to be
lost, though the panel writes the same row (`UsageAccounted`); a deleted key never comes
back (`DeletedStaysDeleted`); cleaning by size deletes the oldest rows and keeps the newest one,
unless that is over the limit by itself (`NewestKept`; the other exception, more rows than the
limit has bytes, does not occur in these bounds), and gets the log under its limit for good once
requests end, though one round may not (`SizeSettles`); a request ends though nobody
empties the channels (`RequestsEnd`).

**Bounds.**  Two rows and two texts; the tables to start with are one key, and a disabled
and an active key of one text (`Starts`).  Channels of one place, so both full and empty
happen.  Sizes 2 and 5 against a limit of 6 give averages that round down and logs that
one round does not get under the limit.  `Retention` is one day of two.  Five scenarios
(`Budgets`) pair the events that touch each other's state; cleaning is only switched on or
off, since it comes every day.

**Fairness.**  A running request goes on (`WF(Request(c))`); the workers may hang on the
database for ever.  `SizeSettles` takes the fairness of the cleaning and of a restart as its
antecedent.

## 7. Everything beside the requests: `Settings`, `Host`, `Growth`, `Tasks`, `Daily`

These modules share the process, the account that is logged in, the settings and the
date, so they are one composed machine: `Host` declares what they share, `Growth` and
`Tasks` extend it with the steps of one job each, `Daily` adds the scheduler, the panel and
the clock and has the next-state relation.

* **`Settings`** is `config.Manager`: `conf` is the guarded record, `file` is `config.json` (or
  `Missing`, or `Torn` after an interrupted write), `env` the fields the environment sets.
  `Loaded` is `Load` from the defaults to the limits applied after the environment;
  `UpdateSettings` is the panel's filter (`Acceptable`, `Applied`), the restoring of
  environment fields, `Normalize` and the save; `UpdateFails` the rollback.  Times of day are
  minutes, cron expressions are names.
* **`Host`**: who is logged in, the date, the process.  `Allowed` is the test before the growth chain
  (`growthPrecondition`), `Gate` that before the task centre (`Runner.Gate`), which turns the accounts
  of an enterprise (`Enterprise`) away, too.  The chain has no such test and is refused upstream; as
  which calls are is upstream's choice, any call for such an account may fail.
* **`Growth`**: `run[r]` is a goroutine in `runGrowthChain` or in a part of it, one action per
  call upstream; `gmu` is `growthMu`, `gday` is `growthState`, `flags` the three day flags in
  SQLite, `plant` what upstream knows of each account (reports, pet, tiers, cards, draws,
  travel).  `full` and `excused` are histories: which accounts a whole run of reports has
  reached, and for which a call failed or a hand stepped in.
* **`Tasks`**: `rmu` is `Runner.mu`, `work[w]` a round with the list it has read, `board` the task
  centre upstream, `stats` whose results the panel shows.  Each of the 20 actions is one step
  that brings its task on or not.  `late` is the history of a result stored after the account had
  changed.
* **`Daily`**: `entries`, `sweeper`, `timer`, `mu` are the scheduler's cron entries, sweep goroutine,
  catch-up timer and lock; `ck` is `checkinDay`, `tick[t]` a goroutine of `tickCheckin` between its
  two sections of the lock and its two calls; `handler[p]` a handler of the panel between saving
  the settings or the credential and the last of the calls that follow (`ModelCache.Refresh`,
  `invalidateAccountCaches`, `ResetAccountState` in its two parts, `Reconfigure` waiting for the
  old sweep with the lock in hand); `menu` the region of the list of models.  The interval of the
  sweeper is computed as the code does, minutes times `time.Minute` in an int64: `Minute` and `Wrap`
  are a minute and 2^64 ns in one unit (here the minute: 2^64 ns are 307445734.6 of them).
  Histories: `tries`, `steady`, `overtaken`, `unreset`.

**Run.**  `daily` - 299,706 states from 21 situations (`MCScenes`). What is marked as done is done,
for the account that is logged in: the check-in (`SecuredTruly`), the reports (`FlagsTruthful`), the
rewards (`NothingLeft`).  A day on which neither settings nor account were changed and the process
was not stopped ends signed in, or with every stage tried and none more than twice (`DayTries`).
Once no handler is on its way, cron runs what the settings say; the sweeper is off if a switch is,
and on if both are and its minutes are in their range (`EntriesFollowConfig`).  A number in force is
in its range; one the environment sets is not negative, over 0 unless 0 is in its range, and not
over its limit if it is one that `Load` cuts again (`NumbersInRange`); a failed write leaves the
settings of the last one for the next start (`SettingsSurvive`).  The panel shows the present
account's results (`ShownOwn`).  Every handler ends (`HandlersEnd`), no reward that is due stays
unclaimed while the sweeper is on (`EveryDoneClaimed`), the list of models ends up that of the
region in the settings (`MenuSettles`).

Four of these properties have premises that name what the code leaves open: `unreset` (between
saving a new account and the end of its reset, and after a crash in there), `overtaken` (an attempt
that was under way at a change or at midnight marks the day without looking again), `late` (a fetch
or a round stores its result after a change), `excused` (a failed call, a button that does not take
`growthMu`, or a run whose account is changed, or whose process ends, under it: the account comes
back with tiers or draws that run has left).  Each is set only by the step that does it, and cleared
by the next reset or day (`late`, a set of results, when the result is dropped or stored again).

**Bounds.**  A scene gives the settings, the time, the accounts' state upstream and how often each
environment event may come (`Budgets` again, per scene); they pair what touches the same state:
check-ins with failures over two days, with restarts, a switch, an edit that turns a stage on or
off, or a stop; the chain by cron, by hand and by catch-up, across midnight and a stop, with an
account that changes and one that comes back; rounds and sweeps with clicks and a switch; two
handlers with edits that fail; minutes of the sweep that overflow (`Overflow`); regions. Of the
three accounts that can be logged in one is an enterprise's.  Two goroutines per kind are enough for
every race in a critical section, since a third is turned away by `TryLock` or waits as the second
does.  The clock stands at five minutes (`MCInstants`): midnight, the main time and its retry, the
fallback (which is at night, too) and its retry; the minutes between change nothing in the code. A
goroutine that has its time from the clock takes the free lock before the next of them (`Decided`).
Handlers of the panel do not go on after `Stop` has begun (`closing`), as the HTTP server has been
shut down before.  Budgets run out and nothing need come after, so the run does not check for
deadlock; the liveness properties say what may not get stuck.

**Fairness.**  Goroutines are scheduled and calls upstream end by an answer or the client's
timeout: some chain, some round, some handler, some check-in goes on while one can
(`WF` for each kind, not for each goroutine, which is weaker).  The ticker of the sweeper ticks
and a cancelled sweep ends; the hourly refresh of the models comes.  Cron, clicks, midnight,
stops and crashes are never assumed.

## 8. What is proved

`AccountPool_proofs` proves for every value of the constants (what an event does to one account
is in `AccountState_proofs`, which the proofs about requests use too):

* `TypeCorrect`: `Spec => []TypeOK`.  One lemma per group of actions; the pieces a
  handler leaves behind (`PieceTypes`) and what the account operators return
  (`EventTypes`) are lemmas of their own.
* `LateOnce`: `Spec => []AtMostOneLate`, for any number of goroutines, any queue size
  and any number of events.  `late[u] <= 1` is not inductive.  The strengthening
  (`LateInv`) adds that every number in the queue, in the persister's hand, in
  `applied` or in a handler's rest is at most `seq`, and that a saved row can only be
  overtaken once: if the persister holds a judged row older than `applied[u]`
  (`Overtaken`), nothing late has been written since that mark.  Marking resets the
  count, judging rejects everything older, so only the row already in hand gets through.
* `DisabledStaysOff`: `Spec => []ManualStaysOff`, and `TwoFailures`: `Spec => QuotaNeedsTwo`, both
  under the premise that the budgets allow no reload, activation, stop or crash, as those of
  `pool_concurrent` do: a reload and a start put a row of the database in the place of the
  account, and a row may be older.  Between two of them the invariant (`CalmInv`) is that no
  handler has a swap left to do (`Untouched`) and that the streak in memory is at most the
  number of failures since the last success (`StreakTrue`).  What the other handlers do to an
  account they do under `Manager.mu` at one moment, so how many are under way does not matter.

`AccountRows_proofs` proves the four properties of `pool_serial` for any accounts, models, queue
size and budgets, under two premises.  `Alone`: one goroutine runs handlers, while the persister,
the files and the process go on beside it (overlapping handlers break the properties, see 9).
`CurrentArchived`: the account in the first `token.json` has an archive too, or there is none.  A
login archives what it installs, so this holds ever after; without it a login would overwrite the
only file of a member.  No property here is inductive, and the argument is built in layers:

* `RestOK` says what can be left of a handler, as a first step and the steps after it, and ties it
  to memory: a row on its way is the row memory has now, a deleted account has nothing left.
* `MembersHaveFiles`: `Spec => []MembersOnDisk`.  `MemberInv`: a member has a file or the handler under
  way is deleting it (`Doomed`), also for the files a reload has scanned and not yet swapped in.
* `OrderInv`: numbers grow along the queue, the persister holds the smallest, and a number just
  taken is above all of them and above every mark.
* `ReloadLeavesDisabled`: `Spec => []ReloadKeepsManual`.  `FlagInv`: the rows in the queue that will not
  be judged stale (`Live`), the row in the database and what a reload has read carry the disabled
  flag of memory, unless the handler under way is about to write that account or the persister has
  overtaken it.  After a mark nothing older is live (`MarkedClean`).
* `NoRowReturns`: `Spec => []DeletedRowStaysGone`.  `RowInv` is the same for the whole row, which
  chat writes through the queue: the newest live row, or the one in the database when there is none,
  agrees with memory unless the handler still owes a row (`Owed`).
* `RestartFindsState`: `Spec => []DurableUnlessOvertaken`, from `RowInv` and `CoolInv`: for a pair that
  cools, the last cooldown on its way says so, or none is and the database says so.  The numbers
  of cooldowns are never judged, but the channel keeps their order.

`PooledChat_proofs`, for any number of requests, accounts, sessions and models:

* `PromiseKept`: `Spec => KeepsPromise`, the refinement: the initial state maps to the promise's,
  and every step of a request, of the router, the manager, the panel or the clock maps to a step of
  the promise or to a stutter.  The mapping alone does not show it; `ChatInv` says how far a request
  has got: while it chooses, it has tried exactly `attempt` accounts, afterwards one more
  (`Counted`); the candidate in hand is one it has not tried, the account it asks one it has
  (`Placed`); it is on its way to another choice only after a free refusal with a retry left, and
  to a failure only with a status of the upstream (`Judged`).  `SameCount` says that `Cardinality`
  in the instance is that of the module.
* `TableStaysBounded`: `Spec => []TableBounded`; eviction takes at least what is too much, whichever
  section inserted (`EvictedFits`).
* `ChatTyped`: `Spec => []TypeOK`.
* `OwnWhileCalm`: `Spec => []OwnAccount`, if the sessions, models and accounts are finite in number.
  `CalmInv` says that while all is well no account is off, nothing cools or has expired, no two
  bindings share an account, a request chooses among all accounts (`Smooth`), and from its choice to
  its answer its session is bound to what it chose.  `SomeFree` counts: a key without a binding leaves
  an account without one, so `Assign`, which prefers those, takes a free one.
* `SessionsStick`: `Spec => StickyKept`.  The case that takes an argument is the eviction: only a
  table that is full loses another session's binding to an insertion (`Squeezed`).

`Credentials_proofs` proves, again for every value of the constants:

* `CredentialsTyped`: `Spec => []TypeOK`.  In particular a refresh always has a credential
  to refresh and an opened member a file to read.
* `PanelFollows`: `Spec => []PanelFollowsUser`, for any number of goroutines.  The property
  speaks of the memory only; what makes it inductive is `PanelRefreshes`: a refresh of the
  panel's store that would still be kept is one of the account the store holds.  Every
  login, switch and logout marks the waiting ones, so only a refresh of the present
  account gets through.  This is within one store; `credentials_login` is what happens
  between two.
* `MembersOwn`: `Spec => []OwnCredential`, and `RenewedForReason`: `Spec => RenewedOnce`, from one
  inductive invariant, `StoresInv`.  An archive only ever holds its own account (`OwnFiles`); a store
  on an archive is its account's for good, one on `token.json` as long as no load was torn
  (`OwnStore`, `Sure`); what is listed as `token.json` is the account in it (`Reads`); two
  goroutines never refresh one store (`OneRefresh`, which is `refreshMu`), so what a refresh found
  expired is still there when it comes back, or was replaced (`Rightful`); nobody uses a store of a
  load still to come (`Present`), so a load changes no store in use.

`Ledger_proofs` proves for every value of the constants:

* `UsageAddsUp`: `Spec => []UsageAccounted`, and `DeletedForGood`: `Spec =>
  DeletedStaysDeleted`.  The inductive invariant (`LedgerInv`) adds to the types that an id
  AUTOINCREMENT has not given is nowhere (`NewIds`): not in the copy, in a reload under way,
  in a request, in the channel or in the worker's hand.  So a new row starts with nothing
  under way, and only `Insert` makes rows.  The lemmas it rests on count the entries of a
  key in a sequence under Append and Tail (`CountAppend`, `CountTail`), and show that
  `Authenticate` finds a key that is there (`FoundKey`, by well-foundedness).
* `CopyObeysRows`: `Spec => []KeysObeyed`.  `CopyInv`: a handler that has met no other is the only one;
  so the rows it has read are still what the rows are; and once such a change has been answered
  the copy is that of the rows, or a reload that will make it so is under way.  A count of usage
  changes a row, but nothing the copy holds.
* `LedgerTypes`: `Spec => []TypeOK`, and `NewestStays`: `Spec => NewestKept`.  `LogInv` adds to the types
  of the log that the rows about to be deleted by size are fewer than those there are, or the only
  one, which is then over the limit (`Spares`); rows that come in before the deletion only help.
  `ExcessBound` is the division: with `t` bytes in `l <= MaxBytes < t` rows the average `t \div l` is at
  least 1 and the remainder under the limit, so `t - MaxBytes` is less than `l` averages.  `Total` and
  `Young` are folds, which the library defines by a recursive function; that there is one
  (`FoldIs`) and what kind of value it has (`FoldTyped`) is shown with the least length of a sequence
  at which it would fail, in place of an induction.

`Daily_proofs` proves for every value of the constants, any number of goroutines of each kind
and any scenes, with the lemmas of `Growth_proofs`:

* `NumbersKept`: `Spec => []NumbersInRange`.  `Load` limits some of what the environment sets, and only
  from above; `Update` gives the environment's values back before `Normalize`.  The invariant
  (`SettingsInv`) is that the settings in force, the file and the environment each have the form the
  next step needs, and that a number is in its range unless the environment sets it (`Ranged`).
* `ReportedMeansSent`: `Spec => []FlagsTruthful`.  `DayInv`: whoever writes flags has `growthMu` and
  began on the day the flags in memory are of (`LockHeld`), no date is in the future (`DatesPast`),
  and what a run has reported and has left is what it set out to (`Reporting`).  A chain that began
  yesterday marks yesterday; a reset waits for `growthMu`, so no chain of the old account writes after it.
* `RewardsTaken`: `Spec => []NothingLeft`.  `LeftInv` adds to `DayInv` which run still has draws to make
  and how many at most (`DrawsOwn`: while redeeming, those of the tiers it has tried; then what it
  has been told), that a run which takes rewards finds them unmarked (`Kept`, by `MarksRight`), and
  that what a run of today has read of the tiers covers those that are left (`Listed`), also after
  a made-up day has opened more.  It needs `Cardinality(Tiers) <= MaxDraws`: with more tiers than
  `growthLotteryMaxDraws` a chain would mark the day with draws left.
* `PanelShowsOwn`: `Spec => []ShownOwn`.  `ShowInv`: between a change and its reset the overview may be
  old only while some handler is still before its invalidation, the records of rounds only while
  some reset is to come.
* `SecuredIsSigned`: `Spec => []SecuredTruly`.  `SecuredInv`: an attempt that is about to mark the day has
  seen its own account signed in on its own day (`Trying`); the mark of an old account lives only
  until the first part of the reset.
* `RunsWhatIsSet`: `Spec => []EntriesFollowConfig`.  `FollowInv`: a handler that waits for the old sweeper
  has the lock, and either it knows what the settings ask for now or another handler is on its way
  with newer ones.  `NothingWraps`: minutes in their range are nanoseconds that fit an int64.
* `StartKeepsSettings`: `Spec => SettingsSurvive`, assuming that the marker of a file that is not there
  is no configuration (`MissingApart`).  `RestInv`: unless a write was cut short the file holds what is
  in force, and `Normalize` changes none of it but what the environment sets or may spoil
  (`AtRest`), so a start finds it as it was.
* `DailyTypes`: `Spec => []TypeOK`.  Each part is typed on its own, then together (`TypesInv`); what is not
  a matter of fields is that the region of the list of models is one `Load` or a handler has set
  (`RegionHolds`), and that only a sweep begins with its list and only sweep and queue are recorded
  (`KindFits`).
* `TriesEnough`: `Spec => DayTries`.  `TodayInv` holds while the day is steady.  `Served`: every minute of
  the clock that has passed, but the first, left enough attempts: one if it was at or after a stage,
  two if it was after both and a minute of the fallback had come before it; `decide` marks a stage
  before the call, so a minute is not missed because an attempt still asks upstream.  `Counted`
  bounds the attempts from above: those made, a retry that is set and attempts that may still ask
  for one (`Again`) are together at most twice the stages hit.  The first minute is excepted since
  the process may have started at it.

Assumed of the constants: the named `ASSUME`s of the modules (bounds are natural
numbers, the markers for nothing are not members, scenes are states the program can start
in), which TLC evaluates in every run.

Only model-checked: the liveness properties (the prover has no rule for fairness and
ENABLED), which are `HandlersNeverWait`, `CloseReturns`, `RequestAnswered`, `EverythingEnds`,
`SizeSettles`, `RequestsEnd`, `HandlersEnd`, `EveryDoneClaimed` and `MenuSettles`; and the
counterexamples to the four claims of section 9.

## 9. What the checks show about the code

* **A late row can still undo a disable** (`pool_user_disable`).  `isStale` and the save
  are two steps; the window is one statement wide, and by `LateOnce` never wider.
* **Logging out is not the end of an account** (`pool_logout`).  The archived copy
  stays a member source.
* **A refresh can undo a login on the disk** (`credentials_login`).  The pool's store on
  `token.json` still holds the earlier account after a login through the panel's store;
  its next refresh writes that account over the login.
* **A switch can lose the newest credential** (`credentials_switch`).  `activateAccount`
  archives the panel's memory, not `token.json`, which a refresh may have renewed.

Seen while modelling, and stated as premises of the properties (or as what a property leaves
open) rather than runs of their own.

*Pool and requests.*  An expired binding still occupies its account in `Resolve`, so a new session
may share an account that is in use while another idles; rows of two overlapping errors can reach
the queue in the opposite order (numbered after the unlock); a queued cooldown outlives the deletion
of its account (cooldowns are not judged); a crash between the removal of a profile's file and that
of its row leaves a row no start deletes, which a later import of the account takes over; a
`token.json` that was never archived is lost to the next login, while the pool keeps the account
until a reload (the list of accounts on the panel archives it first); a success resets the quota
streak in memory but stores the row only of an account that is disabled, so after a failure, a
success and a reload or restart a single new failure disables the account, though the comments of
`NoteSuccess` and `NoteError` (`pool.go:402`, `505`) say the success voids what was before it and
two are needed (`pool_concurrent` with a reload among its events finds it); imports do not join the
pool until the next reload; `Bind` after a success does not look at the account again; a stream that
stalls on a tool call is read a second time, so one request can report two quota errors; a reload
overlapping a click swaps in the rows it read before.

*Keys and log.*  Two overlapping reloads of the keys may leave the older list in memory until the
next change; a change of a key's note that overlaps a disable writes the old status back; what is
in the usage and log channels is lost at an orderly stop too; one round of cleaning by size may
leave the log over its limit, though the comment (`store/store.go`) says it brings it below; and it
deletes every row if the last one alone is over the limit, or when there are more rows than the
limit has bytes, as after the limit was lowered a lot: what rounding the average down leaves
out can then be more than the limit.

*Settings.*  A window of the check-in of which the environment sets one end can be lost at run time:
`putSettings` validates the window it asks for, `Update` then gives the environment's end back, and
`Normalize` resets both ends if they no longer fit, though the comment of `envSets` (`config.go`)
says such fields do not change at run time. `Load` cuts the chat timeout, the report numbers and
those of the pool again after the environment (`config.go:386-407`), but not
`BUDDY2API_TASK_SWEEP_MINUTES`, though its limit is documented as 1440 (`README.md:262`,
`TaskSweepMinutesMax` in `config.go`): from 1441 on the minutes are used as they are, and from
153722868 on their product with `time.Minute` (`scheduler.go:208`) does not fit an int64, which
gives an arbitrary interval or, if it is negative, switches the sweep off without an error though
both switches are on.  `NumbersInRange` makes no claim about these minutes when the environment sets
them, and the scene `Overflow` of `daily` starts with such a number and no sweeper.
`resource_cache_seconds` and the two numbers of the log are not cut either; a size whose bytes
overflow (`scheduler.go:537`) leaves the log uncleaned by size.  A value of the environment under
its minimum, or an unknown region, is accepted by `Load` and changed by the next `Update`.  A new
password is saved even when the rest of the same request is refused.  `config.json` is overwritten
in place: a crash in the write stops the next start.

*Check-in and chain.*  A check-in or a tick under way at an account change or at midnight marks the new
account's day, or rolls `checkinDay` back to the old date.  The fixed cron `0 0 0 * * *` has no main
time of its own.  Redeeming a tier by hand marks the day's rewards as done, so the chain skips the
other tiers, the made-up day and the lottery, though the comment of `stepLottery` says draws are to
be used on the day; a crash between that mark and the lottery does the same; draws that are left
wait for the next tier.  A chain or catch-up that meets an action of the panel is skipped and not
tried again that day.  A crash between saving a new account and `ResetAccountState` leaves the old
account's flags to the new one.  The patrol of the travels does not take `growthMu`; upstream refuses
its second departure.

*Tasks and panel.*  The record of a sweep or a queue that ends after an account change puts the old
account's numbers on the page, which the comment of `growthAccountScopedKeys` (`scheduler.go`) says is
to be avoided; so does an overview that was being fetched.  A sweep that is turned away overwrites
the record of the one that works.  A task played but not yet counted may be played again by the next
round; `AutoAllContext` plays tasks whose acceptance failed.  The list of models is labelled with the
region read at the start of a refresh while `FetchConfig` reads it again.

## 10. Not modelled, and why

Data conversion without state: formatting, parsing, SSE framing and aggregation, the hash of the
session key, the classification of error texts, payloads, signatures and fingerprints of the
upstream calls, desktop events, billing sums and the panel's pages.  HTTP itself, signals, and the
sessions of the panel's login (an expiring map).  Statistics and queries of the log, which change nothing.

What each of the 20 task actions sends upstream is one step that brings the task on or not; amounts
of rewards are left out; a number of reports chosen by hand is 1.  `ReloadMembers` is in
`AccountPool` and not in `PooledChat`: for a request it is a removal or an appearance of an account,
and removal is there.  In `Credentials` a write of a file always succeeds and is whole (a torn
`config.json` is in `Daily`, a torn `token.json` is not); the upstream may refuse any refresh, so
whether it retires old refresh tokens makes no difference to the model; an import brings a newly
issued credential.  In `Daily` writes of the caches in SQLite succeed (the code ignores their
errors), and the probe job appears only as an entry of cron, since probes are `AccountPool`'s.
