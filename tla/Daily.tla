-------------------------------- MODULE Daily --------------------------------
(***************************************************************************)
(* The scheduler and everything that runs beside the requests: settings,   *)
(* check-in, growth chain, rounds of the task centre, sweeps, list of      *)
(* models, and the handlers of the panel that change the settings or the   *)
(* account under them.                                                     *)
(*                                                                         *)
(* A handler writes the settings, or the account, and then rebuilds what   *)
(* runs: Reconfigure takes the cron entries out, puts those the settings   *)
(* ask for in, and replaces the sweeper, waiting for the round of the old  *)
(* one while it holds the scheduler's lock; a change of the account first  *)
(* deletes what the jobs remember of the day.  Cron runs every entry in a  *)
(* goroutine of its own; nothing makes it wait for the one before.         *)
(*                                                                         *)
(* The clock stands at the minutes in Instants, the others change nothing. *)
(***************************************************************************)
EXTENDS Growth, Tasks

CONSTANTS
  Instants,    \* minutes of the day the clock stops at
  CronAt,      \* the instants at which a cron expression fires
  Minute, Wrap,   \* time.Minute, and 2^64 nanoseconds, in one unit
  Panels,      \* goroutines of the panel
  Ticks,       \* goroutines of the minutely check-in tick
  CronRuns,    \* the goroutines of Runs that cron starts
  Ticker,      \* the goroutine of Workers that sweeps
  Scenes       \* bounds: the situations to start from and what happens in them

Never == 1440
Before(S) == CHOOSE m \in S \cup {Never} : \A n \in S : m <= n
NextInstant(m) == Before({n \in Instants : n > m})
From(m) == Before({n \in Instants : n >= m})

CheckinFallbackMin == 23 * 60 + 50
CheckinRetryDelay == 5
CatchupWindowEndMin == 22 * 60

Jobs == {"probe", "checkin", "report", "travel", "queue", "blackcat"}

\* The check-in ticks every minute (checkinTickSpec).  Of the minutes of a day
\* the clock keeps two that are late enough for the fallback, as it has a
\* retry, and does not start with one of them.
ASSUME DailyAssumption ==
  /\ Instants \subseteq 0..1439
  /\ \E a, b, c \in Instants : a < CheckinFallbackMin /\ CheckinFallbackMin <= b /\ b < c
  /\ \A c \in DOMAIN CronAt : CronAt[c] \subseteq Instants
  /\ {"default", "minutely"} \subseteq DOMAIN CronAt /\ CronAt["minutely"] = Instants
  /\ CronRuns \subseteq Runs /\ Ticker \in Workers /\ None \notin Panels
  /\ \A s \in Scenes :
       /\ s.budget \in [Events -> Nat] /\ IsEnv(s.env)
       /\ s.file = Missing \/ (s.file # Torn /\ IsConfig(s.file))
       /\ s.acct \in Accts \cup {None} /\ s.minute \in Instants
       /\ s.plant \in [Accts -> PlantStates] /\ s.board \in [Accts -> [Codes -> TaskStates]]

\* An interval of as many minutes as the settings allow is an int64.
ASSUME IntervalAssumption ==
  /\ Minute \in Nat \ {0} /\ Wrap \in Nat \ {0}
  /\ \A n \in 1..Bounds["task_sweep_minutes"].max : 2 * (n * Minute) < Wrap

VARIABLES
  minute,      \* of the day
  ring,        \* the entries whose time has come and that cron starts now
  mu,          \* Scheduler.mu: the handler that keeps it while it waits
  entries,     \* the cron entries: job and expression
  sweeper,     \* the goroutine of the sweep ticker
  timer,       \* growthCatchupTimer is set
  closing,     \* Stop has been called
  ck,          \* checkinDay
  target,      \* random_target: the day and the minute
  tick,        \* per goroutine of the check-in
  handler,     \* per goroutine of the panel
  menu,        \* region of the list of models
  hourly,      \* the region the hourly refresh fetches for, or None
  signed,      \* upstream: the last day an account was checked in
  tries, steady,   \* history: attempts of today; nothing changed or stopped today
  overtaken,   \* history: ck was marked by an attempt of another account or day
  unreset      \* history: the account was changed and nothing reset since

clock == <<minute, ring>>
sched == <<mu, entries, sweeper, timer, closing>>
checkin == <<ck, target, tick, signed, tries, steady, overtaken>>
models == <<menu, hourly>>
vars == <<host, settings, growth, tasks, clock, sched, checkin, models, handler, unreset>>

Night == minute >= 23 * 60 \/ minute < 8 * 60      \* InNightWindow
NoDay == [day |-> 0, main |-> Never, mainHit |-> FALSE, retry |-> Never,
          fbHit |-> FALSE, secured |-> FALSE]
CheckinFields == {"checkin_mode", "checkin_cron", "checkin_random_start",
                  "checkin_random_end", "checkin_fallback"}
TickStates ==
  {Idle} \cup [pc: {"status", "claim", "secure", "failed"}, at: Instants, day: Nat,
               again: BOOLEAN, for: Accts \cup {None}]
Deciding(s) ==
  /\ DOMAIN s = {"pc", "at", "day", "cfg"} /\ s.pc = "decide"
  /\ s.at \in Instants /\ s.day \in Nat /\ DOMAIN s.cfg = CheckinFields /\ IsPart(s.cfg)
\* Load takes any region from the environment.
KnownRegions == {"cn", "global"} \cup {env[f] : f \in DOMAIN env \cap {"region"}}
HandlerStates ==
  {Idle} \cup [pc: {"models", "reconf", "caches", "ck", "growth"}]
    \cup [pc: {"menu"}, region: KnownRegions] \cup [pc: {"wait"}, sweep: BOOLEAN]
    \cup [pc: {"show"}, for: Accts]

TypeOK ==
  /\ {up, closing, timer, steady, overtaken, unreset} \subseteq BOOLEAN
  /\ acct \in Accts \cup {None} /\ day \in Nat \ {0} /\ budget \in [Events -> Nat]
  /\ IsConfig(conf) /\ IsEnv(env) /\ (file = Torn \/ IsConfig(file))
  /\ GrowthTypeOK /\ TasksTypeOK
  /\ minute \in Instants /\ ring \subseteq Jobs
  /\ mu \in Panels \cup {None} /\ entries \subseteq Jobs \X DOMAIN CronAt
  /\ ck \in [day: Nat, main: Instants \cup {Never}, mainHit: BOOLEAN, retry: Int,
             fbHit: BOOLEAN, secured: BOOLEAN]
  /\ target \in [day: Nat, at: Instants \cup {Never}] /\ tries \in Nat
  /\ DOMAIN tick = Ticks /\ \A t \in Ticks : tick[t] \in TickStates \/ Deciding(tick[t])
  /\ sweeper \in {"off", "on", "cancelled"} /\ handler \in [Panels -> HandlerStates]
  /\ menu \in KnownRegions /\ hourly \in KnownRegions \cup {None}
  /\ signed \in [Accts -> Nat]

-----------------------------------------------------------------------------
(* What Reconfigure makes of the settings. *)
Wanted(c) ==
  {e \in {<<"probe", c["pool_probe_cron"]>>, <<"checkin", "minutely">>,
          <<"report", c["growth_report_cron"]>>, <<"travel", c["growth_travel_cron"]>>,
          <<"queue", c["growth_queue_cron"]>>, <<"blackcat", c["blackcat_cron"]>>} :
     /\ e[2] \in DOMAIN CronAt
     /\ CASE e[1] = "probe" -> c["pool_enabled"]
          [] e[1] = "checkin" -> c["auto_checkin"]
          [] OTHER -> c["auto_growth"]}
\* The interval of the sweep is an int64 of nanoseconds; one that is not over 0
\* ends the sweep as the switches do.
SweepChosen(c) == c["task_sweep_enabled"] /\ c["auto_growth"]
Signed(n) == IF 2 * n < Wrap THEN n ELSE n - Wrap
SweepInterval(c) == Signed((c["task_sweep_minutes"] * Minute) % Wrap)
SweepWanted(c) == SweepChosen(c) /\ SweepInterval(c) > 0

\* fixedMainAt: the first time of today after midnight itself.
FixedMainAt(cron) ==
  IF cron \in DOMAIN CronAt THEN Before(CronAt[cron] \ {0}) ELSE Never

GrowthCatchupDue(c) ==
  /\ c["auto_growth"] /\ c["region"] = "cn" /\ acct # None
  /\ FixedMainAt(c["growth_report_cron"]) <= minute /\ minute <= CatchupWindowEndMin
  /\ flags["report"] # day

Assemble(c) ==
  /\ entries' = Wanted(c) /\ ck' = NoDay /\ steady' = FALSE
  /\ timer' = (timer \/ GrowthCatchupDue(c))

Sweeping(on) == sweeper' = IF on THEN "on" ELSE "off"

-----------------------------------------------------------------------------
(* The clock and cron. *)
Quiet == UNCHANGED <<settings, sched, models, handler, unreset>>

DueAt(m) == {e[1] : e \in {x \in entries : m \in CronAt[x[2]]}}

\* A minute is enough to take a lock that is free.
Decided == mu = None => \A t \in Ticks : tick[t].pc # "decide"

MinutePasses ==
  /\ ring = {} /\ Decided /\ NextInstant(minute) # Never
  /\ Spend("mark")
  /\ minute' = NextInstant(minute) /\ ring' = IF up THEN DueAt(minute') ELSE {}
  /\ Quiet /\ UNCHANGED <<up, acct, day, growth, tasks, checkin>>

Midnight ==
  /\ ring = {} /\ Decided /\ NextInstant(minute) = Never
  /\ Spend("dawn")
  /\ day' = day + 1 /\ minute' = Before(Instants)
  /\ ring' = IF up THEN DueAt(minute') ELSE {}
  /\ GrowthDawn /\ TasksDawn
  /\ tries' = 0
  /\ steady' = (up /\ ~closing /\ conf["auto_checkin"] /\ ~unreset
                   /\ (\A t \in Ticks : tick[t] = Idle)
                   /\ \A p \in Panels : handler[p] = Idle)
  /\ Quiet /\ UNCHANGED <<up, acct, ck, target, tick, signed, overtaken>>

\* Cron starts a goroutine; a job that may not run, or finds another at work,
\* does nothing.
Rings(e) == up /\ e \in ring /\ ring' = ring \ {e} /\ UNCHANGED <<minute, up, acct, day>>

TickCheckin(t) ==
  /\ Rings("checkin") /\ tick[t] = Idle
  /\ tick' = [tick EXCEPT ![t] = [pc |-> "decide", at |-> minute, day |-> day,
                                  cfg |-> [f \in CheckinFields |-> conf[f]]]]
  /\ UNCHANGED <<budget, ck, target, signed, tries, steady, overtaken>>
  /\ Quiet /\ UNCHANGED <<growth, tasks>>

TickGrowthChain(r) ==
  /\ Rings("report") /\ run[r] = Idle
  /\ RunGrowthChain(r) \/ ((gmu # None \/ ~Allowed) /\ UNCHANGED growth)
  /\ Quiet /\ UNCHANGED <<budget, tasks, checkin>>
TickTravel(r) ==
  /\ Rings("travel") /\ run[r] = Idle
  /\ RunTravelTick(r) \/ (~Allowed /\ UNCHANGED growth)
  /\ Quiet /\ UNCHANGED <<budget, tasks, checkin>>

TickTaskQueue(w) ==
  /\ Rings("queue") /\ work[w] = NoWork
  /\ RunTaskQueueOnce(w) \/ Refused(Gate) \/ NothingToDo
  /\ Quiet /\ UNCHANGED <<budget, growth, checkin>>
TickBlackcat(w) ==
  /\ Rings("blackcat") /\ work[w] = NoWork
  /\ \/ Night /\ (Refused(Allowed) \/ \E c \in NightCodes : AutoContext(w, c))
     \/ ~Night /\ UNCHANGED tasks
  /\ Quiet /\ UNCHANGED <<budget, growth, checkin>>
\* The probes are AccountPool's.
TickPoolProbe ==
  Rings("probe") /\ Quiet /\ UNCHANGED <<budget, growth, tasks, checkin>>

-----------------------------------------------------------------------------
(* The check-in (tickCheckin). *)
Tick(t, s) == tick' = [tick EXCEPT ![t] = s]
InTick(t, p) == up /\ tick[t].pc = p
CheckinStep == UNCHANGED <<up, acct, day, settings, growth, tasks, clock, sched,
                           models, handler, unreset>>

\* randomMainAt: today's choice, or any minute of the window; one the
\* environment has set may be none.
Choices(c) ==
  LET s == c["checkin_random_start"]  e == c["checkin_random_end"] IN
  {From(m) : m \in IF 0 <= s /\ s < e THEN s..(e - 1) ELSE 540..1079}
MainAts(d, c) ==
  IF c["checkin_mode"] = "fixed" THEN {FixedMainAt(c["checkin_cron"])}
  ELSE IF target.day = d THEN {target.at} ELSE Choices(c)

\* rollDayLocked
RolledDay(s, main) ==
  IF ck.day = s.day THEN ck ELSE [NoDay EXCEPT !.day = s.day, !.main = main]

\* decide
Stage(d, s) ==
  CASE d.secured -> "none"
    [] ~d.secured /\ s.at >= d.retry -> "retry"
    [] ~d.secured /\ s.at < d.retry /\ ~d.mainHit /\ s.at >= d.main -> "main"
    [] OTHER -> IF s.cfg["checkin_fallback"] /\ ~d.fbHit /\ s.at >= CheckinFallbackMin
                THEN "fallback" ELSE "none"
MainAgain(d, stage) ==                                            \* mutant
  [d EXCEPT !.retry = IF stage = "retry" THEN Never ELSE @,
            !.fbHit = @ \/ stage = "fallback"]
Entered(d, stage) ==
  [d EXCEPT !.retry = IF stage = "retry" THEN Never ELSE @,
            !.mainHit = @ \/ stage = "main", !.fbHit = @ \/ stage = "fallback"]

Decide(t) ==
  LET s == tick[t] IN
  /\ InTick(t, "decide") /\ mu = None
  /\ \E main \in IF ck.day = s.day THEN {ck.main} ELSE MainAts(s.day, s.cfg) :
       LET d == RolledDay(s, main)  stage == Stage(d, s) IN
       /\ ck' = Entered(d, stage)
       /\ overtaken' = (overtaken /\ ck.day = s.day)
       /\ target' = IF ck.day # s.day /\ s.cfg["checkin_mode"] = "random"
                    THEN [day |-> s.day, at |-> main] ELSE target
       /\ tries' = IF stage # "none" /\ s.day = day THEN tries + 1 ELSE tries
       /\ Tick(t, IF stage = "none" THEN Idle
                  ELSE [pc |-> "status", at |-> s.at, day |-> s.day,
                        again |-> stage # "retry", for |-> None])
  /\ CheckinStep /\ UNCHANGED <<budget, signed, steady>>

\* attemptCheckin: a status that cannot be read does not keep it from trying.
Secures(t) == Tick(t, [tick[t] EXCEPT !.pc = "secure", !.for = acct])
CheckinStatus(t) ==
  /\ InTick(t, "status")
  /\ \/ Answered /\ signed[acct] = day /\ Secures(t)
     \/ /\ (Answered /\ signed[acct] # day) \/ Failed
        /\ Tick(t, [tick[t] EXCEPT !.pc = "claim"])
  /\ CheckinStep /\ UNCHANGED <<ck, target, signed, tries, steady, overtaken>>

\* A claim may arrive and its answer not.
Misses(t) == Tick(t, IF tick[t].again THEN [tick[t] EXCEPT !.pc = "failed"] ELSE Idle)
Sign == signed' = [signed EXCEPT ![acct] = day]
ClaimCheckin(t) ==
  /\ InTick(t, "claim")
  /\ \/ Answered /\ signed[acct] # day /\ Sign /\ Secures(t)
     \/ Answered /\ signed[acct] = day /\ UNCHANGED signed /\ Misses(t)
     \/ Failed /\ UNCHANGED signed /\ Misses(t)
     \/ Failed /\ acct # None /\ Sign /\ Misses(t)
  /\ CheckinStep /\ UNCHANGED <<ck, target, tries, steady, overtaken>>

Secure(t) ==
  /\ InTick(t, "secure") /\ mu = None
  /\ ck' = [ck EXCEPT !.secured = TRUE] /\ Tick(t, Idle)
  /\ overtaken' = (overtaken \/ tick[t].for # acct \/ tick[t].day # ck.day)
  /\ CheckinStep /\ UNCHANGED <<budget, target, signed, tries, steady>>

\* The retry is a point in time: one of an earlier day is due at once.
RetryAt(s) == s.at + CheckinRetryDelay - 1440 * (ck.day - s.day)
RetryLater(t) ==
  /\ InTick(t, "failed") /\ mu = None
  /\ ck' = [ck EXCEPT !.retry = RetryAt(tick[t])] /\ Tick(t, Idle)
  /\ CheckinStep /\ UNCHANGED <<budget, target, signed, tries, steady, overtaken>>

TickStep(t) ==
  Decide(t) \/ CheckinStatus(t) \/ ClaimCheckin(t) \/ Secure(t) \/ RetryLater(t)

-----------------------------------------------------------------------------
(* Growth chain, rounds and sweeps. *)
Machinery == UNCHANGED <<up, acct, day, settings, clock, sched, checkin, models,
                         handler, unreset>>
RunStep(r) == up /\ Step(r) /\ Machinery /\ UNCHANGED tasks
RoundStep(w) == up /\ WorkStep(w, Night) /\ Machinery /\ UNCHANGED growth

\* growthCatchupFire
GrowthCatchupFire(r) ==
  /\ up /\ timer /\ timer' = FALSE
  /\ \/ /\ conf["auto_growth"] /\ flags["report"] # day
        /\ RunGrowthChain(r) \/ ((gmu # None \/ ~Allowed) /\ UNCHANGED growth)
     \/ (~conf["auto_growth"] \/ flags["report"] = day) /\ UNCHANGED growth
  /\ UNCHANGED <<host, settings, tasks, clock, mu, entries, sweeper, closing, checkin,
                 models, handler, unreset>>

\* The ticker of startTaskSweepLocked: a round, or its end.
SweepTick ==
  /\ up /\ sweeper = "on" /\ work[Ticker] = NoWork
  /\ RunTaskSweep(Ticker) \/ SweepBusy
  /\ Machinery /\ UNCHANGED <<budget, growth>>
SweepEnds ==
  /\ up /\ sweeper = "cancelled" /\ work[Ticker] = NoWork /\ sweeper' = "off"
  /\ UNCHANGED <<host, settings, growth, tasks, clock, mu, entries, timer, closing,
                 checkin, models, handler, unreset>>

Meanwhile == UNCHANGED budget /\ Machinery
Arrival(a) == Arrives(a) /\ Meanwhile /\ UNCHANGED tasks
Scoring(a, c) == Score(a, c) /\ Meanwhile /\ UNCHANGED growth

-----------------------------------------------------------------------------
(* The panel: the buttons. *)
Pressed == up /\ ~closing /\ Machinery

\* Every action on the growth page first drops what is shown.
GrowthButton(r) ==
  /\ Spend("grow") /\ Pressed /\ InvalidateOverview
  /\ \/ RunGrowthChain(r) \/ RunActivityReports(r) \/ RunGrowthAdopt(r)
     \/ RunTravelTick(r) \/ \E t \in Tiers : RunGrowthRedeem(r, t)
     \/ (gmu # None \/ ~Allowed) /\ UNCHANGED growth
HandButton ==
  /\ Pressed /\ InvalidateOverview
  /\ GrowthLottery \/ GrowthMakeup \/ GrowthBonus
TaskButton(w) ==
  /\ Spend("task") /\ Pressed /\ UNCHANGED growth
  /\ AutoAllContext(w) \/ RunTaskSweep(w) \/ (Gate /\ \E c \in Codes : AutoContext(w, c))
ClickButton ==
  /\ Spend("click") /\ Pressed /\ UNCHANGED growth
  /\ TasksAccept \/ SweepBusy \/ \E c \in Codes : TasksClaim(c)

-----------------------------------------------------------------------------
(* The panel: what changes settings or account. *)
Handle(p, s) == handler' = [handler EXCEPT ![p] = s]
InHandler(p, q) == up /\ ~closing /\ handler[p].pc = q
Now(q) == [pc |-> q]
Calls(p) == InHandler(p, "idle")

\* putSettings, putExperiments
RegionChanged(e) == "region" \in DOMAIN e /\ e["region"] # conf["region"]
OnlyRegion(e) == IF RegionChanged(e) THEN "models" ELSE "idle"    \* mutant
AfterEdit(e) == IF RegionChanged(e) THEN "models" ELSE "reconf"
PutSettings(p, e) ==
  /\ Calls(p)
  /\ \/ /\ Spend("edit") /\ UpdateSettings(e) /\ steady' = FALSE
        /\ Handle(p, Now(AfterEdit(e)))
     \/ /\ budget["edit"] > 0 /\ Spend("fail") /\ UpdateFails(e)
        /\ UNCHANGED <<steady, handler>>
  /\ UNCHANGED <<up, acct, day, growth, tasks, clock, sched, ck, target, tick, signed,
                 tries, overtaken, models, unreset>>
PutPassword(p) ==
  /\ Calls(p) /\ budget["edit"] > 0 /\ Spend("fail")
  /\ SetAdminPasswordHash("changed") \/ PasswordFails
  /\ UNCHANGED <<up, acct, day, growth, tasks, clock, sched, checkin, models,
                 handler, unreset>>

\* ModelCache.Refresh: whatever comes of the call, the list is of the region
\* that was read at its start; a failure keeps it or takes the built-in one.
CachedRegion == menu                                              \* mutant
RegionProvider == conf["region"]
RefreshStarts(p) ==
  /\ InHandler(p, "models")
  /\ Handle(p, [pc |-> "menu", region |-> RegionProvider])
  /\ UNCHANGED <<host, settings, growth, tasks, clock, sched, checkin, models, unreset>>
Refresh(p) ==
  /\ InHandler(p, "menu") /\ menu' = handler[p].region /\ Handle(p, Now("reconf"))
  /\ UNCHANGED <<host, settings, growth, tasks, clock, sched, checkin, hourly, unreset>>
RefreshModels ==
  /\ up /\ budget["refresh"] > 0
  /\ \/ hourly = None /\ hourly' = RegionProvider /\ UNCHANGED menu
     \/ hourly # None /\ menu' = hourly /\ hourly' = None
  /\ UNCHANGED <<host, settings, growth, tasks, clock, sched, checkin, handler, unreset>>

\* Login, import, activation, logout: the credential is saved, then
\* invalidateAccountCaches.
Save(p, a) ==
  /\ Calls(p) /\ a # acct /\ Spend("switch") /\ acct' = a
  /\ unreset' = TRUE /\ steady' = FALSE /\ Handle(p, Now("caches"))
  /\ Interrupted /\ UNCHANGED <<gmu, gday, flags, run, plant, full>>
  /\ UNCHANGED <<up, day, settings, tasks, clock, sched, ck, target, tick,
                 signed, tries, overtaken, models>>
InvalidateAccountCaches(p) ==
  /\ InHandler(p, "caches") /\ InvalidateOverview /\ Handle(p, Now("ck"))
  /\ UNCHANGED <<host, settings, growth, clock, sched, checkin, models, unreset>>

\* ResetAccountState, under mu and then under growthMu.
KeepDay == ck                                                     \* mutant
FreshDay == NoDay
ResetCheckin(p) ==
  /\ InHandler(p, "ck") /\ mu = None
  /\ ck' = FreshDay /\ overtaken' = FALSE /\ Handle(p, Now("growth"))
  /\ UNCHANGED <<host, settings, growth, tasks, clock, sched, target, tick, signed,
                 tries, steady, models, unreset>>
ResetAccountState(p) ==
  /\ InHandler(p, "growth") /\ ResetGrowth /\ ResetStats /\ Handle(p, Now("reconf"))
  /\ unreset' = \E q \in Panels \ {p} : handler[q].pc \in {"caches", "ck", "growth"}
  /\ UNCHANGED <<host, settings, rmu, board, work, clock, sched, checkin, models>>

\* Reconfigure keeps mu while it waits for the round of the old sweeper.
NotCancelled == sweeper                                           \* mutant
Cancelled == "cancelled"
Reconfigure(p) ==
  /\ InHandler(p, "reconf") /\ mu = None
  /\ Assemble(conf) /\ overtaken' = FALSE
  /\ IF sweeper = "off"
     THEN Sweeping(SweepWanted(conf)) /\ mu' = None /\ Handle(p, Idle)
     ELSE /\ sweeper' = Cancelled /\ mu' = p
          /\ Handle(p, [pc |-> "wait", sweep |-> SweepWanted(conf)])
  /\ UNCHANGED <<host, settings, growth, tasks, clock, closing, target, tick, signed,
                 tries, models, unreset>>
Reconfigured(p) ==
  /\ InHandler(p, "wait") /\ sweeper = "off"
  /\ Sweeping(handler[p].sweep) /\ mu' = None /\ Handle(p, Idle)
  /\ UNCHANGED <<host, settings, growth, tasks, clock, entries, timer, closing,
                 checkin, models, unreset>>

\* growthOverview, resources: fetched, then stored.
Look(p) ==
  /\ Calls(p) /\ Allowed /\ stats["overview"] = None /\ Spend("look")
  /\ Handle(p, [pc |-> "show", for |-> acct])
  /\ UNCHANGED <<up, acct, day, settings, growth, tasks, clock, sched, checkin, models,
                 unreset>>
Show(p) ==
  /\ InHandler(p, "show") /\ Stored("overview", handler[p].for) /\ Handle(p, Idle)
  /\ UNCHANGED <<host, settings, growth, rmu, board, work, clock, sched, checkin,
                 models, unreset>>

HandlerStep(p) ==
  \/ RefreshStarts(p) \/ Refresh(p) \/ InvalidateAccountCaches(p) \/ ResetCheckin(p)
  \/ ResetAccountState(p) \/ Reconfigure(p) \/ Reconfigured(p) \/ Show(p)

-----------------------------------------------------------------------------
(* Stop, crash, start. *)
Gone ==
  /\ up' = FALSE /\ GrowthCrash /\ TasksCrash
  /\ ring' = {} /\ mu' = None /\ entries' = {} /\ sweeper' = "off" /\ timer' = FALSE
  /\ closing' = FALSE /\ ck' = NoDay /\ tick' = [t \in Ticks |-> Idle]
  /\ handler' = [p \in Panels |-> Idle] /\ hourly' = None
  /\ steady' = FALSE /\ overtaken' = FALSE
  /\ UNCHANGED <<acct, day, conf, env, minute, target, signed, tries, menu, unreset>>

\* A crash may meet a write of config.json.
Crash ==
  /\ up /\ Spend("stop") /\ Gone
  /\ file' = file \/ (budget["edit"] > 0 /\ file' = Torn)

\* Scheduler.Stop: no new rounds, no catch-up; wait for the round and for cron.
Stop ==
  /\ up /\ ~closing /\ mu = None /\ Spend("stop") /\ closing' = TRUE
  /\ timer' = FALSE /\ entries' = {} /\ ring' = {}
  /\ sweeper' = IF sweeper = "on" THEN "cancelled" ELSE sweeper
  /\ steady' = FALSE
  /\ UNCHANGED <<up, acct, day, settings, growth, tasks, minute, mu, ck, target, tick,
                 signed, tries, overtaken, models, handler, unreset>>
Exit ==
  /\ up /\ closing /\ sweeper = "off"
  /\ \A t \in Ticks : tick[t] = Idle
  /\ \A r \in CronRuns : run[r] = Idle
  /\ \A w \in Workers : work[w] # NoWork => Kind(w) # "auto"
  /\ Gone /\ UNCHANGED <<budget, file>>

Boot ==
  /\ ~up /\ LoadSettings(env) /\ up' = TRUE
  /\ Assemble(conf') /\ Sweeping(SweepWanted(conf')) /\ menu' = conf'["region"]
  /\ UNCHANGED <<acct, day, budget, growth, tasks, clock, mu, closing, target, tick,
                 signed, tries, overtaken, hourly, handler, unreset>>
BootFails ==
  /\ ~up /\ Spend("fail") /\ LoadFails
  /\ UNCHANGED <<up, acct, day, growth, tasks, clock, sched, checkin, models, handler,
                 unreset>>

-----------------------------------------------------------------------------
Init ==
  \E s \in Scenes :
    /\ up = TRUE /\ acct = s.acct /\ day = 1 /\ budget = s.budget
    /\ env = s.env /\ conf = Loaded(s.file, s.env) /\ file = conf
    /\ plant = s.plant /\ GrowthInit
    /\ board = s.board /\ TasksInit
    /\ minute = s.minute /\ ring = {} /\ mu = None
    /\ entries = Wanted(conf) /\ timer = GrowthCatchupDue(conf)
    /\ sweeper = IF SweepWanted(conf) THEN "on" ELSE "off"
    /\ closing = FALSE /\ ck = NoDay /\ target = [day |-> 0, at |-> Never]
    /\ tick = [t \in Ticks |-> Idle] /\ handler = [p \in Panels |-> Idle]
    /\ menu = conf["region"] /\ hourly = None
    /\ signed = [a \in Accts |-> 0] /\ tries = 0
    /\ steady = (minute = Before(Instants)) /\ overtaken = FALSE /\ unreset = FALSE

Next ==
  \/ MinutePasses \/ Midnight
  \/ \E t \in Ticks : TickCheckin(t) \/ TickStep(t)
  \/ \E r \in CronRuns : TickGrowthChain(r) \/ TickTravel(r)
  \/ \E w \in Workers \ {Ticker} : TickTaskQueue(w) \/ TickBlackcat(w) \/ TaskButton(w)
  \/ TickPoolProbe
  \/ \E r \in Runs : RunStep(r)
  \/ \E r \in Runs \ CronRuns : GrowthCatchupFire(r) \/ GrowthButton(r)
  \/ \E w \in Workers : RoundStep(w)
  \/ SweepTick \/ SweepEnds
  \/ \E a \in Accts : Arrival(a) \/ \E c \in Codes : Scoring(a, c)
  \/ HandButton \/ ClickButton
  \/ \E p \in Panels :
       \/ HandlerStep(p) \/ Look(p) \/ PutPassword(p)
       \/ \E e \in Edits : PutSettings(p, e)
       \/ \E a \in Accts \cup {None} : Save(p, a)
  \/ RefreshModels
  \/ Crash \/ Stop \/ Exit \/ Boot \/ BootFails

Spec == Init /\ [][Next]_vars

\* Go schedules the goroutines, a call is answered or runs into its timeout,
\* and the ticker and the hourly refresh come again.
Fairness ==
  /\ WF_vars(\E r \in Runs : RunStep(r))
  /\ WF_vars(\E w \in Workers : RoundStep(w))
  /\ WF_vars(\E p \in Panels : HandlerStep(p))
  /\ WF_vars(\E t \in Ticks : TickStep(t))
  /\ WF_vars(SweepTick \/ SweepEnds \/ Exit)
  /\ WF_vars(RefreshModels)
FairSpec == Spec /\ Fairness
-----------------------------------------------------------------------------
(* Properties. *)
\* A check-in that is marked as done is done: the account that is logged in
\* has signed in today, unless the mark came from an attempt for an earlier
\* account or day, or the account has just been changed (tickCheckin,
\* ResetAccountState).
SecuredTruly ==
  ck.secured /\ ck.day = day /\ ~overtaken /\ ~unreset => signed[acct] = day

\* A day on which settings and account stayed what they were and the process
\* ran ends with the account signed in, or with every stage tried, and none more
\* than twice (checkinRetryDelay: one retry).
Stages ==
  Cardinality({s \in {"main", "fallback"} :
                 IF s = "main" THEN ck.main # Never
                 ELSE conf["checkin_fallback"] /\ From(CheckinFallbackMin) # Never})
Over == ck.day = day /\ steady /\ up /\ (\A t \in Ticks : tick[t] = Idle) /\ acct # None
DayTries ==
  [][day' # day /\ Over => signed[acct] = day \/ tries \in Stages..(2 * Stages)]_vars

\* Once no handler is still on its way, cron and the sweeper run what the
\* settings say, whoever changed them last (putSettings, Reconfigure); the
\* sweeper, if its minutes are in their range, which those of the environment
\* need not be.
Settling == \E p \in Panels : handler[p].pc \in {"models", "menu", "reconf", "wait"}
EntriesFollowConfig ==
  up /\ ~closing /\ ~Settling
    => /\ entries = Wanted(conf)
       /\ sweeper = "on" => SweepChosen(conf)
       /\ SweepChosen(conf)
            /\ InBounds("task_sweep_minutes", conf["task_sweep_minutes"])
          => sweeper = "on"

\* A number in force is in its range, whatever the file held and the panel
\* sent, unless the environment sets it; then it is over 0 (or 0 where 0 is in
\* its range), and not over its limit if it is one of those Load cuts again
\* (Load, Normalize, Update).  The minutes of the sweep are not.
NumbersInRange ==
  \A f \in Numbers :
    /\ f \notin DOMAIN env => InBounds(f, conf[f])
    /\ f \in DOMAIN env => conf[f] >= IF Bounds[f].min = 0 THEN 0 ELSE 1
    /\ f \in Limited => conf[f] <= Bounds[f].max

\* A start finds the settings the last process worked with: a write that
\* failed left the old ones in force and in the file (Update, saveLocked).
Carried ==
  Fields \ (DOMAIN env \cup {"password"}
              \cup IF Window \cap DOMAIN env = {} THEN {} ELSE Window)
SettingsSurvive == [][Boot => \A f \in Carried : conf'[f] = conf[f]]_vars

\* "Reported today" means that every report of a run has reached the account
\* that is logged in (stepReports, ResetAccountState).
FlagsTruthful == up /\ acct # None /\ ~unreset => ReportFlagOwn

\* Once the rewards of the day are marked as taken, no tier is left to redeem
\* and no draw to draw, unless a call failed, a hand came in between, or a run
\* had been cut off or taken from the account (stepRewardChain).
NothingLeft == up /\ acct # None /\ ~unreset => RewardFlagOwn

\* The panel never shows results of an earlier account, except those of a
\* round or a fetch that ended after the change (invalidateAccountCaches).
ShownOwn == up /\ ~unreset => StatsOwn

\* Every handler ends, also one that waits for a sweep with the lock in hand.
HandlersEnd == []<>(\A p \in Panels : handler[p] = Idle)

\* While the sweeper stays on, no reward that is due stays unclaimed for ever.
Sweeps == up /\ sweeper = "on" /\ Gate
EveryDoneClaimed ==
  <>[]Sweeps => []<>(acct # None => \A c \in Codes : board[acct][c] # "done")

\* In the end the list of models is that of the region in the settings,
\* whichever of two refreshes came last.
MenuSettles == <>[](up /\ budget["refresh"] > 0 => menu = conf["region"])

=============================================================================
