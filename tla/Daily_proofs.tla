----------------------------- MODULE Daily_proofs -----------------------------
(* Theorems about Daily for every value of its constants. *)
EXTENDS Daily, Growth_proofs, WellFoundedInduction

-----------------------------------------------------------------------------
(* The operators of Settings, for any file, environment and edit.          *)
\* The values a number may have in force, whoever has set it; and the numbers
\* the environment leaves alone.
Lowest(f) == IF Bounds[f].min = 0 THEN 0 ELSE 1
Usable(c) ==
  \A f \in Numbers : c[f] >= Lowest(f) /\ (f \in Limited => c[f] <= Bounds[f].max)
GoodConfig(c) == IsConfig(c) /\ Usable(c)
Ranged(c, e) == \A f \in Numbers : f \notin DOMAIN e => InBounds(f, c[f])

LEMMA BoundsFacts ==
  ASSUME NEW f \in Numbers
  PROVE  /\ Bounds[f].min \in Int /\ Bounds[f].max \in Int /\ Bounds[f].low \in Int
         /\ Bounds[f].min <= Bounds[f].max
         /\ Bounds[f].min <= Bounds[f].low /\ Bounds[f].low <= Bounds[f].max
         /\ Lowest(f) \in Int /\ Lowest(f) <= Bounds[f].min
         /\ Lowest(f) <= 1
BY DEF Bounds, Numbers, Range3, Largest, Lowest

Plain == {"listen", "region", "checkin_mode", "password"}

LEMMA Classes ==
  /\ Fields = Switches \cup Crons \cup Window \cup Numbers \cup Plain
  /\ Limited \subseteq Numbers
  /\ \A f \in Numbers : f \notin Window /\ f \notin Switches /\ f \notin Crons /\ f \notin Plain
  /\ \A f \in Window : f \notin Switches /\ f \notin Crons /\ f \notin Plain
  /\ \A f \in Crons : f \notin Switches /\ f \notin Plain
  /\ \A f \in Switches : f \notin Plain
BY DEF Bounds, Numbers, Window, Switches, Crons, Fields, Limited, Plain

LEMMA ConfigIs ==
  ASSUME NEW c
  PROVE  IsConfig(c) <=> /\ DOMAIN c = Fields
                         /\ \A f \in Switches : c[f] \in BOOLEAN
                         /\ \A f \in Window : c[f] \in -1..1439
                         /\ \A f \in Numbers : c[f] \in Int
BY Classes DEF IsConfig, ValueOf

LEMMA DefaultsGood == IsConfig(Defaults)
<1>1. DOMAIN Defaults = Fields
  BY DEF Defaults, Fields, Switches, Crons, Window, Numbers, Bounds
<1>2. ASSUME NEW f \in Fields PROVE ValueOf(f, Defaults[f])
  <2>1. /\ Defaults.auto_checkin = FALSE /\ Defaults.checkin_fallback = TRUE
        /\ Defaults.auto_growth = FALSE /\ Defaults.task_sweep_enabled = TRUE
        /\ Defaults.embeddings_enabled = FALSE /\ Defaults.pool_enabled = FALSE
    BY DEF Defaults
  <2>2. /\ Defaults.checkin_random_start = 540 /\ Defaults.checkin_random_end = 1080
    BY DEF Defaults
  <2>3. /\ Defaults.task_sweep_minutes = 15 /\ Defaults.growth_report_count = 10
        /\ Defaults.growth_report_jitter = 0 /\ Defaults.resource_cache_seconds = 300
        /\ Defaults.log_retention_days = 90 /\ Defaults.log_max_size_mb = 50
        /\ Defaults.chat_timeout_seconds = 60 /\ Defaults.pool_session_ttl = 180
        /\ Defaults.pool_max_retry = 2 /\ Defaults.pool_cool_max_min = 360
    BY DEF Defaults
  <2>4. f \in Switches => Defaults[f] \in BOOLEAN
    BY <2>1 DEF Switches
  <2>5. f \in Window => Defaults[f] \in -1..1439
    BY <2>2 DEF Window
  <2>6. f \in Numbers => Defaults[f] \in Int
    BY <2>3 DEF Numbers, Bounds
  <2>7. QED BY <2>4, <2>5, <2>6 DEF ValueOf
<1>3. QED BY <1>1, <1>2 DEF IsConfig
-----------------------------------------------------------------------------
LEMMA UnderConfig ==
  ASSUME NEW c, IsConfig(c), NEW e, IsPart(e)
  PROVE  IsConfig(Under(c, e))
BY DEF Under, IsConfig, IsPart

\* A value in its range is one the program can use.
LEMMA WithinUsable ==
  ASSUME NEW f \in Numbers, NEW n \in Int
  PROVE  /\ Within(f, n) \in Int
         /\ Within(f, n) >= Lowest(f) /\ Within(f, n) <= Bounds[f].max
         /\ InBounds(f, Within(f, n))
BY BoundsFacts DEF Within, InBounds

LEMMA NormalizeIs ==
  ASSUME NEW c
  PROVE  /\ DOMAIN Normalize(c) = Fields
         /\ \A f \in Numbers : Normalize(c)[f] = Within(f, c[f])
         /\ \A f \in Window : Normalize(c)[f] = NormalWindow(c, f)
         /\ \A f \in Switches : Normalize(c)[f] = c[f]
<1>1. DOMAIN Normalize(c) = Fields
  BY DEF Normalize
<1>2. ASSUME NEW f \in Numbers PROVE Normalize(c)[f] = Within(f, c[f])
  <2>1. f \in Fields
    BY Classes
  <2>2. f \notin Window /\ f \notin Crons \cup {"listen"} /\ f # "region" /\ f # "checkin_mode"
    BY Classes DEF Plain
  <2>3. QED BY <2>1, <2>2, SMT DEF Normalize
<1>3. ASSUME NEW f \in Window PROVE Normalize(c)[f] = NormalWindow(c, f)
  <2>1. f \in Fields /\ f \notin Numbers
    BY Classes
  <2>2. f \notin Crons \cup {"listen"} /\ f # "region" /\ f # "checkin_mode"
    BY Classes DEF Plain
  <2>3. QED BY <2>1, <2>2, SMT DEF Normalize
<1>4. ASSUME NEW f \in Switches PROVE Normalize(c)[f] = c[f]
  <2>1. f \in Fields /\ f \notin Numbers /\ f \notin Window
    BY Classes
  <2>2. f \notin Crons \cup {"listen"} /\ f # "region" /\ f # "checkin_mode"
    BY Classes DEF Plain
  <2>3. QED BY <2>1, <2>2, SMT DEF Normalize
<1>5. QED BY <1>1, <1>2, <1>3, <1>4

LEMMA NormalizeGood ==
  ASSUME NEW c, IsConfig(c)
  PROVE  /\ GoodConfig(Normalize(c))
         /\ \A f \in Numbers : InBounds(f, Normalize(c)[f])
<1> DEFINE n == Normalize(c)
<1>1. ASSUME NEW f \in Fields
      PROVE  /\ f \in Switches => c[f] \in BOOLEAN
             /\ f \in Window => c[f] \in -1..1439 /\ Defaults[f] \in -1..1439
             /\ f \in Numbers => c[f] \in Int
  BY DefaultsGood DEF IsConfig, ValueOf
<1>2. ASSUME NEW f \in Numbers
      PROVE  /\ n[f] \in Int /\ n[f] >= Lowest(f) /\ n[f] <= Bounds[f].max
             /\ InBounds(f, n[f])
  BY <1>1, Classes, NormalizeIs, WithinUsable
<1>3. ASSUME NEW f \in Window PROVE n[f] \in -1..1439
  BY <1>1, Classes, NormalizeIs DEF NormalWindow
<1>4. ASSUME NEW f \in Switches PROVE n[f] \in BOOLEAN
  BY <1>1, Classes, NormalizeIs
<1>5. IsConfig(n)
  BY <1>2, <1>3, <1>4, NormalizeIs DEF IsConfig, ValueOf
<1>6. QED BY <1>2, <1>5 DEF GoodConfig, Usable
-----------------------------------------------------------------------------
(* What a start, an edit and a new password make of good settings. *)
LEMMA PasswordGood ==
  ASSUME NEW c, GoodConfig(c), NEW p
  PROVE  /\ GoodConfig([c EXCEPT !["password"] = p])
         /\ \A f \in Numbers : [c EXCEPT !["password"] = p][f] = c[f]
BY Classes DEF GoodConfig, IsConfig, ValueOf, Usable, Plain

LEMMA LoadedGood ==
  ASSUME NEW c, c = Missing \/ IsConfig(c), NEW e, IsEnv(e)
  PROVE  GoodConfig(Loaded(c, e)) /\ Ranged(Loaded(c, e), e)
<1> DEFINE t == IF c = Missing THEN Defaults ELSE c
           u == Under(Normalize(t), e)
           m == Limit(u)
<1>1. GoodConfig(Normalize(t)) /\ \A f \in Numbers : InBounds(f, Normalize(t)[f])
  BY DefaultsGood, NormalizeGood
<1>2. IsConfig(u)
  BY <1>1, UnderConfig DEF GoodConfig, IsEnv
<1>3. ASSUME NEW f \in Numbers
      PROVE  u[f] \in Int /\ u[f] >= Lowest(f) /\ (f \notin DOMAIN e => InBounds(f, u[f]))
  <2>1. Normalize(t)[f] >= Lowest(f)
    BY <1>1 DEF GoodConfig, Usable
  <2>2. f \in Fields /\ u[f] \in Int
    <3> HIDE DEF u
    <3>1. QED BY <1>2, Classes, ConfigIs
  <2>3. f \in DOMAIN e => u[f] = e[f] /\ e[f] > 0
    BY <2>2 DEF Under, IsEnv
  <2>4. f \notin DOMAIN e => u[f] = Normalize(t)[f]
    BY <2>2 DEF Under
  <2>5. QED BY <1>1, <2>1, <2>2, <2>3, <2>4, BoundsFacts
<1>4. DOMAIN m = Fields /\ \A f \in Fields :
        m[f] = IF f \in Limited /\ u[f] > Bounds[f].max THEN Bounds[f].max ELSE u[f]
  BY DEF Limit
<1>5. ASSUME NEW f \in Numbers
      PROVE  /\ m[f] \in Int /\ m[f] >= Lowest(f)
             /\ f \in Limited => m[f] <= Bounds[f].max
             /\ f \notin DOMAIN e => InBounds(f, m[f])
  BY <1>3, <1>4, BoundsFacts, Classes DEF InBounds
<1> HIDE DEF u, m
<1>6. IsConfig(m)
  <2>1. \A f \in Switches \cup Window : f \in Fields /\ m[f] = u[f]
    BY <1>4, Classes
  <2>2. \A f \in Switches : m[f] \in BOOLEAN
    BY <1>2, <2>1, ConfigIs
  <2>3. \A f \in Window : m[f] \in -1..1439
    BY <1>2, <2>1, ConfigIs
  <2>4. QED BY <1>4, <1>5, <2>2, <2>3, ConfigIs
<1>7. GoodConfig(m) /\ Ranged(m, e)
  BY <1>5, <1>6 DEF GoodConfig, Usable, Ranged
<1>8. GoodConfig(FirstPassword(m)) /\ Ranged(FirstPassword(m), e)
  BY <1>7, PasswordGood DEF FirstPassword, Ranged
<1>9. QED BY <1>8 DEF Loaded, m, u

LEMMA NearestWhole ==
  ASSUME NEW f \in Numbers, NEW n \in Int
  PROVE  Nearest(f, n) \in Int
BY BoundsFacts DEF Nearest

LEMMA AppliedConfig ==
  ASSUME NEW c, IsConfig(c), NEW e, IsPart(e)
  PROVE  IsConfig(Applied(e, c))
<1> DEFINE a == Applied(e, c)
<1>1. DOMAIN a = Fields
  BY DEF Applied
<1>2. Repaired(e) \subseteq Crons /\ Clamped \subseteq Numbers /\ Ignored(e) \subseteq DOMAIN e
  BY DEF Repaired, Clamped, Ignored, Numbers, Bounds
<1>3. ASSUME NEW f \in Fields
      PROVE  \/ f \in DOMAIN e \cap Clamped /\ a[f] = Nearest(f, e[f])
             \/ f \in DOMAIN e \ Clamped /\ a[f] = e[f]
             \/ f \in Crons
             \/ a[f] = c[f]
  BY <1>2, SMT DEF Applied
<1>4. ASSUME NEW f \in Fields PROVE ValueOf(f, a[f])
  <2>1. ValueOf(f, c[f])
    BY DEF IsConfig
  <2>2. f \in DOMAIN e => ValueOf(f, e[f])
    BY DEF IsPart
  <2>3. CASE f \in DOMAIN e \cap Clamped /\ a[f] = Nearest(f, e[f])
    <3>1. f \in Numbers /\ e[f] \in Int
      BY <1>2, <2>2, <2>3 DEF ValueOf
    <3>2. QED BY <2>3, <3>1, NearestWhole, Classes DEF ValueOf
  <2>4. CASE f \in Crons
    BY <2>4, Classes DEF ValueOf
  <2>5. QED BY <1>3, <2>1, <2>2, <2>3, <2>4
<1>5. QED BY <1>1, <1>4 DEF IsConfig

LEMMA UpdatedGood ==
  ASSUME NEW c, IsConfig(c), NEW e, IsPart(e)
  PROVE  /\ GoodConfig(Normalize(Restore(Applied(e, c), c)))
         /\ Ranged(Normalize(Restore(Applied(e, c), c)), env)
<1>1. IsConfig(Restore(Applied(e, c), c))
  BY AppliedConfig DEF Restore, IsConfig
<1>2. QED BY <1>1, NormalizeGood DEF Ranged

-----------------------------------------------------------------------------
(* The settings: only a start, an edit of the panel, a new password and a  *)
(* crash in a write touch them.                                            *)
SettingsInv ==
  /\ GoodConfig(conf) /\ Ranged(conf, env)
  /\ IsEnv(env) /\ (file = Torn \/ IsConfig(file))

SettingsSteps ==
  \/ \E p \in Panels : PutPassword(p) \/ \E e \in Edits : PutSettings(p, e)
  \/ Crash \/ Boot \/ BootFails

LEMMA SettingsStay == Next => SettingsSteps \/ UNCHANGED settings
<1> SUFFICES ASSUME Next PROVE SettingsSteps \/ UNCHANGED settings
  OBVIOUS
<1> USE DEF Quiet, CheckinStep, Machinery, Meanwhile
<1>1. CASE MinutePasses \/ Midnight
  BY <1>1 DEF MinutePasses, Midnight
<1>2. ASSUME NEW t \in Ticks, TickCheckin(t) \/ TickStep(t) PROVE UNCHANGED settings
  BY <1>2 DEF TickCheckin, TickStep, Decide, CheckinStatus, ClaimCheckin, Secure, RetryLater
<1>3. ASSUME NEW r, TickGrowthChain(r) \/ TickTravel(r) \/ RunStep(r)
                      \/ GrowthCatchupFire(r) \/ GrowthButton(r)
      PROVE  UNCHANGED settings
  BY <1>3 DEF TickGrowthChain, TickTravel, RunStep, GrowthCatchupFire, GrowthButton, Pressed
<1>4. ASSUME NEW w, TickTaskQueue(w) \/ TickBlackcat(w) \/ TaskButton(w) \/ RoundStep(w)
      PROVE  UNCHANGED settings
  BY <1>4 DEF TickTaskQueue, TickBlackcat, TaskButton, RoundStep, Pressed
<1>5. CASE TickPoolProbe \/ SweepTick \/ SweepEnds \/ HandButton \/ ClickButton
  BY <1>5 DEF TickPoolProbe, SweepTick, SweepEnds, HandButton, ClickButton, Pressed
<1>6. ASSUME NEW a, Arrival(a) \/ \E c \in Codes : Scoring(a, c) PROVE UNCHANGED settings
  BY <1>6 DEF Arrival, Scoring
<1>7. ASSUME NEW p, HandlerStep(p) \/ Look(p) \/ \E a \in Accts \cup {None} : Save(p, a)
      PROVE  UNCHANGED settings
  BY <1>7 DEF HandlerStep, RefreshStarts, Refresh, InvalidateAccountCaches, ResetCheckin,
              ResetAccountState, Reconfigure, Reconfigured, Show, Look, Save
<1>8. CASE RefreshModels \/ Stop \/ Exit
  BY <1>8 DEF RefreshModels, Stop, Exit, Gone, settings
<1>9. QED BY <1>1, <1>2, <1>3, <1>4, <1>5, <1>6, <1>7, <1>8 DEF Next, SettingsSteps

LEMMA SettingsHold == SettingsInv /\ [Next]_vars => SettingsInv'
<1> SUFFICES ASSUME SettingsInv, [Next]_vars PROVE SettingsInv'
  OBVIOUS
<1>1. CASE UNCHANGED settings
  BY <1>1 DEF SettingsInv, settings
<1>2. ASSUME NEW p \in Panels, PutPassword(p) PROVE SettingsInv'
  <2>1. CASE SetAdminPasswordHash("changed")
    BY <2>1, PasswordGood DEF SetAdminPasswordHash, Written, SettingsInv, GoodConfig, Ranged
  <2>2. CASE PasswordFails
    BY <2>2 DEF PasswordFails, NotWritten, SettingsInv
  <2>3. QED BY <1>2, <2>1, <2>2 DEF PutPassword
<1>3. ASSUME NEW p \in Panels, NEW e \in Edits, PutSettings(p, e) PROVE SettingsInv'
  <2>1. IsPart(e)
    BY SettingsAssumption
  <2>2. CASE UpdateSettings(e)
    <3>1. GoodConfig(conf') /\ Ranged(conf', env)
      BY <2>1, <2>2, UpdatedGood DEF UpdateSettings, SettingsInv, GoodConfig
    <3>2. QED BY <2>2, <3>1 DEF UpdateSettings, Written, SettingsInv, GoodConfig, Ranged
  <2>3. CASE UpdateFails(e)
    BY <2>3 DEF UpdateFails, RollBack, NotWritten, SettingsInv
  <2>4. QED BY <1>3, <2>2, <2>3 DEF PutSettings
<1>4. CASE Crash
  BY <1>4 DEF Crash, Gone, SettingsInv
<1>5. CASE Boot
  BY <1>5, LoadedGood DEF Boot, LoadSettings, Written, SettingsInv, GoodConfig
<1>6. CASE BootFails
  BY <1>6 DEF BootFails, LoadFails, NotWritten, SettingsInv
<1>7. QED BY <1>1, <1>2, <1>3, <1>4, <1>5, <1>6, SettingsStay DEF SettingsSteps, vars, settings

LEMMA SettingsFirst == Init => SettingsInv
<1> SUFFICES ASSUME Init PROVE SettingsInv
  OBVIOUS
<1>1. PICK s \in Scenes : env = s.env /\ conf = Loaded(s.file, s.env) /\ file = conf
  BY DEF Init
<1>2. IsEnv(s.env) /\ (s.file = Missing \/ IsConfig(s.file))
  BY DailyAssumption
<1>3. QED BY <1>1, <1>2, LoadedGood DEF SettingsInv, GoodConfig

\* A number in force is in its range, whatever the file held and the panel sent,
\* unless the environment sets it; those of the environment are over 0, and under
\* the limits that Load applies a second time (config.Load, Normalize, Update).
\* The minutes of the sweep have no such limit.
THEOREM NumbersKept == Spec => []NumbersInRange
<1>1. Init => SettingsInv
  BY SettingsFirst
<1>2. SettingsInv => NumbersInRange
  BY DEF SettingsInv, GoodConfig, Usable, Ranged, Lowest, NumbersInRange
<1>3. QED BY <1>1, <1>2, SettingsHold, PTL DEF Spec
-----------------------------------------------------------------------------
(* What a start keeps.                                                     *)
LEMMA DefaultWindow ==
  ValidWindow(Defaults["checkin_random_start"], Defaults["checkin_random_end"])
BY DEF Defaults, ValidWindow, MaxCheckinWindowEnd

\* Normalize looks at one field, or at the two ends of the window.
Agree(c, d, f) == c[f] = d[f] /\ (f \in Window => \A g \in Window : c[g] = d[g])

LEMMA NormalizedName ==
  ASSUME NEW c, NEW f \in Crons \cup {"listen"}
  PROVE  Normalize(c)[f] = IF c[f] = "" THEN Defaults[f] ELSE c[f]
<1>1. f \in Fields
  BY Classes DEF Plain
<1>2. f \notin Numbers /\ f \notin Window
  BY Classes DEF Plain
<1>3. f # "region" /\ f # "checkin_mode"
  BY Classes DEF Plain
<1>4. QED BY <1>1, <1>2, <1>3, Zenon DEF Normalize

LEMMA NormalizeLocal ==
  ASSUME NEW c, NEW d, NEW f \in Fields, Agree(c, d, f)
  PROVE  Normalize(c)[f] = Normalize(d)[f]
<1>1. c[f] = d[f] /\ (f \in Window => NormalWindow(c, f) = NormalWindow(d, f))
  BY DEF Agree, NormalWindow, Window
<1>2. CASE f \in Numbers \cup Window
  BY <1>1, <1>2, NormalizeIs
<1>3. CASE f \notin Numbers \cup Window
  <2>1. CASE f \in Crons \cup {"listen"}
    BY <1>1, <1>3, <2>1, NormalizedName
  <2>2. CASE f = "region"
    BY <1>1, <1>3, <2>2 DEF Normalize
  <2>3. CASE f = "checkin_mode"
    BY <1>1, <1>3, <2>3 DEF Normalize
  <2>4. CASE f \notin Crons \cup {"listen", "region", "checkin_mode"}
    BY <1>1, <1>3, <2>4 DEF Normalize
  <2>5. QED BY <2>1, <2>2, <2>3, <2>4
<1>4. QED BY <1>2, <1>3

LEMMA NormalizeTwice ==
  ASSUME NEW c, IsConfig(c), NEW f \in Fields
  PROVE  Normalize(Normalize(c))[f] = Normalize(c)[f]
<1> DEFINE n == Normalize(c)
<1>1. CASE f \in Numbers
  <2>1. c[f] \in Int
    BY <1>1, ConfigIs
  <2>2. n[f] = Within(f, c[f]) /\ Normalize(n)[f] = Within(f, n[f])
    BY <1>1, NormalizeIs
  <2>3. Within(f, Within(f, c[f])) = Within(f, c[f])
    BY <1>1, <2>1, BoundsFacts DEF Within
  <2>4. QED BY <2>2, <2>3
<1>2. CASE f \in Window
  <2>1. /\ Normalize(n)[f] = NormalWindow(n, f)
        /\ \A g \in Window : n[g] = NormalWindow(c, g)
    BY <1>2, NormalizeIs
  <2>2. CASE ValidWindow(c["checkin_random_start"], c["checkin_random_end"])
    <3>1. \A g \in Window : n[g] = c[g]
      BY <2>1, <2>2 DEF NormalWindow
    <3>2. QED BY <1>2, <2>1, <2>2, <3>1 DEF NormalWindow, Window
  <2>3. CASE ~ValidWindow(c["checkin_random_start"], c["checkin_random_end"])
    <3>1. \A g \in Window : n[g] = Defaults[g]
      BY <2>1, <2>3 DEF NormalWindow
    <3>2. QED BY <1>2, <2>1, <3>1, DefaultWindow DEF NormalWindow, Window
  <2>4. QED BY <2>2, <2>3
<1>3. CASE f \in Crons \cup {"listen"}
  <2>1. f \notin Numbers /\ f \notin Window
    BY <1>3, Classes DEF Plain
  <2>2. \A x : Normalize(x)[f] = IF x[f] = "" THEN Defaults[f] ELSE x[f]
    BY <1>3, NormalizedName
  <2>3. QED BY <2>2
<1>4. CASE f = "region"
  <2>1. f \notin Numbers /\ f \notin Window /\ f \notin Crons \cup {"listen"}
    BY <1>4, Classes DEF Plain
  <2>2. \A x : Normalize(x)[f] = IF x[f] = "global" THEN "global" ELSE "cn"
    BY <1>4, <2>1 DEF Normalize
  <2>3. QED BY <2>2
<1>5. CASE f = "checkin_mode"
  <2>1. f \notin Numbers /\ f \notin Window /\ f \notin Crons \cup {"listen"}
    BY <1>5, Classes DEF Plain
  <2>2. \A x : Normalize(x)[f] = IF x[f] = "random" THEN "random" ELSE "fixed"
    BY <1>5, <2>1 DEF Normalize
  <2>3. QED BY <2>2
<1>6. CASE /\ f \notin Numbers /\ f \notin Window /\ f \notin Crons \cup {"listen"}
           /\ f # "region" /\ f # "checkin_mode"
  <2>1. \A x : Normalize(x)[f] = x[f]
    BY <1>6 DEF Normalize
  <2>2. QED BY <2>1
<1>7. QED BY <1>1, <1>2, <1>3, <1>4, <1>5, <1>6

\* Load leaves a field that nothing else sets as Normalize has made it.
LEMMA LoadedKeeps ==
  ASSUME NEW c, IsConfig(c), NEW t, c = IF t = Missing THEN Defaults ELSE t, NEW e,
         NEW f \in Fields, f \notin DOMAIN e, f # "password"
  PROVE  Loaded(t, e)[f] = Normalize(c)[f]
<1> DEFINE u == Under(Normalize(c), e)
           m == Limit(u)
<1>1. u[f] = Normalize(c)[f]
  BY DEF Under
<1>2. m[f] = IF f \in Limited /\ u[f] > Bounds[f].max THEN Bounds[f].max ELSE u[f]
  BY DEF Limit
<1>3. f \in Limited => u[f] \in Int /\ u[f] <= Bounds[f].max /\ Bounds[f].max \in Int
  <2>1. f \in Limited => f \in Numbers
    BY Classes
  <2>2. f \in Numbers => Normalize(c)[f] \in Int /\ Normalize(c)[f] <= Bounds[f].max
    BY NormalizeGood, ConfigIs DEF GoodConfig, InBounds
  <2>3. QED BY <1>1, <2>1, <2>2, BoundsFacts
<1>4. m[f] = u[f]
  <2> HIDE DEF u, m
  <2>1. QED BY <1>2, <1>3
<1>5. FirstPassword(m)[f] = m[f]
  BY DEF FirstPassword, Limit
<1>6. Loaded(t, e) = FirstPassword(m)
  BY DEF Loaded
<1>7. QED BY <1>1, <1>4, <1>5, <1>6

CarriedBy(e) ==
  Fields \ (DOMAIN e \cup {"password"}
              \cup IF Window \cap DOMAIN e = {} THEN {} ELSE Window)
AtRest(c, e) == \A f \in CarriedBy(e) : Normalize(c)[f] = c[f]

LEMMA LoadedRests ==
  ASSUME NEW t, t = Missing \/ IsConfig(t), NEW e
  PROVE  AtRest(Loaded(t, e), e)
<1>1. PICK c : c = IF t = Missing THEN Defaults ELSE t
  OBVIOUS
<1>2. IsConfig(c)
  BY <1>1, DefaultsGood
<1> SUFFICES ASSUME NEW f \in CarriedBy(e)
             PROVE  Normalize(Loaded(t, e))[f] = Loaded(t, e)[f]
  BY DEF AtRest
<1>3. /\ f \in Fields /\ f \notin DOMAIN e /\ f # "password"
      /\ f \in Window => \A g \in Window : g \in Fields /\ g \notin DOMAIN e /\ g # "password"
  BY Classes DEF CarriedBy, Plain
<1>4. Agree(Loaded(t, e), Normalize(c), f)
  BY <1>1, <1>2, <1>3, LoadedKeeps DEF Agree
<1>5. QED BY <1>2, <1>3, <1>4, NormalizeLocal, NormalizeTwice DEF Agree

LEMMA UpdatedRests ==
  ASSUME NEW c, IsConfig(c), NEW d, IsPart(d), NEW e
  PROVE  AtRest(Normalize(Restore(Applied(d, c), c)), e)
<1>1. IsConfig(Restore(Applied(d, c), c))
  BY AppliedConfig DEF Restore, IsConfig
<1>2. QED BY <1>1, NormalizeTwice DEF AtRest, CarriedBy

LEMMA PasswordRests ==
  ASSUME NEW c, IsConfig(c), NEW e, AtRest(c, e), NEW p
  PROVE  AtRest([c EXCEPT !["password"] = p], e)
<1>0. PICK d : d = [c EXCEPT !["password"] = p]
  OBVIOUS
<1> SUFFICES ASSUME NEW f \in CarriedBy(e) PROVE Normalize(d)[f] = d[f]
  BY <1>0 DEF AtRest
<1>1. f \in Fields /\ f # "password" /\ Normalize(c)[f] = c[f]
  BY DEF AtRest, CarriedBy
<1>2. "password" \notin Window
  BY DEF Window
<1>3. Agree(d, c, f)
  BY <1>0, <1>1, <1>2 DEF Agree
<1>4. QED BY <1>1, <1>3, NormalizeLocal DEF Agree

\* The file holds the settings in force, and a start would read them as they are.
RestInv == SettingsInv /\ (file = Torn \/ file = conf) /\ AtRest(conf, env)

LEMMA RestHolds == RestInv /\ [Next]_vars => RestInv'
<1> SUFFICES ASSUME RestInv, [Next]_vars PROVE RestInv'
  OBVIOUS
<1>0. SettingsInv'
  BY SettingsHold DEF RestInv
<1>1. CASE UNCHANGED settings
  BY <1>0, <1>1 DEF RestInv, settings
<1>2. ASSUME NEW p \in Panels, PutPassword(p) PROVE RestInv'
  <2>1. CASE SetAdminPasswordHash("changed")
    BY <1>0, <2>1, PasswordRests
       DEF SetAdminPasswordHash, Written, RestInv, SettingsInv, GoodConfig
  <2>2. CASE PasswordFails
    BY <1>0, <2>2 DEF PasswordFails, NotWritten, RestInv
  <2>3. QED BY <1>2, <2>1, <2>2 DEF PutPassword
<1>3. ASSUME NEW p \in Panels, NEW e \in Edits, PutSettings(p, e) PROVE RestInv'
  <2>1. IsPart(e)
    BY SettingsAssumption
  <2>2. CASE UpdateSettings(e)
    BY <1>0, <2>1, <2>2, UpdatedRests
       DEF UpdateSettings, Written, RestInv, SettingsInv, GoodConfig
  <2>3. CASE UpdateFails(e)
    BY <1>0, <2>3 DEF UpdateFails, RollBack, NotWritten, RestInv
  <2>4. QED BY <1>3, <2>2, <2>3 DEF PutSettings
<1>4. CASE Crash
  BY <1>0, <1>4 DEF Crash, Gone, RestInv
<1>5. CASE Boot
  <2>1. /\ file # Torn /\ env' = env /\ conf' = Loaded(file, env) /\ file' = conf'
    BY <1>5 DEF Boot, LoadSettings, Written
  <2>2. IsConfig(file)
    BY <2>1 DEF RestInv, SettingsInv
  <2>3. QED BY <1>0, <2>1, <2>2, LoadedRests DEF RestInv
<1>6. CASE BootFails
  BY <1>0, <1>6 DEF BootFails, LoadFails, NotWritten, RestInv
<1>7. QED BY <1>1, <1>2, <1>3, <1>4, <1>5, <1>6, SettingsStay DEF SettingsSteps, vars, settings

LEMMA RestFirst == Init => RestInv
<1> SUFFICES ASSUME Init PROVE RestInv
  OBVIOUS
<1>1. PICK s \in Scenes : env = s.env /\ conf = Loaded(s.file, s.env) /\ file = conf
  BY DEF Init
<1>2. s.file = Missing \/ IsConfig(s.file)
  BY DailyAssumption
<1>3. QED BY <1>1, <1>2, SettingsFirst, LoadedRests DEF RestInv

\* No text is a file that does not exist.
MissingApart == \A c : IsConfig(c) => c # Missing

LEMMA BootKeeps ==
  ASSUME MissingApart, RestInv, Boot
  PROVE  \A f \in Carried : conf'[f] = conf[f]
<1> SUFFICES ASSUME NEW f \in Carried PROVE conf'[f] = conf[f]
  OBVIOUS
<1>1. file = conf /\ conf' = Loaded(conf, env) /\ IsConfig(conf)
  BY DEF RestInv, Boot, LoadSettings, SettingsInv, GoodConfig
<1>2. f \in Fields /\ f \notin DOMAIN env /\ f # "password" /\ f \in CarriedBy(env)
  BY DEF Carried, CarriedBy
<1>3. conf = IF conf = Missing THEN Defaults ELSE conf
  BY <1>1 DEF MissingApart
<1>4. QED BY <1>1, <1>2, <1>3, LoadedKeeps DEF RestInv, AtRest

\* A start finds the settings the last process worked with: what Update or a
\* start put into force is in the file, unless a write was cut short, and Load
\* makes nothing else of it, whatever the environment sets beside it.
THEOREM StartKeepsSettings == ASSUME MissingApart PROVE Spec => SettingsSurvive
<1>1. Init => RestInv
  BY RestFirst
<1>2. RestInv /\ [Next]_vars => [Boot => \A f \in Carried : conf'[f] = conf[f]]_vars
  BY BootKeeps
<1>3. QED BY <1>1, <1>2, RestHolds, PTL DEF Spec, SettingsSurvive
-----------------------------------------------------------------------------
(* The flags of the day: the steps that touch the chain, the account or the *)
(* date, and all the others.                                               *)
DayInv == GrowthInv /\ (unreset \/ OwnInv)

LEMMA SameDay ==
  ASSUME DayInv, UNCHANGED unreset, GrowthInv' /\ (OwnInv => OwnInv')
  PROVE  DayInv'
BY DEF DayInv

Beside ==
  \/ MinutePasses \/ TickPoolProbe \/ SweepTick \/ SweepEnds \/ ClickButton
  \/ RefreshModels \/ Stop \/ Boot \/ BootFails
  \/ \E t \in Ticks : TickCheckin(t) \/ TickStep(t)
  \/ \E w \in Workers : TickTaskQueue(w) \/ TickBlackcat(w) \/ TaskButton(w) \/ RoundStep(w)
  \/ \E a \in Accts, c \in Codes : Scoring(a, c)
  \/ \E p \in Panels :
       \/ RefreshStarts(p) \/ Refresh(p) \/ InvalidateAccountCaches(p) \/ ResetCheckin(p)
       \/ Reconfigure(p) \/ Reconfigured(p) \/ Show(p) \/ Look(p) \/ PutPassword(p)
       \/ \E e \in Edits : PutSettings(p, e)

LEMMA BesideIs == Beside => UNCHANGED <<acct, day, growth, unreset>>
<1> SUFFICES ASSUME Beside PROVE UNCHANGED <<acct, day, growth, unreset>>
  OBVIOUS
<1> USE DEF Quiet, CheckinStep, Machinery, Meanwhile, host
<1>1. CASE MinutePasses \/ TickPoolProbe \/ \E t \in Ticks : TickCheckin(t)
  BY <1>1 DEF MinutePasses, TickPoolProbe, TickCheckin, Rings
<1>2. CASE SweepTick \/ SweepEnds \/ RefreshModels \/ Stop \/ Boot \/ BootFails
  BY <1>2 DEF SweepTick, SweepEnds, RefreshModels, Stop, Boot, BootFails
<1>3. CASE \E t \in Ticks : TickStep(t)
  BY <1>3 DEF TickStep, Decide, CheckinStatus, ClaimCheckin, Secure, RetryLater
<1>4. CASE \/ ClickButton
           \/ \E w \in Workers : \/ TickTaskQueue(w) \/ TickBlackcat(w)
                                 \/ TaskButton(w) \/ RoundStep(w)
  BY <1>4 DEF ClickButton, TickTaskQueue, TickBlackcat, TaskButton, RoundStep, Rings, Pressed
<1>5. CASE \E a \in Accts, c \in Codes : Scoring(a, c)
  BY <1>5 DEF Scoring
<1>6. CASE \E p \in Panels : \/ RefreshStarts(p) \/ Refresh(p) \/ InvalidateAccountCaches(p)
                            \/ ResetCheckin(p) \/ Reconfigure(p) \/ Reconfigured(p) \/ Show(p)
  BY <1>6 DEF RefreshStarts, Refresh, InvalidateAccountCaches, ResetCheckin, Reconfigure,
              Reconfigured, Show
<1>7. CASE \E p \in Panels : Look(p) \/ PutPassword(p) \/ \E e \in Edits : PutSettings(p, e)
  BY <1>7 DEF Look, PutPassword, PutSettings
<1>8. QED BY <1>1, <1>2, <1>3, <1>4, <1>5, <1>6, <1>7 DEF Beside

LEMMA NextCases ==
  Next => \/ Beside \/ Midnight \/ HandButton \/ Crash \/ Exit
          \/ \E r \in Runs : TickGrowthChain(r) \/ TickTravel(r) \/ RunStep(r)
                             \/ GrowthCatchupFire(r) \/ GrowthButton(r)
          \/ \E a \in Accts : Arrival(a)
          \/ \E p \in Panels : ResetAccountState(p) \/ \E a \in Accts \cup {None} : Save(p, a)
BY DailyAssumption DEF Next, Beside, HandlerStep

LEMMA DayHolds == DayInv /\ [Next]_vars => DayInv'
<1> SUFFICES ASSUME DayInv, [Next]_vars PROVE DayInv'
  OBVIOUS
<1>0. GrowthInv
  BY DEF DayInv
<1>1. CASE UNCHANGED vars \/ Beside
  <2>1. UNCHANGED <<acct, day, growth, unreset>>
    BY <1>1, BesideIs DEF vars, host
  <2>2. QED BY <1>0, <2>1, NothingKeeps, SameDay
<1>2. CASE Midnight
  BY <1>0, <1>2, DawnKeeps DEF Midnight, DayInv
<1>3. CASE HandButton
  BY <1>0, <1>3, HandsKeep, SameDay DEF HandButton, Pressed, Machinery
<1>4. CASE Crash \/ Exit
  BY <1>0, <1>4, CrashKeeps, SameDay DEF Crash, Exit, Gone
<1>5. ASSUME NEW r \in Runs,
             \/ TickGrowthChain(r) \/ TickTravel(r) \/ RunStep(r)
             \/ GrowthCatchupFire(r) \/ GrowthButton(r)
      PROVE  DayInv'
  <2>1. UNCHANGED <<acct, day, unreset>>
    BY <1>5 DEF TickGrowthChain, TickTravel, RunStep, GrowthCatchupFire, GrowthButton,
                Rings, Quiet, Machinery, Pressed, host
  <2>2. Step(r) \/ Starts(r) \/ UNCHANGED growth
    BY <1>5 DEF TickGrowthChain, TickTravel, RunStep, GrowthCatchupFire, GrowthButton, Starts
  <2>3. QED BY <1>0, <2>1, <2>2, StepKeeps, StartsKeep, NothingKeeps, SameDay
<1>6. ASSUME NEW a \in Accts, Arrival(a) PROVE DayInv'
  BY <1>0, <1>6, ArrivalKeeps, SameDay DEF Arrival, Meanwhile, Machinery
<1>7. ASSUME NEW p \in Panels, ResetAccountState(p) PROVE DayInv'
  BY <1>0, <1>7, ResetKeeps DEF ResetAccountState, host, DayInv
<1>8. ASSUME NEW p \in Panels, NEW a \in Accts \cup {None}, Save(p, a) PROVE DayInv'
  BY <1>0, <1>8, AccountKeeps DEF Save, DayInv
<1>9. QED BY <1>1, <1>2, <1>3, <1>4, <1>5, <1>6, <1>7, <1>8, NextCases

LEMMA DayFirst == Init => DayInv
<1> SUFFICES ASSUME Init PROVE DayInv
  OBVIOUS
<1>1. PICK s \in Scenes : acct = s.acct /\ day = 1 /\ plant = s.plant /\ GrowthInit
  BY DEF Init
<1>2. s.acct \in Accts \cup {None} /\ s.plant \in [Accts -> PlantStates]
  BY DailyAssumption
<1>3. QED BY <1>1, <1>2, FirstDay DEF DayInv

\* "Reported today" means that every report of a run has reached the account
\* that is logged in (stepReports, End, rollGrowthDayLocked), whoever resets,
\* crashes or changes the account in between; the account just changed is
\* left to ResetAccountState.
THEOREM ReportedMeansSent == Spec => []FlagsTruthful
<1>1. Init => DayInv
  BY DayFirst
<1>2. DayInv => FlagsTruthful
  BY DEF DayInv, OwnInv, FlagsTruthful
<1>3. QED BY <1>1, <1>2, DayHolds, PTL DEF Spec
-----------------------------------------------------------------------------
(* The rewards of the day. *)
LeftInv == DayInv /\ RewardInv /\ (unreset \/ TiersInv)

LEMMA SameLeft ==
  ASSUME LeftInv, UNCHANGED unreset, RewardInv' /\ (TiersInv => TiersInv')
  PROVE  RewardInv' /\ (unreset \/ TiersInv)'
BY DEF LeftInv

LEMMA LeftHolds == LeftInv /\ [Next]_vars => (RewardInv /\ (unreset \/ TiersInv))'
<1> DEFINE Goal == (RewardInv /\ (unreset \/ TiersInv))'
<1> SUFFICES ASSUME LeftInv, [Next]_vars PROVE Goal
  OBVIOUS
<1>0. GrowthInv /\ RewardInv
  BY DEF LeftInv, DayInv
<1>1. CASE UNCHANGED vars \/ Beside
  <2>1. UNCHANGED <<acct, day, growth, unreset>>
    BY <1>1, BesideIs DEF vars, host
  <2>2. QED BY <1>0, <2>1, NothingRewards, SameLeft
<1>2. CASE Midnight
  BY <1>0, <1>2, DawnRewards DEF Midnight
<1>3. CASE HandButton
  BY <1>0, <1>3, HandRewards, SameLeft DEF HandButton, Pressed, Machinery
<1>4. CASE Crash \/ Exit
  BY <1>0, <1>4, CrashRewards, SameLeft DEF Crash, Exit, Gone
<1>5. ASSUME NEW r \in Runs,
             \/ TickGrowthChain(r) \/ TickTravel(r) \/ RunStep(r)
             \/ GrowthCatchupFire(r) \/ GrowthButton(r)
      PROVE  Goal
  <2>1. UNCHANGED <<acct, day, unreset>>
    BY <1>5 DEF TickGrowthChain, TickTravel, RunStep, GrowthCatchupFire, GrowthButton,
                Rings, Quiet, Machinery, Pressed, host
  <2>2. Step(r) \/ Starts(r) \/ UNCHANGED growth
    BY <1>5 DEF TickGrowthChain, TickTravel, RunStep, GrowthCatchupFire, GrowthButton, Starts
  <2>3. RewardInv' /\ (TiersInv => TiersInv')
    BY <1>0, <2>1, <2>2, StepRewards, StartRewards, NothingRewards
  <2>4. QED BY <2>1, <2>3, SameLeft
<1>6. ASSUME NEW a \in Accts, Arrival(a) PROVE Goal
  BY <1>0, <1>6, ArrivalRewards, SameLeft DEF Arrival, Meanwhile, Machinery
<1>7. ASSUME NEW p \in Panels, ResetAccountState(p) PROVE Goal
  BY <1>0, <1>7, ResetRewards DEF ResetAccountState, host
<1>8. ASSUME NEW p \in Panels, NEW a \in Accts \cup {None}, Save(p, a) PROVE Goal
  BY <1>0, <1>8, AccountRewards DEF Save
<1>9. QED BY <1>1, <1>2, <1>3, <1>4, <1>5, <1>6, <1>7, <1>8, NextCases

\* Rewards that are marked as taken are: whichever runs, hands, crashes,
\* midnights and changes of the account come in between, no tier is left to
\* redeem and no draw to draw, but for accounts a failure or a hand has met
\* (stepRewardChain, makeupYesterday, stepLottery, RunGrowthRedeem).
THEOREM RewardsTaken == Spec => []NothingLeft
<1>1. Init => LeftInv
  <2> SUFFICES ASSUME Init PROVE LeftInv
    OBVIOUS
  <2>1. PICK s \in Scenes : day = 1 /\ plant = s.plant /\ GrowthInit
    BY DEF Init
  <2>2. s.plant \in [Accts -> PlantStates]
    BY DailyAssumption
  <2>3. QED BY <2>1, <2>2, DayFirst, FirstRewards DEF LeftInv
<1>2. LeftInv /\ [Next]_vars => LeftInv'
  BY LeftHolds, DayHolds DEF LeftInv
<1>3. LeftInv => NothingLeft
  BY DEF LeftInv, RewardInv, DrawsOwn, ToDraw, TiersInv, FlagTiers, RewardFlagOwn, ChainRuns,
         NothingLeft, Mine
<1>4. QED BY <1>1, <1>2, <1>3, PTL DEF Spec
-----------------------------------------------------------------------------
(* What the panel shows. *)
Own(s) == s \in late \/ stats[s] \in {None, acct}
Changing(p) == handler[p].pc \in {"caches", "ck", "growth"}

\* The overview goes with the caches, the records of the rounds with the reset;
\* a crash in between leaves both to the next change of the account.
ShowTyped == DOMAIN handler = Panels /\ DOMAIN stats = Results
ShowInv ==
  /\ ShowTyped
  /\ unreset \/ \A p \in Panels : ~Changing(p)
  /\ \/ Own("overview") \/ \E p \in Panels : handler[p].pc = "caches"
     \/ unreset /\ \A p \in Panels : handler[p].pc \notin {"ck", "growth"}
  /\ unreset \/ (Own("sweep") /\ Own("queue"))

LEMMA HandlerIs ==
  ASSUME DOMAIN handler = Panels, NEW p \in Panels, NEW s, Handle(p, s)
  PROVE  /\ DOMAIN handler' = Panels /\ handler'[p] = s
         /\ \A q \in Panels \ {p} : handler'[q] = handler[q]
BY DEF Handle

Showing == UNCHANGED <<stats, late>> \/ InvalidateOverview \/ \E s, a : Stored(s, a)

LEMMA ShowingKeeps ==
  ASSUME ShowTyped, acct' = acct, DOMAIN handler' = Panels, Showing
  PROVE  ShowTyped' /\ \A s \in Results : Own(s) => Own(s)'
<1>1. CASE UNCHANGED <<stats, late>>
  BY <1>1 DEF ShowTyped, Own
<1>2. CASE InvalidateOverview
  BY <1>2 DEF ShowTyped, Own, InvalidateOverview
<1>3. ASSUME NEW k, NEW a, Stored(k, a)
      PROVE  ShowTyped' /\ \A s \in Results : Own(s) => Own(s)'
  BY <1>3 DEF ShowTyped, Own, Stored
<1>4. QED BY <1>1, <1>2, <1>3 DEF Showing

\* Rounds, buttons and the clock store results of the present account.
Apart == UNCHANGED <<acct, handler, unreset>> /\ Showing

LEMMA ApartKeeps == ASSUME ShowInv, Apart PROVE ShowInv'
<1>1. ShowTyped' /\ \A s \in Results : Own(s) => Own(s)'
  BY ShowingKeeps DEF Apart, ShowInv, ShowTyped
<1>2. {"overview", "sweep", "queue"} \subseteq Results
  BY DEF Results
<1>3. QED BY <1>1, <1>2 DEF ShowInv, Apart, Changing

LEMMA WorkShows == ASSUME NEW w, NEW n, WorkStep(w, n) PROVE Showing
BY DEF WorkStep, Showing, Offers, Snapshot, List, Take, Find, AcceptOne, NextTask, Play, Wait,
       Claim, Finish, Record, Rest

Announced(p) ==
  \/ InvalidateAccountCaches(p) \/ ResetCheckin(p) \/ ResetAccountState(p)
  \/ \E a \in Accts \cup {None} : Save(p, a)
\* A handler that comes from and goes to other things.
Elsewhere == {"idle", "models", "menu", "reconf", "wait", "show"}
Passing(p) ==
  /\ UNCHANGED <<acct, unreset>> /\ Showing
  /\ \E s : Handle(p, s) /\ s.pc \in Elsewhere /\ handler[p].pc \in Elsewhere

LEMMA ShowCases ==
  ASSUME ShowTyped, Next
  PROVE  \/ Apart \/ Crash \/ Exit \/ \E p \in Panels : Passing(p) \/ Announced(p)
<1> USE DEF Quiet, CheckinStep, Machinery, Meanwhile, host, models
<1>1. CASE MinutePasses \/ Midnight \/ TickPoolProbe \/ RefreshModels \/ Stop \/ Boot \/ BootFails
  BY <1>1 DEF MinutePasses, Midnight, TasksDawn, TickPoolProbe, Rings, RefreshModels, Stop, Boot,
              BootFails, Apart, Showing, tasks
<1>2. CASE \E t \in Ticks : TickCheckin(t) \/ TickStep(t)
  BY <1>2 DEF TickCheckin, Rings, TickStep, Decide, CheckinStatus, ClaimCheckin, Secure,
              RetryLater, Apart, Showing, tasks
<1>3. CASE \E r : TickGrowthChain(r) \/ TickTravel(r) \/ RunStep(r) \/ GrowthCatchupFire(r)
                  \/ GrowthButton(r)
  BY <1>3 DEF TickGrowthChain, TickTravel, RunStep, GrowthCatchupFire, GrowthButton, Rings,
              Pressed, Apart, Showing, tasks
<1>4. CASE HandButton \/ ClickButton \/ SweepTick \/ SweepEnds
  BY <1>4 DEF HandButton, ClickButton, SweepTick, SweepEnds, Pressed, TasksAccept, TasksClaim,
              SweepBusy, RunTaskSweep, Begins, Apart, Showing, tasks
<1>5. CASE \E w : TickTaskQueue(w) \/ TickBlackcat(w) \/ TaskButton(w)
  BY <1>5 DEF TickTaskQueue, TickBlackcat, TaskButton, Rings, Pressed, RunTaskQueueOnce, Refused,
              NothingToDo, AutoContext, AutoAllContext, RunTaskSweep, Begins, Apart, Showing, tasks
<1>6. CASE \E w : RoundStep(w)
  BY <1>6, WorkShows DEF RoundStep, Apart
<1>7. CASE \E a \in Accts : Arrival(a) \/ \E c \in Codes : Scoring(a, c)
  BY <1>7 DEF Arrival, Scoring, Score, Apart, Showing, tasks
<1>8. ASSUME NEW p \in Panels,
             \/ RefreshStarts(p) \/ Refresh(p) \/ Reconfigure(p) \/ Reconfigured(p)
             \/ Look(p) \/ Show(p)
      PROVE  Passing(p)
  <2>1. Idle.pc = "idle" /\ \A q : Now(q).pc = q
    BY DEF Idle, Now
  <2>2. UNCHANGED <<acct, unreset>> /\ Showing
    BY <1>8 DEF RefreshStarts, Refresh, Reconfigure, Reconfigured, Look, Show, Showing, tasks
  <2>3. handler[p].pc \in Elsewhere
    BY <1>8 DEF RefreshStarts, Refresh, Reconfigure, Reconfigured, Look, Show, InHandler, Calls,
                Elsewhere
  <2>4. \E s : Handle(p, s) /\ s.pc \in Elsewhere
    BY <1>8, <2>1 DEF RefreshStarts, Refresh, Reconfigure, Reconfigured, Look, Show, Elsewhere
  <2>5. QED BY <2>2, <2>3, <2>4 DEF Passing
<1>9. ASSUME NEW p \in Panels, PutPassword(p) \/ \E e \in Edits : PutSettings(p, e)
      PROVE  Apart \/ Passing(p)
  <2>1. \A q : Now(q).pc = q
    BY DEF Now
  <2>2. UNCHANGED <<acct, unreset>> /\ Showing /\ handler[p].pc = "idle"
    BY <1>9 DEF PutPassword, PutSettings, Calls, InHandler, Showing, tasks
  <2>3. UNCHANGED handler \/ \E s : Handle(p, s) /\ s.pc \in {"models", "reconf"}
    BY <1>9, <2>1 DEF PutPassword, PutSettings, AfterEdit
  <2>4. QED BY <2>2, <2>3 DEF Apart, Passing, Elsewhere
<1>10. QED BY <1>1, <1>2, <1>3, <1>4, <1>5, <1>6, <1>7, <1>8, <1>9 DEF Next, HandlerStep, Announced

LEMMA ShowHolds == ShowInv /\ [Next]_vars => ShowInv'
<1> SUFFICES ASSUME ShowInv, [Next]_vars PROVE ShowInv'
  OBVIOUS
<1>0. {"overview", "sweep", "queue"} \subseteq Results /\ \A q : Now(q).pc = q
  BY DEF Results, Now
<1>1. CASE UNCHANGED vars \/ Apart
  BY <1>1, ApartKeeps DEF vars, host, tasks, Apart, Showing
<1>2. CASE Crash \/ Exit
  <2>1. /\ UNCHANGED <<acct, unreset, stats, late>>
        /\ DOMAIN handler' = Panels /\ \A p \in Panels : handler'[p].pc = "idle"
    BY <1>2 DEF Crash, Exit, Gone, TasksCrash, Idle
  <2>2. QED BY <2>1 DEF ShowInv, ShowTyped, Changing, Own
<1>3. ASSUME NEW p \in Panels, Passing(p) PROVE ShowInv'
  <2>1. PICK s : Handle(p, s) /\ s.pc \in Elsewhere
    BY <1>3 DEF Passing
  <2>2. /\ DOMAIN handler' = Panels /\ handler'[p] = s
        /\ \A q \in Panels \ {p} : handler'[q] = handler[q]
    BY <2>1, HandlerIs DEF ShowInv, ShowTyped
  <2>3. ShowTyped' /\ \A x \in Results : Own(x) => Own(x)'
    BY <1>3, <2>2, ShowingKeeps DEF Passing, ShowInv
  <2>4. /\ handler[p].pc \notin {"caches", "ck", "growth"}
        /\ handler'[p].pc \notin {"caches", "ck", "growth"} /\ UNCHANGED unreset
    BY <1>3, <2>1, <2>2 DEF Passing, Elsewhere
  <2>5. QED BY <1>0, <2>2, <2>3, <2>4 DEF ShowInv, Changing
<1>4. ASSUME NEW p \in Panels, NEW a \in Accts \cup {None}, Save(p, a) PROVE ShowInv'
  <2>1. /\ DOMAIN handler' = Panels /\ handler'[p].pc = "caches"
    BY <1>0, <1>4, HandlerIs DEF Save, ShowInv, ShowTyped
  <2>2. unreset' = TRUE /\ UNCHANGED <<stats, late>>
    BY <1>4 DEF Save, tasks
  <2>3. QED BY <2>1, <2>2 DEF ShowInv, ShowTyped
<1>5. ASSUME NEW p \in Panels, InvalidateAccountCaches(p) PROVE ShowInv'
  <2>1. /\ DOMAIN handler' = Panels /\ handler'[p].pc = "ck" /\ handler[p].pc = "caches"
    BY <1>0, <1>5, HandlerIs DEF InvalidateAccountCaches, InHandler, ShowInv, ShowTyped
  <2>2. unreset /\ UNCHANGED <<acct, unreset>>
    BY <1>5, <2>1 DEF InvalidateAccountCaches, InvalidateOverview, host, ShowInv, Changing
  <2>3. stats' = [stats EXCEPT !["overview"] = None] /\ late' = late \ {"overview"}
    BY <1>5 DEF InvalidateAccountCaches, InvalidateOverview
  <2>4. QED BY <1>0, <2>1, <2>2, <2>3 DEF ShowInv, ShowTyped, Own
<1>6. ASSUME NEW p \in Panels, ResetCheckin(p) PROVE ShowInv'
  <2>1. /\ DOMAIN handler' = Panels /\ handler'[p].pc = "growth" /\ handler[p].pc = "ck"
        /\ \A q \in Panels \ {p} : handler'[q] = handler[q]
    BY <1>0, <1>6, HandlerIs DEF ResetCheckin, InHandler, ShowInv, ShowTyped
  <2>2. unreset /\ UNCHANGED <<acct, unreset, late, stats>>
    BY <1>6, <2>1 DEF ResetCheckin, host, tasks, ShowInv, Changing
  <2>3. QED BY <2>1, <2>2 DEF ShowInv, ShowTyped, Own
<1>7. ASSUME NEW p \in Panels, ResetAccountState(p) PROVE ShowInv'
  <2>1. /\ DOMAIN handler' = Panels /\ handler'[p].pc = "reconf" /\ handler[p].pc = "growth"
        /\ \A q \in Panels \ {p} : handler'[q] = handler[q]
    BY <1>0, <1>7, HandlerIs DEF ResetAccountState, InHandler, ShowInv, ShowTyped
  <2>2. /\ acct' = acct /\ late' = late \ {"sweep", "queue"}
        /\ stats' = [stats EXCEPT !["sweep"] = None, !["queue"] = None]
        /\ unreset' = \E q \in Panels \ {p} : Changing(q)
    BY <1>7 DEF ResetAccountState, ResetStats, host, Changing
  <2>3. Own("overview") \/ \E q \in Panels \ {p} : handler[q].pc = "caches"
    BY <2>1 DEF ShowInv
  <2>4. QED BY <1>0, <2>1, <2>2, <2>3 DEF ShowInv, ShowTyped, Own, Changing
<1>8. QED BY <1>1, <1>2, <1>3, <1>4, <1>5, <1>6, <1>7, ShowCases DEF Announced, ShowInv

LEMMA ShowFirst == Init => ShowInv
<1> SUFFICES ASSUME Init PROVE ShowInv
  OBVIOUS
<1>1. /\ handler = [p \in Panels |-> Idle] /\ unreset = FALSE
      /\ stats = [s \in Results |-> None] /\ late = {}
  BY DEF Init, TasksInit
<1>2. Idle.pc = "idle" /\ {"overview", "sweep", "queue"} \subseteq Results
  BY DEF Idle, Results
<1>3. QED BY <1>1, <1>2 DEF ShowInv, ShowTyped, Changing, Own

\* The panel shows nothing of an earlier account: what is stored for the page
\* is dropped with the caches and the reset (invalidateAccountCaches,
\* ResetAccountState), but for what a round or a fetch stores after the change.
THEOREM PanelShowsOwn == Spec => []ShownOwn
<1>1. Init => ShowInv
  BY ShowFirst
<1>2. ShowInv => ShownOwn
  BY DEF ShowInv, ShownOwn, StatsOwn, Own, Changing, Results
<1>3. QED BY <1>1, <1>2, ShowHolds, PTL DEF Spec
-----------------------------------------------------------------------------
(* The check-in. *)
CheckTyped ==
  /\ DOMAIN tick = Ticks /\ signed \in [Accts -> Nat]
  /\ {"day", "secured"} \subseteq DOMAIN ck /\ ck.day \in Nat /\ ck.day <= day

\* A goroutine is of today or of an earlier day; before it marks the day as
\* done, the account it has seen is signed in.
Trying(s) ==
  /\ s.pc # "idle" => s.day \in Nat /\ s.day <= day
  /\ s.pc \notin {"idle", "decide"} => {"pc", "day", "for"} \subseteq DOMAIN s
  /\ s.pc = "secure" /\ s.day = day => s.for \in Accts /\ signed[s.for] = day

\* Between the saving of a new account and the first part of its reset the
\* mark is that of the old account.
SecuredOwn == ck.secured /\ ck.day = day /\ ~overtaken => signed[acct] = day
OldMark(p) == handler[p].pc \in {"caches", "ck"}
SecuredInv ==
  CheckTyped /\ (\A t \in Ticks : Trying(tick[t])) /\ (SecuredOwn \/ \E p \in Panels : OldMark(p))
CheckInv == SecuredInv /\ ShowInv /\ DayInv

LEMMA CheckFacts ==
  ASSUME CheckInv
  PROVE  /\ day \in Nat \ {0} /\ acct \in Accts \cup {None} /\ DOMAIN handler = Panels
         /\ NoDay.day = 0 /\ NoDay.secured = FALSE /\ {"day", "secured"} \subseteq DOMAIN NoDay
         /\ Idle.pc = "idle"
BY DEF CheckInv, DayInv, GrowthInv, HostTyped, ShowInv, ShowTyped, NoDay, Idle

\* What has nothing to do with the check-in.
Uninvolved ==
  /\ UNCHANGED <<acct, day, ck, tick, signed, overtaken>>
  /\ \/ UNCHANGED handler
     \/ \E p \in Panels : ~OldMark(p) /\ \E s : Handle(p, s)

LEMMA UninvolvedKeeps == ASSUME CheckInv, Uninvolved PROVE SecuredInv'
<1>1. CheckTyped' /\ \A t \in Ticks : Trying(tick[t])'
  BY DEF CheckInv, SecuredInv, CheckTyped, Trying, Uninvolved
<1>2. \A q \in Panels : OldMark(q) => OldMark(q)'
  <2>1. CASE UNCHANGED handler
    BY <2>1 DEF OldMark
  <2>2. ASSUME NEW p \in Panels, ~OldMark(p), NEW s, Handle(p, s)
        PROVE  \A q \in Panels : OldMark(q) => OldMark(q)'
    BY <2>2, CheckFacts, HandlerIs DEF OldMark
  <2>3. QED BY <2>1, <2>2 DEF Uninvolved
<1>3. SecuredOwn => SecuredOwn'
  BY DEF SecuredOwn, Uninvolved
<1>4. QED BY <1>1, <1>2, <1>3 DEF CheckInv, SecuredInv

Forgets == \/ Boot \/ \E p \in Panels : ResetCheckin(p) \/ Reconfigure(p)

LEMMA CheckCases ==
  Next => \/ Uninvolved \/ Midnight \/ Forgets \/ Crash \/ Exit
          \/ \E t \in Ticks : TickCheckin(t) \/ TickStep(t)
          \/ \E p \in Panels : \/ InvalidateAccountCaches(p)
                              \/ \E a \in Accts \cup {None} : Save(p, a)
<1> SUFFICES ASSUME Next
             PROVE  \/ Uninvolved \/ Midnight \/ Forgets \/ Crash \/ Exit
                    \/ \E t \in Ticks : TickCheckin(t) \/ TickStep(t)
                    \/ \E p \in Panels : \/ InvalidateAccountCaches(p)
                                        \/ \E a \in Accts \cup {None} : Save(p, a)
  OBVIOUS
<1> USE DEF Quiet, Machinery, Meanwhile, host, checkin
<1>1. CASE MinutePasses \/ TickPoolProbe \/ RefreshModels \/ Stop \/ BootFails
  BY <1>1 DEF MinutePasses, TickPoolProbe, Rings, RefreshModels, Stop, BootFails, Uninvolved
<1>2. CASE \E r : TickGrowthChain(r) \/ TickTravel(r) \/ RunStep(r) \/ GrowthCatchupFire(r)
                  \/ GrowthButton(r)
  BY <1>2 DEF TickGrowthChain, TickTravel, RunStep, GrowthCatchupFire, GrowthButton, Rings,
              Pressed, Uninvolved
<1>3. CASE \/ HandButton \/ ClickButton \/ SweepTick \/ SweepEnds
           \/ \E w : TickTaskQueue(w) \/ TickBlackcat(w) \/ TaskButton(w) \/ RoundStep(w)
  BY <1>3 DEF HandButton, ClickButton, SweepTick, SweepEnds, TickTaskQueue, TickBlackcat,
              TaskButton, RoundStep, Rings, Pressed, Uninvolved
<1>4. CASE \E a \in Accts : Arrival(a) \/ \E c \in Codes : Scoring(a, c)
  BY <1>4 DEF Arrival, Scoring, Uninvolved
<1>5. ASSUME NEW p \in Panels,
             \/ RefreshStarts(p) \/ Refresh(p) \/ ResetAccountState(p) \/ Reconfigured(p)
             \/ Show(p) \/ Look(p) \/ PutPassword(p) \/ \E e \in Edits : PutSettings(p, e)
      PROVE  Uninvolved
  <2>1. ~OldMark(p)
    BY <1>5 DEF RefreshStarts, Refresh, ResetAccountState, Reconfigured, Show, Look, PutPassword,
                PutSettings, Calls, InHandler, OldMark
  <2>2. UNCHANGED handler \/ \E s : Handle(p, s)
    BY <1>5 DEF RefreshStarts, Refresh, ResetAccountState, Reconfigured, Show, Look, PutPassword,
                PutSettings
  <2>3. UNCHANGED <<acct, day, ck, tick, signed, overtaken>>
    BY <1>5 DEF RefreshStarts, Refresh, ResetAccountState, Reconfigured, Show, Look, PutPassword,
                PutSettings
  <2>4. QED BY <2>1, <2>2, <2>3 DEF Uninvolved
<1>6. QED BY <1>1, <1>2, <1>3, <1>4, <1>5 DEF Next, HandlerStep, Forgets

LEMMA ForgetsKeeps == ASSUME CheckInv, Forgets PROVE SecuredInv'
<1>1. /\ UNCHANGED <<acct, day, tick, signed>> /\ ck' = NoDay
      /\ overtaken' = FALSE \/ overtaken' = overtaken
  BY DEF Forgets, Boot, Assemble, ResetCheckin, Reconfigure, host, FreshDay
<1>2. CheckTyped' /\ SecuredOwn'
  <2>1. ck'.day = 0 /\ ck'.secured = FALSE /\ {"day", "secured"} \subseteq DOMAIN ck'
    BY <1>1, CheckFacts
  <2>2. CheckTyped'
    <3>1. DOMAIN tick' = Ticks /\ signed' \in [Accts -> Nat]
      BY <1>1 DEF CheckInv, SecuredInv, CheckTyped
    <3>2. ck'.day \in Nat /\ ck'.day <= day'
      BY <1>1, <2>1, CheckFacts
    <3>3. QED BY <2>1, <3>1, <3>2 DEF CheckTyped
  <2>3. QED BY <2>1, <2>2 DEF SecuredOwn
<1>3. \A t \in Ticks : Trying(tick[t])'
  BY <1>1 DEF CheckInv, SecuredInv, Trying
<1>4. QED BY <1>2, <1>3 DEF SecuredInv

\* A goroutine of the tick moves on; the others see no less signed than before.
LEMMA TickKeeps ==
  ASSUME CheckInv, UNCHANGED <<acct, day, handler>>, NEW t \in Ticks, NEW s, Tick(t, s),
         signed' \in [Accts -> Nat], \A a \in Accts : signed[a] = day => signed'[a] = day,
         Trying(s)', CheckTyped', SecuredOwn => SecuredOwn'
  PROVE  SecuredInv'
<1>1. tick'[t] = s /\ \A u \in Ticks \ {t} : tick'[u] = tick[u]
  BY DEF CheckInv, SecuredInv, CheckTyped, Tick
<1>2. \A u \in Ticks : Trying(tick[u])'
  BY <1>1 DEF CheckInv, SecuredInv, Trying
<1>3. \A p : OldMark(p) => OldMark(p)'
  BY DEF OldMark
<1>4. QED BY <1>2, <1>3 DEF CheckInv, SecuredInv
LEMMA TickSteps ==
  ASSUME CheckInv, NEW t \in Ticks, TickCheckin(t) \/ TickStep(t)
  PROVE  SecuredInv'
<1> DEFINE s == tick[t]
<1>0. /\ UNCHANGED <<acct, day, handler>> /\ CheckTyped /\ Trying(s)
      /\ signed \in [Accts -> Nat] /\ day \in Nat
  BY CheckFacts DEF CheckInv, SecuredInv, CheckTyped, TickCheckin, Rings, Quiet, TickStep,
     Decide, CheckinStatus,
     ClaimCheckin, Secure, RetryLater, CheckinStep
<1>1. CASE TickCheckin(t)
  <2>1. PICK c : tick' = [tick EXCEPT ![t] = c] /\ c.pc = "decide" /\ c.day = day
    <3> DEFINE d == [pc |-> "decide", at |-> minute, day |-> day,
                     cfg |-> [f \in CheckinFields |-> conf[f]]]
    <3>1. tick' = [tick EXCEPT ![t] = d] /\ d.pc = "decide" /\ d.day = day
      BY <1>1 DEF TickCheckin
    <3> HIDE DEF d
    <3>2. QED BY <3>1
  <2>2. UNCHANGED <<ck, signed, overtaken>>
    BY <1>1 DEF TickCheckin
  <2>3. Trying(c)' /\ CheckTyped' /\ (SecuredOwn => SecuredOwn')
    BY <1>0, <2>1, <2>2 DEF Trying, CheckTyped, SecuredOwn
  <2>4. QED BY <1>0, <2>1, <2>2, <2>3, TickKeeps DEF Tick
<1>2. CASE Decide(t)
  <2>1. s.pc = "decide" /\ s.day \in Nat /\ s.day <= day /\ UNCHANGED signed
    BY <1>0, <1>2 DEF Decide, InTick, Trying
  <2>2. PICK main : /\ ck' = Entered(RolledDay(s, main), Stage(RolledDay(s, main), s))
                    /\ overtaken' = (overtaken /\ ck.day = s.day)
                    /\ Tick(t, IF Stage(RolledDay(s, main), s) = "none" THEN Idle
                               ELSE [pc |-> "status", at |-> s.at, day |-> s.day,
                                     again |-> Stage(RolledDay(s, main), s) # "retry", for |-> None])
    BY <1>2 DEF Decide
  <2> DEFINE d == RolledDay(s, main)
  <2>3. /\ {"day", "secured"} \subseteq DOMAIN d /\ d.day = s.day
        /\ d.secured = IF ck.day = s.day THEN ck.secured ELSE FALSE
    <3>1. CASE ck.day = s.day
      BY <1>0, <3>1 DEF RolledDay, CheckTyped
    <3>2. CASE ck.day # s.day
      BY <3>2 DEF RolledDay, NoDay
    <3>3. QED BY <3>1, <3>2
  <2> HIDE DEF d
  <2>4. /\ {"day", "secured"} \subseteq DOMAIN ck' /\ ck'.day = d.day /\ ck'.secured = d.secured
    BY <2>2, <2>3 DEF Entered, d
  <2>5. CheckTyped'
    <3>1. DOMAIN tick' = Ticks
      BY <1>0, <2>2 DEF CheckTyped, Tick
    <3>2. QED BY <1>0, <2>1, <2>3, <2>4, <3>1 DEF CheckTyped
  <2>6. SecuredOwn => SecuredOwn'
    BY <1>0, <2>1, <2>2, <2>3, <2>4 DEF SecuredOwn
  <2>7. PICK c : Tick(t, c) /\ (c = Idle \/ (/\ c.pc = "status" /\ c.day = s.day
                                          /\ {"pc", "day", "for"} \subseteq DOMAIN c))
    BY <2>2
  <2>8. Trying(c)'
    BY <1>0, <2>1, <2>7, CheckFacts DEF Trying
  <2>9. QED BY <1>0, <2>1, <2>5, <2>6, <2>7, <2>8, TickKeeps
<1>3. CASE CheckinStatus(t) \/ ClaimCheckin(t)
  <2>1. /\ s.pc \in {"status", "claim"} /\ s.day \in Nat /\ s.day <= day
        /\ {"pc", "day", "for"} \subseteq DOMAIN s
    BY <1>0, <1>3 DEF CheckinStatus, ClaimCheckin, InTick, Trying
  <2>2. UNCHANGED <<ck, overtaken>>
    BY <1>3 DEF CheckinStatus, ClaimCheckin
  <2>3. signed' = signed \/ (acct \in Accts /\ signed' = [signed EXCEPT ![acct] = day])
    BY <1>3, CheckFacts DEF CheckinStatus, ClaimCheckin, Sign, Answered
  <2>4. /\ signed' \in [Accts -> Nat]
        /\ \A a \in Accts : signed[a] = day => signed'[a] = day
        /\ signed' # signed => signed'[acct] = day
    BY <1>0, <2>3
  <2> DEFINE c1 == [s EXCEPT !.pc = "secure", !.for = acct]
             c2 == [s EXCEPT !.pc = "claim"]
             c3 == [s EXCEPT !.pc = "failed"]
  <2>5. \/ Tick(t, c1) /\ acct \in Accts /\ signed'[acct] = day
        \/ Tick(t, c2) \/ Tick(t, c3) \/ Tick(t, Idle)
    <3>1. CASE CheckinStatus(t)
      BY <3>1, CheckFacts DEF CheckinStatus, Secures, Answered
    <3>2. CASE ClaimCheckin(t)
      <4>1. acct # None => acct \in Accts
        BY CheckFacts
      <4>2. acct # None /\ Sign => signed'[acct] = day
        BY <1>0, <4>1 DEF Sign
      <4>3. QED BY <3>2, <4>1, <4>2 DEF ClaimCheckin, Secures, Misses, Answered
    <3>3. QED BY <1>3, <3>1, <3>2
  <2>6. /\ c1.pc = "secure" /\ c1.day = s.day /\ c1.for = acct
        /\ c2.pc = "claim" /\ c2.day = s.day /\ c3.pc = "failed" /\ c3.day = s.day
        /\ \A c \in {c1, c2, c3} : {"pc", "day", "for"} \subseteq DOMAIN c
    BY <2>1
  <2> HIDE DEF c1, c2, c3
  <2>7. PICK c : /\ Tick(t, c) /\ c \in {c1, c2, c3, Idle}
                 /\ c = c1 => acct \in Accts /\ signed'[acct] = day
    <3>1. c1 # c2 /\ c1 # c3 /\ c1 # Idle
      BY <2>6, CheckFacts
    <3>2. QED BY <2>5, <3>1
  <2>8. Trying(c)'
    BY <1>0, <2>1, <2>6, <2>7, CheckFacts DEF Trying
  <2>9. CheckTyped'
    BY <1>0, <2>2, <2>4, <2>7 DEF CheckTyped, Tick
  <2>10. SecuredOwn => SecuredOwn'
    BY <1>0, <2>2, <2>4 DEF SecuredOwn
  <2>11. QED BY <1>0, <2>4, <2>7, <2>8, <2>9, <2>10, TickKeeps
<1>4. CASE Secure(t)
  <2>1. /\ s.pc = "secure" /\ s.day \in Nat /\ Trying(s)
        /\ ck' = [ck EXCEPT !.secured = TRUE] /\ Tick(t, Idle) /\ UNCHANGED signed
        /\ overtaken' = (overtaken \/ s.for # acct \/ s.day # ck.day)
    BY <1>0, <1>4 DEF Secure, InTick, Trying
  <2>2. ck'.day = ck.day /\ {"day", "secured"} \subseteq DOMAIN ck'
    BY <1>0, <2>1 DEF CheckTyped
  <2>3. CheckTyped'
    BY <1>0, <2>1, <2>2 DEF CheckTyped, Tick
  <2>4. SecuredOwn'
    BY <1>0, <2>1, <2>2 DEF SecuredOwn, Trying
  <2>5. Trying(Idle)'
    BY CheckFacts DEF Trying
  <2>6. QED BY <1>0, <2>1, <2>3, <2>4, <2>5, TickKeeps
<1>5. CASE RetryLater(t)
  <2>1. PICK n : ck' = [ck EXCEPT !.retry = n]
    BY <1>5 DEF RetryLater
  <2>2. Tick(t, Idle) /\ UNCHANGED <<signed, overtaken>>
    BY <1>5 DEF RetryLater
  <2>3. /\ ck'.day = ck.day /\ ck'.secured = ck.secured /\ {"day", "secured"} \subseteq DOMAIN ck'
    BY <1>0, <2>1 DEF CheckTyped
  <2>4. CheckTyped' /\ (SecuredOwn => SecuredOwn')
    BY <1>0, <2>2, <2>3 DEF CheckTyped, SecuredOwn, Tick
  <2>5. Trying(Idle)'
    BY CheckFacts DEF Trying
  <2>6. QED BY <1>0, <2>2, <2>4, <2>5, TickKeeps
<1>6. QED BY <1>1, <1>2, <1>3, <1>4, <1>5 DEF TickStep

LEMMA SecuredHolds == CheckInv /\ [Next]_vars => SecuredInv'
<1> SUFFICES ASSUME CheckInv, [Next]_vars PROVE SecuredInv'
  OBVIOUS
<1>1. CASE UNCHANGED vars \/ Uninvolved
  BY <1>1, UninvolvedKeeps DEF vars, host, checkin, Uninvolved
<1>2. CASE Forgets
  BY <1>2, ForgetsKeeps
<1>3. CASE Midnight
  <2>1. /\ day' = day + 1 /\ UNCHANGED <<acct, ck, tick, signed, overtaken, handler>>
    BY <1>3 DEF Midnight, Quiet
  <2>2. CheckTyped /\ \A t \in Ticks : Trying(tick[t])
    BY DEF CheckInv, SecuredInv
  <2>3. \A d \in Nat : d <= day => d <= day' /\ d # day'
    BY <2>1, CheckFacts
  <2>4. CheckTyped' /\ SecuredOwn'
    BY <2>1, <2>2, <2>3 DEF CheckTyped, SecuredOwn
  <2>5. \A t \in Ticks : Trying(tick[t])'
    BY <2>1, <2>2, <2>3 DEF Trying
  <2>6. QED BY <2>4, <2>5 DEF SecuredInv
<1>4. CASE Crash \/ Exit
  <2>1. /\ UNCHANGED <<acct, day, signed>> /\ ck' = NoDay /\ overtaken' = FALSE
        /\ DOMAIN tick' = Ticks /\ \A t \in Ticks : tick'[t] = Idle
    BY <1>4 DEF Crash, Exit, Gone
  <2>2. ck'.day = 0 /\ ck'.secured = FALSE /\ {"day", "secured"} \subseteq DOMAIN ck'
    BY <2>1, CheckFacts
  <2>3. signed \in [Accts -> Nat]
    BY DEF CheckInv, SecuredInv, CheckTyped
  <2>4. CheckTyped' /\ SecuredOwn'
    BY <2>1, <2>2, <2>3, CheckFacts DEF CheckTyped, SecuredOwn
  <2>5. \A t \in Ticks : Trying(tick[t])'
    BY <2>1, CheckFacts DEF Trying
  <2>6. QED BY <2>4, <2>5 DEF SecuredInv
<1>5. ASSUME NEW p \in Panels,
             InvalidateAccountCaches(p) \/ \E a \in Accts \cup {None} : Save(p, a)
      PROVE  SecuredInv'
  <2>1. UNCHANGED <<day, ck, tick, signed, overtaken>>
    BY <1>5 DEF InvalidateAccountCaches, Save, host, checkin
  <2>2. OldMark(p)'
    <3>1. \E q \in {"caches", "ck"} : Handle(p, Now(q))
      BY <1>5 DEF InvalidateAccountCaches, Save
    <3>2. QED BY <3>1, CheckFacts, HandlerIs DEF OldMark, Now
  <2>3. CheckTyped' /\ \A t \in Ticks : Trying(tick[t])'
    BY <2>1 DEF CheckInv, SecuredInv, CheckTyped, Trying
  <2>4. QED BY <2>2, <2>3 DEF SecuredInv
<1>6. QED BY <1>1, <1>2, <1>3, <1>4, <1>5, CheckCases, TickSteps

LEMMA CheckFirst == Init => CheckInv
<1> SUFFICES ASSUME Init PROVE CheckInv
  OBVIOUS
<1>1. ShowInv /\ DayInv
  BY ShowFirst, DayFirst
<1>2. /\ tick = [t \in Ticks |-> Idle] /\ signed = [a \in Accts |-> 0]
      /\ overtaken = FALSE /\ ck = NoDay /\ day = 1
  BY DEF Init
<1>3. /\ ck.day = 0 /\ ck.secured = FALSE /\ {"day", "secured"} \subseteq DOMAIN ck
      /\ Idle.pc = "idle"
  BY <1>2 DEF NoDay, Idle
<1>4. CheckTyped /\ SecuredOwn
  BY <1>2, <1>3 DEF CheckTyped, SecuredOwn
<1>5. \A t \in Ticks : Trying(tick[t])
  BY <1>2, <1>3 DEF Trying
<1>6. QED BY <1>1, <1>4, <1>5 DEF CheckInv, SecuredInv

\* A check-in marked as done is done: neither a tick that waited for upstream
\* while the account or the day changed, nor a reset, a rebuild or a crash in
\* between leaves a mark for an account that is not signed in, but for those
\* that are overtaken (tickCheckin, ResetAccountState).
THEOREM SecuredIsSigned == Spec => []SecuredTruly
<1>1. Init => CheckInv
  BY CheckFirst
<1>2. CheckInv /\ [Next]_vars => CheckInv'
  BY SecuredHolds, ShowHolds, DayHolds DEF CheckInv
<1>3. CheckInv => SecuredTruly
  BY DEF CheckInv, SecuredInv, ShowInv, Changing, OldMark, SecuredOwn, SecuredTruly
<1>4. QED BY <1>1, <1>2, <1>3, PTL DEF Spec
-----------------------------------------------------------------------------
(* What runs and what the settings ask for. *)
Settler == {"models", "menu", "reconf"}
Waits(p) == handler[p].pc = "wait"

\* A handler that waits has the lock and knows what the settings ask for, as
\* long as no other one is on its way with new settings.
Followed ==
  \/ \E p \in Panels : handler[p].pc \in Settler
  \/ /\ entries = Wanted(conf)
     /\ \/ \E p \in Panels : Waits(p) /\ handler[p].sweep = SweepWanted(conf)
        \/ /\ \A p \in Panels : ~Waits(p)
           /\ (sweeper = "on" <=> SweepWanted(conf)) /\ sweeper # "cancelled"
FollowInv ==
  /\ \A p \in Panels : Waits(p) => mu = p /\ up
  /\ up /\ ~closing => Followed
EntriesInv == FollowInv /\ ShowInv /\ SettingsInv

Calm ==
  /\ UNCHANGED <<up, closing, entries, sweeper, mu>>
  /\ UNCHANGED conf \/ SetAdminPasswordHash("changed")
  /\ \/ UNCHANGED handler
     \/ \E p \in Panels : \E s :
          /\ Handle(p, s) /\ s.pc # "wait" /\ ~Waits(p)
          /\ handler[p].pc \in Settler => s.pc \in Settler

\* Minutes in their range give an interval over 0: nothing wraps.
LEMMA SweepBounds ==
  /\ "task_sweep_minutes" \in Numbers
  /\ Bounds["task_sweep_minutes"].min = 1 /\ Bounds["task_sweep_minutes"].max = 1440
BY DEF Numbers, Bounds, Range3

LEMMA NothingWraps ==
  ASSUME NEW n \in 1..1440
  PROVE  Signed((n * Minute) % Wrap) > 0
<1>1. Minute \in Nat \ {0} /\ Wrap \in Nat \ {0} /\ 2 * (n * Minute) < Wrap
  BY SweepBounds, IntervalAssumption
<1>2. PICK x : x = n * Minute
  OBVIOUS
<1>3. x \in Nat
  BY <1>1, <1>2
<1>4. x > 0
  BY <1>1, <1>2
<1>5. 2 * x < Wrap
  BY <1>1, <1>2
<1>6. x % Wrap = x
  BY <1>1, <1>3, <1>5
<1>7. QED BY <1>2, <1>4, <1>5, <1>6 DEF Signed

LEMMA InRangeSweeps ==
  ASSUME NEW c, IsConfig(c), InBounds("task_sweep_minutes", c["task_sweep_minutes"])
  PROVE  SweepWanted(c) <=> SweepChosen(c)
<1>1. c["task_sweep_minutes"] \in 1..1440
  <2>1. c["task_sweep_minutes"] \in Int
    BY SweepBounds, ConfigIs
  <2>2. QED BY <2>1, SweepBounds DEF InBounds
<1>2. SweepInterval(c) > 0
  BY <1>1, NothingWraps DEF SweepInterval
<1>3. QED BY <1>2 DEF SweepWanted

\* The password has no part in what runs.
LEMMA SameWanted ==
  ASSUME SettingsInv, UNCHANGED conf \/ SetAdminPasswordHash("changed")
  PROVE  Wanted(conf)' = Wanted(conf) /\ SweepWanted(conf)' = SweepWanted(conf)
<1> DEFINE Read == {"pool_probe_cron", "growth_report_cron", "growth_travel_cron",
                    "growth_queue_cron", "blackcat_cron", "pool_enabled", "auto_checkin",
                    "auto_growth", "task_sweep_enabled", "task_sweep_minutes"}
<1>1. Read \subseteq DOMAIN conf /\ "password" \notin Read
  BY ConfigIs DEF SettingsInv, GoodConfig, Fields, Crons, Switches, Numbers, Bounds
<1>2. \A f \in Read : conf'[f] = conf[f]
  BY <1>1 DEF SetAdminPasswordHash
<1>3. QED BY <1>2 DEF Wanted, SweepWanted, SweepChosen, SweepInterval

LEMMA CalmKeeps == ASSUME EntriesInv, Calm PROVE FollowInv'
<1>1. Wanted(conf)' = Wanted(conf) /\ SweepWanted(conf)' = SweepWanted(conf)
  BY SameWanted DEF EntriesInv, Calm
<1>2. CASE UNCHANGED handler
  BY <1>1, <1>2 DEF EntriesInv, FollowInv, Followed, Waits, Calm
<1>3. ASSUME NEW p \in Panels, NEW s, Handle(p, s), s.pc # "wait", ~Waits(p),
             handler[p].pc \in Settler => s.pc \in Settler
      PROVE  FollowInv'
  <2>1. handler'[p] = s /\ \A q \in Panels \ {p} : handler'[q] = handler[q]
    BY <1>3, HandlerIs DEF EntriesInv, ShowInv, ShowTyped
  <2>2. \A q \in Panels : /\ Waits(q)' <=> Waits(q)
                          /\ Waits(q) => handler'[q] = handler[q]
                          /\ handler[q].pc \in Settler => handler'[q].pc \in Settler
    BY <1>3, <2>1 DEF Waits
  <2>3. Followed => Followed'
    BY <1>1, <2>2 DEF Followed, Calm
  <2>4. QED BY <2>2, <2>3 DEF EntriesInv, FollowInv, Calm
<1>4. QED BY <1>2, <1>3 DEF Calm

\* Settings that are saved.
Edited(p, e) == PutSettings(p, e) /\ UpdateSettings(e) /\ Handle(p, Now(AfterEdit(e)))

Changes ==
  \/ Boot \/ Crash \/ Exit \/ Stop \/ SweepEnds
  \/ \E p \in Panels : \/ Reconfigure(p) \/ Reconfigured(p)
                      \/ \E e \in Edits : Edited(p, e)

LEMMA CalmCases == Next => Calm \/ Changes
<1> SUFFICES ASSUME Next PROVE Calm \/ Changes
  OBVIOUS
<1> USE DEF Quiet, CheckinStep, Machinery, Meanwhile, host, sched, settings
<1>1. CASE MinutePasses \/ Midnight \/ TickPoolProbe \/ RefreshModels \/ BootFails
  BY <1>1 DEF MinutePasses, Midnight, TickPoolProbe, Rings, RefreshModels, BootFails, LoadFails,
              Calm
<1>2. CASE \E t \in Ticks : TickCheckin(t) \/ TickStep(t)
  BY <1>2 DEF TickCheckin, Rings, TickStep, Decide, CheckinStatus, ClaimCheckin, Secure,
              RetryLater, Calm
<1>3. CASE \E r : TickGrowthChain(r) \/ TickTravel(r) \/ RunStep(r) \/ GrowthCatchupFire(r)
                  \/ GrowthButton(r)
  BY <1>3 DEF TickGrowthChain, TickTravel, RunStep, GrowthCatchupFire, GrowthButton, Rings,
              Pressed, Calm
<1>4. CASE \/ HandButton \/ ClickButton \/ SweepTick
           \/ \E w : TickTaskQueue(w) \/ TickBlackcat(w) \/ TaskButton(w) \/ RoundStep(w)
  BY <1>4 DEF HandButton, ClickButton, SweepTick, TickTaskQueue, TickBlackcat, TaskButton,
              RoundStep, Rings, Pressed, Calm
<1>5. CASE \E a \in Accts : Arrival(a) \/ \E c \in Codes : Scoring(a, c)
  BY <1>5 DEF Arrival, Scoring, Calm
<1>6. ASSUME NEW p \in Panels,
             \/ RefreshStarts(p) \/ Refresh(p) \/ InvalidateAccountCaches(p) \/ ResetCheckin(p)
             \/ ResetAccountState(p) \/ Show(p) \/ Look(p)
             \/ \E a \in Accts \cup {None} : Save(p, a)
      PROVE  Calm
  <2>1. UNCHANGED <<up, closing, entries, sweeper, mu, conf>>
    BY <1>6 DEF RefreshStarts, Refresh, InvalidateAccountCaches, ResetCheckin, ResetAccountState,
                Show, Look, Save
  <2>2. Idle.pc = "idle" /\ \A q : Now(q).pc = q
    BY DEF Idle, Now
  <2>3. \E s : /\ Handle(p, s) /\ s.pc # "wait"
               /\ handler[p].pc \in Settler => s.pc \in Settler
    <3>1. CASE RefreshStarts(p) \/ Look(p)
      <4>1. PICK s : /\ Handle(p, s) /\ s.pc \in {"menu", "show"}
                     /\ handler[p].pc \in Settler => s.pc = "menu"
        BY <3>1 DEF RefreshStarts, Look, Calls, InHandler, Settler
      <4>2. QED BY <4>1 DEF Settler
    <3>2. CASE ~(RefreshStarts(p) \/ Look(p))
      BY <1>6, <2>2, <3>2 DEF Refresh, InvalidateAccountCaches, ResetCheckin,
                              ResetAccountState, Show, Save, Calls, InHandler, Settler
    <3>3. QED BY <3>1, <3>2
  <2>4. ~Waits(p)
    BY <1>6 DEF RefreshStarts, Refresh, InvalidateAccountCaches, ResetCheckin, ResetAccountState,
                Show, Look, Save, Calls, InHandler, Waits
  <2>5. QED BY <2>1, <2>3, <2>4 DEF Calm
<1>7. ASSUME NEW p \in Panels, PutPassword(p) \/ \E e \in Edits : PutSettings(p, e)
      PROVE  Calm \/ Changes
  BY <1>7 DEF PutPassword, PasswordFails, PutSettings, UpdateFails, RollBack, Calm, Changes, Edited
<1>8. QED BY <1>1, <1>2, <1>3, <1>4, <1>5, <1>6, <1>7 DEF Next, HandlerStep, Changes

LEMMA FollowHolds == EntriesInv /\ [Next]_vars => FollowInv'
<1> SUFFICES ASSUME EntriesInv, [Next]_vars PROVE FollowInv'
  OBVIOUS
<1>0. DOMAIN handler = Panels /\ Idle.pc = "idle" /\ \A q : Now(q).pc = q
  BY DEF EntriesInv, ShowInv, ShowTyped, Idle, Now
<1>1. CASE UNCHANGED vars \/ Calm
  BY <1>1, CalmKeeps DEF vars, host, sched, settings, Calm
<1>2. CASE Boot
  BY <1>2 DEF Boot, Assemble, Sweeping, EntriesInv, FollowInv, Followed, Waits
<1>3. CASE Crash \/ Exit
  BY <1>0, <1>3 DEF Crash, Exit, Gone, FollowInv, Waits
<1>4. CASE Stop
  BY <1>4 DEF Stop, EntriesInv, FollowInv, Waits
<1>5. CASE SweepEnds
  BY <1>5 DEF SweepEnds, host, settings, EntriesInv, FollowInv, Followed, Waits
<1>6. ASSUME NEW p \in Panels, Reconfigure(p) PROVE FollowInv'
  <2>1. /\ entries' = Wanted(conf) /\ conf' = conf /\ up /\ up' /\ mu = None
    BY <1>6 DEF Reconfigure, Assemble, InHandler, host, settings
  <2>2. \A q \in Panels : ~Waits(q)
    BY <2>1, DailyAssumption DEF EntriesInv, FollowInv
  <2>3. CASE sweeper = "off"
    <3>1. /\ handler'[p] = Idle /\ \A q \in Panels \ {p} : handler'[q] = handler[q]
          /\ sweeper' = IF SweepWanted(conf) THEN "on" ELSE "off"
      BY <1>0, <1>6, <2>3, HandlerIs DEF Reconfigure, Sweeping
    <3>2. QED BY <1>0, <2>1, <2>2, <3>1 DEF FollowInv, Followed, Waits
  <2>4. CASE sweeper # "off"
    <3> DEFINE s == [pc |-> "wait", sweep |-> SweepWanted(conf)]
    <3>1. Handle(p, s) /\ mu' = p
      BY <1>6, <2>4 DEF Reconfigure
    <3>2. /\ handler'[p].pc = "wait" /\ handler'[p].sweep = SweepWanted(conf)
          /\ \A q \in Panels \ {p} : handler'[q] = handler[q]
      BY <1>0, <3>1, HandlerIs
    <3>3. QED BY <2>1, <2>2, <3>1, <3>2 DEF FollowInv, Followed, Waits
  <2>5. QED BY <2>3, <2>4
<1>7. ASSUME NEW p \in Panels, Reconfigured(p) PROVE FollowInv'
  <2>1. /\ Waits(p) /\ sweeper' = (IF handler[p].sweep THEN "on" ELSE "off")
        /\ UNCHANGED <<conf, entries, up, closing>>
        /\ handler'[p] = Idle /\ \A q \in Panels \ {p} : handler'[q] = handler[q]
    BY <1>0, <1>7, HandlerIs DEF Reconfigured, InHandler, Sweeping, host, settings, Waits
  <2>2. \A q \in Panels \ {p} : ~Waits(q)
    BY <2>1 DEF EntriesInv, FollowInv
  <2>3. \A q \in Panels : ~Waits(q)'
    BY <1>0, <2>1, <2>2 DEF Waits
  <2>4. Followed => Followed'
    <3>1. CASE \E q \in Panels : handler[q].pc \in Settler
      BY <2>1, <3>1 DEF Followed, Settler, Waits
    <3>2. CASE /\ entries = Wanted(conf)
               /\ \E q \in Panels : Waits(q) /\ handler[q].sweep = SweepWanted(conf)
      BY <2>1, <2>2, <2>3, <3>2 DEF Followed
    <3>3. QED BY <2>1, <3>1, <3>2 DEF Followed
  <2>5. QED BY <2>1, <2>3, <2>4 DEF EntriesInv, FollowInv
<1>8. ASSUME NEW p \in Panels, NEW e \in Edits, Edited(p, e) PROVE FollowInv'
  <2>1. handler[p].pc = "idle" /\ UNCHANGED <<up, mu>>
    BY <1>8 DEF Edited, PutSettings, Calls, InHandler, sched
  <2>2. \E q \in {"models", "reconf"} : Handle(p, Now(q))
    BY <1>8 DEF Edited, AfterEdit
  <2>3. /\ handler'[p].pc \in Settler /\ handler'[p].pc # "wait"
        /\ \A q \in Panels \ {p} : handler'[q] = handler[q]
    BY <1>0, <2>2, HandlerIs DEF Settler
  <2>4. QED BY <2>1, <2>3 DEF EntriesInv, FollowInv, Followed, Waits
<1>9. QED BY <1>1, <1>2, <1>3, <1>4, <1>5, <1>6, <1>7, <1>8, CalmCases DEF Changes

LEMMA EntriesFirst == Init => EntriesInv
<1> SUFFICES ASSUME Init PROVE EntriesInv
  OBVIOUS
<1>1. /\ handler = [p \in Panels |-> Idle] /\ entries = Wanted(conf)
      /\ sweeper = IF SweepWanted(conf) THEN "on" ELSE "off"
  BY DEF Init
<1>2. Idle.pc = "idle"
  BY DEF Idle
<1>3. FollowInv
  BY <1>1, <1>2 DEF FollowInv, Followed, Waits
<1>4. QED BY <1>3, ShowFirst, SettingsFirst DEF EntriesInv

\* Cron and the sweeper run what the settings ask for, whichever handlers edit,
\* reset, rebuild and wait for the old sweeper at the same time (putSettings,
\* ResetAccountState, Reconfigure).
THEOREM RunsWhatIsSet == Spec => []EntriesFollowConfig
<1>1. Init => EntriesInv
  BY EntriesFirst
<1>2. EntriesInv /\ [Next]_vars => EntriesInv'
  BY FollowHolds, ShowHolds, SettingsHold DEF EntriesInv
<1>3. ASSUME EntriesInv PROVE EntriesFollowConfig
  <2>1. IsConfig(conf)
    BY <1>3 DEF EntriesInv, SettingsInv, GoodConfig
  <2>2. InBounds("task_sweep_minutes", conf["task_sweep_minutes"])
          => (SweepWanted(conf) <=> SweepChosen(conf))
    BY <2>1, InRangeSweeps
  <2>3. SweepWanted(conf) => SweepChosen(conf)
    BY DEF SweepWanted
  <2>4. up /\ ~closing /\ ~Settling
          => entries = Wanted(conf) /\ (sweeper = "on" <=> SweepWanted(conf))
    BY <1>3 DEF EntriesInv, FollowInv, Followed, Settler, Waits, Settling
  <2>5. QED BY <2>2, <2>3, <2>4 DEF EntriesFollowConfig
<1>4. QED BY <1>1, <1>2, <1>3, PTL DEF Spec
-----------------------------------------------------------------------------
(* Types.  The tasks. *)
RoundSteps == {"find", "offers", "snapshot", "list", "take", "next", "accept", "play", "wait",
               "claim", "record"}
Rounds ==
  [pc: RoundSteps, kind: Kinds, for: Accts, list: Lists, todo: SUBSET Codes,
   code: Codes \cup {None}]

\* Only a sweep begins with its list, and only sweep and queue are recorded.
KindFits(s) == (s.pc = "list" => s.kind = "sweep")
               /\ (s.pc = "record" => s.kind \in {"sweep", "queue"})
WorkInv == TasksTypeOK /\ \A w \in Workers : work[w].pc # "idle" => KindFits(work[w])
WorkTyped == WorkInv /\ acct \in Accts \cup {None}

LEMMA RoundIs ==
  ASSUME NEW s \in WorkStates
  PROVE  /\ s.pc # "idle" => s \in Rounds
         /\ NoWork \in WorkStates /\ Rounds \subseteq WorkStates /\ NoWork.pc = "idle"
BY DEF WorkStates, Rounds, RoundSteps, NoWork

\* A goroutine of the rounds moves on.
LEMMA WorkMoves ==
  ASSUME WorkInv, NEW w \in Workers, NEW s, Turn(w, s),
         s = NoWork \/ (s \in Rounds /\ KindFits(s)),
         rmu' \in Workers \cup {None}, board' \in [Accts -> [Codes -> TaskStates]],
         UNCHANGED <<stats, late>>
  PROVE  WorkInv'
<1>1. s \in WorkStates /\ (s.pc # "idle" => KindFits(s))
  BY RoundIs DEF WorkStates, NoWork
<1>2. work' \in [Workers -> WorkStates]
  BY <1>1 DEF WorkInv, TasksTypeOK, Turn
<1>3. work'[w] = s /\ \A v \in Workers \ {w} : work'[v] = work[v]
  BY DEF WorkInv, TasksTypeOK, Turn
<1>4. \A v \in Workers : work'[v].pc # "idle" => KindFits(work'[v])
  BY <1>1, <1>3 DEF WorkInv
<1>5. QED BY <1>2, <1>4 DEF WorkInv, TasksTypeOK, KindFits

LEMMA RoundWith ==
  ASSUME NEW s \in Rounds, NEW p \in RoundSteps \ {"list"},
         p = "record" => s.kind \in {"sweep", "queue"}
  PROVE  /\ [s EXCEPT !.pc = p] \in Rounds /\ KindFits([s EXCEPT !.pc = p])
         /\ \A l \in Lists : /\ [s EXCEPT !.pc = p, !.list = l] \in Rounds
                            /\ KindFits([s EXCEPT !.pc = p, !.list = l])
         /\ \A S \in SUBSET Codes : /\ [s EXCEPT !.pc = p, !.todo = S] \in Rounds
                                    /\ KindFits([s EXCEPT !.pc = p, !.todo = S])
         /\ \A l \in Lists, S \in SUBSET Codes :
              /\ [s EXCEPT !.pc = p, !.list = l, !.todo = S] \in Rounds
              /\ KindFits([s EXCEPT !.pc = p, !.list = l, !.todo = S])
         /\ \A c \in Codes :
              /\ [s EXCEPT !.pc = p, !.todo = @ \ {c}, !.code = c] \in Rounds
              /\ KindFits([s EXCEPT !.pc = p, !.todo = @ \ {c}, !.code = c])
<1>1. [s EXCEPT !.pc = p] \in Rounds /\ KindFits([s EXCEPT !.pc = p])
  BY DEF Rounds, KindFits
<1>2. \A l \in Lists : /\ [s EXCEPT !.pc = p, !.list = l] \in Rounds
                     /\ KindFits([s EXCEPT !.pc = p, !.list = l])
  BY DEF Rounds, KindFits
<1>3. \A S \in SUBSET Codes : /\ [s EXCEPT !.pc = p, !.todo = S] \in Rounds
                             /\ KindFits([s EXCEPT !.pc = p, !.todo = S])
  BY DEF Rounds, KindFits
<1>4. \A l \in Lists, S \in SUBSET Codes :
        /\ [s EXCEPT !.pc = p, !.list = l, !.todo = S] \in Rounds
        /\ KindFits([s EXCEPT !.pc = p, !.list = l, !.todo = S])
  BY DEF Rounds, KindFits
<1>5. \A c \in Codes :
        /\ [s EXCEPT !.pc = p, !.todo = @ \ {c}, !.code = c] \in Rounds
        /\ KindFits([s EXCEPT !.pc = p, !.todo = @ \ {c}, !.code = c])
  BY DEF Rounds, KindFits
<1>6. QED BY <1>1, <1>2, <1>3, <1>4, <1>5

LEMMA BoardFacts ==
  ASSUME WorkTyped, acct # None
  PROVE  /\ acct \in Accts /\ board[acct] \in [Codes -> TaskStates]
         /\ board[acct] \in Lists /\ Part \in Lists
         /\ \A S : Accepted(board[acct], S) \in [Codes -> TaskStates]
         /\ \A c : /\ Played(board[acct], c) \in [Codes -> TaskStates]
                   /\ Claimed(board[acct], c) \in [Codes -> TaskStates]
         /\ \A b \in [Codes -> TaskStates] :
              Put(b) => board' \in [Accts -> [Codes -> TaskStates]]
<1>1. acct \in Accts /\ board[acct] \in [Codes -> TaskStates]
  BY DEF WorkTyped, WorkInv, TasksTypeOK
<1>2. PICK b : b = board[acct] /\ b \in [Codes -> TaskStates]
  BY <1>1
<1>3. b \in Lists
  <2>1. Codes \in SUBSET Codes
    OBVIOUS
  <2>2. QED BY <1>2, <2>1 DEF Lists
<1>4. Part \in Lists
  <2>1. Codes \ MPCodes \in SUBSET Codes
    OBVIOUS
  <2>2. Part \in [Codes \ MPCodes -> TaskStates]
    BY <1>1 DEF Part
  <2>3. QED BY <2>1, <2>2 DEF Lists
<1>5. \A S : Accepted(b, S) \in [Codes -> TaskStates]
  BY <1>2 DEF Accepted, TaskStates
<1>6. \A c : /\ Played(b, c) \in [Codes -> TaskStates]
             /\ Claimed(b, c) \in [Codes -> TaskStates]
  BY <1>2 DEF Played, Claimed, TaskStates
<1>7. \A x \in [Codes -> TaskStates] : Put(x) => board' \in [Accts -> [Codes -> TaskStates]]
  BY <1>1 DEF WorkTyped, WorkInv, TasksTypeOK, Put
<1>8. QED BY <1>1, <1>2, <1>3, <1>4, <1>5, <1>6, <1>7

LEMMA BeginsTyped ==
  ASSUME WorkTyped, NEW w \in Workers, NEW k \in Kinds, NEW p \in {"find", "offers", "list"},
         p = "list" => k = "sweep", NEW S \in SUBSET Codes, Begins(w, k, p, S)
  PROVE  WorkInv'
<1> DEFINE s == Round(k, p, S)
<1>1. acct \in Accts /\ rmu' = w /\ Turn(w, s) /\ UNCHANGED <<board, stats, late>>
  BY DEF Begins, Allowed, WorkTyped
<1>2. [c \in {} |-> "locked"] \in Lists
  <2>1. {} \in SUBSET Codes /\ [c \in {} |-> "locked"] \in [{} -> TaskStates]
    OBVIOUS
  <2>2. QED BY <2>1 DEF Lists
<1>3. s \in Rounds /\ s.pc = p /\ s.kind = k
  BY <1>1, <1>2 DEF Round, Rounds, RoundSteps
<1> HIDE DEF s
<1>4. KindFits(s)
  BY <1>3 DEF KindFits
<1>5. QED BY <1>1, <1>3, <1>4, WorkMoves DEF WorkTyped, WorkInv, TasksTypeOK

LEMMA StoredTyped ==
  ASSUME WorkInv, NEW s \in Results, NEW a \in Accts \cup {None}, Stored(s, a)
  PROVE  stats' \in [Results -> Accts \cup {None}] /\ late' \subseteq Results
BY DEF WorkInv, TasksTypeOK, Stored

LEMMA RoundStepTyped ==
  ASSUME WorkTyped, NEW w \in Workers, NEW n, WorkStep(w, n)
  PROVE  WorkInv'
<1> DEFINE s == work[w]
<1> USE DEF Rest, Keeps
<1>0. s \in Rounds /\ KindFits(s) /\ s.todo \subseteq Codes
  <2>1. s \in WorkStates /\ s.pc # "idle"
    BY DEF WorkTyped, WorkInv, TasksTypeOK, WorkStep, Offers, Snapshot, List, Take, Find,
           AcceptOne, NextTask, Play, Wait, Claim, Finish, Record, Doing
  <2>2. s \in Rounds
    BY <2>1, RoundIs
  <2>3. QED BY <2>1, <2>2 DEF WorkTyped, WorkInv, Rounds
<1>a. /\ rmu' = rmu => rmu' \in Workers \cup {None}
      /\ Frees(w) => rmu' \in Workers \cup {None}
      /\ board' = board => board' \in [Accts -> [Codes -> TaskStates]]
  BY DEF WorkTyped, WorkInv, TasksTypeOK, Frees
<1>b. \A p \in RoundSteps \ {"list", "record"} : To(w, p) => \E t \in Rounds : Turn(w, t) /\ KindFits(t)
  BY <1>0, RoundWith DEF To
<1>c. Answered => acct # None
  BY DEF Answered
<1>d. \A l \in Answers : l \in Lists
  BY BoardFacts DEF Answers
<1>1. CASE Offers(w)
  <2>1. board' \in [Accts -> [Codes -> TaskStates]]
    BY <1>1, <1>a, BoardFacts DEF Offers, Answers
  <2>2. To(w, "snapshot") /\ rmu' = rmu /\ UNCHANGED <<stats, late>>
    BY <1>1 DEF Offers
  <2>3. QED BY <1>a, <1>b, <2>1, <2>2, WorkMoves DEF RoundSteps, WorkTyped
<1>2. CASE Snapshot(w)
  <2>1. \E t \in Rounds : Turn(w, t) /\ KindFits(t)
    <3>1. ASSUME NEW l \in Answers, With(w, "next", l)
          PROVE  \E t \in Rounds : Turn(w, t) /\ KindFits(t)
      BY <1>0, <1>d, <3>1, RoundWith DEF With, KindFits, RoundSteps
    <3>2. QED BY <1>2, <1>b, <3>1 DEF Snapshot, RoundSteps
  <2>2. QED BY <1>2, <1>a, <2>1, WorkMoves DEF Snapshot, WorkTyped
<1>3. CASE List(w)
  <2>0. s.kind = "sweep"
    BY <1>0, <1>3 DEF List, Doing, KindFits
  <2>1. \E t \in Rounds : Turn(w, t) /\ KindFits(t)
    <3>1. ASSUME NEW l \in Answers,
                 Turn(w, [work[w] EXCEPT !.pc = "take", !.list = l, !.todo = Claimable(l)])
          PROVE  \E t \in Rounds : Turn(w, t) /\ KindFits(t)
      <4>1. Claimable(l) \subseteq Codes
        BY <1>d DEF Claimable, Lists
      <4>2. QED BY <1>0, <1>d, <3>1, <4>1, RoundWith DEF KindFits, RoundSteps
    <3>2. ASSUME To(w, "record") PROVE \E t \in Rounds : Turn(w, t) /\ KindFits(t)
      BY <1>0, <2>0, <3>2, RoundWith DEF To, KindFits, RoundSteps, Lists
    <3>3. QED BY <1>3, <3>1, <3>2 DEF List
  <2>2. rmu' \in Workers \cup {None} /\ board' \in [Accts -> [Codes -> TaskStates]]
        /\ UNCHANGED <<stats, late>>
    BY <1>3, <1>a DEF List
  <2>3. QED BY <2>1, <2>2, WorkMoves DEF WorkTyped
<1>4. CASE Take(w) \/ AcceptOne(w) \/ Play(w, n) \/ Claim(w) \/ Wait(w)
  <2>1. \E p \in {"next", "play", "wait", "claim"} : To(w, p)
    BY <1>4 DEF Take, AcceptOne, Play, Claim, Wait
  <2>2. \E t \in Rounds : Turn(w, t) /\ KindFits(t)
    BY <1>b, <2>1 DEF RoundSteps
  <2>3. board' \in [Accts -> [Codes -> TaskStates]]
    <3>1. board' = board \/ (acct # None /\ \E b \in [Codes -> TaskStates] : Put(b))
      BY <1>4, <1>c, BoardFacts DEF Take, AcceptOne, Play, Claim, Wait
    <3>2. QED BY <1>a, <3>1, BoardFacts
  <2>4. rmu' = rmu /\ UNCHANGED <<stats, late>>
    BY <1>4 DEF Take, AcceptOne, Play, Claim, Wait
  <2>5. QED BY <1>a, <2>2, <2>3, <2>4, WorkMoves DEF WorkTyped
<1>5. CASE Find(w)
  <2>1. \E t \in Rounds : Turn(w, t) /\ KindFits(t)
    <3>1. CASE Answered /\ With(w, "next", board[acct])
      <4>1. board[acct] \in Lists
        BY <1>c, <3>1, BoardFacts
      <4>2. QED BY <1>0, <3>1, <4>1, RoundWith DEF With, KindFits, RoundSteps
    <3>2. CASE Turn(w, [work[w] EXCEPT !.pc = "next", !.todo = {}])
      <4>1. {} \in SUBSET Codes
        OBVIOUS
      <4>2. QED BY <1>0, <3>2, <4>1, RoundWith DEF KindFits, RoundSteps
    <3>3. QED BY <1>5, <3>1, <3>2 DEF Find
  <2>2. QED BY <1>5, <1>a, <2>1, WorkMoves DEF Find, WorkTyped
<1>6. CASE NextTask(w)
  <2>1. PICK c \in s.todo : Turn(w, [work[w] EXCEPT !.pc = Due(w, c), !.todo = @ \ {c}, !.code = c])
    BY <1>6 DEF NextTask
  <2>2. Due(w, c) \in {"claim", "next", "accept", "play"} /\ c \in Codes \cup {None}
    BY <1>0, <2>1 DEF Due
  <2>3. \E t \in Rounds : Turn(w, t) /\ KindFits(t)
    BY <1>0, <2>1, <2>2, RoundWith DEF KindFits, RoundSteps
  <2>4. QED BY <1>6, <1>a, <2>3, WorkMoves DEF NextTask, WorkTyped
<1>7. CASE Finish(w)
  <2>1. Turn(w, NoWork) \/ \E t \in Rounds : Turn(w, t) /\ KindFits(t)
    <3>1. CASE Kind(w) \in {"sweep", "queue"} /\ To(w, "record")
      BY <1>0, <3>1, RoundWith DEF To, Kind, KindFits, RoundSteps, Lists
    <3>2. QED BY <1>7, <3>1 DEF Finish
  <2>2. rmu' \in Workers \cup {None} /\ board' \in [Accts -> [Codes -> TaskStates]]
        /\ UNCHANGED <<stats, late>>
    BY <1>7, <1>a DEF Finish, GivesBack
  <2>3. QED BY <2>1, <2>2, WorkMoves DEF WorkTyped
<1>8. CASE Record(w)
  <2>1. Turn(w, NoWork) /\ Stored(s.kind, s.for) /\ UNCHANGED <<rmu, board>>
    BY <1>8 DEF Record, Kind
  <2>2. s.kind \in Results /\ s.for \in Accts
    BY <1>0, <1>8 DEF Record, Doing, KindFits, Results, Rounds
  <2>3. stats' \in [Results -> Accts \cup {None}] /\ late' \subseteq Results
    BY <2>1, <2>2, StoredTyped DEF WorkTyped
  <2>4. work' \in [Workers -> WorkStates] /\ work'[w].pc = "idle"
        /\ \A v \in Workers \ {w} : work'[v] = work[v]
    BY <2>1, RoundIs DEF Turn, WorkTyped, WorkInv, TasksTypeOK, WorkStates
  <2>5. QED BY <2>1, <2>3, <2>4 DEF WorkTyped, WorkInv, TasksTypeOK, KindFits
<1>9. QED BY <1>1, <1>2, <1>3, <1>4, <1>5, <1>6, <1>7, <1>8 DEF WorkStep
-----------------------------------------------------------------------------
(* The bounds: every step keeps them or uses one up. *)
LEMMA Spending ==
  ASSUME budget \in [Events -> Nat], NEW e \in Events, Spend(e)
  PROVE  budget' \in [Events -> Nat]
BY DEF Spend

Paid == UNCHANGED budget \/ \E e \in Events : Spend(e)

LEMMA StepPaid == ASSUME NEW r, Step(r) PROVE Paid
<1>1. Answered => UNCHANGED budget
  BY DEF Answered
<1>2. Local => UNCHANGED budget
  BY DEF Local
<1>3. Failed => Paid
  BY DEF Failed, Paid, Events
<1>4. Answered \/ Local \/ Failed
  BY DEF Step, Report, ReportFails, StreakCheck, Adopt, Gift, Compensation, Info, Makeup, Reread,
         Redeem, Chances, Draw, Travel, Depart, End, RedeemTier
<1>5. QED BY <1>1, <1>2, <1>3, <1>4 DEF Paid

LEMMA WorkPaid == ASSUME NEW w, NEW n, WorkStep(w, n) PROVE Paid
<1>1. Answered => UNCHANGED budget
  BY DEF Answered
<1>2. Local => UNCHANGED budget
  BY DEF Local
<1>3. Failed => Paid
  BY DEF Failed, Paid, Events
<1>4. \A l : Merged(l) => Paid
  BY <1>1 DEF Merged, Paid, Events
<1>5. Answered \/ Local \/ Failed \/ \E l : Merged(l)
  BY DEF WorkStep, Offers, Snapshot, List, Take, Find, AcceptOne, NextTask, Play, Wait, Claim,
         Finish, Record
<1>6. QED BY <1>1, <1>2, <1>3, <1>4, <1>5 DEF Paid

LEMMA AllPaid == Next => Paid
<1> SUFFICES ASSUME Next PROVE Paid
  OBVIOUS
<1>0. /\ UNCHANGED host => UNCHANGED budget
      /\ \A e \in Events : Spend(e) => Paid
      /\ UNCHANGED budget => Paid
  BY DEF host, Paid
<1>1. Answered \/ Failed => Paid
  BY DEF Answered, Failed, Paid, Events
<1>2. CASE MinutePasses \/ Midnight \/ TickPoolProbe \/ Crash \/ Stop \/ Exit \/ BootFails
  BY <1>0, <1>2 DEF MinutePasses, Midnight, TickPoolProbe, Crash, Stop, Exit, BootFails, Events
<1>3. CASE RefreshModels \/ Boot \/ SweepTick \/ SweepEnds
  BY <1>0, <1>3 DEF RefreshModels, Boot, SweepTick, SweepEnds
<1>4. ASSUME NEW t \in Ticks, TickCheckin(t) \/ TickStep(t) PROVE Paid
  BY <1>0, <1>1, <1>4 DEF TickCheckin, TickStep, Decide, CheckinStatus, ClaimCheckin, Secure,
                         RetryLater
<1>5. ASSUME NEW r, TickGrowthChain(r) \/ TickTravel(r) \/ RunStep(r) \/ GrowthCatchupFire(r)
                    \/ GrowthButton(r)
      PROVE  Paid
  BY <1>0, <1>5, StepPaid DEF TickGrowthChain, TickTravel, RunStep, GrowthCatchupFire,
                              GrowthButton, Events
<1>6. ASSUME NEW w, TickTaskQueue(w) \/ TickBlackcat(w) \/ TaskButton(w) \/ RoundStep(w)
      PROVE  Paid
  BY <1>0, <1>6, WorkPaid DEF TickTaskQueue, TickBlackcat, TaskButton, RoundStep, Events
<1>7. CASE HandButton \/ ClickButton
  BY <1>0, <1>7 DEF HandButton, ClickButton, GrowthLottery, GrowthMakeup, GrowthBonus, ByHand,
                    Events
<1>8. ASSUME NEW a \in Accts, Arrival(a) \/ \E c \in Codes : Scoring(a, c) PROVE Paid
  BY <1>0, <1>8 DEF Arrival, Scoring, Meanwhile
<1>9. ASSUME NEW p \in Panels,
             \/ HandlerStep(p) \/ Look(p) \/ PutPassword(p)
             \/ (\E e \in Edits : PutSettings(p, e)) \/ \E a \in Accts \cup {None} : Save(p, a)
      PROVE  Paid
  BY <1>0, <1>9 DEF HandlerStep, RefreshStarts, Refresh, InvalidateAccountCaches, ResetCheckin,
                    ResetAccountState, Reconfigure, Reconfigured, Show, Look, PutPassword,
                    PutSettings, Save, Events
<1>10. QED BY <1>2, <1>3, <1>4, <1>5, <1>6, <1>7, <1>8, <1>9 DEF Next
-----------------------------------------------------------------------------
(* The rounds of the task centre. *)
LEMMA WorkSame ==
  ASSUME WorkInv, UNCHANGED <<rmu, board, work>>,
         stats' \in [Results -> Accts \cup {None}], late' \subseteq Results
  PROVE  WorkInv'
BY DEF WorkInv, TasksTypeOK, KindFits

LEMMA BoardSame ==
  ASSUME WorkInv, UNCHANGED <<rmu, work, stats, late>>,
         board' \in [Accts -> [Codes -> TaskStates]]
  PROVE  WorkInv'
BY DEF WorkInv, TasksTypeOK, KindFits

\* The panel, upstream and the clock.
LEMMA TasksAside ==
  ASSUME WorkTyped,
         \/ UNCHANGED tasks \/ InvalidateOverview \/ SweepBusy \/ TasksAccept
         \/ (\E c \in Codes : TasksClaim(c)) \/ (\E a \in Accts, c \in Codes : Score(a, c))
         \/ TasksDawn \/ TasksCrash
  PROVE  WorkInv'
<1>0. /\ stats \in [Results -> Accts \cup {None}] /\ late \subseteq Results
      /\ board \in [Accts -> [Codes -> TaskStates]]
      /\ "overview" \in Results /\ "sweep" \in Results
  BY DEF WorkTyped, WorkInv, TasksTypeOK, Results
<1>1. CASE UNCHANGED tasks
  BY <1>0, <1>1, WorkSame DEF tasks, WorkTyped
<1>2. CASE InvalidateOverview
  BY <1>0, <1>2, WorkSame DEF InvalidateOverview, WorkTyped
<1>3. CASE SweepBusy
  BY <1>0, <1>3, WorkSame DEF SweepBusy, Stored, WorkTyped
<1>4. CASE TasksAccept
  BY <1>4, BoardFacts, BoardSame DEF TasksAccept, Gate, Allowed, WorkTyped
<1>5. ASSUME NEW c \in Codes, TasksClaim(c) PROVE WorkInv'
  BY <1>5, BoardFacts, BoardSame DEF TasksClaim, Gate, Allowed, WorkTyped
<1>6. ASSUME NEW a \in Accts, NEW c \in Codes, Score(a, c) PROVE WorkInv'
  <2>1. board' \in [Accts -> [Codes -> TaskStates]]
    <3>1. [board[a] EXCEPT ![c] = "done"] \in [Codes -> TaskStates]
      BY <1>0 DEF TaskStates
    <3>2. board' = [board EXCEPT ![a] = [board[a] EXCEPT ![c] = "done"]]
      BY <1>6 DEF Score
    <3>3. QED BY <1>0, <3>1, <3>2
  <2>2. QED BY <1>6, <2>1, BoardSame DEF Score, WorkTyped
<1>7. CASE TasksDawn
  <2>1. board' \in [Accts -> [Codes -> TaskStates]]
    BY <1>0, <1>7 DEF TasksDawn, TaskStates
  <2>2. QED BY <1>7, <2>1, BoardSame DEF TasksDawn, WorkTyped
<1>8. CASE TasksCrash
  BY <1>8, RoundIs DEF TasksCrash, WorkTyped, WorkInv, TasksTypeOK, WorkStates, NoWork
<1>9. QED BY <1>1, <1>2, <1>3, <1>4, <1>5, <1>6, <1>7, <1>8

LEMMA StartsTyped ==
  ASSUME WorkTyped, NEW w \in Workers,
         \/ AutoAllContext(w) \/ RunTaskQueueOnce(w) \/ RunTaskSweep(w)
         \/ \E c \in Codes : AutoContext(w, c)
  PROVE  WorkInv'
<1>0. AutoCodes \subseteq Codes /\ {} \subseteq Codes
  BY TasksAssumption
<1>1. \E k \in Kinds, p \in {"find", "offers", "list"}, S \in SUBSET Codes :
        (p = "list" => k = "sweep") /\ Begins(w, k, p, S)
  <2>1. CASE AutoAllContext(w)
    BY <1>0, <2>1 DEF AutoAllContext, Kinds
  <2>2. CASE RunTaskQueueOnce(w)
    BY <1>0, <2>2 DEF RunTaskQueueOnce, Kinds
  <2>3. CASE RunTaskSweep(w)
    BY <1>0, <2>3 DEF RunTaskSweep, Kinds
  <2>4. ASSUME NEW c \in Codes, AutoContext(w, c)
        PROVE  \E k \in Kinds, p \in {"find", "offers", "list"}, S \in SUBSET Codes :
                 (p = "list" => k = "sweep") /\ Begins(w, k, p, S)
    <3>1. {c} \in SUBSET Codes /\ Begins(w, "auto", "find", {c})
      BY <2>4 DEF AutoContext
    <3>2. QED BY <3>1 DEF Kinds
  <2>5. QED BY <2>1, <2>2, <2>3, <2>4
<1>2. QED BY <1>1, BeginsTyped

LEMMA WorkHolds ==
  ASSUME WorkTyped, \A p \in Panels : handler[p].pc = "show" => handler[p].for \in Accts, Next
  PROVE  WorkInv'
<1> USE DEF Quiet, CheckinStep, Machinery, Meanwhile
<1>0. UNCHANGED tasks => WorkInv'
  BY TasksAside
<1>1. CASE TickPoolProbe \/ SweepEnds \/ RefreshModels \/ Stop \/ Boot \/ BootFails \/ MinutePasses
  BY <1>0, <1>1 DEF TickPoolProbe, SweepEnds, RefreshModels, Stop, Boot, BootFails, MinutePasses
<1>2. CASE Midnight \/ Crash \/ Exit
  BY <1>2, TasksAside DEF Midnight, Crash, Exit, Gone
<1>3. ASSUME NEW t \in Ticks, TickCheckin(t) \/ TickStep(t) PROVE WorkInv'
  BY <1>0, <1>3 DEF TickCheckin, TickStep, Decide, CheckinStatus, ClaimCheckin, Secure, RetryLater
<1>4. ASSUME NEW r, TickGrowthChain(r) \/ TickTravel(r) \/ RunStep(r) \/ GrowthCatchupFire(r)
                    \/ GrowthButton(r)
      PROVE  WorkInv'
  BY <1>0, <1>4, TasksAside DEF TickGrowthChain, TickTravel, RunStep, GrowthCatchupFire,
                                GrowthButton
<1>5. ASSUME NEW w \in Workers, TickTaskQueue(w) PROVE WorkInv'
  BY <1>0, <1>5, StartsTyped DEF TickTaskQueue, Refused, NothingToDo
<1>6. ASSUME NEW w \in Workers, TickBlackcat(w) \/ TaskButton(w) PROVE WorkInv'
  BY <1>0, <1>6, StartsTyped, TasksAssumption DEF TickBlackcat, TaskButton, Refused
<1>7. ASSUME NEW w \in Workers, RoundStep(w) PROVE WorkInv'
  BY <1>7, RoundStepTyped DEF RoundStep
<1>8. CASE SweepTick \/ HandButton \/ ClickButton
  BY <1>8, TasksAside, StartsTyped, DailyAssumption DEF SweepTick, HandButton, ClickButton
<1>9. ASSUME NEW a \in Accts, Arrival(a) \/ \E c \in Codes : Scoring(a, c) PROVE WorkInv'
  BY <1>0, <1>9, TasksAside DEF Arrival, Scoring
<1>10. ASSUME NEW p \in Panels,
              \/ RefreshStarts(p) \/ Refresh(p) \/ InvalidateAccountCaches(p) \/ ResetCheckin(p)
              \/ Reconfigure(p) \/ Reconfigured(p) \/ Look(p) \/ PutPassword(p)
              \/ (\E e \in Edits : PutSettings(p, e)) \/ \E a \in Accts \cup {None} : Save(p, a)
       PROVE  WorkInv'
  BY <1>0, <1>10, TasksAside DEF RefreshStarts, Refresh, InvalidateAccountCaches, ResetCheckin,
     Reconfigure, Reconfigured, Look, PutPassword, PutSettings, Save
<1>11. ASSUME NEW p \in Panels, ResetAccountState(p) PROVE WorkInv'
  <2>1. UNCHANGED <<rmu, board, work>> /\ ResetStats
    BY <1>11 DEF ResetAccountState
  <2>2. QED BY <2>1, WorkSame DEF ResetStats, WorkTyped, WorkInv, TasksTypeOK
<1>12. ASSUME NEW p \in Panels, Show(p) PROVE WorkInv'
  <2>1. /\ handler[p].for \in Accts /\ UNCHANGED <<rmu, board, work>>
        /\ Stored("overview", handler[p].for)
    BY <1>12 DEF Show, InHandler
  <2>2. "overview" \in Results
    BY DEF Results
  <2>3. QED BY <2>1, <2>2, StoredTyped, WorkSame DEF WorkTyped
<1>13. QED BY <1>1, <1>2, <1>3, <1>4, <1>5, <1>6, <1>7, <1>8, <1>9, <1>10, <1>11, <1>12
          DEF Next, HandlerStep
-----------------------------------------------------------------------------
(* The panel: regions and handlers. *)
LEMMA NormalizedRegion ==
  ASSUME NEW c
  PROVE  Normalize(c)["region"] \in {"cn", "global"}
<1>1. "region" \in Fields /\ "region" \in Plain
  BY Classes DEF Plain
<1>2. /\ "region" \notin Numbers /\ "region" \notin Window
      /\ "region" \notin Crons \cup {"listen"}
  BY <1>1, Classes
<1>3. QED BY <1>1, <1>2, Zenon DEF Normalize

LEMMA LoadedRegion ==
  ASSUME NEW t, t = Missing \/ IsConfig(t), NEW e
  PROVE  Loaded(t, e)["region"] \in {"cn", "global"} \cup {e[f] : f \in DOMAIN e \cap {"region"}}
<1>1. PICK c : c = IF t = Missing THEN Defaults ELSE t
  OBVIOUS
<1>2. "region" \in Fields /\ "region" # "password" /\ IsConfig(c)
  BY <1>1, Classes, DefaultsGood DEF Plain
<1>3. CASE "region" \in DOMAIN e
  <2> DEFINE u == Under(Normalize(c), e)
             m == Limit(u)
  <2>1. u["region"] = e["region"]
    BY <1>2, <1>3 DEF Under
  <2>2. m["region"] = u["region"]
    BY <1>2 DEF Limit, Limited
  <2>3. FirstPassword(m)["region"] = m["region"]
    BY <1>2 DEF FirstPassword, Limit
  <2>4. Loaded(t, e) = FirstPassword(m)
    BY <1>1 DEF Loaded
  <2> HIDE DEF m, u
  <2>5. Loaded(t, e)["region"] = e["region"]
    BY <2>1, <2>2, <2>3, <2>4
  <2>6. QED BY <1>3, <2>5
<1>4. CASE "region" \notin DOMAIN e
  <2>1. Loaded(t, e)["region"] = Normalize(c)["region"]
    BY <1>1, <1>2, <1>4, LoadedKeeps
  <2>2. QED BY <2>1, NormalizedRegion
<1>5. QED BY <1>3, <1>4

LEMMA EnvSame == Next => UNCHANGED env
<1> SUFFICES ASSUME Next PROVE env' = env
  OBVIOUS
<1>1. CASE UNCHANGED settings
  BY <1>1 DEF settings
<1>2. CASE SettingsSteps
  BY <1>2 DEF SettingsSteps, PutPassword, SetAdminPasswordHash, PasswordFails, PutSettings,
     UpdateSettings, UpdateFails, Crash, Gone, Boot, LoadSettings, BootFails, LoadFails
<1>3. QED BY <1>1, <1>2, SettingsStay

RegionInv == conf["region"] \in KnownRegions

LEMMA RegionHolds == SettingsInv /\ RegionInv /\ Next => RegionInv' /\ KnownRegions' = KnownRegions
<1> SUFFICES ASSUME SettingsInv, RegionInv, Next
             PROVE  RegionInv' /\ KnownRegions' = KnownRegions
  OBVIOUS
<1>0. KnownRegions' = KnownRegions /\ {"cn", "global"} \subseteq KnownRegions
  BY EnvSame DEF KnownRegions
<1>1. CASE UNCHANGED conf
  BY <1>0, <1>1 DEF RegionInv
<1>2. CASE SetAdminPasswordHash("changed")
  BY <1>0, <1>2, Classes DEF SetAdminPasswordHash, RegionInv, SettingsInv, GoodConfig,
     IsConfig, Plain
<1>3. ASSUME NEW e \in Edits, UpdateSettings(e) PROVE RegionInv'
  BY <1>0, <1>3, NormalizedRegion DEF UpdateSettings, RegionInv
<1>4. CASE LoadSettings(env)
  <2>1. conf' = Loaded(file, env) /\ IsConfig(file)
    BY <1>4 DEF LoadSettings, SettingsInv
  <2>2. QED BY <1>0, <2>1, LoadedRegion DEF RegionInv, KnownRegions
<1>5. \/ UNCHANGED conf \/ SetAdminPasswordHash("changed") \/ LoadSettings(env)
      \/ \E e \in Edits : UpdateSettings(e)
  <2>1. CASE UNCHANGED settings
    BY <2>1 DEF settings
  <2>2. CASE SettingsSteps
    BY <2>2 DEF SettingsSteps, PutPassword, PasswordFails, PutSettings, UpdateFails, RollBack,
       Crash, Gone, Boot, BootFails, LoadFails
  <2>3. QED BY <2>1, <2>2, SettingsStay
<1>6. QED BY <1>0, <1>1, <1>2, <1>3, <1>4, <1>5

PanelInv ==
  /\ handler \in [Panels -> HandlerStates]
  /\ menu \in KnownRegions /\ hourly \in KnownRegions \cup {None}

LEMMA HandlersIn ==
  /\ Idle \in HandlerStates
  /\ \A q \in {"models", "reconf", "caches", "ck", "growth"} : Now(q) \in HandlerStates
  /\ \A b \in BOOLEAN : [pc |-> "wait", sweep |-> b] \in HandlerStates
  /\ \A r \in KnownRegions : [pc |-> "menu", region |-> r] \in HandlerStates
  /\ \A a \in Accts : [pc |-> "show", for |-> a] \in HandlerStates
BY DEF HandlerStates, Now

LEMMA PanelFields ==
  ASSUME PanelInv, NEW p \in Panels
  PROVE  /\ handler[p].pc = "show" => handler[p].for \in Accts
         /\ handler[p].pc = "menu" => handler[p].region \in KnownRegions
         /\ handler[p].pc = "wait" => handler[p].sweep \in BOOLEAN
<1>1. PICK s : s = handler[p] /\ s \in HandlerStates
  BY DEF PanelInv
<1>2. s.pc = "show" => s.for \in Accts
  BY <1>1 DEF HandlerStates, Idle
<1>3. s.pc = "menu" => s.region \in KnownRegions
  BY <1>1 DEF HandlerStates, Idle
<1>4. s.pc = "wait" => s.sweep \in BOOLEAN
  BY <1>1 DEF HandlerStates, Idle
<1>5. QED BY <1>1, <1>2, <1>3, <1>4

LEMMA PanelMoves ==
  ASSUME PanelInv, KnownRegions' = KnownRegions, NEW p \in Panels, NEW s \in HandlerStates,
         Handle(p, s), menu' \in KnownRegions, hourly' \in KnownRegions \cup {None}
  PROVE  PanelInv'
<1>1. HandlerStates' = HandlerStates
  BY DEF HandlerStates
<1>2. QED BY <1>1 DEF PanelInv, Handle

LEMMA PanelHolds ==
  ASSUME PanelInv, SettingsInv, RegionInv, acct \in Accts \cup {None}, Next
  PROVE  PanelInv'
<1> USE DEF Quiet, CheckinStep, Machinery, Meanwhile
<1>0. /\ KnownRegions' = KnownRegions /\ RegionInv' /\ HandlerStates' = HandlerStates
      /\ menu \in KnownRegions /\ hourly \in KnownRegions \cup {None}
       /\ conf["region"] \in KnownRegions
  BY RegionHolds DEF PanelInv, HandlerStates, RegionInv
<1>a. UNCHANGED <<handler, menu, hourly>> => PanelInv'
  BY <1>0 DEF PanelInv
<1>b. UNCHANGED models <=> UNCHANGED <<menu, hourly>>
  BY DEF models
<1>1. CASE TickPoolProbe \/ SweepTick \/ SweepEnds \/ Stop \/ BootFails \/ MinutePasses \/ Midnight
  BY <1>a, <1>b, <1>1 DEF TickPoolProbe, SweepTick, SweepEnds, Stop, BootFails, MinutePasses,
     Midnight
<1>2. CASE Crash \/ Exit
  <2>1. handler' = [p \in Panels |-> Idle] /\ menu' = menu /\ hourly' = None
    BY <1>2 DEF Crash, Exit, Gone
  <2>2. QED BY <1>0, <2>1, HandlersIn DEF PanelInv
<1>3. ASSUME NEW t \in Ticks, TickCheckin(t) \/ TickStep(t) PROVE PanelInv'
  BY <1>a, <1>b, <1>3 DEF TickCheckin, TickStep, Decide, CheckinStatus, ClaimCheckin, Secure,
     RetryLater
<1>4. ASSUME NEW r, TickGrowthChain(r) \/ TickTravel(r) \/ RunStep(r) \/ GrowthCatchupFire(r)
                    \/ GrowthButton(r)
      PROVE  PanelInv'
  BY <1>a, <1>b, <1>4 DEF TickGrowthChain, TickTravel, RunStep, GrowthCatchupFire,
     GrowthButton, Pressed
<1>5. ASSUME NEW w \in Workers, TickTaskQueue(w) \/ TickBlackcat(w) \/ TaskButton(w) \/ RoundStep(w)
      PROVE  PanelInv'
  BY <1>a, <1>b, <1>5 DEF TickTaskQueue, TickBlackcat, TaskButton, RoundStep, Pressed
<1>6. CASE HandButton \/ ClickButton
  BY <1>a, <1>b, <1>6 DEF HandButton, ClickButton, Pressed
<1>7. ASSUME NEW a \in Accts, Arrival(a) \/ \E c \in Codes : Scoring(a, c) PROVE PanelInv'
  BY <1>a, <1>b, <1>7 DEF Arrival, Scoring
<1>8. CASE Boot
  BY <1>0, <1>8 DEF Boot, PanelInv, RegionInv
<1>9. CASE RefreshModels
  BY <1>0, <1>9 DEF RefreshModels, RegionProvider, PanelInv
<1>10. ASSUME NEW p \in Panels, PutPassword(p) \/ \E e \in Edits : PutSettings(p, e) PROVE PanelInv'
  <2>1. UNCHANGED handler \/ \E q \in {"models", "reconf"} : Handle(p, Now(q))
    BY <1>10 DEF PutPassword, PutSettings, AfterEdit
  <2>2. UNCHANGED <<menu, hourly>>
    BY <1>10, <1>b DEF PutPassword, PutSettings
  <2>3. QED BY <1>0, <1>a, <2>1, <2>2, HandlersIn, PanelMoves
<1>11. ASSUME NEW p \in Panels,
              \/ InvalidateAccountCaches(p) \/ ResetCheckin(p) \/ ResetAccountState(p) \/ Show(p)
              \/ \E a \in Accts \cup {None} : Save(p, a)
       PROVE  PanelInv'
  <2>1. Handle(p, Idle) \/ \E q \in {"reconf", "caches", "ck", "growth"} : Handle(p, Now(q))
    BY <1>11 DEF InvalidateAccountCaches, ResetCheckin, ResetAccountState, Show, Save
  <2>2. UNCHANGED <<menu, hourly>>
    BY <1>11, <1>b DEF InvalidateAccountCaches, ResetCheckin, ResetAccountState, Show, Save
  <2>3. QED BY <1>0, <2>1, <2>2, HandlersIn, PanelMoves
<1>12. ASSUME NEW p \in Panels, RefreshStarts(p) \/ Refresh(p) PROVE PanelInv'
  <2>1. Handle(p, [pc |-> "menu", region |-> conf["region"]]) \/ Handle(p, Now("reconf"))
    BY <1>12 DEF RefreshStarts, Refresh, RegionProvider
  <2>2. menu' \in KnownRegions /\ hourly' = hourly
    BY <1>0, <1>b, <1>12, PanelFields DEF RefreshStarts, Refresh, InHandler
  <2>3. QED BY <1>0, <2>1, <2>2, HandlersIn, PanelMoves
<1>13. ASSUME NEW p \in Panels, Reconfigure(p) \/ Reconfigured(p) \/ Look(p) PROVE PanelInv'
  <2>1. SweepWanted(conf) \in BOOLEAN
    BY ConfigIs DEF SweepWanted, SweepChosen, SettingsInv, GoodConfig, Switches
  <2>2. \/ Handle(p, Idle) \/ (\E b \in BOOLEAN : Handle(p, [pc |-> "wait", sweep |-> b]))
        \/ \E a \in Accts : Handle(p, [pc |-> "show", for |-> a])
    BY <1>13, <2>1 DEF Reconfigure, Reconfigured, Look, Allowed
  <2>3. UNCHANGED <<menu, hourly>>
    BY <1>13, <1>b DEF Reconfigure, Reconfigured, Look
  <2>4. QED BY <1>0, <2>2, <2>3, HandlersIn, PanelMoves
<1>14. QED BY <1>1, <1>2, <1>3, <1>4, <1>5, <1>6, <1>7, <1>8, <1>9, <1>10, <1>11, <1>12, <1>13
          DEF Next, HandlerStep
-----------------------------------------------------------------------------
(* The clock, the scheduler's entries and the check-in. *)
\* Numbers have a least one: what makes Before, the minute at which a timer of
\* the day is due, more than a choice from nothing.
LEMMA Earliest ==
  ASSUME NEW T \in SUBSET Nat, T # {}
  PROVE  \E x \in T : \A y \in T : x <= y
<1> DEFINE R == OpToRel(<, Nat)
<1>1. IsWellFoundedOn(R, Nat)
  BY NatLessThanWellFounded
<1>2. \A x, y \in Nat : y < x => <<y, x>> \in R
  BY DEF OpToRel
<1> HIDE DEF R
<1>3. PICK x \in T : \A y \in T : <<y, x>> \notin R
  BY <1>1, WFMin
<1>4. \A y \in T : ~ (y < x)
  BY <1>2, <1>3
<1>5. QED BY <1>4

\* The minutes of a day, and the first one of some.
Minutes == 0..1439
LEMMA MinuteIs == \A n \in Minutes : n \in Nat /\ n < 1440 /\ n # Never
  BY DEF Minutes, Never

LEMMA First ==
  ASSUME NEW S, \A n \in S : n \in Minutes
  PROVE  /\ S = {} => Before(S) = Never
         /\ S # {} => Before(S) \in S
         /\ \A n \in S : Before(S) <= n
<1>1. \E m \in S \cup {Never} : \A n \in S : m <= n
  <2>1. CASE S = {}
    BY <2>1
  <2>2. CASE S # {}
    <3>1. S \in SUBSET Nat
      BY MinuteIs
    <3>2. \E x \in S : \A y \in S : x <= y
      BY <2>2, <3>1, Earliest
    <3>3. QED BY <3>2
  <2>3. QED BY <2>1, <2>2
<1>2. PICK b : b = Before(S) /\ b \in S \cup {Never} /\ \A n \in S : b <= n
  BY <1>1 DEF Before
<1>3. ASSUME NEW n \in S PROVE b # Never
  <2>1. n \in Nat /\ n < 1440 /\ b <= n
    BY <1>2, MinuteIs
  <2>2. QED BY <2>1 DEF Never
<1>4. QED BY <1>2, <1>3

LEMMA FirstInstant ==
  /\ (\A n \in Instants : n \in Minutes) /\ Before(Instants) \in Instants
  /\ \A m : NextInstant(m) \in Instants \cup {Never} /\ From(m) \in Instants \cup {Never}
  /\ \A c \in DOMAIN CronAt : CronAt[c] \subseteq Instants
<1>1. /\ Instants \subseteq Minutes /\ Instants # {}
      /\ \A c \in DOMAIN CronAt : CronAt[c] \subseteq Instants
  BY DailyAssumption DEF Minutes
<1>2. ASSUME NEW S \in SUBSET Instants PROVE Before(S) \in Instants \cup {Never}
  <2>1. \A n \in S : n \in Minutes
    BY <1>1
  <2>2. Before(S) \in S \cup {Never}
    BY <2>1, First
  <2>3. QED BY <2>2
<1>3. \A m : /\ {n \in Instants : n > m} \in SUBSET Instants
            /\ {n \in Instants : n >= m} \in SUBSET Instants
  OBVIOUS
<1>4. Before(Instants) \in Instants
  <2>1. Instants # {} /\ \A n \in Instants : n \in Minutes
    BY <1>1
  <2>2. QED BY <2>1, First
<1>5. QED BY <1>1, <1>2, <1>3, <1>4 DEF NextInstant, From

LEMMA InstantIs == \A n \in Instants : n \in Nat /\ n < 1440
  BY FirstInstant, MinuteIs

LEMMA MainInstant ==
  ASSUME target.at \in Instants \cup {Never}, NEW d, NEW c, NEW m \in MainAts(d, c)
  PROVE  m \in Instants \cup {Never}
<1>1. \A k : FixedMainAt(k) \in Instants \cup {Never}
  <2>1. ASSUME NEW k \in DOMAIN CronAt PROVE Before(CronAt[k] \ {0}) \in Instants \cup {Never}
    <3>1. CronAt[k] \subseteq Instants
      BY FirstInstant
    <3>2. ASSUME NEW x \in CronAt[k] \ {0} PROVE x \in Minutes
      <4>1. x \in Instants
        BY <3>1
      <4>2. \A n \in Instants : n \in Minutes
        BY FirstInstant
      <4>3. QED BY <4>1, <4>2
    <3>3. Before(CronAt[k] \ {0}) \in (CronAt[k] \ {0}) \cup {Never}
      BY <3>2, First
    <3>4. QED BY <3>1, <3>3
  <2>2. QED BY <2>1 DEF FixedMainAt
<1>2. \A x \in Choices(c) : x \in Instants \cup {Never}
  BY FirstInstant DEF Choices
<1>3. QED BY <1>1, <1>2 DEF MainAts

ClockInv ==
  /\ minute \in Instants /\ ring \subseteq Jobs /\ mu \in Panels \cup {None}
  /\ entries \subseteq Jobs \X DOMAIN CronAt /\ sweeper \in {"off", "on", "cancelled"}

LEMMA WantedTyped == ASSUME NEW c PROVE Wanted(c) \subseteq Jobs \X DOMAIN CronAt
<1> SUFFICES ASSUME NEW e \in Wanted(c) PROVE e \in Jobs \X DOMAIN CronAt
  OBVIOUS
<1>1. /\ e \in {<<"probe", c["pool_probe_cron"]>>, <<"checkin", "minutely">>,
                <<"report", c["growth_report_cron"]>>, <<"travel", c["growth_travel_cron"]>>,
                <<"queue", c["growth_queue_cron"]>>, <<"blackcat", c["blackcat_cron"]>>}
      /\ e[2] \in DOMAIN CronAt
  BY DEF Wanted
<1>2. QED BY <1>1 DEF Jobs

LEMMA DueTyped == ASSUME ClockInv, NEW m PROVE DueAt(m) \subseteq Jobs
BY DEF ClockInv, DueAt

LEMMA ClockHolds == ClockInv /\ Next => ClockInv'
<1> SUFFICES ASSUME ClockInv, Next PROVE ClockInv'
  OBVIOUS
<1> USE DEF Quiet, CheckinStep, Machinery, Meanwhile
<1>0. UNCHANGED <<clock, mu, entries, sweeper>> => ClockInv'
  BY DEF clock, ClockInv
<1>a. UNCHANGED sched => UNCHANGED <<mu, entries, sweeper>>
  BY DEF sched
<1>b. UNCHANGED clock => UNCHANGED <<minute, ring>>
  BY DEF clock
<1>1. CASE MinutePasses \/ Midnight
  <2>1. minute' \in Instants
    BY <1>1, FirstInstant DEF MinutePasses, Midnight
  <2>2. ring' \subseteq Jobs
    BY <1>1, DueTyped DEF MinutePasses, Midnight
  <2>3. UNCHANGED <<mu, entries, sweeper>>
    BY <1>1, <1>a DEF MinutePasses, Midnight
  <2>4. QED BY <2>1, <2>2, <2>3 DEF ClockInv
<1>2. CASE \/ TickPoolProbe \/ \E t \in Ticks : TickCheckin(t)
           \/ \E r \in CronRuns : TickGrowthChain(r) \/ TickTravel(r)
           \/ \E w \in Workers : TickTaskQueue(w) \/ TickBlackcat(w)
  <2>1. UNCHANGED <<minute, mu, entries, sweeper>>
    BY <1>2, <1>a DEF TickPoolProbe, TickCheckin, TickGrowthChain, TickTravel, TickTaskQueue,
       TickBlackcat,
                Rings
  <2>2. \E j : ring' = ring \ {j}
    BY <1>2 DEF TickPoolProbe, TickCheckin, TickGrowthChain, TickTravel, TickTaskQueue,
       TickBlackcat,
                Rings
  <2>3. QED BY <2>1, <2>2 DEF ClockInv
<1>3. CASE \/ HandButton \/ ClickButton \/ SweepTick \/ RefreshModels \/ BootFails
           \/ \E t \in Ticks : TickStep(t)
           \/ \E r \in Runs : RunStep(r) \/ GrowthCatchupFire(r) \/ GrowthButton(r)
           \/ \E w \in Workers : TaskButton(w) \/ RoundStep(w)
           \/ \E a \in Accts : Arrival(a) \/ \E c \in Codes : Scoring(a, c)
  BY <1>0, <1>a, <1>3 DEF HandButton, ClickButton, SweepTick, RefreshModels, BootFails,
     TickStep, Decide,
     CheckinStatus, ClaimCheckin, Secure, RetryLater, RunStep, GrowthCatchupFire, GrowthButton,
     TaskButton, RoundStep, Arrival, Scoring, Pressed
<1>4. CASE SweepEnds \/ Stop \/ Crash \/ Exit
  BY <1>b, <1>4 DEF SweepEnds, Stop, Crash, Exit, Gone, ClockInv
<1>5. CASE Boot
  <2>1. entries' \subseteq Jobs \X DOMAIN CronAt
    BY <1>5, WantedTyped DEF Boot, Assemble
  <2>2. sweeper' \in {"off", "on"} /\ UNCHANGED <<minute, ring, mu>>
    BY <1>b, <1>5 DEF Boot, Sweeping
  <2>3. QED BY <2>1, <2>2 DEF ClockInv
<1>6. ASSUME NEW p \in Panels, Reconfigure(p) \/ Reconfigured(p) PROVE ClockInv'
  <2>1. entries' \subseteq Jobs \X DOMAIN CronAt
    BY <1>6, WantedTyped DEF Reconfigure, Reconfigured, Assemble, ClockInv
  <2>2. /\ sweeper' \in {"off", "on", "cancelled"} /\ mu' \in Panels \cup {None}
        /\ UNCHANGED <<minute, ring>>
    BY <1>b, <1>6 DEF Reconfigure, Reconfigured, Sweeping, Cancelled
  <2>3. QED BY <2>1, <2>2 DEF ClockInv
<1>7. ASSUME NEW p \in Panels,
             \/ RefreshStarts(p) \/ Refresh(p) \/ InvalidateAccountCaches(p) \/ ResetCheckin(p)
             \/ ResetAccountState(p) \/ Show(p) \/ Look(p) \/ PutPassword(p)
             \/ (\E e \in Edits : PutSettings(p, e)) \/ \E a \in Accts \cup {None} : Save(p, a)
      PROVE  ClockInv'
  BY <1>0, <1>a, <1>7 DEF RefreshStarts, Refresh, InvalidateAccountCaches, ResetCheckin,
     ResetAccountState,
     Show, Look, PutPassword, PutSettings, Save
<1>8. QED BY <1>1, <1>2, <1>3, <1>4, <1>5, <1>6, <1>7, DailyAssumption DEF Next, HandlerStep
-----------------------------------------------------------------------------
(* The marks of the day and the attempts. *)
Marks == [day: Nat, main: Instants \cup {Never}, mainHit: BOOLEAN, retry: Int, fbHit: BOOLEAN,
          secured: BOOLEAN]
Attempt == [pc: {"status", "claim", "secure", "failed"}, at: Instants, day: Nat, again: BOOLEAN,
            for: Accts \cup {None}]
TickTyped(s) == s = Idle \/ s \in Attempt \/ Deciding(s)
TimesInv ==
  /\ ck \in Marks /\ target \in [day: Nat, at: Instants \cup {Never}] /\ tries \in Nat
  /\ DOMAIN tick = Ticks /\ \A t \in Ticks : TickTyped(tick[t])

LEMMA TickMoves ==
  ASSUME TimesInv, NEW t \in Ticks, NEW s, Tick(t, s), TickTyped(s), ck' \in Marks,
         target' \in [day: Nat, at: Instants \cup {Never}], tries' \in Nat
  PROVE  TimesInv'
<1>1. DOMAIN tick' = Ticks /\ tick'[t] = s /\ \A u \in Ticks \ {t} : tick'[u] = tick[u]
  BY DEF TimesInv, Tick
<1>2. \A u \in Ticks : TickTyped(tick'[u])
  BY <1>1 DEF TimesInv
<1>3. QED BY <1>1, <1>2 DEF TimesInv, TickTyped, Deciding, Marks, Attempt

LEMMA MarksWith ==
  /\ NoDay \in Marks
  /\ \A d \in Marks : /\ [d EXCEPT !.secured = TRUE] \in Marks
                      /\ \A n \in Int : [d EXCEPT !.retry = n] \in Marks
                      /\ \A stage : Entered(d, stage) \in Marks
  /\ \A d \in Nat, m \in Instants \cup {Never} : [NoDay EXCEPT !.day = d, !.main = m] \in Marks
<1>1. NoDay \in Marks
  BY DEF NoDay, Marks, Never
<1>2. ASSUME NEW d \in Marks
      PROVE  /\ [d EXCEPT !.secured = TRUE] \in Marks
             /\ \A n \in Int : [d EXCEPT !.retry = n] \in Marks
  BY DEF Marks
<1>3. ASSUME NEW d \in Marks, NEW stage PROVE Entered(d, stage) \in Marks
  <2>1. PICK n \in Int : n = IF stage = "retry" THEN Never ELSE d.retry
    BY DEF Marks, Never
  <2>2. PICK h \in BOOLEAN : h <=> d.mainHit \/ stage = "main"
    OBVIOUS
  <2>3. PICK f \in BOOLEAN : f <=> d.fbHit \/ stage = "fallback"
    OBVIOUS
  <2>4. (d.mainHit \/ stage = "main") = h /\ (d.fbHit \/ stage = "fallback") = f
    BY <2>2, <2>3, Zenon DEF Marks
  <2>5. Entered(d, stage) = [d EXCEPT !.retry = n, !.mainHit = h, !.fbHit = f]
    BY <2>1, <2>4, Zenon DEF Entered
  <2>6. QED BY <2>5 DEF Marks
<1>4. ASSUME NEW d \in Nat, NEW m \in Instants \cup {Never}
      PROVE  [NoDay EXCEPT !.day = d, !.main = m] \in Marks
  BY <1>1 DEF Marks
<1>5. QED BY <1>1, <1>2, <1>3, <1>4

LEMMA PartOfConfig ==
  ASSUME IsConfig(conf), NEW S, S \subseteq Fields
  PROVE  IsPart([f \in S |-> conf[f]])
BY DEF IsConfig, IsPart, ValueOf

LEMMA CheckinFieldsIn == CheckinFields \subseteq Fields
BY DEF CheckinFields, Fields, Switches, Crons, Window

LEMMA AttemptWith ==
  ASSUME NEW s \in Attempt
  PROVE  /\ [s EXCEPT !.pc = "claim"] \in Attempt /\ [s EXCEPT !.pc = "failed"] \in Attempt
         /\ \A a \in Accts \cup {None} : [s EXCEPT !.pc = "secure", !.for = a] \in Attempt
BY DEF Attempt

LEMMA TickTypes ==
  ASSUME TimesInv, SettingsInv, ClockInv, acct \in Accts \cup {None}, day \in Nat,
         NEW t \in Ticks, TickCheckin(t) \/ TickStep(t)
  PROVE  TimesInv'
<1> DEFINE s == tick[t]
<1>0. /\ ck \in Marks /\ target \in [day: Nat, at: Instants \cup {Never}] /\ tries \in Nat
      /\ TickTyped(s) /\ TickTyped(Idle) /\ Idle.pc = "idle"
  BY DEF TimesInv, TickTyped, Idle
<1>1. CASE TickCheckin(t)
  <2> DEFINE c == [f \in CheckinFields |-> conf[f]]
             d == [pc |-> "decide", at |-> minute, day |-> day, cfg |-> c]
  <2>1. IsPart(c) /\ DOMAIN c = CheckinFields
    BY PartOfConfig, CheckinFieldsIn DEF SettingsInv, GoodConfig
  <2>2. Tick(t, d) /\ UNCHANGED <<ck, target, tries>>
    BY <1>1 DEF TickCheckin, Tick
  <2> HIDE DEF c
  <2>3. Deciding(d)
    BY <2>1 DEF Deciding, ClockInv
  <2> HIDE DEF d
  <2>4. QED BY <1>0, <2>2, <2>3, TickMoves DEF TickTyped
<1>2. CASE Decide(t)
  <2>1. s.pc = "decide"
    BY <1>2 DEF Decide, InTick
  <2>2. s.at \in Instants /\ s.day \in Nat
    BY <1>0, <2>1 DEF TickTyped, Deciding, Attempt, Idle
  <2>3. PICK main \in IF ck.day = s.day THEN {ck.main} ELSE MainAts(s.day, s.cfg) :
          /\ ck' = Entered(RolledDay(s, main), Stage(RolledDay(s, main), s))
          /\ target' = IF ck.day # s.day /\ s.cfg["checkin_mode"] = "random"
                       THEN [day |-> s.day, at |-> main] ELSE target
          /\ tries' = IF Stage(RolledDay(s, main), s) # "none" /\ s.day = day
                      THEN tries + 1 ELSE tries
          /\ Tick(t, IF Stage(RolledDay(s, main), s) = "none" THEN Idle
                     ELSE [pc |-> "status", at |-> s.at, day |-> s.day,
                           again |-> Stage(RolledDay(s, main), s) # "retry", for |-> None])
    BY <1>2 DEF Decide
  <2>4. main \in Instants \cup {Never}
    BY <1>0, <2>3, MainInstant DEF Marks
  <2>5. RolledDay(s, main) \in Marks
    BY <1>0, <2>2, <2>4, MarksWith DEF RolledDay
  <2>6. ck' \in Marks
    BY <2>3, <2>5, MarksWith
  <2>7. target' \in [day: Nat, at: Instants \cup {Never}] /\ tries' \in Nat
    BY <1>0, <2>2, <2>3, <2>4
  <2>8. ASSUME NEW b \in BOOLEAN
        PROVE  [pc |-> "status", at |-> s.at, day |-> s.day, again |-> b, for |-> None] \in Attempt
    BY <2>2 DEF Attempt
  <2>9. \E c : Tick(t, c) /\ TickTyped(c)
    <3>1. CASE Stage(RolledDay(s, main), s) = "none"
      BY <1>0, <2>3, <3>1
    <3>2. CASE Stage(RolledDay(s, main), s) # "none"
      <4>1. PICK b \in BOOLEAN : b = (Stage(RolledDay(s, main), s) # "retry")
        OBVIOUS
      <4>2. Tick(t, [pc |-> "status", at |-> s.at, day |-> s.day, again |-> b, for |-> None])
        BY <2>3, <3>2, <4>1
      <4>3. QED BY <2>8, <4>2 DEF TickTyped
    <3>3. QED BY <3>1, <3>2
  <2>10. QED BY <2>6, <2>7, <2>9, TickMoves
<1>3. CASE CheckinStatus(t) \/ ClaimCheckin(t)
  <2>1. s \in Attempt
    BY <1>0, <1>3 DEF CheckinStatus, ClaimCheckin, InTick, TickTyped, Deciding
  <2>2. UNCHANGED <<ck, target, tries>>
    BY <1>3 DEF CheckinStatus, ClaimCheckin
  <2>3. \/ Tick(t, [s EXCEPT !.pc = "secure", !.for = acct]) \/ Tick(t, [s EXCEPT !.pc = "claim"])
        \/ Tick(t, [s EXCEPT !.pc = "failed"]) \/ Tick(t, Idle)
    BY <1>3 DEF CheckinStatus, ClaimCheckin, Secures, Misses
  <2>4. \E c : Tick(t, c) /\ TickTyped(c)
    BY <1>0, <2>1, <2>3, AttemptWith DEF TickTyped
  <2>5. QED BY <1>0, <2>2, <2>4, TickMoves
<1>4. CASE Secure(t) \/ RetryLater(t)
  <2>1. s \in Attempt
    BY <1>0, <1>4 DEF Secure, RetryLater, InTick, TickTyped, Deciding
  <2>2. RetryAt(s) \in Int
    <3>1. s.at \in Instants /\ s.day \in Nat /\ ck.day \in Nat
      BY <1>0, <2>1 DEF Attempt, Marks
    <3>2. s.at \in Int
      BY <3>1, InstantIs
    <3>3. QED BY <3>1, <3>2 DEF RetryAt, CheckinRetryDelay
  <2>3. ck' \in Marks
    BY <1>0, <1>4, <2>2, MarksWith DEF Secure, RetryLater
  <2>4. Tick(t, Idle) /\ UNCHANGED <<target, tries>>
    BY <1>4 DEF Secure, RetryLater
  <2>5. QED BY <1>0, <2>3, <2>4, TickMoves
<1>5. QED BY <1>1, <1>2, <1>3, <1>4 DEF TickStep

LEMMA TimesHold ==
  ASSUME TimesInv, SettingsInv, ClockInv, acct \in Accts \cup {None}, day \in Nat, Next
  PROVE  TimesInv'
<1>1. CASE \E t \in Ticks : TickCheckin(t) \/ TickStep(t)
  BY <1>1, TickTypes
<1>0. ASSUME tick' = tick \/ tick' = [t \in Ticks |-> Idle], ck' = ck \/ ck' = NoDay,
             target' = target, tries' = tries \/ tries' = 0
      PROVE  TimesInv'
  <2>1. DOMAIN tick' = Ticks /\ \A t \in Ticks : TickTyped(tick'[t])
    BY <1>0 DEF TimesInv, TickTyped
  <2>2. ck' \in Marks /\ target' \in [day: Nat, at: Instants \cup {Never}] /\ tries' \in Nat
    <3>1. ck' \in Marks
      BY <1>0, MarksWith DEF TimesInv
    <3>2. target' \in [day: Nat, at: Instants \cup {Never}] /\ tries' \in Nat
      BY <1>0 DEF TimesInv
    <3>3. QED BY <3>1, <3>2
  <2>3. QED BY <2>1, <2>2 DEF TimesInv, TickTyped, Deciding, Attempt
<1>2. CASE ~ \E t \in Ticks : TickCheckin(t) \/ TickStep(t)
  <2> USE DEF Quiet, Machinery, Meanwhile, checkin
  <2>1. CASE MinutePasses \/ Midnight \/ TickPoolProbe \/ RefreshModels \/ Stop \/ BootFails
    BY <1>0, <2>1 DEF MinutePasses, Midnight, TickPoolProbe, RefreshModels, Stop, BootFails
  <2>2. CASE Boot \/ Crash \/ Exit
    BY <1>0, <2>2 DEF Boot, Crash, Exit, Gone, Assemble
  <2>3. CASE \/ HandButton \/ ClickButton \/ SweepTick \/ SweepEnds
             \/ \E r \in Runs : RunStep(r) \/ GrowthCatchupFire(r) \/ GrowthButton(r)
             \/ \E r \in CronRuns : TickGrowthChain(r) \/ TickTravel(r)
             \/ \E w \in Workers : \/ TaskButton(w) \/ RoundStep(w) \/ TickTaskQueue(w)
                                   \/ TickBlackcat(w)
             \/ \E a \in Accts : Arrival(a) \/ \E c \in Codes : Scoring(a, c)
    BY <1>0, <2>3 DEF HandButton, ClickButton, SweepTick, SweepEnds, RunStep, GrowthCatchupFire,
       GrowthButton, TickGrowthChain, TickTravel, TaskButton, RoundStep, TickTaskQueue,
       TickBlackcat,
       Arrival, Scoring, Pressed
  <2>4. ASSUME NEW p \in Panels,
             \/ HandlerStep(p) \/ Look(p) \/ PutPassword(p)
             \/ (\E e \in Edits : PutSettings(p, e)) \/ \E a \in Accts \cup {None} : Save(p, a)
        PROVE  TimesInv'
    BY <1>0, <2>4 DEF HandlerStep, RefreshStarts, Refresh, InvalidateAccountCaches, ResetCheckin,
       ResetAccountState, Reconfigure, Reconfigured, Show, Look, PutPassword, PutSettings, Save,
       Assemble, FreshDay
  <2>5. QED BY <1>2, <2>1, <2>2, <2>3, <2>4, DailyAssumption DEF Next
<1>3. QED BY <1>1, <1>2
-----------------------------------------------------------------------------
(* The flags. *)
FlagsIn == /\ up \in BOOLEAN /\ closing \in BOOLEAN /\ timer \in BOOLEAN
           /\ steady \in BOOLEAN /\ overtaken \in BOOLEAN /\ unreset \in BOOLEAN

LEMMA FlagsHold == ASSUME FlagsIn, Next PROVE FlagsIn'
<1> USE DEF Quiet, CheckinStep, Machinery, Meanwhile, host, checkin, sched
<1>0. UNCHANGED <<up, closing, timer, steady, overtaken, unreset>> => FlagsIn'
  BY DEF FlagsIn
<1>1. CASE MinutePasses \/ TickPoolProbe \/ RefreshModels \/ BootFails \/ SweepEnds
  BY <1>0, <1>1 DEF MinutePasses, TickPoolProbe, Rings, RefreshModels, BootFails, SweepEnds
<1>2. CASE Midnight
  BY <1>2, Zenon DEF Midnight, FlagsIn
<1>3. CASE Boot
  BY <1>3, Zenon DEF Boot, Assemble, FlagsIn
<1>4. CASE Crash \/ Exit \/ Stop
  BY <1>4, Zenon DEF Crash, Exit, Gone, Stop, FlagsIn
<1>5. CASE \E t \in Ticks : TickCheckin(t) \/ CheckinStatus(t) \/ ClaimCheckin(t) \/ RetryLater(t)
  BY <1>0, <1>5 DEF TickCheckin, Rings, CheckinStatus, ClaimCheckin, RetryLater
<1>6. CASE \E t \in Ticks : Decide(t) \/ Secure(t)
  BY <1>6, Zenon DEF Decide, Secure, FlagsIn
<1>7. CASE \/ HandButton \/ ClickButton \/ SweepTick
           \/ \E r \in Runs : RunStep(r) \/ GrowthButton(r)
           \/ \E r \in CronRuns : TickGrowthChain(r) \/ TickTravel(r)
           \/ \E w \in Workers : \/ TaskButton(w) \/ RoundStep(w) \/ TickTaskQueue(w)
                                 \/ TickBlackcat(w)
           \/ \E a \in Accts : Arrival(a) \/ \E c \in Codes : Scoring(a, c)
  BY <1>0, <1>7 DEF HandButton, ClickButton, SweepTick, RunStep,
     GrowthButton, TickGrowthChain, TickTravel, TaskButton, RoundStep, TickTaskQueue, TickBlackcat,
     Arrival, Scoring, Pressed, Rings
<1>8. ASSUME NEW r \in Runs, GrowthCatchupFire(r) PROVE FlagsIn'
  BY <1>8, Zenon DEF GrowthCatchupFire, FlagsIn
<1>9. ASSUME NEW p \in Panels,
             \/ RefreshStarts(p) \/ Refresh(p) \/ InvalidateAccountCaches(p) \/ Reconfigured(p)
             \/ Show(p) \/ Look(p) \/ PutPassword(p)
      PROVE  FlagsIn'
  BY <1>0, <1>9 DEF RefreshStarts, Refresh, InvalidateAccountCaches, Reconfigured, Show,
     Look, PutPassword
<1>10. ASSUME NEW p \in Panels,
             \/ ResetCheckin(p) \/ ResetAccountState(p) \/ Reconfigure(p)
             \/ (\E e \in Edits : PutSettings(p, e)) \/ \E a \in Accts \cup {None} : Save(p, a)
      PROVE  FlagsIn'
  <2>1. CASE ResetCheckin(p)
    BY <2>1, Zenon DEF ResetCheckin, FlagsIn
  <2>2. CASE ResetAccountState(p)
    BY <2>2, Zenon DEF ResetAccountState, FlagsIn
  <2>3. CASE Reconfigure(p)
    BY <2>3, Zenon DEF Reconfigure, Assemble, FlagsIn
  <2>4. CASE \E e \in Edits : PutSettings(p, e)
    BY <2>4, Zenon DEF PutSettings, FlagsIn
  <2>5. CASE \E a \in Accts \cup {None} : Save(p, a)
    BY <2>5, Zenon DEF Save, FlagsIn
  <2>6. QED BY <1>10, <2>1, <2>2, <2>3, <2>4, <2>5
<1>11. QED BY <1>1, <1>2, <1>3, <1>4, <1>5, <1>6, <1>7, <1>8, <1>9, <1>10, DailyAssumption
          DEF Next, HandlerStep, TickStep
-----------------------------------------------------------------------------
(* All of it. *)
TypesInv ==
  /\ CheckInv /\ SettingsInv /\ RegionInv /\ WorkInv /\ PanelInv /\ ClockInv /\ TimesInv
  /\ FlagsIn /\ budget \in [Events -> Nat]

LEMMA TypesFirst == Init => TypesInv
<1> SUFFICES ASSUME Init PROVE TypesInv
  OBVIOUS
<1>0. PICK s \in Scenes :
        /\ up = TRUE /\ acct = s.acct /\ budget = s.budget /\ env = s.env
        /\ conf = Loaded(s.file, s.env) /\ board = s.board /\ minute = s.minute
        /\ timer = GrowthCatchupDue(conf) /\ steady = (minute = Before(Instants))
  BY DEF Init
<1>1. /\ s.budget \in [Events -> Nat] /\ (s.file = Missing \/ IsConfig(s.file))
      /\ s.acct \in Accts \cup {None} /\ s.minute \in Instants
      /\ s.board \in [Accts -> [Codes -> TaskStates]]
  BY DailyAssumption
<1>2. CheckInv /\ SettingsInv
  BY CheckFirst, SettingsFirst
<1>3. RegionInv
  <2>1. conf = Loaded(s.file, env)
    BY <1>0
  <2>2. conf["region"] \in {"cn", "global"} \cup {env[f] : f \in DOMAIN env \cap {"region"}}
    BY <1>1, <2>1, LoadedRegion
  <2>3. QED BY <2>2 DEF RegionInv, KnownRegions
<1>4. WorkInv
  <2>1. /\ rmu = None /\ work = [w \in Workers |-> NoWork] /\ late = {}
        /\ stats = [r \in Results |-> None]
    BY DEF Init, TasksInit
  <2>2. QED BY <1>0, <1>1, <2>1 DEF WorkInv, TasksTypeOK, WorkStates, NoWork
<1>5. PanelInv
  <2>1. handler = [p \in Panels |-> Idle] /\ menu = conf["region"] /\ hourly = None
    BY DEF Init
  <2>2. QED BY <1>3, <2>1, HandlersIn DEF PanelInv, RegionInv
<1>6. ClockInv
  <2>1. /\ ring = {} /\ mu = None /\ entries = Wanted(conf)
        /\ sweeper = IF SweepWanted(conf) THEN "on" ELSE "off"
    BY DEF Init
  <2>2. QED BY <1>0, <1>1, <2>1, WantedTyped DEF ClockInv
<1>7. TimesInv
  <2>1. /\ ck = NoDay /\ target = [day |-> 0, at |-> Never] /\ tries = 0
        /\ tick = [t \in Ticks |-> Idle]
    BY DEF Init
  <2>2. ck \in Marks /\ target \in [day: Nat, at: Instants \cup {Never}]
    BY <2>1, MarksWith
  <2>3. QED BY <2>1, <2>2 DEF TimesInv, TickTyped
<1>8. FlagsIn
  <2>1. closing = FALSE /\ overtaken = FALSE /\ unreset = FALSE
    BY DEF Init
  <2>2. timer \in BOOLEAN /\ steady \in BOOLEAN
    BY <1>0, Zenon DEF GrowthCatchupDue
  <2>3. QED BY <1>0, <2>1, <2>2 DEF FlagsIn
<1>9. QED BY <1>0, <1>1, <1>2, <1>3, <1>4, <1>5, <1>6, <1>7, <1>8 DEF TypesInv

LEMMA TypesHold == TypesInv /\ [Next]_vars => TypesInv'
<1> SUFFICES ASSUME TypesInv, [Next]_vars PROVE TypesInv'
  OBVIOUS
<1>0. CheckInv' /\ SettingsInv'
  BY SettingsHold, SecuredHolds, ShowHolds, DayHolds DEF TypesInv, CheckInv
<1>1. CASE Next
  <2>1. acct \in Accts \cup {None} /\ day \in Nat
    BY CheckFacts DEF TypesInv
  <2>2. budget' \in [Events -> Nat]
    BY <1>1, AllPaid, Spending DEF TypesInv, Paid
  <2>3. \A p \in Panels : handler[p].pc = "show" => handler[p].for \in Accts
    BY PanelFields DEF TypesInv
  <2>4. WorkInv'
    BY <1>1, <2>1, <2>3, WorkHolds DEF TypesInv, WorkTyped
  <2>5. RegionInv' /\ PanelInv'
    BY <1>1, <2>1, RegionHolds, PanelHolds DEF TypesInv
  <2>6. ClockInv' /\ FlagsIn'
    BY <1>1, ClockHolds, FlagsHold DEF TypesInv
  <2>7. TimesInv'
    BY <1>1, <2>1, TimesHold DEF TypesInv
  <2>8. QED BY <1>0, <2>2, <2>4, <2>5, <2>6, <2>7 DEF TypesInv
<1>2. CASE UNCHANGED vars
  <2> USE <1>2 DEF vars, host, settings, tasks, clock, sched, checkin, models
  <2>1. RegionInv'
    BY DEF TypesInv, RegionInv, KnownRegions
  <2>2. WorkInv'
    BY DEF TypesInv, WorkInv, TasksTypeOK, KindFits
  <2>3. PanelInv'
    BY DEF TypesInv, PanelInv, HandlerStates, KnownRegions
  <2>4. ClockInv' /\ FlagsIn' /\ budget' \in [Events -> Nat]
    BY DEF TypesInv, ClockInv, FlagsIn
  <2>5. TimesInv'
    BY DEF TypesInv, TimesInv, TickTyped, Deciding
  <2>6. QED BY <1>0, <2>1, <2>2, <2>3, <2>4, <2>5 DEF TypesInv
<1>3. QED BY <1>1, <1>2

\* Whatever the settings say and whoever changes them, the account or the clock
\* under what runs, every part of the scheduler stays of its kind: cron starts
\* only jobs it knows, the marks of the day name minutes the clock has or none
\* (decide, rollDayLocked), an attempt or a round under way remembers an account
\* there is, and the list of models is of a region Load or a handler has set.
THEOREM DailyTypes == Spec => []TypeOK
<1>1. TypesInv => TypeOK
  <2> SUFFICES ASSUME TypesInv PROVE TypeOK
    OBVIOUS
  <2>1. {up, closing, timer, steady, overtaken, unreset} \subseteq BOOLEAN
    BY Zenon DEF TypesInv, FlagsIn
  <2>2. /\ acct \in Accts \cup {None} /\ day \in Nat \ {0} /\ GrowthTypeOK
        /\ signed \in [Accts -> Nat]
    BY DEF TypesInv, CheckInv, DayInv, GrowthInv, HostTyped, SecuredInv, CheckTyped
  <2>3. IsConfig(conf) /\ IsEnv(env) /\ (file = Torn \/ IsConfig(file))
    BY DEF TypesInv, SettingsInv, GoodConfig
  <2>4. TasksTypeOK /\ budget \in [Events -> Nat]
    BY DEF TypesInv, WorkInv
  <2>5. /\ minute \in Instants /\ ring \subseteq Jobs /\ mu \in Panels \cup {None}
        /\ entries \subseteq Jobs \X DOMAIN CronAt /\ sweeper \in {"off", "on", "cancelled"}
    BY DEF TypesInv, ClockInv
  <2>6. /\ handler \in [Panels -> HandlerStates]
        /\ menu \in KnownRegions /\ hourly \in KnownRegions \cup {None}
    BY DEF TypesInv, PanelInv
  <2>7. /\ ck \in Marks /\ target \in [day: Nat, at: Instants \cup {Never}] /\ tries \in Nat
        /\ DOMAIN tick = Ticks
    BY DEF TypesInv, TimesInv
  <2>8. \A t \in Ticks : tick[t] \in TickStates \/ Deciding(tick[t])
    BY DEF TypesInv, TimesInv, TickTyped, TickStates, Attempt
  <2>9. QED BY <2>1, <2>2, <2>3, <2>4, <2>5, <2>6, <2>7, <2>8 DEF TypeOK, Marks
<1>2. QED BY <1>1, TypesFirst, TypesHold, PTL DEF Spec
-----------------------------------------------------------------------------
(* The attempts of a day. *)
\* The lock is kept by a handler that waits.
MuInv == mu # None => handler[mu].pc = "wait"

\* The attempts that may still ask for a retry are those of Again; a minute is
\* passed once its tick, if there is one, has decided.
One(b) == IF b THEN 1 ELSE 0
Hits == One(ck.mainHit) + One(ck.fbHit)
Fallback == conf["checkin_fallback"]
Again == {t \in Ticks : tick[t].pc \in {"status", "claim", "failed"} /\ tick[t].again}
Undecided == "checkin" \in ring \/ \E t \in Ticks : tick[t].pc = "decide"
Passed(m) == m < minute \/ (m = minute /\ ~Undecided)
Late(m) == Fallback /\ m >= CheckinFallbackMin
\* At m both stages have had their minute, the fallback an earlier one: what
\* came first, a failed main attempt's retry or the fallback, left m for the other.
Twice(m) == m >= ck.main /\ \E b \in Instants : Late(b) /\ b < m
Served(m) ==
  /\ ck.day = day
  /\ \/ ck.secured
     \/ /\ m >= ck.main \/ Late(m) => tries >= 1
        /\ Twice(m) => tries >= 2
TickToday(s) ==
  /\ s.pc = "decide" => /\ s.day = day /\ s.at = minute
                        /\ s.cfg = [f \in CheckinFields |-> conf[f]]
  /\ s.pc \in {"status", "claim", "secure", "failed"} => ck.day = day /\ s.day = day
  /\ s.pc = "secure" => s.for = acct
  /\ s.pc = "failed" => s.again
Counted ==
  /\ ~overtaken /\ IsFiniteSet(Again)
  /\ tries + One(ck.retry # Never) + Cardinality(Again) <= 2 * Hits /\ Hits <= tries
  /\ ck.mainHit => ck.main # Never
  /\ ck.fbHit => Fallback
\* A steady day: what is in flight is of today and of this account, and every
\* minute that has passed was served, the first of the day excepted, at which the
\* process may have started.
TodayInv ==
  /\ up /\ ~closing /\ ~unreset /\ mu = None
  /\ \A p \in Panels : handler[p].pc \in {"idle", "show"}
  /\ \A t \in Ticks : TickToday(tick[t])
  /\ Undecided \/ ck.day = day => conf["auto_checkin"]
  /\ IF ck.day = day THEN Counted ELSE tries = 0
  /\ conf["auto_checkin"] =>
       \A m \in Instants \ {Before(Instants)} : Passed(m) => Served(m)
TriesInv ==
  /\ TypesInv /\ FollowInv /\ MuInv
  /\ steady => TodayInv

LEMMA MuHolds == ASSUME TypesInv, FollowInv, MuInv, Next PROVE MuInv'
<1>0. /\ EntriesInv /\ DOMAIN handler = Panels /\ mu \in Panels \cup {None}
      /\ \A q : Now(q).pc = q
  BY DEF TypesInv, CheckInv, ShowInv, ShowTyped, EntriesInv, ClockInv, Now
<1>1. CASE Calm
  <2>1. CASE UNCHANGED handler
    BY <1>1, <2>1 DEF Calm, MuInv
  <2>2. ASSUME NEW p \in Panels, NEW s, Handle(p, s), ~Waits(p) PROVE MuInv'
    <3>1. \A q \in Panels \ {p} : handler'[q] = handler[q]
      BY <1>0, <2>2, HandlerIs
    <3>2. mu' = mu /\ mu # p
      BY <1>1, <2>2, DailyAssumption DEF Calm, MuInv, Waits
    <3>3. QED BY <1>0, <3>1, <3>2 DEF MuInv
  <2>3. QED BY <1>1, <2>1, <2>2 DEF Calm
<1>2. CASE Boot \/ Stop \/ SweepEnds
  BY <1>2 DEF Boot, Stop, SweepEnds, MuInv
<1>3. CASE Crash \/ Exit \/ \E p \in Panels : Reconfigured(p)
  BY <1>3 DEF Crash, Exit, Gone, Reconfigured, MuInv
<1>4. ASSUME NEW p \in Panels, Reconfigure(p) PROVE MuInv'
  <2>1. CASE sweeper = "off"
    BY <1>4, <2>1 DEF Reconfigure, MuInv
  <2>2. CASE sweeper # "off"
    <3> DEFINE s == [pc |-> "wait", sweep |-> SweepWanted(conf)]
    <3>1. Handle(p, s) /\ mu' = p
      BY <1>4, <2>2 DEF Reconfigure
    <3>2. handler'[p].pc = "wait"
      BY <1>0, <3>1, HandlerIs
    <3>3. QED BY <3>1, <3>2 DEF MuInv
  <2>3. QED BY <2>1, <2>2
<1>5. ASSUME NEW p \in Panels, NEW e \in Edits, Edited(p, e) PROVE MuInv'
  <2>1. handler[p].pc = "idle" /\ mu' = mu
    BY <1>5 DEF Edited, PutSettings, Calls, InHandler, sched
  <2>2. \A q \in Panels \ {p} : handler'[q] = handler[q]
    BY <1>0, <1>5, HandlerIs DEF Edited
  <2>3. QED BY <1>0, <2>1, <2>2 DEF MuInv
<1>6. QED BY <1>1, <1>2, <1>3, <1>4, <1>5, CalmCases DEF Changes

\* What touches neither the attempts nor what they depend on.
Untouched ==
  /\ UNCHANGED <<up, closing, unreset, mu, acct, day, minute, ck, tick, tries, overtaken>>
  /\ "checkin" \in ring' <=> "checkin" \in ring
  /\ UNCHANGED conf \/ SetAdminPasswordHash("changed")
  /\ UNCHANGED handler \/ \E p \in Panels : \E s : Handle(p, s) /\ s.pc \in {"idle", "show"}

LEMMA TodayCases ==
  ASSUME TodayInv, Next
  PROVE  \/ ~steady' \/ Midnight \/ MinutePasses \/ Untouched
         \/ \E t \in Ticks : TickCheckin(t) \/ TickStep(t)
<1> USE DEF Quiet, Machinery, Meanwhile, host, clock, checkin, sched, settings
<1>0. up /\ ~closing /\ Idle.pc = "idle"
  BY DEF TodayInv, Idle
<1>1. CASE Crash \/ Stop \/ Exit \/ Boot \/ BootFails
  BY <1>0, <1>1 DEF Crash, Stop, Exit, Boot, BootFails, Gone, Assemble
<1>2. CASE RefreshModels \/ TickPoolProbe
  BY <1>2 DEF RefreshModels, TickPoolProbe, Rings, Untouched
<1>3. CASE \E r : TickGrowthChain(r) \/ TickTravel(r)
  BY <1>3 DEF TickGrowthChain, TickTravel, Rings, Untouched
<1>4. CASE \E r : RunStep(r) \/ GrowthCatchupFire(r) \/ GrowthButton(r)
  BY <1>4 DEF RunStep, GrowthCatchupFire, GrowthButton, Pressed, Untouched
<1>5. CASE \/ HandButton \/ ClickButton \/ SweepTick \/ SweepEnds
           \/ \E w : TaskButton(w) \/ RoundStep(w)
  BY <1>5 DEF HandButton, ClickButton, SweepTick, SweepEnds, TaskButton, RoundStep, Pressed, Untouched
<1>6. CASE \E w : TickTaskQueue(w) \/ TickBlackcat(w)
  BY <1>6 DEF TickTaskQueue, TickBlackcat, Rings, Untouched
<1>7. CASE \E a \in Accts : Arrival(a) \/ \E c \in Codes : Scoring(a, c)
  BY <1>7 DEF Arrival, Scoring, Untouched
<1>8. ASSUME NEW p \in Panels, HandlerStep(p) PROVE Untouched \/ ~steady'
  <2>1. handler[p].pc \in {"idle", "show"}
    BY DEF TodayInv
  <2>2. Show(p)
    BY <1>8, <2>1 DEF HandlerStep, RefreshStarts, Refresh, InvalidateAccountCaches, ResetCheckin,
       ResetAccountState, Reconfigure, Reconfigured, InHandler
  <2>3. QED BY <1>0, <2>2 DEF Show, Untouched
<1>9. ASSUME NEW p \in Panels, Look(p) PROVE Untouched
  <2>1. \E s : Handle(p, s) /\ s.pc = "show"
    BY <1>9 DEF Look
  <2>2. QED BY <1>9, <2>1 DEF Look, Untouched
<1>10. ASSUME NEW p \in Panels,
              \/ PutPassword(p) \/ (\E e \in Edits : PutSettings(p, e))
              \/ \E a \in Accts \cup {None} : Save(p, a)
       PROVE  Untouched \/ ~steady'
  <2>1. CASE PutPassword(p)
    BY <2>1 DEF PutPassword, PasswordFails, Untouched
  <2>2. CASE \E e \in Edits : PutSettings(p, e)
    BY <2>2 DEF PutSettings, UpdateFails, RollBack, Untouched
  <2>3. CASE \E a \in Accts \cup {None} : Save(p, a)
    BY <2>3 DEF Save
  <2>4. QED BY <1>10, <2>1, <2>2, <2>3
<1>11. QED BY <1>1, <1>2, <1>3, <1>4, <1>5, <1>6, <1>7, <1>8, <1>9, <1>10 DEF Next

\* The settings of the check-in do not change on a steady day.
LEMMA SameCheckin ==
  ASSUME SettingsInv, UNCHANGED conf \/ SetAdminPasswordHash("changed")
  PROVE  /\ conf'["auto_checkin"] = conf["auto_checkin"]
         /\ Fallback' = Fallback
         /\ [f \in CheckinFields |-> conf'[f]] = [f \in CheckinFields |-> conf[f]]
<1>1. "password" \notin CheckinFields \cup {"auto_checkin"}
  BY DEF CheckinFields
<1>2. CheckinFields \cup {"auto_checkin"} \subseteq DOMAIN conf
  BY CheckinFieldsIn, ConfigIs DEF SettingsInv, GoodConfig, Fields, Switches
<1>3. \A f \in CheckinFields \cup {"auto_checkin"} : conf'[f] = conf[f]
  BY <1>1, <1>2 DEF SetAdminPasswordHash
<1>4. QED BY <1>3 DEF Fallback, CheckinFields

LEMMA UntouchedKeeps == ASSUME TypesInv, TodayInv, Untouched PROVE TodayInv'
<1>1. /\ conf'["auto_checkin"] = conf["auto_checkin"] /\ Fallback' = Fallback
      /\ [f \in CheckinFields |-> conf'[f]] = [f \in CheckinFields |-> conf[f]]
  BY SameCheckin DEF TypesInv, Untouched
<1>2. \A p \in Panels : handler'[p].pc \in {"idle", "show"}
  BY HandlerIs DEF Untouched, TodayInv, TypesInv, CheckInv, ShowInv, ShowTyped
<1>3. \A t \in Ticks : TickToday(tick[t])'
  BY <1>1 DEF Untouched, TodayInv, TickToday
<1>4. Undecided' = Undecided /\ Again' = Again /\ Hits' = Hits
  BY DEF Untouched, Undecided, Again, Hits
<1>5. Counted => Counted'
  BY <1>1, <1>4 DEF Untouched, Counted
<1>6. \A m : (Passed(m)' => Passed(m)) /\ (Served(m) => Served(m)')
  BY <1>1, <1>4 DEF Untouched, Passed, Served, Late, Twice
<1>7. QED BY <1>1, <1>2, <1>3, <1>4, <1>5, <1>6 DEF Untouched, TodayInv

LEMMA DayBegins ==
  ASSUME TypesInv, MuInv, Midnight, steady'
  PROVE  TodayInv'
<1>1. /\ up /\ ~closing /\ ~unreset /\ conf["auto_checkin"] /\ day' = day + 1 /\ tries' = 0
      /\ (\A t \in Ticks : tick[t] = Idle) /\ \A p \in Panels : handler[p] = Idle
      /\ minute' = Before(Instants) /\ mu \in Panels \cup {None}
      /\ UNCHANGED <<up, closing, unreset, conf, ck, tick, handler, mu>>
  BY DEF Midnight, Quiet, sched, settings, TypesInv, ClockInv
<1>2. Idle.pc = "idle"
  BY DEF Idle
<1>3. mu = None
  BY <1>1, <1>2 DEF MuInv
<1>4. ck.day # day'
  <2>1. ck.day \in Nat /\ ck.day <= day
    BY DEF TypesInv, CheckInv, SecuredInv, CheckTyped
  <2>2. day \in Nat
    BY CheckFacts DEF TypesInv
  <2>3. QED BY <1>1, <2>1, <2>2
<1>5. ASSUME NEW m \in Instants \ {Before(Instants)} PROVE ~Passed(m)'
  <2>1. Before(Instants) <= m /\ m \in Nat /\ Before(Instants) \in Nat
    <3>1. \A n \in Instants : n \in Minutes
      BY FirstInstant
    <3>2. \A n \in Instants : Before(Instants) <= n
      BY <3>1, First
    <3>3. QED BY <3>2, FirstInstant, InstantIs
  <2>2. QED BY <1>1, <1>5, <2>1 DEF Passed
<1>6. \A p \in Panels : handler'[p].pc \in {"idle", "show"}
  BY <1>1, <1>2
<1>7. \A t \in Ticks : TickToday(tick[t])'
  BY <1>1, <1>2 DEF TickToday
<1>8. QED BY <1>1, <1>3, <1>4, <1>5, <1>6, <1>7 DEF TodayInv

\* Cron starts a tick at every minute the settings want one.
LEMMA TicksStart ==
  ASSUME FollowInv, TodayInv, NEW m \in Instants
  PROVE  "checkin" \in DueAt(m) <=> conf["auto_checkin"]
<1>1. entries = Wanted(conf)
  BY DEF TodayInv, FollowInv, Followed, Waits, Settler
<1> DEFINE e == <<"checkin", "minutely">>
<1>2. "minutely" \in DOMAIN CronAt /\ CronAt["minutely"] = Instants
  BY DailyAssumption
<1>3. \A x \in Wanted(conf) : x[1] = "checkin" => x = e
  BY DEF Wanted
<1>4. e \in Wanted(conf) <=> conf["auto_checkin"]
  BY <1>2 DEF Wanted
<1>5. QED BY <1>1, <1>2, <1>3, <1>4 DEF DueAt

LEMMA MinuteKeeps ==
  ASSUME TypesInv, FollowInv, TodayInv, MinutePasses
  PROVE  TodayInv'
<1>1. /\ ring = {} /\ minute \in Instants /\ minute' = NextInstant(minute) /\ minute' # Never
      /\ ring' = DueAt(minute') /\ \A t \in Ticks : tick[t].pc # "decide"
      /\ UNCHANGED <<up, closing, unreset, conf, acct, day, ck, tick, handler, mu, tries,
                     overtaken>>
  BY DEF MinutePasses, Decided, Quiet, sched, settings, checkin, TypesInv, ClockInv, TodayInv
<1>2. minute' \in Instants
  BY <1>1, FirstInstant
<1>3. \A m \in Instants : m < minute' => m <= minute
  <2> DEFINE S == {n \in Instants : n > minute}
  <2>1. \A n \in S : n \in Minutes
    BY FirstInstant
  <2>2. \A n \in S : Before(S) <= n
    BY <2>1, First
  <2>3. minute' = Before(S)
    BY <1>1 DEF NextInstant
  <2>4. minute \in Nat /\ minute' \in Nat
    BY <1>1, <1>2, InstantIs
  <2> HIDE DEF S
  <2>5. ASSUME NEW m \in Instants, m < minute' PROVE m <= minute
    <3>1. m \in Nat
      BY InstantIs
    <3>2. m \notin S
      BY <2>2, <2>3, <2>4, <2>5, <3>1
    <3>3. QED BY <2>4, <3>1, <3>2 DEF S
  <2>6. QED BY <2>5
<1>4. Undecided' <=> conf["auto_checkin"]
  BY <1>1, <1>2, TicksStart DEF Undecided
<1>5. ASSUME NEW m \in Instants, Passed(m)', conf["auto_checkin"] PROVE Passed(m)
  <2>1. m < minute'
    BY <1>4, <1>5 DEF Passed
  <2>2. m <= minute /\ ~Undecided /\ m \in Nat /\ minute \in Nat
    BY <1>1, <1>3, <2>1, InstantIs DEF Undecided
  <2>3. QED BY <2>2 DEF Passed
<1>6. \A m : Served(m) => Served(m)'
  BY <1>1 DEF Served, Late, Twice, Fallback
<1>7. \A t \in Ticks : TickToday(tick[t])'
  BY <1>1 DEF TodayInv, TickToday
<1>8. Counted => Counted'
  BY <1>1 DEF Counted, Again, Hits, Fallback
<1>9. QED BY <1>1, <1>4, <1>5, <1>6, <1>7, <1>8 DEF TodayInv

\* A tick moves on: the others stay what they are.
LEMMA TickOf ==
  ASSUME TimesInv, NEW t \in Ticks, NEW s, Tick(t, s)
  PROVE  /\ tick'[t] = s /\ \A u \in Ticks \ {t} : tick'[u] = tick[u]
         /\ Again \ {t} \subseteq Again' /\ Again' \subseteq Again \cup {t}
         /\ t \in Again' <=> s.pc \in {"status", "claim", "failed"} /\ s.again
BY DEF TimesInv, Tick, Again

LEMMA TickStarts ==
  ASSUME TypesInv, TodayInv, NEW t \in Ticks, TickCheckin(t)
  PROVE  TodayInv'
<1> DEFINE c == [f \in CheckinFields |-> conf[f]]
           s == [pc |-> "decide", at |-> minute, day |-> day, cfg |-> c]
<1>1. /\ Tick(t, s) /\ "checkin" \in ring /\ Idle.pc = "idle" /\ tick[t] = Idle
      /\ UNCHANGED <<up, closing, unreset, conf, acct, day, minute, ck, handler, mu, tries,
                     overtaken>>
  BY DEF TickCheckin, Tick, Rings, Quiet, sched, settings, Idle
<1> HIDE DEF c
<1>2. s.pc = "decide" /\ s.at = minute /\ s.day = day /\ s.cfg = c
  OBVIOUS
<1> HIDE DEF s
<1>a. PICK d : d = s
  OBVIOUS
<1>3. /\ tick'[t] = d /\ \A u \in Ticks \ {t} : tick'[u] = tick[u]
      /\ Again' = Again
  <2>1. t \notin Again /\ t \notin Again'
    BY <1>1, <1>2, TickOf DEF Again, TypesInv
  <2>2. QED BY <1>1, <1>2, <1>a, <2>1, TickOf DEF TypesInv
<1>4. Undecided /\ Undecided'
  BY <1>1, <1>2, <1>3, <1>a DEF Undecided
<1>5. \A m : (Passed(m)' => Passed(m)) /\ (Served(m) => Served(m)')
  BY <1>1, <1>4 DEF Passed, Served, Late, Twice, Fallback
<1>6. TickToday(d)'
  BY <1>1, <1>2, <1>a DEF TickToday, c
<1>7. \A u \in Ticks : TickToday(tick[u])'
  BY <1>1, <1>3, <1>6 DEF TodayInv, TickToday
<1>8. Counted => Counted'
  BY <1>1, <1>3 DEF Counted, Hits, Fallback
<1>9. QED BY <1>1, <1>4, <1>5, <1>7, <1>8 DEF TodayInv

\* An attempt under way moves on.
LEMMA AttemptKeeps ==
  ASSUME TypesInv, TodayInv, NEW t \in Ticks, NEW d, Tick(t, d), CheckinStep,
         tick[t].pc \in {"status", "claim", "secure", "failed"},
         d = Idle \/ (d \in Attempt /\ d.day = day), d.pc = "secure" => d.for = acct,
         d.pc = "failed" => d.again, ck.day = day => Counted', tries' = tries,
         ck'.day = ck.day, ck'.main = ck.main, ck.secured => ck'.secured
  PROVE  TodayInv'
<1>1. /\ ck.day = day /\ Idle.pc = "idle" /\ d.pc # "decide" /\ tick[t].pc # "decide"
      /\ d.pc # "idle" => d.day = day
      /\ UNCHANGED <<up, closing, unreset, conf, acct, day, minute, ring, handler, mu>>
  <2>1. TickToday(tick[t])
    BY DEF TodayInv
  <2>2. Idle.pc = "idle" /\ \A a \in Attempt : a.pc # "decide"
    BY DEF Idle, Attempt
  <2>3. UNCHANGED <<up, closing, unreset, conf, acct, day, minute, ring, handler, mu>>
    BY DEF CheckinStep, settings, clock, sched
  <2>4. QED BY <2>1, <2>2, <2>3 DEF TickToday
<1>2. tick'[t] = d /\ \A u \in Ticks \ {t} : tick'[u] = tick[u]
  BY TickOf DEF TypesInv
<1>3. \A u \in Ticks : TickToday(tick[u])'
  <2>1. TickToday(d)'
    BY <1>1 DEF TickToday
  <2>2. ASSUME NEW u \in Ticks \ {t} PROVE TickToday(tick[u])'
    BY <1>1, <1>2 DEF TodayInv, TickToday
  <2>3. QED BY <1>2, <2>1, <2>2
<1>4. Undecided' = Undecided
  BY <1>1, <1>2 DEF Undecided
<1>5. \A m : (Passed(m)' => Passed(m)) /\ (Served(m) => Served(m)')
  BY <1>1, <1>4 DEF Passed, Served, Late, Twice, Fallback
<1>6. QED BY <1>1, <1>3, <1>4, <1>5 DEF TodayInv

LEMMA OneIs == \A b : One(b) \in {0, 1}
BY DEF One

LEMMA AttemptsKeep ==
  ASSUME TypesInv, TodayInv, NEW t \in Ticks,
         CheckinStatus(t) \/ ClaimCheckin(t) \/ Secure(t) \/ RetryLater(t)
  PROVE  TodayInv'
<1>1. tick[t].pc \in {"status", "claim", "secure", "failed"} /\ CheckinStep
  BY DEF CheckinStatus, ClaimCheckin, Secure, RetryLater, InTick
<1>2. PICK s : s = tick[t]
  OBVIOUS
<1>3. /\ s \in Attempt /\ ck.day = day /\ s.day = day /\ Counted /\ ck \in Marks /\ tries \in Nat
      /\ Idle.pc = "idle"
  <2>1. TickToday(s) /\ TickTyped(s) /\ ck \in Marks /\ tries \in Nat /\ Idle.pc = "idle"
    BY <1>2 DEF TodayInv, TypesInv, TimesInv, Idle
  <2>2. s \in Attempt /\ ck.day = day /\ s.day = day
    BY <1>1, <1>2, <2>1 DEF TickToday, TickTyped, Deciding
  <2>3. QED BY <2>1, <2>2 DEF TodayInv
<1>4. acct \in Accts \cup {None}
  BY CheckFacts DEF TypesInv
<1>5. CASE CheckinStatus(t) \/ ClaimCheckin(t)
  <2>1. UNCHANGED <<ck, tries, overtaken, conf>>
    BY <1>5 DEF CheckinStatus, ClaimCheckin, CheckinStep, settings
  <2>2. PICK d : /\ Tick(t, d)
                 /\ \/ d = [s EXCEPT !.pc = "secure", !.for = acct]
                    \/ d = [s EXCEPT !.pc = "claim"] /\ s.pc = "status"
                    \/ d = [s EXCEPT !.pc = "failed"] /\ s.again /\ s.pc = "claim"
                    \/ d = Idle
    BY <1>2, <1>5 DEF CheckinStatus, ClaimCheckin, Secures, Misses, InTick
  <2>3. /\ d = Idle \/ (d \in Attempt /\ d.day = day)
        /\ d.pc = "secure" => d.for = acct
        /\ d.pc = "failed" => d.again
        /\ d.pc \in {"status", "claim", "failed"} =>
             s.pc \in {"status", "claim", "failed"} /\ d.again = s.again
    <3>1. CASE d = [s EXCEPT !.pc = "secure", !.for = acct]
      BY <1>3, <1>4, <3>1 DEF Attempt
    <3>2. CASE d = [s EXCEPT !.pc = "claim"] /\ s.pc = "status"
      BY <1>3, <3>2 DEF Attempt
    <3>3. CASE d = [s EXCEPT !.pc = "failed"] /\ s.again /\ s.pc = "claim"
      BY <1>3, <3>3 DEF Attempt
    <3>4. CASE d = Idle
      BY <1>3, <3>4
    <3>5. QED BY <2>2, <3>1, <3>2, <3>3, <3>4
  <2>4. Again' \subseteq Again
    BY <1>2, <2>2, <2>3, TickOf DEF TypesInv, Again
  <2>5. Counted'
    <3>1. IsFiniteSet(Again) /\ tries + One(ck.retry # Never) + Cardinality(Again) <= 2 * Hits
      BY <1>3 DEF Counted
    <3>2. IsFiniteSet(Again') /\ Cardinality(Again') <= Cardinality(Again)
      BY <2>4, <3>1, FS_Subset
    <3>3. Cardinality(Again) \in Nat /\ Cardinality(Again') \in Nat
      BY <3>1, <3>2, FS_CardinalityType
    <3>4. Hits \in Nat /\ One(ck.retry # Never) \in Nat
      BY OneIs DEF Hits
    <3>5. tries + One(ck.retry # Never) + Cardinality(Again') <= 2 * Hits
      BY <1>3, <3>1, <3>2, <3>3, <3>4
    <3>6. QED BY <1>3, <2>1, <3>2, <3>5 DEF Counted, Hits, Fallback
  <2>6. QED BY <1>1, <2>1, <2>2, <2>3, <2>5, AttemptKeeps
<1>6. CASE Secure(t)
  <2>1. /\ Tick(t, Idle) /\ UNCHANGED <<tries, conf>> /\ s.pc = "secure"
        /\ ck' = [ck EXCEPT !.secured = TRUE]
        /\ overtaken' = (overtaken \/ s.for # acct \/ s.day # ck.day)
    BY <1>2, <1>6 DEF Secure, CheckinStep, settings, InTick
  <2>2. /\ ck'.day = ck.day /\ ck'.main = ck.main /\ ck'.mainHit = ck.mainHit
        /\ ck'.retry = ck.retry /\ ck'.fbHit = ck.fbHit /\ ck'.secured
    BY <1>3, <2>1 DEF Marks
  <2>3. ~overtaken'
    BY <1>2, <1>3, <2>1 DEF Counted, TodayInv, TickToday
  <2>4. Again' = Again
    BY <1>2, <1>3, <2>1, TickOf DEF TypesInv, Again
  <2>5. Counted'
    BY <1>3, <2>1, <2>2, <2>3, <2>4 DEF Counted, Hits, Fallback
  <2>6. PICK d : d = Idle
    OBVIOUS
  <2>7. /\ Tick(t, d) /\ tries' = tries /\ ck'.day = ck.day /\ ck'.main = ck.main
        /\ ck.secured => ck'.secured
    BY <2>1, <2>2, <2>6
  <2>8. d.pc = "idle"
    BY <1>3, <2>6
  <2>9. QED BY <1>1, <2>5, <2>6, <2>7, <2>8, AttemptKeeps
<1>7. CASE RetryLater(t)
  <2>1. PICK n : ck' = [ck EXCEPT !.retry = n]
    BY <1>7 DEF RetryLater
  <2>2. Tick(t, Idle) /\ UNCHANGED <<tries, overtaken, conf>> /\ s.pc = "failed" /\ s.again
    BY <1>2, <1>7 DEF RetryLater, CheckinStep, settings, InTick, TodayInv, TickToday
  <2>3. /\ ck'.day = ck.day /\ ck'.main = ck.main /\ ck'.mainHit = ck.mainHit
        /\ ck'.fbHit = ck.fbHit /\ ck'.secured = ck.secured
    BY <1>3, <2>1 DEF Marks
  <2>4. t \in Again /\ Again' = Again \ {t}
    BY <1>2, <1>3, <2>2, TickOf DEF TypesInv, Again
  <2>5. Counted'
    <3>1. IsFiniteSet(Again) /\ tries + One(ck.retry # Never) + Cardinality(Again) <= 2 * Hits
      BY <1>3 DEF Counted
    <3>2. IsFiniteSet(Again') /\ Cardinality(Again') = Cardinality(Again) - 1
      BY <2>4, <3>1, FS_RemoveElement
    <3>3. Cardinality(Again) \in Nat
      BY <3>1, FS_CardinalityType
    <3>4. Hits \in Nat /\ One(ck.retry # Never) \in {0, 1} /\ One(ck'.retry # Never) \in {0, 1}
      BY OneIs DEF Hits
    <3>5. tries + One(ck'.retry # Never) + Cardinality(Again') <= 2 * Hits
      BY <1>3, <3>1, <3>2, <3>3, <3>4
    <3>6. Hits' = Hits
      BY <2>3 DEF Hits
    <3>7. QED BY <1>3, <2>2, <2>3, <3>2, <3>5, <3>6 DEF Counted, Fallback
  <2>6. PICK d : d = Idle
    OBVIOUS
  <2>7. /\ Tick(t, d) /\ tries' = tries /\ ck'.day = ck.day /\ ck'.main = ck.main
        /\ ck.secured => ck'.secured
    BY <2>2, <2>3, <2>6
  <2>8. d.pc = "idle"
    BY <1>3, <2>6
  <2>9. QED BY <1>1, <2>5, <2>6, <2>7, <2>8, AttemptKeeps
<1>8. QED BY <1>5, <1>6, <1>7

\* What a tick at minute n may attempt, and what it leaves undone only if it has
\* been tried.
LEMMA StageIs ==
  ASSUME NEW d \in Marks, NEW s, s.at \in Int
  PROVE  /\ Stage(d, s) \in {"none", "retry", "main", "fallback"}
         /\ Stage(d, s) = "retry" => s.at >= d.retry
         /\ Stage(d, s) = "main" => ~d.mainHit /\ s.at >= d.main
         /\ Stage(d, s) = "fallback" => ~d.fbHit /\ s.cfg["checkin_fallback"]
         /\ Stage(d, s) = "none" =>
              \/ d.secured
              \/ /\ s.at >= d.main => d.mainHit
                 /\ s.cfg["checkin_fallback"] /\ s.at >= CheckinFallbackMin => d.fbHit
<1>1. d.retry \in Int /\ d.main \in Int
  BY InstantIs DEF Marks, Never
<1>2. CASE d.secured
  BY <1>2 DEF Stage
<1>3. CASE ~d.secured /\ s.at >= d.retry
  BY <1>1, <1>3 DEF Stage
<1>4. CASE ~d.secured /\ s.at < d.retry /\ ~d.mainHit /\ s.at >= d.main
  BY <1>1, <1>4 DEF Stage
<1>5. CASE ~d.secured /\ s.at < d.retry /\ (d.mainHit \/ ~(s.at >= d.main))
  <2>1. Stage(d, s) = IF s.cfg["checkin_fallback"] /\ ~d.fbHit /\ s.at >= CheckinFallbackMin
                      THEN "fallback" ELSE "none"
    BY <1>1, <1>5 DEF Stage
  <2>2. QED BY <1>5, <2>1
<1>6. QED BY <1>1, <1>2, <1>3, <1>4, <1>5

\* Entering a stage uses the retry up, or is one more attempt that may be
\* repeated.
Enough(d) ==
  LET hits == One(d.mainHit) + One(d.fbHit) IN
  /\ IsFiniteSet(Again) /\ tries + One(d.retry # Never) + Cardinality(Again) <= 2 * hits
  /\ hits <= tries
  /\ d.mainHit => d.main # Never
  /\ d.fbHit => Fallback

LEMMA FirstIsEarly ==
  ASSUME NEW b \in Instants, b >= CheckinFallbackMin
  PROVE  b # Before(Instants)
<1>1. PICK a \in Instants : a < CheckinFallbackMin
  <2>1. \E x, y, z \in Instants :
          x < CheckinFallbackMin /\ CheckinFallbackMin <= y /\ y < z
    BY DailyAssumption, Zenon
  <2>2. QED BY <2>1, Zenon
<1>2. Before(Instants) <= a
  <2>1. \A n \in Instants : n \in Minutes
    BY FirstInstant
  <2>2. QED BY <2>1, First
<1>3. a \in Nat /\ b \in Nat /\ Before(Instants) \in Nat
  BY FirstInstant, InstantIs
<1>4. QED BY <1>1, <1>2, <1>3 DEF CheckinFallbackMin

LEMMA DecideKeeps ==
  ASSUME TypesInv, TodayInv, NEW t \in Ticks, Decide(t)
  PROVE  TodayInv'
<1>1. PICK s : s = tick[t]
  OBVIOUS
<1>2. /\ s.pc = "decide" /\ TickToday(s) /\ ck \in Marks /\ tries \in Nat /\ Idle.pc = "idle"
      /\ target.at \in Instants \cup {Never}
  BY <1>1 DEF Decide, InTick, TodayInv, TypesInv, TimesInv, Idle
<1>3. /\ s.day = day /\ s.at = minute /\ s.cfg["checkin_fallback"] = Fallback
      /\ Undecided /\ conf["auto_checkin"] /\ minute \in Instants /\ minute \in Nat /\ minute < 1440
      /\ day \in Nat
  <2>1. s.day = day /\ s.at = minute /\ s.cfg = [f \in CheckinFields |-> conf[f]]
    BY <1>2 DEF TickToday
  <2>2. "checkin_fallback" \in CheckinFields
    BY DEF CheckinFields
  <2>3. Undecided /\ conf["auto_checkin"]
    BY <1>1, <1>2 DEF Undecided, TodayInv
  <2>4. minute \in Instants /\ minute \in Nat /\ minute < 1440 /\ day \in Nat
    BY InstantIs, CheckFacts DEF TypesInv, ClockInv
  <2>5. QED BY <2>1, <2>2, <2>3, <2>4 DEF Fallback
<1>4. PICK main \in IF ck.day = day THEN {ck.main} ELSE MainAts(day, s.cfg) :
        /\ ck' = Entered(RolledDay(s, main), Stage(RolledDay(s, main), s))
        /\ overtaken' = (overtaken /\ ck.day = day)
        /\ tries' = IF Stage(RolledDay(s, main), s) # "none" THEN tries + 1 ELSE tries
        /\ Tick(t, IF Stage(RolledDay(s, main), s) = "none" THEN Idle
                   ELSE [pc |-> "status", at |-> s.at, day |-> s.day,
                         again |-> Stage(RolledDay(s, main), s) # "retry", for |-> None])
  BY <1>1, <1>3 DEF Decide
<1>5. PICK d : d = RolledDay(s, main)
  OBVIOUS
<1>6. PICK stage : stage = Stage(d, s)
  OBVIOUS
<1>7. /\ UNCHANGED <<up, closing, unreset, conf, acct, day, minute, ring, handler, mu>>
      /\ Fallback' = Fallback
  BY DEF Decide, CheckinStep, settings, clock, sched, Fallback
<1>8. d \in Marks /\ d.day = day /\ (ck.day = day => d = ck)
  <2>1. main \in Instants \cup {Never}
    BY <1>2, <1>4, MainInstant DEF Marks
  <2>2. CASE ck.day = day
    BY <1>2, <1>3, <1>5, <2>2 DEF RolledDay
  <2>3. CASE ck.day # day
    <3>1. d = [NoDay EXCEPT !.day = day, !.main = main]
      BY <1>3, <1>5, <2>3 DEF RolledDay
    <3>2. d \in Marks
      <4>1. day \in Nat
        BY <1>3
      <4>2. [NoDay EXCEPT !.day = day, !.main = main] \in Marks
        BY <2>1, <4>1, MarksWith, Zenon
      <4>3. QED BY <3>1, <4>2
    <3>3. QED BY <2>3, <3>1, <3>2 DEF NoDay
  <2>4. QED BY <2>2, <2>3
<1>9. Enough(d) /\ t \notin Again
  <2>1. t \notin Again
    BY <1>1, <1>2 DEF Again
  <2>2. CASE ck.day = day
    BY <1>8, <2>1, <2>2 DEF TodayInv, Counted, Hits, Enough
  <2>3. CASE ck.day # day
    <3>1. Again = {} /\ tries = 0
      BY <2>3 DEF TodayInv, TickToday, Again
    <3>2. d.mainHit = FALSE /\ d.fbHit = FALSE /\ d.retry = Never
      BY <1>3, <1>5, <2>3 DEF RolledDay, NoDay
    <3>3. IsFiniteSet({}) /\ Cardinality({}) = 0
      BY FS_EmptySet
    <3>4. QED BY <2>1, <3>1, <3>2, <3>3 DEF Enough, One
  <2>4. QED BY <2>2, <2>3
<1>10. /\ stage \in {"none", "retry", "main", "fallback"}
       /\ stage = "retry" => d.retry # Never
       /\ stage = "main" => ~d.mainHit /\ d.main # Never
       /\ stage = "fallback" => ~d.fbHit /\ Fallback
       /\ stage = "none" => \/ d.secured
                            \/ /\ minute >= d.main => d.mainHit
                               /\ Late(minute) => d.fbHit
  <2>1. /\ stage \in {"none", "retry", "main", "fallback"}
        /\ stage = "retry" => minute >= d.retry
        /\ stage = "main" => ~d.mainHit /\ minute >= d.main
        /\ stage = "fallback" => ~d.fbHit /\ Fallback
        /\ stage = "none" =>
             \/ d.secured
             \/ /\ minute >= d.main => d.mainHit
                /\ Fallback /\ minute >= CheckinFallbackMin => d.fbHit
    BY <1>3, <1>6, <1>8, StageIs
  <2>2. ~(minute >= Never)
    BY <1>3 DEF Never
  <2>3. QED BY <2>1, <2>2 DEF Late
<1>11. /\ ck' \in Marks /\ ck'.day = day /\ ck'.main = d.main /\ ck'.secured = d.secured
       /\ ck'.retry = IF stage = "retry" THEN Never ELSE d.retry
       /\ ck'.mainHit <=> d.mainHit \/ stage = "main"
       /\ ck'.fbHit <=> d.fbHit \/ stage = "fallback"
  <2>1. ck' = Entered(d, stage)
    BY <1>4, <1>5, <1>6
  <2>2. ck' \in Marks
    BY <1>8, <2>1, MarksWith
  <2>3. {"day", "main", "mainHit", "retry", "fbHit", "secured"} = DOMAIN d
    BY <1>8 DEF Marks
  <2>4. QED BY <1>8, <2>1, <2>2, <2>3 DEF Entered
<1>12. /\ tries' = IF stage # "none" THEN tries + 1 ELSE tries
       /\ ~overtaken'
  BY <1>4, <1>5, <1>6 DEF TodayInv, Counted
<1>13. PICK x : /\ Tick(t, x) /\ (x = Idle \/ (x.pc = "status" /\ x.day = day))
                /\ (x.pc = "status" /\ x.again) <=> stage \in {"main", "fallback"}
  <2>1. CASE stage = "none"
    BY <1>2, <1>4, <1>5, <1>6, <2>1
  <2>2. CASE stage # "none"
    <3>1. PICK b : b = (stage # "retry")
      OBVIOUS
    <3> DEFINE y == [pc |-> "status", at |-> s.at, day |-> s.day, again |-> b, for |-> None]
    <3>2. Tick(t, y)
      BY <1>4, <1>5, <1>6, <2>2, <3>1
    <3>3. y.pc = "status" /\ y.day = day /\ y.again = b
      BY <1>3
    <3> HIDE DEF y
    <3>4. QED BY <1>10, <2>2, <3>1, <3>2, <3>3
  <2>3. QED BY <2>1, <2>2
<1>14. /\ \A u \in Ticks : TickToday(tick[u])'
       /\ stage \in {"main", "fallback"} => Again' = Again \cup {t}
       /\ stage \notin {"main", "fallback"} => Again' = Again
  <2>1. /\ tick'[t] = x /\ \A u \in Ticks \ {t} : tick'[u] = tick[u]
        /\ Again \ {t} \subseteq Again' /\ Again' \subseteq Again \cup {t}
        /\ t \in Again' <=> x.pc \in {"status", "claim", "failed"} /\ x.again
    BY <1>13, TickOf DEF TypesInv
  <2>2. t \in Again' <=> stage \in {"main", "fallback"}
    BY <1>2, <1>13, <2>1
  <2>3. TickToday(x)'
    BY <1>2, <1>7, <1>11, <1>13 DEF TickToday
  <2>4. ASSUME NEW u \in Ticks \ {t} PROVE TickToday(tick[u])'
    BY <1>7, <1>11, <2>1 DEF TodayInv, TickToday
  <2>5. QED BY <1>9, <2>1, <2>2, <2>3, <2>4
<1>15. Counted'
  <2>1. Hits' \in Nat /\ One(d.mainHit) \in {0, 1} /\ One(d.fbHit) \in {0, 1}
        /\ One(d.retry # Never) \in {0, 1}
    BY OneIs DEF Hits
  <2>2. /\ stage \in {"main", "fallback"} => Hits' = One(d.mainHit) + One(d.fbHit) + 1
        /\ stage \notin {"main", "fallback"} => Hits' = One(d.mainHit) + One(d.fbHit)
    BY <1>10, <1>11 DEF Hits, One
  <2>3. One(ck'.retry # Never) = IF stage = "retry" THEN 0 ELSE One(d.retry # Never)
    BY <1>11 DEF One
  <2>4. stage = "retry" => One(d.retry # Never) = 1
    BY <1>10 DEF One
  <2>5. /\ IsFiniteSet(Again) /\ Cardinality(Again) \in Nat
        /\ tries + One(d.retry # Never) + Cardinality(Again) <= 2 * (One(d.mainHit) + One(d.fbHit))
        /\ One(d.mainHit) + One(d.fbHit) <= tries
    BY <1>9, FS_CardinalityType DEF Enough
  <2>6. /\ IsFiniteSet(Again')
        /\ Cardinality(Again') = IF stage \in {"main", "fallback"} THEN Cardinality(Again) + 1
                                 ELSE Cardinality(Again)
    BY <1>9, <1>14, <2>5, FS_AddElement
  <2>7. /\ tries' + One(ck'.retry # Never) + Cardinality(Again') <= 2 * Hits'
        /\ Hits' <= tries'
    BY <1>2, <1>10, <1>12, <2>1, <2>2, <2>3, <2>4, <2>5, <2>6
  <2>8. (ck'.mainHit => ck'.main # Never) /\ (ck'.fbHit => Fallback')
    BY <1>7, <1>9, <1>10, <1>11 DEF Enough
  <2>9. QED BY <1>12, <2>6, <2>7, <2>8 DEF Counted
<1>16. ASSUME NEW m \in Instants \ {Before(Instants)}, Passed(m)' PROVE Served(m)'
  <2>1. /\ \A n : Late(n)' <=> Late(n)
        /\ tries' \in Nat /\ tries' >= tries /\ (stage # "none" => tries' = tries + 1)
        /\ m \in Nat
    BY <1>2, <1>7, <1>12, InstantIs DEF Late
  <2>2. \A n \in Instants \ {Before(Instants)} :
          n < minute => /\ Served(n) /\ ck.day = day /\ ck'.main = ck.main
                        /\ ck'.secured = ck.secured
    BY <1>3, <1>8, <1>11 DEF TodayInv, Passed, Served
  <2>3. CASE m < minute
    BY <1>2, <1>7, <1>11, <2>1, <2>2, <2>3 DEF Served, Twice
  <2>4. CASE m = minute
    <3>1. ASSUME ~d.secured, m >= d.main \/ Late(m) PROVE tries' >= 1
      <4>1. CASE stage = "none"
        <5>1. d.mainHit \/ d.fbHit
          BY <1>10, <2>4, <3>1, <4>1
        <5>2. tries >= 1
          BY <1>2, <1>9, <5>1, OneIs DEF Enough, One
        <5>3. QED BY <1>2, <2>1, <5>2
      <4>2. QED BY <1>2, <2>1, <4>1
    <3>2. ASSUME ~d.secured, m >= d.main, NEW b \in Instants, Late(b), b < m PROVE tries' >= 2
      <4>1. b \in Nat /\ b # Before(Instants) /\ Late(m)
        BY <2>1, <3>2, FirstIsEarly, InstantIs DEF Late, CheckinFallbackMin
      <4>2. CASE stage = "none"
        <5>1. d.mainHit /\ d.fbHit
          BY <1>10, <2>4, <3>2, <4>1, <4>2
        <5>2. tries >= 2
          BY <1>2, <1>9, <5>1 DEF Enough, One
        <5>3. QED BY <1>2, <2>1, <5>2
      <4>3. CASE stage # "none"
        <5>1. Served(b) /\ ~ck.secured
          BY <1>11, <2>2, <2>4, <3>2, <4>1
        <5>2. tries >= 1
          BY <3>2, <5>1 DEF Served
        <5>3. QED BY <1>2, <2>1, <4>3, <5>2
      <4>4. QED BY <4>2, <4>3
    <3>3. QED BY <1>7, <1>11, <2>1, <3>1, <3>2 DEF Served, Twice
  <2>5. QED BY <1>3, <1>7, <1>16, <2>1, <2>3, <2>4 DEF Passed
<1>17. QED BY <1>3, <1>7, <1>11, <1>14, <1>15, <1>16 DEF TodayInv

LEMMA TriesFirst == Init => TriesInv
<1> SUFFICES ASSUME Init PROVE TriesInv
  OBVIOUS
<1>1. TypesInv /\ FollowInv
  BY TypesFirst, EntriesFirst DEF EntriesInv
<1>2. /\ mu = None /\ up /\ ~closing /\ ~unreset /\ ring = {} /\ ck = NoDay /\ day = 1 /\ tries = 0
      /\ handler = [p \in Panels |-> Idle] /\ tick = [t \in Ticks |-> Idle]
      /\ steady = (minute = Before(Instants))
  BY DEF Init
<1>3. Idle.pc = "idle" /\ NoDay.day = 0
  BY DEF Idle, NoDay
<1>4. ASSUME steady PROVE TodayInv
  <2>1. ASSUME NEW m \in Instants \ {Before(Instants)} PROVE ~Passed(m)
    <3>1. \A n \in Instants : n \in Minutes
      BY FirstInstant
    <3>2. Before(Instants) <= m /\ m \in Nat /\ Before(Instants) \in Nat
      BY <3>1, First, FirstInstant, InstantIs
    <3>3. minute = Before(Instants)
      BY <1>2, <1>4, Zenon
    <3>4. QED BY <1>2, <2>1, <3>2, <3>3 DEF Passed
  <2>2. \A t \in Ticks : TickToday(tick[t])
    BY <1>2, <1>3 DEF TickToday
  <2>3. ~Undecided
    BY <1>2, <1>3 DEF Undecided
  <2>4. QED BY <1>2, <1>3, <2>1, <2>2, <2>3 DEF TodayInv
<1>5. QED BY <1>1, <1>2, <1>4 DEF TriesInv, MuInv

\* Only midnight begins a day, and a steady one.
LEMMA OnlyMidnight == ASSUME Next, ~Midnight PROVE day' = day /\ (steady' => steady)
<1> USE DEF Quiet, CheckinStep, Machinery, Meanwhile, host, checkin
<1>1. CASE MinutePasses \/ TickPoolProbe \/ RefreshModels \/ BootFails \/ SweepEnds
  BY <1>1 DEF MinutePasses, TickPoolProbe, Rings, RefreshModels, BootFails, SweepEnds
<1>2. CASE Boot \/ Crash \/ Exit \/ Stop
  BY <1>2 DEF Boot, Assemble, Crash, Exit, Gone, Stop
<1>3. CASE \E t \in Ticks : TickCheckin(t) \/ TickStep(t)
  BY <1>3 DEF TickCheckin, Rings, TickStep, Decide, CheckinStatus, ClaimCheckin, Secure,
     RetryLater
<1>4. CASE \/ HandButton \/ ClickButton \/ SweepTick
           \/ \E r \in Runs : RunStep(r) \/ GrowthCatchupFire(r) \/ GrowthButton(r)
           \/ \E r \in CronRuns : TickGrowthChain(r) \/ TickTravel(r)
           \/ \E w \in Workers : \/ TaskButton(w) \/ RoundStep(w) \/ TickTaskQueue(w)
                                 \/ TickBlackcat(w)
           \/ \E a \in Accts : Arrival(a) \/ \E c \in Codes : Scoring(a, c)
  BY <1>4 DEF HandButton, ClickButton, SweepTick, RunStep, GrowthCatchupFire, GrowthButton,
     TickGrowthChain, TickTravel, TaskButton, RoundStep, TickTaskQueue, TickBlackcat, Arrival,
     Scoring, Pressed, Rings
<1>5. ASSUME NEW p \in Panels,
             \/ HandlerStep(p) \/ Look(p) \/ PutPassword(p)
             \/ (\E e \in Edits : PutSettings(p, e)) \/ \E a \in Accts \cup {None} : Save(p, a)
      PROVE  day' = day /\ (steady' => steady)
  <2>1. CASE HandlerStep(p)
    <3>1. CASE Reconfigure(p)
      BY <3>1 DEF Reconfigure, Assemble
    <3>2. CASE RefreshStarts(p) \/ Refresh(p) \/ InvalidateAccountCaches(p) \/ ResetCheckin(p)
      BY <3>2 DEF RefreshStarts, Refresh, InvalidateAccountCaches, ResetCheckin
    <3>3. CASE ResetAccountState(p)
      <4>1. UNCHANGED host /\ UNCHANGED checkin
        BY <3>3, Zenon DEF ResetAccountState
      <4>2. QED BY <4>1, Zenon
    <3>4. CASE Reconfigured(p) \/ Show(p)
      BY <3>4 DEF Reconfigured, Show
    <3>5. QED BY <2>1, <3>1, <3>2, <3>3, <3>4 DEF HandlerStep
  <2>2. CASE Look(p) \/ PutPassword(p) \/ \E a \in Accts \cup {None} : Save(p, a)
    BY <2>2 DEF Look, PutPassword, Save
  <2>3. CASE \E e \in Edits : PutSettings(p, e)
    BY <2>3 DEF PutSettings
  <2>4. QED BY <1>5, <2>1, <2>2, <2>3
<1>6. QED BY <1>1, <1>2, <1>3, <1>4, <1>5, DailyAssumption DEF Next

LEMMA TriesHold == TriesInv /\ [Next]_vars => TriesInv'
<1> SUFFICES ASSUME TriesInv, [Next]_vars PROVE TriesInv'
  OBVIOUS
<1>1. TypesInv' /\ FollowInv'
  BY TypesHold, FollowHolds DEF TriesInv, TypesInv, CheckInv, EntriesInv
<1>2. CASE UNCHANGED vars
  <2> USE <1>2 DEF vars, host, settings, clock, sched, checkin
  <2>1. MuInv'
    BY DEF TriesInv, MuInv
  <2>2. ASSUME TodayInv PROVE TodayInv'
    <3>1. Untouched
      BY DEF Untouched
    <3>2. QED BY <2>2, <3>1, UntouchedKeeps DEF TriesInv
  <2>3. QED BY <1>1, <2>1, <2>2 DEF TriesInv
<1>3. CASE Next
  <2>1. MuInv'
    BY <1>3, MuHolds DEF TriesInv
  <2>2. ASSUME Midnight, steady' PROVE TodayInv'
    BY <2>2, DayBegins DEF TriesInv
  <2>3. ASSUME steady, steady', ~Midnight PROVE TodayInv'
    <3>1. TypesInv /\ FollowInv /\ TodayInv
      BY <2>3 DEF TriesInv
    <3>2. CASE MinutePasses
      BY <3>1, <3>2, MinuteKeeps
    <3>3. CASE Untouched
      BY <3>1, <3>3, UntouchedKeeps
    <3>4. ASSUME NEW t \in Ticks, TickCheckin(t) \/ TickStep(t) PROVE TodayInv'
      BY <3>1, <3>4, TickStarts, DecideKeeps, AttemptsKeep DEF TickStep
    <3>5. QED BY <1>3, <2>3, <3>1, <3>2, <3>3, <3>4, TodayCases
  <2>4. ASSUME ~steady, steady' PROVE Midnight
    BY <1>3, <2>4, OnlyMidnight
  <2>5. QED BY <1>1, <2>1, <2>2, <2>3, <2>4 DEF TriesInv
<1>4. QED BY <1>2, <1>3

LEMMA StagesAre ==
  /\ Stages = One(ck.main # Never) + One(Fallback)
  /\ \E b, c \in Instants : CheckinFallbackMin <= b /\ b < c
<1>1. PICK b, c \in Instants : CheckinFallbackMin <= b /\ b < c
  BY DailyAssumption
<1>2. From(CheckinFallbackMin) # Never
  <2> DEFINE S == {n \in Instants : n >= CheckinFallbackMin}
  <2>1. S # {} /\ \A n \in S : n \in Minutes
    <3>1. b \in S
      BY <1>1, InstantIs DEF CheckinFallbackMin
    <3>2. QED BY <3>1, FirstInstant
  <2>2. Before(S) \in S
    BY <2>1, First
  <2>3. From(CheckinFallbackMin) = Before(S)
    BY DEF From
  <2> HIDE DEF S
  <2>4. Before(S) # Never
    BY <2>1, <2>2, MinuteIs
  <2>5. QED BY <2>3, <2>4
<1> DEFINE T == {s \in {"main", "fallback"} : IF s = "main" THEN ck.main # Never ELSE Fallback}
<1>3. Stages = Cardinality(T)
  BY <1>2 DEF Stages, Fallback
<1>4. IsFiniteSet({}) /\ Cardinality({}) = 0
  BY FS_EmptySet
<1>5. \A x : IsFiniteSet({} \cup {x}) /\ Cardinality({} \cup {x}) = 1
  BY <1>4, FS_AddElement
<1>6. Cardinality({"main"} \cup {"fallback"}) = 2
  <2>1. IsFiniteSet({"main"}) /\ Cardinality({"main"}) = 1 /\ "fallback" \notin {"main"}
    BY <1>5
  <2>2. QED BY <2>1, FS_AddElement
<1>b. ASSUME NEW x, T = {} \cup {x} PROVE Cardinality(T) = 1
  BY <1>5, <1>b
<1>7. Cardinality(T) = One(ck.main # Never) + One(Fallback)
  <2>1. CASE ck.main # Never /\ Fallback
    <3>1. T = {"main"} \cup {"fallback"}
      BY <2>1
    <3>2. QED BY <1>6, <2>1, <3>1 DEF One
  <2>2. CASE ck.main # Never /\ ~Fallback
    <3>1. T = {} \cup {"main"}
      BY <2>2
    <3>2. Cardinality(T) = 1
      BY <1>b, <3>1
    <3>3. One(ck.main # Never) + One(Fallback) = 1
      BY <2>2 DEF One
    <3>4. QED BY <3>2, <3>3
  <2>3. CASE ck.main = Never /\ Fallback
    <3>1. T = {} \cup {"fallback"}
      BY <2>3
    <3>2. Cardinality(T) = 1
      BY <1>b, <3>1
    <3>3. One(ck.main # Never) + One(Fallback) = 1
      BY <2>3 DEF One
    <3>4. QED BY <3>2, <3>3
  <2>4. CASE ck.main = Never /\ ~Fallback
    <3>1. T = {}
      BY <2>4
    <3>2. QED BY <1>4, <2>4, <3>1 DEF One
  <2>5. QED BY <2>1, <2>2, <2>3, <2>4
<1>8. QED BY <1>1, <1>3, <1>7

LEMMA DayEnds ==
  ASSUME TriesInv, Midnight, Over
  PROVE  signed[acct] = day \/ tries \in Stages..(2 * Stages)
<1>1. /\ TypesInv /\ TodayInv /\ ck.day = day /\ Counted
      /\ ring = {} /\ mu = None /\ NextInstant(minute) = Never
      /\ \A t \in Ticks : tick[t].pc = "idle"
  BY DEF TriesInv, TodayInv, Over, Midnight, Idle
<1>2. CASE ck.secured
  <2>1. \A p \in Panels : ~OldMark(p)
    BY <1>1 DEF TodayInv, OldMark
  <2>2. SecuredOwn
    BY <1>1, <2>1 DEF TypesInv, CheckInv, SecuredInv
  <2>3. QED BY <1>1, <1>2, <2>2 DEF SecuredOwn, Counted
<1>3. CASE ~ck.secured
  <2>1. /\ tries \in Nat /\ ck \in Marks /\ minute \in Instants
        /\ ck.main = Never \/ ck.main \in Instants
    BY <1>1 DEF TypesInv, TimesInv, ClockInv, Marks
  <2>2. \A n \in Instants : n <= minute
    <3> DEFINE S == {n \in Instants : n > minute}
    <3>1. S = {}
      <4>1. \A n \in S : n \in Minutes
        BY FirstInstant
      <4>2. S # {} => Before(S) \in S
        BY <4>1, First
      <4>3. Before(S) = Never
        BY <1>1 DEF NextInstant
      <4> HIDE DEF S
      <4>4. QED BY <4>1, <4>2, <4>3, MinuteIs
    <3>2. QED BY <2>1, <3>1, InstantIs
  <2>3. PICK b, c \in Instants : CheckinFallbackMin <= b /\ b < c
    BY StagesAre
  <2>4. /\ b < minute /\ CheckinFallbackMin <= b /\ CheckinFallbackMin <= minute
        /\ b \in Nat /\ minute \in Nat
    BY <2>1, <2>2, <2>3, InstantIs DEF CheckinFallbackMin
  <2>5. Served(minute)
    <3>1. ~Undecided
      BY <1>1 DEF Undecided
    <3>2. minute # Before(Instants)
      BY <2>1, <2>4, FirstIsEarly
    <3>3. QED BY <1>1, <2>1, <3>1, <3>2 DEF TodayInv, Passed
  <2>6. /\ minute >= ck.main \/ Fallback => tries >= 1
        /\ minute >= ck.main /\ Fallback => tries >= 2
    BY <1>3, <2>3, <2>4, <2>5 DEF Served, Twice, Late
  <2>7. ck.main # Never => minute >= ck.main
    BY <2>1, <2>2, InstantIs
  <2>8. Stages <= tries
    BY <2>1, <2>6, <2>7, StagesAre DEF One
  <2>9. tries <= 2 * Stages
    <3>1. /\ tries + One(ck.retry # Never) + Cardinality(Again) <= 2 * Hits
          /\ Cardinality(Again) \in Nat
      BY <1>1, FS_CardinalityType DEF Counted
    <3>2. /\ One(ck.mainHit) \in {0, 1} /\ One(ck.fbHit) \in {0, 1}
          /\ One(ck.retry # Never) \in {0, 1}
          /\ One(ck.main # Never) \in {0, 1} /\ One(Fallback) \in {0, 1}
      BY OneIs
    <3>3. One(ck.mainHit) <= One(ck.main # Never) /\ One(ck.fbHit) <= One(Fallback)
      BY <1>1 DEF Counted, One
    <3>4. QED BY <2>1, <3>1, <3>2, <3>3, StagesAre DEF Hits
  <2>10. Stages \in Nat
    BY StagesAre, OneIs
  <2>11. QED BY <2>1, <2>8, <2>9, <2>10
<1>4. QED BY <1>2, <1>3

\* On a day on which nothing was changed or stopped every stage the settings ask
\* for gets its attempt, however ticks interleave with attempts that are still
\* under way at the next minute, and no stage is repeated more than once: the day
\* ends with the account signed in, or with one or two attempts for every stage
\* (tickCheckin, decide, checkinRetryDelay).
THEOREM TriesEnough == Spec => DayTries
<1>1. TriesInv /\ [Next]_vars
        => [day' # day /\ Over => signed[acct] = day \/ tries \in Stages..(2 * Stages)]_vars
  BY OnlyMidnight, DayEnds DEF vars, host
<1>2. QED BY <1>1, TriesFirst, TriesHold, PTL DEF Spec, DayTries
=============================================================================
