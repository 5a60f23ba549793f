------------------------------ MODULE Settings ------------------------------
(***************************************************************************)
(* config.Manager: the settings in memory, config.json, and the            *)
(* environment.                                                            *)
(*                                                                         *)
(* Load reads the file, puts every value into its range (Normalize), lays  *)
(* the variables of the environment over it, cuts some of those at their   *)
(* upper limit, and writes the result back.  Update works on a copy, gives *)
(* the fields set by the environment their value back, normalizes, writes, *)
(* and keeps the old settings if the write fails.  The file is written in  *)
(* place: a write that fails or a crash can leave a text no start accepts. *)
(*                                                                         *)
(* Times of day are minutes, a text that is none is -1; a cron expression  *)
(* is a name, "" a blank one.                                              *)
(***************************************************************************)
EXTENDS Integers

CONSTANTS
  Missing, Torn,   \* config.json does not exist; does not parse
  Edits            \* bound: what the panel sends

Switches == {"auto_checkin", "checkin_fallback", "auto_growth",
             "task_sweep_enabled", "embeddings_enabled", "pool_enabled"}
Crons == {"checkin_cron", "growth_report_cron", "growth_travel_cron",
          "growth_queue_cron", "blackcat_cron", "pool_probe_cron"}
Window == {"checkin_random_start", "checkin_random_end"}

\* A number under its minimum becomes the third value, one over its maximum
\* the maximum; Largest stands for no maximum.
Largest == 2147483647
Range3(lo, hi, low) == [min |-> lo, max |-> hi, low |-> low]
Bounds ==
  [task_sweep_minutes     |-> Range3(1, 1440, 15),
   growth_report_count    |-> Range3(1, 10, 1),
   growth_report_jitter   |-> Range3(0, 10, 0),
   resource_cache_seconds |-> Range3(1, Largest, 300),
   log_retention_days     |-> Range3(1, Largest, 90),
   log_max_size_mb        |-> Range3(1, Largest, 50),
   chat_timeout_seconds   |-> Range3(1, 3600, 60),
   pool_session_ttl       |-> Range3(5, 1440, 180),
   pool_max_retry         |-> Range3(0, 5, 0),
   pool_cool_max_min      |-> Range3(5, 2880, 360)]
Numbers == DOMAIN Bounds

Fields == Switches \cup Crons \cup Window \cup Numbers
            \cup {"listen", "region", "checkin_mode", "password"}

Defaults ==
  [listen |-> "default", region |-> "cn", password |-> "",
   auto_checkin |-> FALSE, checkin_mode |-> "fixed", checkin_cron |-> "default",
   checkin_random_start |-> 540, checkin_random_end |-> 1080, checkin_fallback |-> TRUE,
   auto_growth |-> FALSE, growth_report_cron |-> "default", growth_travel_cron |-> "default",
   growth_queue_cron |-> "default", growth_report_count |-> 10, growth_report_jitter |-> 0,
   blackcat_cron |-> "default", task_sweep_enabled |-> TRUE, task_sweep_minutes |-> 15,
   resource_cache_seconds |-> 300, log_retention_days |-> 90, log_max_size_mb |-> 50,
   chat_timeout_seconds |-> 60, embeddings_enabled |-> FALSE, pool_enabled |-> FALSE,
   pool_session_ttl |-> 180, pool_max_retry |-> 2, pool_cool_max_min |-> 360,
   pool_probe_cron |-> "default"]

\* The rest are texts.
ValueOf(f, v) ==
  /\ f \in Switches => v \in BOOLEAN
  /\ f \in Window => v \in -1..1439
  /\ f \in Numbers => v \in Int
IsConfig(c) == DOMAIN c = Fields /\ \A f \in Fields : ValueOf(f, c[f])
IsPart(e) == DOMAIN e \subseteq Fields /\ \A f \in DOMAIN e : ValueOf(f, e[f])

\* Load takes a variable only if it is not blank, and a number only if it is
\* over 0 (envStr, envBool, envInt).
IsEnv(e) ==
  /\ IsPart(e)
  /\ \A f \in DOMAIN e \cap Numbers : e[f] > 0
  /\ \A f \in DOMAIN e \ (Numbers \cup Window \cup Switches) : e[f] # ""

ASSUME SettingsAssumption == Missing # Torn /\ \A e \in Edits : IsPart(e)

VARIABLES
  conf,        \* Manager.cfg
  file,        \* config.json
  env          \* the fields the environment sets (Manager.envSets), with values

settings == <<conf, file, env>>

-----------------------------------------------------------------------------
(* Pure functions. *)
Under(c, e) == [f \in Fields |-> IF f \in DOMAIN e THEN e[f] ELSE c[f]]

MaxCheckinWindowEnd == 23 * 60 + 30
\* ParseHHMM, ValidateCheckinWindow
ValidWindow(s, e) == 0 <= s /\ s < e /\ e <= MaxCheckinWindowEnd

InBounds(f, n) == Bounds[f].min <= n /\ n <= Bounds[f].max
Within(f, n) == IF n < Bounds[f].min THEN Bounds[f].low
                ELSE IF n > Bounds[f].max THEN Bounds[f].max ELSE n

NormalWindow(c, f) ==
  IF ValidWindow(c["checkin_random_start"], c["checkin_random_end"])
  THEN c[f] ELSE Defaults[f]

Normalize(c) ==
  [f \in Fields |->
     CASE f \in Numbers -> Within(f, c[f])
       [] f \in Window -> NormalWindow(c, f)
       [] f \in Crons \cup {"listen"} -> IF c[f] = "" THEN Defaults[f] ELSE c[f]
       [] f = "region" -> IF c[f] = "global" THEN "global" ELSE "cn"
       [] f = "checkin_mode" -> IF c[f] = "random" THEN "random" ELSE "fixed"
       [] OTHER -> c[f]]

\* The upper limits Load applies again after the environment.
Limited == {"chat_timeout_seconds", "growth_report_count", "growth_report_jitter",
            "pool_session_ttl", "pool_max_retry", "pool_cool_max_min"}
Unlimited(c) == c                                                \* mutant
Limit(c) ==
  [f \in Fields |-> IF f \in Limited /\ c[f] > Bounds[f].max
                    THEN Bounds[f].max ELSE c[f]]

FirstPassword(c) ==
  IF c["password"] = "" THEN [c EXCEPT !["password"] = "initial"] ELSE c

\* What Load makes of a file and an environment.
Loaded(text, e) ==
  FirstPassword(Limit(Under(Normalize(IF text = Missing THEN Defaults ELSE text), e)))

\* RollReportCount: the numbers of reports a run may send.
RollReportCount(base, jitter) ==
  LET j == Within("growth_report_jitter", jitter) IN
  {n \in 1..10 : base - j <= n /\ n <= base + j}

-----------------------------------------------------------------------------
(* The panel's filter (putSettings, putExperiments): what it refuses, and  *)
(* what it puts into range or leaves out before it calls Update.           *)
Acceptable(e, c) ==
  /\ "region" \in DOMAIN e => e["region"] \in {"cn", "global"}
  /\ "checkin_mode" \in DOMAIN e => e["checkin_mode"] \in {"fixed", "random"}
  /\ Window \cap DOMAIN e # {} =>
       ValidWindow(Under(c, e)["checkin_random_start"], Under(c, e)["checkin_random_end"])
  /\ \A f \in Crons \cap DOMAIN e : e[f] \notin {"", "invalid"}
  /\ "chat_timeout_seconds" \in DOMAIN e =>
       InBounds("chat_timeout_seconds", e["chat_timeout_seconds"])

Nearest(f, n) == IF n < Bounds[f].min THEN Bounds[f].min
                 ELSE IF n > Bounds[f].max THEN Bounds[f].max ELSE n
Ignored(e) == {f \in DOMAIN e \cap {"resource_cache_seconds", "log_retention_days",
                                    "log_max_size_mb"} : e[f] <= 0}
Clamped == {"task_sweep_minutes", "growth_report_count", "growth_report_jitter"}
Experiments == {"embeddings_enabled", "pool_enabled", "pool_session_ttl",
                "pool_max_retry", "pool_cool_max_min", "pool_probe_cron"}

\* The function handed to Update.  The page of the settings sets a stored cron
\* that does not parse to its default, the page of the experiments does not.
Repaired(e) == IF DOMAIN e \subseteq Experiments THEN {}
               ELSE Crons \ (DOMAIN e \cup {"pool_probe_cron"})
Applied(e, c) ==
  [f \in Fields |->
     CASE f \in DOMAIN e \cap Clamped -> Nearest(f, e[f])
       [] f \in (DOMAIN e \ Clamped) \ Ignored(e) -> e[f]
       [] f \in Repaired(e) /\ c[f] = "invalid" -> Defaults[f]
       [] OTHER -> c[f]]

-----------------------------------------------------------------------------
(* Operations; a start after a crash or a stop is a LoadSettings. *)
\* saveLocked: os.WriteFile truncates, then writes.
Written(c) == file' = c
NotWritten == file' \in {file, Torn}

LoadSettings(e) ==
  /\ file # Torn /\ env' = e
  /\ conf' = Loaded(file, e) /\ Written(conf')

\* The text does not parse, or the result cannot be written: no start.
LoadFails ==
  /\ \/ file = Torn /\ UNCHANGED file
     \/ file # Torn /\ NotWritten
  /\ UNCHANGED <<conf, env>>

\* Update's list leaves out the password.
Restore(new, old) ==
  [f \in Fields |-> IF f \in DOMAIN env \ {"password"} THEN old[f] ELSE new[f]]

\* Update, with an edit the panel accepts.
UpdateSettings(e) ==
  /\ Acceptable(e, conf)
  /\ conf' = Normalize(Restore(Applied(e, conf), conf))
  /\ Written(conf')
  /\ UNCHANGED env

KeepNew(e) == conf' = Normalize(Restore(Applied(e, conf), conf))  \* mutant
RollBack(e) == UNCHANGED conf

UpdateFails(e) ==
  /\ Acceptable(e, conf) /\ NotWritten
  /\ RollBack(e) /\ UNCHANGED env

SetAdminPasswordHash(p) ==
  /\ conf' = [conf EXCEPT !["password"] = p]
  /\ Written(conf')
  /\ UNCHANGED env

PasswordFails == NotWritten /\ UNCHANGED <<conf, env>>

=============================================================================
