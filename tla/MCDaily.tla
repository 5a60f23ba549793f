------------------------------- MODULE MCDaily -------------------------------
(* Instances of Daily for TLC. *)
EXTENDS Daily, TLC

MCInstants == {0, 540, 545, 1430, 1435}
MCCronAt == ("default" :> {540}) @@ ("minutely" :> MCInstants)
              @@ ("night" :> {1430}) @@ ("never" :> {}) @@ ("midnight" :> {0})

Still == [Defaults EXCEPT !["growth_report_cron"] = "never", !["growth_queue_cron"] = "never",
                          !["blackcat_cron"] = "never", !["growth_travel_cron"] = "never",
                          !["growth_report_count"] = 2, !["task_sweep_enabled"] = FALSE]
Set(f, S) == [x \in Fields |-> IF x \in DOMAIN S THEN S[x] ELSE f[x]]
Nothing == [f \in {} |-> 0]
Spending(f) == [e \in Events |-> IF e \in DOMAIN f THEN f[e] ELSE 0]

\* An account at rest, and one with rewards to take.
Bare == [sent |-> 0, door |-> TRUE, buddy |-> TRUE, gift |-> FALSE, comp |-> FALSE,
         tiers |-> {}, behind |-> {}, due |-> {}, cards |-> 0, chances |-> 0,
         trip |-> "idle", out |-> TRUE]
Ripe == [Bare EXCEPT !.door = FALSE, !.buddy = FALSE, !.gift = TRUE, !.comp = TRUE,
                     !.tiers = {"t7"}, !.behind = {"t14"}, !.cards = 1, !.out = FALSE]
Both(p) == [a \in Accts |-> IF a \in Enterprise THEN Bare ELSE p]
Tasked(t) == [a \in Accts |-> [c \in Codes |-> IF c \in DOMAIN t THEN t[c] ELSE "claimed"]]

Scene(f, e, m, spend, p, b) ==
  [file |-> f, env |-> e, minute |-> m, acct |-> "a", budget |-> Spending(spend),
   plant |-> Both(p), board |-> Tasked(b)]
Settled == [s \in {} |-> "claimed"]

\* The check-in: two days with failures; a window and restarts; an account or
\* settings that change.
Checkin == Set(Still, [auto_checkin |-> TRUE])
CheckinDays == Scene(Set(Checkin, [checkin_fallback |-> FALSE]), Nothing, 0,
                     [mark |-> 6, dawn |-> 2, fail |-> 4], Bare, Settled)
CheckinTwice == Scene(Checkin, Nothing, 540, [mark |-> 4, dawn |-> 1, fail |-> 2], Bare, Settled)
CheckinRandom ==
  Scene(Set(Checkin, [checkin_mode |-> "random", checkin_random_start |-> 540,
                      checkin_random_end |-> 546]), Nothing, 0,
        [mark |-> 4, stop |-> 1, fail |-> 1], Bare, Settled)
CheckinSwitch ==
  Scene(Checkin, Nothing, 0, [mark |-> 2, switch |-> 1, fail |-> 1], Bare, Settled)
CheckinEdit ==
  Scene(Checkin, Nothing, 0, [mark |-> 2, edit |-> 1, fail |-> 1], Bare, Settled)
CheckinTurned ==
  Scene(Set(Checkin, [checkin_cron |-> "never", checkin_fallback |-> FALSE]), Nothing, 0,
        [mark |-> 4, dawn |-> 1, edit |-> 1], Bare, Settled)
CheckinStopped ==
  Scene(Set(Checkin, [checkin_cron |-> "night"]), Nothing, 0,
        [mark |-> 4, dawn |-> 1, stop |-> 1], Bare, Settled)

\* The chain: by cron with a hand in between, by the panel, by the catch-up,
\* through midnight and a stop; an account that changes and comes back.
Growing == Set(Still, [auto_growth |-> TRUE, growth_report_cron |-> "default"])
ChainByCron ==
  Scene(Growing, Nothing, 0, [mark |-> 1, grow |-> 1, fail |-> 2], Ripe, Settled)
ChainByHand ==
  Scene(Set(Growing, [growth_travel_cron |-> "default", growth_report_jitter |-> 1]),
        Nothing, 0, [mark |-> 1, hand |-> 1, fail |-> 2], Ripe, Settled)
ChainSwitch ==
  Scene(Growing, Nothing, 545, [switch |-> 1, grow |-> 1],
        [Ripe EXCEPT !.behind = {}], Settled)
ChainBack ==
  Scene(Set(Growing, [growth_report_count |-> 1, auto_growth |-> FALSE]), Nothing, 545,
        [switch |-> 2, grow |-> 1], [Ripe EXCEPT !.behind = {}], Settled)
CatchupBack ==
  Scene(Set(Growing, [growth_report_count |-> 1]), Nothing, 545,
        [switch |-> 2], [Ripe EXCEPT !.behind = {}], Settled)
ChainDays ==
  Scene(Set(Growing, [growth_report_cron |-> "night"]), Nothing, 1430,
        [mark |-> 3, dawn |-> 1, stop |-> 1, grow |-> 2],
        [Ripe EXCEPT !.behind = {}, !.due = {"t14"}], Settled)

\* The task centre: sweeps, rounds of the panel and of cron, clicks; an account
\* that changes under them.
Sweeping2 == Set(Still, [auto_growth |-> TRUE, task_sweep_enabled |-> TRUE])
Offered == [chat |-> "offered", mini |-> "done", night |-> "accepted"]
Rounds == Scene(Sweeping2, Nothing, 545, [task |-> 1, click |-> 1, fail |-> 1], Bare, Offered)
RoundsByNight ==
  Scene(Set(Sweeping2, [blackcat_cron |-> "night", growth_queue_cron |-> "night"]), Nothing,
        545, [mark |-> 1], Bare, Offered)
RoundsSwitch ==
  Scene(Sweeping2, Nothing, 545, [task |-> 1, switch |-> 1], Bare, [mini |-> "done"])
Looks == Scene(Still, Nothing, 545, [look |-> 2, switch |-> 2, hand |-> 1], Bare, Settled)

\* Settings changed by two handlers, with writes that fail, stops and an
\* environment; the region and the list of models, from a first start.
Edited == Scene(Sweeping2, Nothing, 540, [edit |-> 2, stop |-> 1], Bare, Settled)
EditedAgain ==
  Scene(Set(Checkin, [blackcat_cron |-> "invalid"]),
        [pool_session_ttl |-> 3, growth_report_count |-> 50,
         task_sweep_minutes |-> 5000, checkin_random_end |-> 600], 540,
        [edit |-> 2, fail |-> 1, stop |-> 1], Bare, Settled)
\* The environment asks for a sweep every 153722868 minutes, which is a negative
\* number of nanoseconds; an edit puts the minutes into their range.
Overflow ==
  Scene(Sweeping2, [task_sweep_minutes |-> 153722868], 540, [edit |-> 1, stop |-> 1],
        Bare, Settled)
Regions == Scene(Missing, Nothing, 540, [edit |-> 2, refresh |-> 1], Bare, Settled)

MCScenes == {CheckinDays, CheckinTwice, CheckinRandom, CheckinSwitch, CheckinEdit,
             CheckinTurned, CheckinStopped, ChainByCron, ChainByHand, ChainSwitch, ChainBack,
             CatchupBack, ChainDays, Rounds, RoundsByNight, RoundsSwitch, Looks, Edited,
             EditedAgain, Overflow, Regions}

MCEdits ==
  {[region |-> "global"], [region |-> "cn", auto_growth |-> FALSE],
   [auto_checkin |-> TRUE, checkin_mode |-> "random", checkin_random_start |-> 1000,
    checkin_fallback |-> TRUE],
   [task_sweep_minutes |-> 0, resource_cache_seconds |-> 0, growth_report_jitter |-> 99],
   [pool_enabled |-> TRUE, pool_session_ttl |-> 1, pool_max_retry |-> 9],
   [checkin_random_start |-> 700, checkin_random_end |-> 800, growth_queue_cron |-> "night"],
   [chat_timeout_seconds |-> 99999]}
=============================================================================
