------------------------------- MODULE Growth -------------------------------
(***************************************************************************)
(* The growth chain of the scheduler (growth.go): reports, adoption of the *)
(* pet, gifts, make-up card, redeeming of streak tiers, lottery, travel.   *)
(*                                                                         *)
(* A run of the chain, started by cron, by the catch-up timer or by the    *)
(* panel, holds growthMu (TryLock: a second one is turned away) and makes  *)
(* one call upstream after the other; what it has done today it keeps in   *)
(* growthState and, for the next process, in SQLite (report_day, adopt_day,*)
(* reward_day).  The patrol of the travels and three buttons of the panel  *)
(* do not take growthMu.  The calls go out with the account that is logged *)
(* in when each of them is made.                                           *)
(***************************************************************************)
EXTENDS Host

CONSTANTS
  Runs,        \* goroutines that run the chain or a part of it
  Tiers,       \* the streak tiers (7d, 14d, 28d)
  Door,        \* reports that open the adoption (chat_5)
  MaxDraws     \* growthLotteryMaxDraws

\* Upstream, per account: reports today, chat_5 reached, pet, gift and
\* compensation not yet taken, tiers that can be redeemed, those a made-up day
\* opens, those the next day opens, cards, draws, the pet's travel, sent today.
PlantStates ==
  [sent: Nat, door: BOOLEAN, buddy: BOOLEAN, gift: BOOLEAN, comp: BOOLEAN,
   tiers: SUBSET Tiers, behind: SUBSET Tiers, due: SUBSET Tiers, cards: Nat,
   chances: Nat, trip: {"idle", "traveling", "arrived"}, out: BOOLEAN]

\* The limit of the draws protects against balances that do not occur.
ASSUME GrowthAssumption ==
  /\ {Door, MaxDraws} \subseteq Nat \ {0} /\ None \notin Runs
  /\ IsFiniteSet(Tiers) /\ Cardinality(Tiers) <= MaxDraws

VARIABLES
  gmu,         \* growthMu: the goroutine that holds it
  gday,        \* growthState
  flags,       \* report_day, adopt_day, reward_day: the day, or 0
  run,         \* per goroutine
  plant,       \* upstream
  full,        \* history: accounts all reports of a run of today have reached
  excused      \* history: accounts a failed call, a hand or a cut-off run has met

ghistory == <<full, excused>>
growth == <<gmu, gday, flags, run, plant, ghistory>>

Flags == {"report", "adopt", "reward"}
NoFlags == [f \in Flags |-> FALSE]
Idle == [pc |-> "idle"]
Unread == {None}
RunStates ==
  {Idle}
    \cup [pc: {"report", "streak", "adopt", "late", "gift", "comp", "info", "makeup",
               "reread", "redeem", "chances", "draw", "travel", "depart", "end"},
          kind: {"chain", "report", "adopt", "travel"}, day: Nat, all: Nat, left: Nat,
          info: (SUBSET Tiers) \cup {Unread}, reported: BOOLEAN, adopted: BOOLEAN]
    \cup [pc: {"tier"}, tier: Tiers, day: Nat]

GrowthTypeOK ==
  /\ gmu \in Runs \cup {None}
  /\ gday \in [day: Nat, done: [Flags -> BOOLEAN]]
  /\ flags \in [Flags -> Nat]
  /\ run \in [Runs -> RunStates] /\ plant \in [Accts -> PlantStates]
  /\ full \subseteq Accts /\ excused \subseteq Accts

\* Draws an earlier day has left wait for the next tier (stepRewardChain).
Leftover == {a \in Accts : plant[a].chances > 0}

GrowthInit ==
  /\ gmu = None /\ gday = [day |-> 0, done |-> NoFlags]
  /\ flags = [f \in Flags |-> 0]
  /\ run = [r \in Runs |-> Idle]
  /\ full = {} /\ excused = Leftover

-----------------------------------------------------------------------------
Become(r, s) == run' = [run EXCEPT ![r] = s]
Goto(r, p) == Become(r, [run[r] EXCEPT !.pc = p])
At(r, p) == up /\ run[r].pc = p

Mine == plant[acct]
Upstream(p) == plant' = [plant EXCEPT ![acct] = p]

\* A goroutine that ends gives growthMu back if it has it.
Unlocks(r) == gmu' = IF gmu = r THEN None ELSE gmu
Stays == UNCHANGED <<gmu, gday, flags>>
Excuse == excused' = excused \cup ({acct} \ {None})
\* What a run has done for an account it is taken from stays half done.
Interrupted == IF gmu = None THEN UNCHANGED excused ELSE Excuse

\* rollGrowthDayLocked: on a new day, or in a new process, the flags of today
\* come from SQLite.
Restored == [f \in Flags |-> flags[f] = day]
Rolled == IF gday.day = day THEN gday ELSE [day |-> day, done |-> Restored]

Marked(f) == gday.done[f]
MarkedAt(d, f) == [flags EXCEPT ![f] = d]
Mark(r, f) ==
  /\ gday' = [gday EXCEPT !.done[f] = TRUE]
  /\ flags' = MarkedAt(run[r].day, f)

-----------------------------------------------------------------------------
(* Starts: the precondition, TryLock, rollGrowthDayLocked. *)
Ready(r) == up /\ run[r] = Idle /\ Allowed
TryLock(r) == gmu = None /\ gmu' = r
Job(p, k, n, rep) ==
  [pc |-> p, kind |-> k, day |-> day, all |-> n, left |-> n, info |-> Unread,
   reported |-> rep, adopted |-> FALSE]
BeginsLocked(r) ==
  /\ Ready(r) /\ TryLock(r) /\ gday' = Rolled
  /\ UNCHANGED <<flags, plant, ghistory>>

Counts == RollReportCount(conf["growth_report_count"], conf["growth_report_jitter"])

\* A chain whose reports are done skips them and the streak check.
RunGrowthChain(r) ==
  /\ BeginsLocked(r)
  /\ \E n \in Counts :
       Become(r, Job(IF gday'.done["report"] THEN "adopt" ELSE "report",
                     "chain", n, FALSE))
\* By hand, and with a number of one's own (1 stands for it) or the usual one.
RunActivityReports(r) ==
  /\ BeginsLocked(r)
  /\ \E n \in Counts \cup {1} : Become(r, Job("report", "report", n, FALSE))
RunGrowthAdopt(r) == BeginsLocked(r) /\ Become(r, Job("adopt", "adopt", 0, TRUE))
RunGrowthRedeem(r, t) ==
  BeginsLocked(r) /\ Become(r, [pc |-> "tier", tier |-> t, day |-> day])
RunTravelTick(r) ==
  /\ Ready(r) /\ Become(r, Job("travel", "travel", 0, FALSE))
  /\ Stays /\ UNCHANGED <<plant, ghistory>>

-----------------------------------------------------------------------------
(* The steps, one call upstream each. *)
After(r, p) == IF run[r].kind = "chain" THEN p ELSE "end"

\* stepReports
Reported(p) == [p EXCEPT !.sent = @ + 1, !.door = @ \/ p.sent + 1 >= Door]
Report(r) ==
  /\ At(r, "report") /\ Answered
  /\ Upstream(Reported(Mine))
  /\ IF run[r].left > 1
     THEN /\ Become(r, [run[r] EXCEPT !.left = @ - 1])
          /\ UNCHANGED <<gday, flags>>
     ELSE /\ Become(r, [run[r] EXCEPT !.pc = After(r, "streak"), !.left = 0,
                                      !.reported = TRUE])
          /\ gday' = [gday EXCEPT !.done["report"] = TRUE, !.done["adopt"] = FALSE]
          /\ flags' = [MarkedAt(run[r].day, "report") EXCEPT
                         !["adopt"] = IF Marked("adopt") THEN 0 ELSE @]
  /\ full' = IF run[r].left = 1 /\ Mine.sent + 1 >= run[r].all
             THEN full \cup {acct} ELSE full
  /\ UNCHANGED <<gmu, excused>>

DoneAnyway(r) ==                                                 \* mutant
  gday' = [gday EXCEPT !.done["report"] = TRUE] /\ UNCHANGED flags
NotDone(r) == UNCHANGED <<gday, flags>>

ReportFails(r) ==
  /\ At(r, "report") /\ Failed
  /\ Goto(r, After(r, "adopt")) /\ NotDone(r)
  /\ Excuse
  /\ UNCHANGED <<gmu, plant, full>>

\* stepStreakCheck: what it reads serves the reward chain.
StreakCheck(r) ==
  /\ At(r, "streak")
  /\ \/ Answered
        /\ Become(r, [run[r] EXCEPT !.pc = "adopt", !.info = Mine.tiers])
     \/ Failed /\ Goto(r, "adopt")
  /\ Stays /\ UNCHANGED <<plant, ghistory>>

\* stepAdopt: BuddyInfo, BuddyAgreement, BuddyFirst.  The chain tries again
\* before the travel, and then never against the flag.
Forced(r) == run[r].pc = "adopt" /\ run[r].reported
AdoptSkipped(r) == ~Forced(r) /\ Marked("adopt")
Adopt(r) ==
  LET next == IF run[r].pc = "late" THEN "end" ELSE After(r, "gift") IN
  /\ At(r, "adopt") \/ At(r, "late")
  /\ UNCHANGED <<gmu, ghistory>>
  /\ \/ /\ Answered /\ ~AdoptSkipped(r) /\ ~Mine.buddy
        /\ IF Mine.door
           THEN /\ Upstream([Mine EXCEPT !.buddy = TRUE])
                /\ Become(r, [run[r] EXCEPT !.pc = next, !.adopted = TRUE])
                /\ UNCHANGED <<gday, flags>>
           ELSE Mark(r, "adopt") /\ Goto(r, next) /\ UNCHANGED plant
     \/ /\ Goto(r, next) /\ UNCHANGED <<gday, flags, plant>>
        /\ \/ AdoptSkipped(r) /\ Local
           \/ ~AdoptSkipped(r) /\ Answered /\ Mine.buddy
           \/ ~AdoptSkipped(r) /\ Failed

\* stepBonus: the gift, then the compensation if its status says it is open.
Gift(r) ==
  /\ At(r, "gift") /\ Goto(r, "comp") /\ Stays /\ UNCHANGED ghistory
  /\ \/ Answered /\ Upstream([Mine EXCEPT !.gift = FALSE])
     \/ Failed /\ UNCHANGED plant
Compensation(r) ==
  /\ At(r, "comp") /\ Goto(r, "info") /\ Stays /\ UNCHANGED ghistory
  /\ \/ Answered /\ Upstream([Mine EXCEPT !.comp = FALSE])
     \/ Failed /\ UNCHANGED plant

\* stepRewardChain: once a day; a failing read leaves it for the next run.
ToMakeup(r, tiers) ==
  Become(r, [run[r] EXCEPT !.pc = "makeup", !.info = tiers, !.left = 0])
Info(r) ==
  /\ At(r, "info") /\ Stays /\ UNCHANGED <<plant, ghistory>>
  /\ \/ Local /\ Marked("reward") /\ Goto(r, "travel")
     \/ Local /\ ~Marked("reward") /\ run[r].info # Unread /\ ToMakeup(r, run[r].info)
     \/ /\ ~Marked("reward") /\ run[r].info = Unread
        /\ \/ Answered /\ ToMakeup(r, Mine.tiers)
           \/ Failed /\ Goto(r, "travel")

\* makeupYesterday: a card covers the gap, and opens the tiers behind it.
MadeUp(p) ==
  [p EXCEPT !.cards = @ - 1, !.tiers = @ \cup p.behind, !.behind = {}]
AlwaysMakeUp(p) == TRUE                                          \* mutant
CanMakeUp(p) == p.behind # {} /\ p.cards > 0
Makeup(r) ==
  /\ At(r, "makeup") /\ Stays /\ UNCHANGED full
  /\ \/ /\ Answered /\ UNCHANGED excused
        /\ IF CanMakeUp(Mine)
           THEN Upstream(MadeUp(Mine)) /\ Goto(r, "reread")
           ELSE UNCHANGED plant /\ Goto(r, "redeem")
     \/ Failed /\ Goto(r, "redeem") /\ UNCHANGED plant /\ Excuse
Reread(r) ==
  /\ At(r, "reread") /\ Stays /\ UNCHANGED <<plant, full>>
  /\ \/ /\ Answered /\ UNCHANGED excused
        /\ Become(r, [run[r] EXCEPT !.pc = "redeem", !.info = Mine.tiers])
     \/ Failed /\ Goto(r, "redeem") /\ Excuse

\* Redeeming gives a draw of the lottery; a tier upstream does not grant is
\* passed over.
Redeemed(p, t) ==
  IF t \in p.tiers THEN [p EXCEPT !.tiers = @ \ {t}, !.chances = @ + 1] ELSE p
HighestOnly(r, t) == {}                                           \* mutant
NextTiers(r, t) == run[r].info \ {t}

Redeem(r) ==
  /\ At(r, "redeem") /\ UNCHANGED full
  /\ \/ \E t \in run[r].info :
          /\ LET rest == NextTiers(r, t) IN
             Become(r, [run[r] EXCEPT !.info = rest, !.left = 1])
          /\ \/ Answered /\ Upstream(Redeemed(Mine, t)) /\ UNCHANGED excused
             \/ Failed /\ UNCHANGED plant /\ Excuse
          /\ UNCHANGED <<gmu, gday, flags>>
     \/ /\ run[r].info = {} /\ Local /\ Mark(r, "reward")
        /\ Goto(r, IF run[r].left = 0 THEN "travel" ELSE "chances")
        /\ UNCHANGED <<gmu, plant, excused>>

\* stepLottery
Chances(r) ==
  /\ At(r, "chances") /\ Stays /\ UNCHANGED <<plant, full>>
  /\ \/ /\ Answered /\ UNCHANGED excused
        /\ LET n == IF Mine.chances > MaxDraws THEN MaxDraws ELSE Mine.chances IN
           Become(r, [run[r] EXCEPT !.pc = IF n = 0 THEN "travel" ELSE "draw", !.left = n])
     \/ Failed /\ Goto(r, "travel") /\ Excuse

Drawn(p) == IF p.chances = 0 THEN p ELSE [p EXCEPT !.chances = @ - 1]

Draw(r) ==
  /\ At(r, "draw") /\ Stays /\ UNCHANGED full
  /\ \/ /\ Answered /\ Upstream(Drawn(Mine)) /\ UNCHANGED excused
        /\ IF Mine.chances = 0 THEN Goto(r, "travel")
           ELSE Become(r, [run[r] EXCEPT !.pc = IF run[r].left > 1 THEN "draw" ELSE "travel",
                                         !.left = @ - 1])
     \/ Failed /\ Goto(r, "travel") /\ UNCHANGED plant
        /\ Excuse

\* stepTravel: look, then one action at most; the chain adopts a pet first.
Travel(r) ==
  LET bound == Mine.trip = "arrived"
                 \/ (Mine.trip = "idle" /\ ~Mine.out /\ ~run[r].adopted) IN
  /\ At(r, "travel") /\ Stays /\ UNCHANGED <<plant, ghistory>>
  /\ \/ Answered /\ ~Mine.buddy /\ Goto(r, After(r, "late"))
     \/ Answered /\ Mine.buddy /\ Goto(r, IF bound THEN "depart" ELSE "end")
     \/ Failed /\ Goto(r, "end")
\* TravelClaim or TravelDepart: upstream refuses what another has done already.
Depart(r) ==
  /\ At(r, "depart") /\ Goto(r, "end") /\ Stays /\ UNCHANGED ghistory
  /\ \/ /\ Answered
        /\ CASE Mine.trip = "arrived" -> Upstream([Mine EXCEPT !.trip = "idle"])
             [] Mine.trip = "idle" /\ ~Mine.out ->
                  Upstream([Mine EXCEPT !.trip = "traveling", !.out = TRUE])
             [] OTHER -> UNCHANGED plant
     \/ Failed /\ UNCHANGED plant

\* The deferred write of report_day, and growthMu.
End(r) ==
  /\ At(r, "end") /\ Become(r, Idle) /\ Unlocks(r) /\ Local
  /\ flags' = IF run[r].kind = "chain" /\ Marked("report")
              THEN MarkedAt(run[r].day, "report") ELSE flags
  /\ UNCHANGED <<gday, plant, ghistory>>

\* RunGrowthRedeem: only a success sets the flag.
RedeemTier(r) ==
  /\ At(r, "tier") /\ Become(r, Idle) /\ Unlocks(r) /\ UNCHANGED full
  /\ \/ /\ Answered /\ run[r].tier \in Mine.tiers
        /\ Upstream(Redeemed(Mine, run[r].tier)) /\ Mark(r, "reward") /\ Excuse
     \/ /\ UNCHANGED <<plant, gday, flags, excused>>
        /\ \/ Answered /\ run[r].tier \notin Mine.tiers
           \/ Failed

-----------------------------------------------------------------------------
(* Buttons of the panel that do not take growthMu: one draw, a made-up day, *)
(* gift and compensation.                                                  *)
ByHand(p) ==
  /\ up /\ Allowed /\ Spend("hand") /\ Upstream(p) /\ Excuse
  /\ Stays /\ UNCHANGED <<run, full>>
GrowthLottery == acct # None /\ Mine.chances > 0 /\ ByHand(Drawn(Mine))
GrowthMakeup == acct # None /\ CanMakeUp(Mine) /\ ByHand(MadeUp(Mine))
GrowthBonus == acct # None /\ ByHand([Mine EXCEPT !.gift = FALSE, !.comp = FALSE])

\* ResetAccountState, its part under growthMu.
ResetGrowth ==
  /\ gmu = None
  /\ gday' = [day |-> 0, done |-> NoFlags] /\ flags' = [f \in Flags |-> 0]
  /\ UNCHANGED <<gmu, run, plant, ghistory>>

\* What a step of a goroutine may be.
Step(r) ==
  \/ Report(r) \/ ReportFails(r) \/ StreakCheck(r) \/ Adopt(r) \/ Gift(r)
  \/ Compensation(r) \/ Info(r) \/ Makeup(r) \/ Reread(r) \/ Redeem(r)
  \/ Chances(r) \/ Draw(r) \/ Travel(r) \/ Depart(r) \/ End(r) \/ RedeemTier(r)

\* Upstream's own steps: a pet arrives; a new day.
Arrives(a) ==
  /\ plant[a].trip = "traveling"
  /\ plant' = [plant EXCEPT ![a].trip = "arrived"]
  /\ UNCHANGED <<gmu, gday, flags, run, ghistory>>
NextMorning(p) ==
  [p EXCEPT !.sent = 0, !.out = FALSE, !.tiers = @ \cup p.due, !.due = {}]
GrowthDawn ==
  /\ plant' = [a \in Accts |-> NextMorning(plant[a])]
  /\ full' = {} /\ excused' = Leftover
  /\ UNCHANGED <<gmu, gday, flags, run>>

GrowthCrash ==
  /\ gmu' = None /\ gday' = [day |-> 0, done |-> NoFlags]
  /\ run' = [r \in Runs |-> Idle] /\ UNCHANGED <<flags, plant, full>>
  /\ Interrupted

-----------------------------------------------------------------------------
\* What the flags of today say: all the reports of a run have arrived at the
\* account; a chain that is through with the rewards has left no tier and no draw.
ReportFlag == flags["report"] = day \/ (gday.day = day /\ gday.done["report"])
ReportFlagOwn == ReportFlag => acct \in full

ChainRuns == gmu # None /\ run[gmu].pc # "tier" /\ run[gmu].kind = "chain"
RewardFlagOwn ==
  flags["reward"] = day /\ acct \in Accts \ excused /\ ~ChainRuns
    => Mine.tiers = {} /\ Mine.chances = 0
=============================================================================
