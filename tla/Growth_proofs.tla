----------------------------- MODULE Growth_proofs -----------------------------
(* Lemmas about the growth chain, for any accounts, goroutines, tiers and  *)
(* numbers of reports: what its steps do to the flags of the day.          *)
EXTENDS Growth, FiniteSetTheorems, TLAPS

Steps == {"report", "streak", "adopt", "late", "gift", "comp", "info", "makeup",
          "reread", "redeem", "chances", "draw", "travel", "depart", "end"}
Parts == {"chain", "report", "adopt", "travel"}
Working ==
  [pc: Steps, kind: Parts, day: Nat, all: Nat, left: Nat,
   info: (SUBSET Tiers) \cup {Unread}, reported: BOOLEAN, adopted: BOOLEAN]
Redeeming == [pc: {"tier"}, tier: Tiers, day: Nat]

HostTyped == acct \in Accts \cup {None} /\ day \in Nat \ {0}

\* No date is in the future.
DatesPast ==
  /\ gday.day <= day /\ \A f \in Flags : flags[f] <= day
  /\ \A r \in Runs : run[r].pc # "idle" => run[r].day <= day

\* A goroutine that writes flags has the lock, and the flags in memory are of
\* the day it began.
Writes(s) == s.pc = "tier" \/ (s.pc \in Steps /\ s.kind # "travel")
LockHeld == \A r \in Runs : Writes(run[r]) => gmu = r /\ gday.day = run[r].day

\* The patrol only travels; what is counted down is over 0.
Patrols(s) == s.pc \in Steps /\ s.kind = "travel" => s.pc \in {"travel", "depart", "end"}
Counts1(s) == s.pc \in {"report", "draw"} => s.left >= 1
RunsWell == \A r \in Runs : Patrols(run[r]) /\ Counts1(run[r])

GrowthInv == HostTyped /\ GrowthTypeOK /\ DatesPast /\ LockHeld /\ RunsWell

\* What a run has reported so far, and what is left, is what it set out to.
Reporting ==
  \A r \in Runs : run[r].pc = "report" /\ run[r].day = day
                    => plant[acct].sent + run[r].left >= run[r].all
OwnInv == acct # None => ReportFlagOwn /\ Reporting

-----------------------------------------------------------------------------
LEMMA RunCases ==
  ASSUME NEW s \in RunStates
  PROVE  /\ s = Idle \/ s \in Working \/ s \in Redeeming
         /\ s = Idle => s.pc = "idle"
         /\ s \in Working => s.pc \in Steps
         /\ s \in Redeeming => s.pc = "tier"
         /\ s.pc \notin {"idle", "tier"} => s \in Working
         /\ s.pc = "tier" => s \in Redeeming
         /\ s.pc = "idle" => s = Idle
BY DEF RunStates, Working, Redeeming, Idle, Steps, Parts

LEMMA StatesIn == Idle \in RunStates /\ Working \subseteq RunStates /\ Redeeming \subseteq RunStates
BY DEF RunStates, Working, Redeeming, Steps, Parts

\* A step of a goroutine that neither reports nor ends.
Ordinary(r, s) ==
  /\ s \in Working /\ run' = [run EXCEPT ![r] = s]
  /\ s.kind = run[r].kind /\ s.day = run[r].day /\ s.pc # "report"
  /\ Patrols(s) /\ Counts1(s)
  /\ gmu' = gmu
  /\ UNCHANGED <<gday, flags>> \/ (s.kind # "travel" /\ \E f \in {"adopt", "reward"} : Mark(r, f))
  /\ plant' \in [Accts -> PlantStates] /\ \A a \in Accts : plant'[a].sent = plant[a].sent
  /\ full' = full /\ excused' \subseteq Accts

LEMMA Marking ==
  ASSUME GrowthInv, NEW r \in Runs, run[r].day \in Nat,
         NEW f \in {"adopt", "reward"}, Mark(r, f)
  PROVE  /\ gday' \in [day: Nat, done: [Flags -> BOOLEAN]] /\ flags' \in [Flags -> Nat]
         /\ gday'.day = gday.day /\ gday'.done["report"] = gday.done["report"]
         /\ flags'["report"] = flags["report"]
         /\ \A g \in Flags : flags'[g] = flags[g] \/ flags'[g] = run[r].day
BY DEF GrowthInv, GrowthTypeOK, Mark, MarkedAt, Flags

LEMMA OrdinaryKeeps ==
  ASSUME GrowthInv, UNCHANGED <<acct, day>>, NEW r \in Runs, run[r] \in Working,
         NEW s, Ordinary(r, s)
  PROVE  GrowthInv' /\ (OwnInv => OwnInv')
<1>1. run' \in [Runs -> RunStates] /\ run'[r] = s /\ \A q \in Runs \ {r} : run'[q] = run[q]
  BY StatesIn DEF Ordinary, GrowthInv, GrowthTypeOK
<1>2. /\ gday' \in [day: Nat, done: [Flags -> BOOLEAN]] /\ flags' \in [Flags -> Nat]
      /\ gday'.day = gday.day /\ gday'.done["report"] = gday.done["report"]
      /\ flags'["report"] = flags["report"]
      /\ \A g \in Flags : flags'[g] = flags[g] \/ flags'[g] = run[r].day
  <2>1. CASE UNCHANGED <<gday, flags>>
    BY <2>1 DEF GrowthInv, GrowthTypeOK
  <2>2. CASE s.kind # "travel" /\ \E f \in {"adopt", "reward"} : Mark(r, f)
    BY <2>2, Marking DEF Ordinary, Working
  <2>3. QED BY <2>1, <2>2 DEF Ordinary
<1>3. HostTyped' /\ GrowthTypeOK'
  BY <1>1, <1>2 DEF Ordinary, GrowthInv, GrowthTypeOK, HostTyped
<1>4. s.pc \in Steps /\ run[r].pc \in Steps /\ s.pc # "idle" /\ run[r].pc # "idle"
      /\ s.pc # "tier" /\ s.day <= day
  BY DEF Ordinary, Working, GrowthInv, DatesPast, Steps
<1>5. DatesPast'
  BY <1>1, <1>2, <1>4 DEF Ordinary, GrowthInv, DatesPast
<1>6. LockHeld'
  BY <1>1, <1>2, <1>4 DEF Ordinary, GrowthInv, LockHeld, Writes
<1>7. RunsWell'
  BY <1>1 DEF Ordinary, GrowthInv, RunsWell
<1>8. ASSUME OwnInv PROVE OwnInv'
  <2>1. acct # None => ReportFlagOwn'
    BY <1>2, <1>8 DEF OwnInv, ReportFlagOwn, ReportFlag, Ordinary
  <2>2. acct # None => Reporting'
    BY <1>1, <1>8 DEF OwnInv, Reporting, Ordinary, GrowthInv, HostTyped
  <2>3. QED BY <2>1, <2>2 DEF OwnInv
<1>9. QED BY <1>3, <1>5, <1>6, <1>7, <1>8 DEF GrowthInv
-----------------------------------------------------------------------------
(* The single steps. *)
LEMMA PlantTyped ==
  ASSUME GrowthInv, acct # None
  PROVE  /\ acct \in Accts /\ Mine \in PlantStates
         /\ Mine.tiers \subseteq Tiers /\ Mine.chances \in Nat /\ Mine.cards \in Nat
         /\ Mine.sent \in Nat /\ Mine.door \in BOOLEAN
BY DEF GrowthInv, HostTyped, GrowthTypeOK, Mine, PlantStates

LEMMA UpstreamKeeps ==
  ASSUME GrowthInv, acct # None, NEW p \in PlantStates, Upstream(p)
  PROVE  /\ plant' \in [Accts -> PlantStates]
         /\ p.sent = Mine.sent => \A a \in Accts : plant'[a].sent = plant[a].sent
BY PlantTyped DEF GrowthInv, GrowthTypeOK, Upstream, Mine

LEMMA ExcuseTyped ==
  ASSUME GrowthInv, Excuse \/ excused' = excused
  PROVE  excused' \subseteq Accts
BY DEF GrowthInv, HostTyped, GrowthTypeOK, Excuse

\* Everything but the plant for a step that sets no flag.
LEMMA Moved ==
  ASSUME GrowthInv, NEW r \in Runs, run[r] \in Working,
         NEW s, Become(r, s), s \in Working,
         s.kind = run[r].kind, s.day = run[r].day, s.pc # "report",
         Patrols(s), Counts1(s), gmu' = gmu,
         UNCHANGED <<gday, flags>> \/ (s.kind # "travel" /\ \E f \in {"adopt", "reward"} : Mark(r, f)),
         full' = full, Excuse \/ excused' = excused,
         UNCHANGED plant \/ (/\ plant' \in [Accts -> PlantStates]
                             /\ \A a \in Accts : plant'[a].sent = plant[a].sent)
  PROVE  Ordinary(r, s)
BY ExcuseTyped DEF Ordinary, Become, GrowthInv, GrowthTypeOK

LEMMA GotoIs ==
  ASSUME NEW r, run[r] \in Working, NEW p \in Steps \ {"report", "draw"},
         run[r].kind = "travel" => p \in {"travel", "depart", "end"}
  PROVE  LET s == [run[r] EXCEPT !.pc = p] IN
         /\ s \in Working /\ s.kind = run[r].kind /\ s.day = run[r].day /\ s.pc = p
         /\ s.pc # "report" /\ Patrols(s) /\ Counts1(s)
BY DEF Working, Patrols, Counts1, Steps

Ordinarily(r) == \E s : Ordinary(r, s)

LEMMA WorksAt ==
  ASSUME GrowthInv, NEW r \in Runs, NEW p \in Steps, At(r, p)
  PROVE  /\ run[r] \in Working /\ run[r].pc = p
         /\ run[r].kind = "travel" => p \in {"travel", "depart", "end"}
<1>1. run[r] \in RunStates /\ run[r].pc = p /\ Patrols(run[r])
  BY DEF At, GrowthInv, GrowthTypeOK, RunsWell
<1>2. run[r] \in Working
  BY <1>1, RunCases DEF Steps
<1>3. QED BY <1>1, <1>2 DEF Patrols

LEMMA StreakOrdinary ==
  ASSUME GrowthInv, NEW r \in Runs, StreakCheck(r)
  PROVE  Ordinarily(r)
<1>1. At(r, "streak") /\ run[r] \in Working /\ run[r].kind # "travel"
  BY WorksAt DEF StreakCheck, Steps
<1>2. CASE Answered /\ Become(r, [run[r] EXCEPT !.pc = "adopt", !.info = Mine.tiers])
  <2> DEFINE s == [run[r] EXCEPT !.pc = "adopt", !.info = Mine.tiers]
  <2>1. s \in Working /\ s.kind = run[r].kind /\ s.day = run[r].day /\ s.pc = "adopt"
    BY <1>1, <1>2, PlantTyped DEF Answered, Working, Steps
  <2>2. Patrols(s) /\ Counts1(s)
    BY <1>1, <2>1 DEF Patrols, Counts1
  <2>3. Ordinary(r, s)
    BY <1>1, <1>2, <2>1, <2>2, Moved DEF StreakCheck, Stays, ghistory
  <2>4. QED BY <2>3 DEF Ordinarily
<1>3. CASE Goto(r, "adopt")
  <2>1. Ordinary(r, [run[r] EXCEPT !.pc = "adopt"])
    BY <1>1, <1>3, GotoIs, Moved DEF StreakCheck, Stays, ghistory, Goto, Steps
  <2>2. QED BY <2>1 DEF Ordinarily
<1>4. QED BY <1>2, <1>3 DEF StreakCheck

\* A step that goes on to p, after a call that may have changed the plant.
LEMMA GoneOn ==
  ASSUME GrowthInv, NEW r \in Runs, run[r] \in Working,
         NEW p \in Steps \ {"report", "draw"},
         run[r].kind = "travel" => p \in {"travel", "depart", "end"},
         Goto(r, p), gmu' = gmu,
         UNCHANGED <<gday, flags>>
           \/ (run[r].kind # "travel" /\ \E f \in {"adopt", "reward"} : Mark(r, f)),
         full' = full, Excuse \/ excused' = excused,
         UNCHANGED plant
           \/ (acct # None /\ \E q \in PlantStates : q.sent = Mine.sent /\ Upstream(q))
  PROVE  Ordinarily(r)
<1> DEFINE s == [run[r] EXCEPT !.pc = p]
<1>1. /\ s \in Working /\ s.kind = run[r].kind /\ s.day = run[r].day
      /\ s.pc # "report" /\ Patrols(s) /\ Counts1(s)
  BY GotoIs
<1>2. Become(r, s)
  BY DEF Goto
<1>3. UNCHANGED plant \/ (/\ plant' \in [Accts -> PlantStates]
                          /\ \A a \in Accts : plant'[a].sent = plant[a].sent)
  BY UpstreamKeeps
<1> HIDE DEF s
<1>4. Ordinary(r, s)
  BY <1>1, <1>2, <1>3, Moved
<1>5. QED BY <1>4 DEF Ordinarily

LEMMA AdoptOrdinary ==
  ASSUME GrowthInv, NEW r \in Runs, Adopt(r)
  PROVE  Ordinarily(r)
<1> DEFINE next == IF run[r].pc = "late" THEN "end" ELSE After(r, "gift")
<1>1. run[r] \in Working /\ run[r].kind # "travel"
  BY WorksAt DEF Adopt, Steps
<1>2. next \in Steps \ {"report", "draw"}
  BY DEF After, Steps
<1>3. gmu' = gmu /\ full' = full /\ excused' = excused
  BY DEF Adopt, ghistory
<1>4. CASE /\ Answered /\ Upstream([Mine EXCEPT !.buddy = TRUE])
           /\ Become(r, [run[r] EXCEPT !.pc = next, !.adopted = TRUE])
           /\ UNCHANGED <<gday, flags>>
  <2> DEFINE s == [run[r] EXCEPT !.pc = next, !.adopted = TRUE]
             q == [Mine EXCEPT !.buddy = TRUE]
  <2>1. s \in Working /\ s.kind = run[r].kind /\ s.day = run[r].day /\ s.pc = next
    BY <1>1, <1>2 DEF Working
  <2>2. Patrols(s) /\ Counts1(s)
    BY <1>1, <1>2, <2>1 DEF Patrols, Counts1
  <2>3. acct # None /\ q \in PlantStates /\ q.sent = Mine.sent
    BY <1>4, PlantTyped DEF Answered, PlantStates
  <2>4. Ordinary(r, s)
    <3>1. Become(r, s) /\ Upstream(q)
      BY <1>4
    <3> HIDE DEF s, q, next
    <3>2. plant' \in [Accts -> PlantStates] /\ \A a \in Accts : plant'[a].sent = plant[a].sent
      BY <2>3, <3>1, UpstreamKeeps
    <3>3. s.pc # "report"
      BY <1>2, <2>1
    <3>4. QED BY <1>1, <1>3, <1>4, <2>1, <2>2, <3>1, <3>2, <3>3, Moved
  <2>5. QED BY <2>4 DEF Ordinarily
<1>5. CASE Mark(r, "adopt") /\ Goto(r, next) /\ UNCHANGED plant
  BY <1>1, <1>2, <1>3, <1>5, GoneOn
<1>6. CASE Goto(r, next) /\ UNCHANGED <<gday, flags, plant>>
  BY <1>1, <1>2, <1>3, <1>6, GoneOn
<1>7. QED BY <1>4, <1>5, <1>6 DEF Adopt

LEMMA BonusOrdinary ==
  ASSUME GrowthInv, NEW r \in Runs, Gift(r) \/ Compensation(r)
  PROVE  Ordinarily(r)
<1>1. run[r] \in Working /\ run[r].kind # "travel"
  BY WorksAt DEF Gift, Compensation, Steps
<1>2. gmu' = gmu /\ full' = full /\ excused' = excused /\ UNCHANGED <<gday, flags>>
  BY DEF Gift, Compensation, Stays, ghistory
<1>3. ASSUME acct # None
      PROVE  /\ [Mine EXCEPT !.gift = FALSE] \in PlantStates
             /\ [Mine EXCEPT !.comp = FALSE] \in PlantStates
             /\ [Mine EXCEPT !.gift = FALSE].sent = Mine.sent
             /\ [Mine EXCEPT !.comp = FALSE].sent = Mine.sent
  BY <1>3, PlantTyped DEF PlantStates
<1>4. UNCHANGED plant
        \/ (acct # None /\ \E q \in PlantStates : q.sent = Mine.sent /\ Upstream(q))
  BY <1>3 DEF Gift, Compensation, Answered
<1>5. Goto(r, "comp") \/ Goto(r, "info")
  BY DEF Gift, Compensation
<1>6. QED BY <1>1, <1>2, <1>4, <1>5, GoneOn DEF Steps

LEMMA InfoOrdinary ==
  ASSUME GrowthInv, NEW r \in Runs, Info(r)
  PROVE  Ordinarily(r)
<1>1. run[r] \in Working /\ run[r].kind # "travel"
  BY WorksAt DEF Info, Steps
<1>2. gmu' = gmu /\ full' = full /\ excused' = excused /\ UNCHANGED <<gday, flags, plant>>
  BY DEF Info, Stays, ghistory
<1>3. CASE Goto(r, "travel")
  BY <1>1, <1>2, <1>3, GoneOn DEF Steps
<1>4. ASSUME NEW i \in (SUBSET Tiers) \cup {Unread}, ToMakeup(r, i)
      PROVE  Ordinarily(r)
  <2> DEFINE s == [run[r] EXCEPT !.pc = "makeup", !.info = i, !.left = 0]
  <2>1. s \in Working /\ s.kind = run[r].kind /\ s.day = run[r].day /\ s.pc = "makeup"
    BY <1>1 DEF Working, Steps
  <2>2. Patrols(s) /\ Counts1(s)
    BY <1>1, <2>1 DEF Patrols, Counts1
  <2>3. Become(r, s)
    BY <1>4 DEF ToMakeup
  <2> HIDE DEF s
  <2>4. Ordinary(r, s)
    BY <1>1, <1>2, <2>1, <2>2, <2>3, Moved
  <2>5. QED BY <2>4 DEF Ordinarily
<1>5. \/ Goto(r, "travel")
      \/ ToMakeup(r, run[r].info)
      \/ acct # None /\ ToMakeup(r, Mine.tiers)
  BY DEF Info, Answered
<1>6. run[r].info \in (SUBSET Tiers) \cup {Unread}
  BY <1>1 DEF Working
<1>7. QED BY <1>3, <1>4, <1>5, <1>6, PlantTyped

LEMMA RereadOrdinary ==
  ASSUME GrowthInv, NEW r \in Runs, Reread(r)
  PROVE  Ordinarily(r)
<1>1. run[r] \in Working /\ run[r].kind # "travel"
  BY WorksAt DEF Reread, Steps
<1>2. gmu' = gmu /\ full' = full /\ UNCHANGED <<gday, flags, plant>>
  BY DEF Reread, Stays
<1>3. CASE Goto(r, "redeem") /\ Excuse
  BY <1>1, <1>2, <1>3, GoneOn DEF Steps
<1>4. CASE /\ acct # None /\ excused' = excused
           /\ Become(r, [run[r] EXCEPT !.pc = "redeem", !.info = Mine.tiers])
  <2> DEFINE s == [run[r] EXCEPT !.pc = "redeem", !.info = Mine.tiers]
  <2>1. s \in Working /\ s.kind = run[r].kind /\ s.day = run[r].day /\ s.pc = "redeem"
    BY <1>1, <1>4, PlantTyped DEF Working, Steps
  <2>2. Patrols(s) /\ Counts1(s)
    BY <1>1, <2>1 DEF Patrols, Counts1
  <2>3. Become(r, s)
    BY <1>4
  <2> HIDE DEF s
  <2>4. Ordinary(r, s)
    BY <1>1, <1>2, <1>4, <2>1, <2>2, <2>3, Moved
  <2>5. QED BY <2>4 DEF Ordinarily
<1>5. QED BY <1>3, <1>4 DEF Reread, Answered

\* What makes up a day, redeems or draws keeps the plant in its type.
LEMMA PlantSteps ==
  ASSUME NEW p \in PlantStates
  PROVE  /\ CanMakeUp(p) => MadeUp(p) \in PlantStates /\ MadeUp(p).sent = p.sent
         /\ \A t : Redeemed(p, t) \in PlantStates /\ Redeemed(p, t).sent = p.sent
         /\ Drawn(p) \in PlantStates /\ Drawn(p).sent = p.sent
<1>1. p.cards \in Nat /\ p.chances \in Nat /\ p.tiers \in SUBSET Tiers /\ p.behind \in SUBSET Tiers
  BY DEF PlantStates
<1>2. CanMakeUp(p) => MadeUp(p) \in PlantStates /\ MadeUp(p).sent = p.sent
  <2> DEFINE c == p.cards - 1  t == p.tiers \cup p.behind
  <2>1. CanMakeUp(p) => c \in Nat
    BY <1>1 DEF CanMakeUp
  <2>2. t \in SUBSET Tiers /\ {} \in SUBSET Tiers
    BY <1>1
  <2>3. MadeUp(p) = [p EXCEPT !.cards = c, !.tiers = t, !.behind = {}]
    BY DEF MadeUp
  <2> HIDE DEF c, t
  <2>4. CanMakeUp(p) => [p EXCEPT !.cards = c, !.tiers = t, !.behind = {}] \in PlantStates
    BY <2>1, <2>2 DEF PlantStates
  <2>5. MadeUp(p).sent = p.sent
    BY <2>3 DEF PlantStates
  <2>6. QED BY <2>3, <2>4, <2>5
<1>3. ASSUME NEW t PROVE Redeemed(p, t) \in PlantStates /\ Redeemed(p, t).sent = p.sent
  <2> DEFINE c == p.chances + 1  s == p.tiers \ {t}
  <2>1. c \in Nat /\ s \in SUBSET Tiers
    BY <1>1
  <2>2. Redeemed(p, t) = IF t \in p.tiers THEN [p EXCEPT !.tiers = s, !.chances = c] ELSE p
    BY DEF Redeemed
  <2> HIDE DEF c, s
  <2>3. [p EXCEPT !.tiers = s, !.chances = c] \in PlantStates
    BY <2>1 DEF PlantStates
  <2>4. [p EXCEPT !.tiers = s, !.chances = c].sent = p.sent
    BY DEF PlantStates
  <2>5. QED BY <2>2, <2>3, <2>4
<1>4. Drawn(p) \in PlantStates /\ Drawn(p).sent = p.sent
  BY DEF Drawn, PlantStates
<1>5. QED BY <1>2, <1>3, <1>4

LEMMA MakeupOrdinary ==
  ASSUME GrowthInv, NEW r \in Runs, Makeup(r)
  PROVE  Ordinarily(r)
<1>1. run[r] \in Working /\ run[r].kind # "travel"
  BY WorksAt DEF Makeup, Steps
<1>2. gmu' = gmu /\ full' = full /\ UNCHANGED <<gday, flags>>
  BY DEF Makeup, Stays
<1>3. CASE acct # None /\ excused' = excused /\ CanMakeUp(Mine) /\ Upstream(MadeUp(Mine))
           /\ Goto(r, "reread")
  BY <1>1, <1>2, <1>3, PlantTyped, PlantSteps, GoneOn DEF Steps
<1>4. CASE excused' = excused /\ UNCHANGED plant /\ Goto(r, "redeem")
  BY <1>1, <1>2, <1>4, GoneOn DEF Steps
<1>5. CASE Goto(r, "redeem") /\ UNCHANGED plant /\ Excuse
  BY <1>1, <1>2, <1>5, GoneOn DEF Steps
<1>6. QED BY <1>3, <1>4, <1>5 DEF Makeup, Answered

LEMMA RedeemOrdinary ==
  ASSUME GrowthInv, NEW r \in Runs, Redeem(r)
  PROVE  Ordinarily(r)
<1>1. run[r] \in Working /\ run[r].kind # "travel" /\ run[r].pc = "redeem"
  BY WorksAt DEF Redeem, Steps
<1>2. gmu' = gmu /\ full' = full
  BY DEF Redeem
<1>3. ASSUME NEW t \in run[r].info,
             Become(r, [run[r] EXCEPT !.info = NextTiers(r, t), !.left = 1]),
             \/ Answered /\ Upstream(Redeemed(Mine, t)) /\ UNCHANGED excused
             \/ Failed /\ UNCHANGED plant /\ Excuse,
             UNCHANGED <<gmu, gday, flags>>
      PROVE  Ordinarily(r)
  <2> DEFINE s == [run[r] EXCEPT !.info = NextTiers(r, t), !.left = 1]
  <2>1. NextTiers(r, t) \in (SUBSET Tiers) \cup {Unread}
    BY <1>1 DEF NextTiers, Working, Unread
  <2>2. s \in Working /\ s.kind = run[r].kind /\ s.day = run[r].day /\ s.pc = "redeem"
    BY <1>1, <2>1 DEF Working
  <2>3. Patrols(s) /\ Counts1(s)
    BY <1>1, <2>2 DEF Patrols, Counts1
  <2>4. UNCHANGED plant \/ (/\ plant' \in [Accts -> PlantStates]
                            /\ \A a \in Accts : plant'[a].sent = plant[a].sent)
    BY <1>3, PlantTyped, PlantSteps, UpstreamKeeps DEF Answered
  <2>5. Become(r, s)
    BY <1>3
  <2> HIDE DEF s
  <2>6. Ordinary(r, s)
    BY <1>1, <1>2, <1>3, <2>2, <2>3, <2>4, <2>5, Moved
  <2>7. QED BY <2>6 DEF Ordinarily
<1>4. CASE /\ Mark(r, "reward") /\ UNCHANGED <<gmu, plant, excused>>
           /\ Goto(r, IF run[r].left = 0 THEN "travel" ELSE "chances")
  BY <1>1, <1>2, <1>4, GoneOn DEF Steps
<1>5. QED BY <1>3, <1>4 DEF Redeem

LEMMA ChancesOrdinary ==
  ASSUME GrowthInv, NEW r \in Runs, Chances(r)
  PROVE  Ordinarily(r)
<1>1. run[r] \in Working /\ run[r].kind # "travel"
  BY WorksAt DEF Chances, Steps
<1>2. gmu' = gmu /\ full' = full /\ UNCHANGED <<gday, flags, plant>>
  BY DEF Chances, Stays
<1>3. CASE Goto(r, "travel") /\ Excuse
  BY <1>1, <1>2, <1>3, GoneOn DEF Steps
<1> DEFINE n == IF Mine.chances > MaxDraws THEN MaxDraws ELSE Mine.chances
           s == [run[r] EXCEPT !.pc = IF n = 0 THEN "travel" ELSE "draw", !.left = n]
<1>4. CASE acct # None /\ excused' = excused /\ Become(r, s)
  <2>1. n \in Nat
    BY <1>4, PlantTyped, GrowthAssumption
  <2>2. /\ s \in Working /\ s.kind = run[r].kind /\ s.day = run[r].day
        /\ s.left = n /\ s.pc = IF n = 0 THEN "travel" ELSE "draw"
    <3> HIDE DEF n
    <3>1. QED BY <1>1, <2>1 DEF Working, Steps
  <2> HIDE DEF n, s
  <2>3. s.pc # "report" /\ Patrols(s) /\ Counts1(s)
    BY <1>1, <2>1, <2>2 DEF Patrols, Counts1
  <2>4. Ordinary(r, s)
    BY <1>1, <1>2, <1>4, <2>2, <2>3, Moved
  <2>5. QED BY <2>4 DEF Ordinarily
<1>5. QED BY <1>3, <1>4 DEF Chances, Answered
LEMMA DrawOrdinary ==
  ASSUME GrowthInv, NEW r \in Runs, Draw(r)
  PROVE  Ordinarily(r)
<1>1. run[r] \in Working /\ run[r].kind # "travel" /\ run[r].pc = "draw"
  BY WorksAt DEF Draw, Steps
<1>2. gmu' = gmu /\ full' = full /\ UNCHANGED <<gday, flags>>
  BY DEF Draw, Stays
<1>3. CASE Goto(r, "travel") /\ UNCHANGED plant /\ Excuse
  BY <1>1, <1>2, <1>3, GoneOn DEF Steps
<1>4. CASE acct # None /\ excused' = excused /\ Upstream(Drawn(Mine)) /\ Goto(r, "travel")
  BY <1>1, <1>2, <1>4, PlantTyped, PlantSteps, GoneOn DEF Steps
<1> DEFINE n == run[r].left - 1
           p == IF run[r].left > 1 THEN "draw" ELSE "travel"
           s == [run[r] EXCEPT !.pc = p, !.left = n]
<1>5. CASE acct # None /\ excused' = excused /\ Upstream(Drawn(Mine)) /\ Become(r, s)
  <2>1. run[r].left \in Nat /\ run[r].left >= 1
    BY <1>1 DEF Working, GrowthInv, RunsWell, Counts1
  <2>2. n \in Nat /\ p \in Steps /\ p # "report" /\ (p = "draw" => n >= 1)
    BY <2>1 DEF Steps
  <2> HIDE DEF n, p
  <2>3. s \in Working /\ s.kind = run[r].kind /\ s.day = run[r].day /\ s.left = n /\ s.pc = p
    BY <1>1, <2>2 DEF Working
  <2> HIDE DEF s
  <2>4. s.pc # "report" /\ Patrols(s) /\ Counts1(s)
    BY <1>1, <2>2, <2>3 DEF Patrols, Counts1
  <2>5. Drawn(Mine) \in PlantStates /\ Drawn(Mine).sent = Mine.sent
    BY <1>5, PlantTyped, PlantSteps
  <2>6. plant' \in [Accts -> PlantStates] /\ \A a \in Accts : plant'[a].sent = plant[a].sent
    BY <1>5, <2>5, UpstreamKeeps
  <2>7. Ordinary(r, s)
    BY <1>1, <1>2, <1>5, <2>3, <2>4, <2>6, Moved
  <2>8. QED BY <2>7 DEF Ordinarily
<1>6. QED BY <1>3, <1>4, <1>5 DEF Draw, Answered

LEMMA TravelOrdinary ==
  ASSUME GrowthInv, NEW r \in Runs, Travel(r)
  PROVE  Ordinarily(r)
<1>1. run[r] \in Working
  BY WorksAt DEF Travel, Steps
<1>2. gmu' = gmu /\ full' = full /\ excused' = excused /\ UNCHANGED <<gday, flags, plant>>
  BY DEF Travel, Stays, ghistory
<1>3. PICK p \in {"late", "depart", "end"} :
        Goto(r, p) /\ (run[r].kind = "travel" => p # "late")
  BY DEF Travel, After
<1>4. QED BY <1>1, <1>2, <1>3, GoneOn DEF Steps

LEMMA DepartOrdinary ==
  ASSUME GrowthInv, NEW r \in Runs, Depart(r)
  PROVE  Ordinarily(r)
<1>1. run[r] \in Working
  BY WorksAt DEF Depart, Steps
<1>2. gmu' = gmu /\ full' = full /\ excused' = excused /\ UNCHANGED <<gday, flags>>
  BY DEF Depart, Stays, ghistory
<1>3. ASSUME acct # None
      PROVE  /\ [Mine EXCEPT !.trip = "idle"] \in PlantStates
             /\ [Mine EXCEPT !.trip = "idle"].sent = Mine.sent
             /\ [Mine EXCEPT !.trip = "traveling", !.out = TRUE] \in PlantStates
             /\ [Mine EXCEPT !.trip = "traveling", !.out = TRUE].sent = Mine.sent
  BY <1>3, PlantTyped DEF PlantStates
<1>4. UNCHANGED plant
        \/ (acct # None /\ \E q \in PlantStates : q.sent = Mine.sent /\ Upstream(q))
  <2>1. CASE Answered /\ Mine.trip = "arrived" /\ Upstream([Mine EXCEPT !.trip = "idle"])
    BY <1>3, <2>1 DEF Answered
  <2>2. CASE Answered /\ Upstream([Mine EXCEPT !.trip = "traveling", !.out = TRUE])
    BY <1>3, <2>2 DEF Answered
  <2>3. CASE UNCHANGED plant
    BY <2>3
  <2>4. QED BY <2>1, <2>2, <2>3 DEF Depart
<1>5. QED BY <1>1, <1>2, <1>4, GoneOn DEF Depart, Steps
-----------------------------------------------------------------------------
(* Reports, ends and starts. *)
LEMMA FailsOrdinary ==
  ASSUME GrowthInv, NEW r \in Runs, ReportFails(r)
  PROVE  Ordinarily(r)
<1>1. run[r] \in Working /\ run[r].kind # "travel"
  BY WorksAt DEF ReportFails, Steps
<1>2. PICK p \in {"adopt", "end"} : Goto(r, p)
  BY DEF ReportFails, After
<1>3. gmu' = gmu /\ full' = full /\ Excuse /\ UNCHANGED <<gday, flags, plant>>
  BY DEF ReportFails, NotDone
<1>4. QED BY <1>1, <1>2, <1>3, GoneOn DEF Steps

LEMMA ReportKeeps ==
  ASSUME GrowthInv, UNCHANGED <<acct, day>>, NEW r \in Runs, Report(r)
  PROVE  GrowthInv' /\ (OwnInv => OwnInv')
<1>1. /\ run[r] \in Working /\ run[r].kind # "travel" /\ run[r].pc = "report"
      /\ run[r].left \in Nat /\ run[r].all \in Nat /\ run[r].left >= 1 /\ run[r].day \in Nat
      /\ gmu = r /\ gday.day = run[r].day /\ run[r].day <= day
  <2>1. run[r] \in Working /\ run[r].kind # "travel" /\ run[r].pc = "report"
    BY WorksAt DEF Report, Steps
  <2>2. Writes(run[r])
    BY <2>1 DEF Writes, Steps
  <2>3. QED BY <2>1, <2>2 DEF Working, GrowthInv, RunsWell, Counts1, LockHeld, DatesPast
<1>2. /\ acct \in Accts /\ Mine \in PlantStates /\ Mine.sent \in Nat
      /\ gmu' = gmu /\ excused' = excused
  BY PlantTyped DEF Report, Answered
<1>3. plant' \in [Accts -> PlantStates] /\ plant'[acct].sent = Mine.sent + 1
  <2> DEFINE n == Mine.sent + 1  d == Mine.door \/ n >= Door
  <2>1. n \in Nat /\ d \in BOOLEAN
    BY <1>2
  <2>2. Reported(Mine) = [Mine EXCEPT !.sent = n, !.door = d]
    BY <1>2, PlantTyped DEF Reported, PlantStates
  <2> HIDE DEF n, d
  <2>3. ASSUME NEW m \in PlantStates
        PROVE  /\ [m EXCEPT !.sent = n, !.door = d] \in PlantStates
               /\ [m EXCEPT !.sent = n, !.door = d].sent = n
    BY <2>1 DEF PlantStates
  <2>4. plant' = [plant EXCEPT ![acct] = Reported(Mine)]
    BY DEF Report, Upstream
  <2>5. Reported(Mine) \in PlantStates /\ Reported(Mine).sent = n
    BY <1>2, <2>2, <2>3
  <2>6. QED BY <1>2, <2>4, <2>5 DEF GrowthInv, GrowthTypeOK, n
<1>4. GrowthTypeOK /\ run \in [Runs -> RunStates] /\ full \subseteq Accts /\ HostTyped
  BY DEF GrowthInv, GrowthTypeOK
<1>5. CASE run[r].left > 1
  <2> DEFINE n == run[r].left - 1  s == [run[r] EXCEPT !.left = n]
  <2>1. n \in Nat /\ n >= 1
    BY <1>1, <1>5
  <2>2. run' = [run EXCEPT ![r] = s] /\ UNCHANGED <<gday, flags>> /\ full' = full
    BY <1>5, <1>1 DEF Report, Become
  <2> HIDE DEF n
  <2>3. /\ s \in Working /\ s.kind = run[r].kind /\ s.day = run[r].day
        /\ s.left = n /\ s.pc = "report" /\ s.all = run[r].all
    BY <1>1, <2>1 DEF Working
  <2> HIDE DEF s
  <2>4. run' \in [Runs -> RunStates] /\ run'[r] = s /\ \A q \in Runs \ {r} : run'[q] = run[q]
    BY <1>4, <2>2, <2>3, StatesIn
  <2>5. GrowthTypeOK' /\ HostTyped'
    BY <1>2, <1>3, <1>4, <2>2, <2>4 DEF GrowthTypeOK, HostTyped
  <2>6. DatesPast'
    BY <1>1, <2>2, <2>3, <2>4 DEF GrowthInv, DatesPast
  <2>7. LockHeld'
    BY <1>1, <1>2, <2>2, <2>3, <2>4 DEF GrowthInv, LockHeld, Writes
  <2>8. RunsWell'
    BY <1>1, <2>1, <2>3, <2>4 DEF GrowthInv, RunsWell, Patrols, Counts1
  <2>9. ASSUME OwnInv PROVE OwnInv'
    <3>1. ReportFlagOwn'
      BY <1>2, <2>2, <2>9 DEF OwnInv, ReportFlagOwn, ReportFlag, Report, Answered
    <3>2. Reporting'
      <4> SUFFICES ASSUME NEW q \in Runs, run'[q].pc = "report", run'[q].day = day
                   PROVE  plant'[acct].sent + run'[q].left >= run'[q].all
        BY DEF Reporting
      <4>1. acct # None
        BY DEF Report, Answered
      <4>2. run[q].pc = "report" /\ run[q].day = day
        BY <1>1, <2>3, <2>4
      <4>3. Mine.sent + run[q].left >= run[q].all
        BY <2>9, <4>1, <4>2 DEF OwnInv, Reporting, Mine
      <4>4. run[q] \in Working /\ run[q].left \in Nat /\ run[q].all \in Nat
        <5>1. run[q] \in Working
          BY <1>4, <4>2, RunCases
        <5>2. QED BY <5>1 DEF Working
      <4>5. CASE q = r
        BY <1>1, <1>2, <1>3, <2>3, <2>4, <4>3, <4>5 DEF n
      <4>6. CASE q # r
        BY <1>2, <1>3, <2>4, <4>3, <4>4, <4>6
      <4>7. QED BY <4>5, <4>6
    <3>3. QED BY <3>1, <3>2 DEF OwnInv
  <2>10. QED BY <2>5, <2>6, <2>7, <2>8, <2>9 DEF GrowthInv
<1>6. CASE run[r].left = 1
  <2> DEFINE p == After(r, "streak")
             s == [run[r] EXCEPT !.pc = p, !.left = 0, !.reported = TRUE]
  <2>1. p \in {"streak", "end"}
    BY DEF After
  <2>2. /\ run' = [run EXCEPT ![r] = s]
        /\ gday' = [gday EXCEPT !.done["report"] = TRUE, !.done["adopt"] = FALSE]
        /\ flags' = [MarkedAt(run[r].day, "report") EXCEPT
                       !["adopt"] = IF Marked("adopt") THEN 0 ELSE @]
        /\ full' = IF Mine.sent + 1 >= run[r].all THEN full \cup {acct} ELSE full
    BY <1>6 DEF Report, Become
  <2> HIDE DEF p
  <2>3. /\ s \in Working /\ s.kind = run[r].kind /\ s.day = run[r].day /\ s.pc = p
    BY <1>1, <2>1 DEF Working, Steps
  <2> HIDE DEF s
  <2>4. run' \in [Runs -> RunStates] /\ run'[r] = s /\ \A q \in Runs \ {r} : run'[q] = run[q]
    BY <1>4, <2>2, <2>3, StatesIn
  <2>5. gday' \in [day: Nat, done: [Flags -> BOOLEAN]] /\ gday'.day = gday.day
    BY <1>4, <2>2 DEF GrowthTypeOK
  <2>6. /\ flags' \in [Flags -> Nat] /\ flags'["report"] = run[r].day
        /\ \A f \in Flags : flags'[f] \in {flags[f], 0, run[r].day}
    BY <1>1, <1>4, <2>2 DEF GrowthTypeOK, MarkedAt, Flags
  <2>7. GrowthTypeOK' /\ HostTyped'
    BY <1>2, <1>3, <1>4, <2>2, <2>4, <2>5, <2>6 DEF GrowthTypeOK, HostTyped
  <2>8. DatesPast'
    BY <1>1, <1>4, <2>3, <2>4, <2>5, <2>6 DEF GrowthInv, DatesPast, HostTyped
  <2>9. LockHeld'
    BY <1>1, <1>2, <2>3, <2>4, <2>5 DEF GrowthInv, LockHeld, Writes
  <2>10. RunsWell'
    BY <1>1, <2>1, <2>3, <2>4 DEF GrowthInv, RunsWell, Patrols, Counts1
  <2>11. ASSUME OwnInv PROVE OwnInv'
    <3>1. acct # None
      BY DEF Report, Answered
    <3>2. ASSUME run[r].day = day PROVE acct \in full'
      <4>1. Mine.sent + 1 >= run[r].all
        BY <1>1, <1>6, <2>11, <3>1, <3>2 DEF OwnInv, Reporting, Mine
      <4>2. QED BY <4>1, <2>2
    <3>3. ReportFlagOwn'
      BY <1>1, <2>5, <2>6, <3>2 DEF ReportFlagOwn, ReportFlag
    <3>4. Reporting'
      <4> SUFFICES ASSUME NEW q \in Runs, run'[q].pc = "report", run'[q].day = day
                   PROVE  plant'[acct].sent + run'[q].left >= run'[q].all
        BY DEF Reporting
      <4>1. q # r /\ run[q].pc = "report" /\ run[q].day = day /\ run'[q] = run[q]
        BY <2>1, <2>3, <2>4
      <4>2. Mine.sent + run[q].left >= run[q].all
        BY <2>11, <3>1, <4>1 DEF OwnInv, Reporting, Mine
      <4>3. run[q] \in Working /\ run[q].left \in Nat /\ run[q].all \in Nat
        <5>1. run[q] \in Working
          BY <1>4, <4>1, RunCases
        <5>2. QED BY <5>1 DEF Working
      <4>4. QED BY <1>2, <1>3, <4>1, <4>2, <4>3
    <3>5. QED BY <3>3, <3>4 DEF OwnInv
  <2>12. QED BY <2>7, <2>8, <2>9, <2>10, <2>11 DEF GrowthInv
<1>7. QED BY <1>1, <1>5, <1>6
\* A goroutine that ends, and may set flags of its own day.
LEMMA EndKeeps ==
  ASSUME GrowthInv, UNCHANGED <<acct, day>>, NEW r \in Runs,
         run[r].pc # "idle", Become(r, Idle), Unlocks(r),
         gday' \in [day: Nat, done: [Flags -> BOOLEAN]], flags' \in [Flags -> Nat],
         gday'.day = gday.day, gday'.done["report"] = gday.done["report"],
         \A f \in Flags : flags'[f] = flags[f] \/ flags'[f] = run[r].day,
         \/ flags'["report"] = flags["report"]
         \/ gday.day = run[r].day /\ gday.done["report"],
         plant' \in [Accts -> PlantStates],
         \A a \in Accts : plant'[a].sent = plant[a].sent,
         full' = full, excused' \subseteq Accts
  PROVE  GrowthInv' /\ (OwnInv => OwnInv')
<1>1. run' \in [Runs -> RunStates] /\ run'[r] = Idle /\ \A q \in Runs \ {r} : run'[q] = run[q]
  BY StatesIn DEF Become, GrowthInv, GrowthTypeOK
<1>2. Idle.pc = "idle"
  BY DEF Idle
<1>3. HostTyped' /\ GrowthTypeOK'
  BY <1>1 DEF GrowthInv, GrowthTypeOK, HostTyped, Unlocks
<1>4. DatesPast'
  BY <1>1, <1>2 DEF GrowthInv, DatesPast
<1>5. LockHeld'
  BY <1>1, <1>2 DEF GrowthInv, LockHeld, Writes, Unlocks, Steps
<1>6. RunsWell'
  BY <1>1, <1>2 DEF GrowthInv, RunsWell, Patrols, Counts1, Steps
<1>7. ASSUME OwnInv PROVE OwnInv'
  <2>1. acct # None => ReportFlagOwn'
    BY <1>7 DEF OwnInv, ReportFlagOwn, ReportFlag, GrowthInv, DatesPast, Flags
  <2>2. acct # None => Reporting'
    BY <1>1, <1>2, <1>7 DEF OwnInv, Reporting, GrowthInv, HostTyped
  <2>3. QED BY <2>1, <2>2 DEF OwnInv
<1>8. QED BY <1>3, <1>4, <1>5, <1>6, <1>7 DEF GrowthInv

LEMMA EndsKeep ==
  ASSUME GrowthInv, UNCHANGED <<acct, day>>, NEW r \in Runs, End(r) \/ RedeemTier(r)
  PROVE  GrowthInv' /\ (OwnInv => OwnInv')
<1>1. run[r] \in RunStates
  BY DEF GrowthInv, GrowthTypeOK
<1>2. CASE End(r)
  <2>1. run[r] \in Working /\ run[r].pc = "end"
    BY <1>2, WorksAt DEF End, Steps
  <2>2. run[r].day \in Nat
    BY <2>1 DEF Working
  <2>3. CASE run[r].kind = "chain" /\ Marked("report")
    <3>1. gday.day = run[r].day /\ gday.done["report"]
      BY <2>1, <2>3 DEF GrowthInv, LockHeld, Writes, Marked, Steps
    <3>2. /\ flags' \in [Flags -> Nat]
          /\ \A f \in Flags : flags'[f] = flags[f] \/ flags'[f] = run[r].day
      BY <1>2, <2>2, <2>3 DEF End, MarkedAt, GrowthInv, GrowthTypeOK
    <3>3. QED BY <1>2, <2>1, <3>1, <3>2, EndKeeps DEF End, ghistory, GrowthInv, GrowthTypeOK
  <2>4. CASE ~(run[r].kind = "chain" /\ Marked("report"))
    BY <1>2, <2>1, <2>4, EndKeeps DEF End, ghistory, GrowthInv, GrowthTypeOK
  <2>5. QED BY <2>3, <2>4
<1>3. CASE RedeemTier(r)
  <2>1. run[r] \in Redeeming /\ run[r].pc = "tier"
    BY <1>1, <1>3, RunCases DEF RedeemTier, At
  <2>2. run[r].day \in Nat
    BY <2>1 DEF Redeeming
  <2>3. CASE /\ acct # None /\ Upstream(Redeemed(Mine, run[r].tier))
             /\ Mark(r, "reward") /\ Excuse
    <3>1. Redeemed(Mine, run[r].tier) \in PlantStates
          /\ Redeemed(Mine, run[r].tier).sent = Mine.sent
      BY <2>3, PlantTyped, PlantSteps
    <3>2. plant' \in [Accts -> PlantStates] /\ \A a \in Accts : plant'[a].sent = plant[a].sent
      BY <2>3, <3>1, UpstreamKeeps
    <3>3. excused' \subseteq Accts
      BY <2>3, ExcuseTyped
    <3>4. /\ gday' \in [day: Nat, done: [Flags -> BOOLEAN]] /\ flags' \in [Flags -> Nat]
          /\ gday'.day = gday.day /\ gday'.done["report"] = gday.done["report"]
          /\ flags'["report"] = flags["report"]
          /\ \A g \in Flags : flags'[g] = flags[g] \/ flags'[g] = run[r].day
      BY <2>2, <2>3, Marking
    <3>5. QED BY <1>3, <2>1, <3>2, <3>3, <3>4, EndKeeps DEF RedeemTier
  <2>4. CASE UNCHANGED <<plant, gday, flags, excused>>
    BY <1>3, <2>1, <2>4, EndKeeps DEF RedeemTier, GrowthInv, GrowthTypeOK
  <2>5. QED BY <1>3, <2>3, <2>4 DEF RedeemTier, Answered
<1>4. QED BY <1>2, <1>3

\* What a step of a goroutine keeps.
LEMMA StepKeeps ==
  ASSUME GrowthInv, UNCHANGED <<acct, day>>, NEW r \in Runs, Step(r)
  PROVE  GrowthInv' /\ (OwnInv => OwnInv')
<1>1. CASE Report(r)
  BY <1>1, ReportKeeps
<1>2. CASE End(r) \/ RedeemTier(r)
  BY <1>2, EndsKeep
<1>3. CASE \/ ReportFails(r) \/ StreakCheck(r) \/ Adopt(r) \/ Gift(r) \/ Compensation(r)
           \/ Info(r) \/ Makeup(r) \/ Reread(r) \/ Redeem(r) \/ Chances(r) \/ Draw(r)
           \/ Travel(r) \/ Depart(r)
  <2>1. Ordinarily(r)
    BY <1>3, FailsOrdinary, StreakOrdinary, AdoptOrdinary, BonusOrdinary, InfoOrdinary,
       MakeupOrdinary, RereadOrdinary, RedeemOrdinary, ChancesOrdinary, DrawOrdinary,
       TravelOrdinary, DepartOrdinary
  <2>2. PICK s : Ordinary(r, s)
    BY <2>1 DEF Ordinarily
  <2>3. run[r].pc # "idle" /\ run[r].pc # "tier"
    BY <1>3 DEF ReportFails, StreakCheck, Adopt, Gift, Compensation, Info, Makeup, Reread,
                Redeem, Chances, Draw, Travel, Depart, At
  <2>4. run[r] \in Working
    BY <2>3, RunCases DEF GrowthInv, GrowthTypeOK
  <2>5. QED BY <2>2, <2>4, OrdinaryKeeps
<1>4. QED BY <1>1, <1>2, <1>3 DEF Step
-----------------------------------------------------------------------------
(* Starts, and what changes the flags from outside. *)
LEMMA LockFree ==
  ASSUME GrowthInv, gmu = None, NEW r \in Runs
  PROVE  ~Writes(run[r])
BY GrowthAssumption DEF GrowthInv, LockHeld

Fresh(s) ==
  \/ /\ s \in Working /\ s.kind # "travel" /\ s.pc # "draw"
     /\ s.pc = "report" => s.left >= 1 /\ s.left = s.all
  \/ s \in Redeeming

LEMMA StartKeeps ==
  ASSUME GrowthInv, UNCHANGED <<acct, day>>, NEW r \in Runs, BeginsLocked(r),
         NEW s, Become(r, s), Fresh(s), s.day = day
  PROVE  GrowthInv' /\ (OwnInv => OwnInv')
<1>1. /\ gmu = None /\ gmu' = r /\ gday' = Rolled
      /\ UNCHANGED <<flags, plant, full, excused>> /\ acct # None
  BY DEF BeginsLocked, TryLock, ghistory, Ready, Allowed
<1>2. s \in RunStates /\ s.pc \in Steps \cup {"tier"} /\ s.pc # "draw"
  BY StatesIn DEF Fresh, Working, Redeeming, Steps
<1>3. run' \in [Runs -> RunStates] /\ run'[r] = s /\ \A q \in Runs \ {r} : run'[q] = run[q]
  BY <1>2 DEF Become, GrowthInv, GrowthTypeOK
<1>4. /\ gday' \in [day: Nat, done: [Flags -> BOOLEAN]] /\ gday'.day = day
      /\ gday'.done["report"] => ReportFlag
  <2>1. Restored \in [Flags -> BOOLEAN] /\ day \in Nat /\ Restored["report"] = (flags["report"] = day)
    BY DEF Restored, Flags, GrowthInv, HostTyped
  <2>2. QED BY <1>1, <2>1 DEF Rolled, ReportFlag, GrowthInv, GrowthTypeOK
<1>5. HostTyped' /\ GrowthTypeOK'
  BY <1>1, <1>3, <1>4 DEF GrowthInv, GrowthTypeOK, HostTyped
<1>6. DatesPast'
  BY <1>1, <1>3, <1>4 DEF GrowthInv, DatesPast, HostTyped
<1>7. LockHeld'
  BY <1>1, <1>3, <1>4, LockFree DEF LockHeld, Writes
<1>8. RunsWell'
  BY <1>2, <1>3 DEF GrowthInv, RunsWell, Patrols, Counts1, Fresh, Redeeming, Steps
<1>9. ASSUME OwnInv PROVE OwnInv'
  <2>1. ReportFlagOwn'
    BY <1>1, <1>4, <1>9 DEF OwnInv, ReportFlagOwn, ReportFlag
  <2>2. Reporting'
    <3> SUFFICES ASSUME NEW q \in Runs, run'[q].pc = "report", run'[q].day = day
                 PROVE  plant'[acct].sent + run'[q].left >= run'[q].all
      BY DEF Reporting
    <3>1. CASE q = r
      <4>1. s \in Working /\ s.left = s.all
        BY <1>3, <3>1 DEF Fresh, Redeeming
      <4>2. s.all \in Nat /\ plant'[acct].sent \in Nat
        BY <1>1, <4>1, PlantTyped DEF Working, Mine
      <4>3. QED BY <1>3, <3>1, <4>1, <4>2
    <3>2. CASE q # r
      BY <1>1, <1>3, <1>9, <3>2 DEF OwnInv, Reporting
    <3>3. QED BY <3>1, <3>2
  <2>3. QED BY <2>1, <2>2 DEF OwnInv
<1>10. QED BY <1>5, <1>6, <1>7, <1>8, <1>9 DEF GrowthInv

LEMMA JobIs ==
  ASSUME GrowthInv, NEW p \in Steps, NEW k \in Parts, NEW n \in Nat, NEW b \in BOOLEAN,
         NEW s, s = Job(p, k, n, b)
  PROVE  s \in Working /\ s.pc = p /\ s.kind = k /\ s.day = day /\ s.left = n /\ s.all = n
<1> DEFINE i == Unread
<1>1. i \in (SUBSET Tiers) \cup {Unread} /\ FALSE \in BOOLEAN /\ day \in Nat
  BY DEF GrowthInv, HostTyped
<1>2. s = [pc |-> p, kind |-> k, day |-> day, all |-> n, left |-> n, info |-> i,
           reported |-> b, adopted |-> FALSE]
  BY DEF Job
<1> HIDE DEF i
<1>3. QED BY <1>1, <1>2 DEF Working

\* A chain or a part of it that is started, or is not.
Starts(r) ==
  \/ RunGrowthChain(r) \/ RunActivityReports(r) \/ RunGrowthAdopt(r) \/ RunTravelTick(r)
  \/ \E t \in Tiers : RunGrowthRedeem(r, t)

LEMMA LockedStartKeeps ==
  ASSUME GrowthInv, UNCHANGED <<acct, day>>, NEW r \in Runs, BeginsLocked(r),
         NEW p \in {"adopt", "report"}, NEW k \in Parts \ {"travel"}, NEW n \in Nat,
         p = "report" => n >= 1, NEW b \in BOOLEAN, Become(r, Job(p, k, n, b))
  PROVE  GrowthInv' /\ (OwnInv => OwnInv')
<1> DEFINE s == Job(p, k, n, b)
<1>1. Become(r, s)
  OBVIOUS
<1>2. s \in Working /\ s.pc = p /\ s.kind = k /\ s.day = day /\ s.left = n /\ s.all = n
  BY JobIs DEF Steps
<1> HIDE DEF s
<1>3. Fresh(s) /\ s.day = day
  BY <1>2 DEF Fresh, Parts
<1>4. QED BY <1>1, <1>3, StartKeeps

LEMMA StartsKeep ==
  ASSUME GrowthInv, UNCHANGED <<acct, day>>, NEW r \in Runs, Starts(r)
  PROVE  GrowthInv' /\ (OwnInv => OwnInv')
<1>0. \A n \in Counts \cup {1} : n \in Nat /\ n >= 1
  BY DEF Counts, RollReportCount
<1>1. CASE RunGrowthChain(r)
  <2>1. PICK n \in Counts, p \in {"adopt", "report"} : Become(r, Job(p, "chain", n, FALSE))
    BY <1>1 DEF RunGrowthChain
  <2>2. QED BY <1>0, <1>1, <2>1, LockedStartKeeps DEF RunGrowthChain, Parts
<1>2. CASE RunActivityReports(r)
  <2>1. PICK n \in Counts \cup {1} : Become(r, Job("report", "report", n, FALSE))
    BY <1>2 DEF RunActivityReports
  <2>2. QED BY <1>0, <1>2, <2>1, LockedStartKeeps DEF RunActivityReports, Parts
<1>3. CASE RunGrowthAdopt(r)
  BY <1>3, LockedStartKeeps DEF RunGrowthAdopt, Parts
<1>4. ASSUME NEW t \in Tiers, RunGrowthRedeem(r, t)
      PROVE  GrowthInv' /\ (OwnInv => OwnInv')
  <2> DEFINE s == [pc |-> "tier", tier |-> t, day |-> day]
  <2>1. Fresh(s) /\ s.day = day
    BY DEF Fresh, Redeeming, GrowthInv, HostTyped
  <2>2. BeginsLocked(r) /\ Become(r, s)
    BY <1>4 DEF RunGrowthRedeem
  <2> HIDE DEF s
  <2>3. QED BY <2>1, <2>2, StartKeeps
<1>5. CASE RunTravelTick(r)
  <2> DEFINE s == Job("travel", "travel", 0, FALSE)
  <2>1. s \in Working /\ s.pc = "travel" /\ s.kind = "travel" /\ s.day = day
    <3> DEFINE p == "travel"  n == 0  b == FALSE
    <3>1. p \in Steps /\ p \in Parts /\ n \in Nat /\ b \in BOOLEAN
      BY DEF Steps, Parts
    <3>2. s = Job(p, p, n, b)
      OBVIOUS
    <3> HIDE DEF p, n, b, s
    <3>3. s \in Working /\ s.pc = p /\ s.kind = p /\ s.day = day
      BY <3>1, <3>2, JobIs
    <3>4. QED BY <3>3 DEF p
  <2>2. run[r] = Idle /\ Become(r, s) /\ UNCHANGED <<gmu, gday, flags, plant, full, excused>>
    BY <1>5 DEF RunTravelTick, Ready, Stays, ghistory
  <2> HIDE DEF s
  <2>3. run' \in [Runs -> RunStates] /\ run'[r] = s /\ \A q \in Runs \ {r} : run'[q] = run[q]
    BY <2>1, <2>2, StatesIn DEF Become, GrowthInv, GrowthTypeOK
  <2>4. HostTyped' /\ GrowthTypeOK' /\ DatesPast'
    BY <2>1, <2>2, <2>3 DEF GrowthInv, GrowthTypeOK, HostTyped, DatesPast
  <2>5. LockHeld' /\ RunsWell'
    BY <2>1, <2>2, <2>3 DEF GrowthInv, LockHeld, Writes, RunsWell, Patrols, Counts1
  <2>6. OwnInv => OwnInv'
    BY <2>1, <2>2, <2>3 DEF OwnInv, ReportFlagOwn, ReportFlag, Reporting, GrowthInv
  <2>7. QED BY <2>4, <2>5, <2>6 DEF GrowthInv
<1>6. QED BY <1>1, <1>2, <1>3, <1>4, <1>5 DEF Starts

\* Steps that leave the goroutines and the flags alone: buttons, arrivals.
LEMMA BesideKeeps ==
  ASSUME GrowthInv, UNCHANGED <<acct, day, gmu, gday, flags, run, full>>,
         plant' \in [Accts -> PlantStates], \A a \in Accts : plant'[a].sent = plant[a].sent,
         excused' \subseteq Accts
  PROVE  GrowthInv' /\ (OwnInv => OwnInv')
<1>1. HostTyped' /\ GrowthTypeOK' /\ DatesPast'
  BY DEF GrowthInv, GrowthTypeOK, HostTyped, DatesPast
<1>2. LockHeld' /\ RunsWell'
  BY DEF GrowthInv, LockHeld, RunsWell
<1>3. OwnInv => OwnInv'
  BY DEF OwnInv, ReportFlagOwn, ReportFlag, Reporting, GrowthInv, HostTyped
<1>4. QED BY <1>1, <1>2, <1>3 DEF GrowthInv

LEMMA HandsKeep ==
  ASSUME GrowthInv, UNCHANGED <<acct, day>>, GrowthLottery \/ GrowthMakeup \/ GrowthBonus
  PROVE  GrowthInv' /\ (OwnInv => OwnInv')
<1>1. acct # None /\ UNCHANGED <<gmu, gday, flags, run, full>> /\ Excuse
  BY DEF GrowthLottery, GrowthMakeup, GrowthBonus, ByHand, Stays
<1>2. PICK p \in PlantStates : p.sent = Mine.sent /\ Upstream(p)
  <2>1. CASE GrowthLottery
    BY <1>1, <2>1, PlantTyped, PlantSteps DEF GrowthLottery, ByHand
  <2>2. CASE GrowthMakeup
    BY <1>1, <2>2, PlantTyped, PlantSteps DEF GrowthMakeup, ByHand
  <2>3. CASE GrowthBonus
    <3>1. /\ [Mine EXCEPT !.gift = FALSE, !.comp = FALSE] \in PlantStates
          /\ [Mine EXCEPT !.gift = FALSE, !.comp = FALSE].sent = Mine.sent
      BY <1>1, PlantTyped DEF PlantStates
    <3>2. QED BY <2>3, <3>1 DEF GrowthBonus, ByHand
  <2>4. QED BY <2>1, <2>2, <2>3
<1>3. plant' \in [Accts -> PlantStates] /\ \A a \in Accts : plant'[a].sent = plant[a].sent
  BY <1>1, <1>2, UpstreamKeeps
<1>4. excused' \subseteq Accts
  BY <1>1, ExcuseTyped
<1>5. QED BY <1>1, <1>3, <1>4, BesideKeeps

LEMMA ArrivalKeeps ==
  ASSUME GrowthInv, UNCHANGED <<acct, day>>, NEW a \in Accts, Arrives(a)
  PROVE  GrowthInv' /\ (OwnInv => OwnInv')
<1>1. \A p \in PlantStates : /\ [p EXCEPT !.trip = "arrived"] \in PlantStates
                             /\ [p EXCEPT !.trip = "arrived"].sent = p.sent
  BY DEF PlantStates
<1>2. plant' = [plant EXCEPT ![a] = [plant[a] EXCEPT !.trip = "arrived"]]
  BY DEF Arrives
<1>3. plant' \in [Accts -> PlantStates] /\ \A b \in Accts : plant'[b].sent = plant[b].sent
  BY <1>1, <1>2 DEF GrowthInv, GrowthTypeOK
<1>4. QED BY <1>3, BesideKeeps DEF Arrives, ghistory, GrowthInv, GrowthTypeOK
LEMMA DawnKeeps ==
  ASSUME GrowthInv, acct' = acct, day' = day + 1, GrowthDawn
  PROVE  GrowthInv' /\ OwnInv'
<1>1. plant' \in [Accts -> PlantStates] /\ full' = {} /\ excused' \subseteq Accts
  <2>1. ASSUME NEW p \in PlantStates PROVE NextMorning(p) \in PlantStates
    <3> DEFINE t == p.tiers \cup p.due
    <3>1. t \in SUBSET Tiers /\ {} \in SUBSET Tiers
      BY DEF PlantStates
    <3>2. NextMorning(p) = [p EXCEPT !.sent = 0, !.out = FALSE, !.tiers = t, !.due = {}]
      BY DEF NextMorning
    <3> HIDE DEF t
    <3>3. [p EXCEPT !.sent = 0, !.out = FALSE, !.tiers = t, !.due = {}] \in PlantStates
      BY <3>1 DEF PlantStates
    <3>4. QED BY <3>2, <3>3
  <2>2. QED BY <2>1 DEF GrowthDawn, GrowthInv, GrowthTypeOK, Leftover
<1>2. day \in Nat /\ day < day' /\ ~(day' <= day) /\ day' \in Nat \ {0}
  BY DEF GrowthInv, HostTyped
<1>3. /\ gday.day \in Nat /\ \A f \in Flags : flags[f] \in Nat
      /\ \A r \in Runs : run[r].pc # "idle" => run[r].day \in Nat
  <2>1. ASSUME NEW r \in Runs, run[r].pc # "idle" PROVE run[r].day \in Nat
    <3>1. run[r] \in Working \/ run[r] \in Redeeming
      BY <2>1, RunCases DEF GrowthInv, GrowthTypeOK
    <3>2. QED BY <3>1 DEF Working, Redeeming
  <2>2. QED BY <2>1 DEF GrowthInv, GrowthTypeOK
<1>4. UNCHANGED <<gmu, gday, flags, run>>
  BY DEF GrowthDawn
<1>5. HostTyped' /\ GrowthTypeOK'
  BY <1>1, <1>2, <1>4 DEF GrowthInv, GrowthTypeOK, HostTyped
<1>6. DatesPast'
  BY <1>2, <1>3, <1>4 DEF GrowthInv, DatesPast
<1>7. LockHeld' /\ RunsWell'
  BY <1>4 DEF GrowthInv, LockHeld, RunsWell
<1>8. OwnInv'
  BY <1>2, <1>3, <1>4 DEF OwnInv, ReportFlagOwn, ReportFlag, Reporting, GrowthInv, DatesPast, Flags
<1>9. QED BY <1>5, <1>6, <1>7, <1>8 DEF GrowthInv

LEMMA CrashKeeps ==
  ASSUME GrowthInv, UNCHANGED <<acct, day>>, GrowthCrash
  PROVE  GrowthInv' /\ (OwnInv => OwnInv')
<1>1. /\ gmu' = None /\ gday' = [day |-> 0, done |-> NoFlags] /\ gday'.day = 0
      /\ \A r \in Runs : run'[r] = Idle /\ run'[r].pc = "idle"
      /\ UNCHANGED <<flags, plant, full>>
  BY DEF GrowthCrash, Idle
<1>2. excused' \subseteq Accts
  BY ExcuseTyped DEF GrowthCrash, Interrupted
<1>3. run' \in [Runs -> RunStates] /\ gday' \in [day: Nat, done: [Flags -> BOOLEAN]]
  BY <1>1, StatesIn DEF GrowthCrash, NoFlags
<1>4. HostTyped' /\ GrowthTypeOK'
  BY <1>1, <1>2, <1>3 DEF GrowthInv, GrowthTypeOK, HostTyped
<1>5. DatesPast'
  BY <1>1 DEF GrowthInv, DatesPast, HostTyped
<1>6. LockHeld' /\ RunsWell'
  BY <1>1 DEF LockHeld, RunsWell, Writes, Patrols, Counts1, Steps
<1>7. OwnInv => OwnInv'
  BY <1>1 DEF OwnInv, ReportFlagOwn, ReportFlag, Reporting, GrowthInv, HostTyped
<1>8. QED BY <1>4, <1>5, <1>6, <1>7 DEF GrowthInv

\* A reset leaves no flag and finds no run that could set one.
LEMMA ResetKeeps ==
  ASSUME GrowthInv, UNCHANGED <<acct, day>>, ResetGrowth
  PROVE  GrowthInv' /\ OwnInv'
<1>1. /\ gmu = None /\ gday' = [day |-> 0, done |-> NoFlags] /\ gday'.day = 0
      /\ flags' = [f \in Flags |-> 0]
      /\ UNCHANGED <<gmu, run, plant, full, excused>>
  BY DEF ResetGrowth, ghistory
<1>2. gday' \in [day: Nat, done: [Flags -> BOOLEAN]]
  BY <1>1 DEF NoFlags
<1>3. day \in Nat /\ day # 0 /\ 0 <= day
  BY DEF GrowthInv, HostTyped
<1>4. HostTyped' /\ GrowthTypeOK'
  BY <1>1, <1>2 DEF GrowthInv, GrowthTypeOK, HostTyped
<1>5. DatesPast'
  BY <1>1, <1>3 DEF GrowthInv, DatesPast
<1>6. \A r \in Runs : ~Writes(run[r])
  BY <1>1, LockFree
<1>7. LockHeld' /\ RunsWell'
  BY <1>1, <1>6 DEF LockHeld, GrowthInv, RunsWell, Writes
<1>8. OwnInv'
  <2>1. ReportFlagOwn'
    BY <1>1, <1>3 DEF ReportFlagOwn, ReportFlag, Flags
  <2>2. \A r \in Runs : run[r].pc # "report"
    BY <1>6 DEF Writes, Steps, GrowthInv, RunsWell, Patrols
  <2>3. QED BY <1>1, <2>1, <2>2 DEF OwnInv, Reporting
<1>9. QED BY <1>4, <1>5, <1>7, <1>8 DEF GrowthInv

LEMMA AccountKeeps ==
  ASSUME GrowthInv, acct' \in Accts \cup {None}, Interrupted,
         UNCHANGED <<day, gmu, gday, flags, run, plant, full>>
  PROVE  GrowthInv'
<1>1. excused' \subseteq Accts
  BY ExcuseTyped DEF Interrupted
<1>2. QED BY <1>1 DEF GrowthInv, HostTyped, GrowthTypeOK, DatesPast, LockHeld, RunsWell

LEMMA NothingKeeps ==
  ASSUME GrowthInv, UNCHANGED <<acct, day, growth>>
  PROVE  GrowthInv' /\ (OwnInv => OwnInv')
BY DEF GrowthInv, HostTyped, GrowthTypeOK, DatesPast, LockHeld, RunsWell, growth, ghistory,
       OwnInv, ReportFlagOwn, ReportFlag, Reporting

LEMMA FirstDay ==
  ASSUME GrowthInit, day = 1, acct \in Accts \cup {None}, plant \in [Accts -> PlantStates]
  PROVE  GrowthInv /\ OwnInv
<1>1. /\ gmu = None /\ gday.day = 0 /\ flags = [f \in Flags |-> 0]
      /\ gday \in [day: Nat, done: [Flags -> BOOLEAN]]
      /\ \A r \in Runs : run[r] = Idle /\ run[r].pc = "idle"
      /\ full \subseteq Accts /\ excused \subseteq Accts
  BY DEF GrowthInit, NoFlags, Idle, Leftover
<1>2. run \in [Runs -> RunStates]
  BY StatesIn DEF GrowthInit
<1>3. HostTyped /\ GrowthTypeOK
  BY <1>1, <1>2 DEF GrowthTypeOK, HostTyped
<1>4. DatesPast /\ LockHeld /\ RunsWell
  BY <1>1 DEF DatesPast, LockHeld, RunsWell, Writes, Patrols, Counts1, Steps
<1>5. OwnInv
  BY <1>1 DEF OwnInv, ReportFlagOwn, ReportFlag, Reporting, Flags
<1>6. QED BY <1>3, <1>4, <1>5 DEF GrowthInv
-----------------------------------------------------------------------------
(* The rewards of the day: which run has draws to make, and which tiers it *)
(* knows of.                                                               *)
ChainOnly == {"streak", "gift", "comp", "info", "makeup", "reread", "redeem", "chances", "draw"}
Ahead == {"report", "streak", "adopt", "gift", "comp", "info"}
Claiming == {"makeup", "reread", "redeem"}
Drawing == {"redeem", "chances", "draw"}

\* A run between redeeming and drawing is about to draw so many times.
ToDraw(s, n) ==
  /\ s.kind = "chain"
  /\ \/ s.pc = "redeem" /\ s.left # 0 /\ n <= Cardinality(Tiers \ s.info)
     \/ s.pc = "chances" /\ n <= Cardinality(Tiers)
     \/ s.pc = "draw" /\ n <= s.left
DrawsOwn ==
  \A a \in Accts \ excused : plant[a].chances # 0
    => a = acct /\ gmu # None /\ ToDraw(run[gmu], plant[a].chances)

\* Rewards are taken once a day: a run that takes them, or one of another day,
\* finds them not yet marked.
MarksRight == gday.day = day /\ flags["reward"] = day => gday.done["reward"]
Kept(s) ==
  /\ s.pc \in ChainOnly => s.kind = "chain"
  /\ s.pc \in Claiming => s.info \subseteq Tiers
  /\ Writes(s) /\ (s.pc \in Claiming \/ s.day # day) => flags["reward"] # day
RewardInv == DrawsOwn /\ MarksRight /\ \A r \in Runs : Kept(run[r])

\* What a run of today has read of the tiers covers those that are left.
Listed(s) ==
  /\ (s.pc \in Ahead /\ s.info # Unread) \/ s.pc \in {"makeup", "redeem"}
  /\ s.day = day /\ acct \in Accts \ excused
  => Mine.tiers \subseteq s.info
FlagTiers == flags["reward"] = day /\ acct \in Accts \ excused => Mine.tiers = {}
TiersInv == FlagTiers /\ \A r \in Runs : Listed(run[r])

LEMMA OneWriter ==
  ASSUME GrowthInv, NEW r \in Runs, Writes(run[r])
  PROVE  /\ gmu = r /\ gday.day = run[r].day /\ gmu # None
         /\ \A q \in Runs \ {r} : run[q].pc \in {"idle", "travel", "depart", "end"} /\ ~Writes(run[q])
<1>1. gmu = r /\ gday.day = run[r].day /\ gmu # None
  BY GrowthAssumption DEF GrowthInv, LockHeld
<1>2. ASSUME NEW q \in Runs \ {r}
      PROVE  run[q].pc \in {"idle", "travel", "depart", "end"} /\ ~Writes(run[q])
  <2>1. ~Writes(run[q])
    BY <1>1 DEF GrowthInv, LockHeld
  <2>2. run[q].pc \in Steps \/ run[q].pc = "idle"
    BY <2>1, RunCases DEF GrowthInv, GrowthTypeOK, Writes
  <2>3. QED BY <2>1, <2>2 DEF GrowthInv, RunsWell, Patrols, Writes
<1>3. QED BY <1>1, <1>2

LEMMA NoDraws ==
  ASSUME GrowthInv, RewardInv,
         gmu = None \/ \E r \in Runs : Writes(run[r]) /\ run[r].pc \notin Drawing
  PROVE  \A a \in Accts \ excused : plant[a].chances = 0
BY OneWriter DEF RewardInv, DrawsOwn, ToDraw, Drawing

\* The run that has the lock makes a step, the others rest or travel.
LEMMA WriterKeeps ==
  ASSUME GrowthInv, UNCHANGED <<acct, day>>, NEW r \in Runs, Writes(run[r]),
         NEW s, run' = [run EXCEPT ![r] = s],
         Kept(run[r])', MarksRight', DrawsOwn', TiersInv => FlagTiers' /\ Listed(run[r])'
  PROVE  RewardInv' /\ (TiersInv => TiersInv')
<1>1. ASSUME NEW q \in Runs \ {r} PROVE Kept(run[q])' /\ Listed(run[q])'
  <2>1. run'[q] = run[q] /\ run[q].pc \in {"idle", "travel", "depart", "end"} /\ ~Writes(run[q])
    BY OneWriter DEF GrowthInv, GrowthTypeOK
  <2>2. QED BY <2>1 DEF Kept, Listed, Writes, ChainOnly, Claiming, Ahead
<1>2. QED BY <1>1 DEF RewardInv, TiersInv

\* Steps that have nothing to do with rewards.
Later(o, s) ==
  /\ s.pc \notin Claiming /\ (s.pc \in ChainOnly => s.kind = "chain")
  /\ s.pc \in Ahead => o.pc \in Ahead /\ s.info = o.info /\ s.day = o.day
  /\ Writes(s) => Writes(o) /\ s.day = o.day

SameRewards ==
  /\ \A a \in Accts : /\ plant'[a].tiers = plant[a].tiers
                      /\ plant'[a].chances = plant[a].chances
  /\ flags'["reward"] = flags["reward"]
  /\ gday'.day = gday.day /\ gday'.done["reward"] = gday.done["reward"]
  /\ excused \subseteq excused'

LEMMA AsideKeeps ==
  ASSUME GrowthInv, RewardInv, UNCHANGED <<acct, day>>, NEW r \in Runs,
         run[r].pc \notin Drawing, gmu' = gmu \/ gmu = r,
         NEW s, run' = [run EXCEPT ![r] = s], Later(run[r], s), SameRewards
  PROVE  RewardInv' /\ (TiersInv => TiersInv')
<1>1. run'[r] = s /\ \A q \in Runs \ {r} : run'[q] = run[q]
  BY DEF GrowthInv, GrowthTypeOK
<1>2. DrawsOwn'
  <2> SUFFICES ASSUME NEW a \in Accts \ excused', plant'[a].chances # 0
               PROVE  a = acct' /\ gmu' # None /\ ToDraw(run'[gmu'], plant'[a].chances)
    BY DEF DrawsOwn
  <2>1. a = acct /\ gmu # None /\ ToDraw(run[gmu], plant[a].chances)
    BY DEF RewardInv, DrawsOwn, SameRewards
  <2>2. gmu # r /\ gmu \in Runs
    BY <2>1 DEF ToDraw, Drawing, GrowthInv, GrowthTypeOK
  <2>3. QED BY <1>1, <2>1, <2>2 DEF SameRewards
<1>3. MarksRight'
  BY DEF RewardInv, MarksRight, SameRewards
<1>4. ASSUME NEW q \in Runs PROVE Kept(run[q])'
  <2>1. Kept(run[q]) /\ Kept(run[r])
    BY DEF RewardInv
  <2>2. CASE q = r
    BY <1>1, <2>1, <2>2 DEF Kept, Later, SameRewards
  <2>3. CASE q # r
    BY <1>1, <2>1, <2>3 DEF Kept, Writes, SameRewards
  <2>4. QED BY <2>2, <2>3
<1>5. ASSUME TiersInv PROVE TiersInv'
  <2>1. FlagTiers'
    BY <1>5 DEF TiersInv, FlagTiers, SameRewards, Mine
  <2>2. ASSUME NEW q \in Runs PROVE Listed(run[q])'
    <3>1. Listed(run[q]) /\ Listed(run[r])
      BY <1>5 DEF TiersInv
    <3>2. CASE q = r
      BY <1>1, <3>1, <3>2 DEF Listed, Later, SameRewards, Mine, Claiming
    <3>3. CASE q # r
      BY <1>1, <3>1, <3>3 DEF Listed, SameRewards, Mine
    <3>4. QED BY <3>2, <3>3
  <2>3. QED BY <2>1, <2>2 DEF TiersInv
<1>6. QED BY <1>2, <1>3, <1>4, <1>5 DEF RewardInv

\* What a call changes upstream when it leaves tiers and draws alone.
LEMMA AsideUpstream ==
  ASSUME GrowthInv, acct # None, NEW q, Upstream(q), q.tiers = Mine.tiers,
         q.chances = Mine.chances
  PROVE  \A a \in Accts : plant'[a].tiers = plant[a].tiers /\ plant'[a].chances = plant[a].chances
BY DEF GrowthInv, GrowthTypeOK, Upstream, Mine

Aside(r) ==
  Report(r) \/ ReportFails(r) \/ (StreakCheck(r) /\ Goto(r, "adopt")) \/ Adopt(r) \/ Gift(r)
  \/ Compensation(r) \/ (Info(r) /\ Goto(r, "travel")) \/ Travel(r) \/ Depart(r) \/ End(r)

LEMMA AsideSame ==
  ASSUME GrowthInv, NEW r \in Runs, Aside(r)
  PROVE  SameRewards
<1>1. \A a \in Accts : plant'[a].tiers = plant[a].tiers /\ plant'[a].chances = plant[a].chances
  <2> DEFINE Same == \A a \in Accts : /\ plant'[a].tiers = plant[a].tiers
                                      /\ plant'[a].chances = plant[a].chances
  <2>1. CASE UNCHANGED plant
    BY <2>1
  <2>2. CASE Report(r)
    <3>1. acct # None /\ Upstream(Reported(Mine))
      BY <2>2 DEF Report, Answered
    <3>2. Mine \in PlantStates
      BY <3>1, PlantTyped
    <3>3. Reported(Mine).tiers = Mine.tiers /\ Reported(Mine).chances = Mine.chances
      BY <3>2 DEF PlantStates, Reported
    <3>4. QED BY <3>1, <3>3, AsideUpstream
  <2>3. ASSUME acct # None, ~UNCHANGED plant,
               Adopt(r) \/ Gift(r) \/ Compensation(r) \/ Depart(r)
        PROVE  Same
    <3>1. Mine \in PlantStates
      BY <2>3, PlantTyped
    <3>2. PICK q \in {[Mine EXCEPT !.buddy = TRUE], [Mine EXCEPT !.gift = FALSE],
                      [Mine EXCEPT !.comp = FALSE], [Mine EXCEPT !.trip = "idle"],
                      [Mine EXCEPT !.trip = "traveling", !.out = TRUE]} : Upstream(q)
      <4>1. CASE Mine.trip = "arrived" /\ Upstream([Mine EXCEPT !.trip = "idle"])
        BY <4>1
      <4>2. CASE Upstream([Mine EXCEPT !.trip = "traveling", !.out = TRUE])
        BY <4>2
      <4>3. CASE Depart(r)
        BY <2>3, <4>1, <4>2, <4>3 DEF Depart
      <4>4. QED BY <2>3, <4>3 DEF Adopt, Gift, Compensation
    <3>3. q.tiers = Mine.tiers /\ q.chances = Mine.chances
      BY <3>1, <3>2 DEF PlantStates
    <3>4. QED BY <2>3, <3>2, <3>3, AsideUpstream
  <2>4. acct = None => UNCHANGED plant \/ Report(r)
    BY DEF Aside, ReportFails, StreakCheck, Adopt, Gift, Compensation, Info, Travel, Depart, End,
           Answered
  <2>5. UNCHANGED plant \/ Report(r) \/ Adopt(r) \/ Gift(r) \/ Compensation(r) \/ Depart(r)
    BY DEF Aside, ReportFails, StreakCheck, Info, Travel, End
  <2>6. QED BY <2>1, <2>2, <2>3, <2>4, <2>5
<1>2. excused \subseteq excused'
  BY DEF Aside, Report, ReportFails, StreakCheck, Adopt, Gift, Compensation, Info, Travel, Depart,
         End, ghistory, Excuse
<1>3. /\ flags'["reward"] = flags["reward"]
      /\ gday'.day = gday.day /\ gday'.done["reward"] = gday.done["reward"]
  <2>1. CASE Report(r)
    <3>1. gday \in [day: Nat, done: [Flags -> BOOLEAN]] /\ flags \in [Flags -> Nat]
      BY DEF GrowthInv, GrowthTypeOK
    <3>2. \/ UNCHANGED <<gday, flags>>
          \/ /\ gday' = [gday EXCEPT !.done["report"] = TRUE, !.done["adopt"] = FALSE]
             /\ \E n : flags' = [MarkedAt(run[r].day, "report") EXCEPT !["adopt"] = n]
      BY <2>1 DEF Report
    <3>3. ASSUME NEW n, flags' = [MarkedAt(run[r].day, "report") EXCEPT !["adopt"] = n]
          PROVE  flags'["reward"] = flags["reward"]
      BY <3>1, <3>3 DEF MarkedAt, Flags
    <3>4. ASSUME gday' = [gday EXCEPT !.done["report"] = TRUE, !.done["adopt"] = FALSE]
          PROVE  gday'.day = gday.day /\ gday'.done["reward"] = gday.done["reward"]
      BY <3>1, <3>4 DEF Flags
    <3>5. QED BY <3>2, <3>3, <3>4
  <2>2. CASE Adopt(r)
    BY <2>2 DEF Adopt, Mark, MarkedAt, GrowthInv, GrowthTypeOK, Flags
  <2>3. CASE End(r)
    BY <2>3 DEF End, MarkedAt, GrowthInv, GrowthTypeOK, Flags
  <2>4. QED BY <2>1, <2>2, <2>3 DEF Aside, ReportFails, NotDone, StreakCheck, Gift, Compensation,
                                    Info, Travel, Depart, Stays
<1>4. QED BY <1>1, <1>2, <1>3 DEF SameRewards

LEMMA AsideLater ==
  ASSUME GrowthInv, RewardInv, NEW r \in Runs, Aside(r)
  PROVE  \E s : run' = [run EXCEPT ![r] = s] /\ Later(run[r], s)
<1> DEFINE o == run[r]
<1>0. o.pc \in Steps /\ o \in Working /\ Kept(o)
  <2>1. o.pc \in Steps
    BY DEF Aside, Report, ReportFails, StreakCheck, Adopt, Gift, Compensation, Info, Travel,
           Depart, End, At, Steps
  <2>2. o.pc # "idle" /\ o.pc # "tier" /\ o \in RunStates
    BY <2>1 DEF Steps, GrowthInv, GrowthTypeOK
  <2>3. QED BY <2>1, <2>2, RunCases DEF RewardInv
<1>1. CASE Report(r)
  <2>1. o.pc = "report"
    BY <1>1 DEF Report, At
  <2>2. PICK s \in {[o EXCEPT !.left = @ - 1],
                    [o EXCEPT !.pc = After(r, "streak"), !.left = 0, !.reported = TRUE]} :
          Become(r, s)
    BY <1>1 DEF Report
  <2>3. /\ s.kind = o.kind /\ s.day = o.day /\ s.info = o.info
        /\ s.pc \in {"report", "end", "streak"} /\ (s.pc = "streak" => o.kind = "chain")
    BY <1>0, <2>1, <2>2 DEF Working, After
  <2>4. Later(o, s)
    BY <1>0, <2>1, <2>3 DEF Later, Claiming, ChainOnly, Ahead, Writes, Steps
  <2>5. QED BY <2>2, <2>4 DEF Become
<1>2. CASE Adopt(r)
  <2> DEFINE next == IF o.pc = "late" THEN "end" ELSE After(r, "gift")
  <2>1. o.pc \in {"adopt", "late"}
    BY <1>2 DEF Adopt, At
  <2>2. PICK s \in {[o EXCEPT !.pc = next, !.adopted = TRUE], [o EXCEPT !.pc = next]} :
          Become(r, s)
    BY <1>2 DEF Adopt, Goto
  <2>3. /\ s.kind = o.kind /\ s.day = o.day /\ s.info = o.info
        /\ s.pc \in {"end", "gift"} /\ (s.pc = "gift" => o.kind = "chain" /\ o.pc = "adopt")
    BY <1>0, <2>1, <2>2 DEF Working, After
  <2>4. Later(o, s)
    BY <1>0, <2>1, <2>3 DEF Later, Claiming, ChainOnly, Ahead, Writes, Steps
  <2>5. QED BY <2>2, <2>4 DEF Become
<1>3. ASSUME NEW p \in {"adopt", "end", "comp", "info", "travel", "late", "depart"},
             p \in {"adopt", "comp", "info"} => o.pc \in Ahead,
             p \in {"comp", "info"} => o.pc \in ChainOnly, Goto(r, p)
      PROVE  \E s : run' = [run EXCEPT ![r] = s] /\ Later(run[r], s)
  <2> DEFINE s == [o EXCEPT !.pc = p]
  <2>1. s.kind = o.kind /\ s.day = o.day /\ s.info = o.info /\ s.pc = p
    BY <1>0 DEF Working
  <2>2. Become(r, s)
    BY <1>3 DEF Goto
  <2> HIDE DEF s
  <2>3. p \in ChainOnly => o.kind = "chain"
    BY <1>0, <1>3 DEF Kept, ChainOnly
  <2>4. Later(o, s)
    BY <1>0, <1>3, <2>1, <2>3 DEF Later, Claiming, ChainOnly, Ahead, Writes, Steps
  <2>5. QED BY <2>2, <2>4 DEF Become
<1>4. CASE End(r)
  <2>1. Later(o, Idle)
    BY DEF Later, Claiming, ChainOnly, Ahead, Writes, Steps, Idle
  <2>2. QED BY <1>4, <2>1 DEF End, Become
<1>5. CASE ReportFails(r)
  BY <1>3, <1>5 DEF ReportFails, After, At, Ahead
<1>6. CASE (StreakCheck(r) /\ Goto(r, "adopt")) \/ Gift(r) \/ Compensation(r)
  BY <1>3, <1>6 DEF StreakCheck, Gift, Compensation, At, Ahead, ChainOnly
<1>7. CASE (Info(r) /\ Goto(r, "travel")) \/ Travel(r) \/ Depart(r)
  BY <1>3, <1>7 DEF Travel, Depart, After
<1>8. QED BY <1>1, <1>2, <1>4, <1>5, <1>6, <1>7 DEF Aside

LEMMA AsidesKeep ==
  ASSUME GrowthInv, RewardInv, UNCHANGED <<acct, day>>, NEW r \in Runs, Aside(r)
  PROVE  RewardInv' /\ (TiersInv => TiersInv')
<1>1. PICK s : run' = [run EXCEPT ![r] = s] /\ Later(run[r], s)
  BY AsideLater
<1>2. run[r].pc \notin Drawing /\ (gmu' = gmu \/ gmu = r)
  BY DEF Aside, Report, ReportFails, StreakCheck, Adopt, Gift, Compensation, Info, Travel, Depart,
         End, At, Drawing, Stays, Unlocks
<1>3. QED BY <1>1, <1>2, AsideSame, AsideKeeps

\* The list of the tiers is read; the rewards of the day are not yet marked.
LEMMA ListingKeeps ==
  ASSUME GrowthInv, RewardInv, UNCHANGED <<acct, day>>, NEW r \in Runs,
         (StreakCheck(r) /\ ~Goto(r, "adopt")) \/ (Info(r) /\ ~Goto(r, "travel"))
  PROVE  RewardInv' /\ (TiersInv => TiersInv')
<1> DEFINE o == run[r]
<1>1. o \in Working /\ o.pc \in {"streak", "info"} /\ Writes(o) /\ Kept(o) /\ o.kind = "chain"
  <2>1. o \in Working /\ o.pc \in {"streak", "info"} /\ o.kind # "travel"
    BY WorksAt DEF StreakCheck, Info, Steps
  <2>2. Kept(o)
    BY DEF RewardInv
  <2>3. QED BY <2>1, <2>2 DEF Kept, Writes, Steps, ChainOnly
<1>2. UNCHANGED <<gmu, gday, flags, plant, excused>>
  BY DEF StreakCheck, Info, Stays, ghistory
<1>3. PICK s :
        /\ s.pc \in {"adopt", "makeup"} /\ s.day = o.day /\ s.kind = o.kind
        /\ run' = [run EXCEPT ![r] = s]
        /\ (acct # None /\ s.info = Mine.tiers)
             \/ (o.pc = "info" /\ s.info = o.info /\ s.info # Unread)
        /\ s.pc = "makeup" => ~gday.done["reward"]
  <2>1. CASE StreakCheck(r)
    <3> DEFINE s == [o EXCEPT !.pc = "adopt", !.info = Mine.tiers]
    <3>1. Become(r, s) /\ acct # None
      BY <2>1 DEF StreakCheck, Answered, Info, At
    <3>2. s.pc = "adopt" /\ s.info = Mine.tiers /\ s.day = o.day /\ s.kind = o.kind
      BY <1>1 DEF Working
    <3> HIDE DEF s
    <3>3. QED BY <3>1, <3>2 DEF Become
  <2>2. CASE Info(r)
    <3>1. PICK i : /\ ToMakeup(r, i) /\ ~gday.done["reward"]
                   /\ \/ acct # None /\ i = Mine.tiers
                      \/ o.pc = "info" /\ i = o.info /\ i # Unread
      BY <2>2 DEF Info, Marked, Answered, At, StreakCheck
    <3> DEFINE s == [o EXCEPT !.pc = "makeup", !.info = i, !.left = 0]
    <3>2. s.pc = "makeup" /\ s.info = i /\ s.day = o.day /\ s.kind = o.kind
      BY <1>1 DEF Working
    <3>3. Become(r, s)
      BY <3>1 DEF ToMakeup
    <3> HIDE DEF s
    <3>4. QED BY <3>1, <3>2, <3>3 DEF Become
  <2>3. QED BY <2>1, <2>2
<1>4. run'[r] = s /\ s.info \subseteq Tiers
  BY <1>1, <1>3, PlantTyped DEF Working, GrowthInv, GrowthTypeOK
<1>5. s.pc = "makeup" => flags["reward"] # day
  <2>1. gday.day = o.day
    BY <1>1 DEF GrowthInv, LockHeld
  <2>2. QED BY <1>1, <1>3, <2>1 DEF RewardInv, MarksRight, Kept
<1>6. Kept(run[r])'
  BY <1>1, <1>2, <1>3, <1>4, <1>5 DEF Kept, Writes, Claiming, ChainOnly
<1>7. MarksRight' /\ DrawsOwn'
  <2>1. MarksRight'
    BY <1>2 DEF RewardInv, MarksRight
  <2>2. o.pc \notin Drawing
    BY <1>1 DEF Drawing
  <2>3. QED BY <1>1, <1>2, <2>1, <2>2, NoDraws DEF DrawsOwn
<1>8. ASSUME TiersInv PROVE FlagTiers' /\ Listed(run[r])'
  <2>1. Listed(o)
    BY <1>8 DEF TiersInv
  <2>2. QED BY <1>2, <1>3, <1>4, <1>8, <2>1 DEF TiersInv, FlagTiers, Listed, Mine, Ahead
<1>9. QED BY <1>1, <1>3, <1>6, <1>7, <1>8, WriterKeeps

\* Where a run goes.
LEMMA GoneTo ==
  ASSUME GrowthInv, NEW r \in Runs, run[r] \in Working, NEW p, Goto(r, p)
  PROVE  /\ run'[r].pc = p /\ run'[r].kind = run[r].kind /\ run'[r].day = run[r].day
         /\ run'[r].info = run[r].info /\ run'[r].left = run[r].left
         /\ \E s : run' = [run EXCEPT ![r] = s]
<1> DEFINE s == [run[r] EXCEPT !.pc = p]
<1>1. /\ s.pc = p /\ s.kind = run[r].kind /\ s.day = run[r].day
      /\ s.info = run[r].info /\ s.left = run[r].left
  BY DEF Working
<1>2. run' = [run EXCEPT ![r] = s]
  BY DEF Goto, Become
<1> HIDE DEF s
<1>3. QED BY <1>1, <1>2 DEF GrowthInv, GrowthTypeOK

LEMMA ClaimingRun ==
  ASSUME GrowthInv, RewardInv, NEW r \in Runs,
         Makeup(r) \/ Reread(r) \/ Redeem(r) \/ Chances(r) \/ Draw(r)
  PROVE  /\ run[r] \in Working /\ Writes(run[r]) /\ run[r].kind = "chain" /\ Kept(run[r])
         /\ gmu = r /\ gmu' = gmu
         /\ Makeup(r) => run[r].pc = "makeup"
         /\ Reread(r) => run[r].pc = "reread"
         /\ Redeem(r) => run[r].pc = "redeem"
         /\ Chances(r) => run[r].pc = "chances"
         /\ Draw(r) => run[r].pc = "draw"
<1>1. /\ run[r] \in Working /\ run[r].pc \in {"makeup", "reread", "redeem", "chances", "draw"}
      /\ Makeup(r) => run[r].pc = "makeup"
      /\ Reread(r) => run[r].pc = "reread"
      /\ Redeem(r) => run[r].pc = "redeem"
      /\ Chances(r) => run[r].pc = "chances"
      /\ Draw(r) => run[r].pc = "draw"
  BY WorksAt DEF Makeup, Reread, Redeem, Chances, Draw, Steps
<1>2. Kept(run[r])
  BY DEF RewardInv
<1>3. run[r].kind = "chain" /\ Writes(run[r])
  BY <1>1, <1>2 DEF Kept, ChainOnly, Writes, Steps
<1>4. gmu = r /\ gmu' = gmu
  BY <1>3 DEF GrowthInv, LockHeld, Makeup, Reread, Redeem, Chances, Draw, Stays
<1>5. QED BY <1>1, <1>2, <1>3, <1>4

\* A failing call, or a hand, excuses the account that is logged in.
LEMMA Excused ==
  ASSUME GrowthInv, Excuse
  PROVE  acct \notin Accts \ excused' /\ excused \subseteq excused'
BY HostAssumption DEF GrowthInv, HostTyped, Excuse

LEMMA MakeupRewards ==
  ASSUME GrowthInv, RewardInv, UNCHANGED <<acct, day>>, NEW r \in Runs, Makeup(r) \/ Reread(r)
  PROVE  RewardInv' /\ (TiersInv => TiersInv')
<1> DEFINE o == run[r]
<1>1. /\ o \in Working /\ Writes(o) /\ o.kind = "chain" /\ Kept(o) /\ gmu = r /\ gmu' = gmu
      /\ o.pc \in {"makeup", "reread"} /\ UNCHANGED <<gday, flags>>
  BY ClaimingRun DEF Makeup, Reread, Stays
<1>2. flags["reward"] # day /\ o.info \subseteq Tiers
  BY <1>1 DEF Kept, Claiming
<1>3. MarksRight' /\ FlagTiers'
  BY <1>1, <1>2 DEF MarksRight, FlagTiers
<1>4. /\ excused \subseteq excused'
      /\ \A a \in Accts : plant'[a].chances = plant[a].chances
  <2>1. excused \subseteq excused'
    BY DEF Makeup, Reread, Excuse
  <2>2. CASE acct # None /\ Upstream(MadeUp(Mine))
    <3>1. Mine \in PlantStates
      BY <2>2, PlantTyped
    <3>2. MadeUp(Mine).chances = Mine.chances
      BY <3>1 DEF MadeUp, PlantStates
    <3>3. QED BY <2>1, <2>2, <3>2 DEF Upstream, Mine, GrowthInv, GrowthTypeOK
  <2>3. QED BY <2>1, <2>2 DEF Makeup, Reread, Answered
<1>5. DrawsOwn'
  <2>1. \A a \in Accts \ excused : plant[a].chances = 0
    BY <1>1, NoDraws DEF Drawing
  <2>2. QED BY <1>4, <2>1 DEF DrawsOwn
<1>6. CASE Goto(r, "reread")
  <2>1. Kept(run[r])' /\ Listed(run[r])'
    BY <1>1, <1>2, <1>6, GoneTo DEF Kept, Listed, Writes, Ahead, Claiming, ChainOnly
  <2>2. QED BY <1>1, <1>3, <1>5, <1>6, <2>1, GoneTo, WriterKeeps
<1>7. CASE Goto(r, "redeem") /\ (Excuse \/ (o.pc = "makeup" /\ UNCHANGED <<plant, excused>>))
  <2>1. Kept(run[r])'
    BY <1>1, <1>2, <1>7, GoneTo DEF Kept, Writes, Claiming, ChainOnly
  <2>2. ASSUME TiersInv PROVE Listed(run[r])'
    <3>1. CASE Excuse
      BY <3>1, Excused DEF Listed
    <3>2. CASE o.pc = "makeup" /\ UNCHANGED <<plant, excused>>
      <4>1. Listed(o)
        BY <2>2 DEF TiersInv
      <4>2. QED BY <1>1, <1>7, <3>2, <4>1, GoneTo DEF Listed, Mine
    <3>3. QED BY <1>7, <3>1, <3>2
  <2>3. QED BY <1>1, <1>3, <1>5, <1>7, <2>1, <2>2, GoneTo, WriterKeeps
<1>8. CASE /\ acct # None /\ UNCHANGED <<plant, excused>>
           /\ Become(r, [o EXCEPT !.pc = "redeem", !.info = Mine.tiers])
  <2> DEFINE s == [o EXCEPT !.pc = "redeem", !.info = Mine.tiers]
  <2>1. s.pc = "redeem" /\ s.info = Mine.tiers /\ s.kind = "chain" /\ s.day = o.day
    BY <1>1 DEF Working
  <2>2. run' = [run EXCEPT ![r] = s]
    BY <1>8 DEF Become
  <2> HIDE DEF s
  <2>3. run'[r] = s
    BY <2>2 DEF GrowthInv, GrowthTypeOK
  <2>4. Kept(run[r])' /\ Listed(run[r])'
    BY <1>1, <1>2, <1>8, <2>1, <2>3, PlantTyped
       DEF Kept, Listed, Mine, Writes, Claiming, ChainOnly
  <2>5. QED BY <1>1, <1>3, <1>5, <2>2, <2>4, WriterKeeps
<1>9. QED BY <1>6, <1>7, <1>8, ClaimingRun DEF Makeup, Reread, Answered

LEMMA OneLess ==
  ASSUME NEW i \in SUBSET Tiers, NEW t \in i
  PROVE  /\ Cardinality(Tiers \ i) \in Nat
         /\ Cardinality(Tiers \ (i \ {t})) = Cardinality(Tiers \ i) + 1
<1>1. IsFiniteSet(Tiers \ i) /\ t \notin Tiers \ i
  BY FS_Difference, GrowthAssumption
<1>2. Tiers \ (i \ {t}) = (Tiers \ i) \cup {t}
  OBVIOUS
<1>3. QED BY <1>1, <1>2, FS_AddElement, FS_CardinalityType

\* One tier more gives one draw more, of those the run has not tried yet.
LEMMA RedeemOneKeeps ==
  ASSUME GrowthInv, RewardInv, UNCHANGED <<acct, day, gmu, gday, flags>>, NEW r \in Runs,
         run[r] \in Working, Writes(run[r]), run[r].kind = "chain", run[r].pc = "redeem",
         NEW t \in run[r].info,
         Become(r, [run[r] EXCEPT !.info = NextTiers(r, t), !.left = 1]),
         \/ acct # None /\ Upstream(Redeemed(Mine, t)) /\ UNCHANGED excused
         \/ UNCHANGED plant /\ Excuse
  PROVE  RewardInv' /\ (TiersInv => TiersInv')
<1> DEFINE o == run[r]  s == [o EXCEPT !.info = NextTiers(r, t), !.left = 1]
<1>1. /\ s.pc = "redeem" /\ s.info = o.info \ {t} /\ s.left = 1 /\ s.kind = "chain"
      /\ s.day = o.day
  BY DEF Working, NextTiers
<1>2. run' = [run EXCEPT ![r] = s]
  BY DEF Become
<1> HIDE DEF s
<1>3. run'[r] = s /\ gmu = r /\ gmu' = r /\ gmu # None
  BY <1>2, OneWriter DEF GrowthInv, GrowthTypeOK
<1>4. Kept(o) /\ o.info \subseteq Tiers /\ flags["reward"] # day
  BY DEF RewardInv, Kept, Claiming
<1>5. Kept(run[r])' /\ MarksRight' /\ FlagTiers'
  BY <1>1, <1>3, <1>4 DEF Kept, MarksRight, FlagTiers, Claiming, Writes
<1>6. CASE UNCHANGED plant /\ Excuse
  <2>1. DrawsOwn'
    BY <1>6, Excused DEF RewardInv, DrawsOwn
  <2>2. Listed(run[r])'
    BY <1>6, Excused DEF Listed
  <2>3. QED BY <1>2, <1>5, <2>1, <2>2, WriterKeeps
<1>7. CASE acct # None /\ Upstream(Redeemed(Mine, t)) /\ UNCHANGED excused
  <2>1. /\ Mine \in PlantStates /\ acct \in Accts /\ Mine.chances \in Nat
        /\ plant'[acct] = Redeemed(Mine, t) /\ \A a \in Accts \ {acct} : plant'[a] = plant[a]
    BY <1>7, PlantTyped DEF Upstream, GrowthInv, GrowthTypeOK
  <2>2. IF t \in Mine.tiers
        THEN /\ plant'[acct].tiers = Mine.tiers \ {t}
             /\ plant'[acct].chances = Mine.chances + 1
        ELSE plant'[acct].tiers = Mine.tiers /\ plant'[acct].chances = Mine.chances
    BY <2>1 DEF Redeemed, PlantStates
  <2>3. DrawsOwn'
    <3> SUFFICES ASSUME NEW a \in Accts \ excused, plant'[a].chances # 0
                 PROVE  a = acct /\ ToDraw(s, plant'[a].chances)
      BY <1>3, <1>7 DEF DrawsOwn
    <3>1. a = acct
      BY <2>1 DEF RewardInv, DrawsOwn
    <3>2. Mine.chances <= Cardinality(Tiers \ o.info)
      <4>0. Cardinality(Tiers \ o.info) \in Nat
        BY <1>4, OneLess
      <4>1. CASE Mine.chances = 0
        BY <4>0, <4>1
      <4>2. CASE Mine.chances # 0
        <5>1. ToDraw(o, Mine.chances)
          BY <1>3, <3>1, <4>2 DEF RewardInv, DrawsOwn, Mine
        <5>2. QED BY <5>1 DEF ToDraw
      <4>3. QED BY <4>1, <4>2
    <3>3. plant'[acct].chances <= Mine.chances + 1
      BY <2>1, <2>2
    <3>4. plant'[acct].chances \in Nat
      BY <2>1, <2>2
    <3>5. plant'[acct].chances <= Cardinality(Tiers \ s.info)
      BY <1>1, <1>4, <2>1, <3>2, <3>3, <3>4, OneLess
    <3>6. QED BY <1>1, <3>1, <3>5 DEF ToDraw
  <2>4. ASSUME TiersInv PROVE Listed(run[r])'
    <3>1. Listed(o)
      BY <2>4 DEF TiersInv
    <3>2. QED BY <1>1, <1>3, <1>7, <2>1, <2>2, <3>1 DEF Listed, Mine
  <2>5. QED BY <1>2, <1>5, <2>3, <2>4, WriterKeeps
<1>8. QED BY <1>6, <1>7

LEMMA RedeemRewards ==
  ASSUME GrowthInv, RewardInv, UNCHANGED <<acct, day>>, NEW r \in Runs, Redeem(r)
  PROVE  RewardInv' /\ (TiersInv => TiersInv')
<1> DEFINE o == run[r]
<1>1. /\ o \in Working /\ Writes(o) /\ o.kind = "chain" /\ Kept(o) /\ gmu = r /\ gmu' = gmu
      /\ o.pc = "redeem"
  BY ClaimingRun
<1>2. ASSUME NEW t \in o.info,
             Become(r, [run[r] EXCEPT !.info = NextTiers(r, t), !.left = 1]),
             \/ Answered /\ Upstream(Redeemed(Mine, t)) /\ UNCHANGED excused
             \/ Failed /\ UNCHANGED plant /\ Excuse,
             UNCHANGED <<gmu, gday, flags>>
      PROVE  RewardInv' /\ (TiersInv => TiersInv')
  BY <1>1, <1>2, RedeemOneKeeps DEF Answered
<1>3. CASE /\ o.info = {} /\ Mark(r, "reward") /\ UNCHANGED <<plant, excused>>
           /\ Goto(r, IF o.left = 0 THEN "travel" ELSE "chances")
  <2> DEFINE p == IF o.left = 0 THEN "travel" ELSE "chances"
  <2>1. /\ run'[r].pc = p /\ run'[r].kind = "chain" /\ run'[r].day = o.day
        /\ \E s : run' = [run EXCEPT ![r] = s]
    BY <1>1, <1>3, GoneTo
  <2>2. gday.day = o.day /\ gmu # None
    BY <1>1, OneWriter
  <2>3. /\ flags'["reward"] = o.day /\ gday'.day = gday.day /\ gday'.done["reward"]
    BY <1>3 DEF Mark, MarkedAt, Flags, GrowthInv, GrowthTypeOK
  <2>4. MarksRight' /\ Kept(run[r])' /\ (TiersInv => Listed(run[r])')
    BY <1>1, <2>1, <2>3 DEF MarksRight, Kept, Listed, Writes, Claiming, ChainOnly, Ahead
  <2>5. DrawsOwn'
    <3> SUFFICES ASSUME NEW a \in Accts \ excused, plant[a].chances # 0
                 PROVE  a = acct /\ ToDraw(run'[r], plant[a].chances)
      BY <1>1, <1>3, <2>2 DEF DrawsOwn
    <3>1. a = acct /\ ToDraw(o, plant[a].chances)
      BY <1>1 DEF RewardInv, DrawsOwn
    <3>2. o.left # 0 /\ plant[a].chances <= Cardinality(Tiers \ {})
      BY <1>1, <1>3, <3>1 DEF ToDraw
    <3>3. Tiers \ {} = Tiers
      OBVIOUS
    <3>4. QED BY <2>1, <3>1, <3>2, <3>3 DEF ToDraw
  <2>6. ASSUME TiersInv PROVE FlagTiers'
    <3>1. Listed(o)
      BY <2>6 DEF TiersInv
    <3>2. QED BY <1>1, <1>3, <2>3, <3>1 DEF Listed, FlagTiers, Mine
  <2>7. QED BY <1>1, <2>1, <2>4, <2>5, <2>6, WriterKeeps
<1>4. QED BY <1>2, <1>3 DEF Redeem

LEMMA DrawRewards ==
  ASSUME GrowthInv, RewardInv, UNCHANGED <<acct, day>>, NEW r \in Runs, Chances(r) \/ Draw(r)
  PROVE  RewardInv' /\ (TiersInv => TiersInv')
<1> DEFINE o == run[r]
<1>1. /\ o \in Working /\ Writes(o) /\ o.kind = "chain" /\ Kept(o) /\ gmu = r /\ gmu' = gmu
      /\ o.pc \in {"chances", "draw"} /\ UNCHANGED <<gday, flags>> /\ gmu # None
      /\ o.left \in Nat
  BY ClaimingRun, OneWriter DEF Chances, Draw, Stays, Working
<1>2. MarksRight'
  BY <1>1 DEF RewardInv, MarksRight
<1>3. ASSUME NEW s, run' = [run EXCEPT ![r] = s], s.pc \in {"draw", "travel"},
             s.kind = "chain", s.day = o.day, DrawsOwn',
             UNCHANGED plant
               \/ (acct # None /\ Upstream(Drawn(Mine))),
             excused \subseteq excused'
      PROVE  RewardInv' /\ (TiersInv => TiersInv')
  <2>1. run'[r] = s
    BY <1>3 DEF GrowthInv, GrowthTypeOK
  <2>2. Kept(run[r])' /\ Listed(run[r])'
    BY <1>1, <1>3, <2>1 DEF Kept, Listed, Writes, Claiming, ChainOnly, Ahead
  <2>3. \A a \in Accts : plant'[a].tiers = plant[a].tiers
    <3>1. CASE acct # None /\ Upstream(Drawn(Mine))
      <4>1. Drawn(Mine).tiers = Mine.tiers
        BY <3>1, PlantTyped DEF Drawn, PlantStates
      <4>2. QED BY <3>1, <4>1 DEF Upstream, Mine, GrowthInv, GrowthTypeOK
    <3>2. QED BY <1>3, <3>1
  <2>4. TiersInv => FlagTiers'
    BY <1>1, <1>3, <2>3 DEF TiersInv, FlagTiers, Mine
  <2>5. QED BY <1>1, <1>2, <1>3, <2>2, <2>4, WriterKeeps
<1>4. CASE Excuse /\ UNCHANGED plant /\ Goto(r, "travel")
  <2> DEFINE s == [o EXCEPT !.pc = "travel"]
  <2>1. s.pc = "travel" /\ s.kind = "chain" /\ s.day = o.day
    BY <1>1 DEF Working
  <2>2. run' = [run EXCEPT ![r] = s]
    BY <1>4 DEF Goto, Become
  <2> HIDE DEF s
  <2>3. DrawsOwn'
    BY <1>4, Excused DEF RewardInv, DrawsOwn
  <2>4. QED BY <1>3, <1>4, <2>1, <2>2, <2>3, Excused
<1> DEFINE n == IF Mine.chances > MaxDraws THEN MaxDraws ELSE Mine.chances
           new == [o EXCEPT !.pc = IF n = 0 THEN "travel" ELSE "draw", !.left = n]
<1>5. CASE /\ acct # None /\ UNCHANGED <<plant, excused>> /\ o.pc = "chances"
           /\ Become(r, new)
  <2> DEFINE s == new
  <2>1. run' = [run EXCEPT ![r] = s] /\ Mine.chances \in Nat
    BY <1>5, PlantTyped DEF Become
  <2>2. /\ s.pc = IF n = 0 THEN "travel" ELSE "draw"
        /\ s.left = n /\ s.kind = "chain" /\ s.day = o.day
    BY <1>1 DEF Working
  <2>3. acct \in Accts \ excused /\ Mine.chances # 0 => n = Mine.chances
    <3>1. acct \in Accts \ excused /\ Mine.chances # 0 => Mine.chances <= Cardinality(Tiers)
      BY <1>1, <1>5 DEF RewardInv, DrawsOwn, ToDraw, Mine
    <3>2. Cardinality(Tiers) <= MaxDraws /\ Cardinality(Tiers) \in Nat /\ MaxDraws \in Nat
      BY GrowthAssumption, FS_CardinalityType
    <3>3. QED BY <2>1, <3>1, <3>2
  <2> HIDE DEF n, new, s
  <2>4. run'[r] = s
    BY <2>1 DEF GrowthInv, GrowthTypeOK
  <2>5. DrawsOwn'
    <3> SUFFICES ASSUME NEW a \in Accts \ excused, plant[a].chances # 0
                 PROVE  a = acct /\ ToDraw(s, plant[a].chances)
      BY <1>1, <1>5, <2>4 DEF DrawsOwn
    <3>1. a = acct
      BY DEF RewardInv, DrawsOwn
    <3>2. n = plant[a].chances /\ plant[a].chances \in Nat
      BY <2>1, <2>3, <3>1, PlantTyped DEF Mine
    <3>3. QED BY <2>2, <3>1, <3>2 DEF ToDraw
  <2>6. s.pc \in {"draw", "travel"}
    BY <2>2
  <2>7. QED BY <1>3, <1>5, <2>1, <2>2, <2>5, <2>6
<1>6. CASE Draw(r) /\ Answered /\ Upstream(Drawn(Mine)) /\ UNCHANGED excused
  <2> DEFINE p == IF o.left > 1 THEN "draw" ELSE "travel"
             s1 == [o EXCEPT !.pc = "travel"]
             s2 == [o EXCEPT !.pc = p, !.left = o.left - 1]
  <2>1. acct # None /\ o.pc = "draw" /\ acct \in Accts /\ Mine.chances \in Nat
        /\ Mine \in PlantStates
    BY <1>6, ClaimingRun, PlantTyped DEF Answered
  <2>2. /\ s1.pc = "travel" /\ s1.kind = "chain" /\ s1.day = o.day
        /\ s2.pc = p /\ s2.kind = "chain" /\ s2.day = o.day /\ s2.left = o.left - 1
    BY <1>1 DEF Working
  <2>3. \/ Mine.chances = 0 /\ run' = [run EXCEPT ![r] = s1]
        \/ Mine.chances # 0 /\ run' = [run EXCEPT ![r] = s2]
    <3>1. \/ Mine.chances = 0 /\ Goto(r, "travel")
          \/ Mine.chances # 0 /\ Become(r, s2)
          \/ Goto(r, "travel") /\ UNCHANGED plant /\ Excuse
      BY <1>6 DEF Draw
    <3>2. Excuse => acct \in excused
      BY <1>6, <2>1 DEF Excuse
    <3>3. Mine.chances # 0 => Drawn(Mine).chances = Mine.chances - 1
      BY <2>1 DEF Drawn, PlantStates
    <3>4. UNCHANGED plant => Mine.chances = 0
      BY <1>6, <2>1, <3>3 DEF Upstream, Mine, GrowthInv, GrowthTypeOK
    <3>5. QED BY <3>1, <3>4 DEF Goto, Become
  <2>4. /\ \A a \in Accts \ {acct} : plant'[a] = plant[a]
        /\ plant'[acct].chances = IF Mine.chances = 0 THEN 0 ELSE Mine.chances - 1
    BY <1>6, <2>1 DEF Upstream, Drawn, PlantStates, GrowthInv, GrowthTypeOK
  <2> HIDE DEF s1, s2
  <2>5. DrawsOwn'
    <3> SUFFICES ASSUME NEW a \in Accts \ excused, plant'[a].chances # 0
                 PROVE  a = acct /\ ToDraw(run'[r], plant'[a].chances)
      BY <1>1, <1>6 DEF DrawsOwn
    <3>1. a = acct
      BY <2>4 DEF RewardInv, DrawsOwn
    <3>2. Mine.chances # 0 /\ plant'[a].chances = Mine.chances - 1 /\ run' = [run EXCEPT ![r] = s2]
      BY <2>3, <2>4, <3>1
    <3>3. Mine.chances <= o.left
      BY <1>1, <2>1, <3>1, <3>2 DEF RewardInv, DrawsOwn, ToDraw, Mine
    <3>4. o.left > 1 /\ plant'[a].chances <= o.left - 1
      BY <1>1, <2>1, <3>2, <3>3
    <3>5. run'[r] = s2
      BY <3>2 DEF GrowthInv, GrowthTypeOK
    <3>6. QED BY <2>2, <3>1, <3>4, <3>5 DEF ToDraw
  <2>6. p \in {"draw", "travel"}
    OBVIOUS
  <2>7. QED BY <1>3, <1>6, <2>1, <2>2, <2>3, <2>5, <2>6
<1>7. QED BY <1>4, <1>5, <1>6 DEF Chances, Draw, Answered, At

\* A tier redeemed by hand leaves a draw, and a hand that stepped in.
LEMMA TierRewards ==
  ASSUME GrowthInv, RewardInv, UNCHANGED <<acct, day>>, NEW r \in Runs, RedeemTier(r)
  PROVE  RewardInv' /\ (TiersInv => TiersInv')
<1>1. /\ run[r].pc = "tier" /\ Writes(run[r]) /\ run' = [run EXCEPT ![r] = Idle]
      /\ gmu = r /\ gday.day = run[r].day
  BY OneWriter DEF RedeemTier, At, Writes, Become
<1>2. Idle.pc = "idle" /\ ~Writes(Idle) /\ run'[r] = Idle
  BY <1>1 DEF Idle, Writes, Steps, GrowthInv, GrowthTypeOK
<1>3. CASE UNCHANGED <<plant, gday, flags, excused>>
  <2>1. SameRewards
    BY <1>3 DEF SameRewards
  <2>2. Later(run[r], Idle) /\ run[r].pc \notin Drawing
    BY <1>1, <1>2 DEF Later, Claiming, ChainOnly, Ahead, Drawing
  <2>3. QED BY <1>1, <2>1, <2>2, AsideKeeps
<1>4. CASE /\ acct # None /\ Upstream(Redeemed(Mine, run[r].tier)) /\ Mark(r, "reward") /\ Excuse
  <2>1. Kept(run[r])' /\ Listed(run[r])'
    BY <1>2 DEF Kept, Listed, Claiming, ChainOnly, Ahead
  <2>2. MarksRight'
    BY <1>4 DEF MarksRight, Mark, MarkedAt, Flags, GrowthInv, GrowthTypeOK
  <2>3. FlagTiers'
    BY <1>4, Excused DEF FlagTiers
  <2>4. \A a \in Accts \ {acct} : plant'[a] = plant[a]
    BY <1>4 DEF Upstream, GrowthInv, GrowthTypeOK
  <2>5. DrawsOwn'
    BY <1>4, <2>4, Excused DEF RewardInv, DrawsOwn
  <2>6. QED BY <1>1, <2>1, <2>2, <2>3, <2>5, WriterKeeps
<1>5. QED BY <1>3, <1>4 DEF RedeemTier, Answered

LEMMA StepRewards ==
  ASSUME GrowthInv, RewardInv, UNCHANGED <<acct, day>>, NEW r \in Runs, Step(r)
  PROVE  RewardInv' /\ (TiersInv => TiersInv')
BY AsidesKeep, ListingKeeps, MakeupRewards, RedeemRewards, DrawRewards, TierRewards
   DEF Step, Aside

LEMMA StartRewards ==
  ASSUME GrowthInv, RewardInv, UNCHANGED <<acct, day>>, NEW r \in Runs, Starts(r)
  PROVE  RewardInv' /\ (TiersInv => TiersInv')
<1>0. run[r] = Idle /\ run[r].pc = "idle" /\ \A s : Become(r, s) => run'[r] = s
  <2>1. run[r] = Idle
    BY DEF Starts, RunGrowthChain, RunActivityReports, RunGrowthAdopt, RunTravelTick,
           RunGrowthRedeem, BeginsLocked, Ready
  <2>2. \A s : Become(r, s) => run'[r] = s
    BY DEF Become, GrowthInv, GrowthTypeOK
  <2>3. QED BY <2>1, <2>2 DEF Idle
<1>1. CASE RunTravelTick(r)
  <2> DEFINE s == Job("travel", "travel", 0, FALSE)
  <2>1. s.pc = "travel" /\ s.kind = "travel"
    BY DEF Job
  <2>2. Later(run[r], s)
    BY <2>1 DEF Later, Claiming, ChainOnly, Ahead, Writes
  <2>3. SameRewards /\ gmu' = gmu
    BY <1>1 DEF RunTravelTick, Stays, SameRewards, ghistory
  <2>4. run' = [run EXCEPT ![r] = s]
    BY <1>1 DEF RunTravelTick, Become
  <2> HIDE DEF s
  <2>5. QED BY <1>0, <2>2, <2>3, <2>4, AsideKeeps DEF Drawing
<1>2. ASSUME BeginsLocked(r),
             NEW s, Become(r, s), s.day = day,
             s.pc = "tier" \/ (s.pc \in {"report", "adopt"} /\ s.info = Unread)
      PROVE  RewardInv' /\ (TiersInv => TiersInv')
  <2>1. /\ gmu = None /\ gday' = Rolled /\ UNCHANGED <<flags, plant, excused>>
        /\ run'[r] = s /\ \A q \in Runs \ {r} : run'[q] = run[q]
    BY <1>0, <1>2 DEF BeginsLocked, TryLock, ghistory, Become, GrowthInv, GrowthTypeOK
  <2>2. DrawsOwn'
    BY <2>1, NoDraws DEF DrawsOwn
  <2>3. MarksRight'
    BY <2>1 DEF RewardInv, MarksRight, Rolled, Restored, Flags
  <2>4. ASSUME NEW q \in Runs PROVE Kept(run[q])'
    <3>1. CASE q = r
      BY <1>2, <2>1, <3>1 DEF Kept, Claiming, ChainOnly
    <3>2. CASE q # r
      BY <2>1, <3>2 DEF RewardInv, Kept, Writes
    <3>3. QED BY <3>1, <3>2
  <2>5. ASSUME TiersInv PROVE TiersInv'
    <3>1. ASSUME NEW q \in Runs PROVE Listed(run[q])'
      <4>1. CASE q = r
        BY <1>2, <2>1, <4>1 DEF Listed, Ahead
      <4>2. CASE q # r
        BY <2>1, <2>5, <4>2 DEF TiersInv, Listed, Mine
      <4>3. QED BY <4>1, <4>2
    <3>2. FlagTiers'
      BY <2>1, <2>5 DEF TiersInv, FlagTiers, Mine
    <3>3. QED BY <3>1, <3>2 DEF TiersInv
  <2>6. QED BY <2>2, <2>3, <2>4, <2>5 DEF RewardInv
<1>3. ASSUME BeginsLocked(r), NEW p \in {"report", "adopt"}, NEW k, NEW n, NEW b,
             Become(r, Job(p, k, n, b))
      PROVE  RewardInv' /\ (TiersInv => TiersInv')
  <2> DEFINE s == Job(p, k, n, b)
  <2>1. s.pc = p /\ s.day = day /\ s.info = Unread
    BY DEF Job
  <2>2. Become(r, s)
    BY <1>3
  <2> HIDE DEF s
  <2>3. QED BY <1>2, <1>3, <2>1, <2>2
<1>4. ASSUME NEW t \in Tiers, RunGrowthRedeem(r, t)
      PROVE  RewardInv' /\ (TiersInv => TiersInv')
  <2> DEFINE s == [pc |-> "tier", tier |-> t, day |-> day]
  <2>1. s.pc = "tier" /\ s.day = day
    OBVIOUS
  <2>2. BeginsLocked(r) /\ Become(r, s)
    BY <1>4 DEF RunGrowthRedeem
  <2> HIDE DEF s
  <2>3. QED BY <1>2, <2>1, <2>2
<1>5. CASE RunGrowthChain(r)
  <2>1. PICK n \in Counts, p \in {"adopt", "report"} : Become(r, Job(p, "chain", n, FALSE))
    BY <1>5 DEF RunGrowthChain
  <2>2. QED BY <1>3, <1>5, <2>1 DEF RunGrowthChain
<1>6. CASE RunActivityReports(r) \/ RunGrowthAdopt(r)
  BY <1>3, <1>6 DEF RunActivityReports, RunGrowthAdopt
<1>7. QED BY <1>1, <1>4, <1>5, <1>6 DEF Starts
-----------------------------------------------------------------------------
(* What touches the rewards from outside. *)
LEMMA BesideRewards ==
  ASSUME GrowthInv, RewardInv, UNCHANGED <<acct, day, gmu, gday, flags, run>>,
         excused \subseteq excused',
         \A a \in Accts \ {acct} : plant'[a] = plant[a],
         Excuse \/ \A a \in Accts : /\ plant'[a].tiers = plant[a].tiers
                                    /\ plant'[a].chances = plant[a].chances
  PROVE  RewardInv' /\ (TiersInv => TiersInv')
<1>1. DrawsOwn'
  BY Excused DEF RewardInv, DrawsOwn
<1>2. MarksRight' /\ \A r \in Runs : Kept(run[r])'
  BY DEF RewardInv, MarksRight, Kept, Writes
<1>3. TiersInv => TiersInv'
  <2>1. CASE Excuse
    BY <2>1, Excused DEF TiersInv, FlagTiers, Listed
  <2>2. CASE \A a \in Accts : plant'[a].tiers = plant[a].tiers
    BY <2>2 DEF TiersInv, FlagTiers, Listed, Mine
  <2>3. QED BY <2>1, <2>2
<1>4. QED BY <1>1, <1>2, <1>3 DEF RewardInv

LEMMA HandRewards ==
  ASSUME GrowthInv, RewardInv, UNCHANGED <<acct, day>>, GrowthLottery \/ GrowthMakeup \/ GrowthBonus
  PROVE  RewardInv' /\ (TiersInv => TiersInv')
<1>1. /\ Excuse /\ UNCHANGED <<gmu, gday, flags, run>> /\ \E p : Upstream(p)
  BY DEF GrowthLottery, GrowthMakeup, GrowthBonus, ByHand, Stays
<1>2. \A a \in Accts \ {acct} : plant'[a] = plant[a]
  BY <1>1 DEF Upstream, GrowthInv, GrowthTypeOK
<1>3. QED BY <1>1, <1>2, Excused, BesideRewards

LEMMA ArrivalRewards ==
  ASSUME GrowthInv, RewardInv, UNCHANGED <<acct, day>>, NEW a \in Accts, Arrives(a)
  PROVE  RewardInv' /\ (TiersInv => TiersInv')
<1>1. \A p \in PlantStates : /\ [p EXCEPT !.trip = "arrived"].tiers = p.tiers
                             /\ [p EXCEPT !.trip = "arrived"].chances = p.chances
  BY DEF PlantStates
<1>2. plant' = [plant EXCEPT ![a] = [plant[a] EXCEPT !.trip = "arrived"]]
  BY DEF Arrives
<1>3. \A b \in Accts : plant'[b].tiers = plant[b].tiers /\ plant'[b].chances = plant[b].chances
  BY <1>1, <1>2 DEF GrowthInv, GrowthTypeOK
<1>4. UNCHANGED <<gmu, gday, flags, run, excused>>
  BY DEF Arrives, ghistory
<1>5. DrawsOwn' /\ MarksRight' /\ \A r \in Runs : Kept(run[r])'
  BY <1>3, <1>4 DEF RewardInv, DrawsOwn, MarksRight, Kept, Writes
<1>6. TiersInv => TiersInv'
  BY <1>3, <1>4 DEF TiersInv, FlagTiers, Listed, Mine
<1>7. QED BY <1>5, <1>6 DEF RewardInv

LEMMA NothingRewards ==
  ASSUME GrowthInv, RewardInv, UNCHANGED <<acct, day, growth>>
  PROVE  RewardInv' /\ (TiersInv => TiersInv')
<1>1. UNCHANGED <<gmu, gday, flags, run, plant, excused>>
  BY DEF growth, ghistory
<1>2. QED BY <1>1, BesideRewards

\* On a new day no flag is of the day, and draws that are left are excused.
LEMMA DawnRewards ==
  ASSUME GrowthInv, RewardInv, acct' = acct, day' = day + 1, GrowthDawn
  PROVE  RewardInv' /\ TiersInv'
<1>1. /\ flags' = flags /\ gday' = gday /\ run' = run /\ gmu' = gmu
      /\ excused' = {a \in Accts : plant[a].chances > 0}
      /\ \A a \in Accts : plant'[a].chances = plant[a].chances /\ plant[a].chances \in Nat
  <2>1. \A p \in PlantStates : NextMorning(p).chances = p.chances /\ p.chances \in Nat
    BY DEF PlantStates, NextMorning
  <2>2. QED BY <2>1 DEF GrowthDawn, Leftover, GrowthInv, GrowthTypeOK
<1>2. flags'["reward"] # day'
  BY <1>1 DEF GrowthInv, DatesPast, Flags, HostTyped, GrowthTypeOK
<1>3. DrawsOwn' /\ MarksRight' /\ FlagTiers'
  BY <1>1, <1>2 DEF DrawsOwn, MarksRight, FlagTiers
<1>4. ASSUME NEW r \in Runs PROVE Kept(run[r])'
  BY <1>1, <1>2 DEF RewardInv, Kept, Writes
<1>5. ASSUME NEW r \in Runs PROVE Listed(run[r])'
  <2>1. run[r].pc # "idle" => run[r].day # day'
    <3>1. run[r].pc # "idle" => run[r] \in Working \/ run[r] \in Redeeming
      BY RunCases DEF GrowthInv, GrowthTypeOK
    <3>2. run[r].pc # "idle" => run[r].day \in Nat /\ run[r].day <= day
      BY <3>1 DEF Working, Redeeming, GrowthInv, DatesPast
    <3>3. QED BY <3>2 DEF GrowthInv, HostTyped
  <2>2. QED BY <1>1, <2>1 DEF Listed, Ahead
<1>6. QED BY <1>3, <1>4, <1>5 DEF RewardInv, TiersInv

\* A run that is cut off, or finds another account, excuses the one it had.
LEMMA InterruptedRewards ==
  ASSUME GrowthInv, RewardInv, Interrupted
  PROVE  excused \subseteq excused' /\ \A a \in Accts \ excused' : plant[a].chances = 0
<1>1. CASE gmu = None
  BY <1>1, NoDraws DEF Interrupted
<1>2. CASE gmu # None
  BY <1>2, Excused DEF Interrupted, RewardInv, DrawsOwn
<1>3. QED BY <1>1, <1>2

LEMMA CrashRewards ==
  ASSUME GrowthInv, RewardInv, UNCHANGED <<acct, day>>, GrowthCrash
  PROVE  RewardInv' /\ (TiersInv => TiersInv')
<1>1. /\ gday'.day = 0 /\ UNCHANGED <<flags, plant>> /\ Interrupted
      /\ \A r \in Runs : run'[r] = Idle
  BY DEF GrowthCrash
<1>2. Idle.pc = "idle" /\ ~Writes(Idle) /\ day # 0
  BY DEF Idle, Writes, Steps, GrowthInv, HostTyped
<1>3. DrawsOwn' /\ MarksRight'
  BY <1>1, <1>2, InterruptedRewards DEF DrawsOwn, MarksRight
<1>4. ASSUME NEW r \in Runs PROVE Kept(run[r])' /\ Listed(run[r])'
  BY <1>1, <1>2 DEF Kept, Listed, Claiming, ChainOnly, Ahead
<1>5. TiersInv => FlagTiers'
  BY <1>1, InterruptedRewards DEF TiersInv, FlagTiers, Mine
<1>6. QED BY <1>3, <1>4, <1>5 DEF RewardInv, TiersInv

LEMMA AccountRewards ==
  ASSUME GrowthInv, RewardInv, Interrupted, UNCHANGED <<day, gmu, gday, flags, run, plant>>
  PROVE  RewardInv'
<1>1. DrawsOwn'
  BY InterruptedRewards DEF DrawsOwn
<1>2. QED BY <1>1 DEF RewardInv, MarksRight, Kept, Writes

LEMMA ResetRewards ==
  ASSUME GrowthInv, RewardInv, UNCHANGED <<acct, day>>, ResetGrowth
  PROVE  RewardInv' /\ TiersInv'
<1>1. /\ gmu = None /\ flags'["reward"] = 0 /\ UNCHANGED <<gmu, run, plant, excused>>
  BY DEF ResetGrowth, ghistory, Flags
<1>2. day # 0
  BY DEF GrowthInv, HostTyped
<1>3. DrawsOwn' /\ MarksRight' /\ FlagTiers'
  BY <1>1, <1>2, NoDraws DEF DrawsOwn, MarksRight, FlagTiers
<1>4. ASSUME NEW r \in Runs PROVE Kept(run[r])' /\ Listed(run[r])'
  <2>1. ~Writes(run[r])
    BY <1>1, LockFree
  <2>2. run[r].pc \in {"idle", "travel", "depart", "end"}
    <3>1. run[r].pc \in Steps \/ run[r].pc = "idle"
      BY <2>1, RunCases DEF GrowthInv, GrowthTypeOK, Writes
    <3>2. QED BY <2>1, <3>1 DEF GrowthInv, RunsWell, Patrols, Writes
  <2>3. QED BY <1>1, <2>1, <2>2 DEF Kept, Listed, Claiming, ChainOnly, Ahead, Writes
<1>5. QED BY <1>3, <1>4 DEF RewardInv, TiersInv

LEMMA FirstRewards ==
  ASSUME GrowthInit, day = 1, plant \in [Accts -> PlantStates]
  PROVE  RewardInv /\ TiersInv
<1>1. /\ excused = {a \in Accts : plant[a].chances > 0} /\ flags["reward"] = 0
      /\ \A r \in Runs : run[r] = Idle
  BY DEF GrowthInit, Leftover, Flags
<1>2. Idle.pc = "idle" /\ ~Writes(Idle)
  BY DEF Idle, Writes, Steps
<1>3. \A a \in Accts : plant[a].chances \in Nat
  BY DEF PlantStates
<1>4. DrawsOwn /\ MarksRight /\ FlagTiers
  BY <1>1, <1>3 DEF DrawsOwn, MarksRight, FlagTiers
<1>5. ASSUME NEW r \in Runs PROVE Kept(run[r]) /\ Listed(run[r])
  BY <1>1, <1>2 DEF Kept, Listed, Claiming, ChainOnly, Ahead
<1>6. QED BY <1>4, <1>5 DEF RewardInv, TiersInv
=============================================================================
