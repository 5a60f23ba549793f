------------------------- MODULE AccountState_proofs -------------------------
(* What the operators of AccountState return. *)
EXTENDS AccountState, TLAPS

LEMMA FreshType == Fresh \in AccountStates
  BY DEF Fresh, AccountStates, AutoReasons, StreakLimit

LEMMA ZeroStreak == 0 \in 0..StreakLimit
  BY DEF StreakLimit

LEMMA StreakType == \A n \in 0..StreakLimit : NextStreak(n) \in 0..StreakLimit
  BY DEF NextStreak, StreakLimit

LEMMA EventTypes ==
  ASSUME NEW s \in AccountStates
  PROVE  /\ AfterSuccess(s) \in AccountStates
         /\ \A kind \in PunishingKinds : AfterError(s, kind) \in AccountStates
         /\ \A off \in BOOLEAN : AfterManual(s, off) \in AccountStates
         /\ Recovered(s) \in AccountStates
         /\ \A r \in AutoReasons : Condemned(s, r) \in AccountStates
<1>1. AfterQuota(s) \in AccountStates
  <2>1. NextStreak(s.streak) \in 0..StreakLimit
    BY StreakType DEF AccountStates
  <2>2. QED BY <2>1 DEF AfterQuota, AccountStates, AutoReasons
<1>2. AfterCredential(s) \in AccountStates
  BY DEF AfterCredential, AccountStates, AutoReasons
<1>3. AfterSuccess(s) \in AccountStates
  BY ZeroStreak DEF AfterSuccess, AccountStates
<1>4. \A off \in BOOLEAN : AfterManual(s, off) \in AccountStates
  BY ZeroStreak DEF AfterManual, AccountStates
<1>5. Recovered(s) \in AccountStates
  BY ZeroStreak DEF Recovered, AccountStates
<1>6. \A r \in AutoReasons : Condemned(s, r) \in AccountStates
  BY DEF Condemned, AccountStates
<1>7. \A kind \in PunishingKinds : AfterError(s, kind) \in AccountStates
  BY <1>1, <1>2 DEF AfterError, PunishingKinds
<1>8. QED BY <1>3, <1>4, <1>5, <1>6, <1>7
==============================================================================
