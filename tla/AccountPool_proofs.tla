------------------------- MODULE AccountPool_proofs -------------------------
(* Theorems about AccountPool for every value of its constants. *)
EXTENDS AccountPool, AccountState_proofs, SequenceTheorems

State == AccountStates \cup {Absent}

LEMMA ExceptType ==
  ASSUME NEW S, NEW V, NEW f \in [S -> V], NEW x, NEW v, x \in S => v \in V
  PROVE  [f EXCEPT ![x] = v] \in [S -> V]
  OBVIOUS

LEMMA MembersType ==
  ASSUME NEW rows \in [Uids -> State], NEW on
  PROVE  Members(rows, on) \in [Uids -> State]
  BY FreshType DEF Members, State

(***************************************************************************)
(* The pieces a handler leaves in todo.                                    *)
(***************************************************************************)
LEMMA RowType ==
  ASSUME NEW u \in Uids, NEW s \in AccountStates
  PROVE  Row(u, s) \in Rows
  BY DEF Row, Rows

LEMMA PieceTypes ==
  /\ <<>> \in Seq(Steps)
  /\ \A w \in Rows \cup Cools : Persist(w) \in Seq(Steps)
  /\ \A w \in Rows \cup Goners : Sync(w) \in Seq(Steps)
  /\ \A w \in Rows \cup Cools \cup Goners : Write(w) \in Seq(Steps)
  /\ \A d \in {"forget", "answer", "record"}, u \in Uids :
       OnUid(d, u) \in Seq(Steps)
  /\ Reload \in Seq(Steps)
<1>1. \A s \in Steps : <<s>> \in Seq(Steps)
  OBVIOUS
<1>2. \A w \in Rows \cup Cools : [do |-> "persist", w |-> w, seq |-> 0] \in Steps
  BY DEF Steps
<1>3. \A w \in Rows \cup Goners : [do |-> "sync", w |-> w, seq |-> 0] \in Steps
  BY DEF Steps
<1>4. \A w \in Rows \cup Cools \cup Goners :
        [do |-> "write", w |-> w, seq |-> 0] \in Steps
  BY DEF Steps
<1>5. \A d \in {"forget", "answer", "record"}, u \in Uids :
        [do |-> d, uid |-> u] \in Steps
  BY DEF Steps
<1>6. /\ [do |-> "rows"] \in Steps /\ [do |-> "scan"] \in Steps
      /\ [do |-> "swap"] \in Steps
  BY DEF Steps
<1>7. Reload \in Seq(Steps)
  BY <1>6 DEF Reload
<1>8. QED BY <1>1, <1>2, <1>3, <1>4, <1>5, <1>7 DEF Persist, Sync, Write, OnUid

LEMMA JoinType ==
  ASSUME NEW p \in Seq(Steps), NEW q \in Seq(Steps)
  PROVE  p \o q \in Seq(Steps)
  BY ConcatProperties

LEMMA DeleteType == \A u \in Uids : Delete(u) \in Seq(Steps)
<1> TAKE u \in Uids
<1>1. Gone("gone", u) \in Goners /\ Gone("goneCools", u) \in Goners
  BY DEF Gone, Goners
<1>2. /\ OnUid("forget", u) \in Seq(Steps)
      /\ Sync(Gone("gone", u)) \in Seq(Steps)
      /\ Write(Gone("goneCools", u)) \in Seq(Steps)
  BY <1>1, PieceTypes
<1>3. QED BY <1>2, JoinType DEF Delete

\* The step a goroutine is at, and what follows it.
LEMMA HeadType ==
  ASSUME TypeOK, NEW t \in Threads, NEW d, At(t, d)
  PROVE  /\ Head(todo[t]) \in Steps
         /\ Tail(todo[t]) \in Seq(Steps)
         /\ Head(todo[t]).do = d
  BY HeadTailProperties DEF TypeOK, At

LEMMA StepFields ==
  ASSUME NEW s \in Steps
  PROVE  /\ s.do \in {"persist", "send"} => s.w \in Rows \cup Cools /\ s.seq \in Nat
         /\ s.do \in {"sync", "mark"} => s.w \in Rows \cup Goners /\ s.seq \in Nat
         /\ s.do = "write" => s.w \in Rows \cup Cools \cup Goners /\ s.seq \in Nat
         /\ s.do \in {"forget", "answer", "record"} => s.uid \in Uids
  BY DEF Steps

-----------------------------------------------------------------------------
(***************************************************************************)
(* Type correctness.                                                       *)
(***************************************************************************)
LEMMA InitType == Init => TypeOK
<1> SUFFICES ASSUME Init PROVE TypeOK
  OBVIOUS
<1>1. dbRow \in [Uids -> State] /\ acc \in [Uids -> State]
  BY MembersType DEF Init, State
<1>2. queue \in Seq(Ops) /\ todo \in [Threads -> Seq(Steps)]
  BY DEF Init
<1>3. snap \in [Threads -> [rows: [Uids -> State], files: SUBSET Uids]]
  BY DEF Init, NoSnap, State
<1>4. fails \in [Uids -> 0..StreakLimit]
  BY ZeroStreak DEF Init
<1>5. QED
  BY <1>1, <1>2, <1>3, <1>4, FilesAssumption, BudgetAssumption
     DEF Init, TypeOK, State, Idle

LEMMA StartType ==
  ASSUME TypeOK, NEW t \in Threads, NEW e \in Events, NEW rest \in Seq(Steps),
         Start(t, e, rest)
  PROVE  todo' \in [Threads -> Seq(Steps)] /\ budget' \in [Events -> Nat]
  BY DEF TypeOK, Start, Spend

LEMMA NoteSuccessType ==
  ASSUME TypeOK, NEW t \in Threads, NEW u \in Uids, NEW m \in Models,
         NoteSuccess(t, u, m)
  PROVE  TypeOK'
<1>1. acc' \in [Uids -> State]
  BY EventTypes DEF TypeOK, NoteSuccess, State
<1>2. acc[u] # Absent => acc'[u] \in AccountStates
  BY EventTypes DEF TypeOK, NoteSuccess
<1>3. Cool("uncool", u, m) \in Cools
  BY DEF Cool, Cools
<1> DEFINE p == IF <<u, m>> \in cool THEN Persist(Cool("uncool", u, m)) ELSE <<>>
           q == IF acc[u] # Absent /\ acc[u].auto # ""
                THEN Persist(Row(u, acc'[u])) ELSE <<>>
<1>4. p \in Seq(Steps) /\ q \in Seq(Steps)
  BY <1>2, <1>3, PieceTypes, RowType
<1>5. p \o q \in Seq(Steps)
  BY <1>4, JoinType
<1>6. Start(t, "success", p \o q) /\ "success" \in Events
  BY DEF NoteSuccess, Events
<1>7. todo' \in [Threads -> Seq(Steps)] /\ budget' \in [Events -> Nat]
  BY <1>5, <1>6, StartType
<1>8. fails' \in [Uids -> 0..StreakLimit]
  BY ZeroStreak DEF TypeOK, NoteSuccess
<1>9. QED BY <1>1, <1>7, <1>8 DEF TypeOK, NoteSuccess, State, db, files

LEMMA NoteErrorType ==
  ASSUME TypeOK, NEW t \in Threads, NEW u \in Uids, NEW m \in Models,
         NEW kind \in PunishingKinds, NoteError(t, u, m, kind)
  PROVE  TypeOK'
<1>1. acc'[u] \in AccountStates /\ acc' \in [Uids -> State]
  BY EventTypes DEF TypeOK, NoteError, State
<1>2. Cool("cool", u, m) \in Cools
  BY DEF Cool, Cools
<1> DEFINE p == IF kind = "rate" THEN Persist(Cool("cool", u, m)) ELSE <<>>
           q == Persist(Row(u, acc'[u]))
<1>3. p \in Seq(Steps) /\ q \in Seq(Steps)
  BY <1>1, <1>2, PieceTypes, RowType
<1>4. p \o q \in Seq(Steps)
  BY <1>3, JoinType
<1>5. Start(t, "error", p \o q) /\ "error" \in Events
  BY DEF NoteError, Events
<1>6. todo' \in [Threads -> Seq(Steps)] /\ budget' \in [Events -> Nat]
  BY <1>4, <1>5, StartType
<1>7. fails' \in [Uids -> 0..StreakLimit]
  BY StreakType DEF TypeOK, NoteError
<1>8. cool' \subseteq Uids \X Models
  BY DEF TypeOK, NoteError
<1>9. QED BY <1>1, <1>6, <1>7, <1>8 DEF TypeOK, NoteError, State, db, files

LEMMA SetManualDisabledType ==
  ASSUME TypeOK, NEW t \in Threads, NEW u \in Uids, NEW off \in BOOLEAN,
         SetManualDisabled(t, u, off)
  PROVE  TypeOK'
<1>1. acc'[u] \in AccountStates /\ acc' \in [Uids -> State]
  BY EventTypes DEF TypeOK, SetManualDisabled, State
<1>2. Sync(Row(u, acc'[u])) \in Seq(Steps)
  BY <1>1, PieceTypes, RowType
<1>3. Start(t, "manual", Sync(Row(u, acc'[u]))) /\ "manual" \in Events
  BY DEF SetManualDisabled, Events
<1>4. todo' \in [Threads -> Seq(Steps)] /\ budget' \in [Events -> Nat]
  BY <1>2, <1>3, StartType
<1>5. fails' \in [Uids -> 0..StreakLimit] /\ userOff' \subseteq Uids
  BY ZeroStreak DEF TypeOK, SetManualDisabled
<1>6. QED BY <1>1, <1>4, <1>5 DEF TypeOK, SetManualDisabled, State, db, files

LEMMA HandlerType ==
  ASSUME TypeOK, Handlers
  PROVE  TypeOK'
<1>1. ASSUME NEW t \in Threads, ReloadMembers(t)
      PROVE  TypeOK'
  <2>1. todo' \in [Threads -> Seq(Steps)] /\ budget' \in [Events -> Nat]
    BY <1>1, StartType, PieceTypes DEF ReloadMembers, Events
  <2>2. QED BY <1>1, <2>1 DEF TypeOK, ReloadMembers, mem, db, files, hist
<1>2. ASSUME NEW t \in Threads, Logout(t)
      PROVE  TypeOK'
  <2>1. active \in Uids
    BY <1>2 DEF TypeOK, Logout
  <2>2. todo' \in [Threads -> Seq(Steps)] /\ budget' \in [Events -> Nat]
    BY <1>2, <2>1, StartType, DeleteType DEF Logout, Events
  <2>3. QED BY <1>2, <2>1, <2>2 DEF TypeOK, Logout, mem, db
<1>3. ASSUME NEW t \in Threads, NEW u \in Uids, Probe(t, u)
      PROVE  TypeOK'
  <2>1. OnUid(IF acc[u].manual THEN "record" ELSE "answer", u) \in Seq(Steps)
    BY PieceTypes
  <2>2. todo' \in [Threads -> Seq(Steps)] /\ budget' \in [Events -> Nat]
    BY <1>3, <2>1, StartType DEF Probe, Events
  <2>3. QED BY <1>3, <2>2 DEF TypeOK, Probe, mem, db, files, hist
<1>4. ASSUME NEW t \in Threads, NEW u \in Uids, Activate(t, u)
      PROVE  TypeOK'
  <2>1. todo' \in [Threads -> Seq(Steps)] /\ budget' \in [Events -> Nat]
    BY <1>4, StartType, PieceTypes DEF Activate, Events
  <2>2. QED BY <1>4, <2>1 DEF TypeOK, Activate, OnDisk, mem, db
<1>5. ASSUME NEW t \in Threads, NEW u \in Uids, RemoveProfile(t, u)
      PROVE  TypeOK'
  <2>1. todo' \in [Threads -> Seq(Steps)] /\ budget' \in [Events -> Nat]
    BY <1>5, StartType, DeleteType DEF RemoveProfile, Events
  <2>2. QED BY <1>5, <2>1 DEF TypeOK, RemoveProfile, mem, db, hist
<1>6. ASSUME NEW t \in Threads, NEW u \in Uids, NEW m \in Models,
             ClearModelCool(t, u, m)
      PROVE  TypeOK'
  <2>1. Cool("uncool", u, m) \in Cools
    BY DEF Cool, Cools
  <2>2. todo' \in [Threads -> Seq(Steps)] /\ budget' \in [Events -> Nat]
    BY <1>6, <2>1, StartType, PieceTypes DEF ClearModelCool, Events
  <2>3. QED BY <1>6, <2>2 DEF TypeOK, ClearModelCool, db, files, hist
<1>7. QED
  BY <1>1, <1>2, <1>3, <1>4, <1>5, <1>6,
     NoteSuccessType, NoteErrorType, SetManualDisabledType DEF Handlers

\* Dropping the step just done, or putting others in its place.
LEMMA DoneType ==
  ASSUME TypeOK, NEW t \in Threads, NEW d, At(t, d), NEW more \in Seq(Steps),
         \/ Done(t)
         \/ Then(t, more)
  PROVE  todo' \in [Threads -> Seq(Steps)]
<1>1. Tail(todo[t]) \in Seq(Steps)
  BY HeadType
<1>2. more \o Tail(todo[t]) \in Seq(Steps)
  BY <1>1, JoinType
<1>3. QED BY <1>1, <1>2 DEF TypeOK, Done, Then

LEMMA BecomeType ==
  ASSUME TypeOK, NEW t \in Threads, NEW d, At(t, d), NEW e, NEW n,
         [do |-> e, w |-> Head(todo[t]).w, seq |-> n] \in Steps,
         Become(t, e, n)
  PROVE  todo' \in [Threads -> Seq(Steps)]
<1> DEFINE s == [do |-> e, w |-> Head(todo[t]).w, seq |-> n]
<1>1. Tail(todo[t]) \in Seq(Steps)
  BY HeadType
<1>2. <<s>> \in Seq(Steps)
  OBVIOUS
<1>3. <<s>> \o Tail(todo[t]) \in Seq(Steps)
  BY <1>1, <1>2, JoinType
<1>4. QED BY <1>3 DEF TypeOK, Become

LEMMA StoreType ==
  ASSUME TypeOK, NEW w \in Rows \cup Cools \cup Goners, Store(w)
  PROVE  dbRow' \in [Uids -> State] /\ dbCool' \subseteq Uids \X Models
<1>1. w.kind = "row" => w.uid \in Uids /\ w.row \in AccountStates
  BY DEF Rows, Cools, Goners
<1>2. w.kind = "gone" => w.uid \in Uids
  BY DEF Rows, Cools, Goners
<1>3. w.kind \in {"cool", "uncool"} => w.uid \in Uids /\ w.model \in Models
  BY DEF Rows, Cools, Goners
<1>4. dbRow' \in [Uids -> State]
  BY <1>1, <1>2 DEF TypeOK, Store, State
<1>5. dbCool' \subseteq Uids \X Models
  BY <1>3 DEF TypeOK, Store
<1>6. QED BY <1>4, <1>5

LEMMA SpendType ==
  ASSUME TypeOK, NEW e \in Events, Spend(e)
  PROVE  budget' \in [Events -> Nat]
  BY DEF TypeOK, Spend

LEMMA NumberType ==
  ASSUME TypeOK, NEW t \in Threads, Number(t)
  PROVE  TypeOK'
<1>1. seq + 1 \in Nat /\ seq' \in Nat
  BY DEF TypeOK, Number
<1>2. todo' \in [Threads -> Seq(Steps)]
  <2>1. CASE At(t, "persist") /\ Become(t, "send", seq + 1)
    <3>1. Head(todo[t]).w \in Rows \cup Cools
      BY <2>1, HeadType, StepFields
    <3>2. [do |-> "send", w |-> Head(todo[t]).w, seq |-> seq + 1] \in Steps
      BY <1>1, <3>1 DEF Steps
    <3>3. QED BY <2>1, <3>2, BecomeType
  <2>2. CASE At(t, "sync") /\ Become(t, "mark", seq + 1)
    <3>1. Head(todo[t]).w \in Rows \cup Goners
      BY <2>2, HeadType, StepFields
    <3>2. [do |-> "mark", w |-> Head(todo[t]).w, seq |-> seq + 1] \in Steps
      BY <1>1, <3>1 DEF Steps
    <3>3. QED BY <2>2, <3>2, BecomeType
  <2>3. QED BY <2>1, <2>2 DEF Number
<1>3. QED BY <1>1, <1>2 DEF TypeOK, Number, mem, db, files, hist

LEMMA SendType ==
  ASSUME TypeOK, NEW t \in Threads, Send(t)
  PROVE  TypeOK'
<1>1. At(t, "send") /\ Done(t)
  BY DEF Send
<1>2. todo' \in [Threads -> Seq(Steps)]
  BY <1>1, DoneType, PieceTypes
<1>3. Head(todo[t]).w \in Rows \cup Cools /\ Head(todo[t]).seq \in Nat
  BY <1>1, HeadType, StepFields
<1>4. [w |-> Head(todo[t]).w, seq |-> Head(todo[t]).seq] \in Ops
  BY <1>3 DEF Ops
<1>5. queue' \in Seq(Ops) /\ lost' \subseteq Harms
  <2>1. Append(queue, [w |-> Head(todo[t]).w, seq |-> Head(todo[t]).seq])
          \in Seq(Ops)
    BY <1>4, AppendProperties DEF TypeOK
  <2>2. lost' \subseteq Harms
    BY DEF TypeOK, Send, Harms
  <2>3. QED BY <2>1, <2>2 DEF TypeOK, Send
<1>6. QED BY <1>2, <1>5 DEF TypeOK, Send, mem, db, files

LEMMA MarkType ==
  ASSUME TypeOK, NEW t \in Threads, Mark(t)
  PROVE  TypeOK'
<1> DEFINE s == Head(todo[t])
<1>1. At(t, "mark") /\ Become(t, "write", s.seq)
  BY DEF Mark
<1>2. s.w \in Rows \cup Goners /\ s.seq \in Nat
  BY <1>1, HeadType, StepFields
<1>3. [do |-> "write", w |-> s.w, seq |-> s.seq] \in Steps
  BY <1>2 DEF Steps
<1>4. todo' \in [Threads -> Seq(Steps)]
  BY <1>1, <1>3, BecomeType
<1>5. applied' \in [Uids -> Nat] /\ late' \in [Uids -> Nat]
  <2>1. s.w.uid \in Uids
    BY <1>2 DEF Rows, Goners
  <2>2. \/ UNCHANGED <<applied, late>>
        \/ /\ applied' = [applied EXCEPT ![s.w.uid] = s.seq]
           /\ late' = [late EXCEPT ![s.w.uid] = 0]
    <3>1. s.seq > applied[s.w.uid] =>
            Raised(s.w.uid, s.seq) = [applied EXCEPT ![s.w.uid] = s.seq]
      BY DEF Raised
    <3>2. QED BY <3>1 DEF Mark
  <2>3. applied \in [Uids -> Nat] /\ late \in [Uids -> Nat] /\ 0 \in Nat
    BY DEF TypeOK
  <2>4. /\ [applied EXCEPT ![s.w.uid] = s.seq] \in [Uids -> Nat]
        /\ [late EXCEPT ![s.w.uid] = 0] \in [Uids -> Nat]
    BY <1>2, <2>3, ExceptType
  <2>5. QED BY <2>2, <2>3, <2>4
<1>6. QED BY <1>4, <1>5 DEF TypeOK, Mark, mem, db, files

LEMMA WriteDbType ==
  ASSUME TypeOK, NEW t \in Threads, WriteDb(t)
  PROVE  TypeOK'
<1> DEFINE w == Head(todo[t]).w
<1>1. At(t, "write")
  BY DEF WriteDb
<1>2. w \in Rows \cup Cools \cup Goners
  BY <1>1, HeadType, StepFields
<1>3. CASE Store(w) /\ Done(t) /\ UNCHANGED <<budget, lost>>
  <2>1. todo' \in [Threads -> Seq(Steps)]
    BY <1>1, <1>3, DoneType, PieceTypes
  <2>2. dbRow' \in [Uids -> State] /\ dbCool' \subseteq Uids \X Models
    BY <1>2, <1>3, StoreType
  <2>3. QED BY <1>3, <2>1, <2>2 DEF TypeOK, WriteDb, State, mem, files
<1>4. CASE StoreFails /\ todo' = [todo EXCEPT ![t] = <<>>]
  <2>1. todo' \in [Threads -> Seq(Steps)]
    BY <1>4, PieceTypes DEF TypeOK
  <2>2. budget' \in [Events -> Nat]
    BY <1>4, SpendType DEF StoreFails, Events
  <2>3. lost' \subseteq Harms
    BY <1>4 DEF StoreFails, TypeOK, Harms
  <2>4. QED
    BY <1>4, <2>1, <2>2, <2>3 DEF TypeOK, WriteDb, StoreFails, mem, db, files
<1>5. QED BY <1>3, <1>4 DEF WriteDb

LEMMA AnswerType ==
  ASSUME TypeOK, NEW t \in Threads, Answer(t)
  PROVE  TypeOK'
<1> DEFINE u == Head(todo[t]).uid
<1>1. At(t, "answer")
  BY DEF Answer
<1>2. u \in Uids
  BY <1>1, HeadType, StepFields
<1>3. OnUid("record", u) \in Seq(Steps)
  BY <1>2, PieceTypes
<1>4. CASE Then(t, OnUid("record", u)) /\ UNCHANGED <<acc, fails>>
  <2>1. todo' \in [Threads -> Seq(Steps)]
    BY <1>1, <1>3, <1>4, DoneType
  <2>2. QED BY <1>4, <2>1 DEF TypeOK, Answer, db, files
<1>5. ASSUME NEW reason \in AutoReasons,
             acc' = [acc EXCEPT ![u] = IF @ = Absent THEN @
                                       ELSE Condemned(@, reason)],
             Then(t, (IF acc[u] = Absent THEN <<>>
                      ELSE Persist(Row(u, acc'[u]))) \o OnUid("record", u)),
             UNCHANGED fails
      PROVE  TypeOK'
  <2>1. acc' \in [Uids -> State] /\ (acc[u] # Absent => acc'[u] \in AccountStates)
    BY <1>2, <1>5, EventTypes DEF TypeOK, State
  <2>2. (IF acc[u] = Absent THEN <<>> ELSE Persist(Row(u, acc'[u]))) \in Seq(Steps)
    BY <1>2, <2>1, PieceTypes, RowType
  <2>3. todo' \in [Threads -> Seq(Steps)]
    BY <1>1, <1>3, <1>5, <2>2, JoinType, DoneType
  <2>4. QED BY <1>5, <2>1, <2>3 DEF TypeOK, Answer, State, db, files
<1>6. CASE /\ acc' = [acc EXCEPT ![u] = IF @ = Absent THEN @ ELSE Recovered(@)]
           /\ Then(t, OnUid("record", u))
           /\ fails' = [fails EXCEPT ![u] = 0]
  <2>1. acc' \in [Uids -> State]
    BY <1>2, <1>6, EventTypes DEF TypeOK, State
  <2>2. fails' \in [Uids -> 0..StreakLimit]
    BY <1>6, ZeroStreak DEF TypeOK
  <2>3. todo' \in [Threads -> Seq(Steps)]
    BY <1>1, <1>3, <1>6, DoneType
  <2>4. QED BY <2>1, <2>2, <2>3 DEF TypeOK, Answer, State, db, files
<1>7. QED BY <1>4, <1>5, <1>6 DEF Answer

LEMMA StepType ==
  ASSUME TypeOK, NEW t \in Threads, Step(t)
  PROVE  TypeOK'
<1>1. CASE Forget(t)
  <2>1. Head(todo[t]).uid \in Uids
    BY <1>1, HeadType, StepFields DEF Forget
  <2>2. todo' \in [Threads -> Seq(Steps)]
    BY <1>1, DoneType, PieceTypes DEF Forget
  <2>3. fails' \in [Uids -> 0..StreakLimit]
    BY <1>1, ZeroStreak DEF TypeOK, Forget
  <2>4. QED BY <1>1, <2>1, <2>2, <2>3 DEF TypeOK, Forget, db, files
<1>2. CASE Record(t)
  <2>1. Head(todo[t]).uid \in Uids
    BY <1>2, HeadType, StepFields DEF Record
  <2>2. todo' \in [Threads -> Seq(Steps)]
    BY <1>2, <2>1, DoneType, PieceTypes, RowType DEF Record, TypeOK
  <2>3. QED BY <1>2, <2>2 DEF TypeOK, Record, mem, db, files, hist
<1>3. CASE ReadRows(t)
  <2>1. todo' \in [Threads -> Seq(Steps)]
    BY <1>3, DoneType, PieceTypes DEF ReadRows
  <2>2. budget' \in [Events -> Nat]
    BY <1>3, SpendType DEF ReadRows, TypeOK, Events
  <2>3. snap' \in [Threads -> [rows: [Uids -> State], files: SUBSET Uids]]
    <3> DEFINE Snaps == [rows: [Uids -> State], files: SUBSET Uids]
    <3>1. snap \in [Threads -> Snaps] /\ dbRow \in [Uids -> State]
      BY DEF TypeOK, State
    <3>2. [snap[t] EXCEPT !.rows = dbRow] \in Snaps
      BY <3>1
    <3>3. \/ snap' = snap
          \/ snap' = [snap EXCEPT ![t] = [snap[t] EXCEPT !.rows = dbRow]]
      BY <1>3 DEF ReadRows
    <3>4. [snap EXCEPT ![t] = [snap[t] EXCEPT !.rows = dbRow]]
            \in [Threads -> Snaps]
      BY <3>1, <3>2, ExceptType
    <3>5. QED BY <3>1, <3>3, <3>4
  <2>4. lost' \subseteq Harms
    BY <1>3 DEF TypeOK, ReadRows, Harms
  <2>5. QED
    BY <1>3, <2>1, <2>2, <2>3, <2>4 DEF TypeOK, ReadRows, State, mem, db, files
<1>4. CASE Scan(t)
  <2>1. todo' \in [Threads -> Seq(Steps)]
    BY <1>4, DoneType, PieceTypes DEF Scan
  <2>2. QED BY <1>4, <2>1 DEF TypeOK, Scan, OnDisk, mem, db, files, hist
<1>5. CASE Swap(t)
  <2>1. todo' \in [Threads -> Seq(Steps)]
    BY <1>5, DoneType, PieceTypes DEF Swap
  <2>2. acc' \in [Uids -> State]
    BY <1>5, MembersType DEF TypeOK, Swap, State
  <2>3. QED BY <1>5, <2>1, <2>2 DEF TypeOK, Swap, NoSnap, State, db, files, hist
<1>6. QED
  BY <1>1, <1>2, <1>3, <1>4, <1>5,
     NumberType, SendType, MarkType, WriteDbType, AnswerType DEF Step

LEMMA PersisterType ==
  ASSUME TypeOK, Persister
  PROVE  TypeOK'
<1>1. CASE Take
  <2>1. Head(queue) \in Ops /\ Tail(queue) \in Seq(Ops)
    BY <1>1, HeadTailProperties DEF TypeOK, Take
  <2>2. [stage |-> "judge", op |-> Head(queue)]
          \in [stage: {"judge", "save"}, op: Ops]
    BY <2>1
  <2>3. queue' \in Seq(Ops)
        /\ worker' \in {Idle} \cup [stage: {"judge", "save"}, op: Ops]
    BY <1>1, <2>1, <2>2 DEF Take
  <2>4. QED BY <1>1, <2>3 DEF TypeOK, Take, mem, db, files, hist
<1>2. CASE Judge
  <2>1. worker.op \in Ops
    BY <1>2 DEF TypeOK, Judge, Idle
  <2>2. worker.op.seq \in Nat /\ worker.op.w \in Rows \cup Cools
    BY <2>1 DEF Ops
  <2>3. worker' \in {Idle} \cup [stage: {"judge", "save"}, op: Ops]
    <3>1. worker \in [stage: {"judge", "save"}, op: Ops]
      BY <1>2 DEF TypeOK, Judge, Idle
    <3>2. [worker EXCEPT !.stage = "save"] \in [stage: {"judge", "save"}, op: Ops]
      BY <3>1
    <3>3. QED BY <1>2, <3>2 DEF Judge
  <2>4. applied' \in [Uids -> Nat]
    BY <1>2, <2>2 DEF TypeOK, Judge, Raised
  <2>5. QED BY <1>2, <2>3, <2>4 DEF TypeOK, Judge, mem, db, files, hist
<1>3. CASE Save
  <2>1. worker.op \in Ops
    BY <1>3 DEF TypeOK, Save, Idle
  <2>2. worker.op.w \in Rows \cup Cools
    BY <2>1 DEF Ops
  <2>3. late' \in [Uids -> Nat]
    <3> DEFINE u == worker.op.w.uid
    <3>1. u \in Uids => late[u] + 1 \in Nat
      BY DEF TypeOK
    <3>2. late' = late \/ late' = [late EXCEPT ![u] = late[u] + 1]
      BY <1>3 DEF Save
    <3>3. late \in [Uids -> Nat]
      BY DEF TypeOK
    <3>4. [late EXCEPT ![u] = late[u] + 1] \in [Uids -> Nat]
      BY <3>1, <3>3, ExceptType
    <3>5. QED BY <3>2, <3>3, <3>4
  <2>4. CASE Store(worker.op.w) /\ UNCHANGED <<budget, lost>>
    BY <1>3, <2>2, <2>3, <2>4, StoreType DEF TypeOK, Save, State, mem, files
  <2>5. CASE StoreFails
    <3>1. budget' \in [Events -> Nat]
      BY <2>5, SpendType DEF StoreFails, Events
    <3>2. lost' \subseteq Harms
      BY <2>5 DEF StoreFails, TypeOK, Harms
    <3>3. QED
      BY <1>3, <2>3, <2>5, <3>1, <3>2 DEF TypeOK, Save, StoreFails, mem, db, files
  <2>6. QED BY <1>3, <2>4, <2>5 DEF Save
<1>4. QED BY <1>1, <1>2, <1>3 DEF Persister

LEMMA DieType ==
  ASSUME TypeOK, NEW cut \in BOOLEAN, Die(cut), budget' \in [Events -> Nat]
  PROVE  TypeOK'
<1>1. lost' \subseteq Harms
  BY DEF TypeOK, Die, Harms
<1>2. QED BY <1>1 DEF TypeOK, Die, NoSnap, mem, db, files

LEMMA ProcessType ==
  ASSUME TypeOK, Process
  PROVE  TypeOK'
<1>1. CASE Close
  <2>1. budget' \in [Events -> Nat]
    BY <1>1, SpendType DEF Close, Events
  <2>2. QED BY <1>1, <2>1 DEF TypeOK, Close, mem, db, files, hist
<1>2. CASE Exit
  BY <1>2, DieType DEF Exit, MidHandler, TypeOK
<1>3. CASE Crash
  <2>1. budget' \in [Events -> Nat]
    BY <1>3, SpendType DEF Crash, Events
  <2>2. QED BY <1>3, <2>1, DieType DEF Crash, Quiescent, MidHandler
<1>4. CASE Boot
  <2> DEFINE none == [u \in Uids |-> Absent]
  <2>0. dbRow \in [Uids -> State] /\ none \in [Uids -> State]
    BY DEF TypeOK, State
  <2>1. acc' \in [Uids -> State]
    <3>1. acc' = Members(dbRow, OnDisk) \/ acc' = Members(none, OnDisk)
      BY <1>4 DEF Boot, NoSnap
    <3>2. Members(dbRow, OnDisk) \in [Uids -> State]
      BY <2>0, MembersType
    <3>3. Members(none, OnDisk) \in [Uids -> State]
      BY <2>0, MembersType
    <3>4. QED BY <3>1, <3>2, <3>3
  <2>2. budget' \in [Events -> Nat]
    BY <1>4, SpendType DEF Boot, TypeOK, Events
  <2>3. cool' \subseteq Uids \X Models /\ lost' \subseteq Harms
    BY <1>4 DEF Boot, TypeOK, Harms
  <2>4. userOff' \subseteq Uids
    BY <1>4 DEF Boot, TypeOK
  <2>5. QED BY <1>4, <2>1, <2>2, <2>3, <2>4 DEF TypeOK, Boot, State, db, files
<1>5. QED BY <1>1, <1>2, <1>3, <1>4 DEF Process

LEMMA NextType == TypeOK /\ [Next]_vars => TypeOK'
<1> SUFFICES ASSUME TypeOK, [Next]_vars PROVE TypeOK'
  OBVIOUS
<1>1. ASSUME NEW u \in Uids, Login(u) PROVE TypeOK'
  <2>1. budget' \in [Events -> Nat]
    BY <1>1, SpendType DEF Login, Events
  <2>2. QED BY <1>1, <2>1 DEF TypeOK, Login, mem, db
<1>2. ASSUME NEW u \in Uids, Import(u) PROVE TypeOK'
  <2>1. budget' \in [Events -> Nat]
    BY <1>2, SpendType DEF Import, Events
  <2>2. QED BY <1>2, <2>1 DEF TypeOK, Import, mem, db
<1>3. CASE UNCHANGED vars
  BY <1>3 DEF TypeOK, vars, mem, db, files, hist
<1>4. QED
  BY <1>1, <1>2, <1>3, HandlerType, StepType, PersisterType, ProcessType
     DEF Next, Files

(* Every value stays in its type: in particular the persister is only ever   *)
(* handed an account row or a cooldown, and no account is disabled for a      *)
(* reason other than the two the code names (pool.go).                        *)
THEOREM TypeCorrect == Spec => []TypeOK
  BY InitType, NextType, PTL DEF Spec

-----------------------------------------------------------------------------
(***************************************************************************)
(* At most one late row.  late[u] <= 1 is not inductive: a second late row  *)
(* is excluded only because a row in the persister's hands that has been   *)
(* overtaken was judged before the write that overtook it, and marking     *)
(* that write set the count back.                                          *)
(***************************************************************************)
Overtaken(u) ==
  /\ worker.stage = "save" /\ worker.op.w.kind = "row"
  /\ worker.op.w.uid = u /\ worker.op.seq < applied[u]

LateInv == \A u \in Uids : late[u] <= 1 /\ (Overtaken(u) => late[u] = 0)

LEMMA LateKept ==
  ASSUME LateInv, UNCHANGED <<worker, applied, late>>
  PROVE  LateInv'
  BY DEF LateInv, Overtaken

LEMMA LateNext == TypeOK /\ LateInv /\ [Next]_vars => LateInv'
<1> SUFFICES ASSUME TypeOK, LateInv, [Next]_vars PROVE LateInv'
  OBVIOUS
<1>1. CASE Handlers
  <2>1. UNCHANGED <<worker, applied, late>>
    <3>1. ASSUME NEW t \in Threads,
                 \/ ReloadMembers(t) \/ Logout(t)
                 \/ \E u \in Uids : \/ Probe(t, u) \/ Activate(t, u)
                                   \/ RemoveProfile(t, u)
          PROVE  UNCHANGED <<worker, applied, late>>
      BY <3>1 DEF ReloadMembers, Logout, Probe, Activate, RemoveProfile, hist
    <3>2. ASSUME NEW t \in Threads, NEW u \in Uids, NEW off \in BOOLEAN,
                 SetManualDisabled(t, u, off)
          PROVE  UNCHANGED <<worker, applied, late>>
      BY <3>2 DEF SetManualDisabled
    <3>3. ASSUME NEW t \in Threads, NEW u \in Uids, NEW m \in Models,
                 \/ NoteSuccess(t, u, m) \/ ClearModelCool(t, u, m)
          PROVE  UNCHANGED <<worker, applied, late>>
      BY <3>3 DEF NoteSuccess, ClearModelCool, hist
    <3>4. ASSUME NEW t \in Threads, NEW u \in Uids, NEW m \in Models,
                 NEW kind \in PunishingKinds, NoteError(t, u, m, kind)
          PROVE  UNCHANGED <<worker, applied, late>>
      BY <3>4 DEF NoteError
    <3>5. QED BY <1>1, <3>1, <3>2, <3>3, <3>4 DEF Handlers
  <2>2. QED BY <2>1, LateKept
<1>2. CASE Files
  BY <1>2, LateKept DEF Files, Login, Import
<1>3. ASSUME NEW t \in Threads, Step(t) PROVE LateInv'
  <2>1. CASE Mark(t)
    <3> DEFINE s == Head(todo[t])
    <3>1. s.w.uid \in Uids /\ s.seq \in Nat
      <4>1. s.w \in Rows \cup Goners /\ s.seq \in Nat
        BY <2>1, HeadType, StepFields DEF Mark
      <4>2. QED BY <4>1 DEF Rows, Goners
    <3>2. CASE s.seq > applied[s.w.uid]
      <4> SUFFICES ASSUME NEW u \in Uids
                   PROVE  late'[u] <= 1 /\ (Overtaken(u)' => late'[u] = 0)
        BY DEF LateInv
      <4>1. CASE u = s.w.uid
        BY <2>1, <3>2, <4>1 DEF Mark, Raised, TypeOK
      <4>2. CASE u # s.w.uid
        BY <2>1, <3>2, <4>2 DEF Mark, Raised, TypeOK, LateInv, Overtaken
      <4>3. QED BY <4>1, <4>2
    <3>3. CASE ~(s.seq > applied[s.w.uid])
      BY <2>1, <3>3, LateKept DEF Mark
    <3>4. QED BY <3>2, <3>3
  <2>2. CASE ~Mark(t)
    <3>1. UNCHANGED <<worker, applied, late>>
      BY <1>3, <2>2 DEF Step, Number, Send, WriteDb, Forget, Answer, Record,
         ReadRows, Scan, Swap, hist
    <3>2. QED BY <3>1, LateKept
  <2>3. QED BY <2>1, <2>2
<1>4. CASE Take
  BY <1>4 DEF Take, LateInv, Overtaken, hist
<1>5. CASE Judge
  <2> DEFINE op == worker.op
  <2>1. op.seq \in Nat /\ op.w \in Rows \cup Cools
    BY <1>5 DEF Judge, TypeOK, Idle, Ops
  <2>2. worker' = Idle => worker'.stage # "save"
    BY DEF Idle
  <2>3. op.w.kind = "row" => op.w.uid \in Uids
    BY <2>1 DEF Rows, Cools
  <2> SUFFICES ASSUME NEW u \in Uids
               PROVE  late'[u] <= 1 /\ (Overtaken(u)' => late'[u] = 0)
    BY DEF LateInv
  <2>4. late' = late
    BY <1>5 DEF Judge, hist
  <2>5. ~Overtaken(u)'
    <3>1. CASE op.w.kind # "row"
      <4>1. worker' = [worker EXCEPT !.stage = "save"]
        BY <1>5, <3>1 DEF Judge
      <4>2. worker'.op = op
        BY <1>5, <4>1 DEF Judge, TypeOK, Idle
      <4>3. QED BY <3>1, <4>2 DEF Overtaken
    <3>2. CASE op.w.kind = "row" /\ ~IsStale(op)
      <4>1. worker'.op = op /\ applied'[op.w.uid] = op.seq
        BY <1>5, <2>1, <2>3, <3>2 DEF Judge, TypeOK, Idle, Raised, IsStale
      <4>2. QED BY <2>1, <4>1 DEF Overtaken
    <3>3. CASE op.w.kind = "row" /\ IsStale(op)
      BY <1>5, <2>2, <3>3 DEF Judge, Overtaken
    <3>4. QED BY <3>1, <3>2, <3>3
  <2>6. QED BY <2>4, <2>5 DEF LateInv
<1>6. CASE Save
  <2> DEFINE op == worker.op
  <2>1. worker'.stage # "save" /\ applied' = applied
    BY <1>6 DEF Save, Idle
  <2>2. \A u \in Uids : ~Overtaken(u)'
    BY <2>1 DEF Overtaken
  <2>3. CASE late' = late
    BY <2>2, <2>3 DEF LateInv
  <2>4. CASE /\ op.w.kind = "row" /\ op.seq < applied[op.w.uid]
             /\ late' = [late EXCEPT ![op.w.uid] = late[op.w.uid] + 1]
    <3>1. op.w.uid \in Uids => late[op.w.uid] = 0
      BY <1>6, <2>4 DEF LateInv, Overtaken, Save
    <3>2. \A u \in Uids : late'[u] <= 1
      BY <2>4, <3>1 DEF LateInv, TypeOK
    <3>3. QED BY <2>2, <3>2 DEF LateInv
  <2>5. QED BY <1>6, <2>3, <2>4 DEF Save
<1>7. CASE Process
  <2>1. CASE Close
    BY <2>1, LateKept DEF Close, hist
  <2>2. CASE Exit \/ Crash
    <3>1. worker' = Idle /\ late' = late
      BY <2>2 DEF Exit, Crash, Die
    <3>2. \A u \in Uids : ~Overtaken(u)'
      BY <3>1 DEF Overtaken, Idle
    <3>3. QED BY <3>1, <3>2 DEF LateInv
  <2>3. CASE Boot
    BY <2>3 DEF Boot, LateInv
  <2>4. QED BY <1>7, <2>1, <2>2, <2>3 DEF Process
<1>8. CASE UNCHANGED vars
  BY <1>8, LateKept DEF vars, hist
<1>9. QED
  BY <1>1, <1>2, <1>3, <1>4, <1>5, <1>6, <1>7, <1>8 DEF Next, Persister

(* After a write of the user was numbered and marked, the persister puts at  *)
(* most one older row over it (persistOp, isStale, markApplied), however     *)
(* many goroutines, however large the channel and whatever fails.            *)
THEOREM LateOnce == Spec => []AtMostOneLate
<1>1. Init => LateInv
  BY DEF Init, LateInv, Overtaken, Idle
<1>2. LateInv => AtMostOneLate
  BY DEF LateInv, AtMostOneLate
<1>3. QED BY <1>1, <1>2, InitType, NextType, LateNext, PTL DEF Spec

-----------------------------------------------------------------------------
(***************************************************************************)
(* The accounts between two reloads.  Only a reload and a start replace an *)
(* account by a row of the database; while neither happens, every other    *)
(* handler changes it under Manager.mu, at the moment of the change.       *)
(***************************************************************************)
Reloading == {"reload", "activate", "stop", "crash"}

\* The steps a handler can have left when no reload has been started.
InPlace == {s \in Steps : s.do # "swap"}

Untouched ==
  /\ phase = "up" /\ \A e \in Reloading : budget[e] = 0
  /\ todo \in [Threads -> Seq(InPlace)]

\* A streak in memory counts failures since the last success, at most.
StreakTrue == \A u \in Uids : acc[u] # Absent => acc[u].streak <= fails[u]

CalmInv == TypeOK /\ Untouched /\ ManualStaysOff /\ StreakTrue

LEMMA InPlacePieces ==
  /\ <<>> \in Seq(InPlace)
  /\ \A w \in Rows \cup Cools : Persist(w) \in Seq(InPlace)
  /\ \A w \in Rows \cup Goners : Sync(w) \in Seq(InPlace)
  /\ \A w \in Rows \cup Cools \cup Goners : Write(w) \in Seq(InPlace)
  /\ \A d \in {"forget", "answer", "record"}, u \in Uids :
       OnUid(d, u) \in Seq(InPlace)
<1>1. \A s \in InPlace : <<s>> \in Seq(InPlace)
  OBVIOUS
<1>2. \A w \in Rows \cup Cools :
        [do |-> "persist", w |-> w, seq |-> 0] \in InPlace
  BY DEF Steps, InPlace
<1>3. \A w \in Rows \cup Goners : [do |-> "sync", w |-> w, seq |-> 0] \in InPlace
  BY DEF Steps, InPlace
<1>4. \A w \in Rows \cup Cools \cup Goners :
        [do |-> "write", w |-> w, seq |-> 0] \in InPlace
  BY DEF Steps, InPlace
<1>5. \A d \in {"forget", "answer", "record"}, u \in Uids :
        [do |-> d, uid |-> u] \in InPlace
  BY DEF Steps, InPlace
<1>6. QED BY <1>1, <1>2, <1>3, <1>4, <1>5 DEF Persist, Sync, Write, OnUid

LEMMA InPlaceJoin ==
  ASSUME NEW p \in Seq(InPlace), NEW q \in Seq(InPlace)
  PROVE  p \o q \in Seq(InPlace)
  BY ConcatProperties

LEMMA InPlaceDelete == \A u \in Uids : Delete(u) \in Seq(InPlace)
<1> TAKE u \in Uids
<1>1. Gone("gone", u) \in Goners /\ Gone("goneCools", u) \in Goners
  BY DEF Gone, Goners
<1>2. /\ OnUid("forget", u) \in Seq(InPlace)
      /\ Sync(Gone("gone", u)) \in Seq(InPlace)
      /\ Write(Gone("goneCools", u)) \in Seq(InPlace)
  BY <1>1, InPlacePieces
<1>3. QED BY <1>2, InPlaceJoin DEF Delete

\* What is left of a handler in place, and the step it is at.
LEMMA InPlaceTail ==
  ASSUME Untouched, NEW t \in Threads, NEW d, At(t, d)
  PROVE  /\ Tail(todo[t]) \in Seq(InPlace)
         /\ Head(todo[t]) \in InPlace /\ Head(todo[t]).do = d
  BY HeadTailProperties DEF Untouched, At

\* A handler can only start with an event that is left.
LEMMA StartUntouched ==
  ASSUME TypeOK, Untouched, NEW t \in Threads, NEW e \in Events,
         NEW rest, Start(t, e, rest),
         e \notin Reloading => rest \in Seq(InPlace), phase' = phase
  PROVE  Untouched' /\ e \notin Reloading
<1>1. e \notin Reloading
  BY DEF Start, Spend, Untouched
<1>2. todo' \in [Threads -> Seq(InPlace)]
  BY <1>1 DEF Start, Untouched
<1>3. \A f \in Reloading : budget'[f] = 0
  BY <1>1 DEF Start, Spend, Untouched, TypeOK, Events, Reloading
<1>4. QED BY <1>1, <1>2, <1>3 DEF Untouched

\* So can a step of a handler only leave steps in place.
LEMMA StepUntouched ==
  ASSUME TypeOK, Untouched, NEW t \in Threads, NEW more \in Seq(InPlace),
         NEW d, At(t, d), Done(t) \/ Then(t, more),
         UNCHANGED phase, UNCHANGED budget \/ Spend("fault")
  PROVE  Untouched'
<1>1. Tail(todo[t]) \in Seq(InPlace) /\ more \o Tail(todo[t]) \in Seq(InPlace)
  BY InPlaceTail, InPlaceJoin
<1>2. todo' \in [Threads -> Seq(InPlace)]
  BY <1>1 DEF Untouched, Done, Then
<1>3. \A f \in Reloading : budget'[f] = 0
  BY DEF Spend, Untouched, TypeOK, Events, Reloading
<1>4. QED BY <1>2, <1>3 DEF Untouched

\* No chat and no error touches what the user has set; a streak only grows with
\* a quota failure.
LEMMA ErrorKeeps ==
  ASSUME NEW s \in AccountStates, NEW kind \in PunishingKinds
  PROVE  /\ AfterError(s, kind).manual = s.manual
         /\ kind = "quota" => AfterError(s, kind).streak = NextStreak(s.streak)
         /\ kind # "quota" => AfterError(s, kind).streak = s.streak
  BY DEF AfterError, AfterQuota, AfterCredential, PunishingKinds, AccountStates

LEMMA StreakMonotone ==
  ASSUME NEW n \in 0..StreakLimit, NEW k \in 0..StreakLimit, n <= k
  PROVE  NextStreak(n) <= NextStreak(k)
  BY DEF NextStreak, StreakLimit

LEMMA Unchanged ==
  ASSUME ManualStaysOff, StreakTrue, UNCHANGED <<acc, userOff, fails>>
  PROVE  ManualStaysOff' /\ StreakTrue'
  BY DEF ManualStaysOff, StreakTrue

\* A step that changes one account.
LEMMA OneChanged ==
  ASSUME TypeOK, TypeOK', ManualStaysOff, StreakTrue, NEW u \in Uids,
         \A v \in Uids \ {u} : /\ acc'[v] = acc[v] /\ fails'[v] = fails[v]
                               /\ v \in userOff' => v \in userOff,
         acc'[u] # Absent => /\ u \in userOff' => acc'[u].manual
                             /\ acc'[u].streak <= fails'[u]
  PROVE  ManualStaysOff' /\ StreakTrue'
<1>1. ASSUME NEW v \in Uids, acc'[v] # Absent
      PROVE  (v \in userOff' => acc'[v].manual) /\ acc'[v].streak <= fails'[v]
  <2>1. CASE v = u
    BY <1>1, <2>1
  <2>2. CASE v # u
    BY <1>1, <2>2 DEF ManualStaysOff, StreakTrue
  <2>3. QED BY <2>1, <2>2
<1>2. userOff' \subseteq Uids
  BY DEF TypeOK
<1>3. ManualStaysOff'
  BY <1>1, <1>2 DEF ManualStaysOff
<1>4. StreakTrue'
  BY <1>1 DEF StreakTrue
<1>5. QED BY <1>3, <1>4

LEMMA SuccessCalm ==
  ASSUME CalmInv, TypeOK', NEW t \in Threads, NEW u \in Uids, NEW m \in Models,
         NoteSuccess(t, u, m)
  PROVE  CalmInv'
<1> DEFINE p == IF <<u, m>> \in cool THEN Persist(Cool("uncool", u, m)) ELSE <<>>
           q == IF acc[u] # Absent /\ acc[u].auto # ""
                THEN Persist(Row(u, acc'[u])) ELSE <<>>
<1>1. acc[u] # Absent => acc[u] \in AccountStates /\ acc'[u] = AfterSuccess(acc[u])
  BY DEF CalmInv, TypeOK, NoteSuccess
<1>2. p \in Seq(InPlace) /\ q \in Seq(InPlace)
  <2>1. Cool("uncool", u, m) \in Cools
    BY DEF Cool, Cools
  <2>2. acc[u] # Absent => acc'[u] \in AccountStates
    BY <1>1, EventTypes
  <2>3. acc[u] # Absent => Row(u, acc'[u]) \in Rows
    BY <2>2, RowType
  <2>4. QED BY <2>1, <2>3, InPlacePieces
<1>3. Start(t, "success", p \o q) /\ "success" \in Events /\ p \o q \in Seq(InPlace)
  BY <1>2, InPlaceJoin DEF NoteSuccess, Events
<1>4. Untouched'
  BY <1>3, StartUntouched DEF CalmInv, NoteSuccess
<1>5. acc'[u] # Absent => acc[u] # Absent
  BY DEF CalmInv, TypeOK, NoteSuccess
<1>6. fails'[u] = 0 /\ userOff' = userOff
  BY DEF CalmInv, TypeOK, NoteSuccess
<1>7. acc'[u] # Absent => (u \in userOff' => acc'[u].manual) /\ acc'[u].streak <= fails'[u]
  <2>1. acc[u] # Absent => /\ acc'[u].manual = acc[u].manual
                           /\ acc'[u].streak = 0
    BY <1>1 DEF AfterSuccess, AccountStates
  <2>2. u \in userOff /\ acc[u] # Absent => acc[u].manual
    BY DEF CalmInv, ManualStaysOff
  <2>3. QED BY <1>5, <1>6, <2>1, <2>2
<1>8. \A v \in Uids \ {u} : acc'[v] = acc[v] /\ fails'[v] = fails[v]
  BY DEF CalmInv, TypeOK, NoteSuccess
<1>9. QED BY <1>4, <1>6, <1>7, <1>8, OneChanged DEF CalmInv

LEMMA ErrorCalm ==
  ASSUME CalmInv, TypeOK', NEW t \in Threads, NEW u \in Uids, NEW m \in Models,
         NEW kind \in PunishingKinds, NoteError(t, u, m, kind)
  PROVE  CalmInv'
<1> DEFINE p == IF kind = "rate" THEN Persist(Cool("cool", u, m)) ELSE <<>>
           q == Persist(Row(u, acc'[u]))
<1>1. acc[u] \in AccountStates /\ acc'[u] = AfterError(acc[u], kind)
  BY DEF CalmInv, TypeOK, NoteError
<1>2. p \in Seq(InPlace) /\ q \in Seq(InPlace)
  <2>1. Cool("cool", u, m) \in Cools
    BY DEF Cool, Cools
  <2>2. acc'[u] \in AccountStates
    BY <1>1, EventTypes
  <2>3. QED BY <2>1, <2>2, InPlacePieces, RowType
<1>3. Start(t, "error", p \o q) /\ "error" \in Events /\ p \o q \in Seq(InPlace)
  BY <1>2, InPlaceJoin DEF NoteError, Events
<1>4. Untouched'
  BY <1>3, StartUntouched DEF CalmInv, NoteError
<1>5. acc[u].streak <= fails[u] /\ fails[u] \in 0..StreakLimit
      /\ acc[u].streak \in 0..StreakLimit
  BY <1>1, AbsentAssumption DEF CalmInv, StreakTrue, TypeOK, AccountStates
<1>6. fails'[u] = IF kind = "quota" THEN NextStreak(fails[u]) ELSE fails[u]
  BY DEF CalmInv, TypeOK, NoteError
<1>7. acc'[u].streak <= fails'[u]
  <2>1. CASE kind = "quota"
    <3>1. acc'[u].streak = NextStreak(acc[u].streak)
      BY <1>1, <2>1, ErrorKeeps
    <3>2. NextStreak(acc[u].streak) <= NextStreak(fails[u])
      BY <1>5, StreakMonotone
    <3>3. QED BY <1>6, <2>1, <3>1, <3>2
  <2>2. CASE kind # "quota"
    <3>1. acc'[u].streak = acc[u].streak
      BY <1>1, <2>2, ErrorKeeps
    <3>2. QED BY <1>5, <1>6, <2>2, <3>1
  <2>3. QED BY <2>1, <2>2
<1>8. u \in userOff' => acc'[u].manual
  <2>1. acc'[u].manual = acc[u].manual
    BY <1>1, ErrorKeeps
  <2>2. u \in userOff => acc[u].manual
    BY DEF CalmInv, ManualStaysOff, NoteError
  <2>3. QED BY <2>1, <2>2 DEF NoteError
<1>9. \A v \in Uids \ {u} : /\ acc'[v] = acc[v] /\ fails'[v] = fails[v]
                            /\ v \in userOff' => v \in userOff
  BY DEF CalmInv, TypeOK, NoteError
<1>10. QED BY <1>4, <1>7, <1>8, <1>9, OneChanged DEF CalmInv

LEMMA ManualCalm ==
  ASSUME CalmInv, TypeOK', NEW t \in Threads, NEW u \in Uids, NEW off \in BOOLEAN,
         SetManualDisabled(t, u, off)
  PROVE  CalmInv'
<1>1. acc[u] \in AccountStates /\ acc'[u] = AfterManual(acc[u], off)
  BY DEF CalmInv, TypeOK, SetManualDisabled
<1>2. Sync(Row(u, acc'[u])) \in Seq(InPlace)
  BY <1>1, EventTypes, InPlacePieces, RowType
<1>3. Start(t, "manual", Sync(Row(u, acc'[u]))) /\ "manual" \in Events
  BY DEF SetManualDisabled, Events
<1>4. Untouched'
  BY <1>2, <1>3, StartUntouched DEF CalmInv, SetManualDisabled
<1>5. CASE off
  <2>1. acc'[u] = [acc[u] EXCEPT !.manual = TRUE] /\ fails' = fails
    BY <1>1, <1>5 DEF SetManualDisabled, AfterManual
  <2>2. acc'[u].manual /\ acc'[u].streak = acc[u].streak
    BY <1>1, <2>1 DEF AccountStates
  <2>3. acc[u].streak <= fails[u]
    BY DEF CalmInv, StreakTrue, SetManualDisabled
  <2>4. \A v \in Uids \ {u} : acc'[v] = acc[v] /\ (v \in userOff' => v \in userOff)
    BY <1>5 DEF CalmInv, TypeOK, SetManualDisabled
  <2>5. QED BY <1>4, <2>1, <2>2, <2>3, <2>4, OneChanged DEF CalmInv
<1>6. CASE ~off
  <2>1. fails'[u] = 0 /\ u \notin userOff'
    BY <1>6 DEF CalmInv, TypeOK, SetManualDisabled
  <2>2. acc'[u].streak = 0
    BY <1>1, <1>6 DEF AfterManual, AccountStates
  <2>3. \A v \in Uids \ {u} : /\ acc'[v] = acc[v] /\ fails'[v] = fails[v]
                              /\ v \in userOff' => v \in userOff
    BY <1>6 DEF CalmInv, TypeOK, SetManualDisabled
  <2>4. QED BY <1>4, <2>1, <2>2, <2>3, OneChanged DEF CalmInv
<1>7. QED BY <1>5, <1>6

LEMMA HandlersCalm ==
  ASSUME CalmInv, TypeOK', Handlers
  PROVE  CalmInv'
<1>1. ASSUME NEW t \in Threads, ReloadMembers(t)
      PROVE  FALSE
  BY <1>1 DEF ReloadMembers, Start, Spend, CalmInv, Untouched, Reloading
<1>2. ASSUME NEW t \in Threads, NEW u \in Uids, Activate(t, u)
      PROVE  FALSE
  BY <1>2 DEF Activate, Start, Spend, CalmInv, Untouched, Reloading
<1>3. ASSUME NEW t \in Threads, Logout(t)
      PROVE  CalmInv'
  <2>1. active \in Uids
    BY <1>3 DEF CalmInv, TypeOK, Logout
  <2>2. Untouched'
    BY <1>3, <2>1, StartUntouched, InPlaceDelete DEF CalmInv, Logout, Events
  <2>3. QED BY <1>3, <2>2, Unchanged DEF CalmInv, Logout, mem
<1>4. ASSUME NEW t \in Threads, NEW u \in Uids, Probe(t, u)
      PROVE  CalmInv'
  <2>1. OnUid(IF acc[u].manual THEN "record" ELSE "answer", u) \in Seq(InPlace)
    BY InPlacePieces
  <2>2. Untouched'
    BY <1>4, <2>1, StartUntouched DEF CalmInv, Probe, Events
  <2>3. QED BY <1>4, <2>2, Unchanged DEF CalmInv, Probe, mem, hist
<1>5. ASSUME NEW t \in Threads, NEW u \in Uids, RemoveProfile(t, u)
      PROVE  CalmInv'
  <2>1. Untouched'
    BY <1>5, StartUntouched, InPlaceDelete DEF CalmInv, RemoveProfile, Events
  <2>2. QED BY <1>5, <2>1, Unchanged DEF CalmInv, RemoveProfile, mem, hist
<1>6. ASSUME NEW t \in Threads, NEW u \in Uids, NEW m \in Models,
             ClearModelCool(t, u, m)
      PROVE  CalmInv'
  <2>1. Cool("uncool", u, m) \in Cools
    BY DEF Cool, Cools
  <2>2. Untouched'
    BY <1>6, <2>1, StartUntouched, InPlacePieces DEF CalmInv, ClearModelCool, Events
  <2>3. QED BY <1>6, <2>2, Unchanged DEF CalmInv, ClearModelCool, hist
<1>7. QED
  BY <1>1, <1>2, <1>3, <1>4, <1>5, <1>6, SuccessCalm, ErrorCalm, ManualCalm
     DEF Handlers

LEMMA NumberCalm ==
  ASSUME CalmInv, TypeOK', NEW t \in Threads, Number(t)
  PROVE  CalmInv'
<1>1. todo' \in [Threads -> Seq(InPlace)]
  <2>1. ASSUME NEW d \in {"persist", "sync"}, NEW e \in {"send", "mark"},
               At(t, d), Become(t, e, seq + 1),
               [do |-> e, w |-> Head(todo[t]).w, seq |-> seq + 1] \in Steps
        PROVE  todo' \in [Threads -> Seq(InPlace)]
    <3> DEFINE s == [do |-> e, w |-> Head(todo[t]).w, seq |-> seq + 1]
    <3>1. s \in InPlace
      BY <2>1 DEF InPlace
    <3>2. Tail(todo[t]) \in Seq(InPlace)
      BY <2>1, InPlaceTail DEF CalmInv
    <3>3. <<s>> \o Tail(todo[t]) \in Seq(InPlace)
      BY <3>1, <3>2, InPlaceJoin
    <3>4. QED BY <2>1, <3>3 DEF Become, CalmInv, Untouched
  <2>2. seq + 1 \in Nat
    BY DEF CalmInv, TypeOK
  <2>3. CASE At(t, "persist") /\ Become(t, "send", seq + 1)
    <3>1. Head(todo[t]).w \in Rows \cup Cools
      BY <2>3, HeadType, StepFields DEF CalmInv
    <3>2. [do |-> "send", w |-> Head(todo[t]).w, seq |-> seq + 1] \in Steps
      BY <2>2, <3>1 DEF Steps
    <3>3. QED BY <2>1, <2>3, <3>2
  <2>4. CASE At(t, "sync") /\ Become(t, "mark", seq + 1)
    <3>1. Head(todo[t]).w \in Rows \cup Goners
      BY <2>4, HeadType, StepFields DEF CalmInv
    <3>2. [do |-> "mark", w |-> Head(todo[t]).w, seq |-> seq + 1] \in Steps
      BY <2>2, <3>1 DEF Steps
    <3>3. QED BY <2>1, <2>4, <3>2
  <2>5. QED BY <2>3, <2>4 DEF Number
<1>2. Untouched'
  BY <1>1 DEF CalmInv, Untouched, Number
<1>3. QED BY <1>2, Unchanged DEF CalmInv, Number, mem, hist

LEMMA MarkCalm ==
  ASSUME CalmInv, TypeOK', NEW t \in Threads, Mark(t)
  PROVE  CalmInv'
<1>1. todo' \in [Threads -> Seq(InPlace)]
  <2> DEFINE s == [do |-> "write", w |-> Head(todo[t]).w, seq |-> Head(todo[t]).seq]
  <2>1. At(t, "mark") /\ todo' = [todo EXCEPT ![t] = <<s>> \o Tail(todo[t])]
    BY DEF Mark, Become
  <2>2. Tail(todo[t]) \in Seq(InPlace) /\ Head(todo[t]) \in Steps
        /\ Head(todo[t]).do = "mark"
    BY <2>1, InPlaceTail DEF CalmInv, InPlace
  <2>3. Head(todo[t]).w \in Rows \cup Goners /\ Head(todo[t]).seq \in Nat
    BY <2>2, StepFields
  <2>4. s \in InPlace
    BY <2>3 DEF InPlace, Steps
  <2>5. <<s>> \o Tail(todo[t]) \in Seq(InPlace)
    BY <2>2, <2>4, InPlaceJoin
  <2>6. QED BY <2>1, <2>5 DEF CalmInv, Untouched
<1>2. Untouched'
  BY <1>1 DEF CalmInv, Untouched, Mark
<1>3. QED BY <1>2, Unchanged DEF CalmInv, Mark, mem

LEMMA AnswerCalm ==
  ASSUME CalmInv, TypeOK', NEW t \in Threads, Answer(t)
  PROVE  CalmInv'
<1> DEFINE u == Head(todo[t]).uid
<1>1. At(t, "answer") /\ TypeOK
  BY DEF Answer, CalmInv
<1>2. u \in Uids /\ OnUid("record", u) \in Seq(InPlace)
  <2>1. u \in Uids
    BY <1>1, HeadType, StepFields
  <2>2. QED BY <2>1, InPlacePieces
<1>3. UNCHANGED <<phase, budget, userOff>>
  BY DEF Answer
<1>4. CASE Then(t, OnUid("record", u)) /\ UNCHANGED <<acc, fails>>
  <2>1. Untouched'
    BY <1>1, <1>2, <1>3, <1>4, StepUntouched DEF CalmInv
  <2>2. QED BY <1>3, <1>4, <2>1, Unchanged DEF CalmInv
<1>5. ASSUME NEW reason \in AutoReasons,
             acc' = [acc EXCEPT ![u] = IF @ = Absent THEN @
                                       ELSE Condemned(@, reason)],
             Then(t, (IF acc[u] = Absent THEN <<>>
                      ELSE Persist(Row(u, acc'[u]))) \o OnUid("record", u)),
             UNCHANGED fails
      PROVE  CalmInv'
  <2> DEFINE p == IF acc[u] = Absent THEN <<>> ELSE Persist(Row(u, acc'[u]))
  <2>1. acc[u] # Absent => acc[u] \in AccountStates /\ acc'[u] = Condemned(acc[u], reason)
    BY <1>1, <1>2, <1>5 DEF TypeOK
  <2>2. p \in Seq(InPlace)
    <3>1. acc[u] # Absent => Row(u, acc'[u]) \in Rows
      BY <1>2, <2>1, EventTypes, RowType
    <3>2. QED BY <3>1, InPlacePieces
  <2>3. p \o OnUid("record", u) \in Seq(InPlace)
    BY <1>2, <2>2, InPlaceJoin
  <2>4. Untouched'
    BY <1>1, <1>3, <1>5, <2>3, StepUntouched DEF CalmInv
  <2>5. acc[u] # Absent => acc'[u].manual = acc[u].manual /\ acc'[u].streak = acc[u].streak
    BY <2>1 DEF Condemned, AccountStates
  <2>6. acc'[u] # Absent => acc[u] # Absent
    BY <1>1, <1>2, <1>5 DEF TypeOK
  <2>7. acc'[u] # Absent => /\ u \in userOff' => acc'[u].manual
                            /\ acc'[u].streak <= fails'[u]
    BY <1>2, <1>3, <1>5, <2>5, <2>6 DEF CalmInv, ManualStaysOff, StreakTrue
  <2>8. \A v \in Uids \ {u} : acc'[v] = acc[v]
    BY <1>1, <1>5 DEF TypeOK
  <2>9. QED BY <1>1, <1>2, <1>3, <1>5, <2>4, <2>7, <2>8, OneChanged DEF CalmInv
<1>6. CASE /\ acc' = [acc EXCEPT ![u] = IF @ = Absent THEN @ ELSE Recovered(@)]
           /\ Then(t, OnUid("record", u))
           /\ fails' = [fails EXCEPT ![u] = 0]
  <2>1. acc[u] # Absent => acc[u] \in AccountStates /\ acc'[u] = Recovered(acc[u])
    BY <1>1, <1>2, <1>6 DEF TypeOK
  <2>2. acc[u] # Absent => acc'[u].manual = acc[u].manual /\ acc'[u].streak = 0
    BY <2>1 DEF Recovered, AccountStates
  <2>3. (acc'[u] # Absent => acc[u] # Absent) /\ fails'[u] = 0
    BY <1>1, <1>2, <1>6 DEF TypeOK
  <2>4. acc'[u] # Absent => /\ u \in userOff' => acc'[u].manual
                            /\ acc'[u].streak <= fails'[u]
    BY <1>3, <2>2, <2>3 DEF CalmInv, ManualStaysOff
  <2>5. \A v \in Uids \ {u} : acc'[v] = acc[v] /\ fails'[v] = fails[v]
    BY <1>1, <1>6 DEF TypeOK
  <2>6. Untouched'
    BY <1>1, <1>2, <1>3, <1>6, StepUntouched DEF CalmInv
  <2>7. QED BY <1>1, <1>2, <1>3, <2>4, <2>5, <2>6, OneChanged DEF CalmInv
<1>7. QED BY <1>4, <1>5, <1>6 DEF Answer

LEMMA StepCalm ==
  ASSUME CalmInv, TypeOK', NEW t \in Threads, Step(t)
  PROVE  CalmInv'
<1>1. TypeOK /\ Untouched /\ <<>> \in Seq(InPlace)
  BY InPlacePieces DEF CalmInv
<1>2. CASE Forget(t)
  <2> DEFINE u == Head(todo[t]).uid
  <2>1. u \in Uids
    BY <1>1, <1>2, HeadType, StepFields DEF Forget
  <2>2. Untouched'
    BY <1>1, <1>2, StepUntouched DEF Forget
  <2>3. acc'[u] = Absent
    BY <1>1, <1>2, <2>1 DEF Forget, TypeOK
  <2>4. \A v \in Uids \ {u} : /\ acc'[v] = acc[v] /\ fails'[v] = fails[v]
                              /\ v \in userOff' => v \in userOff
    BY <1>1, <1>2 DEF Forget, TypeOK
  <2>5. QED BY <1>1, <2>1, <2>2, <2>3, <2>4, OneChanged DEF CalmInv
<1>3. CASE Record(t)
  <2> DEFINE u == Head(todo[t]).uid
             p == IF acc[u] = Absent THEN <<>> ELSE Persist(Row(u, acc[u]))
  <2>1. u \in Uids
    BY <1>1, <1>3, HeadType, StepFields DEF Record
  <2>2. p \in Seq(InPlace)
    BY <1>1, <2>1, InPlacePieces, RowType DEF TypeOK
  <2>3. Untouched'
    BY <1>1, <1>3, <2>2, StepUntouched DEF Record
  <2>4. QED BY <1>3, <2>3, Unchanged DEF CalmInv, Record, mem, hist
<1>4. CASE Send(t)
  <2>1. Untouched'
    BY <1>1, <1>4, StepUntouched DEF Send
  <2>2. QED BY <1>4, <2>1, Unchanged DEF CalmInv, Send, mem
<1>5. CASE ReadRows(t)
  <2>1. Untouched'
    BY <1>1, <1>5, StepUntouched DEF ReadRows
  <2>2. QED BY <1>5, <2>1, Unchanged DEF CalmInv, ReadRows, mem
<1>6. CASE Scan(t)
  <2>1. Untouched'
    BY <1>1, <1>6, StepUntouched DEF Scan
  <2>2. QED BY <1>6, <2>1, Unchanged DEF CalmInv, Scan, mem, hist
<1>7. CASE WriteDb(t)
  <2>1. Untouched'
    <3>1. CASE Done(t) /\ UNCHANGED budget
      BY <1>1, <1>7, <3>1, StepUntouched DEF WriteDb
    <3>2. CASE StoreFails /\ todo' = [todo EXCEPT ![t] = <<>>]
      <4>1. todo' \in [Threads -> Seq(InPlace)]
        BY <1>1, <3>2 DEF Untouched
      <4>2. \A e \in Reloading : budget'[e] = 0
        BY <1>1, <3>2 DEF StoreFails, Spend, Untouched, TypeOK, Events, Reloading
      <4>3. QED BY <1>1, <1>7, <4>1, <4>2 DEF WriteDb, Untouched
    <3>3. QED BY <1>7, <3>1, <3>2 DEF WriteDb
  <2>2. QED BY <1>7, <2>1, Unchanged DEF CalmInv, WriteDb, mem
<1>8. CASE Swap(t)
  <2>1. FALSE
    BY <1>1, <1>8, InPlaceTail DEF Swap, InPlace
  <2>2. QED BY <2>1
<1>9. QED
  BY <1>2, <1>3, <1>4, <1>5, <1>6, <1>7, <1>8, NumberCalm, MarkCalm, AnswerCalm
     DEF Step

LEMMA NextCalm == CalmInv /\ [Next]_vars => CalmInv'
<1> SUFFICES ASSUME CalmInv, [Next]_vars PROVE CalmInv'
  OBVIOUS
<1>1. TypeOK /\ Untouched /\ TypeOK'
  BY NextType DEF CalmInv
<1>2. CASE Files
  <2>1. Untouched' /\ UNCHANGED <<acc, userOff, fails>>
    <3>1. PICK e \in {"login", "import"} :
            Spend(e) /\ UNCHANGED <<acc, userOff, fails, phase, todo>>
      BY <1>2 DEF Files, Login, Import, mem
    <3>2. \A f \in Reloading : budget'[f] = budget[f]
      BY <1>1, <3>1 DEF Spend, TypeOK, Events, Reloading
    <3>3. QED BY <1>1, <3>1, <3>2 DEF Untouched
  <2>2. QED BY <1>1, <2>1, Unchanged DEF CalmInv
<1>3. CASE Persister
  <2>1. Untouched' /\ UNCHANGED <<acc, userOff, fails>>
    <3>1. CASE Take
      BY <1>1, <3>1 DEF Take, Untouched, mem, hist
    <3>2. CASE Judge
      BY <1>1, <3>2 DEF Judge, Untouched, mem, hist
    <3>3. CASE Save
      BY <1>1, <3>3 DEF Save, StoreFails, Spend, Untouched, TypeOK, Events,
         Reloading, mem
    <3>4. QED BY <1>3, <3>1, <3>2, <3>3 DEF Persister
  <2>2. QED BY <1>1, <2>1, Unchanged DEF CalmInv
<1>4. CASE Process
  <2>1. FALSE
    BY <1>1, <1>4 DEF Process, Close, Exit, Crash, Boot, Spend, Untouched, Reloading
  <2>2. QED BY <2>1
<1>5. CASE UNCHANGED vars
  <2>1. Untouched' /\ UNCHANGED <<acc, userOff, fails>>
    BY <1>1, <1>5 DEF vars, mem, hist, Untouched
  <2>2. QED BY <1>1, <2>1, Unchanged DEF CalmInv
<1>6. QED
  BY <1>1, <1>2, <1>3, <1>4, <1>5, HandlersCalm, StepCalm DEF Next

LEMMA InitCalm ==
  ASSUME \A b \in Budgets, e \in Reloading : b[e] = 0
  PROVE  Init => CalmInv
<1> SUFFICES ASSUME Init PROVE CalmInv
  OBVIOUS
<1>1. TypeOK
  BY InitType
<1>2. Untouched
  BY DEF Init, Untouched
<1>3. \A u \in Uids : acc[u] # Absent => acc[u] = Fresh
  BY DEF Init, Members
<1>4. StreakTrue
  <2>1. \A u \in Uids : fails[u] = 0
    BY DEF Init
  <2>2. Fresh.streak = 0
    BY DEF Fresh
  <2>3. QED BY <1>3, <2>1, <2>2 DEF StreakTrue
<1>5. ManualStaysOff
  BY DEF Init, ManualStaysOff
<1>6. QED BY <1>1, <1>2, <1>4, <1>5 DEF CalmInv

(* Between two reloads an account the user disabled stays disabled: the      *)
(* manual domain is the user's, and no success, error or probe of any number *)
(* of goroutines in flight at the click takes it back.                       *)
THEOREM DisabledStaysOff ==
  ASSUME \A b \in Budgets, e \in Reloading : b[e] = 0
  PROVE  Spec => []ManualStaysOff
<1>1. Init => CalmInv
  BY InitCalm
<1>2. CalmInv => ManualStaysOff
  BY DEF CalmInv
<1>3. QED BY <1>1, <1>2, NextCalm, PTL DEF Spec

(* Between two reloads no single quota failure disables an account: the      *)
(* streak memory counts is never more than the failures since the last       *)
(* success (NoteError, NoteSuccess).                                         *)
THEOREM TwoFailures ==
  ASSUME \A b \in Budgets, e \in Reloading : b[e] = 0
  PROVE  Spec => QuotaNeedsTwo
<1>1. ASSUME CalmInv, NEW t \in Threads, NEW u \in Uids, NEW m \in Models,
             NoteError(t, u, m, "quota"), acc[u].auto = "", acc'[u].auto # ""
      PROVE  fails[u] >= StreakLimit - 1
  <2>1. acc[u] \in AccountStates /\ acc'[u] = AfterQuota(acc[u])
    BY <1>1 DEF CalmInv, TypeOK, NoteError, AfterError
  <2>2. NextStreak(acc[u].streak) >= StreakLimit
    BY <1>1, <2>1 DEF AfterQuota, AccountStates
  <2>3. acc[u].streak \in 0..2 /\ fails[u] \in 0..2
    BY <1>1, <2>1 DEF AccountStates, StreakLimit, CalmInv, TypeOK
  <2>4. acc[u].streak >= 1
    BY <2>2, <2>3 DEF NextStreak, StreakLimit
  <2>5. acc[u].streak <= fails[u]
    BY <1>1 DEF CalmInv, StreakTrue, NoteError
  <2>6. QED BY <2>3, <2>4, <2>5 DEF StreakLimit
<1>2. CalmInv /\ [Next]_vars =>
        [\A t \in Threads, u \in Uids, m \in Models :
           NoteError(t, u, m, "quota") /\ acc[u].auto = "" /\ acc'[u].auto # ""
             => fails[u] >= StreakLimit - 1]_vars
  BY <1>1
<1>3. Init => CalmInv
  BY InitCalm
<1>4. QED BY <1>2, <1>3, NextCalm, PTL DEF Spec, QuotaNeedsTwo
=============================================================================
