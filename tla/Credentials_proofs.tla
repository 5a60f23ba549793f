------------------------- MODULE Credentials_proofs -------------------------
(* Theorems about Credentials for every value of its constants. *)
EXTENDS Credentials, TLAPS

MaybeToken == Tokens \cup {None}

LEMMA CredentialExcept ==
  ASSUME NEW S, NEW V, NEW f \in [S -> V], NEW x, NEW v, x \in S => v \in V
  PROVE  [f EXCEPT ![x] = v] \in [S -> V]
  OBVIOUS

(***************************************************************************)
(* What a goroutine holds at each point of its work.                       *)
(***************************************************************************)
LEMMA JobFields ==
  ASSUME NEW j \in Jobs
  PROVE  /\ j.pc \in {"asked", "enter", "wait", "save"} =>
              j.store \in Stores /\ j.force \in BOOLEAN /\ j.same \in BOOLEAN
         /\ j.pc \in {"wait", "save"} => j.from \in Tokens
         /\ j.pc = "archive" => j.from \in Tokens /\ j.next \in MaybeToken
         /\ j.pc = "install" => j.next \in Tokens
         /\ j.pc = "open" => j.seen \in [Uids -> Paths \cup {None}]
         /\ j.pc = "clear" => j.uid \in Uids \cup {None}
         /\ j.pc \in {"delete", "forget"} => j.uid \in Uids
  BY DEF Jobs, Idle, MaybeToken

LEMMA IdleType == Idle \in Jobs
  BY DEF Jobs

LEMMA RefreshType ==
  ASSUME NEW pc \in {"asked", "enter"}, NEW s \in Stores, NEW force \in BOOLEAN
  PROVE  Refresh(pc, s, force) \in Jobs
  BY DEF Refresh, Jobs

LEMMA PanelJobTypes ==
  /\ \A t \in Tokens, n \in MaybeToken :
       [pc |-> "archive", from |-> t, next |-> n] \in Jobs
  /\ \A n \in Tokens : [pc |-> "install", next |-> n] \in Jobs
  /\ [pc |-> "list"] \in Jobs
  /\ \A f \in [Uids -> Paths \cup {None}] : [pc |-> "open", seen |-> f] \in Jobs
  /\ \A u \in Uids \cup {None} : [pc |-> "clear", uid |-> u] \in Jobs
  /\ \A u \in Uids, pc \in {"delete", "forget"} : [pc |-> pc, uid |-> u] \in Jobs
<1>1. \A t \in Tokens, n \in MaybeToken :
        [pc |-> "archive", from |-> t, next |-> n] \in Jobs
  BY DEF Jobs, MaybeToken
<1>2. \A n \in Tokens : [pc |-> "install", next |-> n] \in Jobs
  BY DEF Jobs
<1>3. [pc |-> "list"] \in Jobs
  BY DEF Jobs
<1>4. \A f \in [Uids -> Paths \cup {None}] : [pc |-> "open", seen |-> f] \in Jobs
  BY DEF Jobs
<1>5. \A u \in Uids \cup {None} : [pc |-> "clear", uid |-> u] \in Jobs
  BY DEF Jobs
<1>6. \A u \in Uids, pc \in {"delete", "forget"} : [pc |-> pc, uid |-> u] \in Jobs
  BY DEF Jobs
<1>7. QED BY <1>1, <1>2, <1>3, <1>4, <1>5, <1>6

LEMMA GotoType ==
  ASSUME job \in [Threads -> Jobs], NEW g, NEW j \in Jobs, Goto(g, j)
  PROVE  job' \in [Threads -> Jobs]
  BY CredentialExcept DEF Goto

LEMMA ReplacedType ==
  ASSUME job \in [Threads -> Jobs], NEW s
  PROVE  Replaced(s) \in [Threads -> Jobs]
<1> SUFFICES ASSUME NEW g \in Threads, Refreshing(g), job[g].store = s
             PROVE  [job[g] EXCEPT !.same = FALSE] \in Jobs
  BY DEF Replaced
<1>1. job[g] \in [pc: {"wait", "save"}, store: Stores, force: BOOLEAN,
                  from: Tokens, same: BOOLEAN]
  BY DEF Refreshing, Jobs, Idle
<1>2. [job[g] EXCEPT !.same = FALSE]
        \in [pc: {"wait", "save"}, store: Stores, force: BOOLEAN,
             from: Tokens, same: BOOLEAN]
  BY <1>1
<1>3. QED BY <1>2 DEF Jobs

LEMMA BudgetType ==
  ASSUME budget \in [Events -> Nat], NEW e, Spend(e)
  PROVE  budget' \in [Events -> Nat]
<1>1. e \in Events => budget[e] - 1 \in Nat
  BY DEF Spend
<1>2. QED BY <1>1, CredentialExcept DEF Spend

LEMMA NewestType ==
  ASSUME issued \in [Uids -> Nat], NEW u \in Uids
  PROVE  /\ Newest(u) \in Tokens /\ Newest(u).uid = u
         /\ issued[u] + 1 \in Nat
         /\ Issue(u) => issued' \in [Uids -> Nat]
<1>1. issued[u] + 1 \in Nat
  OBVIOUS
<1>2. QED BY <1>1, CredentialExcept DEF Newest, Tokens, Issue

LEMMA TearingType ==
  ASSUME torn \in BOOLEAN, NEW p, NEW t, Tearing(p, t)
  PROVE  torn' \in BOOLEAN
  BY DEF Tearing

LEMMA SaveType ==
  ASSUME TypeOK, NEW s \in Stores, NEW t \in Tokens, Save(s, t)
  PROVE  /\ file' \in [Paths -> MaybeToken]
         /\ mem' \in [Stores -> MaybeToken]
         /\ torn' \in BOOLEAN
  BY CredentialExcept, TearingType DEF Save, TypeOK, MaybeToken

LEMMA PanelSaveType ==
  ASSUME TypeOK, NEW g \in Threads, NEW t \in Tokens, NEW j \in Jobs,
         PanelSave(g, t, j)
  PROVE  /\ file' \in [Paths -> MaybeToken]
         /\ mem' \in [Stores -> MaybeToken]
         /\ torn' \in BOOLEAN
         /\ job' \in [Threads -> Jobs]
         /\ owner' \in Uids \cup {None}
<1>1. Panel \in Stores
  BY DEF Stores
<1>2. Replaced(Panel) \in [Threads -> Jobs]
  BY ReplacedType DEF TypeOK
<1>3. job' \in [Threads -> Jobs]
  BY <1>2, CredentialExcept DEF PanelSave
<1>4. QED BY <1>1, <1>3, SaveType DEF PanelSave, Tokens

LEMMA AfterType ==
  ASSUME TypeOK, NEW g \in Threads, job[g].pc \in {"asked", "enter", "wait", "save"}
  PROVE  After(g) \in Jobs
  BY JobFields, IdleType, RefreshType DEF After, TypeOK

(***************************************************************************)
(* The type invariant.                                                     *)
(***************************************************************************)
LEMMA PoolFields ==
  /\ \A s \in Pool : s[1] \in Epochs /\ s[2] \in Uids
  /\ \A s \in Stores : s # Panel => s \in Pool
  /\ Uids \subseteq Paths /\ Main \in Paths
  BY DEF Pool, Stores, Paths

LEMMA LoadsType == 0 \in Epochs /\ (\A e \in Epochs : e < Loads => e + 1 \in Epochs)
  BY BoundAssumption DEF Epochs

LEMMA InitTyped == Init => TypeOK
<1> SUFFICES ASSUME Init PROVE TypeOK
  OBVIOUS
<1>1. PICK archived \in SUBSET Uids, current \in Uids \cup {None} :
        /\ file = [p \in Paths |->
                     IF p \in archived THEN First(p)
                     ELSE IF p = Main /\ current # None THEN First(current)
                     ELSE None]
        /\ members = archived \cup ({current} \ {None})
        /\ path = [s \in Pool |-> IF s[2] = current THEN Main ELSE s[2]]
        /\ mem = [s \in Stores |->
                    IF s = Panel THEN file[Main]
                    ELSE IF s[1] = 0 /\ s[2] \in members THEN First(s[2])
                    ELSE None]
        /\ owner = current
  BY DEF Init
<1>2. \A u \in Uids : First(u) \in Tokens
  BY DEF First, Tokens
<1>3. file \in [Paths -> MaybeToken]
  BY <1>1, <1>2 DEF MaybeToken
<1>4. members \subseteq Uids /\ owner \in Uids \cup {None}
  BY <1>1
<1>5. path \in [Pool -> Paths]
  BY <1>1, PoolFields
<1>6. mem \in [Stores -> MaybeToken]
  <2>1. file[Main] \in MaybeToken
    BY <1>3, PoolFields
  <2>2. \A s \in Stores : s # Panel => s[2] \in Uids
    BY PoolFields
  <2>3. QED BY <1>1, <1>2, <2>1, <2>2 DEF MaybeToken
<1>7. job \in [Threads -> Jobs]
  BY IdleType DEF Init
<1>8. QED
  BY <1>3, <1>4, <1>5, <1>6, <1>7, LoadsType, BoundAssumption
  DEF Init, TypeOK, MaybeToken

\* An action that moves one goroutine and may spend an event.
LEMMA MoveType ==
  ASSUME TypeOK, NEW g \in Threads, NEW j \in Jobs, Goto(g, j),
         UNCHANGED <<disk, pool, world, hist>>,
         budget' = budget \/ \E e \in Events : Spend(e)
  PROVE  TypeOK'
<1>1. job' \in [Threads -> Jobs]
  BY GotoType DEF TypeOK
<1>2. budget' \in [Events -> Nat]
  BY BudgetType DEF TypeOK
<1>3. QED BY <1>1, <1>2 DEF TypeOK, disk, pool, world, hist

LEMMA ListedType ==
  ASSUME TypeOK PROVE Listed \in [Uids -> Paths \cup {None}]
  BY PoolFields DEF Listed, ActiveOnDisk

LEMMA PanelUidType ==
  ASSUME TypeOK PROVE PanelUid \in Uids \cup {None}
<1>1. mem[Panel] \in MaybeToken
  BY DEF TypeOK, Stores, MaybeToken
<1>2. QED BY <1>1 DEF PanelUid, MaybeToken, Tokens

LEMMA HandlersType ==
  ASSUME TypeOK, NEW g \in Threads, Handlers(g)
  PROVE  TypeOK'
<1> USE DEF Events
<1>1. CASE \E s \in Live : Use(g, s)
  <2>1. PICK s \in Live : Use(g, s)
    BY <1>1
  <2>2. s \in Stores
    BY DEF Live, Stores, Pool, TypeOK
  <2>3. Refresh(IF mem[s] \in expired THEN "enter" ELSE "asked", s, FALSE) \in Jobs
    BY <2>2, RefreshType
  <2>4. QED BY <2>1, <2>3, MoveType DEF Use
<1>2. CASE Heal(g)
  <2>1. mem[Panel] \in Tokens
    BY <1>2 DEF Heal, TypeOK, Stores
  <2>2. QED BY <1>2, <2>1, PanelJobTypes, MoveType DEF Heal, MaybeToken
<1>3. CASE Reload(g)
  BY <1>3, PanelJobTypes, MoveType DEF Reload
<1>4. CASE Logout(g)
  BY <1>4, PanelUidType, PanelJobTypes, MoveType DEF Logout
<1>5. ASSUME NEW u \in Uids, Login(g, u) PROVE TypeOK'
  <2>1. /\ Newest(u) \in Tokens /\ issued[u] + 1 \in Nat
        /\ issued' \in [Uids -> Nat]
    BY <1>5, NewestType DEF Login, TypeOK
  <2> DEFINE j == [pc |-> "archive", from |-> Newest(u), next |-> None]
  <2>2. j \in Jobs
    BY <2>1, PanelJobTypes DEF MaybeToken
  <2>3. PanelSave(g, Newest(u), j)
    BY <1>5 DEF Login
  <2> HIDE DEF j
  <2>4. kept' \in [Uids -> Nat]
    BY <1>5, <2>1, CredentialExcept DEF Login, TypeOK
  <2>5. budget' \in [Events -> Nat]
    BY <1>5, BudgetType DEF Login, TypeOK
  <2>6. QED
    BY <1>5, <2>1, <2>2, <2>3, <2>4, <2>5, PanelSaveType
    DEF Login, TypeOK, MaybeToken, pool
<1>6. ASSUME NEW u \in Uids, Activate(g, u) PROVE TypeOK'
  <2>1. file[u] \in Tokens /\ mem[Panel] \in MaybeToken
    BY <1>6, PoolFields DEF Activate, TypeOK, Stores, MaybeToken
  <2>2. (IF mem[Panel] = None THEN [pc |-> "install", next |-> file[u]]
         ELSE [pc |-> "archive", from |-> mem[Panel], next |-> file[u]]) \in Jobs
    BY <2>1, PanelJobTypes DEF MaybeToken
  <2>3. QED BY <1>6, <2>2, MoveType DEF Activate
<1>7. ASSUME NEW u \in Uids, Remove(g, u) PROVE TypeOK'
  BY <1>7, PanelJobTypes, MoveType DEF Remove
<1>8. QED BY <1>1, <1>2, <1>3, <1>4, <1>5, <1>6, <1>7 DEF Handlers

LEMMA StepType ==
  ASSUME TypeOK, NEW g \in Threads, Step(g)
  PROVE  TypeOK'
<1>0. job[g] \in Jobs
  BY DEF TypeOK
<1>1. CASE Served(g)
  BY <1>1, IdleType, MoveType DEF Served
<1>2. CASE Look(g)
  <2> DEFINE s == job[g].store
  <2>1. /\ s \in Stores /\ job[g].force \in BOOLEAN /\ After(g) \in Jobs
    BY <1>0, <1>2, JobFields, AfterType DEF Look
  <2>2. job[g] \in [pc: {"asked", "enter"}, store: Stores, force: BOOLEAN,
                    from: {None}, same: BOOLEAN]
    BY <1>0, <1>2 DEF Look, Jobs, Idle
  <2>3. ASSUME mem[s] \in Tokens
        PROVE  [job[g] EXCEPT !.pc = "wait", !.from = mem[s], !.same = TRUE] \in Jobs
    <3>1. [job[g] EXCEPT !.pc = "wait", !.from = mem[s], !.same = TRUE]
            \in [pc: {"wait", "save"}, store: Stores, force: BOOLEAN,
                 from: Tokens, same: BOOLEAN]
      BY <2>2, <2>3
    <3>2. QED BY <3>1 DEF Jobs
  <2>4. Needed(s, job[g].force) => mem[s] \in Tokens
    BY <2>1 DEF Needed, TypeOK
  <2>5. (IF Needed(s, job[g].force)
         THEN [job[g] EXCEPT !.pc = "wait", !.from = mem[s], !.same = TRUE]
         ELSE After(g)) \in Jobs
    BY <2>1, <2>3, <2>4
  <2>6. QED BY <1>2, <2>5, MoveType DEF Look
<1>3. CASE Renewed(g)
  <2> DEFINE u == job[g].from.uid
  <2>1. job[g].from \in Tokens /\ job[g].store \in Stores
        /\ job[g].force \in BOOLEAN /\ job[g].same \in BOOLEAN
    BY <1>0, <1>3, JobFields DEF Renewed
  <2>2. u \in Uids
    BY <2>1 DEF Tokens
  <2>3. Newest(u) \in Tokens /\ issued' \in [Uids -> Nat]
    BY <1>3, <2>2, NewestType DEF Renewed, TypeOK
  <2>4. job[g] \in [pc: {"wait", "save"}, store: Stores, force: BOOLEAN,
                    from: Tokens, same: BOOLEAN]
    BY <1>0, <1>3 DEF Renewed, Jobs, Idle
  <2>5. [job[g] EXCEPT !.pc = "save", !.from = Newest(u)] \in Jobs
    <3>1. [job[g] EXCEPT !.pc = "save", !.from = Newest(u)]
            \in [pc: {"wait", "save"}, store: Stores, force: BOOLEAN,
                 from: Tokens, same: BOOLEAN]
      BY <2>3, <2>4
    <3>2. QED BY <3>1 DEF Jobs
  <2>6. job' \in [Threads -> Jobs]
    BY <1>3, <2>5, GotoType DEF Renewed, TypeOK
  <2>7. QED BY <1>3, <2>3, <2>6 DEF Renewed, TypeOK, disk, pool, hist
<1>4. CASE NotRenewed(g)
  BY <1>4, AfterType, MoveType DEF NotRenewed
<1>5. CASE Keep(g)
  <2> DEFINE s == job[g].store
             t == job[g].from
  <2>1. s \in Stores /\ t \in Tokens /\ After(g) \in Jobs
    BY <1>0, <1>5, JobFields, AfterType DEF Keep
  <2>2. job' \in [Threads -> Jobs]
    BY <1>5, <2>1, GotoType DEF Keep, TypeOK
  <2>3. CASE Same(g)
    <3>1. t.gen \in Nat
      BY <2>1 DEF Tokens
    <3>2. Save(s, t) /\ kept' = [kept EXCEPT ![t.uid] = t.gen]
      BY <1>5, <2>3 DEF Keep
    <3>3. kept' \in [Uids -> Nat]
      BY <3>1, <3>2, CredentialExcept DEF TypeOK
    <3>4. QED
      BY <1>5, <2>1, <2>2, <3>2, <3>3, SaveType DEF Keep, TypeOK, MaybeToken, pool, world
  <2>4. CASE ~Same(g)
    BY <1>5, <2>2, <2>4 DEF Keep, TypeOK, pool, world
  <2>5. QED BY <2>3, <2>4
<1>6. CASE Archive(g)
  <2> DEFINE n == job[g].next
  <2>1. job[g].from \in Tokens /\ n \in MaybeToken
    BY <1>0, <1>6, JobFields DEF Archive
  <2>2. (IF n = None THEN Idle ELSE [pc |-> "install", next |-> n]) \in Jobs
    BY <2>1, IdleType, PanelJobTypes DEF MaybeToken
  <2>3. job' \in [Threads -> Jobs]
    BY <1>6, <2>2, GotoType DEF Archive, TypeOK
  <2>4. file' \in [Paths -> MaybeToken]
    BY <1>6, <2>1, CredentialExcept DEF Archive, TypeOK, MaybeToken
  <2>5. QED BY <1>6, <2>3, <2>4 DEF Archive, TypeOK, MaybeToken, pool, world, hist
<1>7. CASE Install(g)
  <2>1. job[g].next \in Tokens /\ [pc |-> "list"] \in Jobs
    BY <1>0, <1>7, JobFields, PanelJobTypes DEF Install
  <2>2. PanelSave(g, job[g].next, [pc |-> "list"])
    BY <1>7 DEF Install
  <2>3. QED
    BY <1>7, <2>1, <2>2, PanelSaveType DEF Install, TypeOK, MaybeToken, pool, world
<1>8. CASE List(g)
  BY <1>8, ListedType, PanelJobTypes, MoveType DEF List
<1>9. CASE Open(g)
  <2> DEFINE seen == job[g].seen
  <2>1. seen \in [Uids -> Paths \cup {None}]
    BY <1>0, <1>9, JobFields DEF Open
  <2>2. job' \in [Threads -> Jobs]
    BY <1>9, IdleType, GotoType DEF Open, TypeOK
  <2>3. epoch' \in Epochs
    BY <1>9, LoadsType DEF Open, TypeOK
  <2>4. members' \subseteq Uids /\ \A u \in members' : seen[u] \in Paths
    BY <1>9, <2>1 DEF Open
  <2>5. path' \in [Pool -> Paths]
    BY <1>9, <2>4 DEF Open, TypeOK
  <2>6. \A u \in members' : file[seen[u]] \in MaybeToken
    BY <2>4 DEF TypeOK, MaybeToken
  <2>7. mem' \in [Stores -> MaybeToken]
    BY <1>9, <2>6 DEF Open, TypeOK, MaybeToken
  <2>8. QED
    BY <1>9, <2>2, <2>3, <2>4, <2>5, <2>7 DEF Open, TypeOK, MaybeToken, world, hist
<1>10. CASE Clear(g)
  <2> DEFINE u == job[g].uid
  <2>1. u \in Uids \cup {None}
    BY <1>0, <1>10, JobFields DEF Clear
  <2>2. (IF u = None THEN Idle ELSE [pc |-> "forget", uid |-> u]) \in Jobs
    BY <2>1, IdleType, PanelJobTypes
  <2>3. Replaced(Panel) \in [Threads -> Jobs]
    BY ReplacedType DEF TypeOK
  <2>4. job' \in [Threads -> Jobs]
    BY <1>10, <2>2, <2>3, CredentialExcept DEF Clear
  <2>5. file' \in [Paths -> MaybeToken] /\ mem' \in [Stores -> MaybeToken]
    BY <1>10, CredentialExcept DEF Clear, TypeOK, MaybeToken
  <2>6. QED BY <1>10, <2>4, <2>5 DEF Clear, TypeOK, MaybeToken, pool, world
<1>11. CASE Delete(g)
  <2>1. job[g].uid \in Uids
    BY <1>0, <1>11, JobFields DEF Delete
  <2>2. job' \in [Threads -> Jobs]
    BY <1>11, <2>1, PanelJobTypes, GotoType DEF Delete, TypeOK
  <2>3. file' \in [Paths -> MaybeToken]
    BY <1>11, CredentialExcept DEF Delete, TypeOK, MaybeToken
  <2>4. QED BY <1>11, <2>2, <2>3 DEF Delete, TypeOK, MaybeToken, pool, world, hist
<1>12. CASE Forget(g)
  <2>1. job' \in [Threads -> Jobs]
    BY <1>12, IdleType, GotoType DEF Forget, TypeOK
  <2>2. QED BY <1>12, <2>1 DEF Forget, TypeOK, disk, world, hist
<1>13. QED
  BY <1>1, <1>2, <1>3, <1>4, <1>5, <1>6, <1>7, <1>8, <1>9, <1>10, <1>11, <1>12
  DEF Step

LEMMA NextTyped == TypeOK /\ [Next]_vars => TypeOK'
<1> SUFFICES ASSUME TypeOK, [Next]_vars PROVE TypeOK'
  OBVIOUS
<1>1. ASSUME NEW g \in Threads, Handlers(g) \/ Step(g) PROVE TypeOK'
  BY <1>1, HandlersType, StepType
<1>2. ASSUME NEW g \in Threads, Unauthorized(g) PROVE TypeOK'
  <2>1. job[g].store \in Stores
    BY <1>2, JobFields DEF Unauthorized, TypeOK
  <2>2. (IF mem[job[g].store] = None THEN Idle
         ELSE Refresh("enter", job[g].store, TRUE)) \in Jobs
    BY <2>1, IdleType, RefreshType
  <2>3. QED BY <1>2, <2>2, MoveType DEF Unauthorized, Events
<1>3. ASSUME NEW u \in Uids, Import(u) PROVE TypeOK'
  <2>1. /\ Newest(u) \in Tokens /\ issued[u] + 1 \in Nat
        /\ issued' \in [Uids -> Nat]
    BY <1>3, NewestType DEF Import, TypeOK
  <2>2. kept' \in [Uids -> Nat] /\ file' \in [Paths -> MaybeToken]
    BY <1>3, <2>1, CredentialExcept DEF Import, TypeOK, MaybeToken
  <2>3. budget' \in [Events -> Nat]
    BY <1>3, BudgetType DEF Import, TypeOK
  <2>4. QED BY <1>3, <2>1, <2>2, <2>3 DEF Import, TypeOK, MaybeToken, pool
<1>4. ASSUME NEW s \in Live, mem[s] # None, Expire(mem[s]) PROVE TypeOK'
  <2>1. mem[s] \in Tokens
    BY <1>4 DEF Live, Stores, Pool, TypeOK
  <2>2. budget' \in [Events -> Nat]
    BY <1>4, BudgetType DEF Expire, TypeOK
  <2>3. QED BY <1>4, <2>1, <2>2 DEF Expire, TypeOK, disk, pool, hist
<1>5. CASE UNCHANGED vars
  BY <1>5 DEF vars, TypeOK, disk, pool, world, hist
<1>6. QED BY <1>1, <1>2, <1>3, <1>4, <1>5 DEF Next

(* Every file, memory and goroutine keeps its type, for any accounts, any    *)
(* number of goroutines and any bounds.                                      *)
THEOREM CredentialsTyped == Spec => []TypeOK
<1>1. Init => TypeOK
  BY InitTyped
<1>2. TypeOK /\ [Next]_vars => TypeOK'
  BY NextTyped
<1>3. QED BY <1>1, <1>2, PTL DEF Spec

(***************************************************************************)
(* The panel's store follows the user.                                     *)
(***************************************************************************)
\* A refresh of the panel's store that would still be kept is one of the
\* account the store holds: every login, switch and logout marks the others.
PanelRefreshes ==
  \A g \in Threads :
    Refreshing(g) /\ job[g].store = Panel /\ job[g].same
      => mem[Panel] # None /\ mem[Panel].uid = job[g].from.uid

Follows == TypeOK /\ PanelFollowsUser /\ PanelRefreshes

LEMMA InitFollows == Init => PanelFollowsUser /\ PanelRefreshes
<1> SUFFICES ASSUME Init PROVE PanelFollowsUser /\ PanelRefreshes
  OBVIOUS
<1>1. PICK archived \in SUBSET Uids, current \in Uids \cup {None} :
        /\ file = [p \in Paths |->
                     IF p \in archived THEN First(p)
                     ELSE IF p = Main /\ current # None THEN First(current)
                     ELSE None]
        /\ members = archived \cup ({current} \ {None})
        /\ path = [s \in Pool |-> IF s[2] = current THEN Main ELSE s[2]]
        /\ mem = [s \in Stores |->
                    IF s = Panel THEN file[Main]
                    ELSE IF s[1] = 0 /\ s[2] \in members THEN First(s[2])
                    ELSE None]
        /\ owner = current
  BY DEF Init
<1>2. mem[Panel] = file[Main]
  BY <1>1 DEF Stores
<1>3. file[Main] = IF current # None THEN First(current) ELSE None
  BY <1>1, MainAssumption DEF Paths
<1>4. \A u \in Uids : First(u) # None /\ First(u).uid = u
  BY NoneAssumption DEF First, Tokens
<1>5. PanelFollowsUser
  BY <1>1, <1>2, <1>3, <1>4 DEF PanelFollowsUser, PanelUid
<1>6. PanelRefreshes
  BY DEF Init, PanelRefreshes, Refreshing, Idle
<1>7. QED BY <1>5, <1>6

\* A goroutine that moves on leaves the others' refreshes as they were.
LEMMA MovePanel ==
  ASSUME TypeOK, PanelRefreshes, NEW g \in Threads, NEW j, Goto(g, j),
         mem'[Panel] = mem[Panel],
         j.pc \in {"wait", "save"} /\ j.store = Panel /\ j.same
           => mem[Panel] # None /\ mem[Panel].uid = j.from.uid
  PROVE  PanelRefreshes'
<1>1. \A h \in Threads : job'[h] = IF h = g THEN j ELSE job[h]
  BY DEF Goto, TypeOK
<1>2. QED BY <1>1 DEF PanelRefreshes, Refreshing

\* The user's own steps mark every refresh of the panel's store that waits.
LEMMA ReplacedPanel ==
  ASSUME TypeOK, NEW g \in Threads, NEW j, j.pc \notin {"wait", "save"},
         job' = [Replaced(Panel) EXCEPT ![g] = j]
  PROVE  PanelRefreshes'
<1> SUFFICES ASSUME NEW h \in Threads, Refreshing(h)', job'[h].store = Panel
             PROVE  job'[h].same = FALSE
  BY DEF PanelRefreshes
<1>1. h # g /\ job'[h] = Replaced(Panel)[h]
  BY DEF Refreshing, Replaced
<1>2. CASE Refreshing(h) /\ job[h].store = Panel
  <2>1. job[h] \in [pc: {"wait", "save"}, store: Stores, force: BOOLEAN,
                    from: Tokens, same: BOOLEAN]
    BY <1>2 DEF TypeOK, Refreshing, Jobs, Idle
  <2>2. [job[h] EXCEPT !.same = FALSE].same = FALSE
    BY <2>1
  <2>3. QED BY <1>1, <1>2, <2>2 DEF Replaced
<1>3. CASE ~(Refreshing(h) /\ job[h].store = Panel)
  BY <1>1, <1>3 DEF Replaced, Refreshing
<1>4. QED BY <1>2, <1>3

LEMMA PanelSaveFollows ==
  ASSUME TypeOK, NEW g \in Threads, NEW t \in Tokens, NEW j,
         j.pc \notin {"wait", "save"}, PanelSave(g, t, j)
  PROVE  PanelFollowsUser' /\ PanelRefreshes'
<1>1. PanelRefreshes'
  BY ReplacedPanel DEF PanelSave
<1>2. mem'[Panel] = t /\ owner' = t.uid
  BY DEF PanelSave, Save, TypeOK, Stores
<1>3. QED BY <1>1, <1>2, NoneAssumption DEF PanelFollowsUser, PanelUid

\* A step that leaves the panel's memory and the user's choice alone.
LEMMA UntouchedPanel ==
  ASSUME PanelFollowsUser, mem'[Panel] = mem[Panel], owner' = owner
  PROVE  PanelFollowsUser'
  BY DEF PanelFollowsUser, PanelUid

LEMMA HandlersFollow ==
  ASSUME Follows, NEW g \in Threads, Handlers(g)
  PROVE  PanelFollowsUser' /\ PanelRefreshes'
<1> USE DEF Follows
<1>1. ASSUME NEW j, j.pc \notin {"wait", "save"}, Goto(g, j),
             UNCHANGED <<disk, hist>>
      PROVE  PanelFollowsUser' /\ PanelRefreshes'
  BY <1>1, MovePanel, UntouchedPanel DEF disk, hist
<1>2. ASSUME NEW s \in Live, Use(g, s)
      PROVE  PanelFollowsUser' /\ PanelRefreshes'
  <2>1. Refresh(IF mem[s] \in expired THEN "enter" ELSE "asked", s, FALSE).pc
          \notin {"wait", "save"}
    BY DEF Refresh
  <2>2. QED BY <1>1, <1>2, <2>1 DEF Use
<1>3. CASE Heal(g)
  BY <1>1, <1>3 DEF Heal
<1>4. CASE Reload(g)
  BY <1>1, <1>4 DEF Reload
<1>5. CASE Logout(g)
  BY <1>1, <1>5 DEF Logout
<1>6. ASSUME NEW u \in Uids, Login(g, u)
      PROVE  PanelFollowsUser' /\ PanelRefreshes'
  <2>1. Newest(u) \in Tokens
    BY NewestType DEF TypeOK
  <2>2. QED BY <1>6, <2>1, PanelSaveFollows DEF Login
<1>7. ASSUME NEW u \in Uids, Activate(g, u)
      PROVE  PanelFollowsUser' /\ PanelRefreshes'
  <2> DEFINE j == IF mem[Panel] = None
                  THEN [pc |-> "install", next |-> file[u]]
                  ELSE [pc |-> "archive", from |-> mem[Panel], next |-> file[u]]
  <2>1. j.pc \notin {"wait", "save"}
    OBVIOUS
  <2>2. Goto(g, j) /\ UNCHANGED <<disk, hist>>
    BY <1>7 DEF Activate
  <2>3. QED BY <1>1, <2>1, <2>2
<1>8. ASSUME NEW u \in Uids, Remove(g, u)
      PROVE  PanelFollowsUser' /\ PanelRefreshes'
  BY <1>1, <1>8 DEF Remove
<1>9. QED BY <1>2, <1>3, <1>4, <1>5, <1>6, <1>7, <1>8 DEF Handlers

LEMMA StepFollows ==
  ASSUME Follows, NEW g \in Threads, Step(g)
  PROVE  PanelFollowsUser' /\ PanelRefreshes'
<1> USE DEF Follows
<1>0. job[g] \in Jobs
  BY DEF TypeOK
<1>1. ASSUME NEW j, j.pc \notin {"wait", "save"}, Goto(g, j),
             mem'[Panel] = mem[Panel], owner' = owner
      PROVE  PanelFollowsUser' /\ PanelRefreshes'
  BY <1>1, MovePanel, UntouchedPanel
<1>2. Idle.pc \notin {"wait", "save"} /\ After(g).pc \notin {"wait", "save"}
  BY DEF Idle, After, Refresh
<1>3. CASE Served(g)
  BY <1>1, <1>2, <1>3 DEF Served, disk, hist
<1>4. CASE Look(g)
  <2> DEFINE s == job[g].store
             w == [job[g] EXCEPT !.pc = "wait", !.from = mem[s], !.same = TRUE]
  <2>1. mem' = mem /\ owner' = owner
    BY <1>4 DEF Look, disk, hist
  <2>2. CASE Needed(s, job[g].force)
    <3>1. job[g] \in [pc: {"asked", "enter"}, store: Stores, force: BOOLEAN,
                      from: {None}, same: BOOLEAN]
      BY <1>0, <1>4 DEF Look, Jobs, Idle
    <3>2. w.store = s /\ w.from = mem[s]
      BY <3>1
    <3>3. mem[s] # None /\ Goto(g, w)
      BY <1>4, <2>2 DEF Look, Needed
    <3> HIDE DEF w
    <3>4. PanelRefreshes'
      BY <2>1, <3>2, <3>3, MovePanel
    <3>5. QED BY <2>1, <3>4, UntouchedPanel
  <2>3. CASE ~Needed(s, job[g].force)
    BY <1>1, <1>2, <1>4, <2>1, <2>3 DEF Look
  <2>4. QED BY <2>2, <2>3
<1>5. CASE Renewed(g)
  <2> DEFINE t == Newest(job[g].from.uid)
             w == [job[g] EXCEPT !.pc = "save", !.from = t]
  <2>1. job[g] \in [pc: {"wait", "save"}, store: Stores, force: BOOLEAN,
                    from: Tokens, same: BOOLEAN]
    BY <1>0, <1>5 DEF Renewed, Jobs, Idle
  <2>2. /\ w.store = job[g].store /\ w.same = job[g].same /\ w.from = t
        /\ t.uid = job[g].from.uid
    BY <2>1 DEF Newest
  <2>3. Goto(g, w) /\ mem' = mem /\ owner' = owner
    BY <1>5 DEF Renewed, disk, hist
  <2>4. w.store = Panel /\ w.same => mem[Panel] # None /\ mem[Panel].uid = w.from.uid
    BY <1>5, <2>2 DEF Renewed, PanelRefreshes, Refreshing
  <2> HIDE DEF w, t
  <2>5. PanelRefreshes'
    BY <2>3, <2>4, MovePanel
  <2>6. QED BY <2>3, <2>5, UntouchedPanel
<1>6. CASE NotRenewed(g)
  BY <1>1, <1>2, <1>6 DEF NotRenewed, disk, hist
<1>7. CASE Keep(g)
  <2> DEFINE s == job[g].store
             t == job[g].from
  <2>1. s \in Stores /\ t \in Tokens
    BY <1>0, <1>7, JobFields DEF Keep
  <2>2. Goto(g, After(g)) /\ owner' = owner
    BY <1>7 DEF Keep
  <2>3. CASE Same(g) /\ s = Panel
    <3>1. mem[Panel] # None /\ mem[Panel].uid = t.uid
      BY <1>7, <2>3 DEF Keep, Same, PanelRefreshes, Refreshing
    <3>2. mem'[Panel] = t
      BY <1>7, <2>1, <2>3 DEF Keep, Save, TypeOK
    <3>3. t # None
      BY <2>1, NoneAssumption
    <3>4. PanelFollowsUser'
      BY <2>2, <3>1, <3>2, <3>3 DEF PanelFollowsUser, PanelUid
    <3>5. \A h \in Threads : job'[h] = IF h = g THEN After(g) ELSE job[h]
      BY <2>2 DEF Goto, TypeOK
    <3>6. PanelRefreshes'
      BY <1>2, <3>1, <3>2, <3>3, <3>5 DEF PanelRefreshes, Refreshing
    <3>7. QED BY <3>4, <3>6
  <2>4. CASE ~(Same(g) /\ s = Panel)
    <3>1. mem'[Panel] = mem[Panel]
      BY <1>7, <2>4 DEF Keep, Save, TypeOK, Stores
    <3>2. QED BY <1>1, <1>2, <2>2, <3>1
  <2>5. QED BY <2>3, <2>4
<1>8. CASE Archive(g)
  <2> DEFINE j == IF job[g].next = None THEN Idle
                  ELSE [pc |-> "install", next |-> job[g].next]
  <2>1. j.pc \notin {"wait", "save"}
    BY <1>2
  <2>2. Goto(g, j) /\ mem' = mem /\ owner' = owner
    BY <1>8 DEF Archive, hist
  <2>3. QED BY <1>1, <2>1, <2>2
<1>9. CASE Install(g)
  <2>1. job[g].next \in Tokens
    BY <1>0, <1>9, JobFields DEF Install
  <2>2. QED BY <1>9, <2>1, PanelSaveFollows DEF Install
<1>10. CASE List(g)
  BY <1>1, <1>10 DEF List, disk, hist
<1>11. CASE Open(g)
  BY <1>1, <1>2, <1>11 DEF Open, hist, TypeOK, Stores
<1>12. CASE Clear(g)
  <2> DEFINE j == IF job[g].uid = None THEN Idle
                  ELSE [pc |-> "forget", uid |-> job[g].uid]
  <2>1. j.pc \notin {"wait", "save"}
    BY <1>2
  <2>2. PanelRefreshes'
    BY <1>12, <2>1, ReplacedPanel DEF Clear
  <2>3. mem'[Panel] = None /\ owner' = None
    BY <1>12 DEF Clear, TypeOK, Stores
  <2>4. QED BY <2>2, <2>3 DEF PanelFollowsUser, PanelUid
<1>13. CASE Delete(g)
  BY <1>1, <1>13 DEF Delete, hist
<1>14. CASE Forget(g)
  BY <1>1, <1>2, <1>14 DEF Forget, disk, hist
<1>15. QED
  BY <1>3, <1>4, <1>5, <1>6, <1>7, <1>8, <1>9, <1>10, <1>11, <1>12, <1>13, <1>14
  DEF Step

LEMMA NextFollows == Follows /\ [Next]_vars => Follows'
<1> SUFFICES ASSUME Follows, [Next]_vars PROVE PanelFollowsUser' /\ PanelRefreshes'
  BY NextTyped DEF Follows
<1> USE DEF Follows
<1>1. ASSUME NEW g \in Threads, Handlers(g) \/ Step(g)
      PROVE  PanelFollowsUser' /\ PanelRefreshes'
  BY <1>1, HandlersFollow, StepFollows
<1>2. ASSUME NEW g \in Threads, Unauthorized(g)
      PROVE  PanelFollowsUser' /\ PanelRefreshes'
  <2> DEFINE j == IF mem[job[g].store] = None THEN Idle
                  ELSE Refresh("enter", job[g].store, TRUE)
  <2>1. j.pc \notin {"wait", "save"}
    BY DEF Idle, Refresh
  <2>2. Goto(g, j) /\ mem' = mem /\ owner' = owner
    BY <1>2 DEF Unauthorized, disk, hist
  <2> HIDE DEF j
  <2>3. QED BY <2>1, <2>2, MovePanel, UntouchedPanel
<1>3. ASSUME UNCHANGED <<mem, job, owner>>
      PROVE  PanelFollowsUser' /\ PanelRefreshes'
  BY <1>3 DEF PanelFollowsUser, PanelUid, PanelRefreshes, Refreshing
<1>4. ASSUME NEW u \in Uids, Import(u)
      PROVE  PanelFollowsUser' /\ PanelRefreshes'
  BY <1>3, <1>4 DEF Import
<1>5. ASSUME NEW s \in Live, Expire(mem[s])
      PROVE  PanelFollowsUser' /\ PanelRefreshes'
  BY <1>3, <1>5 DEF Expire, disk, hist
<1>6. CASE UNCHANGED vars
  BY <1>3, <1>6 DEF vars, disk, hist
<1>7. QED BY <1>1, <1>2, <1>4, <1>5, <1>6 DEF Next

(* However many chats wait for the upstream to renew the panel's credential,  *)
(* the store holds the account of the last login or switch, and nothing after *)
(* a logout: the pointer comparison of TokenStore.refresh is enough.          *)
THEOREM PanelFollows == Spec => []PanelFollowsUser
<1>1. Init => Follows
  BY InitTyped, InitFollows DEF Follows
<1>2. Follows /\ [Next]_vars => Follows'
  BY NextFollows
<1>3. Follows => PanelFollowsUser
  BY DEF Follows
<1>4. QED BY <1>1, <1>2, <1>3, PTL DEF Spec

(***************************************************************************)
(* Stores of the pool: whose credentials they hold, and who renews them.   *)
(***************************************************************************)
Using == {"asked", "enter", "wait", "save"}

OwnFiles == \A u \in Uids : file[u] # None => file[u].uid = u

\* A store on an archive is its account's whatever happens to token.json.
Sure(s) == ~torn \/ path[s] = s[2]
OwnStore(s) ==
  /\ path[s] \in {Main, s[2]}
  /\ mem[s] # None /\ Sure(s) => mem[s].uid = s[2]

\* Nobody uses a store of a load still to come; a refresh is one of the
\* store's account, and until the memory is replaced it has a reason; the
\* list of a load names token.json for the account it holds.
Present(j) == j.pc \in Using /\ j.store # Panel => j.store[1] <= epoch
Rightful(j) ==
  j.pc \in {"wait", "save"} =>
    /\ j.store # Panel /\ Sure(j.store) => j.from.uid = j.store[2]
    /\ ~j.force /\ j.same => mem[j.store] \in expired
Reads(j) ==
  j.pc = "open" =>
    \A u \in Uids :
      /\ j.seen[u] \in {Main, u, None}
      /\ j.seen[u] = Main /\ ~torn => file[Main] # None /\ file[Main].uid = u
Fine(j) == Present(j) /\ Rightful(j) /\ Reads(j)

\* refreshMu.
OneRefresh ==
  \A g, h \in Threads :
    g # h /\ Refreshing(g) /\ Refreshing(h) => job[g].store # job[h].store

StoresInv ==
  /\ TypeOK /\ OwnFiles /\ OneRefresh
  /\ \A s \in Pool : OwnStore(s)
  /\ \A g \in Threads : Fine(job[g])

LEMMA InitStores == Init => StoresInv
<1> SUFFICES ASSUME Init PROVE StoresInv
  OBVIOUS
<1>1. PICK archived \in SUBSET Uids, current \in Uids \cup {None} :
        /\ file = [p \in Paths |->
                     IF p \in archived THEN First(p)
                     ELSE IF p = Main /\ current # None THEN First(current)
                     ELSE None]
        /\ members = archived \cup ({current} \ {None})
        /\ path = [s \in Pool |-> IF s[2] = current THEN Main ELSE s[2]]
        /\ mem = [s \in Stores |->
                    IF s = Panel THEN file[Main]
                    ELSE IF s[1] = 0 /\ s[2] \in members THEN First(s[2])
                    ELSE None]
        /\ owner = current
  BY DEF Init
<1>2. \A u : First(u).uid = u
  BY DEF First
<1>3. OwnFiles
  BY <1>1, <1>2, MainAssumption DEF OwnFiles, Paths
<1>4. ASSUME NEW s \in Pool PROVE OwnStore(s)
  <2>1. s \in Stores /\ s # Panel
    BY PanelAssumption DEF Stores
  <2>2. QED BY <1>1, <1>2, <2>1 DEF OwnStore
<1>5. \A g \in Threads : job[g].pc = "idle"
  BY DEF Init, Idle
<1>6. QED
  BY <1>3, <1>4, <1>5, InitTyped
  DEF StoresInv, OneRefresh, Refreshing, Fine, Present, Rightful, Reads, Using

\* A goroutine goes on; of the files only archives may change.
Quietly ==
  UNCHANGED <<mem, path, epoch, expired, torn>> /\ file'[Main] = file[Main] /\ OwnFiles'
Alike(j, i) == j.pc \in {"wait", "save"} => i.pc \in {"wait", "save"} /\ j.store = i.store
MayRefresh(g, j) == Alike(j, job[g]) \/ ~LockHeld(j.store)

LEMMA MoveStores ==
  ASSUME StoresInv, TypeOK', NEW g \in Threads, NEW j, Goto(g, j), Quietly, Fine(j),
         MayRefresh(g, j)
  PROVE  StoresInv'
<1>1. \A h \in Threads : job'[h] = IF h = g THEN j ELSE job[h]
  BY DEF Goto, StoresInv, TypeOK
<1>2. ASSUME NEW h \in Threads PROVE Fine(job[h])'
  <2>1. CASE h = g
    BY <1>1, <2>1 DEF Fine, Present, Rightful, Reads, Sure, Quietly
  <2>2. CASE h # g
    <3>1. Fine(job[h]) /\ job'[h] = job[h]
      BY <1>1, <2>2 DEF StoresInv
    <3>2. QED BY <3>1 DEF Fine, Present, Rightful, Reads, Sure, Quietly
  <2>3. QED BY <2>1, <2>2
<1>3. OneRefresh'
  BY <1>1 DEF OneRefresh, StoresInv, Refreshing, MayRefresh, Alike, LockHeld
<1>4. \A s \in Pool : OwnStore(s)'
  BY DEF StoresInv, OwnStore, Sure, Quietly
<1>5. QED BY <1>2, <1>3, <1>4 DEF StoresInv, Quietly

\* A login, a switch or a logout: token.json and the panel's memory.
LEMMA ReplacedStores ==
  ASSUME StoresInv, TypeOK', NEW g \in Threads, NEW j, j.pc \notin Using \cup {"open"},
         job' = [Replaced(Panel) EXCEPT ![g] = j],
         NEW x, mem' = [mem EXCEPT ![Panel] = x], file' = [file EXCEPT ![Main] = x],
         \/ x # None /\ Tearing(Main, x)
         \/ torn' = (torn \/ \E h \in Threads : job[h].pc = "open"),
         UNCHANGED <<path, epoch, expired>>
  PROVE  StoresInv'
<1>1. /\ \A s \in Pool : mem'[s] = mem[s] /\ path'[s] = path[s]
      /\ \A u \in Uids : file'[u] = file[u]
      /\ (torn => torn') /\ Main \in Paths /\ Uids \subseteq Paths
  BY PanelAssumption, MainAssumption DEF StoresInv, TypeOK, Stores, Paths, Tearing
<1>2. OwnFiles' /\ \A s \in Pool : OwnStore(s)'
  BY <1>1 DEF StoresInv, OwnFiles, OwnStore, Sure
<1>3. ASSUME NEW h \in Threads, h # g
      PROVE  \/ job'[h] = job[h] /\ ~(Refreshing(h) /\ job[h].store = Panel)
             \/ /\ job[h].pc \in {"wait", "save"} /\ job[h].store = Panel
                /\ job'[h] = [job[h] EXCEPT !.same = FALSE]
  BY <1>3 DEF Replaced, Refreshing
<1>4. ASSUME NEW h \in Threads, job[h].pc \in {"wait", "save"}
      PROVE  LET i == [job[h] EXCEPT !.same = FALSE] IN
             i.pc = job[h].pc /\ i.store = job[h].store /\ i.same = FALSE
  <2>1. job[h] \in [pc: {"wait", "save"}, store: Stores, force: BOOLEAN,
                    from: Tokens, same: BOOLEAN]
    BY <1>4 DEF StoresInv, TypeOK, Jobs, Idle
  <2>2. QED BY <2>1
<1>5. job'[g] = j
  BY DEF Replaced
<1>6. ASSUME NEW h \in Threads PROVE Fine(job[h])'
  <2>1. CASE h = g
    BY <1>5, <2>1 DEF Fine, Present, Rightful, Reads, Using
  <2>2. CASE h # g /\ Refreshing(h) /\ job[h].store = Panel
    <3>1. job'[h].pc \in {"wait", "save"} /\ job'[h].store = Panel /\ job'[h].same = FALSE
      BY <1>3, <1>4, <2>2 DEF Refreshing
    <3>2. QED BY <3>1 DEF Fine, Present, Rightful, Reads, Using
  <2>3. CASE h # g /\ ~(Refreshing(h) /\ job[h].store = Panel)
    <3>1. job'[h] = job[h] /\ Fine(job[h])
      BY <1>3, <2>3 DEF StoresInv, Refreshing
    <3>2. Present(job[h])'
      BY <3>1 DEF Fine, Present
    <3>3. Rightful(job[h])'
      <4>1. job[h].pc \in {"wait", "save"} => job[h].store \in Pool
        BY <2>3, JobFields DEF StoresInv, TypeOK, Refreshing, Stores
      <4>2. QED BY <1>1, <3>1, <4>1 DEF Fine, Rightful, Sure
    <3>4. Reads(job[h])'
      BY <1>1, <3>1 DEF Fine, Reads, Tearing, StoresInv, TypeOK
    <3>5. QED BY <3>2, <3>3, <3>4 DEF Fine
  <2>4. QED BY <2>1, <2>2, <2>3
<1>7. \A h \in Threads : Refreshing(h)' => Refreshing(h) /\ job'[h].store = job[h].store
  BY <1>3, <1>4, <1>5 DEF Refreshing, Using
<1>8. OneRefresh'
  BY <1>7 DEF StoresInv, OneRefresh
<1>9. QED BY <1>2, <1>6, <1>8 DEF StoresInv

LEMMA AfterIs ==
  ASSUME NEW g
  PROVE  /\ After(g).pc \in {"idle", "asked"}
         /\ After(g).pc = "asked" => After(g).store = job[g].store
  BY DEF After, Idle, Refresh

\* A refresh that is kept: nobody else renews this store.
LEMMA KeepStores ==
  ASSUME StoresInv, TypeOK', NEW g \in Threads, Keep(g), Same(g)
  PROVE  StoresInv'
<1> DEFINE s == job[g].store
           t == job[g].from
           p == IF s = Panel THEN Main ELSE path[s]
<1>1. /\ s \in Stores /\ t \in Tokens /\ t # None /\ Refreshing(g) /\ job[g].pc # "open"
      /\ s # Panel => s \in Pool /\ s[2] \in Uids
  BY JobFields, PoolFields, NoneAssumption DEF StoresInv, TypeOK, Keep, Refreshing
<1>2. /\ file' = [file EXCEPT ![p] = t] /\ mem' = [mem EXCEPT ![s] = t] /\ Tearing(p, t)
      /\ UNCHANGED <<path, epoch, expired>>
  BY DEF Keep, Save, pool, world
<1>3. s # Panel => OwnStore(s) /\ (Sure(s) => t.uid = s[2])
  BY <1>1 DEF StoresInv, Fine, Rightful, Refreshing
<1>4. (torn => torn') /\ Main \in Paths /\ Uids \subseteq Paths /\ p \in Paths
  BY <1>1, <1>2 DEF Tearing, StoresInv, TypeOK, Paths
<1>5. OwnFiles'
  <2>1. ASSUME NEW u \in Uids, p = u PROVE t.uid = u
    BY <1>1, <1>3, <2>1, MainAssumption DEF OwnStore, Sure
  <2>2. QED BY <1>2, <1>4, <2>1 DEF StoresInv, OwnFiles, TypeOK
<1>6. ASSUME NEW q \in Pool PROVE OwnStore(q)'
  <2>1. q \in Stores /\ q # Panel
    BY PanelAssumption DEF Stores
  <2>2. CASE q = s
    BY <1>1, <1>2, <1>3, <1>4, <2>1, <2>2 DEF OwnStore, Sure, StoresInv, TypeOK
  <2>3. CASE q # s
    BY <1>2, <1>4, <2>1, <2>3 DEF OwnStore, Sure, StoresInv, TypeOK
  <2>4. QED BY <2>2, <2>3
<1>7. \A h \in Threads : job'[h] = IF h = g THEN After(g) ELSE job[h]
  BY DEF Keep, Goto, StoresInv, TypeOK
<1>8. ASSUME NEW h \in Threads PROVE Fine(job[h])'
  <2>1. CASE h = g
    <3>1. Present(job[g])
      BY DEF StoresInv, Fine
    <3>2. QED
      BY <1>1, <1>2, <1>7, <2>1, <3>1, AfterIs
      DEF Fine, Present, Rightful, Reads, Using, Refreshing
  <2>2. CASE h # g
    <3>1. job'[h] = job[h] /\ Fine(job[h])
      BY <1>7, <2>2 DEF StoresInv
    <3>2. Present(job[h])'
      BY <1>2, <3>1 DEF Fine, Present
    <3>3. Rightful(job[h])'
      <4>1. job[h].pc \in {"wait", "save"} => job[h].store # s
        BY <1>1, <2>2 DEF StoresInv, OneRefresh, Refreshing
      <4>2. mem'[job[h].store] = mem[job[h].store] \/ job[h].store = s
        BY <1>2 DEF StoresInv, TypeOK
      <4>3. QED BY <1>2, <1>4, <3>1, <4>1, <4>2 DEF Fine, Rightful, Sure
    <3>4. Reads(job[h])'
      <4>1. job[h].pc = "open" /\ ~torn' =>
              \/ file'[Main] = file[Main]
              \/ file'[Main] = t /\ file[Main] # None /\ file[Main].uid = t.uid
        BY <1>2, <1>4 DEF Tearing, StoresInv, TypeOK
      <4>2. QED BY <1>1, <1>4, <3>1, <4>1 DEF Fine, Reads
    <3>5. QED BY <3>2, <3>3, <3>4 DEF Fine
  <2>3. QED BY <2>1, <2>2
<1>9. OneRefresh'
  BY <1>7, AfterIs DEF OneRefresh, StoresInv, Refreshing
<1>10. QED BY <1>5, <1>6, <1>8, <1>9 DEF StoresInv

\* A load makes stores that nobody uses yet.
LEMMA OpenStores ==
  ASSUME StoresInv, TypeOK', NEW g \in Threads, Open(g)
  PROVE  StoresInv'
<1> DEFINE seen == job[g].seen
<1>1. epoch \in Nat /\ epoch' = epoch + 1 /\ UNCHANGED <<file, expired, torn>>
  BY BoundAssumption DEF StoresInv, TypeOK, Epochs, Open, world, hist
<1>2. ASSUME NEW s \in Pool
      PROVE  \/ s[1] # epoch' /\ mem'[s] = mem[s] /\ path'[s] = path[s]
             \/ mem'[s] = mem[s] /\ path'[s] = path[s]
             \/ s[1] = epoch' /\ seen[s[2]] # None /\ path'[s] = seen[s[2]]
                /\ mem'[s] = file[seen[s[2]]]
  <2>1. s \in Stores /\ s # Panel
    BY PanelAssumption DEF Stores
  <2>2. QED BY <2>1 DEF Open
<1>3. Reads(job[g]) /\ job[g].pc = "open"
  BY DEF StoresInv, Fine, Open
<1>4. ASSUME NEW s \in Pool PROVE OwnStore(s)'
  <2>1. s[2] \in Uids
    BY PoolFields
  <2>2. CASE mem'[s] = mem[s] /\ path'[s] = path[s]
    BY <1>1, <2>2 DEF StoresInv, OwnStore, Sure
  <2>3. CASE seen[s[2]] # None /\ path'[s] = seen[s[2]] /\ mem'[s] = file[seen[s[2]]]
    BY <1>1, <1>3, <2>1, <2>3, MainAssumption DEF StoresInv, OwnFiles, OwnStore, Sure, Reads
  <2>4. QED BY <1>2, <2>2, <2>3
<1>5. \A h \in Threads : job'[h] = IF h = g THEN Idle ELSE job[h]
  BY DEF Open, Goto, StoresInv, TypeOK
<1>6. ASSUME NEW h \in Threads PROVE Fine(job[h])'
  <2>1. CASE h = g
    BY <1>5, <2>1 DEF Fine, Present, Rightful, Reads, Using, Idle
  <2>2. CASE h # g
    <3>1. job'[h] = job[h] /\ Fine(job[h]) /\ job[h] \in Jobs
      BY <1>5, <2>2 DEF StoresInv, TypeOK
    <3>2. Present(job[h])' /\ Reads(job[h])'
      <4>1. job[h].pc \in Using /\ job[h].store # Panel => job[h].store[1] \in Nat
        BY <3>1, JobFields, PoolFields, BoundAssumption DEF Using, Epochs
      <4>2. QED BY <1>1, <3>1, <4>1 DEF Fine, Present, Reads
    <3>3. job[h].pc \in {"wait", "save"} =>
            /\ mem'[job[h].store] = mem[job[h].store]
            /\ job[h].store # Panel => path'[job[h].store] = path[job[h].store]
      <4>1. SUFFICES ASSUME job[h].pc \in {"wait", "save"}
                     PROVE  /\ mem'[job[h].store] = mem[job[h].store]
                            /\ job[h].store # Panel => path'[job[h].store] = path[job[h].store]
        OBVIOUS
      <4>2. CASE job[h].store = Panel
        BY <4>2 DEF Open, Stores
      <4>3. CASE job[h].store # Panel
        <5>1. job[h].store \in Pool /\ job[h].store[1] <= epoch /\ job[h].store[1] \in Nat
          BY <3>1, <4>1, <4>3, JobFields, PoolFields, BoundAssumption
          DEF Fine, Present, Using, Epochs
        <5>2. QED BY <1>1, <1>2, <5>1, <4>3
      <4>4. QED BY <4>2, <4>3
    <3>4. Rightful(job[h])'
      BY <1>1, <3>1, <3>3 DEF Fine, Rightful, Sure
    <3>5. QED BY <3>2, <3>4 DEF Fine
  <2>3. QED BY <2>1, <2>2
<1>7. OneRefresh'
  BY <1>5 DEF OneRefresh, StoresInv, Refreshing, Idle
<1>8. OwnFiles'
  BY <1>1 DEF StoresInv, OwnFiles
<1>9. QED BY <1>4, <1>6, <1>7, <1>8 DEF StoresInv

\* A goroutine that goes on to something other than a refresh or a load.
Plain(j) == j.pc \notin {"wait", "save", "open"} /\ Present(j)

LEMMA PlainStores ==
  ASSUME StoresInv, TypeOK', NEW g \in Threads, NEW j, Goto(g, j), Quietly, Plain(j)
  PROVE  StoresInv'
<1>1. Fine(j) /\ MayRefresh(g, j)
  BY DEF Plain, Fine, Rightful, Reads, MayRefresh, Alike
<1>2. QED BY <1>1, MoveStores

LEMMA StillQuiet ==
  ASSUME StoresInv, UNCHANGED <<disk, epoch, expired, hist>>
  PROVE  Quietly
  BY DEF StoresInv, Quietly, OwnFiles, disk, hist

LEMMA HandlersStores ==
  ASSUME StoresInv, TypeOK', NEW g \in Threads, Handlers(g)
  PROVE  StoresInv'
<1>1. CASE \E s \in Live : Use(g, s)
  <2>1. PICK s \in Live : Use(g, s)
    BY <1>1
  <2> DEFINE j == Refresh(IF mem[s] \in expired THEN "enter" ELSE "asked", s, FALSE)
  <2>2. s # Panel => s[1] = epoch
    BY DEF Live
  <2>3. epoch <= epoch
    BY BoundAssumption DEF StoresInv, TypeOK, Epochs
  <2>4. j.pc \in {"enter", "asked"} /\ j.store = s
    BY DEF Refresh
  <2>5. Plain(j)
    BY <2>2, <2>3, <2>4 DEF Plain, Present
  <2>6. Goto(g, j) /\ Quietly
    BY <2>1, StillQuiet DEF Use, pool, world
  <2>7. QED BY <2>5, <2>6, PlainStores
<1>2. CASE Heal(g)
  <2> DEFINE j == [pc |-> "archive", from |-> mem[Panel], next |-> None]
  <2>1. Goto(g, j) /\ Quietly /\ Plain(j)
    BY <1>2, StillQuiet DEF Heal, pool, world, Plain, Present, Using
  <2>2. QED BY <2>1, PlainStores
<1>3. CASE Reload(g)
  <2> DEFINE j == [pc |-> "list"]
  <2>1. Goto(g, j) /\ Quietly /\ Plain(j)
    BY <1>3, StillQuiet DEF Reload, pool, world, Plain, Present, Using
  <2>2. QED BY <2>1, PlainStores
<1>4. CASE Logout(g)
  <2> DEFINE j == [pc |-> "clear", uid |-> PanelUid]
  <2>1. Goto(g, j) /\ Quietly /\ Plain(j)
    BY <1>4, StillQuiet DEF Logout, pool, world, Plain, Present, Using
  <2>2. QED BY <2>1, PlainStores
<1>5. ASSUME NEW u \in Uids, Login(g, u) PROVE StoresInv'
  <2> DEFINE j == [pc |-> "archive", from |-> Newest(u), next |-> None]
             t == Newest(u)
  <2>1. j.pc \notin Using \cup {"open"}
    BY DEF Using
  <2>2. t # None
    BY NewestType, NoneAssumption DEF StoresInv, TypeOK
  <2>3. /\ job' = [Replaced(Panel) EXCEPT ![g] = j]
        /\ mem' = [mem EXCEPT ![Panel] = t] /\ file' = [file EXCEPT ![Main] = t]
        /\ Tearing(Main, t) /\ UNCHANGED <<path, epoch, expired>>
    BY <1>5 DEF Login, PanelSave, Save, pool
  <2> HIDE DEF j, t
  <2>4. QED BY <2>1, <2>2, <2>3, ReplacedStores
<1>6. ASSUME NEW u \in Uids, Activate(g, u) PROVE StoresInv'
  <2> DEFINE j == IF mem[Panel] = None THEN [pc |-> "install", next |-> file[u]]
                  ELSE [pc |-> "archive", from |-> mem[Panel], next |-> file[u]]
  <2>1. j.pc \in {"install", "archive"}
    OBVIOUS
  <2>2. Goto(g, j) /\ Quietly
    BY <1>6, StillQuiet DEF Activate, pool, world
  <2>3. Plain(j)
    BY <2>1 DEF Plain, Present, Using
  <2>4. QED BY <2>2, <2>3, PlainStores
<1>7. ASSUME NEW u \in Uids, Remove(g, u) PROVE StoresInv'
  <2> DEFINE j == [pc |-> "delete", uid |-> u]
  <2>1. Goto(g, j) /\ Quietly /\ Plain(j)
    BY <1>7, StillQuiet DEF Remove, pool, world, Plain, Present, Using
  <2>2. QED BY <2>1, PlainStores
<1>8. QED BY <1>1, <1>2, <1>3, <1>4, <1>5, <1>6, <1>7 DEF Handlers

LEMMA PlainAfter ==
  ASSUME StoresInv, NEW g \in Threads, job[g].pc \in Using
  PROVE  Plain(After(g))
<1>1. Present(job[g])
  BY DEF StoresInv, Fine
<1>2. QED BY <1>1, AfterIs DEF Plain, Present, Using

\* refresh has looked again and goes to the upstream.
LEMMA LookStores ==
  ASSUME StoresInv, TypeOK', NEW g \in Threads, Look(g)
  PROVE  StoresInv'
<1> DEFINE s == job[g].store
           j == [job[g] EXCEPT !.pc = "wait", !.from = mem[s], !.same = TRUE]
<1>1. Quietly
  BY StillQuiet DEF Look, pool, world
<1>2. CASE ~Needed(s, job[g].force)
  <2>1. Goto(g, After(g)) /\ Plain(After(g))
    BY <1>2, PlainAfter DEF Look, Using
  <2>2. QED BY <1>1, <2>1, PlainStores
<1>3. CASE Needed(s, job[g].force)
  <2>1. job[g] \in [pc: {"asked", "enter"}, store: Stores, force: BOOLEAN,
                    from: {None}, same: BOOLEAN]
    BY DEF Look, StoresInv, TypeOK, Jobs, Idle
  <2>2. /\ j.pc = "wait" /\ j.store = s /\ j.from = mem[s] /\ j.force = job[g].force
    BY <2>1
  <2>3. Goto(g, j) /\ ~LockHeld(s) /\ Present(job[g]) /\ job[g].pc = "enter"
    BY <1>3 DEF Look, StoresInv, Fine
  <2>4. mem[s] # None /\ (job[g].force \/ mem[s] \in expired)
    BY <1>3 DEF Needed
  <2>5. s # Panel /\ Sure(s) => mem[s].uid = s[2]
    <3>1. s # Panel => s \in Pool
      BY <2>1, PoolFields
    <3>2. QED BY <2>4, <3>1 DEF StoresInv, OwnStore
  <2> HIDE DEF j
  <2>6. Fine(j)
    BY <2>2, <2>3, <2>4, <2>5 DEF Fine, Present, Rightful, Reads, Using
  <2>7. MayRefresh(g, j)
    BY <2>2, <2>3 DEF MayRefresh
  <2>8. QED BY <1>1, <2>3, <2>6, <2>7, MoveStores
<1>4. QED BY <1>2, <1>3

\* The upstream renews a credential for its own account.
LEMMA RenewedStores ==
  ASSUME StoresInv, TypeOK', NEW g \in Threads, Renewed(g)
  PROVE  StoresInv'
<1> DEFINE u == job[g].from.uid
           j == [job[g] EXCEPT !.pc = "save", !.from = Newest(u)]
<1>1. job[g] \in [pc: {"wait", "save"}, store: Stores, force: BOOLEAN,
                  from: Tokens, same: BOOLEAN]
  BY DEF Renewed, StoresInv, TypeOK, Jobs, Idle
<1>2. /\ j.pc = "save" /\ j.store = job[g].store /\ j.from.uid = u
      /\ j.force = job[g].force /\ j.same = job[g].same
  BY <1>1 DEF Newest
<1>3. Goto(g, j) /\ Quietly /\ job[g].pc = "wait" /\ Fine(job[g])
  BY StillQuiet DEF Renewed, StoresInv, pool
<1> HIDE DEF j
<1>4. Fine(j) /\ MayRefresh(g, j)
  BY <1>2, <1>3 DEF Fine, Present, Rightful, Reads, Using, MayRefresh, Alike
<1>5. QED BY <1>3, <1>4, MoveStores

\* The list of a load names token.json for the account that is in it.
LEMMA ListStores ==
  ASSUME StoresInv, TypeOK', NEW g \in Threads, List(g)
  PROVE  StoresInv'
<1> DEFINE j == [pc |-> "open", seen |-> Listed]
<1>1. Goto(g, j) /\ Quietly
  BY StillQuiet DEF List, pool, world
<1>2. Reads(j)
  <2>1. Main # None /\ \A u \in Uids : Main # u
    BY MainAssumption, NoneAssumption DEF Paths
  <2>2. ASSUME NEW u \in Uids
        PROVE  /\ Listed[u] \in {Main, u, None}
               /\ Listed[u] = Main => file[Main] # None /\ file[Main].uid = u
    BY <2>1 DEF Listed, ActiveOnDisk
  <2>3. QED BY <2>2 DEF Reads
<1>3. Fine(j) /\ MayRefresh(g, j)
  BY <1>2 DEF Fine, Present, Rightful, Using, MayRefresh, Alike
<1>4. QED BY <1>1, <1>3, MoveStores

LEMMA StepStores ==
  ASSUME StoresInv, TypeOK', NEW g \in Threads, Step(g)
  PROVE  StoresInv'
<1>0. job[g] \in Jobs
  BY DEF StoresInv, TypeOK
<1>1. CASE Served(g)
  <2>1. Goto(g, Idle) /\ Quietly /\ Plain(Idle)
    BY <1>1, StillQuiet DEF Served, pool, world, Plain, Present, Using, Idle
  <2>2. QED BY <2>1, PlainStores
<1>2. CASE NotRenewed(g)
  <2>1. Goto(g, After(g)) /\ Quietly /\ Plain(After(g))
    BY <1>2, StillQuiet, PlainAfter DEF NotRenewed, pool, world, Using
  <2>2. QED BY <2>1, PlainStores
<1>3. CASE Keep(g) /\ ~Same(g)
  <2>1. Goto(g, After(g)) /\ Plain(After(g))
    BY <1>3, PlainAfter DEF Keep, Using
  <2>2. Quietly
    BY <1>3 DEF Keep, Quietly, StoresInv, OwnFiles, pool, world
  <2>3. QED BY <2>1, <2>2, PlainStores
<1>4. CASE Archive(g)
  <2> DEFINE j == IF job[g].next = None THEN Idle
                  ELSE [pc |-> "install", next |-> job[g].next]
             t == job[g].from
  <2>1. t \in Tokens
    BY <1>0, <1>4, JobFields DEF Archive
  <2>2. t.uid \in Uids /\ file' = [file EXCEPT ![t.uid] = t]
    BY <1>4, <2>1 DEF Archive, Tokens
  <2>3. OwnFiles' /\ file'[Main] = file[Main]
    BY <2>2, MainAssumption DEF StoresInv, OwnFiles, TypeOK, Paths
  <2>4. Goto(g, j) /\ Quietly
    BY <1>4, <2>3 DEF Archive, Quietly, pool, world, hist
  <2>5. j.pc \in {"idle", "install"}
    BY DEF Idle
  <2>6. Plain(j)
    BY <2>5 DEF Plain, Present, Using
  <2>7. QED BY <2>4, <2>6, PlainStores
<1>5. CASE Install(g)
  <2> DEFINE j == [pc |-> "list"]
             t == job[g].next
  <2>1. j.pc \notin Using \cup {"open"}
    BY DEF Using
  <2>2. t # None
    BY <1>0, <1>5, JobFields, NoneAssumption DEF Install
  <2>3. /\ job' = [Replaced(Panel) EXCEPT ![g] = j]
        /\ mem' = [mem EXCEPT ![Panel] = t] /\ file' = [file EXCEPT ![Main] = t]
        /\ Tearing(Main, t) /\ UNCHANGED <<path, epoch, expired>>
    BY <1>5 DEF Install, PanelSave, Save, pool, world
  <2> HIDE DEF j, t
  <2>4. QED BY <2>1, <2>2, <2>3, ReplacedStores
<1>6. CASE Clear(g)
  <2> DEFINE j == IF job[g].uid = None THEN Idle
                  ELSE [pc |-> "forget", uid |-> job[g].uid]
  <2>1. j.pc \in {"idle", "forget"}
    BY DEF Idle
  <2>2. j.pc \notin Using \cup {"open"}
    BY <2>1 DEF Using
  <2>3. /\ job' = [Replaced(Panel) EXCEPT ![g] = j]
        /\ mem' = [mem EXCEPT ![Panel] = None] /\ file' = [file EXCEPT ![Main] = None]
        /\ torn' = (torn \/ \E h \in Threads : job[h].pc = "open")
        /\ UNCHANGED <<path, epoch, expired>>
    BY <1>6 DEF Clear, pool, world
  <2> HIDE DEF j
  <2>4. QED BY <2>2, <2>3, ReplacedStores
<1>7. CASE Delete(g)
  <2> DEFINE u == job[g].uid
             j == [pc |-> "forget", uid |-> u]
  <2>1. u \in Uids /\ file' = [file EXCEPT ![u] = None]
    BY <1>0, <1>7, JobFields DEF Delete
  <2>2. OwnFiles' /\ file'[Main] = file[Main]
    BY <2>1, MainAssumption DEF StoresInv, OwnFiles, TypeOK, Paths
  <2>3. Goto(g, j) /\ Quietly /\ Plain(j)
    BY <1>7, <2>2 DEF Delete, Quietly, pool, world, hist, Plain, Present, Using
  <2>4. QED BY <2>3, PlainStores
<1>8. CASE Forget(g)
  <2>1. Goto(g, Idle) /\ Quietly /\ Plain(Idle)
    BY <1>8, StillQuiet DEF Forget, world, Plain, Present, Using, Idle
  <2>2. QED BY <2>1, PlainStores
<1>9. QED
  BY <1>1, <1>2, <1>3, <1>4, <1>5, <1>6, <1>7, <1>8,
     LookStores, RenewedStores, KeepStores, ListStores, OpenStores DEF Step

\* What the panel, or time, does beside the goroutines.
LEMMA BesideStores ==
  ASSUME StoresInv, TypeOK', UNCHANGED <<mem, path, epoch, job, torn>>,
         OwnFiles', file'[Main] = file[Main], expired \subseteq expired'
  PROVE  StoresInv'
<1>1. \A s \in Pool : OwnStore(s)'
  BY DEF StoresInv, OwnStore, Sure
<1>2. ASSUME NEW g \in Threads PROVE Fine(job[g])'
  <2>1. Fine(job[g])
    BY DEF StoresInv
  <2>2. QED BY <2>1 DEF Fine, Present, Rightful, Reads, Sure
<1>3. OneRefresh'
  BY DEF StoresInv, OneRefresh, Refreshing
<1>4. QED BY <1>1, <1>2, <1>3 DEF StoresInv

LEMMA NextStores == StoresInv /\ [Next]_vars => StoresInv'
<1> SUFFICES ASSUME StoresInv, [Next]_vars PROVE StoresInv'
  OBVIOUS
<1>0. TypeOK'
  BY NextTyped DEF StoresInv
<1>1. ASSUME NEW g \in Threads, Handlers(g) \/ Step(g) PROVE StoresInv'
  BY <1>0, <1>1, HandlersStores, StepStores
<1>2. ASSUME NEW g \in Threads, Unauthorized(g) PROVE StoresInv'
  <2> DEFINE j == IF mem[job[g].store] = None THEN Idle
                  ELSE Refresh("enter", job[g].store, TRUE)
  <2>1. j.pc \in {"idle", "enter"} /\ (j.pc = "enter" => j.store = job[g].store)
    BY DEF Idle, Refresh
  <2>2. Goto(g, j) /\ Quietly /\ Present(job[g]) /\ job[g].pc = "asked"
    BY <1>2, StillQuiet DEF Unauthorized, StoresInv, Fine, pool, world
  <2> HIDE DEF j
  <2>3. Plain(j)
    BY <2>1, <2>2 DEF Plain, Present, Using
  <2>4. QED BY <1>0, <2>2, <2>3, PlainStores
<1>3. ASSUME NEW u \in Uids, Import(u) PROVE StoresInv'
  <2>1. file' = [file EXCEPT ![u] = Newest(u)] /\ Newest(u).uid = u
    BY <1>3 DEF Import, Newest
  <2>2. OwnFiles' /\ file'[Main] = file[Main]
    BY <2>1, MainAssumption DEF StoresInv, OwnFiles, TypeOK, Paths
  <2>3. QED BY <1>0, <1>3, <2>2, BesideStores DEF Import, pool
<1>4. ASSUME NEW s \in Live, Expire(mem[s]) PROVE StoresInv'
  <2>1. file' = file /\ OwnFiles'
    BY <1>4 DEF Expire, disk, StoresInv, OwnFiles
  <2>2. QED BY <1>0, <1>4, <2>1, BesideStores DEF Expire, disk, pool, hist
<1>5. CASE UNCHANGED vars
  <2>1. file' = file /\ OwnFiles'
    BY <1>5 DEF vars, disk, StoresInv, OwnFiles
  <2>2. QED BY <1>0, <1>5, <2>1, BesideStores DEF vars, disk, pool, world, hist
<1>6. QED BY <1>1, <1>2, <1>3, <1>4, <1>5 DEF Next

(* A member never chats with the credential of another account, whichever    *)
(* goroutines refresh, log in, switch, delete or load at the same time: the  *)
(* archives are their account's, and a load that reads token.json twice      *)
(* finds the account it listed there unless token.json changed in between    *)
(* (Manager.Reload, NewTokenStorePath).                                      *)
THEOREM MembersOwn == Spec => []OwnCredential
<1>1. StoresInv => OwnCredential
  <2> SUFFICES ASSUME StoresInv, ~torn, NEW u \in members, mem[<<epoch, u>>] # None
               PROVE  mem[<<epoch, u>>].uid = u
    BY DEF OwnCredential
  <2>1. <<epoch, u>> \in Pool
    BY DEF StoresInv, TypeOK, Pool
  <2>2. OwnStore(<<epoch, u>>)
    BY <2>1 DEF StoresInv
  <2>3. QED BY <2>2 DEF OwnStore, Sure
<1>2. QED BY <1>1, InitStores, NextStores, PTL DEF Spec

(* A store renews an expired credential once, however many chats found it    *)
(* expired: refreshMu lets one of them ask the upstream, and the memory a    *)
(* refresh replaces without being forced is still expired                    *)
(* (TokenStore.refresh).                                                     *)
THEOREM RenewedForReason == Spec => RenewedOnce
<1>1. StoresInv =>
        \A g \in Threads :
          Keep(g) /\ ~job[g].force /\ mem' # mem => mem[job[g].store] \in expired
  <2> SUFFICES ASSUME StoresInv, NEW g \in Threads,
                      Keep(g), ~job[g].force, mem' # mem
               PROVE  mem[job[g].store] \in expired
    OBVIOUS
  <2>1. job[g].same
    BY DEF Keep, Same
  <2>2. Rightful(job[g])
    BY DEF StoresInv, Fine
  <2>3. QED BY <2>1, <2>2 DEF Rightful, Keep
<1>2. QED BY <1>1, InitStores, NextStores, PTL DEF Spec, RenewedOnce

=============================================================================
