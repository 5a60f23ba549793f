---------------------------- MODULE Ledger_proofs ----------------------------
(* Theorems about Ledger for every value of its constants. *)
EXTENDS Ledger, FiniteSetTheorems, SequenceTheorems, WellFoundedInduction, TLAPS

(***************************************************************************)
(* The entries of one key in a sequence.                                   *)
(***************************************************************************)
Places(s, id) == {i \in DOMAIN s : s[i] = id}
Count(s, id) == Cardinality(Places(s, id))

LEMMA PlacesFinite ==
  ASSUME NEW s \in Seq(Ids), NEW id
  PROVE  IsFiniteSet(Places(s, id)) /\ Count(s, id) \in Nat
<1>1. IsFiniteSet(1..Len(s))
  BY FS_Interval
<1>2. Places(s, id) \in SUBSET (1..Len(s))
  BY DEF Places
<1>3. IsFiniteSet(Places(s, id))
  BY <1>1, <1>2, FS_Subset
<1>4. QED BY <1>3, FS_CardinalityType DEF Count

LEMMA CountAbsent ==
  ASSUME NEW s, NEW id, \A i \in DOMAIN s : s[i] # id
  PROVE  Count(s, id) = 0
<1>1. Places(s, id) = {}
  BY DEF Places
<1>2. QED BY <1>1, FS_EmptySet DEF Count

LEMMA CountAppend ==
  ASSUME NEW s \in Seq(Ids), NEW e \in Ids, NEW id
  PROVE  Count(Append(s, e), id) = Count(s, id) + (IF e = id THEN 1 ELSE 0)
<1> DEFINE n == Len(s) + 1
<1>1. n \notin Places(s, id)
  BY DEF Places
<1>2. CASE e = id
  <2>1. Places(Append(s, e), id) = Places(s, id) \cup {n}
    BY <1>2 DEF Places
  <2>2. QED BY <1>1, <1>2, <2>1, PlacesFinite, FS_AddElement DEF Count
<1>3. CASE e # id
  <2>1. Places(Append(s, e), id) = Places(s, id)
    BY <1>3 DEF Places
  <2>2. QED BY <1>3, <2>1, PlacesFinite DEF Count
<1>4. QED BY <1>2, <1>3

LEMMA CountTail ==
  ASSUME NEW s \in Seq(Ids), s # <<>>, NEW id
  PROVE  Count(s, id) = Count(Tail(s), id) + (IF Head(s) = id THEN 1 ELSE 0)
<1> DEFINE T == Places(Tail(s), id)
           R == Places(s, id) \ {1}
           f == [i \in T |-> i + 1]
<1>1. Tail(s) \in Seq(Ids) /\ Len(Tail(s)) = Len(s) - 1
      /\ \A i \in 1..Len(Tail(s)) : Tail(s)[i] = s[i + 1]
  BY HeadTailProperties
<1>2. T = {i \in 1..(Len(s) - 1) : s[i + 1] = id}
  BY <1>1 DEF Places
<1>3. R = {i \in 2..Len(s) : s[i] = id}
  BY DEF Places
<1>4. f \in Bijection(T, R)
  <2>1. f \in [T -> R]
    BY <1>2, <1>3
  <2>2. \A i, j \in T : f[i] = f[j] => i = j
    BY <1>2
  <2>3. \A k \in R : \E i \in T : f[i] = k
    <3> SUFFICES ASSUME NEW k \in R PROVE \E i \in T : f[i] = k
      OBVIOUS
    <3>1. k \in 2..Len(s) /\ s[k] = id
      BY <1>3
    <3>2. k - 1 \in 1..(Len(s) - 1) /\ (k - 1) + 1 = k
      BY <3>1
    <3>3. k - 1 \in T
      BY <1>2, <3>1, <3>2
    <3>4. QED BY <3>2, <3>3
  <2>4. QED BY <2>1, <2>2, <2>3 DEF Bijection, Injection, Surjection, IsInjective
<1>5. Cardinality(R) = Count(Tail(s), id)
  <2>1. IsFiniteSet(T)
    BY <1>1, PlacesFinite
  <2>2. ExistsBijection(T, R)
    BY <1>4 DEF ExistsBijection
  <2> HIDE DEF T, R
  <2>3. Cardinality(R) = Cardinality(T)
    BY <2>1, <2>2, FS_Bijection
  <2>4. QED BY <2>3 DEF T, Count
<1>6. 1 \in Places(s, id) <=> Head(s) = id
  BY DEF Places
<1>7. Cardinality(R) = IF 1 \in Places(s, id) THEN Count(s, id) - 1 ELSE Count(s, id)
  BY PlacesFinite, FS_RemoveElement DEF Count
<1>8. Count(s, id) \in Nat
  BY PlacesFinite
<1> HIDE DEF R
<1>9. QED BY <1>5, <1>6, <1>7, <1>8

\* What is in a channel s and a hand h.
Held(s, h, id) == Count(s, id) + (IF h = id THEN 1 ELSE 0)

LEMMA HeldType ==
  ASSUME NEW s \in Seq(Ids), NEW h, NEW id
  PROVE  Held(s, h, id) \in Nat
<1>1. Count(s, id) \in Nat
  BY PlacesFinite
<1>2. QED BY <1>1 DEF Held

LEMMA HeldAppend ==
  ASSUME NEW s \in Seq(Ids), NEW e \in Ids, NEW h, NEW id
  PROVE  /\ Held(Append(s, e), h, id) = Held(s, h, id) + (IF id = e THEN 1 ELSE 0)
         /\ Append(s, e) # s
<1>1. Count(s, id) \in Nat
  BY PlacesFinite
<1>2. Count(Append(s, e), id) = Count(s, id) + (IF e = id THEN 1 ELSE 0)
  BY CountAppend
<1>3. Append(s, e) # s
  OBVIOUS
<1>4. QED BY <1>1, <1>2, <1>3 DEF Held

LEMMA HeldTail ==
  ASSUME NEW s \in Seq(Ids), s # <<>>, NEW h, NEW id, h # id
  PROVE  Held(Tail(s), Head(s), id) = Held(s, h, id)
<1>1. Count(s, id) \in Nat
  BY PlacesFinite
<1>2. Count(s, id) = Count(Tail(s), id) + (IF Head(s) = id THEN 1 ELSE 0)
  BY CountTail
<1>3. QED BY <1>1, <1>2 DEF Held

(***************************************************************************)
(* The key Authenticate finds is one that is there.                        *)
(***************************************************************************)
LEMMA Least ==
  ASSUME NEW T \in SUBSET Nat, T # {}
  PROVE  \E x \in T : \A y \in T : x <= y
<1> DEFINE R == OpToRel(<, Nat)
<1>1. IsWellFoundedOn(R, Nat)
  BY NatLessThanWellFounded
<1>2. \A x, y \in Nat : y < x => <<y, x>> \in R
  BY DEF OpToRel
<1> HIDE DEF R
<1>3. PICK x \in T : \A y \in T : <<y, x>> \notin R
  BY <1>1, WFMin
<1>4. \A y \in T : ~ (y < x)
  BY <1>2, <1>3
<1>5. QED BY <1>4

LEMMA FoundKey ==
  ASSUME MaxKeys \in Nat, NEW ks \in Caches, NEW p, Admitted(ks, p) # Absent
  PROVE  Admitted(ks, p) \in Ids /\ ks[Admitted(ks, p)] # Absent
<1> DEFINE M == Matches(ks, p)
<1>1. M # {} /\ Admitted(ks, p) = Found(ks, p)
  BY DEF Admitted, Found
<1>2. M \in SUBSET Nat
  BY DEF Matches, Ids
<1>3. \E id \in M : \A o \in M : id <= o
  BY <1>1, <1>2, Least
<1>4. Found(ks, p) \in M
  BY <1>1, <1>3 DEF Found
<1>5. QED BY <1>1, <1>4 DEF Matches
(***************************************************************************)
(* The inductive invariant: an id that AUTOINCREMENT has not given yet is  *)
(* nowhere, so a new row starts with nothing counted.                      *)
(***************************************************************************)
KeyTypes ==
  /\ row \in Tables /\ created \in 0..MaxKeys /\ cache \in Caches
  /\ job \in [Admins -> Jobs] /\ call \in [Callers -> Calls]
  /\ usageCh \in Seq(Ids) /\ usageHand \in Ids \cup {Absent}
  /\ served \in [Ids -> Nat] /\ lost \in [Ids -> Nat]

NewIn(j, id) == j.pc = "set" => j.keys[id] = Absent
NewOf(r, id) == r.pc # "idle" => r.key # id

NewIds ==
  \A id \in Ids : id > created =>
    /\ row[id] = Absent /\ cache[id] = Absent
    /\ served[id] = 0 /\ lost[id] = 0
    /\ \A a \in Admins : NewIn(job[a], id)
    /\ \A c \in Callers : NewOf(call[c], id)
    /\ usageHand # id /\ \A i \in DOMAIN usageCh : usageCh[i] # id

LedgerInv == KeyTypes /\ NewIds /\ UsageAccounted

LEMMA LedgerExcept ==
  ASSUME NEW S, NEW V, NEW f \in [S -> V], NEW x, NEW v, x \in S => v \in V
  PROVE  [f EXCEPT ![x] = v] \in [S -> V]
  OBVIOUS

LEMMA JobKinds ==
  ASSUME NEW j \in Jobs
  PROVE  /\ j.pc = "insert" => j.plain \in Plains
         /\ j.pc = "get" => j.id \in Ids /\ j.status \in Status \cup {Absent}
         /\ j.pc = "write" => j.id \in Ids /\ j.row \in Rows
         /\ j.pc = "delete" => j.id \in Ids
         /\ j.pc = "set" => j.keys \in Caches
  BY DEF Jobs, Idle

LEMMA CallKinds ==
  ASSUME NEW r \in Calls, r.pc # "idle"
  PROVE  r \in [pc: {"serve", "log", "count"}, key: Ids]
  BY DEF Calls, Idle

LEMMA JobsMade ==
  /\ Idle \in Jobs /\ ThenReload \in Jobs
  /\ \A p \in Plains : [pc |-> "insert", plain |-> p] \in Jobs
  /\ \A id \in Ids, s \in Status \cup {Absent} : [pc |-> "get", id |-> id, status |-> s] \in Jobs
  /\ \A id \in Ids, r \in Rows : [pc |-> "write", id |-> id, row |-> r] \in Jobs
  /\ \A id \in Ids : [pc |-> "delete", id |-> id] \in Jobs
  /\ \A ks \in Caches : [pc |-> "set", keys |-> ks] \in Jobs
<1>1. Idle \in Jobs /\ ThenReload \in Jobs
  BY DEF Jobs, Idle, ThenReload
<1>2. \A p \in Plains : [pc |-> "insert", plain |-> p] \in Jobs
  BY DEF Jobs
<1>3. \A id \in Ids, s \in Status \cup {Absent} : [pc |-> "get", id |-> id, status |-> s] \in Jobs
  BY DEF Jobs
<1>4. \A id \in Ids, r \in Rows : [pc |-> "write", id |-> id, row |-> r] \in Jobs
  BY DEF Jobs
<1>5. \A id \in Ids : [pc |-> "delete", id |-> id] \in Jobs
  BY DEF Jobs
<1>6. \A ks \in Caches : [pc |-> "set", keys |-> ks] \in Jobs
  BY DEF Jobs
<1>7. QED BY <1>1, <1>2, <1>3, <1>4, <1>5, <1>6

LEMMA CopyType ==
  ASSUME row \in Tables
  PROVE  Copy \in Caches /\ \A id \in Ids : row[id] = Absent => Copy[id] = Absent
<1>1. \A id \in Ids : row[id] # Absent =>
        [plain |-> row[id].plain, status |-> row[id].status] \in Keys
  BY DEF Tables, Rows, Keys
<1>2. QED BY <1>1 DEF Copy, Caches

LEMMA LedgerInit == Init => LedgerInv
<1> SUFFICES ASSUME Init PROVE LedgerInv
  OBVIOUS
<1>1. row \in Tables
  BY BoundAssumption DEF Init
<1>2. Copy \in Caches
  BY <1>1, CopyType
<1>3. \A id \in Ids : row[id] # Absent => row[id].uses \in Nat
  BY <1>1 DEF Tables, Rows
<1>4. KeyTypes
  BY <1>1, <1>2, <1>3, JobsMade DEF Init, KeyTypes, Calls
<1>5. NewIds
  BY <1>1, CopyType, AbsentAssumption DEF Init, NewIds, NewIn, NewOf, Idle, Ids
<1>6. \A id \in Ids : InChannel(id) = 0
  <2> SUFFICES ASSUME NEW id \in Ids PROVE InChannel(id) = 0
    OBVIOUS
  <2>1. Count(usageCh, id) = 0
    BY CountAbsent DEF Init
  <2>2. usageHand # id
    BY AbsentAssumption DEF Init
  <2>3. QED BY <2>1, <2>2 DEF InChannel, Count, Places
<1>7. UsageAccounted
  BY <1>3, <1>6 DEF Init, UsageAccounted
<1>8. QED BY <1>4, <1>5, <1>7 DEF LedgerInv

(***************************************************************************)
(* Steps that leave the counts and the copy alone.                         *)
(***************************************************************************)
Counts == <<usageCh, usageHand, served, lost>>

LEMMA PanelWaits ==
  ASSUME LedgerInv, UNCHANGED <<row, created, cache, call, Counts>>,
         NEW a \in Admins, NEW j \in Jobs, Goto(a, j),
         \A id \in Ids : id > created => NewIn(j, id)
  PROVE  LedgerInv'
<1>1. KeyTypes'
  BY LedgerExcept DEF LedgerInv, KeyTypes, Goto, Counts
<1>2. \A b \in Admins : job'[b] = IF b = a THEN j ELSE job[b]
  BY DEF Goto, LedgerInv, KeyTypes
<1>3. NewIds'
  BY <1>2 DEF LedgerInv, NewIds, Counts
<1>4. UsageAccounted'
  BY DEF LedgerInv, UsageAccounted, InChannel, Counts
<1>5. QED BY <1>1, <1>3, <1>4 DEF LedgerInv

LEMMA RequestWaits ==
  ASSUME LedgerInv, UNCHANGED <<row, created, cache, job, Counts>>,
         NEW c \in Callers, NEW r \in Calls, call' = [call EXCEPT ![c] = r],
         \A id \in Ids : id > created => NewOf(r, id)
  PROVE  LedgerInv'
<1>1. KeyTypes'
  BY LedgerExcept DEF LedgerInv, KeyTypes, Counts
<1>2. \A d \in Callers : call'[d] = IF d = c THEN r ELSE call[d]
  BY DEF LedgerInv, KeyTypes
<1>3. NewIds'
  BY <1>2 DEF LedgerInv, NewIds, Counts
<1>4. UsageAccounted'
  BY DEF LedgerInv, UsageAccounted, InChannel, Counts
<1>5. QED BY <1>1, <1>3, <1>4 DEF LedgerInv

LEMMA NothingHappens ==
  ASSUME LedgerInv, UNCHANGED <<row, created, cache, job, call, Counts>>
  PROVE  LedgerInv'
<1>1. KeyTypes'
  BY DEF LedgerInv, KeyTypes, Counts
<1>2. NewIds'
  BY DEF LedgerInv, NewIds, Counts
<1>3. UsageAccounted'
  BY DEF LedgerInv, UsageAccounted, InChannel, Counts
<1>4. QED BY <1>1, <1>2, <1>3 DEF LedgerInv
(***************************************************************************)
(* The panel changes the rows.                                             *)
(***************************************************************************)
LEMMA RowsChange ==
  ASSUME LedgerInv, UNCHANGED <<cache, call, Counts>>,
         NEW a \in Admins, Goto(a, ThenReload),
         row' \in Tables, created' \in 0..MaxKeys, created' >= created,
         \A id \in Ids : row'[id] # Absent =>
           \/ row[id] # Absent /\ row'[id].uses = row[id].uses
           \/ id > created /\ id <= created' /\ row'[id].uses = 0
  PROVE  LedgerInv'
<1>1. KeyTypes'
  BY JobsMade, LedgerExcept DEF LedgerInv, KeyTypes, Goto, Counts
<1>2. \A b \in Admins, id \in Ids : id > created => NewIn(job'[b], id)
  BY DEF Goto, LedgerInv, KeyTypes, NewIds, NewIn, ThenReload
<1>3. \A id \in Ids : id > created' => id > created
  BY DEF LedgerInv, KeyTypes, Ids
<1>4. \A id \in Ids : id > created' => row'[id] = Absent
  BY <1>3 DEF LedgerInv, NewIds, KeyTypes, Ids
<1>5. NewIds'
  BY <1>2, <1>3, <1>4 DEF LedgerInv, NewIds, Counts
<1>6. \A id \in Ids : InChannel(id)' = InChannel(id)
  BY DEF InChannel, Counts
<1>7. \A id \in Ids : id > created => InChannel(id) = 0
  <2> SUFFICES ASSUME NEW id \in Ids, id > created PROVE InChannel(id) = 0
    OBVIOUS
  <2>1. usageHand # id /\ \A i \in DOMAIN usageCh : usageCh[i] # id
    BY DEF LedgerInv, NewIds
  <2>2. Count(usageCh, id) = 0
    BY <2>1, CountAbsent
  <2>3. QED BY <2>1, <2>2 DEF InChannel, Count, Places
<1>8. UsageAccounted'
  <2> SUFFICES ASSUME NEW id \in Ids, row'[id] # Absent
               PROVE  row'[id].uses + InChannel(id)' + lost'[id] = served'[id]
    BY DEF UsageAccounted
  <2>1. CASE row[id] # Absent /\ row'[id].uses = row[id].uses
    BY <1>6, <2>1 DEF LedgerInv, UsageAccounted, Counts
  <2>2. CASE id > created /\ row'[id].uses = 0
    BY <1>6, <1>7, <2>2 DEF LedgerInv, NewIds, Counts
  <2>3. QED BY <2>1, <2>2
<1>9. QED BY <1>1, <1>5, <1>8 DEF LedgerInv

LEMMA InsertKeeps ==
  ASSUME LedgerInv, NEW a \in Admins, Insert(a)
  PROVE  LedgerInv'
<1> DEFINE new == [plain |-> job[a].plain, status |-> "active", uses |-> 0]
<1>1. created \in 0..MaxKeys /\ created' = created + 1 /\ created' \in Ids
  BY BoundAssumption DEF Insert, LedgerInv, KeyTypes, Ids
<1>2. new \in Rows
  BY JobKinds DEF Insert, LedgerInv, KeyTypes, Rows, Status
<1>3. row' = [row EXCEPT ![created'] = new] /\ row \in Tables
  BY DEF Insert, LedgerInv, KeyTypes
<1>4. row' \in Tables
  BY <1>2, <1>3, LedgerExcept DEF Tables
<1>5. \A id \in Ids : row'[id] = IF id = created' THEN new ELSE row[id]
  BY <1>3 DEF Tables
<1> HIDE DEF new
<1>6. new.uses = 0
  BY DEF new
<1>7. created' > created /\ created' >= created /\ created' \in 0..MaxKeys
  BY <1>1 DEF Ids
<1>8. Goto(a, ThenReload) /\ UNCHANGED <<cache, call, Counts>>
  BY DEF Insert, Changing, Counts, usage
<1>9. \A id \in Ids : row'[id] # Absent =>
        \/ row[id] # Absent /\ row'[id].uses = row[id].uses
        \/ id > created /\ id <= created' /\ row'[id].uses = 0
  <2>1. \A id \in Ids : id # created' => row'[id] = row[id]
    BY <1>5
  <2>2. row'[created'].uses = 0
    BY <1>1, <1>5, <1>6
  <2>3. created' <= created'
    BY <1>7
  <2>4. QED BY <1>7, <2>1, <2>2, <2>3
<1>10. QED BY <1>4, <1>7, <1>8, <1>9, RowsChange

LEMMA WriteKeeps ==
  ASSUME LedgerInv, NEW a \in Admins, Write(a)
  PROVE  LedgerInv'
<1> DEFINE id0 == job[a].id
           s0 == job[a].row.status
<1>1. id0 \in Ids /\ s0 \in Status /\ row \in Tables
  BY JobKinds DEF Write, LedgerInv, KeyTypes, Rows
<1>2. row' = IF row[id0] = Absent THEN row ELSE [row EXCEPT ![id0].status = s0]
  BY DEF Write, Written
<1> HIDE DEF id0, s0
<1>3. row[id0] # Absent => /\ [row[id0] EXCEPT !.status = s0] \in Rows
                           /\ [row[id0] EXCEPT !.status = s0].uses = row[id0].uses
  BY <1>1 DEF Tables, Rows
<1>4. row' \in Tables
  BY <1>1, <1>2, <1>3, LedgerExcept DEF Tables
<1>5. \A id \in Ids : row'[id] = IF id = id0 /\ row[id0] # Absent
                                 THEN [row[id0] EXCEPT !.status = s0] ELSE row[id]
  BY <1>1, <1>2 DEF Tables
<1>6. \A id \in Ids : row'[id] # Absent =>
                        row[id] # Absent /\ row'[id].uses = row[id].uses
  BY <1>3, <1>5
<1>7. Goto(a, ThenReload) /\ UNCHANGED <<created, cache, call, Counts>>
  BY DEF Write, Changing, Counts, usage
<1>8. created' \in 0..MaxKeys /\ created' >= created
  BY <1>7 DEF LedgerInv, KeyTypes
<1>9. QED BY <1>4, <1>6, <1>7, <1>8, RowsChange

LEMMA DeleteKeeps ==
  ASSUME LedgerInv, NEW a \in Admins, Delete(a)
  PROVE  LedgerInv'
<1>1. row \in Tables /\ row' = [row EXCEPT ![job[a].id] = Absent]
  BY DEF Delete, LedgerInv, KeyTypes
<1>2. row' \in Tables
  BY <1>1, LedgerExcept DEF Tables
<1>3. \A id \in Ids : row'[id] # Absent =>
                        row[id] # Absent /\ row'[id].uses = row[id].uses
  BY <1>1 DEF Tables
<1>4. Goto(a, ThenReload) /\ UNCHANGED <<created, cache, call, Counts>>
  BY DEF Delete, Changing, Counts, usage
<1>5. created' \in 0..MaxKeys /\ created' >= created
  BY <1>4 DEF LedgerInv, KeyTypes
<1>6. QED BY <1>2, <1>3, <1>4, <1>5, RowsChange
(***************************************************************************)
(* The rest of what the panel does.                                        *)
(***************************************************************************)
LEMMA PanelKeeps ==
  ASSUME LedgerInv, NEW a \in Admins,
         \/ \E p \in Plains : Create(a, p)
         \/ \E id \in Ids, s \in Status \cup {Absent} : Update(a, id, s)
         \/ \E id \in Ids : Discard(a, id)
         \/ Handler(a) \/ Failed(a)
  PROVE  LedgerInv'
<1>1. ASSUME NEW j \in Jobs, Enter(a, j), j.pc # "set" PROVE LedgerInv'
  <2>1. Goto(a, j) /\ UNCHANGED <<row, created, cache, call, Counts>>
    BY <1>1 DEF Enter, keys, usage, Counts
  <2>2. QED BY <1>1, <2>1, PanelWaits DEF NewIn
<1>2. ASSUME NEW p \in Plains, Create(a, p) PROVE LedgerInv'
  <2>1. [pc |-> "insert", plain |-> p] \in Jobs
    BY JobsMade
  <2>2. QED BY <1>1, <1>2, <2>1 DEF Create
<1>3. ASSUME NEW id \in Ids, NEW s \in Status \cup {Absent}, Update(a, id, s)
      PROVE  LedgerInv'
  <2>1. [pc |-> "get", id |-> id, status |-> s] \in Jobs
    BY JobsMade
  <2>2. QED BY <1>1, <1>3, <2>1 DEF Update
<1>4. ASSUME NEW id \in Ids, Discard(a, id) PROVE LedgerInv'
  <2>1. [pc |-> "delete", id |-> id] \in Jobs
    BY JobsMade
  <2>2. QED BY <1>1, <1>4, <2>1 DEF Discard
<1>5. CASE Get(a)
  <2> DEFINE id == job[a].id
             s == job[a].status
             r == IF s = Absent THEN row[id] ELSE [row[id] EXCEPT !.status = s]
             j == IF row[id] = Absent THEN Idle
                  ELSE [pc |-> "write", id |-> id, row |-> r]
  <2>1. id \in Ids /\ s \in Status \cup {Absent} /\ row \in Tables
    BY <1>5, JobKinds DEF Get, LedgerInv, KeyTypes
  <2>2. row[id] # Absent => r \in Rows
    BY <2>1 DEF Tables, Rows
  <2>3. j \in Jobs
    <3> HIDE DEF r
    <3>1. QED BY <2>1, <2>2, JobsMade
  <2>4. j.pc # "set"
    BY DEF Idle
  <2>5. Goto(a, j) /\ UNCHANGED <<row, created, cache, call, Counts>>
    BY <1>5 DEF Get, Changing, usage, Counts
  <2> HIDE DEF j
  <2>6. QED BY <2>3, <2>4, <2>5, PanelWaits DEF NewIn
<1>6. CASE List(a)
  <2> DEFINE j == [pc |-> "set", keys |-> Copy]
  <2>1. Copy \in Caches /\ \A id \in Ids : row[id] = Absent => Copy[id] = Absent
    BY CopyType DEF LedgerInv, KeyTypes
  <2>2. j \in Jobs
    BY <2>1, JobsMade
  <2>3. \A id \in Ids : id > created => NewIn(j, id)
    BY <2>1 DEF NewIn, LedgerInv, NewIds
  <2>4. Goto(a, j) /\ UNCHANGED <<row, created, cache, call, Counts>>
    BY <1>6 DEF List, Changing, usage, Counts
  <2> HIDE DEF j
  <2>5. QED BY <2>2, <2>3, <2>4, PanelWaits
<1>7. CASE Set(a)
  <2>1. /\ cache' = job[a].keys /\ Goto(a, Idle)
        /\ UNCHANGED <<row, created, call, Counts>>
    BY <1>7 DEF Set, usage, Counts
  <2>2. cache' \in Caches /\ \A id \in Ids : id > created => cache'[id] = Absent
    BY <1>7, <2>1, JobKinds DEF Set, LedgerInv, KeyTypes, NewIds, NewIn
  <2>3. KeyTypes'
    BY <2>1, <2>2, JobsMade, LedgerExcept DEF LedgerInv, KeyTypes, Goto, Counts
  <2>4. \A b \in Admins, id \in Ids : id > created => NewIn(job'[b], id)
    BY <2>1 DEF Goto, LedgerInv, KeyTypes, NewIds, NewIn, Idle
  <2>5. NewIds'
    BY <2>1, <2>2, <2>4 DEF LedgerInv, NewIds, Counts
  <2>6. UsageAccounted'
    BY <2>1 DEF LedgerInv, UsageAccounted, InChannel, Counts
  <2>7. QED BY <2>3, <2>5, <2>6 DEF LedgerInv
<1>8. CASE Failed(a)
  <2>1. Goto(a, Idle) /\ UNCHANGED <<row, created, cache, call, Counts>>
    BY <1>8 DEF Failed, keys, usage, Counts
  <2>2. QED BY <2>1, JobsMade, PanelWaits DEF NewIn, Idle
<1>9. QED BY <1>2, <1>3, <1>4, <1>5, <1>6, <1>7, <1>8,
             InsertKeeps, WriteKeeps, DeleteKeeps DEF Handler

(***************************************************************************)
(* Requests.                                                               *)
(***************************************************************************)
LEMMA MoreOf ==
  ASSUME NEW f \in [Ids -> Nat], NEW k \in Ids
  PROVE  /\ More(f, k, 1) \in [Ids -> Nat]
         /\ \A id \in Ids : More(f, k, 1)[id] = f[id] + (IF id = k THEN 1 ELSE 0)
  BY DEF More

LEMMA RequestKeeps ==
  ASSUME LedgerInv, NEW c \in Callers,
         (\E p \in Plains : Authenticate(c, p)) \/ Misread(c) \/ Request(c)
  PROVE  LedgerInv'
<1>1. Idle \in Calls /\ \A id : NewOf(Idle, id)
  BY DEF Calls, Idle, NewOf
<1>2. ASSUME NEW p \in Plains, Authenticate(c, p) PROVE LedgerInv'
  <2> DEFINE k == Admitted(cache, p)
             r == [pc |-> "serve", key |-> k]
  <2>1. k \in Ids /\ cache[k] # Absent
    BY <1>2, FoundKey, BoundAssumption DEF Authenticate, LedgerInv, KeyTypes
  <2>2. r \in Calls
    BY <2>1 DEF Calls
  <2>3. \A id \in Ids : id > created => NewOf(r, id)
    BY <2>1 DEF NewOf, LedgerInv, NewIds
  <2>4. call' = [call EXCEPT ![c] = r]
        /\ UNCHANGED <<row, created, cache, job, Counts>>
    BY <1>2 DEF Authenticate, keys, usage, Counts
  <2> HIDE DEF r
  <2>5. QED BY <2>2, <2>3, <2>4, RequestWaits
<1>3. CASE Misread(c)
  <2>1. call' = [call EXCEPT ![c] = Idle]
        /\ UNCHANGED <<row, created, cache, job, Counts>>
    BY <1>3 DEF Misread, keys, usage, Counts
  <2>2. QED BY <1>1, <2>1, RequestWaits
<1>4. ASSUME NEW pc \in {"log", "count"}, call[c].pc # "idle",
             call' = [call EXCEPT ![c].pc = pc],
             UNCHANGED <<row, created, cache, job, Counts>>
      PROVE  LedgerInv'
  <2> DEFINE r == [call[c] EXCEPT !.pc = pc]
  <2>1. call[c] \in [pc: {"serve", "log", "count"}, key: Ids]
    BY <1>4, CallKinds DEF LedgerInv, KeyTypes
  <2>2. r \in [pc: {"serve", "log", "count"}, key: Ids] /\ r.key = call[c].key
    BY <2>1
  <2>3. r \in Calls
    BY <2>2 DEF Calls
  <2>4. \A id \in Ids : id > created => NewOf(r, id)
    BY <1>4, <2>2 DEF NewOf, LedgerInv, NewIds
  <2>5. call' = [call EXCEPT ![c] = r]
    BY <1>4
  <2> HIDE DEF r
  <2>6. QED BY <1>4, <2>3, <2>4, <2>5, RequestWaits
<1>5. CASE Serve(c)
  BY <1>4, <1>5 DEF Serve, keys, usage, Counts
<1>6. ASSUME NEW size \in Sizes, WriteLog(c, size) PROVE LedgerInv'
  BY <1>4, <1>6 DEF WriteLog, keys, usage, Counts
<1>7. CASE RecordUsage(c)
  <2> DEFINE k == call[c].key
  <2>1. k \in Ids /\ call[c].pc # "idle"
    BY <1>7, CallKinds DEF RecordUsage, LedgerInv, KeyTypes
  <2>2. /\ usageCh' \in Offered(usageCh, UsageCap, k)
        /\ served' = More(served, k, 1)
        /\ lost' = IF usageCh' = usageCh THEN More(lost, k, 1) ELSE lost
        /\ call' = [call EXCEPT ![c] = Idle]
        /\ UNCHANGED <<row, created, cache, job, usageHand>>
    BY <1>7 DEF RecordUsage, keys
  <2>3. KeyTypes
    BY DEF LedgerInv
  <2>4. usageCh' \in Seq(Ids) /\ (usageCh' = Append(usageCh, k) \/ usageCh' = usageCh)
    <3>1. usageCh' = Append(usageCh, k) \/ usageCh' = usageCh
      BY <2>2 DEF Offered
    <3>2. usageCh \in Seq(Ids)
      BY <2>3 DEF KeyTypes
    <3>3. QED BY <2>1, <3>1, <3>2, AppendProperties
  <2>5. served \in [Ids -> Nat] /\ lost \in [Ids -> Nat]
    BY <2>3 DEF KeyTypes
  <2>6. served' \in [Ids -> Nat] /\ lost' \in [Ids -> Nat]
    BY <2>1, <2>2, <2>5, MoreOf
  <2>7. KeyTypes'
    BY <1>1, <2>2, <2>3, <2>4, <2>6, LedgerExcept DEF KeyTypes
  <2>8. \A id \in Ids : id > created => id # k
    BY <2>1 DEF LedgerInv, NewIds, NewOf
  <2>9. \A id \in Ids : id > created => served'[id] = 0 /\ lost'[id] = 0
    BY <2>1, <2>2, <2>5, <2>8, MoreOf DEF LedgerInv, NewIds
  <2>10. \A id \in Ids : id > created => \A i \in DOMAIN usageCh' : usageCh'[i] # id
    <3>1. \A id \in Ids : id > created => \A i \in DOMAIN usageCh : usageCh[i] # id
      BY DEF LedgerInv, NewIds
    <3>2. CASE usageCh' = Append(usageCh, k)
      <4>1. usageCh \in Seq(Ids)
        BY <2>3 DEF KeyTypes
      <4>2. \A i \in DOMAIN usageCh' : usageCh'[i] = k \/ (i \in DOMAIN usageCh /\ usageCh'[i] = usageCh[i])
        BY <2>1, <3>2, <4>1
      <4>3. QED BY <2>8, <3>1, <4>2
    <3>3. CASE usageCh' = usageCh
      BY <3>1, <3>3
    <3>4. QED BY <2>4, <3>2, <3>3
  <2>11. \A d \in Callers, id \in Ids : id > created => NewOf(call'[d], id)
    BY <1>1, <2>2, <2>3 DEF LedgerInv, NewIds, KeyTypes
  <2>12. NewIds'
    BY <2>2, <2>9, <2>10, <2>11 DEF LedgerInv, NewIds
  <2>13. \A id \in Ids :
           InChannel(id)' + lost'[id] = InChannel(id) + lost[id] + (IF id = k THEN 1 ELSE 0)
    <3> SUFFICES ASSUME NEW id \in Ids
                 PROVE  InChannel(id)' + lost'[id]
                          = InChannel(id) + lost[id] + (IF id = k THEN 1 ELSE 0)
      OBVIOUS
    <3>1. usageCh \in Seq(Ids) /\ Held(usageCh, usageHand, id) \in Nat
      BY <2>3, HeldType DEF KeyTypes
    <3>2. /\ InChannel(id) = Held(usageCh, usageHand, id)
          /\ InChannel(id)' = Held(usageCh', usageHand, id)
      BY <2>2 DEF InChannel, Held, Count, Places
    <3>3. lost[id] \in Nat
      BY <2>5
    <3>4. CASE usageCh' = Append(usageCh, k)
      <4>1. usageCh' # usageCh
            /\ InChannel(id)' = InChannel(id) + (IF id = k THEN 1 ELSE 0)
        BY <2>1, <3>1, <3>2, <3>4, HeldAppend
      <4>2. lost'[id] = lost[id]
        BY <2>2, <4>1
      <4>3. QED BY <3>1, <3>2, <3>3, <4>1, <4>2
    <3>5. CASE usageCh' = usageCh
      <4>1. lost'[id] = lost[id] + (IF id = k THEN 1 ELSE 0)
        BY <2>1, <2>2, <2>5, <3>5, MoreOf
      <4>2. InChannel(id)' = InChannel(id)
        BY <3>2, <3>5
      <4>3. QED BY <3>1, <3>2, <3>3, <4>1, <4>2
    <3>6. QED BY <2>4, <3>4, <3>5
  <2>14. \A id \in Ids : served'[id] = served[id] + (IF id = k THEN 1 ELSE 0)
    BY <2>1, <2>2, <2>5, MoreOf
  <2>15. UsageAccounted'
    <3> SUFFICES ASSUME NEW id \in Ids, row[id] # Absent
                 PROVE  row[id].uses + InChannel(id)' + lost'[id] = served'[id]
      BY <2>2 DEF UsageAccounted
    <3>1. row[id].uses + InChannel(id) + lost[id] = served[id]
      BY DEF LedgerInv, UsageAccounted
    <3>2. row[id].uses \in Nat
      BY <2>3 DEF KeyTypes, Tables, Rows
    <3>3. InChannel(id) \in Nat /\ InChannel(id)' \in Nat
      <4>1. Held(usageCh, usageHand, id) \in Nat /\ Held(usageCh', usageHand, id) \in Nat
        BY <2>3, <2>4, HeldType DEF KeyTypes
      <4>2. QED BY <2>2, <4>1 DEF InChannel, Held, Count, Places
    <3>4. lost[id] \in Nat /\ lost'[id] \in Nat /\ served[id] \in Nat
      BY <2>5, <2>6
    <3>5. QED BY <2>13, <2>14, <3>1, <3>2, <3>3, <3>4
  <2>16. QED BY <2>7, <2>12, <2>15 DEF LedgerInv
<1>8. QED BY <1>2, <1>3, <1>5, <1>6, <1>7 DEF Request
(***************************************************************************)
(* The worker behind the usage channel.                                    *)
(***************************************************************************)
LEMMA TakeUsageKeeps ==
  ASSUME LedgerInv, TakeUsage
  PROVE  LedgerInv'
<1>1. /\ usageHand = Absent /\ usageCh # <<>> /\ usageCh \in Seq(Ids)
      /\ usageHand' = Head(usageCh) /\ usageCh' = Tail(usageCh)
      /\ UNCHANGED <<row, created, cache, job, call, served, lost>>
  BY DEF TakeUsage, keys, LedgerInv, KeyTypes
<1>2. usageHand' \in Ids /\ usageCh' \in Seq(Ids)
  BY <1>1, HeadTailProperties
<1>3. KeyTypes'
  BY <1>1, <1>2 DEF LedgerInv, KeyTypes
<1>4. \A id \in Ids : id > created =>
        usageHand' # id /\ \A i \in DOMAIN usageCh' : usageCh'[i] # id
  <2>1. Head(usageCh) = usageCh[1] /\ 1 \in DOMAIN usageCh
    BY <1>1
  <2>2. \A i \in DOMAIN usageCh' : i + 1 \in DOMAIN usageCh /\ usageCh'[i] = usageCh[i + 1]
    BY <1>1
  <2>3. QED BY <1>1, <2>1, <2>2 DEF LedgerInv, NewIds
<1>5. NewIds'
  BY <1>1, <1>4 DEF LedgerInv, NewIds
<1>6. \A id \in Ids : InChannel(id)' = InChannel(id)
  <2> SUFFICES ASSUME NEW id \in Ids PROVE InChannel(id)' = InChannel(id)
    OBVIOUS
  <2>1. Absent # id
    BY AbsentAssumption
  <2>2. Held(Tail(usageCh), Head(usageCh), id) = Held(usageCh, Absent, id)
    BY <1>1, <2>1, HeldTail
  <2>3. /\ InChannel(id) = Held(usageCh, usageHand, id)
        /\ InChannel(id)' = Held(usageCh', usageHand', id)
    BY DEF InChannel, Held, Count, Places
  <2>4. QED BY <1>1, <2>2, <2>3
<1>7. UsageAccounted'
  BY <1>1, <1>6 DEF LedgerInv, UsageAccounted
<1>8. QED BY <1>3, <1>5, <1>7 DEF LedgerInv

\* What both of its ends leave in the channel.
LEMMA HandEmptied ==
  ASSUME LedgerInv, usageHand # Absent, usageHand' = Absent, UNCHANGED usageCh,
         NEW id \in Ids
  PROVE  /\ InChannel(id) \in Nat /\ InChannel(id)' \in Nat
         /\ InChannel(id) = InChannel(id)' + (IF id = usageHand THEN 1 ELSE 0)
<1>1. usageCh \in Seq(Ids) /\ Absent # id
  BY AbsentAssumption DEF LedgerInv, KeyTypes
<1>2. Count(usageCh, id) \in Nat
  BY <1>1, PlacesFinite
<1>3. InChannel(id) = Count(usageCh, id) + (IF usageHand = id THEN 1 ELSE 0)
  BY DEF InChannel, Count, Places
<1>4. InChannel(id)' = Count(usageCh, id) + (IF Absent = id THEN 1 ELSE 0)
  BY DEF InChannel, Count, Places
<1>5. QED BY <1>1, <1>2, <1>3, <1>4

LEMMA IncrementKeeps ==
  ASSUME LedgerInv, IncrementKeyUsage
  PROVE  LedgerInv'
<1> DEFINE k == usageHand
<1>1. /\ k # Absent /\ k \in Ids /\ usageHand' = Absent
      /\ row' = IF row[k] = Absent THEN row ELSE [row EXCEPT ![k].uses = @ + 1]
      /\ UNCHANGED <<created, cache, job, call, usageCh, served, lost>>
      /\ row \in Tables /\ served \in [Ids -> Nat] /\ lost \in [Ids -> Nat]
  BY DEF IncrementKeyUsage, LedgerInv, KeyTypes
<1>2. row[k] # Absent => /\ [row[k] EXCEPT !.uses = @ + 1] \in Rows
                         /\ [row[k] EXCEPT !.uses = @ + 1].uses = row[k].uses + 1
  BY <1>1 DEF Tables, Rows
<1>3. row' \in Tables
  BY <1>1, <1>2, LedgerExcept DEF Tables
<1>4. \A id \in Ids : row'[id] = IF id = k /\ row[k] # Absent
                                 THEN [row[k] EXCEPT !.uses = @ + 1] ELSE row[id]
  BY <1>1 DEF Tables
<1>5. KeyTypes'
  BY <1>1, <1>3 DEF LedgerInv, KeyTypes
<1>6. \A id \in Ids : id > created => row'[id] = Absent
  BY <1>4 DEF LedgerInv, NewIds
<1>7. NewIds'
  BY <1>1, <1>6, AbsentAssumption DEF LedgerInv, NewIds
<1>8. UsageAccounted'
  <2> SUFFICES ASSUME NEW id \in Ids, row'[id] # Absent
               PROVE  row'[id].uses + InChannel(id)' + lost[id] = served[id]
    BY <1>1 DEF UsageAccounted
  <2>1. row[id] # Absent
    BY <1>4
  <2>2. row[id].uses + InChannel(id) + lost[id] = served[id]
    BY <2>1 DEF LedgerInv, UsageAccounted
  <2>3. row[id].uses \in Nat
    BY <1>1, <2>1 DEF Tables, Rows
  <2>4. row'[id].uses = row[id].uses + (IF id = k THEN 1 ELSE 0)
    <3>1. CASE id = k
      BY <1>2, <1>4, <2>1, <3>1
    <3>2. CASE id # k
      <4>1. row'[id] = row[id]
        BY <1>4, <3>2
      <4>2. QED BY <2>3, <3>2, <4>1
    <3>3. QED BY <3>1, <3>2
  <2>5. /\ InChannel(id) \in Nat /\ InChannel(id)' \in Nat
        /\ InChannel(id) = InChannel(id)' + (IF id = k THEN 1 ELSE 0)
    BY <1>1, HandEmptied
  <2>6. lost[id] \in Nat /\ served[id] \in Nat
    BY <1>1
  <2>7. QED BY <2>2, <2>3, <2>4, <2>5, <2>6
<1>9. QED BY <1>5, <1>7, <1>8 DEF LedgerInv

LEMMA IncrementFailedKeeps ==
  ASSUME LedgerInv, IncrementFailed
  PROVE  LedgerInv'
<1> DEFINE k == usageHand
<1>1. /\ k # Absent /\ k \in Ids /\ usageHand' = Absent
      /\ lost' = More(lost, k, 1)
      /\ UNCHANGED <<row, created, cache, job, call, usageCh, served>>
      /\ row \in Tables /\ served \in [Ids -> Nat] /\ lost \in [Ids -> Nat]
  BY DEF IncrementFailed, keys, LedgerInv, KeyTypes
<1>2. /\ lost' \in [Ids -> Nat]
      /\ \A id \in Ids : lost'[id] = lost[id] + (IF id = k THEN 1 ELSE 0)
  BY <1>1, MoreOf
<1>3. KeyTypes'
  BY <1>1, <1>2 DEF LedgerInv, KeyTypes
<1>4. \A id \in Ids : id > created => id # k /\ lost'[id] = 0
  BY <1>2 DEF LedgerInv, NewIds
<1>5. NewIds'
  BY <1>1, <1>4, AbsentAssumption DEF LedgerInv, NewIds
<1>6. UsageAccounted'
  <2> SUFFICES ASSUME NEW id \in Ids, row[id] # Absent
               PROVE  row[id].uses + InChannel(id)' + lost'[id] = served[id]
    BY <1>1 DEF UsageAccounted
  <2>1. row[id].uses + InChannel(id) + lost[id] = served[id]
    BY DEF LedgerInv, UsageAccounted
  <2>2. row[id].uses \in Nat /\ lost[id] \in Nat /\ served[id] \in Nat
    BY <1>1 DEF Tables, Rows
  <2>3. /\ InChannel(id) \in Nat /\ InChannel(id)' \in Nat
        /\ InChannel(id) = InChannel(id)' + (IF id = k THEN 1 ELSE 0)
    BY <1>1, HandEmptied
  <2>4. QED BY <1>2, <2>1, <2>2, <2>3
<1>7. QED BY <1>3, <1>5, <1>6 DEF LedgerInv

(***************************************************************************)
(* The process ends and starts.                                            *)
(***************************************************************************)
LEMMA ExitKeeps ==
  ASSUME LedgerInv, Exit
  PROVE  LedgerInv'
<1>1. /\ lost' = [id \in Ids |-> lost[id] + InChannel(id)] /\ cache' = Empty
      /\ job' = [a \in Admins |-> Idle] /\ call' = [c \in Callers |-> Idle]
      /\ usageCh' = <<>> /\ usageHand' = Absent
      /\ UNCHANGED <<row, created, served>>
      /\ row \in Tables /\ usageCh \in Seq(Ids)
      /\ served \in [Ids -> Nat] /\ lost \in [Ids -> Nat]
  BY DEF Exit, LedgerInv, KeyTypes
<1>2. \A id \in Ids : InChannel(id) \in Nat
  <2> SUFFICES ASSUME NEW id \in Ids PROVE InChannel(id) \in Nat
    OBVIOUS
  <2>1. Held(usageCh, usageHand, id) \in Nat
    BY <1>1, HeldType
  <2>2. QED BY <2>1 DEF InChannel, Held, Count, Places
<1>3. \A id \in Ids : InChannel(id)' = 0
  <2> SUFFICES ASSUME NEW id \in Ids PROVE InChannel(id)' = 0
    OBVIOUS
  <2>1. Count(<<>>, id) = 0
    BY CountAbsent
  <2>2. Absent # id
    BY AbsentAssumption
  <2>3. InChannel(id)' = Count(<<>>, id) + (IF Absent = id THEN 1 ELSE 0)
    BY <1>1 DEF InChannel, Count, Places
  <2>4. QED BY <2>1, <2>2, <2>3
<1>4. \A id \in Ids : id > created => InChannel(id) = 0
  <2> SUFFICES ASSUME NEW id \in Ids, id > created PROVE InChannel(id) = 0
    OBVIOUS
  <2>1. usageHand # id /\ \A i \in DOMAIN usageCh : usageCh[i] # id
    BY DEF LedgerInv, NewIds
  <2>2. Count(usageCh, id) = 0
    BY <2>1, CountAbsent
  <2>3. InChannel(id) = Count(usageCh, id) + (IF usageHand = id THEN 1 ELSE 0)
    BY DEF InChannel, Count, Places
  <2>4. QED BY <2>1, <2>2, <2>3
<1>5. Empty \in Caches /\ \A id \in Ids : Empty[id] = Absent
  BY DEF Empty, Caches
<1>6. \A id \in Ids : lost'[id] = lost[id] + InChannel(id) /\ lost[id] \in Nat
  BY <1>1
<1>7. lost' \in [Ids -> Nat]
  BY <1>1, <1>2
<1>8. KeyTypes'
  BY <1>1, <1>5, <1>7, JobsMade DEF LedgerInv, KeyTypes, Calls
<1>9. \A id \in Ids : id > created => lost'[id] = 0
  BY <1>4, <1>6 DEF LedgerInv, NewIds
<1>10. NewIds'
  BY <1>1, <1>5, <1>9, AbsentAssumption DEF LedgerInv, NewIds, NewIn, NewOf, Idle
<1>11. UsageAccounted'
  <2> SUFFICES ASSUME NEW id \in Ids, row[id] # Absent
               PROVE  row[id].uses + InChannel(id)' + lost'[id] = served[id]
    BY <1>1 DEF UsageAccounted
  <2>1. row[id].uses + InChannel(id) + lost[id] = served[id]
    BY DEF LedgerInv, UsageAccounted
  <2>2. row[id].uses \in Nat
    BY <1>1 DEF Tables, Rows
  <2>3. QED BY <1>2, <1>3, <1>6, <2>1, <2>2
<1>12. QED BY <1>8, <1>10, <1>11 DEF LedgerInv

LEMMA BootKeeps ==
  ASSUME LedgerInv, Boot
  PROVE  LedgerInv'
<1>1. UNCHANGED <<row, created, job, call, Counts>> /\ (cache' = Copy \/ cache' = Empty)
  BY DEF Boot, usage, Counts
<1>2. cache' \in Caches /\ \A id \in Ids : row[id] = Absent => cache'[id] = Absent
  BY <1>1, CopyType DEF Empty, Caches, LedgerInv, KeyTypes
<1>3. KeyTypes'
  BY <1>1, <1>2 DEF LedgerInv, KeyTypes, Counts
<1>4. NewIds'
  BY <1>1, <1>2 DEF LedgerInv, NewIds, Counts
<1>5. UsageAccounted'
  BY <1>1 DEF LedgerInv, UsageAccounted, InChannel, Counts
<1>6. QED BY <1>3, <1>4, <1>5 DEF LedgerInv

(***************************************************************************)
(* The log and the calendar do not touch any of this.                      *)
(***************************************************************************)
LEMMA LogKeeps ==
  ASSUME LedgerInv, TakeLog \/ InsertLog \/ Cleaning \/ CleanFailed \/ Dawn
  PROVE  LedgerInv'
<1>1. CASE TakeLog
  BY <1>1, NothingHappens DEF TakeLog, keys, usage, Counts
<1>2. CASE InsertLog
  BY <1>2, NothingHappens DEF InsertLog, keys, usage, Counts
<1>3. CASE CleanByAge
  BY <1>3, NothingHappens DEF CleanByAge, keys, usage, Counts
<1>4. CASE Measure
  BY <1>4, NothingHappens DEF Measure, keys, usage, Counts
<1>5. CASE CleanBySize
  BY <1>5, NothingHappens DEF CleanBySize, keys, usage, Counts
<1>6. CASE CleanFailed
  BY <1>6, NothingHappens DEF CleanFailed, keys, usage, Counts
<1>7. CASE Dawn
  BY <1>7, NothingHappens DEF Dawn, keys, usage, Counts
<1>8. QED BY <1>1, <1>2, <1>3, <1>4, <1>5, <1>6, <1>7 DEF Cleaning

LEMMA LedgerNext == LedgerInv /\ [Next]_vars => LedgerInv'
<1> SUFFICES ASSUME LedgerInv, [Next]_vars PROVE LedgerInv'
  OBVIOUS
<1>1. CASE UNCHANGED vars
  BY <1>1, NothingHappens DEF vars, keys, usage, Counts
<1>2. CASE Next
  BY <1>2, PanelKeeps, RequestKeeps, TakeUsageKeeps, IncrementKeeps,
     IncrementFailedKeeps, LogKeeps, ExitKeeps, BootKeeps DEF Next
<1>3. QED BY <1>1, <1>2

LEMMA LedgerAlways == Spec => []LedgerInv
<1>1. QED BY LedgerInit, LedgerNext, PTL DEF Spec

(* Every request served under a key is counted once, or is known to be     *)
(* lost, for any number of keys, handlers and requests and any capacity of *)
(* the usage channel.                                                      *)
THEOREM UsageAddsUp == Spec => []UsageAccounted
<1>1. LedgerInv => UsageAccounted
  BY DEF LedgerInv
<1>2. QED BY LedgerAlways, <1>1, PTL

(* A deleted key stays deleted, whatever was under way when it was deleted. *)
THEOREM DeletedForGood == Spec => DeletedStaysDeleted
<1>1. LedgerInv /\ [Next]_vars
        => [\A id \in 1..created : row[id] = Absent => row'[id] = Absent]_vars
  <2> SUFFICES ASSUME KeyTypes, Next, NEW id \in 1..created, row[id] = Absent
               PROVE  row'[id] = Absent
    BY DEF LedgerInv
  <2>1. id \in Ids /\ row \in Tables /\ id # created + 1
    BY BoundAssumption DEF KeyTypes, Ids
  <2>2. ASSUME UNCHANGED row PROVE row'[id] = Absent
    BY <2>2
  <2>3. ASSUME NEW a \in Admins, Insert(a) PROVE row'[id] = Absent
    BY <2>1, <2>3 DEF Insert, Tables
  <2>4. ASSUME NEW a \in Admins, Write(a) PROVE row'[id] = Absent
    <3>1. job[a].id \in Ids
      BY <2>4, JobKinds DEF Write, KeyTypes
    <3>2. QED BY <2>1, <2>4, <3>1 DEF Write, Written, Tables
  <2>5. ASSUME NEW a \in Admins, Delete(a) PROVE row'[id] = Absent
    BY <2>1, <2>5 DEF Delete, Tables
  <2>6. ASSUME IncrementKeyUsage PROVE row'[id] = Absent
    BY <2>1, <2>6 DEF IncrementKeyUsage, KeyTypes, Tables
  <2>7. ASSUME NEW a \in Admins,
               \/ \E p \in Plains : Create(a, p)
               \/ \E k \in Ids, s \in Status \cup {Absent} : Update(a, k, s)
               \/ \E k \in Ids : Discard(a, k)
               \/ Get(a) \/ List(a) \/ Set(a) \/ Failed(a)
        PROVE  UNCHANGED row
    BY <2>7 DEF Create, Update, Discard, Enter, Get, List, Set, Failed, keys
  <2>8. ASSUME NEW c \in Callers,
               (\E p \in Plains : Authenticate(c, p)) \/ Misread(c) \/ Request(c)
        PROVE  UNCHANGED row
    BY <2>8 DEF Authenticate, Misread, Request, Serve, RecordUsage, WriteLog, keys
  <2>9. ASSUME \/ TakeUsage \/ IncrementFailed \/ TakeLog \/ InsertLog
               \/ Cleaning \/ CleanFailed \/ Dawn \/ Exit \/ Boot
        PROVE  UNCHANGED row
    BY <2>9 DEF TakeUsage, IncrementFailed, TakeLog, InsertLog, Cleaning, CleanByAge,
                Measure, CleanBySize, CleanFailed, Dawn, Exit, Boot, keys
  <2>10. QED BY <2>2, <2>3, <2>4, <2>5, <2>6, <2>7, <2>8, <2>9 DEF Next, Handler
<1>2. QED BY LedgerAlways, <1>1, PTL DEF Spec, DeletedStaysDeleted
(***************************************************************************)
(* The copy in memory is the one the rows ask for.                         *)
(***************************************************************************)
Pending(j) == j.pc \in {"list", "set"}

\* A handler that met no other one is the only one, so what it read is still
\* what the rows are; and if nothing has gone wrong, the copy is fresh or
\* about to be replaced.
CopyInv ==
  /\ \A a \in Admins : alone[a] /\ job[a] # Idle => Alone(a)
  /\ \A a \in Admins : alone[a] /\ job[a].pc = "set" => job[a].keys = Copy
  /\ up /\ calm => cache = Copy \/ \E a \in Admins : Pending(job[a])

\* A handler goes on; if it changes a row it reloads next.
LEMMA HandlerCopies ==
  ASSUME KeyTypes, CopyInv, NEW a \in Admins, NEW j, job[a].pc # "idle", Goto(a, j),
         UNCHANGED <<up, cache, alone>>, calm' => calm,
         row' = row \/ j.pc = "list",
         j.pc = "set" => j.keys = Copy /\ row' = row,
         calm' /\ Pending(job[a]) => Pending(j)
  PROVE  CopyInv'
<1>1. \A b \in Admins : job'[b] = IF b = a THEN j ELSE job[b]
  BY DEF Goto, KeyTypes
<1>2. row' = row => Copy' = Copy
  BY DEF Copy
<1>3. job[a] # Idle
  BY DEF Idle
<1>4. ASSUME NEW b \in Admins, b # a, job[b] # Idle PROVE ~alone[b]
  BY <1>3, <1>4 DEF CopyInv, Alone
<1>5. ASSUME NEW b \in Admins, alone'[b], job'[b] # Idle PROVE Alone(b)'
  <2>1. b = a
    BY <1>1, <1>4, <1>5
  <2>2. Alone(a)
    BY <1>3, <1>5, <2>1 DEF CopyInv
  <2>3. QED BY <1>1, <2>1, <2>2 DEF Alone
<1>6. ASSUME NEW b \in Admins, alone'[b], job'[b].pc = "set" PROVE job'[b].keys = Copy'
  <2>1. job'[b] # Idle
    BY <1>6 DEF Idle
  <2>2. b = a
    BY <1>1, <1>4, <1>6, <2>1
  <2>3. QED BY <1>1, <1>2, <1>6, <2>2
<1>7. ASSUME up', calm' PROVE cache' = Copy' \/ \E b \in Admins : Pending(job'[b])
  <2>1. CASE Pending(j)
    BY <1>1, <2>1
  <2>2. CASE ~Pending(j)
    <3>1. row' = row /\ ~Pending(job[a])
      BY <1>7, <2>2 DEF Pending
    <3>2. CASE cache = Copy
      BY <1>2, <3>1, <3>2
    <3>3. CASE \E b \in Admins : Pending(job[b])
      BY <1>1, <3>1, <3>3
    <3>4. QED BY <1>7, <3>2, <3>3 DEF CopyInv
  <2>3. QED BY <2>1, <2>2
<1>8. QED BY <1>5, <1>6, <1>7 DEF CopyInv

LEMMA EnterCopies ==
  ASSUME KeyTypes, CopyInv, NEW a \in Admins, NEW j, j.pc \notin {"idle", "list", "set"},
         Enter(a, j)
  PROVE  CopyInv'
<1>1. \A b \in Admins : job'[b] = IF b = a THEN j ELSE job[b]
  BY DEF Enter, Goto, KeyTypes
<1>2. Copy' = Copy /\ UNCHANGED <<up, calm, cache>> /\ job[a] = Idle
  BY DEF Enter, Copy, keys
<1>3. \A b \in Admins : alone'[b] = IF b = a THEN Alone(a) ELSE alone[b] /\ job[b] = Idle
  BY DEF Enter
<1>4. \A b \in Admins : b # a /\ alone'[b] => job'[b] = Idle
  BY <1>1, <1>3
<1>5. \A b \in Admins : alone'[b] /\ job'[b] # Idle => Alone(b)'
  BY <1>1, <1>3, <1>4 DEF Alone
<1>6. \A b \in Admins : alone'[b] /\ job'[b].pc = "set" => job'[b].keys = Copy'
  BY <1>1, <1>4 DEF Idle
<1>7. \A b \in Admins : Pending(job[b]) => Pending(job'[b])
  BY <1>1, <1>2 DEF Pending, Idle
<1>8. QED BY <1>2, <1>5, <1>6, <1>7 DEF CopyInv

LEMMA SetCopies ==
  ASSUME KeyTypes, CopyInv, NEW a \in Admins, Set(a)
  PROVE  CopyInv'
<1>1. \A b \in Admins : job'[b] = IF b = a THEN Idle ELSE job[b]
  BY DEF Set, Goto, KeyTypes
<1>2. Copy' = Copy /\ UNCHANGED <<up, alone>> /\ calm' = alone[a] /\ cache' = job[a].keys
  BY DEF Set, Copy
<1>3. job[a].pc = "set" /\ job[a] # Idle
  BY DEF Set, Idle
<1>4. \A b \in Admins : alone'[b] /\ job'[b] # Idle => Alone(b)'
  BY <1>1, <1>2 DEF CopyInv, Alone
<1>5. \A b \in Admins : alone'[b] /\ job'[b].pc = "set" => job'[b].keys = Copy'
  BY <1>1, <1>2 DEF CopyInv, Idle
<1>6. calm' => cache' = Copy'
  BY <1>2, <1>3 DEF CopyInv
<1>7. QED BY <1>4, <1>5, <1>6 DEF CopyInv

LEMMA PanelCopies ==
  ASSUME KeyTypes, CopyInv, NEW a \in Admins,
         \/ \E p \in Plains : Create(a, p)
         \/ \E id \in Ids, s \in Status \cup {Absent} : Update(a, id, s)
         \/ \E id \in Ids : Discard(a, id)
         \/ Handler(a) \/ Failed(a)
  PROVE  CopyInv'
<1>1. ASSUME NEW p \in Plains, Create(a, p) PROVE CopyInv'
  <2>1. [pc |-> "insert", plain |-> p].pc \notin {"idle", "list", "set"}
    OBVIOUS
  <2>2. QED BY <1>1, <2>1, EnterCopies DEF Create
<1>2. ASSUME NEW id \in Ids, NEW s \in Status \cup {Absent}, Update(a, id, s)
      PROVE  CopyInv'
  <2>1. [pc |-> "get", id |-> id, status |-> s].pc \notin {"idle", "list", "set"}
    OBVIOUS
  <2>2. QED BY <1>2, <2>1, EnterCopies DEF Update
<1>3. ASSUME NEW id \in Ids, Discard(a, id) PROVE CopyInv'
  <2>1. [pc |-> "delete", id |-> id].pc \notin {"idle", "list", "set"}
    OBVIOUS
  <2>2. QED BY <1>3, <2>1, EnterCopies DEF Discard
<1>4. CASE Insert(a) \/ Write(a) \/ Delete(a)
  <2>1. /\ Goto(a, ThenReload) /\ UNCHANGED <<up, cache, alone, calm>>
        /\ job[a].pc # "idle"
    BY <1>4 DEF Insert, Write, Delete, Changing
  <2>2. ThenReload.pc = "list" /\ Pending(ThenReload)
    BY DEF ThenReload, Pending
  <2>3. QED BY <2>1, <2>2, HandlerCopies
<1>5. CASE Get(a)
  <2> DEFINE id == job[a].id
             s == job[a].status
             j == IF row[id] = Absent THEN Idle
                  ELSE [pc |-> "write", id |-> id,
                        row |-> IF s = Absent THEN row[id]
                                ELSE [row[id] EXCEPT !.status = s]]
  <2>1. j.pc \in {"idle", "write"}
    BY DEF Idle
  <2>2. Goto(a, j) /\ UNCHANGED <<row, up, cache, alone, calm>> /\ job[a].pc = "get"
    BY <1>5 DEF Get, Changing
  <2> HIDE DEF j
  <2>3. QED BY <2>1, <2>2, HandlerCopies DEF Pending
<1>6. CASE List(a)
  <2> DEFINE j == [pc |-> "set", keys |-> Copy]
  <2>1. /\ Goto(a, j) /\ UNCHANGED <<row, up, cache, alone, calm>> /\ job[a].pc = "list"
        /\ j.pc = "set" /\ j.keys = Copy
    BY <1>6 DEF List, Changing
  <2> HIDE DEF j
  <2>2. QED BY <2>1, HandlerCopies DEF Pending
<1>7. CASE Failed(a)
  <2>1. /\ Goto(a, Idle) /\ UNCHANGED <<row, up, cache, alone>>
        /\ calm' = (calm /\ job[a].pc # "list") /\ job[a].pc \notin {"idle", "set"}
    BY <1>7 DEF Failed, keys
  <2>2. Idle.pc = "idle"
    BY DEF Idle
  <2>3. QED BY <2>1, <2>2, HandlerCopies DEF Pending
<1>8. QED BY <1>1, <1>2, <1>3, <1>4, <1>5, <1>6, <1>7, SetCopies DEF Handler

\* What happens beside the panel changes at most the count of a row.
LEMMA BesideCopies ==
  ASSUME CopyInv, UNCHANGED <<up, cache, job, alone, calm>>, Copy' = Copy
  PROVE  CopyInv'
BY DEF CopyInv, Alone

LEMMA IncrementCopies ==
  ASSUME KeyTypes, CopyInv, IncrementKeyUsage
  PROVE  CopyInv'
<1>1. usageHand \in Ids /\ row \in Tables
  BY DEF KeyTypes, IncrementKeyUsage
<1>2. ASSUME NEW id \in Ids
      PROVE  IF row[id] = Absent THEN row'[id] = Absent
             ELSE row'[id] # Absent /\ row'[id].plain = row[id].plain
                  /\ row'[id].status = row[id].status
  <2>1. CASE row[usageHand] = Absent
    BY <2>1 DEF IncrementKeyUsage
  <2>2. CASE row[usageHand] # Absent
    <3>1. row[usageHand] \in Rows
      BY <1>1, <2>2 DEF Tables
    <3>2. [row[usageHand] EXCEPT !.uses = @ + 1] \in Rows
      BY <3>1 DEF Rows
    <3>3. row' = [row EXCEPT ![usageHand] = [row[usageHand] EXCEPT !.uses = @ + 1]]
      BY <2>2 DEF IncrementKeyUsage
    <3>4. CASE id # usageHand
      BY <1>1, <3>3, <3>4 DEF Tables
    <3>5. CASE id = usageHand
      BY <1>1, <2>2, <3>1, <3>2, <3>3, <3>5, AbsentAssumption DEF Tables, Rows
    <3>6. QED BY <3>4, <3>5
  <2>3. QED BY <2>1, <2>2
<1>3. Copy' = Copy
  BY <1>2 DEF Copy
<1>4. QED BY <1>3, BesideCopies DEF IncrementKeyUsage

LEMMA StopCopies ==
  ASSUME KeyTypes, CopyInv, Exit \/ Boot
  PROVE  CopyInv'
<1>1. Copy' = Copy
  BY DEF Exit, Boot, Copy
<1>2. CASE Exit
  <2>1. \A a \in Admins : job'[a] = Idle
    BY <1>2 DEF Exit
  <2>2. up' = FALSE
    BY <1>2 DEF Exit
  <2>3. QED BY <2>1, <2>2 DEF CopyInv, Idle
<1>3. CASE Boot
  <2>1. UNCHANGED <<job, alone>> /\ (calm' => cache' = Copy)
    BY <1>3 DEF Boot
  <2>2. QED BY <1>1, <2>1 DEF CopyInv, Alone
<1>4. QED BY <1>2, <1>3

LEMMA CopyNext == KeyTypes /\ CopyInv /\ [Next]_vars => CopyInv'
<1> SUFFICES ASSUME KeyTypes, CopyInv, [Next]_vars PROVE CopyInv'
  OBVIOUS
<1>1. ASSUME UNCHANGED <<up, row, cache, job, alone, calm>> PROVE CopyInv'
  <2>1. Copy' = Copy
    BY <1>1 DEF Copy
  <2>2. QED BY <1>1, <2>1, BesideCopies
<1>2. ASSUME NEW c \in Callers,
             (\E p \in Plains : Authenticate(c, p)) \/ Misread(c) \/ Request(c)
      PROVE  CopyInv'
  BY <1>1, <1>2 DEF Authenticate, Misread, Request, Serve, RecordUsage, WriteLog, keys
<1>3. ASSUME \/ TakeUsage \/ IncrementFailed \/ TakeLog \/ InsertLog
             \/ Cleaning \/ CleanFailed \/ Dawn
      PROVE  CopyInv'
  BY <1>1, <1>3 DEF TakeUsage, IncrementFailed, TakeLog, InsertLog, Cleaning, CleanByAge,
                    Measure, CleanBySize, CleanFailed, Dawn, keys
<1>4. CASE UNCHANGED vars
  BY <1>1, <1>4 DEF vars, keys
<1>5. QED BY <1>2, <1>3, <1>4, PanelCopies, IncrementCopies, StopCopies DEF Next

\* A copy that is fresh lets in whom the rows would.
LEMMA CopyAdmits ==
  ASSUME MaxKeys \in Nat, row \in Tables, NEW p
  PROVE  Admitted(Copy, p) = Admitted(row, p)
<1>1. \A id \in Ids :
        /\ Copy[id] = Absent <=> row[id] = Absent
        /\ row[id] # Absent => Copy[id].plain = row[id].plain
                               /\ Copy[id].status = row[id].status
  <2> SUFFICES ASSUME NEW id \in Ids
               PROVE  /\ Copy[id] = Absent <=> row[id] = Absent
                      /\ row[id] # Absent => Copy[id].plain = row[id].plain
                                             /\ Copy[id].status = row[id].status
    OBVIOUS
  <2>1. row[id] # Absent =>
          [plain |-> row[id].plain, status |-> row[id].status] \in Keys
    BY DEF Tables, Rows, Keys
  <2>2. QED BY <2>1, AbsentAssumption DEF Copy
<1>2. Matches(Copy, p) = Matches(row, p)
  BY <1>1 DEF Matches
<1>3. Found(Copy, p) = Found(row, p)
  BY <1>2 DEF Found
<1>4. CASE Matches(row, p) = {}
  BY <1>3, <1>4 DEF Admitted, Found
<1>5. CASE Matches(row, p) # {}
  <2> DEFINE M == Matches(row, p)
  <2>1. M \in SUBSET Nat
    BY DEF Matches, Ids
  <2>2. \E id \in M : \A o \in M : id <= o
    BY <1>5, <2>1, Least
  <2>3. Found(row, p) \in M
    BY <1>5, <2>2 DEF Found
  <2>4. Found(row, p) \in Ids /\ row[Found(row, p)] # Absent
    BY <2>3 DEF Matches
  <2>5. QED BY <1>1, <1>3, <2>4 DEF Admitted
<1>6. QED BY <1>4, <1>5

(* Once a change that met no other one has been answered, the requests that  *)
(* are let in are those the rows allow, for any number of keys, handlers and *)
(* failures before it, and whatever usage is counted meanwhile: a handler    *)
(* that overlapped nobody copies the rows as they still are (reload), and a  *)
(* count changes nothing Authenticate reads.                                 *)
THEOREM CopyObeysRows == Spec => []KeysObeyed
<1>1. Init => CopyInv
  BY DEF Init, CopyInv, Alone, Idle
<1>2. KeyTypes /\ CopyInv => KeysObeyed
  <2> SUFFICES ASSUME KeyTypes, CopyInv, up, calm, \A a \in Admins : job[a] = Idle,
                      NEW p \in Plains
               PROVE  Admitted(cache, p) = Admitted(row, p)
    BY DEF KeysObeyed
  <2>1. cache = Copy
    BY DEF CopyInv, Pending, Idle
  <2>2. QED BY <2>1, CopyAdmits, BoundAssumption DEF KeyTypes
<1>3. LedgerInv => KeyTypes
  BY DEF LedgerInv
<1>4. QED BY LedgerAlways, CopyNext, <1>1, <1>2, <1>3, PTL DEF Spec

(***************************************************************************)
(* Folds over a sequence: that there is one, and of what kind its value    *)
(* is.  Both are shown with the least length at which they would fail.     *)
(***************************************************************************)
LEMMA Greatest ==
  ASSUME NEW k \in Nat, NEW s \in SUBSET (1..k), s # {}
  PROVE  Max(s) \in s /\ \A x \in s : x <= Max(s)
<1> DEFINE U == {b \in Nat : \A x \in s : x <= b}
<1>1. k \in U
  OBVIOUS
<1>2. PICK b \in U : \A c \in U : b <= c
  <2>1. U \in SUBSET Nat /\ U # {}
    BY <1>1
  <2> HIDE DEF U
  <2>2. QED BY <2>1, Least
<1>3. b \in s
  <2> SUFFICES ASSUME b \notin s PROVE FALSE
    OBVIOUS
  <2>1. PICK x \in s : TRUE
    OBVIOUS
  <2>2. b >= 1 /\ b - 1 \in Nat
    BY <2>1
  <2>3. b - 1 \in U
    BY <2>2
  <2>4. QED BY <1>2, <2>2, <2>3
<1>4. \A x \in s : b >= x
  OBVIOUS
<1>5. QED BY <1>3, <1>4 DEF Max

LEMMA WithoutGreatest ==
  ASSUME NEW k \in Nat, NEW s \in SUBSET (1..k), s # {}
  PROVE  /\ Max(s) \in 1..k
         /\ k \in s => Max(s) = k
         /\ s \ {Max(s)} \in SUBSET (1..(k - 1))
<1>1. PICK m : m = Max(s)
  OBVIOUS
<1>2. m \in s /\ \A x \in s : x <= m /\ x \in 1..k
  BY <1>1, Greatest
<1>3. m \in 1..k /\ (k \in s => m = k)
  BY <1>2
<1>4. \A x \in s \ {m} : x \in 1..(k - 1)
  BY <1>2, <1>3
<1>5. QED BY <1>1, <1>3, <1>4

\* The fold that begins with b and takes the place i with the function o.
Folds(g, b, o, k) ==
  \A s \in SUBSET (1..k) :
    g[s] = IF s = {} THEN b ELSE o[<<g[s \ {Max(s)}], Max(s)>>]

LEMMA FoldOneMore ==
  ASSUME NEW V, NEW b \in V, NEW n \in Nat, NEW o \in [V \X (1..n) -> V],
         NEW k \in 1..n, NEW g \in [SUBSET (1..(k - 1)) -> V], Folds(g, b, o, k - 1)
  PROVE  \E f \in [SUBSET (1..k) -> V] : Folds(f, b, o, k)
<1> DEFINE f == [s \in SUBSET (1..k) |-> IF k \in s THEN o[<<g[s \ {k}], k>>] ELSE g[s]]
<1>1. \A s \in SUBSET (1..k) : /\ s \ {k} \in SUBSET (1..(k - 1))
                               /\ k \notin s => s \in SUBSET (1..(k - 1))
  OBVIOUS
<1>2. f \in [SUBSET (1..k) -> V]
  BY <1>1
<1>3. ASSUME NEW s \in SUBSET (1..k)
      PROVE  f[s] = IF s = {} THEN b ELSE o[<<f[s \ {Max(s)}], Max(s)>>]
  <2>1. CASE k \in s
    <3>1. Max(s) = k
      BY <2>1, WithoutGreatest
    <3>2. s \ {k} \in SUBSET (1..k) /\ f[s \ {k}] = g[s \ {k}]
      BY <1>1
    <3>3. QED BY <2>1, <3>1, <3>2
  <2>2. CASE k \notin s
    <3>1. s \in SUBSET (1..(k - 1)) /\ f[s] = g[s]
      BY <1>1, <2>2
    <3>2. CASE s = {}
      BY <3>1, <3>2 DEF Folds
    <3>3. CASE s # {}
      <4>1. g[s] = o[<<g[s \ {Max(s)}], Max(s)>>]
        BY <3>1, <3>3 DEF Folds
      <4>2. f[s \ {Max(s)}] = g[s \ {Max(s)}]
        BY <2>2
      <4>3. QED BY <3>1, <3>3, <4>1, <4>2
    <3>4. QED BY <3>2, <3>3
  <2>3. QED BY <2>1, <2>2
<1> HIDE DEF f
<1>4. QED BY <1>2, <1>3 DEF Folds

LEMMA FoldIs ==
  ASSUME NEW V, NEW b \in V, NEW n \in Nat, NEW o \in [V \X (1..n) -> V]
  PROVE  \E g \in [SUBSET (1..n) -> V] : Folds(g, b, o, n)
<1> DEFINE Some(k) == \E g \in [SUBSET (1..k) -> V] : Folds(g, b, o, k)
           Bad == {k \in 0..n : ~Some(k)}
<1>1. Some(0)
  <2> DEFINE g == [s \in SUBSET (1..0) |-> b]
  <2>1. g \in [SUBSET (1..0) -> V] /\ \A s \in SUBSET (1..0) : s = {}
    OBVIOUS
  <2>2. Folds(g, b, o, 0)
    BY <2>1 DEF Folds
  <2>3. QED BY <2>1, <2>2
<1>2. Bad = {}
  <2> SUFFICES ASSUME Bad # {} PROVE FALSE
    OBVIOUS
  <2>1. Bad \in SUBSET Nat
    OBVIOUS
  <2>2. PICK k \in Bad : \A j \in Bad : k <= j
    <3> HIDE DEF Bad
    <3>1. QED BY <2>1, Least
  <2>3. k \in 1..n /\ ~Some(k)
    <3>1. k \in 0..n /\ ~Some(k)
      OBVIOUS
    <3> HIDE DEF Some
    <3>2. QED BY <1>1, <3>1
  <2>4. Some(k - 1)
    <3> HIDE DEF Some
    <3>1. k - 1 \in 0..n /\ k - 1 \notin Bad
      BY <2>2, <2>3
    <3>2. QED BY <3>1
  <2>5. PICK g \in [SUBSET (1..(k - 1)) -> V] : Folds(g, b, o, k - 1)
    BY <2>4
  <2>6. QED BY <2>3, <2>5, FoldOneMore
<1>3. n \in 0..n
  OBVIOUS
<1>4. Some(n)
  <2> HIDE DEF Some
  <2>1. QED BY <1>2, <1>3
<1>5. QED BY <1>4

LEMMA FoldTyped ==
  ASSUME NEW V, NEW n \in Nat, NEW h, h[{}] \in V,
         \A s \in SUBSET (1..n) : s # {} /\ h[s \ {Max(s)}] \in V => h[s] \in V
  PROVE  \A s \in SUBSET (1..n) : h[s] \in V
<1> DEFINE Bad == {k \in 0..n : \E s \in SUBSET (1..k) : h[s] \notin V}
<1>1. Bad = {}
  <2> SUFFICES ASSUME Bad # {} PROVE FALSE
    OBVIOUS
  <2>1. Bad \in SUBSET Nat
    OBVIOUS
  <2>2. PICK k \in Bad : \A j \in Bad : k <= j
    <3> HIDE DEF Bad
    <3>1. QED BY <2>1, Least
  <2>3. PICK s \in SUBSET (1..k) : h[s] \notin V
    OBVIOUS
  <2>4. k \in 0..n /\ s \in SUBSET (1..n) /\ s # {}
    <3>1. k \in 0..n
      OBVIOUS
    <3>2. s # {}
      BY <2>3
    <3>3. 1..k \subseteq 1..n
      BY <3>1
    <3>4. QED BY <3>1, <3>2, <3>3
  <2>5. k - 1 \in 0..n /\ s \ {Max(s)} \in SUBSET (1..(k - 1))
    <3>1. Max(s) \in 1..k
      BY <2>4, WithoutGreatest
    <3>2. QED BY <2>4, <3>1, WithoutGreatest
  <2>6. h[s \ {Max(s)}] \in V
    <3>1. k - 1 \notin Bad
      <4> HIDE DEF Bad
      <4>1. QED BY <2>2, <2>4, <2>5
    <3>2. QED BY <2>5, <3>1
  <2>7. QED BY <2>3, <2>4, <2>6
<1>2. n \notin Bad
  BY <1>1
<1>3. QED BY <1>2

(***************************************************************************)
(* The bytes of some rows, and the rows that are young enough: the         *)
(* functions the folds of Total and Young are made of.                     *)
(***************************************************************************)
Summed(h, ls) ==
  [s \in SUBSET DOMAIN ls |-> IF s = {} THEN 0 ELSE h[s \ {Max(s)}] + ls[Max(s)].size]
Picked(h, ls) ==
  [s \in SUBSET DOMAIN ls |->
     IF s = {} THEN <<>>
     ELSE IF ls[Max(s)].day < day - Retention THEN h[s \ {Max(s)}]
          ELSE Append(h[s \ {Max(s)}], ls[Max(s)])]

LEMMA TotalIs ==
  ASSUME NEW ls
  PROVE  Total(ls) = (CHOOSE h : h = Summed(h, ls))[DOMAIN ls]
  BY DEF Total, FoldLeft, MapThenFoldSet, Summed

LEMMA YoungIs ==
  ASSUME NEW ls
  PROVE  Young(ls) = (CHOOSE h : h = Picked(h, ls))[DOMAIN ls]
  BY DEF Young, FoldLeft, MapThenFoldSet, Picked

LEMMA TotalType ==
  ASSUME Sizes \subseteq Nat \ {0}, NEW ls \in Seq(Entries)
  PROVE  Total(ls) \in Nat /\ (Len(ls) = 1 => Total(ls) = ls[1].size)
<1>1. PICK n \in Nat : n = Len(ls)
  OBVIOUS
<1>2. DOMAIN ls = 1..n /\ \A i \in 1..n : ls[i].size \in Nat
  <2>1. \A i \in 1..n : ls[i] \in Entries
    BY <1>1
  <2>2. \A e \in Entries : e.size \in Nat
    BY DEF Entries
  <2>3. QED BY <1>1, <2>1, <2>2
<1>3. \E g : g = Summed(g, ls)
  <2> DEFINE o == [p \in Nat \X (1..n) |-> p[1] + ls[p[2]].size]
  <2>1. o \in [Nat \X (1..n) -> Nat]
    BY <1>2
  <2>2. PICK g \in [SUBSET (1..n) -> Nat] : Folds(g, 0, o, n)
    <3> HIDE DEF o
    <3>1. QED BY <2>1, FoldIs
  <2>3. ASSUME NEW s \in SUBSET (1..n), s # {}
        PROVE  g[s] = g[s \ {Max(s)}] + ls[Max(s)].size
    <3>1. PICK m : m = Max(s)
      OBVIOUS
    <3>2. m \in 1..n /\ s \ {m} \in SUBSET (1..n)
      BY <2>3, <3>1, WithoutGreatest
    <3>3. g[s] = o[<<g[s \ {m}], m>>]
      BY <2>2, <2>3, <3>1 DEF Folds
    <3>4. g[s \ {m}] \in Nat
      BY <3>2
    <3>5. QED BY <3>1, <3>2, <3>3, <3>4
  <2>4. g[{}] = 0
    BY <2>2 DEF Folds
  <2>5. g = [s \in SUBSET (1..n) |->
               IF s = {} THEN 0 ELSE g[s \ {Max(s)}] + ls[Max(s)].size]
    BY <2>3, <2>4
  <2>6. QED BY <1>2, <2>5 DEF Summed
<1>4. PICK h : h = (CHOOSE g : g = Summed(g, ls))
  OBVIOUS
<1>5. h = Summed(h, ls)
  BY <1>3, <1>4
<1>6. \A s \in SUBSET (1..n) :
        h[s] = IF s = {} THEN 0 ELSE h[s \ {Max(s)}] + ls[Max(s)].size
  BY <1>2, <1>5 DEF Summed
<1>7. h[{}] = 0
  BY <1>6
<1>8. ASSUME NEW s \in SUBSET (1..n), s # {}, h[s \ {Max(s)}] \in Nat
      PROVE  h[s] \in Nat
  <2>1. PICK m : m = Max(s)
    OBVIOUS
  <2>2. ls[m].size \in Nat
    BY <1>2, <1>8, <2>1, WithoutGreatest
  <2>3. h[s] = h[s \ {m}] + ls[m].size
    BY <1>6, <1>8, <2>1
  <2>4. QED BY <1>8, <2>1, <2>2, <2>3
<1>9. \A s \in SUBSET (1..n) : h[s] \in Nat
  <2> DEFINE V == Nat
  <2>1. h[{}] \in V
    BY <1>7
  <2>2. \A s \in SUBSET (1..n) : s # {} /\ h[s \ {Max(s)}] \in V => h[s] \in V
    BY <1>8
  <2> HIDE DEF V
  <2>3. \A s \in SUBSET (1..n) : h[s] \in V
    BY <2>1, <2>2, FoldTyped
  <2>4. QED BY <2>3 DEF V
<1>10. Total(ls) = h[1..n]
  BY <1>2, <1>4, TotalIs
<1>11. ASSUME n = 1
       PROVE  h[1..n] = ls[1].size
  <2>1. 1..n = {1} /\ 1 \in Nat
    BY <1>11
  <2>2. Max({1}) = 1
    BY <1>11, <2>1, WithoutGreatest
  <2>3. PICK d : d = {1} \ {Max({1})}
    OBVIOUS
  <2>4. d = {}
    BY <2>2, <2>3
  <2>5. h[{1}] = h[d] + ls[1].size
    BY <1>6, <2>1, <2>2, <2>3
  <2>6. ls[1].size \in Nat
    BY <1>2, <1>11
  <2>7. h[{1}] = 0 + ls[1].size
    BY <1>7, <2>4, <2>5
  <2>8. h[1..n] = h[{1}]
    BY <2>1
  <2>9. QED BY <2>6, <2>7, <2>8
<1>12. QED BY <1>1, <1>9, <1>10, <1>11

LEMMA YoungType ==
  ASSUME NEW ls \in Seq(Entries)
  PROVE  Young(ls) \in Seq(Entries)
<1>1. PICK n \in Nat : n = Len(ls)
  OBVIOUS
<1>2. DOMAIN ls = 1..n /\ \A i \in 1..n : ls[i] \in Entries
  BY <1>1
<1> DEFINE S == Seq(Entries)
<1>3. <<>> \in S
  OBVIOUS
<1>4. \A e \in S, i \in 1..n : Append(e, ls[i]) \in S
  BY <1>2
<1>5. \E g : g = Picked(g, ls)
  <2> DEFINE o == [p \in S \X (1..n) |->
                     IF ls[p[2]].day < day - Retention THEN p[1] ELSE Append(p[1], ls[p[2]])]
  <2>1. o \in [S \X (1..n) -> S]
    <3> HIDE DEF S
    <3>1. \A p \in S \X (1..n) : p[1] \in S /\ p[2] \in 1..n
      OBVIOUS
    <3>2. QED BY <1>4, <3>1
  <2>2. PICK g \in [SUBSET (1..n) -> S] : Folds(g, <<>>, o, n)
    <3> HIDE DEF o, S
    <3>1. QED BY <1>3, <2>1, FoldIs
  <2>3. ASSUME NEW s \in SUBSET (1..n), s # {}
        PROVE  g[s] = IF ls[Max(s)].day < day - Retention THEN g[s \ {Max(s)}]
                      ELSE Append(g[s \ {Max(s)}], ls[Max(s)])
    <3>1. PICK m : m = Max(s)
      OBVIOUS
    <3>2. m \in 1..n /\ s \ {m} \in SUBSET (1..n)
      BY <2>3, <3>1, WithoutGreatest
    <3>3. g[s] = o[<<g[s \ {m}], m>>]
      <4> HIDE DEF o, S
      <4>1. QED BY <2>2, <2>3, <3>1 DEF Folds
    <3>4. g[s \ {m}] \in S
      BY <3>2
    <3>5. PICK k : k = g[s \ {m}]
      OBVIOUS
    <3>6. <<k, m>> \in S \X (1..n)
      BY <3>2, <3>4, <3>5
    <3>7. o[<<k, m>>] = IF ls[m].day < day - Retention THEN k ELSE Append(k, ls[m])
      <4> HIDE DEF S
      <4>1. QED BY <3>6
    <3>8. QED BY <3>1, <3>3, <3>5, <3>7
  <2>4. g[{}] = <<>>
    <3> HIDE DEF o, S
    <3>1. QED BY <2>2 DEF Folds
  <2> HIDE DEF o, S
  <2>5. g = [s \in SUBSET (1..n) |->
               IF s = {} THEN <<>>
               ELSE IF ls[Max(s)].day < day - Retention THEN g[s \ {Max(s)}]
                    ELSE Append(g[s \ {Max(s)}], ls[Max(s)])]
    BY <2>3, <2>4
  <2>6. QED BY <1>2, <2>5 DEF Picked
<1>6. PICK h : h = (CHOOSE g : g = Picked(g, ls))
  OBVIOUS
<1>7. h = Picked(h, ls)
  BY <1>5, <1>6
<1>8. \A s \in SUBSET (1..n) :
        h[s] = IF s = {} THEN <<>>
               ELSE IF ls[Max(s)].day < day - Retention THEN h[s \ {Max(s)}]
                    ELSE Append(h[s \ {Max(s)}], ls[Max(s)])
  BY <1>2, <1>7 DEF Picked
<1>9. h[{}] \in S
  BY <1>3, <1>8
<1>10. ASSUME NEW s \in SUBSET (1..n), s # {}, h[s \ {Max(s)}] \in S
       PROVE  h[s] \in S
  <2>1. PICK m : m = Max(s)
    OBVIOUS
  <2>2. m \in 1..n
    BY <1>10, <2>1, WithoutGreatest
  <2> HIDE DEF S
  <2>3. Append(h[s \ {m}], ls[m]) \in S
    BY <1>4, <1>10, <2>1, <2>2
  <2>4. QED BY <1>8, <1>10, <2>1, <2>3
<1> HIDE DEF S
<1>11. \A s \in SUBSET (1..n) : h[s] \in S
  BY <1>9, <1>10, FoldTyped
<1>12. Young(ls) = h[1..n]
  BY <1>2, <1>6, YoungIs
<1>13. QED BY <1>11, <1>12 DEF S

(***************************************************************************)
(* How many rows are deleted by size, and what is left.                    *)
(***************************************************************************)
LEMMA Divided ==
  ASSUME NEW a \in Nat, NEW b \in Nat \ {0}
  PROVE  /\ a \div b \in Nat
         /\ (a \div b) * b <= a
         /\ a < (a \div b) * b + b
  OBVIOUS

LEMMA Quotient ==
  ASSUME NEW a \in Nat, NEW b \in Nat \ {0}, NEW l \in Nat, a < b * l
  PROVE  a \div b < l
<1>1. PICK q \in Nat : q = a \div b /\ q * b <= a
  BY Divided
<1>2. q * b < b * l
  BY <1>1
<1>3. ASSUME q >= l
      PROVE  FALSE
  <2>1. PICK d \in Nat : q = l + d
    <3>1. q - l \in Nat /\ q = l + (q - l)
      BY <1>3
    <3>2. QED BY <3>1
  <2>2. q * b = l * b + d * b /\ d * b >= 0
    BY <2>1
  <2>3. QED BY <1>2, <2>2
<1>4. QED BY <1>1, <1>3

LEMMA ExcessBound ==
  ASSUME NEW t \in Nat, NEW l \in Nat \ {0}, NEW m \in Nat \ {0}, t > m
  PROVE  /\ AtLeastOne((t - m) \div AtLeastOne(t \div l)) \in Nat
         /\ l <= m => \/ (AtLeastOne((t - m) \div AtLeastOne(t \div l)) < l)
                      \/ (AtLeastOne((t - m) \div AtLeastOne(t \div l)) = 1 /\ l = 1)
<1>1. PICK a \in Nat : a = t \div l /\ a * l <= t /\ t < a * l + l
  BY Divided
<1>2. PICK b \in Nat \ {0} : b = AtLeastOne(a) /\ a <= b /\ (a >= 1 => b = a)
  BY DEF AtLeastOne
<1>3. t - m \in Nat
  OBVIOUS
<1>4. PICK q \in Nat : q = (t - m) \div b
  BY <1>2, <1>3, Divided
<1>5. PICK x : x = AtLeastOne((t - m) \div AtLeastOne(t \div l)) /\ x = AtLeastOne(q)
  BY <1>1, <1>2, <1>4
<1>6. x \in Nat
  BY <1>5 DEF AtLeastOne
<1>7. ASSUME l <= m
      PROVE  q < l
  <2>1. a * l > 0
    BY <1>1, <1>7
  <2>2. a # 0
    BY <2>1
  <2>3. b = a
    BY <1>2, <2>2
  <2>4. t - m < b * l
    BY <1>1, <1>7, <2>3
  <2>5. QED BY <1>3, <1>4, <2>4, Quotient
<1>8. l <= m => (x < l \/ (x = 1 /\ l = 1))
  <2>1. x = IF q < 1 THEN 1 ELSE q
    BY <1>5 DEF AtLeastOne
  <2>2. QED BY <1>7, <2>1
<1>9. QED BY <1>5, <1>6, <1>8

LEMMA ExcessRight ==
  ASSUME Sizes \subseteq Nat \ {0}, MaxBytes \in Nat \ {0}, NEW ls \in Seq(Entries)
  PROVE  /\ Excess(ls) \in Nat
         /\ Excess(ls) # 0 /\ Len(ls) <= MaxBytes =>
              \/ (Excess(ls) < Len(ls))
              \/ (Excess(ls) = 1 /\ Len(ls) = 1 /\ ls[1].size > MaxBytes)
<1>1. CASE ls = <<>> \/ Total(ls) <= MaxBytes
  BY <1>1 DEF Excess
<1>2. CASE ls # <<>> /\ ~ (Total(ls) <= MaxBytes)
  <2>1. PICK t \in Nat : t = Total(ls) /\ (Len(ls) = 1 => t = ls[1].size)
    BY TotalType
  <2>2. PICK l \in Nat \ {0} : l = Len(ls)
    BY <1>2
  <2>3. PICK x : x = AtLeastOne((t - MaxBytes) \div AtLeastOne(t \div l))
    OBVIOUS
  <2>4. Excess(ls) = x
    BY <1>2, <2>1, <2>2, <2>3 DEF Excess
  <2>5. t > MaxBytes
    BY <1>2, <2>1
  <2>6. x \in Nat /\ (l <= MaxBytes => (x < l \/ (x = 1 /\ l = 1)))
    <3>1. MaxBytes \in Nat \ {0}
      OBVIOUS
    <3>2. QED BY <2>3, <2>5, <3>1, ExcessBound
  <2>7. QED BY <2>1, <2>2, <2>4, <2>5, <2>6
<1>3. QED BY <1>1, <1>2

LEMMA SuffixOfEnd ==
  ASSUME NEW V, NEW ls \in Seq(V), NEW n \in Nat
  PROVE  /\ Oldest(ls, n) \in Seq(V)
         /\ n < Len(ls) => Oldest(ls, n) # <<>>
         /\ IsSuffix(Oldest(ls, n), ls)
<1>1. PICK l \in Nat : l = Len(ls)
  OBVIOUS
<1>2. PICK r : r = Oldest(ls, n)
  OBVIOUS
<1>3. CASE n >= l
  <2>1. r = <<>>
    BY <1>1, <1>2, <1>3 DEF Oldest
  <2>2. Reverse(r) = <<>>
    BY <2>1 DEF Reverse
  <2>3. Reverse(ls) \in Seq(V) /\ Len(Reverse(ls)) = l
    BY <1>1 DEF Reverse
  <2>4. SubSeq(Reverse(ls), 1, 0) = <<>> /\ SubSeq(Reverse(r), 1, 0) = <<>>
    BY <2>2, <2>3
  <2>5. QED BY <1>1, <1>2, <1>3, <2>1, <2>2, <2>3, <2>4 DEF IsSuffix, IsPrefix
<1>4. CASE n < l
  <2>1. /\ r \in Seq(V) /\ Len(r) = l - n
        /\ \A i \in 1..(l - n) : r[i] = ls[n + i]
    <3>1. r = SubSeq(ls, n + 1, l) /\ n + 1 \in 1..l
      BY <1>1, <1>2, <1>4 DEF Oldest
    <3>2. Len(r) = l - n
      BY <1>1, <3>1
    <3>3. \A i \in 1..(l - n) : r[i] = ls[n + i]
      BY <1>1, <3>1
    <3>4. r \in Seq(V)
      BY <1>1, <3>1
    <3>5. QED BY <3>2, <3>3, <3>4
  <2>2. /\ Reverse(ls) \in Seq(V) /\ Len(Reverse(ls)) = l
        /\ \A i \in 1..l : Reverse(ls)[i] = ls[(l - i) + 1]
    BY <1>1 DEF Reverse
  <2>3. /\ Reverse(r) \in Seq(V) /\ Len(Reverse(r)) = l - n
        /\ \A i \in 1..(l - n) : Reverse(r)[i] = r[((l - n) - i) + 1]
    BY <2>1 DEF Reverse
  <2>4. \A i \in 1..(l - n) : Reverse(r)[i] = Reverse(ls)[i]
    <3> SUFFICES ASSUME NEW i \in 1..(l - n) PROVE Reverse(r)[i] = Reverse(ls)[i]
      OBVIOUS
    <3>1. PICK j \in 1..(l - n) : j = ((l - n) - i) + 1
      <4>1. ((l - n) - i) + 1 \in 1..(l - n)
        BY <1>4
      <4>2. QED BY <4>1
    <3>2. Reverse(r)[i] = r[j]
      BY <2>3, <3>1
    <3>3. r[j] = ls[n + j]
      BY <2>1
    <3>4. n + j = (l - i) + 1 /\ i \in 1..l
      BY <1>4, <3>1
    <3>5. Reverse(ls)[i] = ls[n + j]
      BY <2>2, <3>4
    <3>6. QED BY <3>2, <3>3, <3>5
  <2>5. SubSeq(Reverse(r), 1, l - n) = SubSeq(Reverse(ls), 1, l - n)
    BY <1>4, <2>2, <2>3, <2>4
  <2>6. r # <<>>
    BY <1>4, <2>1
  <2>7. QED BY <1>1, <1>2, <1>4, <2>1, <2>2, <2>3, <2>5, <2>6 DEF IsSuffix, IsPrefix
<1>5. QED BY <1>1, <1>3, <1>4

(***************************************************************************)
(* The inductive invariant of the log: while rows are about to be deleted, *)
(* fewer are than there are, unless one row alone is too much; rows that   *)
(* come in between only make the difference larger.                        *)
(***************************************************************************)
LogTypes ==
  /\ up \in BOOLEAN /\ Len(usageCh) <= UsageCap
  /\ logCh \in Seq(Entries) /\ Len(logCh) <= LogCap
  /\ logHand \in Entries \cup {Absent} /\ logs \in Seq(Entries)
  /\ cleaner \in {"idle", "size", "delete"} /\ excess \in Nat
  /\ day \in Nat /\ budget \in [Events -> Nat]
  /\ alone \in [Admins -> BOOLEAN] /\ calm \in BOOLEAN

Spares(n, ls) == n < Len(ls) \/ (n = 1 /\ Len(ls) = 1 /\ ls[1].size > MaxBytes)
ExcessInv == cleaner = "delete" /\ Len(logs) <= MaxBytes => Spares(excess, logs)

LogInv == LogTypes /\ ExcessInv

LEMMA LogBounds ==
  /\ Sizes \subseteq Nat \ {0} /\ MaxBytes \in Nat \ {0}
  /\ UsageCap \in Nat \ {0} /\ LogCap \in Nat \ {0}
  BY BoundAssumption

LEMMA LogInit == Init => LogInv
<1> SUFFICES ASSUME Init PROVE LogInv
  OBVIOUS
<1>1. budget \in [Events -> Nat]
  BY BoundAssumption DEF Init
<1>2. <<>> \in Seq(Entries) /\ Len(<<>>) = 0
  OBVIOUS
<1>3. LogTypes
  BY <1>1, <1>2, LogBounds DEF Init, LogTypes
<1>4. ExcessInv
  BY DEF Init, ExcessInv
<1>5. QED BY <1>3, <1>4 DEF LogInv

LEMMA SpendType ==
  ASSUME budget \in [Events -> Nat], NEW e \in Events, Spend(e)
  PROVE  budget' \in [Events -> Nat]
<1>1. budget[e] \in Nat /\ budget[e] > 0
  BY DEF Spend
<1>2. budget[e] - 1 \in Nat
  BY <1>1
<1>3. QED BY <1>2, LedgerExcept DEF Spend

LEMMA EventKinds ==
  /\ "create" \in Events /\ "update" \in Events /\ "delete" \in Events
  /\ "call" \in Events /\ "dawn" \in Events /\ "fail" \in Events /\ "stop" \in Events
  BY DEF Events

\* Steps that leave the rows of the log and their cleaner alone.
LEMMA LogWaits ==
  ASSUME LogInv, UNCHANGED <<logs, cleaner, excess>>, LogTypes'
  PROVE  LogInv'
  BY DEF LogInv, ExcessInv, Spares

LEMMA PanelTypes ==
  ASSUME KeyTypes, LogInv, NEW a \in Admins,
         \/ \E p \in Plains : Create(a, p)
         \/ \E id \in Ids, s \in Status \cup {Absent} : Update(a, id, s)
         \/ \E id \in Ids : Discard(a, id)
         \/ Handler(a)
         \/ Failed(a)
  PROVE  LogInv'
<1>1. ASSUME NEW j, NEW e \in Events, Spend(e), Enter(a, j)
      PROVE  LogInv'
  <2>1. budget' \in [Events -> Nat]
    BY <1>1, SpendType DEF LogInv, LogTypes
  <2>2. Alone(a) \in BOOLEAN /\ \A b \in Admins : (alone[b] /\ job[b] = Idle) \in BOOLEAN
    BY DEF Alone
  <2>3. alone' \in [Admins -> BOOLEAN]
    BY <1>1, <2>2 DEF Enter
  <2>4. LogTypes' /\ UNCHANGED <<logs, cleaner, excess>>
    BY <1>1, <2>1, <2>3 DEF Enter, LogInv, LogTypes, usage, log, time
  <2>5. QED BY <2>4, LogWaits
<1>2. CASE \E p \in Plains : Create(a, p)
  BY <1>1, <1>2, EventKinds DEF Create
<1>3. CASE \E id \in Ids, s \in Status \cup {Absent} : Update(a, id, s)
  BY <1>1, <1>3, EventKinds DEF Update
<1>4. CASE \E id \in Ids : Discard(a, id)
  BY <1>1, <1>4, EventKinds DEF Discard
<1>5. ASSUME Changing(a)
      PROVE  LogInv'
  <2>1. LogTypes' /\ UNCHANGED <<logs, cleaner, excess>>
    BY <1>5 DEF Changing, LogInv, LogTypes, usage, log, time
  <2>2. QED BY <2>1, LogWaits
<1>6. CASE Set(a)
  <2>1. calm' \in BOOLEAN
    BY <1>6 DEF Set, LogInv, LogTypes
  <2>2. LogTypes' /\ UNCHANGED <<logs, cleaner, excess>>
    BY <1>6, <2>1 DEF Set, LogInv, LogTypes, usage, log, time
  <2>3. QED BY <2>2, LogWaits
<1>7. CASE Failed(a)
  <2>1. budget' \in [Events -> Nat]
    BY <1>7, EventKinds, SpendType DEF Failed, LogInv, LogTypes
  <2>2. calm' \in BOOLEAN
    BY <1>7 DEF Failed
  <2>3. LogTypes' /\ UNCHANGED <<logs, cleaner, excess>>
    BY <1>7, <2>1, <2>2 DEF Failed, LogInv, LogTypes, usage, log, time
  <2>4. QED BY <2>3, LogWaits
<1>8. CASE Handler(a)
  BY <1>5, <1>6, <1>8 DEF Handler, Insert, Get, Write, Delete, List
<1>9. QED BY <1>2, <1>3, <1>4, <1>7, <1>8

LEMMA OfferedFits ==
  ASSUME NEW V, NEW s \in Seq(V), NEW c \in Nat, Len(s) <= c, NEW e \in V,
         NEW t \in Offered(s, c, e)
  PROVE  t \in Seq(V) /\ Len(t) <= c
<1>1. CASE Len(s) < c
  <2>1. t = Append(s, e)
    BY <1>1 DEF Offered
  <2>2. Append(s, e) \in Seq(V) /\ Len(Append(s, e)) = Len(s) + 1
    OBVIOUS
  <2>3. QED BY <1>1, <2>1, <2>2
<1>2. CASE ~ (Len(s) < c)
  BY <1>2 DEF Offered
<1>3. QED BY <1>1, <1>2

LEMMA RequestTypes ==
  ASSUME KeyTypes, LogInv, NEW c \in Callers,
         (\E p \in Plains : Authenticate(c, p)) \/ Misread(c) \/ Request(c)
  PROVE  LogInv'
<1>1. ASSUME NEW p \in Plains, Authenticate(c, p)
      PROVE  LogInv'
  <2>1. budget' \in [Events -> Nat]
    BY <1>1, EventKinds, SpendType DEF Authenticate, LogInv, LogTypes
  <2>2. LogTypes' /\ UNCHANGED <<logs, cleaner, excess>>
    BY <1>1, <2>1 DEF Authenticate, LogInv, LogTypes, usage, log, time
  <2>3. QED BY <2>2, LogWaits
<1>2. ASSUME Misread(c) \/ Serve(c)
      PROVE  LogInv'
  <2>1. LogTypes' /\ UNCHANGED <<logs, cleaner, excess>>
    BY <1>2 DEF Misread, Serve, LogInv, LogTypes, usage, log, time
  <2>2. QED BY <2>1, LogWaits
<1>3. ASSUME NEW size \in Sizes, WriteLog(c, size)
      PROVE  LogInv'
  <2>1. call[c].key \in Ids
    BY <1>3, CallKinds DEF WriteLog, KeyTypes
  <2>2. PICK e : e = [key |-> call[c].key, size |-> size, day |-> day]
    OBVIOUS
  <2>3. e \in Entries
    BY <2>1, <2>2 DEF Entries, LogInv, LogTypes
  <2>4. logCh' \in Offered(logCh, LogCap, e)
    BY <1>3, <2>2 DEF WriteLog
  <2>5. logCh' \in Seq(Entries) /\ Len(logCh') <= LogCap
    BY <2>3, <2>4, OfferedFits, LogBounds DEF LogInv, LogTypes
  <2>6. LogTypes' /\ UNCHANGED <<logs, cleaner, excess>>
    BY <1>3, <2>5 DEF WriteLog, LogInv, LogTypes, usage, time
  <2>7. QED BY <2>6, LogWaits
<1>4. ASSUME RecordUsage(c)
      PROVE  LogInv'
  <2>1. call[c].key \in Ids
    BY <1>4, CallKinds DEF RecordUsage, KeyTypes
  <2>2. usageCh' \in Offered(usageCh, UsageCap, call[c].key)
    BY <1>4 DEF RecordUsage
  <2>3. Len(usageCh') <= UsageCap
    BY <2>1, <2>2, OfferedFits, LogBounds DEF KeyTypes, LogInv, LogTypes
  <2>4. LogTypes' /\ UNCHANGED <<logs, cleaner, excess>>
    BY <1>4, <2>3 DEF RecordUsage, LogInv, LogTypes, log, time
  <2>5. QED BY <2>4, LogWaits
<1>5. QED BY <1>1, <1>2, <1>3, <1>4 DEF Request

LEMMA WorkerTypes ==
  ASSUME KeyTypes, LogInv, TakeUsage \/ IncrementKeyUsage \/ IncrementFailed \/ TakeLog
  PROVE  LogInv'
<1>1. CASE TakeUsage
  <2>1. Len(Tail(usageCh)) <= Len(usageCh)
    BY <1>1 DEF TakeUsage, KeyTypes
  <2>2. usageCh' = Tail(usageCh) /\ Len(usageCh') \in Nat /\ Len(usageCh) \in Nat
    BY <1>1 DEF TakeUsage, KeyTypes
  <2>3. Len(usageCh') <= UsageCap
    BY <2>1, <2>2, LogBounds DEF LogInv, LogTypes
  <2>4. LogTypes' /\ UNCHANGED <<logs, cleaner, excess>>
    BY <1>1, <2>3 DEF TakeUsage, LogInv, LogTypes, log, time
  <2>5. QED BY <2>4, LogWaits
<1>2. CASE IncrementKeyUsage
  <2>1. LogTypes' /\ UNCHANGED <<logs, cleaner, excess>>
    BY <1>2 DEF IncrementKeyUsage, LogInv, LogTypes, log, time
  <2>2. QED BY <2>1, LogWaits
<1>3. CASE IncrementFailed
  <2>1. budget' \in [Events -> Nat]
    BY <1>3, EventKinds, SpendType DEF IncrementFailed, LogInv, LogTypes
  <2>2. LogTypes' /\ UNCHANGED <<logs, cleaner, excess>>
    BY <1>3, <2>1 DEF IncrementFailed, LogInv, LogTypes, log, time
  <2>3. QED BY <2>2, LogWaits
<1>4. CASE TakeLog
  <2>1. logHand' \in Entries /\ logCh' \in Seq(Entries) /\ Len(logCh') <= Len(logCh)
        /\ Len(logCh') \in Nat /\ Len(logCh) \in Nat
    BY <1>4 DEF TakeLog, LogInv, LogTypes
  <2>2. Len(logCh') <= LogCap
    BY <2>1, LogBounds DEF LogInv, LogTypes
  <2>3. LogTypes' /\ UNCHANGED <<logs, cleaner, excess>>
    BY <1>4, <2>1, <2>2 DEF TakeLog, LogInv, LogTypes, usage, time
  <2>4. QED BY <2>3, LogWaits
<1>5. QED BY <1>1, <1>2, <1>3, <1>4

LEMMA InsertLogTypes ==
  ASSUME LogInv, InsertLog
  PROVE  LogInv'
<1>1. logHand \in Entries /\ UNCHANGED <<cleaner, excess>>
  BY DEF InsertLog, LogInv, LogTypes, time
<1>2. CASE logs' = Append(logs, logHand) /\ UNCHANGED budget
  <2>1. /\ logs \in Seq(Entries) /\ logs' \in Seq(Entries) /\ Len(logs) \in Nat
        /\ Len(logs') = Len(logs) + 1
    BY <1>1, <1>2 DEF LogInv, LogTypes
  <2>2. LogTypes'
    BY <1>2, <2>1 DEF InsertLog, LogInv, LogTypes, usage, time
  <2>3. ASSUME cleaner = "delete", Len(logs) <= MaxBytes, Spares(excess, logs)
        PROVE  excess < Len(logs')
    BY <2>1, <2>3 DEF Spares, LogInv, LogTypes
  <2>4. ExcessInv'
    BY <1>1, <2>1, <2>3, LogBounds DEF LogInv, ExcessInv, Spares
  <2>5. QED BY <2>2, <2>4 DEF LogInv
<1>3. CASE logs' = logs /\ Spend("fail")
  <2>1. budget' \in [Events -> Nat]
    BY <1>3, EventKinds, SpendType DEF LogInv, LogTypes
  <2>2. LogTypes' /\ UNCHANGED <<logs, cleaner, excess>>
    BY <1>1, <1>3, <2>1 DEF InsertLog, LogInv, LogTypes, usage, time
  <2>3. QED BY <2>2, LogWaits
<1>4. QED BY <1>2, <1>3 DEF InsertLog

LEMMA CleaningTypes ==
  ASSUME LogInv, Cleaning \/ CleanFailed \/ Dawn
  PROVE  LogInv'
<1>1. CASE CleanByAge
  <2>1. logs' \in Seq(Entries) /\ cleaner' = "size"
    BY <1>1, YoungType DEF CleanByAge, LogInv, LogTypes
  <2>2. LogTypes'
    BY <1>1, <2>1 DEF CleanByAge, LogInv, LogTypes, usage
  <2>3. ExcessInv'
    BY <2>1 DEF ExcessInv
  <2>4. QED BY <2>2, <2>3 DEF LogInv
<1>2. CASE Measure
  <2>1. /\ excess' = Excess(logs) /\ logs' = logs /\ logs \in Seq(Entries)
        /\ cleaner' = IF excess' = 0 THEN "idle" ELSE "delete"
    BY <1>2 DEF Measure, log, LogInv, LogTypes
  <2>2. /\ excess' \in Nat
        /\ excess' # 0 /\ Len(logs) <= MaxBytes => Spares(excess', logs)
    BY <2>1, LogBounds, ExcessRight DEF Spares
  <2>3. LogTypes'
    BY <1>2, <2>1, <2>2 DEF Measure, LogInv, LogTypes, usage, log
  <2>4. ExcessInv'
    BY <2>1, <2>2 DEF ExcessInv, Spares
  <2>5. QED BY <2>3, <2>4 DEF LogInv
<1>3. CASE CleanBySize
  <2>1. logs' \in Seq(Entries) /\ cleaner' = "idle" /\ excess' = 0
    BY <1>3, SuffixOfEnd DEF CleanBySize, LogInv, LogTypes
  <2>2. LogTypes'
    BY <1>3, <2>1 DEF CleanBySize, LogInv, LogTypes, usage
  <2>3. ExcessInv'
    BY <2>1 DEF ExcessInv
  <2>4. QED BY <2>2, <2>3 DEF LogInv
<1>4. CASE CleanFailed
  <2>1. budget' \in [Events -> Nat]
    BY <1>4, EventKinds, SpendType DEF CleanFailed, LogInv, LogTypes
  <2>2. LogTypes'
    BY <1>4, <2>1 DEF CleanFailed, LogInv, LogTypes, usage, log
  <2>3. ExcessInv'
    BY <1>4 DEF CleanFailed, ExcessInv
  <2>4. QED BY <2>2, <2>3 DEF LogInv
<1>5. CASE Dawn
  <2>1. budget' \in [Events -> Nat] /\ day' \in Nat
    BY <1>5, EventKinds, SpendType DEF Dawn, LogInv, LogTypes
  <2>2. LogTypes' /\ UNCHANGED <<logs, cleaner, excess>>
    BY <1>5, <2>1 DEF Dawn, LogInv, LogTypes, usage, log
  <2>3. QED BY <2>2, LogWaits
<1>6. QED BY <1>1, <1>2, <1>3, <1>4, <1>5 DEF Cleaning

LEMMA StopTypes ==
  ASSUME LogInv, Exit \/ Boot
  PROVE  LogInv'
<1>1. CASE Exit
  <2>1. budget' \in [Events -> Nat]
    BY <1>1, EventKinds, SpendType DEF Exit, LogInv, LogTypes
  <2>2. /\ <<>> \in Seq(Entries) /\ Len(<<>>) = 0
        /\ 0 \in Nat /\ 0 <= UsageCap /\ 0 <= LogCap
    BY LogBounds
  <2>3. usageCh' = <<>> /\ logCh' = <<>> /\ logHand' = Absent /\ up' = FALSE
    BY <1>1 DEF Exit
  <2>4. cleaner' = "idle" /\ excess' = 0 /\ UNCHANGED <<logs, day, alone, calm>>
    BY <1>1 DEF Exit
  <2>5. LogTypes'
    BY <2>1, <2>2, <2>3, <2>4 DEF LogInv, LogTypes
  <2>6. ExcessInv'
    BY <2>4 DEF ExcessInv
  <2>7. QED BY <2>5, <2>6 DEF LogInv
<1>2. CASE Boot
  <2>1. budget' \in [Events -> Nat] /\ calm' \in BOOLEAN
    BY <1>2, EventKinds, SpendType DEF Boot, LogInv, LogTypes
  <2>2. LogTypes' /\ UNCHANGED <<logs, cleaner, excess>>
    BY <1>2, <2>1 DEF Boot, LogInv, LogTypes, usage, log, time
  <2>3. QED BY <2>2, LogWaits
<1>3. QED BY <1>1, <1>2

LEMMA LogNext == KeyTypes /\ LogInv /\ [Next]_vars => LogInv'
<1> SUFFICES ASSUME KeyTypes, LogInv, [Next]_vars PROVE LogInv'
  OBVIOUS
<1>1. CASE UNCHANGED vars
  <2>1. LogTypes' /\ UNCHANGED <<logs, cleaner, excess>>
    BY <1>1 DEF vars, usage, log, time, LogInv, LogTypes
  <2>2. QED BY <2>1, LogWaits
<1>2. CASE Next
  BY <1>2, PanelTypes, RequestTypes, WorkerTypes, InsertLogTypes, CleaningTypes,
     StopTypes DEF Next
<1>3. QED BY <1>1, <1>2

LEMMA LogAlways == Spec => []LogInv
<1>1. LedgerInv => KeyTypes
  BY DEF LedgerInv
<1>2. QED BY LogInit, LogNext, LedgerAlways, <1>1, PTL DEF Spec

(* The type invariant, the log and its cleaning included: neither channel  *)
(* ever holds more than its capacity, whatever the callers do.             *)
THEOREM LedgerTypes == Spec => []TypeOK
<1>1. LedgerInv /\ LogInv => TypeOK
  BY DEF LedgerInv, KeyTypes, LogInv, LogTypes, TypeOK
<1>2. QED BY LedgerAlways, LogAlways, <1>1, PTL

(* Deleting by size takes the oldest rows, and leaves the newest one unless *)
(* it is over the limit by itself, for any number and sizes of rows, though *)
(* rows come in between the query and the deletion.                         *)
THEOREM NewestStays == Spec => NewestKept
<1>1. ASSUME LogInv, CleanBySize
      PROVE  IsSuffix(logs', logs) /\ (Fitting => logs' # <<>>)
  <2>1. /\ logs' = Oldest(logs, excess) /\ cleaner = "delete"
        /\ logs \in Seq(Entries) /\ excess \in Nat
    BY <1>1 DEF CleanBySize, LogInv, LogTypes
  <2>2. IsSuffix(logs', logs) /\ (excess < Len(logs) => logs' # <<>>)
    BY <2>1, SuffixOfEnd
  <2>3. ASSUME Fitting
        PROVE  excess < Len(logs)
    <3>1. Len(logs) <= MaxBytes /\ logs[Len(logs)].size <= MaxBytes
      BY <2>3 DEF Fitting, Last
    <3>2. Spares(excess, logs)
      BY <1>1, <2>1, <3>1 DEF LogInv, ExcessInv
    <3>3. Len(logs) = 1 => logs[1].size <= MaxBytes
      BY <3>1
    <3>4. \A i \in 1..Len(logs) : logs[i].size \in Nat
      <4>1. \A e \in Entries : e.size \in Nat
        BY LogBounds DEF Entries
      <4>2. QED BY <2>1, <4>1
    <3>5. QED BY <2>1, <3>2, <3>3, <3>4, LogBounds DEF Spares
  <2>4. QED BY <2>2, <2>3
<1>2. LogInv /\ [Next]_vars
        => [CleanBySize => IsSuffix(logs', logs) /\ (Fitting => logs' # <<>>)]_vars
  BY <1>1
<1>3. QED BY LogAlways, <1>2, PTL DEF Spec, NewestKept
=============================================================================
