------------------------- MODULE AccountRows_proofs -------------------------
(***************************************************************************)
(* What the rows of AccountPool say about memory when handlers run one     *)
(* after the other: one goroutine, any queue, any faults and restarts.     *)
(***************************************************************************)
EXTENDS AccountPool_proofs

One   == CHOOSE t : t \in Threads
Alone == Threads = {One}

rest == todo[One]     \* what is left of the handler under way
read == snap[One]     \* what a ReloadMembers has read

-----------------------------------------------------------------------------
(***************************************************************************)
(* What can be left of a handler: its next step h and the steps r after    *)
(* it.  A row on its way is always the row memory has now.                 *)
(***************************************************************************)
Sends(w)   == [do : {"persist", "send"}, w : {w}, seq : Nat]
Directs(w) == [do : {"sync", "mark", "write"}, w : {w}, seq : Nat]

RowNow(u)     == Row(u, acc[u])
CoolNow(u, m) == Cool(IF <<u, m>> \in cool THEN "cool" ELSE "uncool", u, m)

Noting(u, h, r) ==
  \/ /\ \E m \in Models : h \in Sends(CoolNow(u, m))
     /\ r = <<>> \/ (acc[u] # Absent /\ r = Persist(RowNow(u)))
  \/ /\ acc[u] # Absent /\ h \in Sends(RowNow(u))
     /\ r = <<>> \/ r = OnUid("record", u)

Clicking(u, h, r) ==
  /\ acc[u] # Absent /\ h \in Directs(RowNow(u)) /\ r = <<>>
  /\ u \in userOff => acc[u].manual

Clearing(u, h, r) ==
  /\ \E m \in Models : <<u, m>> \notin cool /\ <<h>> = Write(Cool("uncool", u, m))
  /\ r = <<>>

Probing(u, h, r) ==
  /\ <<h>> = OnUid("answer", u) \/ <<h>> = OnUid("record", u)
  /\ r = <<>>

\* A deleted account has nothing left in memory.
Bare(u) ==
  acc[u] = Absent /\ u \notin userOff /\ \A m \in Models : <<u, m>> \notin cool

Forgetting(u, h, r) ==
  /\ <<h>> = OnUid("forget", u)
  /\ r = Sync(Gone("gone", u)) \o Write(Gone("goneCools", u))

Erasing(u, h, r) ==
  Bare(u) /\ h \in Directs(Gone("gone", u)) /\ r = Write(Gone("goneCools", u))

Wiping(u, h, r) == Bare(u) /\ <<h>> = Write(Gone("goneCools", u)) /\ r = <<>>

Loading(h, r) ==
  \/ h = [do |-> "rows"] /\ r = <<[do |-> "scan"], [do |-> "swap"]>>
  \/ h = [do |-> "scan"] /\ r = <<[do |-> "swap"]>>
  \/ h = [do |-> "swap"] /\ r = <<>>

About(u, h, r) ==
  \/ Noting(u, h, r) \/ Clicking(u, h, r) \/ Clearing(u, h, r)
  \/ Probing(u, h, r) \/ Forgetting(u, h, r) \/ Erasing(u, h, r)
  \/ Wiping(u, h, r)

RestOK ==
  \/ rest = <<>>
  \/ rest # <<>> /\ Loading(Head(rest), Tail(rest))
  \/ \E u \in Uids : rest # <<>> /\ About(u, Head(rest), Tail(rest))

-----------------------------------------------------------------------------
(* Sequences of one and more steps. *)
LEMMA Singles ==
  ASSUME NEW s
  PROVE  <<s>> # <<>> /\ Head(<<s>>) = s /\ Tail(<<s>>) = <<>>
  OBVIOUS

LEMMA Doubles ==
  ASSUME NEW s, NEW r
  PROVE  <<s, r>> # <<>> /\ Head(<<s, r>>) = s /\ Tail(<<s, r>>) = <<r>>
  OBVIOUS

LEMMA Triples ==
  ASSUME NEW s, NEW r, NEW q
  PROVE  <<s, r, q>> # <<>> /\ Head(<<s, r, q>>) = s /\ Tail(<<s, r, q>>) = <<r, q>>
  OBVIOUS

LEMMA StepSeq == <<>> \in Seq(Steps) /\ \A s \in Steps : <<s>> \in Seq(Steps)
  OBVIOUS

LEMMA Joined ==
  ASSUME NEW s \in Steps, NEW q \in Seq(Steps)
  PROVE  /\ <<s>> \o q # <<>> /\ Head(<<s>> \o q) = s /\ Tail(<<s>> \o q) = q
         /\ <<>> \o q = q /\ q \o <<>> = q
<1>1. <<s>> \in Seq(Steps) /\ Len(<<s>>) = 1 /\ <<s>>[1] = s
  OBVIOUS
<1> DEFINE z == <<s>> \o q
<1>2. /\ z \in Seq(Steps) /\ Len(z) = 1 + Len(q)
      /\ \A i \in 1..(1 + Len(q)) : z[i] = IF i <= 1 THEN <<s>>[i] ELSE q[i - 1]
  BY <1>1, ConcatProperties
<1>3. z # <<>> /\ Head(z) = s
  BY <1>1, <1>2
<1>4. Tail(z) \in Seq(Steps) /\ Len(Tail(z)) = Len(q)
      /\ \A i \in 1..Len(q) : Tail(z)[i] = z[i + 1]
  BY <1>2, <1>3, HeadTailProperties
<1>5. \A i \in 1..Len(q) : Tail(z)[i] = q[i]
  BY <1>2, <1>4
<1>6. Tail(z) = q
  BY <1>4, <1>5, SeqEqual
<1>7. <<>> \o q = q /\ q \o <<>> = q
  BY ConcatEmptySeq
<1>8. QED BY <1>3, <1>6, <1>7

-----------------------------------------------------------------------------
(* What is left of the only handler, after each way a step ends. *)
LEMMA OnlyOne ==
  ASSUME Alone
  PROVE  One \in Threads /\ \A t \in Threads : t = One
  BY DEF Alone

LEMMA Started ==
  ASSUME TypeOK, Alone, NEW t \in Threads, NEW e, NEW q, Start(t, e, q)
  PROVE  rest = <<>> /\ rest' = q
  BY OnlyOne DEF TypeOK, Start, rest

LEMMA RestType ==
  ASSUME TypeOK, Alone
  PROVE  /\ rest \in Seq(Steps)
         /\ rest # <<>> => Head(rest) \in Steps /\ Tail(rest) \in Seq(Steps)
  BY OnlyOne, HeadTailProperties DEF TypeOK, rest

LEMMA Moved ==
  ASSUME TypeOK, Alone, NEW t \in Threads
  PROVE  /\ Done(t) => rest' = Tail(rest)
         /\ \A d, n : Become(t, d, n) =>
              rest' = <<[do |-> d, w |-> Head(rest).w, seq |-> n]>> \o Tail(rest)
         /\ \A more : Then(t, more) => rest' = more \o Tail(rest)
         /\ \A d : At(t, d) => rest # <<>> /\ Head(rest).do = d
         /\ \A q : todo' = [todo EXCEPT ![t] = q] => rest' = q
  BY OnlyOne DEF TypeOK, Done, Become, Then, At, rest

-----------------------------------------------------------------------------
(***************************************************************************)
(* RestOK is kept by every step.                                           *)
(***************************************************************************)
LEMMA RestKept ==
  ASSUME RestOK, UNCHANGED <<todo, acc, cool, userOff>>
  PROVE  RestOK'
<1>1. rest' = rest
  BY DEF rest
<1>2. ASSUME NEW u, NEW h, NEW r, About(u, h, r)
      PROVE  About(u, h, r)'
  <2>1. RowNow(u)' = RowNow(u) /\ \A m \in Models : CoolNow(u, m)' = CoolNow(u, m)
    BY DEF RowNow, CoolNow
  <2>2. Noting(u, h, r) => Noting(u, h, r)'
    BY <2>1 DEF Noting, Sends
  <2>3. Clicking(u, h, r) => Clicking(u, h, r)'
    BY <2>1 DEF Clicking, Directs
  <2>4. Clearing(u, h, r) => Clearing(u, h, r)'
    BY DEF Clearing
  <2>5. /\ Erasing(u, h, r) => Erasing(u, h, r)'
        /\ Wiping(u, h, r) => Wiping(u, h, r)'
    BY DEF Erasing, Wiping, Bare
  <2>6. QED BY <1>2, <2>2, <2>3, <2>4, <2>5 DEF About, Probing, Forgetting
<1>3. QED BY <1>1, <1>2 DEF RestOK, Loading

\* What a handler has left when it has just begun.
Middles == {"send", "mark", "scan", "swap"}
Unbegun(s) ==
  s.do \notin Middles /\ (s.do = "write" => s.w.kind \notin {"row", "gone"})
Begins == rest # <<>> => Unbegun(Head(rest))

LEMMA RestEmpty ==
  ASSUME rest' = <<>>
  PROVE  RestOK' /\ Begins'
  BY DEF RestOK, Begins

\* What is left is one step, or one step and the steps r.
LEMMA RestIs ==
  ASSUME NEW u \in Uids, NEW h \in Steps, NEW r \in Seq(Steps),
         rest' = <<h>> \o r, About(u, h, r)'
  PROVE  RestOK' /\ (Unbegun(h) => Begins')
<1>1. rest' # <<>> /\ Head(rest') = h /\ Tail(rest') = r
  BY Joined
<1>2. QED BY <1>1 DEF RestOK, Begins

LEMMA RestIsOne ==
  ASSUME NEW u \in Uids, NEW h, rest' = <<h>>, About(u, h, <<>>)'
  PROVE  RestOK' /\ (Unbegun(h) => Begins')
<1>1. rest' # <<>> /\ Head(rest') = h /\ Tail(rest') = <<>>
  BY Singles
<1>2. QED BY <1>1 DEF RestOK, Begins

\* The steps themselves.
LEMMA SendsSteps ==
  ASSUME NEW w \in Rows \cup Cools
  PROVE  /\ Sends(w) \subseteq Steps
         /\ [do |-> "persist", w |-> w, seq |-> 0] \in Sends(w)
  BY DEF Sends, Steps

LEMMA DirectsSteps ==
  ASSUME NEW w \in Rows \cup Goners
  PROVE  /\ Directs(w) \subseteq Steps
         /\ [do |-> "sync", w |-> w, seq |-> 0] \in Directs(w)
  BY DEF Directs, Steps

LEMMA CoolType ==
  ASSUME NEW u \in Uids, NEW m \in Models
  PROVE  CoolNow(u, m) \in Cools /\ CoolNow(u, m)' \in Cools
         /\ Cool("uncool", u, m) \in Cools
  BY DEF CoolNow, Cool, Cools

LEMMA StartRest ==
  ASSUME TypeOK, TypeOK', Alone, Handlers
  PROVE  RestOK' /\ Begins'
<1>1. ASSUME NEW t \in Threads, NEW u \in Uids, NEW m \in Models,
             NoteSuccess(t, u, m)
      PROVE  RestOK' /\ Begins'
  <2> DEFINE p == IF <<u, m>> \in cool THEN Persist(Cool("uncool", u, m)) ELSE <<>>
  <2> PICK c : c = [do |-> "persist", w |-> Cool("uncool", u, m), seq |-> 0]
    OBVIOUS
  <2> PICK r : r = [do |-> "persist", w |-> Row(u, acc'[u]), seq |-> 0]
    OBVIOUS
  <2> PICK q : q = IF acc[u] # Absent /\ acc[u].auto # ""
                   THEN Persist(Row(u, acc'[u])) ELSE <<>>
    OBVIOUS
  <2>1. rest' = p \o q
    BY <1>1, Started DEF NoteSuccess
  <2>2. acc[u] # Absent => acc'[u] \in AccountStates
    BY <1>1, EventTypes DEF NoteSuccess, TypeOK
  <2>3. CoolNow(u, m)' = Cool("uncool", u, m)
    BY <1>1 DEF NoteSuccess, CoolNow
  <2>4. c \in Sends(CoolNow(u, m))' /\ c \in Steps
    BY <2>3, CoolType, SendsSteps DEF Sends
  <2>5. acc[u] # Absent => /\ r \in Sends(RowNow(u))' /\ r \in Steps
                           /\ acc'[u] # Absent
    BY <2>2, RowType, SendsSteps, AbsentAssumption DEF RowNow, Sends
  <2>6. CASE p = <<>>
    <3>1. q = <<>> \/ (q = <<r>> /\ acc[u] # Absent)
      BY DEF Persist
    <3>2. rest' = q
      <4>1. q \in Seq(Steps)
        BY <2>5, <3>1, StepSeq
      <4>2. QED BY <2>1, <2>6, <4>1, ConcatEmptySeq
    <3>3. q = <<>> \/ (q = <<r>> /\ acc[u] # Absent)
      BY <3>1
    <3>4. acc[u] # Absent => About(u, r, <<>>)'
      BY <2>5 DEF About, Noting
    <3>5. Unbegun(r)
      BY DEF Middles, Unbegun
    <3>6. QED BY <3>2, <3>3, <3>4, <3>5, RestEmpty, RestIsOne
  <2>7. CASE p = <<c>>
    <3>1. q = <<>> \/ (acc[u] # Absent /\ q = Persist(RowNow(u))')
      BY DEF RowNow, Persist
    <3>2. q \in Seq(Steps)
      <4>1. q = <<>> \/ (q = <<r>> /\ acc[u] # Absent)
        BY DEF Persist
      <4>2. QED BY <2>5, <4>1, StepSeq
    <3>3. About(u, c, q)'
      BY <2>4, <2>5, <3>1 DEF About, Noting
    <3>4. Unbegun(c)
      BY DEF Middles, Unbegun
    <3>5. QED BY <2>1, <2>4, <2>7, <3>2, <3>3, <3>4, RestIs
  <2>8. QED BY <2>6, <2>7 DEF Persist
<1>2. ASSUME NEW t \in Threads, NEW u \in Uids, NEW m \in Models,
             NEW kind \in PunishingKinds, NoteError(t, u, m, kind)
      PROVE  RestOK' /\ Begins'
  <2> DEFINE p == IF kind = "rate" THEN Persist(Cool("cool", u, m)) ELSE <<>>
  <2> PICK c : c = [do |-> "persist", w |-> Cool("cool", u, m), seq |-> 0]
    OBVIOUS
  <2> PICK r : r = [do |-> "persist", w |-> Row(u, acc'[u]), seq |-> 0]
    OBVIOUS
  <2> PICK q : q = Persist(Row(u, acc'[u]))
    OBVIOUS
  <2>1. rest' = p \o q
    BY <1>2, Started DEF NoteError
  <2>2. acc'[u] \in AccountStates
    BY <1>2, EventTypes DEF NoteError, TypeOK
  <2>3. kind = "rate" => CoolNow(u, m)' = Cool("cool", u, m)
    BY <1>2 DEF NoteError, CoolNow
  <2>4. kind = "rate" => c \in Sends(CoolNow(u, m))' /\ c \in Steps
    BY <2>3, CoolType, SendsSteps DEF Sends
  <2>5. r \in Sends(RowNow(u))' /\ r \in Steps /\ acc'[u] # Absent
    BY <2>2, RowType, SendsSteps, AbsentAssumption DEF RowNow, Sends
  <2>6. q \in Seq(Steps) /\ q = <<r>> /\ q = Persist(RowNow(u))'
    BY <2>5 DEF Persist, RowNow
  <2>7. CASE kind # "rate"
    <3>1. rest' = <<r>>
      BY <2>1, <2>6, <2>7, ConcatEmptySeq
    <3>2. About(u, r, <<>>)'
      BY <2>5 DEF About, Noting
    <3>3. QED BY <3>1, <3>2, RestIsOne DEF Middles, Unbegun
  <2>8. CASE kind = "rate"
    <3>1. rest' = <<c>> \o q
      BY <2>1, <2>8 DEF Persist
    <3>2. About(u, c, q)'
      BY <2>4, <2>5, <2>6, <2>8 DEF About, Noting
    <3>3. Unbegun(c)
      BY DEF Middles, Unbegun
    <3>4. QED BY <2>4, <2>6, <2>8, <3>1, <3>2, <3>3, RestIs
  <2>9. QED BY <2>7, <2>8
<1>3. ASSUME NEW t \in Threads, NEW u \in Uids, NEW off \in BOOLEAN,
             SetManualDisabled(t, u, off)
      PROVE  RestOK' /\ Begins'
  <2> PICK d : d = [do |-> "sync", w |-> Row(u, acc'[u]), seq |-> 0]
    OBVIOUS
  <2>1. rest' = <<d>>
    BY <1>3, Started DEF SetManualDisabled, Sync
  <2>2. acc[u] \in AccountStates /\ acc'[u] = AfterManual(acc[u], off)
    BY <1>3 DEF TypeOK, SetManualDisabled
  <2>3. acc'[u] \in AccountStates /\ acc'[u] # Absent
    BY <2>2, EventTypes, AbsentAssumption
  <2>4. u \in userOff' => acc'[u].manual
    <3>1. u \in userOff' => off
      BY <1>3 DEF SetManualDisabled
    <3>2. off => AfterManual(acc[u], off).manual
      BY <2>2 DEF AfterManual, AccountStates
    <3>3. QED BY <2>2, <3>1, <3>2
  <2>5. d \in Directs(RowNow(u))'
    BY <2>3, RowType, DirectsSteps DEF RowNow, Directs
  <2>6. About(u, d, <<>>)'
    BY <2>3, <2>4, <2>5 DEF About, Clicking
  <2>7. QED BY <2>1, <2>6, RestIsOne DEF Middles, Unbegun
<1>4. ASSUME NEW t \in Threads, NEW u \in Uids, NEW m \in Models,
             ClearModelCool(t, u, m)
      PROVE  RestOK' /\ Begins'
  <2> PICK h : h = [do |-> "write", w |-> Cool("uncool", u, m), seq |-> 0]
    OBVIOUS
  <2>1. rest' = <<h>> /\ <<u, m>> \notin cool'
    BY <1>4, Started DEF ClearModelCool, Write
  <2>2. About(u, h, <<>>)'
    BY <2>1 DEF About, Clearing, Write
  <2>3. QED BY <2>1, <2>2, RestIsOne DEF Middles, Unbegun, Cool
<1>5. ASSUME NEW t \in Threads, NEW u \in Uids, Probe(t, u)
      PROVE  RestOK' /\ Begins'
  <2> PICK h : h = [do |-> IF acc[u].manual THEN "record" ELSE "answer", uid |-> u]
    OBVIOUS
  <2>1. rest' = <<h>>
    BY <1>5, Started DEF Probe, OnUid
  <2>2. About(u, h, <<>>)'
    BY DEF About, Probing, OnUid
  <2>3. QED BY <2>1, <2>2, RestIsOne DEF Middles, Unbegun
<1>6. ASSUME rest' = Reload
      PROVE  RestOK' /\ Begins'
  <2>1. /\ rest' # <<>> /\ Head(rest') = [do |-> "rows"]
        /\ Tail(rest') = <<[do |-> "scan"], [do |-> "swap"]>>
    BY <1>6, Triples DEF Reload
  <2>2. QED BY <2>1 DEF RestOK, Loading, Begins, Middles, Unbegun
<1>7. ASSUME NEW t \in Threads,
             ReloadMembers(t) \/ \E u \in Uids : Activate(t, u)
      PROVE  RestOK' /\ Begins'
  BY <1>6, <1>7, Started DEF ReloadMembers, Activate
<1>8. ASSUME NEW u \in Uids, rest' = Delete(u)
      PROVE  RestOK' /\ Begins'
  <2> DEFINE f == [do |-> "forget", uid |-> u]
             r == Sync(Gone("gone", u)) \o Write(Gone("goneCools", u))
  <2>1. f \in Steps /\ r \in Seq(Steps)
    <3>1. Gone("gone", u) \in Goners /\ Gone("goneCools", u) \in Goners
      BY DEF Gone, Goners
    <3>2. QED BY <3>1, PieceTypes, JoinType DEF Steps
  <2>2. rest' = <<f>> \o r
    <3>1. <<f>> \in Seq(Steps) /\ Sync(Gone("gone", u)) \in Seq(Steps)
          /\ Write(Gone("goneCools", u)) \in Seq(Steps)
      <4>1. Gone("gone", u) \in Goners /\ Gone("goneCools", u) \in Goners
        BY DEF Gone, Goners
      <4>2. QED BY <2>1, <4>1, PieceTypes
    <3>2. (<<f>> \o Sync(Gone("gone", u))) \o Write(Gone("goneCools", u)) = <<f>> \o r
      BY <3>1, ConcatAssociative
    <3>3. Delete(u) = (<<f>> \o Sync(Gone("gone", u))) \o Write(Gone("goneCools", u))
      BY DEF Delete, OnUid
    <3>4. QED BY <1>8, <3>2, <3>3
  <2>3. About(u, f, r)'
    BY DEF About, Forgetting, OnUid
  <2>4. Unbegun(f)
    BY DEF Middles, Unbegun
  <2>5. QED BY <2>1, <2>2, <2>3, <2>4, RestIs
<1>9. ASSUME NEW t \in Threads, Logout(t) \/ \E u \in Uids : RemoveProfile(t, u)
      PROVE  RestOK' /\ Begins'
  <2>1. PICK u \in Uids : rest' = Delete(u)
    BY <1>9, Started DEF Logout, RemoveProfile, TypeOK
  <2>2. QED BY <1>8, <2>1
<1>10. QED
  BY <1>1, <1>2, <1>3, <1>4, <1>5, <1>7, <1>9 DEF Handlers

\* What is left, by the next step of it.
LEMMA Shapes ==
  ASSUME TypeOK, Alone, RestOK, NEW t \in Threads, NEW d, At(t, d),
         NEW h, NEW r, h = Head(rest), r = Tail(rest)
  PROVE  /\ rest # <<>> /\ h.do = d /\ h \in Steps /\ r \in Seq(Steps)
         /\ d \in {"rows", "scan", "swap"} => Loading(h, r)
         /\ d \in {"persist", "send"} => \E u \in Uids : Noting(u, h, r)
         /\ d \in {"sync", "mark"} =>
              \E u \in Uids : Clicking(u, h, r) \/ Erasing(u, h, r)
         /\ d = "write" =>
              \E u \in Uids : \/ Clicking(u, h, r) \/ Erasing(u, h, r)
                             \/ Clearing(u, h, r) \/ Wiping(u, h, r)
         /\ d = "forget" => \E u \in Uids : Forgetting(u, h, r)
         /\ d \in {"answer", "record"} => \E u \in Uids : Probing(u, h, r)
<1>1. rest # <<>> /\ h.do = d /\ h \in Steps /\ r \in Seq(Steps)
  BY Moved, RestType
<1>2. CASE Loading(h, r)
  <2>1. d \in {"rows", "scan", "swap"}
    BY <1>1, <1>2 DEF Loading
  <2>2. QED BY <1>1, <1>2, <2>1
<1>3. ASSUME NEW u \in Uids, About(u, h, r)
      PROVE  \/ Noting(u, h, r) /\ d \in {"persist", "send"}
             \/ Clicking(u, h, r) /\ d \in {"sync", "mark", "write"}
             \/ Erasing(u, h, r) /\ d \in {"sync", "mark", "write"}
             \/ Clearing(u, h, r) /\ d = "write"
             \/ Wiping(u, h, r) /\ d = "write"
             \/ Forgetting(u, h, r) /\ d = "forget"
             \/ Probing(u, h, r) /\ d \in {"answer", "record"}
  <2>1. CASE Noting(u, h, r)
    BY <1>1, <2>1 DEF Noting, Sends
  <2>2. CASE Clicking(u, h, r)
    BY <1>1, <2>2 DEF Clicking, Directs
  <2>3. CASE Erasing(u, h, r)
    BY <1>1, <2>3 DEF Erasing, Directs
  <2>4. CASE Clearing(u, h, r)
    BY <1>1, <2>4 DEF Clearing, Write
  <2>5. CASE Wiping(u, h, r)
    BY <1>1, <2>5 DEF Wiping, Write
  <2>6. CASE Forgetting(u, h, r)
    <3>1. <<h>> = OnUid("forget", u)
      BY <2>6 DEF Forgetting
    <3>2. h.do = "forget"
      BY <3>1 DEF OnUid
    <3>3. QED BY <1>1, <2>6, <3>2
  <2>7. CASE Probing(u, h, r)
    BY <1>1, <2>7 DEF Probing, OnUid
  <2>8. QED
    BY <1>3, <2>1, <2>2, <2>3, <2>4, <2>5, <2>6, <2>7 DEF About
<1>4. Loading(h, r) \/ \E u \in Uids : About(u, h, r)
  BY <1>1 DEF RestOK
<1>5. ASSUME NEW u \in Uids, About(u, h, r)
      PROVE  /\ d \in {"rows", "scan", "swap"} => Loading(h, r)
             /\ d \in {"persist", "send"} => Noting(u, h, r)
             /\ d \in {"sync", "mark"} => Clicking(u, h, r) \/ Erasing(u, h, r)
             /\ d = "write" =>
                   \/ Clicking(u, h, r) \/ Erasing(u, h, r)
                   \/ Clearing(u, h, r) \/ Wiping(u, h, r)
             /\ d = "forget" => Forgetting(u, h, r)
             /\ d \in {"answer", "record"} => Probing(u, h, r)
  BY <1>3, <1>5
<1>6. QED BY <1>1, <1>2, <1>4, <1>5

LEMMA NumberRest ==
  ASSUME TypeOK, TypeOK', Alone, RestOK, NEW t \in Threads, Number(t)
  PROVE  RestOK'
<1> PICK h : h = Head(rest)
  OBVIOUS
<1> PICK r : r = Tail(rest)
  OBVIOUS
<1>0. UNCHANGED <<acc, cool, userOff>> /\ seq + 1 \in Nat
  BY DEF Number, mem, hist, TypeOK
<1>1. CASE At(t, "persist") /\ Become(t, "send", seq + 1)
  <2>1. PICK u \in Uids : Noting(u, h, r)
    BY <1>1, Shapes
  <2> PICK s : s = [do |-> "send", w |-> h.w, seq |-> seq + 1]
    OBVIOUS
  <2>2. rest' = <<s>> \o r /\ h \in Steps /\ r \in Seq(Steps) /\ h.do = "persist"
    BY <1>1, Moved, Shapes
  <2>3. s \in Steps
    BY <1>0, <2>2, StepFields DEF Steps
  <2>4. \A w : h \in Sends(w) => s \in Sends(w)
    BY <1>0 DEF Sends
  <2>5. Noting(u, s, r)'
    <3>1. Noting(u, s, r)
      BY <2>1, <2>4 DEF Noting
    <3>2. RowNow(u)' = RowNow(u) /\ \A m \in Models : CoolNow(u, m)' = CoolNow(u, m)
      BY <1>0 DEF RowNow, CoolNow
    <3>3. QED BY <1>0, <3>1, <3>2 DEF Noting, Sends
  <2>6. QED BY <2>2, <2>3, <2>5, RestIs DEF About
<1>2. CASE At(t, "sync") /\ Become(t, "mark", seq + 1)
  <2>1. PICK u \in Uids : Clicking(u, h, r) \/ Erasing(u, h, r)
    BY <1>2, Shapes
  <2> PICK s : s = [do |-> "mark", w |-> h.w, seq |-> seq + 1]
    OBVIOUS
  <2>2. rest' = <<s>> \o r /\ h \in Steps /\ r \in Seq(Steps) /\ h.do = "sync"
    BY <1>2, Moved, Shapes
  <2>3. s \in Steps
    BY <1>0, <2>2, StepFields DEF Steps
  <2>4. \A w : h \in Directs(w) => s \in Directs(w)
    BY <1>0 DEF Directs
  <2>5. About(u, s, r)'
    <3>1. Clicking(u, s, r) \/ Erasing(u, s, r)
      BY <2>1, <2>4 DEF Clicking, Erasing
    <3>2. RowNow(u)' = RowNow(u)
      BY <1>0 DEF RowNow
    <3>3. QED BY <1>0, <3>1, <3>2 DEF About, Clicking, Erasing, Directs, Bare
  <2>6. QED BY <2>2, <2>3, <2>5, RestIs
<1>3. QED BY <1>1, <1>2 DEF Number

LEMMA SendRest ==
  ASSUME TypeOK, TypeOK', Alone, RestOK, NEW t \in Threads, Send(t)
  PROVE  RestOK'
<1> PICK h : h = Head(rest)
  OBVIOUS
<1> PICK r : r = Tail(rest)
  OBVIOUS
<1>1. At(t, "send") /\ Done(t) /\ UNCHANGED <<acc, cool, userOff>>
  BY DEF Send, mem
<1>2. PICK u \in Uids : Noting(u, h, r)
  BY <1>1, Shapes
<1>3. rest' = r
  BY <1>1, Moved
<1>4. CASE r = <<>>
  BY <1>3, <1>4, RestEmpty
<1>5. CASE acc[u] # Absent /\ r = Persist(RowNow(u))
  <2> PICK s : s = [do |-> "persist", w |-> RowNow(u), seq |-> 0]
    OBVIOUS
  <2>1. acc[u] \in AccountStates
    BY <1>5 DEF TypeOK
  <2>2. s \in Sends(RowNow(u)) /\ RowNow(u)' = RowNow(u)
    BY <1>1, <2>1, RowType, SendsSteps DEF RowNow
  <2>3. About(u, s, <<>>)'
    BY <1>1, <1>5, <2>2 DEF About, Noting, Sends
  <2>4. rest' = <<s>>
    BY <1>3, <1>5 DEF Persist
  <2>5. QED BY <2>3, <2>4, RestIsOne
<1>6. CASE r = OnUid("record", u)
  <2> PICK s : s = [do |-> "record", uid |-> u]
    OBVIOUS
  <2>1. About(u, s, <<>>)' /\ rest' = <<s>>
    BY <1>3, <1>6 DEF About, Probing, OnUid
  <2>2. QED BY <2>1, RestIsOne
<1>7. QED BY <1>2, <1>4, <1>5, <1>6 DEF Noting

LEMMA MarkRest ==
  ASSUME TypeOK, TypeOK', Alone, RestOK, NEW t \in Threads, Mark(t)
  PROVE  RestOK'
<1> PICK h : h = Head(rest)
  OBVIOUS
<1> PICK r : r = Tail(rest)
  OBVIOUS
<1> PICK s : s = [do |-> "write", w |-> h.w, seq |-> h.seq]
  OBVIOUS
<1>1. At(t, "mark") /\ UNCHANGED <<acc, cool, userOff>> /\ t = One
      /\ Become(t, "write", Head(todo[t]).seq)
  BY OnlyOne DEF Mark, mem
<1>2. PICK u \in Uids : Clicking(u, h, r) \/ Erasing(u, h, r)
  BY <1>1, Shapes
<1>3. rest' = <<s>> \o r /\ h \in Steps /\ r \in Seq(Steps) /\ h.do = "mark"
  <2>1. Head(todo[t]).seq = h.seq
    BY <1>1 DEF rest
  <2>2. Become(t, "write", h.seq)
    BY <1>1, <2>1
  <2>3. rest' = <<s>> \o r
    BY <2>2, Moved
  <2>4. QED BY <1>1, <2>3, Shapes
<1>4. s \in Steps
  BY <1>3, StepFields DEF Steps
<1>5. \A w : h \in Directs(w) => s \in Directs(w)
  BY DEF Directs
<1>6. About(u, s, r)'
  <2>1. Clicking(u, s, r) \/ Erasing(u, s, r)
    BY <1>2, <1>5 DEF Clicking, Erasing
  <2>2. RowNow(u)' = RowNow(u)
    BY <1>1 DEF RowNow
  <2>3. QED BY <1>1, <2>1, <2>2 DEF About, Clicking, Erasing, Directs, Bare
<1>7. QED BY <1>3, <1>4, <1>6, RestIs

LEMMA WriteRest ==
  ASSUME TypeOK, TypeOK', Alone, RestOK, NEW t \in Threads, WriteDb(t)
  PROVE  RestOK'
<1> PICK h : h = Head(rest)
  OBVIOUS
<1> PICK r : r = Tail(rest)
  OBVIOUS
<1>1. At(t, "write") /\ UNCHANGED <<acc, cool, userOff>>
  BY DEF WriteDb, mem
<1>2. PICK u \in Uids : \/ Clicking(u, h, r) \/ Erasing(u, h, r)
                       \/ Clearing(u, h, r) \/ Wiping(u, h, r)
  BY <1>1, Shapes
<1>3. CASE todo' = [todo EXCEPT ![t] = <<>>]
  BY <1>3, Moved, RestEmpty
<1>4. CASE Done(t)
  <2>1. rest' = r
    BY <1>4, Moved
  <2>2. CASE r = <<>>
    BY <2>1, <2>2, RestEmpty
  <2>3. CASE Erasing(u, h, r)
    <3> PICK s : s = [do |-> "write", w |-> Gone("goneCools", u), seq |-> 0]
      OBVIOUS
    <3>1. rest' = <<s>>
      BY <2>1, <2>3 DEF Erasing, Write
    <3>2. About(u, s, <<>>)'
      BY <1>1, <2>3 DEF About, Erasing, Wiping, Bare, Write
    <3>3. QED BY <3>1, <3>2, RestIsOne
  <2>4. QED BY <1>2, <2>2, <2>3 DEF Clicking, Clearing, Wiping
<1>5. QED BY <1>3, <1>4 DEF WriteDb

LEMMA ForgetRest ==
  ASSUME TypeOK, TypeOK', Alone, RestOK, NEW t \in Threads, Forget(t)
  PROVE  RestOK'
<1> PICK h : h = Head(rest)
  OBVIOUS
<1> PICK r : r = Tail(rest)
  OBVIOUS
<1>1. At(t, "forget") /\ Done(t) /\ t = One
  BY OnlyOne DEF Forget
<1>2. PICK u \in Uids : Forgetting(u, h, r)
  BY <1>1, Shapes
<1>3. rest' = r /\ Head(todo[t]).uid = u
  <2>1. <<h>> = OnUid("forget", u)
    BY <1>2 DEF Forgetting
  <2>2. h.uid = u
    BY <2>1 DEF OnUid
  <2>3. QED BY <1>1, <2>2, Moved DEF rest
<1>4. Bare(u)'
  BY <1>3 DEF Forget, Bare, TypeOK
<1> PICK s : s = [do |-> "sync", w |-> Gone("gone", u), seq |-> 0]
  OBVIOUS
<1> PICK q : q = Write(Gone("goneCools", u))
  OBVIOUS
<1>5. Gone("gone", u) \in Goners /\ Gone("goneCools", u) \in Goners
  BY DEF Gone, Goners
<1>6. s \in Directs(Gone("gone", u)) /\ s \in Steps /\ q \in Seq(Steps)
  BY <1>5, DirectsSteps, PieceTypes
<1>7. rest' = <<s>> \o q
  BY <1>2, <1>3 DEF Forgetting, Sync
<1>8. About(u, s, q)'
  BY <1>4, <1>6 DEF About, Erasing, Directs
<1>9. QED BY <1>6, <1>7, <1>8, RestIs

LEMMA AnswerRest ==
  ASSUME TypeOK, TypeOK', Alone, RestOK, NEW t \in Threads, Answer(t)
  PROVE  RestOK'
<1> PICK h : h = Head(rest)
  OBVIOUS
<1> PICK r : r = Tail(rest)
  OBVIOUS
<1>1. At(t, "answer") /\ t = One
  BY OnlyOne DEF Answer
<1>2. PICK u \in Uids : Probing(u, h, r)
  BY <1>1, Shapes
<1>3. r = <<>> /\ Head(todo[t]).uid = u
  BY <1>1, <1>2 DEF Probing, OnUid, rest
<1> PICK q : q = OnUid("record", u)
  OBVIOUS
<1>4. q \in Seq(Steps) /\ Probing(u, [do |-> "record", uid |-> u], <<>>)
  BY PieceTypes DEF Probing, OnUid
<1> PICK p : p = IF acc[u] = Absent THEN <<>> ELSE Persist(Row(u, acc'[u]))
  OBVIOUS
<1>5. Then(t, q) \/ (Then(t, p \o q) /\ (acc[u] # Absent => acc'[u] \in AccountStates))
  <2>1. \/ Then(t, OnUid("record", Head(todo[t]).uid))
        \/ \E reason \in AutoReasons :
             /\ acc' = [acc EXCEPT ![Head(todo[t]).uid] =
                          IF @ = Absent THEN @ ELSE Condemned(@, reason)]
             /\ Then(t, (IF acc[Head(todo[t]).uid] = Absent THEN <<>>
                         ELSE Persist(Row(Head(todo[t]).uid, acc'[Head(todo[t]).uid])))
                          \o OnUid("record", Head(todo[t]).uid))
    BY DEF Answer
  <2>2. \/ Then(t, q)
        \/ \E reason \in AutoReasons :
             /\ acc' = [acc EXCEPT ![u] = IF @ = Absent THEN @ ELSE Condemned(@, reason)]
             /\ Then(t, p \o q)
    BY <1>3, <2>1
  <2>3. ASSUME NEW reason \in AutoReasons, acc[u] # Absent,
               acc' = [acc EXCEPT ![u] = IF @ = Absent THEN @ ELSE Condemned(@, reason)]
        PROVE  acc'[u] \in AccountStates
    BY <2>3, EventTypes DEF TypeOK
  <2>4. QED BY <2>2, <2>3
<1>6. ASSUME rest' = q
      PROVE  RestOK'
  BY <1>4, <1>6, RestIsOne DEF About, OnUid, Probing
<1>7. CASE Then(t, q)
  <2>1. rest' = q \o <<>>
    BY <1>3, <1>7, Moved
  <2>2. QED BY <1>4, <1>6, <2>1, ConcatEmptySeq
<1>8. CASE Then(t, p \o q) /\ acc[u] = Absent
  <2>1. rest' = (<<>> \o q) \o <<>>
    BY <1>3, <1>8, Moved
  <2>2. QED BY <1>4, <1>6, <2>1, ConcatEmptySeq
<1>9. CASE Then(t, p \o q) /\ acc[u] # Absent /\ acc'[u] \in AccountStates
  <2> PICK s : s = [do |-> "persist", w |-> Row(u, acc'[u]), seq |-> 0]
    OBVIOUS
  <2>1. s \in Sends(RowNow(u))' /\ s \in Steps /\ acc'[u] # Absent
    BY <1>9, RowType, SendsSteps, AbsentAssumption DEF RowNow, Sends
  <2>2. p = <<s>> /\ p \o q \in Seq(Steps)
    <3>1. p = <<s>> /\ p \in Seq(Steps)
      BY <1>9, <2>1, StepSeq DEF Persist
    <3>2. QED BY <1>4, <3>1, JoinType
  <2>3. rest' = (p \o q) \o <<>>
    BY <1>3, <1>9, Moved
  <2>4. rest' = <<s>> \o q
    BY <2>2, <2>3, ConcatEmptySeq
  <2>5. About(u, s, q)'
    BY <2>1 DEF About, Noting
  <2>6. QED BY <1>4, <2>1, <2>4, <2>5, RestIs
<1>10. QED BY <1>5, <1>7, <1>8, <1>9

LEMMA RecordRest ==
  ASSUME TypeOK, TypeOK', Alone, RestOK, NEW t \in Threads, Record(t)
  PROVE  RestOK'
<1> PICK h : h = Head(rest)
  OBVIOUS
<1> PICK r : r = Tail(rest)
  OBVIOUS
<1>1. At(t, "record") /\ t = One /\ UNCHANGED <<acc, cool, userOff>>
  BY OnlyOne DEF Record, mem, hist
<1>2. PICK u \in Uids : Probing(u, h, r)
  BY <1>1, Shapes
<1>3. r = <<>> /\ Head(todo[t]).uid = u
  BY <1>1, <1>2 DEF Probing, OnUid, rest
<1> PICK p : p = IF acc[u] = Absent THEN <<>> ELSE Persist(Row(u, acc[u]))
  OBVIOUS
<1>4. rest' = p \o <<>>
  BY <1>3, Moved DEF Record
<1>5. CASE acc[u] = Absent
  BY <1>4, <1>5, ConcatEmptySeq, StepSeq, RestEmpty
<1>6. CASE acc[u] # Absent
  <2> PICK s : s = [do |-> "persist", w |-> RowNow(u), seq |-> 0]
    OBVIOUS
  <2>1. s \in Sends(RowNow(u)) /\ s \in Steps /\ RowNow(u)' = RowNow(u)
    BY <1>1, <1>6, RowType, SendsSteps DEF RowNow, TypeOK
  <2>2. p = <<s>>
    BY <1>6 DEF Persist, RowNow
  <2>3. rest' = <<s>>
    BY <1>4, <2>1, <2>2, ConcatEmptySeq, StepSeq
  <2>4. About(u, s, <<>>)'
    BY <1>1, <1>6, <2>1 DEF About, Noting, Sends
  <2>5. QED BY <2>3, <2>4, RestIsOne
<1>7. QED BY <1>5, <1>6

LEMMA LoadRest ==
  ASSUME TypeOK, TypeOK', Alone, RestOK, NEW t \in Threads,
         ReadRows(t) \/ Scan(t) \/ Swap(t)
  PROVE  RestOK'
<1> PICK h : h = Head(rest)
  OBVIOUS
<1> PICK r : r = Tail(rest)
  OBVIOUS
<1>1. Loading(h, r) /\ rest' = r
  BY Shapes, Moved DEF ReadRows, Scan, Swap
<1>2. CASE r = <<>>
  BY <1>1, <1>2, RestEmpty
<1>3. CASE r = <<[do |-> "swap"]>>
  BY <1>1, <1>3, Singles DEF RestOK, Loading
<1>4. CASE r = <<[do |-> "scan"], [do |-> "swap"]>>
  BY <1>1, <1>4, Doubles DEF RestOK, Loading
<1>5. QED BY <1>1, <1>2, <1>3, <1>4 DEF Loading

LEMMA StepRest ==
  ASSUME TypeOK, TypeOK', Alone, RestOK, NEW t \in Threads, Step(t)
  PROVE  RestOK'
BY NumberRest, SendRest, MarkRest, WriteRest, ForgetRest, AnswerRest,
   RecordRest, LoadRest DEF Step

-----------------------------------------------------------------------------
(***************************************************************************)
(* A process that is down has nothing on its way.                          *)
(***************************************************************************)
DownIdle == phase = "down" => Drained /\ rest = <<>>

\* What no handler touches when it begins.
Apart == <<phase, db, queue, worker, seq, applied, snap, late, lost>>

LEMMA HandlersServe ==
  ASSUME Handlers
  PROVE  Serving /\ UNCHANGED Apart /\ \E t \in Threads : todo[t] = <<>>
<1>1. ASSUME NEW t \in Threads, NEW u \in Uids, NEW m \in Models,
             \/ NoteSuccess(t, u, m) \/ ClearModelCool(t, u, m)
             \/ \E kind \in PunishingKinds : NoteError(t, u, m, kind)
      PROVE  Serving /\ UNCHANGED Apart /\ todo[t] = <<>>
  BY <1>1 DEF NoteSuccess, NoteError, ClearModelCool, Start, hist, Apart
<1>2. ASSUME NEW t \in Threads, NEW u \in Uids,
             \/ Probe(t, u) \/ Activate(t, u) \/ RemoveProfile(t, u)
             \/ \E off \in BOOLEAN : SetManualDisabled(t, u, off)
      PROVE  Serving /\ UNCHANGED Apart /\ todo[t] = <<>>
  BY <1>2 DEF SetManualDisabled, Probe, Activate, RemoveProfile, Start, hist, Apart
<1>3. ASSUME NEW t \in Threads, ReloadMembers(t) \/ Logout(t)
      PROVE  Serving /\ UNCHANGED Apart /\ todo[t] = <<>>
  BY <1>3 DEF ReloadMembers, Logout, Start, hist, Apart
<1>4. QED BY <1>1, <1>2, <1>3 DEF Handlers

LEMMA DownNext ==
  ASSUME TypeOK, Alone, DownIdle, [Next]_vars
  PROVE  DownIdle'
<1>1. CASE Handlers
  <2>1. Serving /\ UNCHANGED phase
    BY <1>1, HandlersServe DEF Apart
  <2>2. QED BY <2>1 DEF Serving, DownIdle
<1>2. ASSUME NEW t \in Threads, Step(t)
      PROVE  DownIdle'
  <2>1. todo[t] # <<>> /\ UNCHANGED phase
    BY <1>2 DEF Step, Number, Send, Mark, WriteDb, Forget, Answer, Record,
       ReadRows, Scan, Swap, At
  <2>2. QED BY <2>1, OnlyOne DEF DownIdle, rest
<1>3. CASE Persister
  <2>1. phase # "down" /\ UNCHANGED phase
    BY <1>3 DEF Persister, Take, Judge, Save, Serving, DownIdle, Drained, Idle
  <2>2. QED BY <2>1 DEF DownIdle
<1>4. CASE Files
  BY <1>4 DEF Files, Login, Import, DownIdle, Drained, rest
<1>5. CASE Process
  <2>1. CASE Close
    BY <2>1 DEF Close, DownIdle
  <2>2. CASE Exit \/ Crash
    BY <2>2, OnlyOne DEF Exit, Crash, Die, DownIdle, Drained, rest
  <2>3. CASE Boot
    BY <2>3 DEF Boot, DownIdle
  <2>4. QED BY <1>5, <2>1, <2>2, <2>3 DEF Process
<1>6. CASE UNCHANGED vars
  BY <1>6 DEF vars, DownIdle, Drained, rest
<1>7. QED BY <1>1, <1>2, <1>3, <1>4, <1>5, <1>6 DEF Next

LEMMA RestNext ==
  ASSUME TypeOK, TypeOK', Alone, DownIdle, RestOK, [Next]_vars
  PROVE  RestOK'
<1>1. CASE Persister
  <2>1. UNCHANGED <<todo, acc, cool, userOff>>
    BY <1>1 DEF Persister, Take, Judge, Save, mem, hist
  <2>2. QED BY <2>1, RestKept
<1>2. CASE Files
  BY <1>2, RestKept DEF Files, Login, Import, mem
<1>3. CASE Process
  <2>1. CASE Close
    BY <2>1, RestKept DEF Close, mem, hist
  <2>2. CASE Exit \/ Crash
    BY <2>2, OnlyOne, RestEmpty DEF Exit, Crash, Die, rest
  <2>3. CASE Boot
    BY <2>3, RestEmpty DEF Boot, DownIdle, rest
  <2>4. QED BY <1>3, <2>1, <2>2, <2>3 DEF Process
<1>4. CASE UNCHANGED vars
  BY <1>4, RestKept DEF vars, mem, hist
<1>5. QED BY <1>1, <1>2, <1>3, <1>4, StartRest, StepRest DEF Next

-----------------------------------------------------------------------------
(***************************************************************************)
(* A step that ends leaves steps nobody has begun.                         *)
(***************************************************************************)
Plain == {s \in Steps : Unbegun(s)}

LEMMA PlainPieces ==
  /\ <<>> \in Seq(Plain)
  /\ \A w \in Rows \cup Cools : Persist(w) \in Seq(Plain)
  /\ \A w \in Rows \cup Goners : Sync(w) \in Seq(Plain)
  /\ \A u \in Uids : Write(Gone("goneCools", u)) \in Seq(Plain)
  /\ \A d \in {"forget", "answer", "record"}, u \in Uids :
       OnUid(d, u) \in Seq(Plain)
<1>1. \A s \in Plain : <<s>> \in Seq(Plain)
  OBVIOUS
<1>2. \A w \in Rows \cup Cools : [do |-> "persist", w |-> w, seq |-> 0] \in Plain
  BY DEF Steps, Plain, Middles, Unbegun
<1>3. \A w \in Rows \cup Goners : [do |-> "sync", w |-> w, seq |-> 0] \in Plain
  BY DEF Steps, Plain, Middles, Unbegun
<1>4. \A u \in Uids :
        [do |-> "write", w |-> Gone("goneCools", u), seq |-> 0] \in Plain
  <2> TAKE u \in Uids
  <2>1. Gone("goneCools", u) \in Goners
    BY DEF Gone, Goners
  <2>2. QED BY <2>1 DEF Steps, Plain, Middles, Unbegun, Gone
<1>5. \A d \in {"forget", "answer", "record"}, u \in Uids :
        [do |-> d, uid |-> u] \in Plain
  BY DEF Steps, Plain, Middles, Unbegun
<1>6. QED BY <1>1, <1>2, <1>3, <1>4, <1>5 DEF Persist, Sync, Write, OnUid

LEMMA PlainJoin ==
  ASSUME NEW p \in Seq(Plain), NEW q \in Seq(Plain)
  PROVE  p \o q \in Seq(Plain)
  BY ConcatProperties

LEMMA PlainBegins ==
  ASSUME rest' \in Seq(Plain)
  PROVE  Begins'
<1>1. rest' # <<>> => Head(rest') \in Plain
  OBVIOUS
<1>2. QED BY <1>1 DEF Begins, Plain, Unbegun

LEMMA PlainTails ==
  ASSUME TypeOK, NEW u \in Uids, NEW h, NEW r, About(u, h, r)
  PROVE  r \in Seq(Plain)
<1>1. Gone("gone", u) \in Goners /\ Gone("goneCools", u) \in Goners
  BY DEF Gone, Goners
<1>2. acc[u] # Absent => Persist(RowNow(u)) \in Seq(Plain)
  <2>1. acc[u] # Absent => RowNow(u) \in Rows
    BY RowType DEF TypeOK, RowNow
  <2>2. QED BY <2>1, PlainPieces
<1>3. /\ OnUid("record", u) \in Seq(Plain)
      /\ Write(Gone("goneCools", u)) \in Seq(Plain)
      /\ Sync(Gone("gone", u)) \in Seq(Plain)
      /\ <<>> \in Seq(Plain)
  BY <1>1, PlainPieces
<1>4. Sync(Gone("gone", u)) \o Write(Gone("goneCools", u)) \in Seq(Plain)
  BY <1>3, PlainJoin
<1>5. QED
  BY <1>2, <1>3, <1>4 DEF About, Noting, Clicking, Clearing, Probing, Forgetting,
     Erasing, Wiping

LEMMA StepBegins ==
  ASSUME TypeOK, TypeOK', Alone, RestOK, NEW t \in Threads,
         \/ Send(t) \/ WriteDb(t) \/ Forget(t) \/ Answer(t) \/ Record(t)
  PROVE  Begins'
<1> PICK h : h = Head(rest)
  OBVIOUS
<1> PICK r : r = Tail(rest)
  OBVIOUS
<1>1. r \in Seq(Plain)
  <2>1. \E u \in Uids : About(u, h, r)
    <3>1. CASE Send(t)
      BY <3>1, Shapes DEF Send, About
    <3>2. CASE WriteDb(t)
      BY <3>2, Shapes DEF WriteDb, About
    <3>3. CASE Forget(t)
      BY <3>3, Shapes DEF Forget, About
    <3>4. CASE Answer(t)
      BY <3>4, Shapes DEF Answer, About
    <3>5. CASE Record(t)
      BY <3>5, Shapes DEF Record, About
    <3>6. QED BY <3>1, <3>2, <3>3, <3>4, <3>5
  <2>2. QED BY <2>1, PlainTails
<1>2. CASE Send(t) \/ Forget(t)
  <2>1. rest' = r
    BY <1>2, Moved DEF Send, Forget
  <2>2. QED BY <1>1, <2>1, PlainBegins
<1>3. CASE WriteDb(t)
  <2>1. rest' = r \/ rest' = <<>>
    BY <1>3, Moved DEF WriteDb
  <2>2. QED BY <1>1, <2>1, PlainBegins, PlainPieces
<1>4. CASE Answer(t)
  <2> PICK u : u = Head(todo[t]).uid
    OBVIOUS
  <2> PICK q : q = OnUid("record", u)
    OBVIOUS
  <2> PICK p : p = IF acc[u] = Absent THEN <<>> ELSE Persist(Row(u, acc'[u]))
    OBVIOUS
  <2>1. u \in Uids
    BY <1>4, HeadType, StepFields DEF Answer
  <2>2. Then(t, q) \/ (Then(t, p \o q) /\ (acc[u] # Absent => acc'[u] \in AccountStates))
    <3>1. \/ Then(t, q)
          \/ \E reason \in AutoReasons :
               /\ acc' = [acc EXCEPT ![u] = IF @ = Absent THEN @ ELSE Condemned(@, reason)]
               /\ Then(t, p \o q)
      BY <1>4 DEF Answer
    <3>2. ASSUME NEW reason \in AutoReasons, acc[u] # Absent,
                 acc' = [acc EXCEPT ![u] = IF @ = Absent THEN @ ELSE Condemned(@, reason)]
          PROVE  acc'[u] \in AccountStates
      BY <2>1, <3>2, EventTypes DEF TypeOK
    <3>3. QED BY <3>1, <3>2
  <2>3. q \in Seq(Plain)
    BY <2>1, PlainPieces
  <2>4. (acc[u] # Absent => acc'[u] \in AccountStates) => p \o q \in Seq(Plain)
    BY <2>1, <2>3, RowType, PlainPieces, PlainJoin
  <2>5. \E x \in Seq(Plain) : rest' = x \o r
    BY <2>2, <2>3, <2>4, Moved
  <2>6. QED BY <1>1, <2>5, PlainJoin, PlainBegins
<1>5. CASE Record(t)
  <2> PICK u : u = Head(todo[t]).uid
    OBVIOUS
  <2> PICK p : p = IF acc[u] = Absent THEN <<>> ELSE Persist(Row(u, acc[u]))
    OBVIOUS
  <2>1. u \in Uids /\ Then(t, p)
    BY <1>5, HeadType, StepFields DEF Record
  <2>2. p \in Seq(Plain)
    <3>1. acc[u] # Absent => acc[u] \in AccountStates
      BY <2>1 DEF TypeOK
    <3>2. QED BY <2>1, <3>1, RowType, PlainPieces
  <2>3. rest' = p \o r
    BY <2>1, Moved
  <2>4. QED BY <1>1, <2>2, <2>3, PlainJoin, PlainBegins
<1>6. QED BY <1>2, <1>3, <1>4, <1>5

\* The two steps that get a number, and the loading steps, go on in place.
LEMMA StepGoesOn ==
  ASSUME TypeOK, TypeOK', Alone, RestOK, NEW t \in Threads
  PROVE  /\ Number(t) => /\ rest # <<>> /\ rest' # <<>>
                         /\ Head(rest') = [do |-> IF Head(rest).do = "persist"
                                                  THEN "send" ELSE "mark",
                                           w |-> Head(rest).w, seq |-> seq + 1]
                         /\ Tail(rest') = Tail(rest)
                         /\ Head(rest).do \in {"persist", "sync"}
         /\ Mark(t) => /\ rest # <<>> /\ rest' # <<>>
                       /\ Head(rest') = [do |-> "write", w |-> Head(rest).w,
                                         seq |-> Head(rest).seq]
                       /\ Tail(rest') = Tail(rest)
                       /\ Head(rest).do = "mark"
         /\ ReadRows(t) => rest' = <<[do |-> "scan"], [do |-> "swap"]>>
         /\ Scan(t) => rest' = <<[do |-> "swap"]>>
         /\ Swap(t) => rest' = <<>>
<1> PICK h : h = Head(rest)
  OBVIOUS
<1> PICK r : r = Tail(rest)
  OBVIOUS
<1>0. seq + 1 \in Nat
  BY DEF TypeOK
<1>1. ASSUME NEW e, NEW f \in {"send", "mark"}, At(t, e), Become(t, f, seq + 1),
             <<e, f>> \in {<<"persist", "send">>, <<"sync", "mark">>}
      PROVE  /\ rest # <<>> /\ rest' # <<>>
             /\ Head(rest') = [do |-> f, w |-> h.w, seq |-> seq + 1]
             /\ Tail(rest') = r /\ h.do = e
  <2> PICK s : s = [do |-> f, w |-> h.w, seq |-> seq + 1]
    OBVIOUS
  <2>1. rest # <<>> /\ h \in Steps /\ r \in Seq(Steps) /\ h.do = e
    BY <1>1, Shapes
  <2>2. s \in Steps
    BY <1>0, <1>1, <2>1, StepFields DEF Steps
  <2>3. rest' = <<s>> \o r
    BY <1>1, Moved
  <2>4. QED BY <2>1, <2>2, <2>3, Joined
<1>2. Number(t) => /\ rest # <<>> /\ rest' # <<>>
                   /\ Head(rest') = [do |-> IF h.do = "persist" THEN "send" ELSE "mark",
                                     w |-> h.w, seq |-> seq + 1]
                   /\ Tail(rest') = r
                   /\ h.do \in {"persist", "sync"}
  BY <1>1 DEF Number
<1>3. ASSUME Mark(t)
      PROVE  /\ rest # <<>> /\ rest' # <<>>
             /\ Head(rest') = [do |-> "write", w |-> h.w, seq |-> h.seq]
             /\ Tail(rest') = r /\ h.do = "mark"
  <2> PICK s : s = [do |-> "write", w |-> h.w, seq |-> h.seq]
    OBVIOUS
  <2>1. At(t, "mark") /\ t = One /\ Become(t, "write", Head(todo[t]).seq)
    BY <1>3, OnlyOne DEF Mark
  <2>2. rest # <<>> /\ h \in Steps /\ r \in Seq(Steps) /\ h.do = "mark"
    BY <2>1, Shapes
  <2>3. s \in Steps
    BY <2>2, StepFields DEF Steps
  <2>4. Head(todo[t]).seq = h.seq
    BY <2>1 DEF rest
  <2>5. rest' = <<s>> \o r
    BY <2>1, <2>4, Moved
  <2>6. QED BY <2>2, <2>3, <2>5, Joined
<1>4. ASSUME ReadRows(t) \/ Scan(t) \/ Swap(t)
      PROVE  /\ Loading(h, r) /\ rest' = r
             /\ ReadRows(t) => h.do = "rows"
             /\ Scan(t) => h.do = "scan"
             /\ Swap(t) => h.do = "swap"
  BY <1>4, Shapes, Moved DEF ReadRows, Scan, Swap
<1>5. /\ ReadRows(t) => rest' = <<[do |-> "scan"], [do |-> "swap"]>>
      /\ Scan(t) => rest' = <<[do |-> "swap"]>>
      /\ Swap(t) => rest' = <<>>
  <2>1. ASSUME Loading(h, r)
        PROVE  /\ h.do = "rows" => r = <<[do |-> "scan"], [do |-> "swap"]>>
               /\ h.do = "scan" => r = <<[do |-> "swap"]>>
               /\ h.do = "swap" => r = <<>>
    BY <2>1 DEF Loading
  <2>2. QED BY <1>4, <2>1
<1>6. QED BY <1>2, <1>3, <1>5

-----------------------------------------------------------------------------
(***************************************************************************)
(* The accounts memory holds: only a deletion, a reload and a start change *)
(* which ones they are.                                                    *)
(***************************************************************************)
Known == {u \in Uids : acc[u] # Absent}

\* The rest of the handler starts by taking u out of memory.
Doomed(u) == rest # <<>> /\ Head(rest) = [do |-> "forget", uid |-> u]
Swapping  == rest # <<>> /\ Head(rest) = [do |-> "swap"]

\* Activate archives token.json first, but Login overwrites it: an account
\* that was only there would leave the disk, and stay in memory.
CurrentArchived == Current \in Archived \cup {NoUid}

MemberInv ==
  /\ active \in archives \cup {NoUid}
  /\ phase # "down" \/ "fault" \notin lost =>
       \A u \in Known : u \in OnDisk \/ Doomed(u)
  /\ Swapping => read.files \subseteq OnDisk /\ Known \subseteq read.files

LEMMA OneAccount ==
  ASSUME TypeOK, NEW u \in Uids, NEW s,
         acc' = [acc EXCEPT ![u] = s], s # Absent <=> acc[u] # Absent
  PROVE  Known' = Known
  BY DEF TypeOK, Known

LEMMA HandlersKnown ==
  ASSUME TypeOK, Handlers
  PROVE  Known' = Known
<1>1. ASSUME NEW t \in Threads, NEW u \in Uids, NEW m \in Models,
             NoteSuccess(t, u, m)
      PROVE  Known' = Known
  <2>1. acc[u] # Absent => AfterSuccess(acc[u]) # Absent
    BY EventTypes, AbsentAssumption DEF TypeOK
  <2>2. QED BY <1>1, <2>1 DEF NoteSuccess, TypeOK, Known
<1>2. ASSUME NEW t \in Threads, NEW u \in Uids, NEW m \in Models,
             NEW kind \in PunishingKinds, NoteError(t, u, m, kind)
      PROVE  Known' = Known
  <2>1. acc[u] \in AccountStates
    BY <1>2 DEF TypeOK, NoteError
  <2>2. AfterError(acc[u], kind) # Absent
    BY <2>1, EventTypes, AbsentAssumption
  <2>3. QED BY <1>2, <2>2 DEF NoteError, TypeOK, Known
<1>3. ASSUME NEW t \in Threads, NEW u \in Uids, NEW off \in BOOLEAN,
             SetManualDisabled(t, u, off)
      PROVE  Known' = Known
  <2>1. acc[u] \in AccountStates
    BY <1>3 DEF TypeOK, SetManualDisabled
  <2>2. AfterManual(acc[u], off) # Absent
    BY <2>1, EventTypes, AbsentAssumption
  <2>3. QED BY <1>3, <2>2 DEF SetManualDisabled, TypeOK, Known
<1>4. ASSUME NEW t \in Threads,
             \/ ReloadMembers(t) \/ Logout(t)
             \/ \E u \in Uids : \/ Probe(t, u) \/ Activate(t, u) \/ RemoveProfile(t, u)
                               \/ \E m \in Models : ClearModelCool(t, u, m)
      PROVE  Known' = Known
  BY <1>4 DEF ReloadMembers, Logout, Probe, Activate, RemoveProfile,
     ClearModelCool, mem, Known
<1>5. QED BY <1>1, <1>2, <1>3, <1>4 DEF Handlers

LEMMA StepKnown ==
  ASSUME TypeOK, NEW t \in Threads, Step(t), ~Forget(t), ~Swap(t)
  PROVE  Known' = Known
<1>1. CASE Answer(t)
  <2> PICK u : u = Head(todo[t]).uid
    OBVIOUS
  <2>1. u \in Uids
    BY <1>1, HeadType, StepFields DEF Answer
  <2>2. \/ UNCHANGED acc
        \/ \E reason \in AutoReasons :
             acc' = [acc EXCEPT ![u] = IF @ = Absent THEN @ ELSE Condemned(@, reason)]
        \/ acc' = [acc EXCEPT ![u] = IF @ = Absent THEN @ ELSE Recovered(@)]
    BY <1>1 DEF Answer
  <2>3. acc[u] # Absent => /\ Recovered(acc[u]) # Absent
                           /\ \A r \in AutoReasons : Condemned(acc[u], r) # Absent
    <3>1. acc[u] # Absent => acc[u] \in AccountStates
      BY <2>1 DEF TypeOK
    <3>2. QED BY <3>1, EventTypes, AbsentAssumption
  <2>4. QED BY <2>1, <2>2, <2>3 DEF TypeOK, Known
<1>2. CASE ~Answer(t)
  <2>1. UNCHANGED acc
    BY <1>2 DEF Step, Number, Send, Mark, WriteDb, Record, ReadRows, Scan, mem
  <2>2. QED BY <2>1 DEF Known
<1>3. QED BY <1>1, <1>2

-----------------------------------------------------------------------------
\* A step that touches neither the files nor what memory holds.
LEMMA MemberKept ==
  ASSUME MemberInv, UNCHANGED <<active, archives, phase>>, Known' = Known,
         "fault" \in lost => "fault" \in lost',
         \A u \in Known : Doomed(u) => Doomed(u)',
         Swapping' => Swapping /\ UNCHANGED read
  PROVE  MemberInv'
  BY DEF MemberInv, OnDisk

LEMMA DeleteHead ==
  ASSUME NEW u \in Uids
  PROVE  Delete(u) # <<>> /\ Head(Delete(u)) = [do |-> "forget", uid |-> u]
<1> PICK f : f = [do |-> "forget", uid |-> u]
  OBVIOUS
<1> PICK s : s = Sync(Gone("gone", u))
  OBVIOUS
<1> PICK q : q = Write(Gone("goneCools", u))
  OBVIOUS
<1>1. Gone("gone", u) \in Goners /\ Gone("goneCools", u) \in Goners
  BY DEF Gone, Goners
<1>2. f \in Steps /\ <<f>> \in Seq(Steps) /\ s \in Seq(Steps) /\ q \in Seq(Steps)
  BY <1>1, PieceTypes, StepSeq DEF Steps
<1>3. Delete(u) = <<f>> \o (s \o q) /\ s \o q \in Seq(Steps)
  BY <1>2, ConcatAssociative, JoinType DEF Delete, OnUid
<1>4. QED BY <1>2, <1>3, Joined

LEMMA HandlersMember ==
  ASSUME TypeOK, TypeOK', Alone, MemberInv, Handlers
  PROVE  MemberInv'
<1>1. Known' = Known /\ UNCHANGED <<phase, snap, lost>> /\ phase # "down"
  BY HandlersKnown, HandlersServe DEF Serving, Apart
<1>2. rest = <<>> /\ ~Swapping'
  <2>1. rest = <<>>
    BY OnlyOne, HandlersServe DEF rest
  <2>2. QED BY <2>1, StartRest DEF Begins, Middles, Unbegun, Swapping
<1>3. \A u \in Known : u \in OnDisk
  BY <1>1, <1>2 DEF MemberInv, Doomed
<1>4. CASE UNCHANGED files
  BY <1>1, <1>2, <1>3, <1>4 DEF MemberInv, files, OnDisk
<1>5. ASSUME NEW t \in Threads, NEW u \in Uids, Activate(t, u)
      PROVE  MemberInv'
  BY <1>1, <1>2, <1>3, <1>5 DEF MemberInv, OnDisk, Activate
<1>6. ASSUME NEW t \in Threads, Logout(t)
      PROVE  MemberInv'
  BY <1>1, <1>2, <1>3, <1>6 DEF MemberInv, OnDisk, Logout
<1>7. ASSUME NEW t \in Threads, NEW u \in Uids, RemoveProfile(t, u)
      PROVE  MemberInv'
  <2> PICK f : f = [do |-> "forget", uid |-> u]
    OBVIOUS
  <2>1. Doomed(u)'
    <3>1. rest' = Delete(u)
      BY <1>7, Started DEF RemoveProfile
    <3>2. QED BY <3>1, DeleteHead DEF Doomed
  <2>2. QED BY <1>1, <1>2, <1>3, <1>7, <2>1 DEF MemberInv, OnDisk, RemoveProfile
<1>8. ASSUME NEW t \in Threads, NEW u \in Uids,
             \/ Probe(t, u) \/ \E off \in BOOLEAN : SetManualDisabled(t, u, off)
             \/ \E m \in Models : \/ NoteSuccess(t, u, m) \/ ClearModelCool(t, u, m)
                                 \/ \E kind \in PunishingKinds : NoteError(t, u, m, kind)
      PROVE  UNCHANGED files
  BY <1>8 DEF Probe, SetManualDisabled, NoteSuccess, ClearModelCool, NoteError
<1>9. ASSUME NEW t \in Threads, ReloadMembers(t)
      PROVE  UNCHANGED files
  BY <1>9 DEF ReloadMembers
<1>10. QED
  BY <1>4, <1>5, <1>6, <1>7, <1>8, <1>9 DEF Handlers

LEMMA StepMember ==
  ASSUME TypeOK, TypeOK', Alone, RestOK, MemberInv, phase # "down",
         NEW t \in Threads, Step(t)
  PROVE  MemberInv'
<1> PICK h : h = Head(rest)
  OBVIOUS
<1> PICK r : r = Tail(rest)
  OBVIOUS
<1>1. UNCHANGED <<active, archives, phase>> /\ t = One
  BY OnlyOne DEF Step, Number, Send, Mark, WriteDb, Forget, Answer, Record,
     ReadRows, Scan, Swap, files
<1>2. CASE Forget(t)
  <2>1. PICK u \in Uids : Forgetting(u, h, r)
    BY <1>2, Shapes DEF Forget
  <2>2. h = [do |-> "forget", uid |-> u] /\ h.uid = u
    <3>1. <<h>> = <<[do |-> "forget", uid |-> u]>>
      BY <2>1 DEF Forgetting, OnUid
    <3>2. QED BY <3>1
  <2>3. Known' = Known \ {u}
    <3>1. acc' = [acc EXCEPT ![u] = Absent]
      BY <1>1, <1>2, <2>2 DEF Forget, rest
    <3>2. QED BY <3>1 DEF Known, TypeOK
  <2>4. \A v \in Known \ {u} : v \in OnDisk
    BY <2>2 DEF MemberInv, Doomed
  <2>5. ~Swapping'
    BY <1>2, StepBegins DEF Begins, Middles, Unbegun, Swapping
  <2>6. QED BY <1>1, <2>3, <2>4, <2>5 DEF MemberInv, OnDisk
<1>3. CASE Scan(t)
  <2>1. /\ Known' = Known /\ read' = [read EXCEPT !.files = OnDisk]
        /\ h.do = "scan" /\ At(t, "scan")
    BY <1>1, <1>3, Moved DEF Scan, Known, mem, TypeOK, read
  <2>2. \A u \in Known : u \in OnDisk
    BY <2>1 DEF MemberInv, Doomed
  <2>3. read'.files = OnDisk
    BY <1>1, <2>1 DEF TypeOK, read
  <2>4. QED BY <1>1, <2>1, <2>2, <2>3 DEF MemberInv, OnDisk
<1>4. CASE Swap(t)
  <2>1. Swapping
    <3>1. rest # <<>> /\ h.do = "swap" /\ Loading(h, r)
      BY <1>4, Shapes DEF Swap
    <3>2. h = [do |-> "swap"]
      BY <3>1 DEF Loading
    <3>3. QED BY <3>1, <3>2 DEF Swapping
  <2>2. Known' \subseteq read.files
    BY <1>1, <1>4 DEF Swap, Members, Known, read
  <2>3. rest' = <<>>
    BY <1>4, StepGoesOn
  <2>4. QED BY <1>1, <2>1, <2>2, <2>3 DEF MemberInv, OnDisk, Swapping
<1>5. CASE ~Forget(t) /\ ~Swap(t) /\ ~Scan(t)
  <2>1. Known' = Known
    BY <1>5, StepKnown
  <2>2. \A u : ~Doomed(u)
    <3>1. PICK d : At(t, d) /\ d # "forget"
      <4>1. CASE Number(t)
        BY <4>1 DEF Number
      <4>2. CASE Send(t) \/ Mark(t) \/ WriteDb(t)
        BY <4>2 DEF Send, Mark, WriteDb
      <4>3. CASE Answer(t) \/ Record(t) \/ ReadRows(t)
        BY <4>3 DEF Answer, Record, ReadRows
      <4>4. QED BY <1>5, <4>1, <4>2, <4>3 DEF Step
    <3>2. QED BY <3>1, Moved DEF Doomed
  <2>3. ~Swapping'
    <3>1. CASE Number(t) \/ Mark(t) \/ ReadRows(t)
      BY <3>1, StepGoesOn, Doubles DEF Swapping
    <3>2. CASE ~(Number(t) \/ Mark(t) \/ ReadRows(t))
      <4>1. Begins'
        BY <1>5, <3>2, StepBegins DEF Step
      <4>2. QED BY <4>1 DEF Begins, Middles, Unbegun, Swapping
    <3>3. QED BY <3>1, <3>2
  <2>4. QED BY <1>1, <2>1, <2>2, <2>3 DEF MemberInv, OnDisk
<1>6. QED BY <1>2, <1>3, <1>4, <1>5

LEMMA MemberNext ==
  ASSUME TypeOK, TypeOK', Alone, DownIdle, RestOK, MemberInv, [Next]_vars
  PROVE  MemberInv'
<1>1. CASE \E t \in Threads : Step(t)
  <2>1. phase # "down"
    BY <1>1, OnlyOne DEF DownIdle, rest, Step, Number, Send, Mark, WriteDb, Forget,
       Answer, Record, ReadRows, Scan, Swap, At
  <2>2. QED BY <1>1, <2>1, StepMember
<1>2. CASE Persister
  <2>1. UNCHANGED <<active, archives, phase, todo, snap>> /\ UNCHANGED acc
        /\ ("fault" \in lost => "fault" \in lost')
    BY <1>2 DEF Persister, Take, Judge, Save, StoreFails, files, mem, hist
  <2>2. QED BY <2>1, MemberKept DEF Known, Doomed, Swapping, rest, read
<1>3. CASE Files
  <2>1. PICK u \in Uids : Login(u) \/ Import(u)
    BY <1>3 DEF Files
  <2>2. /\ OnDisk \subseteq OnDisk' /\ active' \in archives' \cup {NoUid}
        /\ UNCHANGED <<phase, todo, snap, acc, lost>>
    BY <2>1 DEF Login, Import, OnDisk, MemberInv, mem
  <2>3. QED BY <2>2 DEF MemberInv, Known, Doomed, Swapping, rest, read
<1>4. CASE Close
  BY <1>4 DEF Close, files, hist, mem, MemberInv, Known, Doomed, Swapping,
     rest, read, OnDisk
<1>5. CASE Exit \/ Crash
  <2>1. /\ UNCHANGED <<active, archives, acc>> /\ rest' = <<>>
        /\ phase' = "down" /\ phase # "down"
        /\ rest # <<>> => "fault" \in lost'
    BY <1>5, OnlyOne DEF Exit, Crash, Die, files, mem, rest, MidHandler, Quiescent,
       Serving
  <2>2. QED BY <2>1 DEF MemberInv, OnDisk, Known, Doomed, Swapping
<1>6. CASE Boot
  <2>1. Known' \subseteq OnDisk
    BY <1>6 DEF Boot, Members, Known
  <2>2. QED BY <1>6, <2>1 DEF Boot, files, MemberInv, OnDisk, DownIdle, rest, Swapping
<1>7. CASE UNCHANGED vars
  BY <1>7 DEF vars, files, hist, mem, MemberInv, Known, Doomed, Swapping,
     rest, read, OnDisk
<1>8. QED
  BY <1>1, <1>2, <1>3, <1>4, <1>5, <1>6, <1>7, HandlersMember DEF Next, Process
\* What a serial run keeps, whatever the files.
SerialInv == TypeOK /\ DownIdle /\ RestOK

LEMMA SerialNext == Alone /\ SerialInv /\ [Next]_vars => SerialInv'
  BY NextType, DownNext, RestNext DEF SerialInv

LEMMA SerialInit == Alone /\ Init => SerialInv
<1> SUFFICES ASSUME Alone, Init PROVE SerialInv
  OBVIOUS
<1>1. rest = <<>> /\ phase = "up"
  BY OnlyOne DEF Init, rest
<1>2. QED BY <1>1, InitType DEF SerialInv, DownIdle, RestOK

LEMMA MemberInit == Alone /\ CurrentArchived /\ Init => MemberInv
<1> SUFFICES ASSUME Alone, CurrentArchived, Init PROVE MemberInv
  OBVIOUS
<1>1. rest = <<>> /\ phase = "up" /\ active \in archives \cup {NoUid}
  BY OnlyOne DEF Init, rest, CurrentArchived
<1>2. Known \subseteq OnDisk
  BY DEF Init, Members, Known
<1>3. QED BY <1>1, <1>2 DEF MemberInv, Swapping

(* Between handlers the pool holds no account whose credentials have left    *)
(* the disk (RemoveProfile deletes the file and then the account; Activate,  *)
(* Login and ReloadMembers), through any faults, crashes and restarts, when  *)
(* handlers run one after the other and the first token.json was archived.   *)
THEOREM MembersHaveFiles ==
  ASSUME Alone, CurrentArchived
  PROVE  Spec => []MembersOnDisk
<1>1. Init => SerialInv /\ MemberInv
  BY SerialInit, MemberInit
<1>2. SerialInv /\ MemberInv /\ [Next]_vars => (SerialInv /\ MemberInv)'
  BY SerialNext, MemberNext DEF SerialInv
<1>3. SerialInv /\ MemberInv => MembersOnDisk
  <2> SUFFICES ASSUME SerialInv, MemberInv, Quiescent, phase = "up",
                      NEW u \in Uids, acc[u] # Absent
               PROVE  u \in OnDisk
    BY DEF MembersOnDisk
  <2>1. ~Doomed(u)
    BY OnlyOne DEF Quiescent, MidHandler, Doomed, rest
  <2>2. QED BY <2>1 DEF MemberInv, Known
<1>4. QED BY <1>1, <1>2, <1>3, PTL DEF Spec

-----------------------------------------------------------------------------
(***************************************************************************)
(* The order of the writes on their way to the persister.  Numbers grow    *)
(* along the queue and the persister holds the oldest; the number a        *)
(* handler has just taken is above all of them and above every mark.       *)
(***************************************************************************)
InHand  == IF worker = Idle THEN {} ELSE {worker.op}
Queued  == {queue[i] : i \in 1..Len(queue)}
Pending == InHand \cup Queued

Numbered == rest # <<>> /\ Head(rest).do \in {"send", "mark"}

Sorted ==
  /\ \A i, j \in 1..Len(queue) : i < j => queue[i].seq < queue[j].seq
  /\ worker # Idle => \A o \in Queued : worker.op.seq < o.seq

Counted ==
  /\ \A o \in Pending : o.seq <= seq
  /\ \A u \in Uids : applied[u] <= seq

Newest ==
  Numbered => /\ Head(rest).seq <= seq
              /\ \A o \in Pending : o.seq < Head(rest).seq
              /\ \A u \in Uids : applied[u] < Head(rest).seq

OrderInv == Sorted /\ Counted /\ Newest

LEMMA PendingType ==
  ASSUME TypeOK
  PROVE  /\ Pending \subseteq Ops /\ Queued \subseteq Ops
         /\ worker # Idle => worker.op \in Ops /\ worker.op \in Pending
  BY DEF TypeOK, Pending, InHand, Queued

LEMMA Appended ==
  ASSUME TypeOK, Sorted, NEW o \in Ops, queue' = Append(queue, o), UNCHANGED worker,
         \A p \in Pending : p.seq < o.seq
  PROVE  Sorted' /\ Pending' = Pending \cup {o}
<1>1. /\ Len(queue) \in Nat /\ Len(queue') = Len(queue) + 1
      /\ \A i \in 1..Len(queue) : queue'[i] = queue[i]
      /\ queue'[Len(queue) + 1] = o
  BY DEF TypeOK
<1>2. Queued' = Queued \cup {o}
  BY <1>1 DEF Queued
<1>3. ASSUME NEW i \in 1..Len(queue'), NEW j \in 1..Len(queue'), i < j
      PROVE  queue'[i].seq < queue'[j].seq
  <2>1. i \in 1..Len(queue) /\ queue'[i] = queue[i] /\ queue[i] \in Pending
    BY <1>1, <1>3 DEF Pending, Queued
  <2>2. CASE j = Len(queue) + 1
    BY <1>1, <2>1, <2>2
  <2>3. CASE j # Len(queue) + 1
    BY <1>1, <1>3, <2>1, <2>3 DEF Sorted
  <2>4. QED BY <2>2, <2>3
<1>4. worker # Idle => \A p \in Queued' : worker.op.seq < p.seq
  BY <1>2 DEF Sorted, Pending, InHand
<1>5. QED BY <1>2, <1>3, <1>4 DEF Sorted, Pending, InHand

LEMMA Taken ==
  ASSUME TypeOK, Sorted, Take
  PROVE  Sorted' /\ Pending' = Pending
<1>1. /\ Len(queue) \in Nat \ {0} /\ Len(queue') = Len(queue) - 1
      /\ \A i \in 1..Len(queue') : queue'[i] = queue[i + 1]
      /\ Head(queue) = queue[1]
  BY DEF TypeOK, Take
<1>2. worker = Idle /\ worker' # Idle /\ worker'.op = queue[1]
  BY <1>1 DEF Take, Idle
<1>3. Queued = {queue[1]} \cup Queued'
  <2>1. \A i \in 1..Len(queue) : i = 1 \/ (i - 1 \in 1..Len(queue') /\ queue[i] = queue'[i - 1])
    BY <1>1
  <2>2. \A i \in 1..Len(queue') : i + 1 \in 1..Len(queue) /\ queue'[i] = queue[i + 1]
    BY <1>1
  <2>3. 1 \in 1..Len(queue)
    BY <1>1
  <2>4. Queued \subseteq {queue[1]} \cup Queued'
    <3> SUFFICES ASSUME NEW i \in 1..Len(queue), i # 1
                 PROVE  \E j \in 1..Len(queue') : queue[i] = queue'[j]
      BY DEF Queued
    <3>1. QED BY <2>1
  <2>5. queue[1] \in Queued /\ Queued' \subseteq Queued
    BY <2>2, <2>3 DEF Queued
  <2>6. QED BY <2>4, <2>5
<1>4. \A i, j \in 1..Len(queue') : i < j => queue'[i].seq < queue'[j].seq
  BY <1>1 DEF Sorted
<1>5. \A o \in Queued' : worker'.op.seq < o.seq
  BY <1>1, <1>2 DEF Sorted, Queued
<1>6. QED BY <1>2, <1>3, <1>4, <1>5 DEF Sorted, Pending, InHand

\* The persister moves on with the write in its hands, or puts it down.
LEMMA InHands ==
  ASSUME TypeOK, Sorted, Judge \/ Save
  PROVE  /\ Sorted' /\ worker # Idle /\ UNCHANGED queue
         /\ \/ worker' # Idle /\ worker'.op = worker.op /\ Pending' = Pending
            \/ worker' = Idle /\ Pending' = Pending \ {worker.op}
<1>1. UNCHANGED queue /\ worker # Idle
  BY DEF Judge, Save, Idle
<1>2. worker \in [stage: {"judge", "save"}, op: Ops]
  BY <1>1 DEF TypeOK
<1>3. worker' = Idle \/ (worker' # Idle /\ worker'.op = worker.op)
  BY <1>2 DEF Judge, Save, Idle
<1>4. worker.op \notin Queued
  BY <1>1, <1>2, PendingType DEF Sorted, Ops
<1>5. Queued' = Queued
  BY <1>1 DEF Queued
<1>6. QED BY <1>1, <1>3, <1>4, <1>5 DEF Sorted, Pending, InHand

\* Nothing new is numbered or put on its way.
LEMMA OrderKept ==
  ASSUME TypeOK, OrderInv, Sorted', Pending' \subseteq Pending, UNCHANGED <<seq, applied>>,
         Numbered' => Numbered /\ UNCHANGED rest
  PROVE  OrderInv'
  BY DEF OrderInv, Counted, Newest

LEMMA Still ==
  ASSUME UNCHANGED <<queue, worker>>
  PROVE  Pending' = Pending /\ (Sorted => Sorted')
  BY DEF Pending, InHand, Queued, Sorted

LEMMA StepOrder ==
  ASSUME TypeOK, TypeOK', Alone, RestOK, OrderInv, NEW t \in Threads, Step(t)
  PROVE  OrderInv'
<1> PICK h : h = Head(rest)
  OBVIOUS
<1>0. t = One /\ seq \in Nat /\ seq + 1 \in Nat
  BY OnlyOne DEF TypeOK
<1>1. CASE Number(t)
  <2>1. Head(rest').seq = seq + 1 /\ seq' = seq + 1
    BY <1>1, StepGoesOn DEF Number
  <2>2. UNCHANGED <<queue, worker, applied>>
    BY <1>1 DEF Number
  <2>3. Pending' = Pending /\ Sorted'
    BY <2>2, Still DEF OrderInv
  <2>4. \A o \in Pending : o.seq \in Nat /\ o.seq <= seq
    BY PendingType DEF OrderInv, Counted, Ops
  <2>5. \A u \in Uids : applied[u] \in Nat /\ applied[u] <= seq
    BY DEF OrderInv, Counted, TypeOK
  <2>6. QED BY <1>0, <2>1, <2>2, <2>3, <2>4, <2>5 DEF OrderInv, Counted, Newest
<1>2. CASE Send(t)
  <2>1. h = Head(todo[t]) /\ rest # <<>> /\ h.do = "send" /\ h \in Steps /\ Numbered
    BY <1>0, <1>2, Shapes DEF Send, rest, Numbered
  <2>2. ~Numbered'
    BY <1>2, StepBegins DEF Begins, Middles, Unbegun, Numbered
  <2> PICK o : o = [w |-> h.w, seq |-> h.seq]
    OBVIOUS
  <2>3. o \in Ops /\ o.seq = h.seq /\ h.seq <= seq /\ \A p \in Pending : p.seq < o.seq
    BY <2>1, StepFields DEF OrderInv, Newest, Ops
  <2>4. UNCHANGED <<worker, seq, applied>> /\ (UNCHANGED queue \/ queue' = Append(queue, o))
    BY <1>2, <2>1 DEF Send
  <2>5. CASE UNCHANGED queue
    BY <2>2, <2>4, <2>5, Still, OrderKept DEF OrderInv
  <2>6. CASE queue' = Append(queue, o)
    BY <2>2, <2>3, <2>4, <2>6, Appended DEF OrderInv, Counted, Newest
  <2>7. QED BY <2>4, <2>5, <2>6
<1>3. CASE Mark(t)
  <2>1. h = Head(todo[t]) /\ rest # <<>> /\ h.do = "mark" /\ h \in Steps /\ Numbered
    BY <1>0, <1>3, Shapes DEF Mark, rest, Numbered
  <2>2. ~Numbered'
    BY <1>3, StepGoesOn DEF Numbered
  <2>3. h.seq \in Nat /\ h.seq <= seq
    BY <2>1, StepFields DEF OrderInv, Newest
  <2>4. UNCHANGED <<queue, worker, seq>>
    BY <1>3 DEF Mark
  <2>5. \A u \in Uids : applied'[u] <= seq
    <3>1. applied' = applied \/ applied' = Raised(h.w.uid, h.seq)
      BY <1>3, <2>1 DEF Mark
    <3>2. QED BY <2>3, <3>1 DEF Raised, OrderInv, Counted, TypeOK
  <2>6. QED BY <2>2, <2>4, <2>5, Still DEF OrderInv, Counted, Newest
<1>4. CASE ~Number(t) /\ ~Send(t) /\ ~Mark(t)
  <2>1. UNCHANGED <<queue, worker, seq, applied>>
    BY <1>4 DEF Step, WriteDb, Forget, Answer, Record, ReadRows, Scan, Swap
  <2>2. ~Numbered'
    <3>1. CASE ReadRows(t) \/ Scan(t) \/ Swap(t)
      BY <3>1, StepGoesOn, Doubles, Singles DEF Numbered
    <3>2. CASE WriteDb(t) \/ Forget(t) \/ Answer(t) \/ Record(t)
      BY <3>2, StepBegins DEF Begins, Middles, Unbegun, Numbered
    <3>3. QED BY <1>4, <3>1, <3>2 DEF Step
  <2>3. QED BY <2>1, <2>2, Still, OrderKept DEF OrderInv
<1>5. QED BY <1>1, <1>2, <1>3, <1>4

LEMMA OrderNext ==
  ASSUME TypeOK, TypeOK', Alone, DownIdle, RestOK, OrderInv, [Next]_vars
  PROVE  OrderInv'
<1>1. CASE Handlers
  <2>1. ~Numbered'
    BY <1>1, StartRest DEF Begins, Middles, Unbegun, Numbered
  <2>2. QED
    BY <1>1, <2>1, HandlersServe, Still, OrderKept DEF Apart, OrderInv
<1>2. CASE Take
  <2>1. Sorted' /\ Pending' = Pending
    BY <1>2, Taken DEF OrderInv
  <2>2. UNCHANGED <<seq, applied, todo>>
    BY <1>2 DEF Take
  <2>3. QED BY <2>1, <2>2, OrderKept DEF Numbered, rest
<1>3. CASE Judge
  <2>1. Sorted' /\ Pending' \subseteq Pending /\ worker.op \in Pending /\ worker.op \in Ops
    BY <1>3, InHands, PendingType DEF OrderInv
  <2>2. UNCHANGED <<seq, todo>>
    BY <1>3 DEF Judge
  <2>3. applied' = applied \/ applied' = Raised(worker.op.w.uid, worker.op.seq)
    BY <1>3 DEF Judge
  <2>4. \A u \in Uids : applied'[u] = applied[u] \/ applied'[u] = worker.op.seq
    BY <2>3 DEF Raised, TypeOK
  <2>5. QED BY <2>1, <2>2, <2>4 DEF OrderInv, Counted, Newest, Numbered, rest
<1>4. CASE Save
  <2>1. Sorted' /\ Pending' \subseteq Pending
    BY <1>4, InHands DEF OrderInv
  <2>2. UNCHANGED <<seq, applied, todo>>
    BY <1>4 DEF Save
  <2>3. QED BY <2>1, <2>2, OrderKept DEF Numbered, rest
<1>5. CASE Files \/ Close \/ UNCHANGED vars
  <2>1. UNCHANGED <<queue, worker, seq, applied, todo>>
    BY <1>5 DEF Files, Login, Import, Close, vars
  <2>2. QED BY <2>1, Still, OrderKept DEF OrderInv, Numbered, rest
<1>6. CASE Exit \/ Crash
  <2>1. rest' = <<>> /\ queue' = <<>> /\ worker' = Idle /\ UNCHANGED <<seq, applied>>
    BY <1>6, OnlyOne DEF Exit, Crash, Die, rest
  <2>2. Pending' = {} /\ Sorted' /\ ~Numbered'
    BY <2>1 DEF Pending, InHand, Queued, Sorted, Numbered
  <2>3. QED BY <2>1, <2>2, OrderKept
<1>7. CASE Boot
  <2>1. rest' = <<>> /\ queue' = <<>> /\ worker' = Idle /\ seq' = 0
        /\ \A u \in Uids : applied'[u] = 0
    BY <1>7 DEF Boot, DownIdle, Drained, rest
  <2>2. Pending' = {} /\ Sorted' /\ ~Numbered'
    BY <2>1 DEF Pending, InHand, Queued, Sorted, Numbered
  <2>3. QED BY <2>1, <2>2 DEF OrderInv, Counted, Newest
<1>8. QED
  BY <1>1, <1>2, <1>3, <1>4, <1>5, <1>6, <1>7, StepOrder DEF Next, Persister, Process

LEMMA OrderInit == Alone /\ Init => OrderInv
<1> SUFFICES ASSUME Alone, Init PROVE OrderInv
  OBVIOUS
<1>1. rest = <<>> /\ queue = <<>> /\ worker = Idle /\ seq = 0
      /\ \A u \in Uids : applied[u] = 0
  BY OnlyOne DEF Init, rest
<1>2. Pending = {} /\ Sorted /\ ~Numbered
  BY <1>1 DEF Pending, InHand, Queued, Sorted, Numbered
<1>3. QED BY <1>1, <1>2 DEF OrderInv, Counted, Newest

-----------------------------------------------------------------------------
(***************************************************************************)
(* The disabled flag in the rows.  A row on its way that the persister     *)
(* will not judge stale is live.  Unless the handler under way is about to *)
(* write the account itself, every live row has the flag memory has, and   *)
(* so does the database, as long as the persister has not overtaken a      *)
(* direct write of that account.                                           *)
(***************************************************************************)
Live(u) == {o \in Pending : o.w.kind = "row" /\ o.w.uid = u /\ o.seq >= applied[u]}

Sure    == "fault" \notin lost
Said(r) == IF r = Absent THEN Fresh ELSE r

\* The handler under way writes u itself ("row"), or deletes it ("gone").
Writing(u, k) ==
  /\ rest # <<>> /\ Head(rest).do \in {"sync", "mark", "write"}
  /\ Head(rest).w.uid = u /\ Head(rest).w.kind = k
Loaded == rest # <<>> /\ Head(rest).do \in {"scan", "swap"}

\* Once a direct write is marked, nothing older is live.
MarkedClean ==
  \A u \in Uids, k \in {"row", "gone"} :
    Writing(u, k) /\ Head(rest).do = "write" => Live(u) = {}

FlagTrue(u) == late[u] = 0 =>
  /\ acc[u] # Absent /\ ~Writing(u, "row") =>
       /\ Stored(u).manual = acc[u].manual
       /\ \A o \in Live(u) : o.w.row.manual = acc[u].manual
  /\ acc[u] = Absent /\ ~Writing(u, "gone") => Live(u) = {}

LoadedTrue(u) ==
  Loaded /\ late[u] = 0 => Said(read.rows[u]).manual = Stored(u).manual

OffTrue(u) ==
  u \in userOff => acc[u] # Absent /\ (late[u] = 0 => acc[u].manual)

FlagInv ==
  /\ MarkedClean
  /\ Sure => \A u \in Uids : FlagTrue(u) /\ LoadedTrue(u) /\ OffTrue(u)

LEMMA LiveShrinks ==
  ASSUME Pending' \subseteq Pending, NEW u \in Uids,
         \A n \in Nat : n >= applied'[u] => n >= applied[u], TypeOK
  PROVE  Live(u)' \subseteq Live(u)
  BY PendingType DEF Live, Ops

LEMMA LiveSame ==
  ASSUME UNCHANGED <<queue, worker, applied>>
  PROVE  \A u \in Uids : Live(u)' = Live(u)
  BY Still DEF Live

\* Only rows leave the queue, and the handler under way goes on.
LEMMA FlagKept ==
  ASSUME TypeOK, FlagInv, UNCHANGED <<late, dbRow, userOff>>, Sure' => Sure,
         Known' = Known, \A u \in Known : acc'[u].manual = acc[u].manual,
         \A u \in Uids : Live(u)' \subseteq Live(u),
         \A u \in Uids, k \in {"row", "gone"} : Writing(u, k) => Writing(u, k)',
         MarkedClean', Loaded' => Loaded /\ UNCHANGED read.rows
  PROVE  FlagInv'
<1> SUFFICES ASSUME Sure', NEW u \in Uids
             PROVE  FlagTrue(u)' /\ LoadedTrue(u)' /\ OffTrue(u)'
  BY DEF FlagInv
<1>1. FlagTrue(u) /\ LoadedTrue(u) /\ OffTrue(u)
  BY DEF FlagInv
<1>2. (acc'[u] = Absent <=> acc[u] = Absent) /\ (acc[u] # Absent => acc'[u].manual = acc[u].manual)
  BY DEF Known
<1>3. Stored(u)' = Stored(u)
  BY DEF Stored
<1>4. FlagTrue(u)'
  BY <1>1, <1>2, <1>3 DEF FlagTrue
<1>5. LoadedTrue(u)'
  BY <1>1, <1>3 DEF LoadedTrue, Said
<1>6. OffTrue(u)'
  BY <1>1, <1>2 DEF OffTrue
<1>7. QED BY <1>4, <1>5, <1>6

LEMMA Cleaned ==
  ASSUME MarkedClean, UNCHANGED todo, \A u \in Uids : Live(u)' \subseteq Live(u)
  PROVE  MarkedClean' /\ \A u \in Uids, k \in {"row", "gone"} : Writing(u, k)' = Writing(u, k)
<1>1. rest' = rest
  BY DEF rest
<1>2. QED BY <1>1 DEF MarkedClean, Writing

LEMMA Unwritten ==
  ASSUME Begins
  PROVE  MarkedClean /\ ~Numbered /\ ~Loaded
  BY DEF Begins, MarkedClean, Writing, Unbegun, Middles, Numbered, Loaded

\* What the next step of a handler writes.
LEMMA Written ==
  ASSUME NEW u, NEW h, NEW r
  PROVE  /\ Clicking(u, h, r) => h.w = Row(u, acc[u]) /\ acc[u] # Absent
         /\ Erasing(u, h, r) => h.w = Gone("gone", u) /\ acc[u] = Absent
         /\ Clearing(u, h, r) =>
              \E m \in Models : h.w = Cool("uncool", u, m) /\ <<u, m>> \notin cool
         /\ Wiping(u, h, r) => h.w = Gone("goneCools", u) /\ Bare(u)
<1>1. Clicking(u, h, r) => h.w = Row(u, acc[u]) /\ acc[u] # Absent
  BY DEF Clicking, Directs, RowNow
<1>2. Erasing(u, h, r) => h.w = Gone("gone", u) /\ acc[u] = Absent
  BY DEF Erasing, Directs, Bare
<1>3. ASSUME NEW w, <<h>> = Write(w)
      PROVE  h.w = w
  <2>1. h = [do |-> "write", w |-> w, seq |-> 0]
    BY <1>3 DEF Write
  <2>2. QED BY <2>1
<1>4. Clearing(u, h, r) =>
        \E m \in Models : h.w = Cool("uncool", u, m) /\ <<u, m>> \notin cool
  BY <1>3 DEF Clearing
<1>5. Wiping(u, h, r) => h.w = Gone("goneCools", u) /\ Bare(u)
  BY <1>3 DEF Wiping
<1>6. QED BY <1>1, <1>2, <1>4, <1>5

\* A direct write of u, by what it writes.
LEMMA Writer ==
  ASSUME TypeOK, Alone, RestOK, NEW t \in Threads, WriteDb(t) \/ Mark(t), NEW u
  PROVE  /\ Writing(u, "row") =>
              Head(rest).w = Row(u, acc[u]) /\ acc[u] # Absent
         /\ Writing(u, "gone") => Head(rest).w = Gone("gone", u) /\ acc[u] = Absent
<1> PICK h : h = Head(rest)
  OBVIOUS
<1> PICK r : r = Tail(rest)
  OBVIOUS
<1>1. PICK v \in Uids : \/ Clicking(v, h, r) \/ Erasing(v, h, r)
                       \/ Clearing(v, h, r) \/ Wiping(v, h, r)
  BY Shapes DEF WriteDb, Mark
<1>2. \/ h.w = Row(v, acc[v]) /\ acc[v] # Absent
      \/ h.w = Gone("gone", v) /\ acc[v] = Absent
      \/ \E m \in Models : h.w = Cool("uncool", v, m)
      \/ h.w = Gone("goneCools", v)
  BY <1>1, Written
<1>3. /\ Row(v, acc[v]).kind = "row" /\ Row(v, acc[v]).uid = v
      /\ Gone("gone", v).kind = "gone" /\ Gone("gone", v).uid = v
      /\ \A m \in Models : Cool("uncool", v, m).kind = "uncool"
      /\ Gone("goneCools", v).kind = "goneCools"
  BY DEF Row, Gone, Cool
<1>4. /\ h.w.kind = "row" => h.w = Row(v, acc[v]) /\ acc[v] # Absent /\ h.w.uid = v
      /\ h.w.kind = "gone" => h.w = Gone("gone", v) /\ acc[v] = Absent /\ h.w.uid = v
  BY <1>2, <1>3
<1>5. QED BY <1>4 DEF Writing

-----------------------------------------------------------------------------
(* The handlers. *)
LEMMA HandlersManual ==
  ASSUME TypeOK, Alone, Handlers
  PROVE  /\ \A u \in Known : acc'[u].manual = acc[u].manual \/ Writing(u, "row")'
         /\ \A u \in userOff' : \/ u \in userOff /\ acc'[u].manual = acc[u].manual
                                \/ acc'[u] # Absent /\ acc'[u].manual
<1>1. ASSUME NEW t \in Threads, NEW u \in Uids, NEW m \in Models,
             NoteSuccess(t, u, m)
      PROVE  \A v \in Uids : acc'[v].manual = acc[v].manual /\ userOff' = userOff
  <2>1. acc[u] # Absent => AfterSuccess(acc[u]).manual = acc[u].manual
    <3>1. acc[u] # Absent => acc[u] \in AccountStates
      BY DEF TypeOK
    <3>2. acc[u] \in AccountStates => AfterSuccess(acc[u]).manual = acc[u].manual
      BY DEF AfterSuccess, AccountStates
    <3>3. QED BY <3>1, <3>2
  <2>2. QED BY <1>1, <2>1 DEF NoteSuccess, TypeOK
<1>2. ASSUME NEW t \in Threads, NEW u \in Uids, NEW m \in Models,
             NEW kind \in PunishingKinds, NoteError(t, u, m, kind)
      PROVE  \A v \in Uids : acc'[v].manual = acc[v].manual /\ userOff' = userOff
  <2>1. acc[u] \in AccountStates
    BY <1>2 DEF TypeOK, NoteError
  <2>2. AfterError(acc[u], kind).manual = acc[u].manual
    BY <2>1, ErrorKeeps
  <2>3. QED BY <1>2, <2>2 DEF NoteError, TypeOK
<1>3. ASSUME NEW t \in Threads, NEW u \in Uids, NEW off \in BOOLEAN,
             SetManualDisabled(t, u, off)
      PROVE  /\ \A v \in Uids \ {u} : acc'[v].manual = acc[v].manual
             /\ Writing(u, "row")'
             /\ \A v \in userOff' : v \in userOff \/ v = u
             /\ u \in userOff' => acc'[u] # Absent /\ acc'[u].manual
  <2>1. acc[u] \in AccountStates /\ acc'[u] = AfterManual(acc[u], off)
    BY <1>3 DEF TypeOK, SetManualDisabled
  <2>2. acc'[u] \in AccountStates /\ acc'[u] # Absent
    BY <2>1, EventTypes, AbsentAssumption
  <2>3. off => acc'[u].manual
    BY <2>1 DEF AfterManual, AccountStates
  <2>4. Writing(u, "row")'
    <3> PICK d : d = [do |-> "sync", w |-> Row(u, acc'[u]), seq |-> 0]
      OBVIOUS
    <3>1. rest' = <<d>>
      BY <1>3, Started DEF SetManualDisabled, Sync
    <3>2. rest' # <<>> /\ Head(rest') = d
      BY <3>1, Singles
    <3>3. QED BY <3>2 DEF Writing, Row
  <2>5. \A v \in userOff' : v \in userOff \/ v = u
    BY <1>3 DEF SetManualDisabled
  <2>6. u \in userOff' => off
    BY <1>3 DEF SetManualDisabled
  <2>7. \A v \in Uids \ {u} : acc'[v].manual = acc[v].manual
    BY <1>3 DEF SetManualDisabled, TypeOK
  <2>8. QED BY <2>2, <2>3, <2>4, <2>5, <2>6, <2>7
<1>4. ASSUME NEW t \in Threads,
             \/ ReloadMembers(t) \/ Logout(t)
             \/ \E u \in Uids : \/ Probe(t, u) \/ Activate(t, u) \/ RemoveProfile(t, u)
                               \/ \E m \in Models : ClearModelCool(t, u, m)
      PROVE  acc' = acc /\ userOff' = userOff
  BY <1>4 DEF ReloadMembers, Logout, Probe, Activate, RemoveProfile,
     ClearModelCool, mem, hist
<1>5. userOff \subseteq Uids /\ Known \subseteq Uids
  BY DEF TypeOK, Known
<1>6. CASE /\ \A u \in Uids : acc'[u].manual = acc[u].manual
           /\ userOff' = userOff
  BY <1>5, <1>6
<1>7. ASSUME NEW t \in Threads, NEW u \in Uids, NEW off \in BOOLEAN,
             SetManualDisabled(t, u, off)
      PROVE  /\ \A v \in Known : acc'[v].manual = acc[v].manual \/ Writing(v, "row")'
             /\ \A v \in userOff' : \/ v \in userOff /\ acc'[v].manual = acc[v].manual
                                    \/ acc'[v] # Absent /\ acc'[v].manual
  BY <1>3, <1>5, <1>7
<1>8. QED
  BY <1>1, <1>2, <1>4, <1>6, <1>7 DEF Handlers

LEMMA HandlersFlag ==
  ASSUME TypeOK, TypeOK', Alone, FlagInv, Handlers
  PROVE  FlagInv'
<1>1. UNCHANGED <<late, dbRow, queue, worker, applied, lost>> /\ rest = <<>>
  BY HandlersServe, OnlyOne DEF Apart, rest, db
<1>2. MarkedClean' /\ ~Loaded'
  <2>1. Begins'
    BY StartRest
  <2>2. QED BY <2>1 DEF Begins, MarkedClean, Writing, Unbegun, Middles, Loaded
<1>3. Known' = Known
  BY HandlersKnown
<1> SUFFICES ASSUME Sure', NEW u \in Uids
             PROVE  FlagTrue(u)' /\ LoadedTrue(u)' /\ OffTrue(u)'
  BY <1>2 DEF FlagInv
<1>4. FlagTrue(u) /\ OffTrue(u)
  BY <1>1 DEF FlagInv, Sure
<1>5. Live(u)' = Live(u) /\ Stored(u)' = Stored(u) /\ \A k : ~Writing(u, k)
  BY <1>1, LiveSame DEF Stored, Writing
<1>6. acc'[u] = Absent <=> acc[u] = Absent
  BY <1>3 DEF Known
<1>7. acc[u] # Absent => acc'[u].manual = acc[u].manual \/ Writing(u, "row")'
  BY HandlersManual DEF Known
<1>8. u \in userOff' => \/ u \in userOff /\ acc'[u].manual = acc[u].manual
                        \/ acc'[u] # Absent /\ acc'[u].manual
  BY HandlersManual
<1>9. FlagTrue(u)'
  BY <1>1, <1>4, <1>5, <1>6, <1>7 DEF FlagTrue
<1>10. OffTrue(u)'
  BY <1>1, <1>4, <1>6, <1>8 DEF OffTrue
<1>11. QED BY <1>2, <1>9, <1>10 DEF LoadedTrue
-----------------------------------------------------------------------------
(* The steps of a handler. *)
LEMMA NumberFlag ==
  ASSUME TypeOK, TypeOK', Alone, RestOK, FlagInv, NEW t \in Threads, Number(t)
  PROVE  FlagInv'
<1> PICK h : h = Head(rest)
  OBVIOUS
<1> PICK s : s = Head(rest')
  OBVIOUS
<1>1. /\ UNCHANGED <<acc, dbRow, late, userOff, lost, snap, queue, worker, applied>>
  BY DEF Number, mem, db, hist
<1>2. /\ rest # <<>> /\ rest' # <<>> /\ s.w = h.w /\ h.do \in {"persist", "sync"}
      /\ s.do = IF h.do = "persist" THEN "send" ELSE "mark"
  <2>1. /\ rest # <<>> /\ rest' # <<>> /\ h.do \in {"persist", "sync"}
        /\ s = [do |-> IF h.do = "persist" THEN "send" ELSE "mark",
                w |-> h.w, seq |-> seq + 1]
    BY StepGoesOn
  <2>2. QED BY <2>1
<1>3. MarkedClean' /\ ~Loaded'
  BY <1>2 DEF MarkedClean, Writing, Loaded
<1>4. \A u \in Uids, k \in {"row", "gone"} : Writing(u, k) => Writing(u, k)'
  BY <1>2 DEF Writing
<1>5. QED BY <1>1, <1>3, <1>4, LiveSame, FlagKept DEF Known, Sure

LEMMA SendFlag ==
  ASSUME TypeOK, TypeOK', Alone, RestOK, FlagInv, OrderInv, NEW t \in Threads, Send(t)
  PROVE  FlagInv'
<1> PICK h : h = Head(rest)
  OBVIOUS
<1> PICK r : r = Tail(rest)
  OBVIOUS
<1> PICK o : o = [w |-> h.w, seq |-> h.seq]
  OBVIOUS
<1>1. /\ UNCHANGED <<acc, dbRow, late, userOff, snap, worker, applied>>
      /\ Sure' => Sure /\ h.do = "send" /\ t = One
  BY OnlyOne, Shapes DEF Send, mem, db, hist, Sure
<1>2. PICK v \in Uids : Noting(v, h, r)
  BY Shapes DEF Send
<1>3. Begins'
  BY StepBegins
<1>4. MarkedClean' /\ ~Loaded'
  BY <1>3 DEF Begins, MarkedClean, Writing, Unbegun, Middles, Loaded
<1>5. h \in Steps /\ rest # <<>> /\ h.do = "send"
  BY Shapes DEF Send
<1>6. Pending' \subseteq Pending \cup {o}
  <2>1. h = Head(todo[t])
    BY OnlyOne DEF rest
  <2>2. UNCHANGED queue \/ queue' = Append(queue, o)
    BY <2>1 DEF Send
  <2>3. CASE UNCHANGED queue
    BY <1>1, <2>3, Still
  <2>4. CASE queue' = Append(queue, o)
    <3>1. o \in Ops /\ \A p \in Pending : p.seq < o.seq
      BY <1>5, StepFields DEF OrderInv, Newest, Numbered, Ops
    <3>2. QED BY <1>1, <2>4, <3>1, Appended DEF OrderInv
  <2>5. QED BY <2>2, <2>3, <2>4
<1> SUFFICES ASSUME Sure', NEW u \in Uids
             PROVE  FlagTrue(u)' /\ LoadedTrue(u)' /\ OffTrue(u)'
  BY <1>4 DEF FlagInv
<1>7. FlagTrue(u) /\ OffTrue(u) /\ \A k : ~Writing(u, k)
  BY <1>1, <1>5 DEF FlagInv, Writing
<1>8. Live(u)' \subseteq Live(u) \cup {o}
  BY <1>1, <1>6 DEF Live
<1>9. o \in Live(u)' => acc[u] # Absent /\ o.w = Row(u, acc[u])
  <2>1. \/ h.w = Row(v, acc[v]) /\ acc[v] # Absent
        \/ \E m \in Models : h.w = CoolNow(v, m)
    BY <1>2 DEF Noting, Sends, RowNow
  <2>2. \A m \in Models : CoolNow(v, m).kind # "row"
    BY DEF CoolNow, Cool
  <2>3. QED BY <2>1, <2>2 DEF Live, Row
<1>10. FlagTrue(u)'
  BY <1>1, <1>7, <1>8, <1>9 DEF FlagTrue, Stored, Row
<1>11. OffTrue(u)'
  BY <1>1, <1>7 DEF OffTrue
<1>12. QED BY <1>4, <1>10, <1>11 DEF LoadedTrue

LEMMA MarkFlag ==
  ASSUME TypeOK, TypeOK', Alone, RestOK, FlagInv, OrderInv, NEW t \in Threads, Mark(t)
  PROVE  FlagInv'
<1> PICK h : h = Head(rest)
  OBVIOUS
<1> PICK s : s = Head(rest')
  OBVIOUS
<1>1. /\ UNCHANGED <<acc, dbRow, userOff, lost, snap, queue, worker>>
      /\ h = Head(todo[t])
  BY OnlyOne DEF Mark, mem, db, rest
<1>2. /\ rest # <<>> /\ rest' # <<>> /\ s.w = h.w /\ s.do = "write" /\ h.do = "mark"
      /\ h \in Steps
  <2>1. /\ rest # <<>> /\ rest' # <<>> /\ h.do = "mark"
        /\ s = [do |-> "write", w |-> h.w, seq |-> h.seq]
    BY StepGoesOn
  <2>2. h \in Steps
    BY Shapes DEF Mark
  <2>3. QED BY <2>1, <2>2
<1>3. PICK v \in Uids : Clicking(v, h, Tail(rest)) \/ Erasing(v, h, Tail(rest))
  BY Shapes DEF Mark
<1>4. h.w.uid = v
  BY <1>3 DEF Clicking, Erasing, Directs, RowNow, Row, Gone
<1>5. /\ h.seq \in Nat /\ \A p \in Pending : p.seq \in Nat /\ p.seq < h.seq
      /\ applied[v] \in Nat /\ applied[v] < h.seq
  <2>1. h.seq \in Nat /\ applied[v] \in Nat /\ Numbered
    BY <1>2, StepFields DEF TypeOK, Numbered
  <2>2. \A p \in Pending : p.seq \in Nat
    BY PendingType DEF Ops
  <2>3. QED BY <2>1, <2>2 DEF OrderInv, Newest
<1>6. /\ applied' = [applied EXCEPT ![v] = h.seq] /\ late' = [late EXCEPT ![v] = 0]
  <2>1. h.seq > applied[v]
    BY <1>5
  <2>2. applied' = Raised(v, h.seq) /\ late' = [late EXCEPT ![v] = 0]
    BY <1>1, <1>4, <2>1 DEF Mark
  <2>3. QED BY <2>1, <2>2 DEF Raised
<1>7. Pending' = Pending
  BY <1>1, Still
<1>8. Live(v)' = {}
  <2>1. applied'[v] = h.seq
    BY <1>6 DEF TypeOK
  <2>2. QED BY <1>5, <1>7, <2>1 DEF Live
<1>9. \A u, k : Writing(u, k) <=> Writing(u, k)'
  BY <1>2 DEF Writing
<1>10. MarkedClean' /\ ~Loaded'
  BY <1>2, <1>4, <1>8 DEF MarkedClean, Writing, Loaded
<1> SUFFICES ASSUME Sure', NEW u \in Uids
             PROVE  FlagTrue(u)' /\ LoadedTrue(u)' /\ OffTrue(u)'
  BY <1>10 DEF FlagInv
<1>11. FlagTrue(u) /\ OffTrue(u)
  BY <1>1 DEF FlagInv, Sure
<1>12. CASE u # v
  <2>1. applied'[u] = applied[u] /\ late'[u] = late[u]
    BY <1>6, <1>12 DEF TypeOK
  <2>2. Live(u)' = Live(u)
    BY <1>7, <2>1 DEF Live
  <2>3. QED BY <1>1, <1>9, <1>10, <1>11, <2>1, <2>2 DEF FlagTrue, OffTrue, LoadedTrue, Stored
<1>13. CASE u = v
  <2>1. acc[v] # Absent => Writing(v, "row")' /\ (v \in userOff => acc[v].manual)
    <3>1. acc[v] # Absent => Clicking(v, h, Tail(rest))
      BY <1>3 DEF Erasing, Bare
    <3>2. Clicking(v, h, Tail(rest)) => h.w.kind = "row" /\ (v \in userOff => acc[v].manual)
      BY DEF Clicking, Directs, RowNow, Row
    <3>3. QED BY <1>2, <1>4, <3>1, <3>2 DEF Writing
  <2>2. OffTrue(v)'
    BY <1>1, <1>11, <1>13, <2>1 DEF OffTrue
  <2>3. QED BY <1>1, <1>8, <1>10, <1>13, <2>1, <2>2 DEF FlagTrue, LoadedTrue
<1>14. QED BY <1>12, <1>13

LEMMA WriteFlag ==
  ASSUME TypeOK, TypeOK', Alone, RestOK, FlagInv, NEW t \in Threads, WriteDb(t)
  PROVE  FlagInv'
<1> PICK h : h = Head(rest)
  OBVIOUS
<1> PICK r : r = Tail(rest)
  OBVIOUS
<1>1. /\ UNCHANGED <<acc, late, userOff, snap, queue, worker, applied>>
      /\ h = Head(todo[t])
  BY OnlyOne DEF WriteDb, mem, rest
<1>2. MarkedClean' /\ ~Loaded'
  <2>1. Begins'
    BY StepBegins
  <2>2. QED BY <2>1 DEF Begins, MarkedClean, Writing, Unbegun, Middles, Loaded
<1>3. rest # <<>> /\ h.do = "write" /\ h \in Steps
  BY Shapes DEF WriteDb
<1>4. CASE StoreFails
  BY <1>2, <1>4 DEF StoreFails, FlagInv, Sure
<1>5. CASE Store(h.w) /\ UNCHANGED lost
  <2> SUFFICES ASSUME Sure', NEW u \in Uids
               PROVE  FlagTrue(u)' /\ LoadedTrue(u)' /\ OffTrue(u)'
    BY <1>2 DEF FlagInv
  <2>1. FlagTrue(u) /\ OffTrue(u) /\ Live(u)' = Live(u)
    BY <1>1, <1>5, LiveSame DEF FlagInv, Sure
  <2>2. CASE Writing(u, "row")
    <3>1. h.w.kind = "row" /\ h.w.uid = u /\ Live(u) = {}
      BY <1>3, <2>2 DEF Writing, FlagInv, MarkedClean
    <3>2. acc[u] # Absent /\ h.w = Row(u, acc[u])
      BY <2>2, Writer
    <3>3. dbRow' = [dbRow EXCEPT ![u] = acc[u]]
      <4>1. h.w.kind = "row" /\ h.w.uid = u /\ h.w.row = acc[u]
        BY <3>2 DEF Row
      <4>2. QED BY <1>5, <4>1 DEF Store
    <3>4. Stored(u)' = acc[u]
      BY <3>2, <3>3 DEF Stored, TypeOK
    <3>5. QED BY <1>1, <1>2, <2>1, <3>1, <3>2, <3>4 DEF FlagTrue, LoadedTrue, OffTrue
  <2>3. CASE Writing(u, "gone")
    <3>1. h.w.kind = "gone" /\ h.w.uid = u /\ Live(u) = {}
      BY <1>3, <2>3 DEF Writing, FlagInv, MarkedClean
    <3>2. acc[u] = Absent
      BY <2>3, Writer
    <3>3. QED BY <1>1, <1>2, <2>1, <3>1, <3>2 DEF FlagTrue, LoadedTrue, OffTrue
  <2>4. CASE ~Writing(u, "row") /\ ~Writing(u, "gone")
    <3>1. h.w.kind \in {"row", "gone"} => h.w.uid # u
      BY <1>3, <2>4 DEF Writing
    <3>2. dbRow'[u] = dbRow[u]
      BY <1>5, <3>1 DEF Store, TypeOK
    <3>3. QED BY <1>1, <1>2, <2>1, <2>4, <3>2 DEF FlagTrue, LoadedTrue, OffTrue, Stored
  <2>5. QED BY <2>2, <2>3, <2>4
<1>6. QED BY <1>1, <1>4, <1>5 DEF WriteDb

LEMMA ForgetFlag ==
  ASSUME TypeOK, TypeOK', Alone, RestOK, FlagInv, NEW t \in Threads, Forget(t)
  PROVE  FlagInv'
<1> PICK h : h = Head(rest)
  OBVIOUS
<1> PICK r : r = Tail(rest)
  OBVIOUS
<1>1. /\ UNCHANGED <<dbRow, late, lost, snap, queue, worker, applied>>
      /\ h = Head(todo[t])
  BY OnlyOne DEF Forget, db, rest
<1>2. PICK v \in Uids : Forgetting(v, h, r)
  BY Shapes DEF Forget
<1>3. h.uid = v /\ h.do = "forget"
  <2>1. h = [do |-> "forget", uid |-> v]
    BY <1>2 DEF Forgetting, OnUid
  <2>2. QED BY <2>1
<1>4. acc' = [acc EXCEPT ![v] = Absent] /\ userOff' = userOff \ {v}
  BY <1>1, <1>3 DEF Forget
<1>5. Writing(v, "gone")' /\ MarkedClean' /\ ~Loaded'
  <2> PICK s : s = [do |-> "sync", w |-> Gone("gone", v), seq |-> 0]
    OBVIOUS
  <2>1. rest' # <<>> /\ Head(rest') = s
    <3>1. Gone("gone", v) \in Goners /\ Gone("goneCools", v) \in Goners
      BY DEF Gone, Goners
    <3>2. s \in Steps /\ Write(Gone("goneCools", v)) \in Seq(Steps)
      BY <3>1, PieceTypes DEF Steps
    <3>3. rest' = <<s>> \o Write(Gone("goneCools", v))
      BY <1>2, Moved DEF Forget, Forgetting, Sync
    <3>4. QED BY <3>2, <3>3, Joined
  <2>2. QED BY <2>1 DEF Writing, Gone, MarkedClean, Loaded
<1> SUFFICES ASSUME Sure', NEW u \in Uids
             PROVE  FlagTrue(u)' /\ LoadedTrue(u)' /\ OffTrue(u)'
  BY <1>5 DEF FlagInv
<1>6. FlagTrue(u) /\ OffTrue(u) /\ \A k : ~Writing(u, k)
  BY <1>1, <1>3 DEF FlagInv, Sure, Writing
<1>7. Live(u)' = Live(u) /\ Stored(u)' = Stored(u)
  BY <1>1, LiveSame DEF Stored
<1>8. CASE u = v
  <2>1. acc'[v] = Absent
    BY <1>4 DEF TypeOK
  <2>2. QED BY <1>4, <1>5, <1>8, <2>1 DEF FlagTrue, LoadedTrue, OffTrue
<1>9. CASE u # v
  <2>1. acc'[u] = acc[u]
    BY <1>4, <1>9 DEF TypeOK
  <2>2. QED BY <1>1, <1>4, <1>5, <1>6, <1>7, <2>1 DEF FlagTrue, LoadedTrue, OffTrue
<1>10. QED BY <1>8, <1>9

LEMMA AnswerFlag ==
  ASSUME TypeOK, TypeOK', Alone, RestOK, FlagInv, NEW t \in Threads,
         Answer(t) \/ Record(t)
  PROVE  FlagInv'
<1>1. UNCHANGED <<dbRow, late, userOff, lost, snap, queue, worker, applied>>
  BY DEF Answer, Record, db, hist
<1>2. MarkedClean' /\ ~Loaded'
  <2>1. Begins'
    BY StepBegins
  <2>2. QED BY <2>1 DEF Begins, MarkedClean, Writing, Unbegun, Middles, Loaded
<1>3. Known' = Known
  <2>1. Step(t) /\ ~Forget(t) /\ ~Swap(t)
    BY DEF Step, Answer, Record, Forget, Swap, At
  <2>2. QED BY <2>1, StepKnown
<1>4. \A u \in Known : acc'[u].manual = acc[u].manual
  <2>1. CASE Answer(t)
    <3> PICK v : v = Head(todo[t]).uid
      OBVIOUS
    <3>1. v \in Uids
      BY <2>1, HeadType, StepFields DEF Answer
    <3>2. \/ UNCHANGED acc
          \/ \E reason \in AutoReasons :
               acc' = [acc EXCEPT ![v] = IF @ = Absent THEN @ ELSE Condemned(@, reason)]
          \/ acc' = [acc EXCEPT ![v] = IF @ = Absent THEN @ ELSE Recovered(@)]
      BY <2>1 DEF Answer
    <3>3. acc[v] # Absent => /\ Recovered(acc[v]).manual = acc[v].manual
                             /\ \A q \in AutoReasons : Condemned(acc[v], q).manual = acc[v].manual
      <4>1. acc[v] # Absent => acc[v] \in AccountStates
        BY <3>1 DEF TypeOK
      <4>2. QED BY <4>1 DEF Recovered, Condemned, AccountStates
    <3>4. DOMAIN acc = Uids
      BY DEF TypeOK
    <3> SUFFICES ASSUME NEW u \in Known PROVE acc'[u].manual = acc[u].manual
      OBVIOUS
    <3>5. u \in DOMAIN acc /\ acc[u] # Absent
      BY <3>4 DEF Known
    <3>6. CASE UNCHANGED acc
      BY <3>6
    <3>7. CASE \E q \in AutoReasons :
                 acc' = [acc EXCEPT ![v] = IF @ = Absent THEN @ ELSE Condemned(@, q)]
      <4> PICK q \in AutoReasons :
                 acc' = [acc EXCEPT ![v] = IF @ = Absent THEN @ ELSE Condemned(@, q)]
        BY <3>7
      <4>1. acc'[u] = IF u = v THEN Condemned(acc[v], q) ELSE acc[u]
        BY <3>5
      <4>2. QED BY <3>3, <3>5, <4>1
    <3>8. CASE acc' = [acc EXCEPT ![v] = IF @ = Absent THEN @ ELSE Recovered(@)]
      <4>1. acc'[u] = IF u = v THEN Recovered(acc[v]) ELSE acc[u]
        BY <3>5, <3>8
      <4>2. QED BY <3>3, <3>5, <4>1
    <3>9. QED BY <3>2, <3>6, <3>7, <3>8
  <2>2. CASE Record(t)
    BY <2>2 DEF Record, mem
  <2>3. QED BY <2>1, <2>2
<1>5. \A u \in Uids, k \in {"row", "gone"} : ~Writing(u, k)
  <2>1. Head(rest).do \in {"answer", "record"}
    BY Shapes DEF Answer, Record
  <2>2. QED BY <2>1 DEF Writing
<1>6. QED BY <1>1, <1>2, <1>3, <1>4, <1>5, LiveSame, FlagKept DEF Sure

LEMMA LoadFlag ==
  ASSUME TypeOK, TypeOK', Alone, RestOK, FlagInv, MemberInv, NEW t \in Threads,
         ReadRows(t) \/ Scan(t) \/ Swap(t)
  PROVE  FlagInv'
<1>1. /\ UNCHANGED <<dbRow, late, userOff, queue, worker, applied>> /\ t = One
      /\ Sure' => Sure
  BY OnlyOne DEF ReadRows, Scan, Swap, db, hist, Sure
<1>2. Head(rest).do \in {"rows", "scan", "swap"} /\ rest # <<>>
  BY Shapes DEF ReadRows, Scan, Swap
<1>3. \A u, k : ~Writing(u, k) /\ ~Writing(u, k)'
  <2>1. rest' # <<>> => Head(rest').do \in {"scan", "swap"}
    BY StepGoesOn, Doubles, Singles
  <2>2. QED BY <1>2, <2>1 DEF Writing
<1>4. MarkedClean'
  BY <1>3 DEF MarkedClean
<1> SUFFICES ASSUME Sure', NEW u \in Uids
             PROVE  FlagTrue(u)' /\ LoadedTrue(u)' /\ OffTrue(u)'
  BY <1>4 DEF FlagInv
<1>5. FlagTrue(u) /\ LoadedTrue(u) /\ OffTrue(u)
  BY <1>1 DEF FlagInv
<1>6. Live(u)' = Live(u) /\ Stored(u)' = Stored(u)
  BY <1>1, LiveSame DEF Stored
<1>7. CASE ReadRows(t) /\ UNCHANGED acc
  <2>1. read'.rows = dbRow
    <3>1. snap' = [snap EXCEPT ![One].rows = dbRow]
      BY <1>1, <1>7 DEF ReadRows, Sure
    <3>2. QED BY <1>1, <3>1 DEF TypeOK, read
  <2>2. Said(read'.rows[u]) = Stored(u)'
    BY <1>6, <2>1 DEF Said, Stored
  <2>3. QED BY <1>1, <1>3, <1>5, <1>6, <1>7, <2>2 DEF FlagTrue, OffTrue, LoadedTrue, Said
<1>8. CASE Scan(t) /\ UNCHANGED acc
  <2>1. read'.rows = read.rows
    BY <1>1, <1>8 DEF Scan, TypeOK, read
  <2>2. Loaded
    BY <1>8, Shapes DEF Scan, Loaded
  <2>3. QED BY <1>1, <1>3, <1>5, <1>6, <1>8, <2>1, <2>2 DEF FlagTrue, OffTrue, LoadedTrue, Said
<1>9. CASE Swap(t)
  <2>1. Swapping /\ Loaded
    <3>1. rest # <<>> /\ Head(rest).do = "swap" /\ Loading(Head(rest), Tail(rest))
      BY <1>9, Shapes DEF Swap
    <3>2. Head(rest) = [do |-> "swap"]
      BY <3>1 DEF Loading
    <3>3. QED BY <3>1, <3>2 DEF Swapping, Loaded
  <2>2. ~Loaded'
    BY <1>9, StepGoesOn DEF Loaded
  <2>3. acc'[u] = IF u \notin read.files THEN Absent ELSE Said(read.rows[u])
    BY <1>1, <1>9 DEF Swap, Members, Said, read
  <2>4. acc[u] # Absent => u \in read.files
    BY <2>1 DEF MemberInv, Known
  <2>5. Said(read.rows[u]) # Absent
    BY FreshType, AbsentAssumption DEF Said
  <2>6. late[u] = 0 => Said(read.rows[u]).manual = Stored(u).manual
    BY <1>5, <2>1 DEF LoadedTrue
  <2>7. FlagTrue(u)'
    BY <1>1, <1>3, <1>5, <1>6, <2>3, <2>4, <2>5, <2>6 DEF FlagTrue
  <2>8. OffTrue(u)'
    BY <1>1, <1>3, <1>5, <2>3, <2>4, <2>5, <2>6 DEF FlagTrue, OffTrue
  <2>9. QED BY <2>2, <2>7, <2>8 DEF LoadedTrue
<1>10. QED BY <1>7, <1>8, <1>9 DEF ReadRows, Scan, mem

\* The persister.
LEMMA SaveFlag ==
  ASSUME TypeOK, TypeOK', FlagInv, OrderInv, Save
  PROVE  FlagInv'
<1> PICK o : o = worker.op
  OBVIOUS
<1>1. /\ UNCHANGED <<acc, userOff, snap, todo, applied>>
      /\ Sure' => Sure
      /\ \A u, k : Writing(u, k)' <=> Writing(u, k)
      /\ (Loaded' <=> Loaded) /\ read' = read
  BY DEF Save, StoreFails, mem, Sure, Writing, Loaded, rest, read
<1>2. o \in Pending /\ o \in Ops /\ Pending' \subseteq Pending
  BY InHands, PendingType DEF OrderInv
<1>3. \A u \in Uids : Live(u)' \subseteq Live(u)
  BY <1>1, <1>2 DEF Live
<1>4. MarkedClean'
  BY <1>1, <1>3, Cleaned DEF FlagInv
<1> SUFFICES ASSUME Sure', NEW u \in Uids
             PROVE  FlagTrue(u)' /\ LoadedTrue(u)' /\ OffTrue(u)'
  BY <1>4 DEF FlagInv
<1>5. FlagTrue(u) /\ LoadedTrue(u) /\ OffTrue(u)
  BY <1>1 DEF FlagInv
<1>6. Store(o.w) /\ late' = IF o.w.kind = "row" /\ o.seq < applied[o.w.uid]
                            THEN [late EXCEPT ![o.w.uid] = @ + 1] ELSE late
  BY DEF Save, StoreFails, Sure
<1>7. o.w \in Rows \cup Cools /\ o.seq \in Nat
  BY <1>2 DEF Ops
<1>8. late'[u] = 0 => late[u] = 0
  <2>1. late[u] \in Nat /\ (late'[u] = late[u] \/ late'[u] = late[u] + 1)
    BY <1>6 DEF TypeOK
  <2>2. QED BY <2>1
<1>9. CASE o.w.kind = "row" /\ o.w.uid = u
  <2>1. dbRow'[u] = o.w.row /\ o.w.row # Absent
    <3>1. o.w \in Rows
      BY <1>7, <1>9 DEF Cools
    <3>2. o.w.row \in AccountStates
      BY <3>1 DEF Rows
    <3>3. QED BY <1>6, <1>9, <3>2, AbsentAssumption DEF Store, TypeOK
  <2>2. Stored(u)' = o.w.row
    BY <2>1 DEF Stored
  <2>3. late'[u] = 0 => o \in Live(u)
    <3>1. o.seq < applied[u] => late'[u] = late[u] + 1 /\ late[u] \in Nat
      BY <1>6, <1>9 DEF TypeOK
    <3>2. applied[u] \in Nat
      BY DEF TypeOK
    <3>3. late'[u] = 0 => o.seq >= applied[u]
      BY <1>7, <3>1, <3>2
    <3>4. QED BY <1>2, <1>9, <3>3 DEF Live
  <2>4. Loaded => ~Writing(u, "row") /\ ~Writing(u, "gone")
    BY DEF Loaded, Writing
  <2>5. FlagTrue(u)'
    BY <1>1, <1>3, <1>5, <1>8, <2>2, <2>3 DEF FlagTrue
  <2>6. LoadedTrue(u)'
    <3> SUFFICES ASSUME Loaded, late'[u] = 0
                 PROVE  Said(read.rows[u]).manual = o.w.row.manual
      BY <1>1, <2>2 DEF LoadedTrue, Said
    <3>1. acc[u] # Absent
      BY <1>5, <1>8, <2>3, <2>4 DEF FlagTrue
    <3>2. Stored(u).manual = acc[u].manual /\ o.w.row.manual = acc[u].manual
      BY <1>5, <1>8, <2>3, <2>4, <3>1 DEF FlagTrue
    <3>3. QED BY <1>5, <1>8, <3>2 DEF LoadedTrue
  <2>7. OffTrue(u)'
    BY <1>1, <1>5, <1>8 DEF OffTrue
  <2>8. QED BY <2>5, <2>6, <2>7
<1>10. CASE ~(o.w.kind = "row" /\ o.w.uid = u)
  <2>1. dbRow'[u] = dbRow[u]
    <3>1. o.w.kind # "gone"
      BY <1>7 DEF Rows, Cools
    <3>2. QED BY <1>6, <1>10, <3>1 DEF Store, TypeOK
  <2>2. Stored(u)' = Stored(u)
    BY <2>1 DEF Stored
  <2>3. QED
    BY <1>1, <1>3, <1>5, <1>8, <2>2 DEF FlagTrue, LoadedTrue, OffTrue, Said
<1>11. QED BY <1>9, <1>10

LEMMA PersisterFlag ==
  ASSUME TypeOK, TypeOK', FlagInv, OrderInv, Persister
  PROVE  FlagInv'
<1>1. CASE Take \/ Judge
  <2>1. /\ UNCHANGED <<acc, dbRow, late, userOff, lost, snap, todo>>
        /\ Pending' \subseteq Pending
    BY <1>1, Taken, InHands DEF Take, Judge, OrderInv, mem, db, hist
  <2>2. \A u \in Uids : \A n \in Nat : n >= applied'[u] => n >= applied[u]
    <3>1. applied' = applied \/ applied' = Raised(worker.op.w.uid, worker.op.seq)
      BY <1>1 DEF Take, Judge
    <3>2. CASE applied' = applied
      BY <3>2
    <3>3. CASE applied' = Raised(worker.op.w.uid, worker.op.seq) /\ Judge
      <4> PICK n : n = worker.op.seq
        OBVIOUS
      <4>1. n \in Nat
        BY <3>3, InHands, PendingType DEF OrderInv, Ops
      <4>2. \A u \in Uids : applied[u] \in Nat
        BY DEF TypeOK
      <4>3. \A u \in Uids : \/ applied'[u] = applied[u]
                            \/ applied'[u] = n /\ n > applied[u]
        BY <3>3 DEF Raised, TypeOK
      <4>4. QED BY <4>1, <4>2, <4>3
    <3>4. QED BY <1>1, <3>1, <3>2, <3>3 DEF Take
  <2>3. \A u \in Uids : Live(u)' \subseteq Live(u)
    BY <2>1, <2>2, LiveShrinks
  <2>4. /\ MarkedClean'
        /\ \A u \in Uids, k \in {"row", "gone"} : Writing(u, k)' = Writing(u, k)
    BY <2>1, <2>3, Cleaned DEF FlagInv
  <2>5. Loaded' = Loaded /\ read' = read
    BY <2>1 DEF Loaded, rest, read
  <2>6. QED BY <2>1, <2>3, <2>4, <2>5, FlagKept DEF Known, Sure
<1>2. QED BY <1>1, SaveFlag DEF Persister

\* The process.
LEMMA ProcessFlag ==
  ASSUME TypeOK, TypeOK', Alone, DownIdle, MemberInv, FlagInv, Process
  PROVE  FlagInv'
<1>1. CASE Close
  <2>1. UNCHANGED <<acc, dbRow, late, userOff, lost, snap, todo, queue, worker, applied>>
    BY <1>1 DEF Close, mem, db, hist
  <2>2. \A u \in Uids : Live(u)' = Live(u)
    BY <2>1, LiveSame
  <2>3. /\ MarkedClean'
        /\ \A u \in Uids, k \in {"row", "gone"} : Writing(u, k)' = Writing(u, k)
    BY <2>1, <2>2, Cleaned DEF FlagInv
  <2>4. Loaded' = Loaded /\ read' = read
    BY <2>1 DEF Loaded, rest, read
  <2>5. QED BY <2>1, <2>2, <2>3, <2>4, FlagKept DEF Known, Sure
<1>2. CASE Exit \/ Crash
  <2>1. /\ UNCHANGED <<acc, dbRow, late, userOff>> /\ rest' = <<>>
        /\ queue' = <<>> /\ worker' = Idle
        /\ Sure' => Sure /\ rest = <<>>
    BY <1>2, OnlyOne DEF Exit, Crash, Die, rest, MidHandler, Quiescent, mem, db, Sure
  <2>2. Pending' = {}
    BY <2>1 DEF Pending, InHand, Queued
  <2>3. /\ \A u \in Uids : Live(u)' = {}
        /\ MarkedClean' /\ ~Loaded' /\ \A u, k : ~Writing(u, k)'
    BY <2>1, <2>2 DEF Live, MarkedClean, Loaded, Writing
  <2>4. rest = <<>> => \A u, k : ~Writing(u, k)
    BY DEF Writing
  <2> SUFFICES ASSUME Sure', NEW u \in Uids
               PROVE  FlagTrue(u)' /\ LoadedTrue(u)' /\ OffTrue(u)'
    BY <2>3 DEF FlagInv
  <2>5. FlagTrue(u) /\ OffTrue(u) /\ Stored(u)' = Stored(u)
    BY <2>1 DEF FlagInv, Stored
  <2>6. QED BY <2>1, <2>3, <2>4, <2>5 DEF FlagTrue, LoadedTrue, OffTrue
<1>3. CASE Boot
  <2>1. rest = <<>> /\ rest' = <<>> /\ queue' = <<>> /\ worker' = Idle /\ phase = "down"
    BY <1>3 DEF Boot, DownIdle, Drained, rest
  <2>2. Pending' = {}
    BY <2>1 DEF Pending, InHand, Queued
  <2>3. /\ \A u \in Uids : Live(u)' = {}
        /\ MarkedClean' /\ ~Loaded' /\ \A u, k : ~Writing(u, k) /\ ~Writing(u, k)'
    BY <2>1, <2>2 DEF Live, MarkedClean, Loaded, Writing
  <2> SUFFICES ASSUME Sure', NEW u \in Uids
               PROVE  FlagTrue(u)' /\ LoadedTrue(u)' /\ OffTrue(u)'
    BY <2>3 DEF FlagInv
  <2>4. /\ acc' = Members(dbRow, OnDisk) /\ UNCHANGED <<dbRow, archives, active>>
        /\ userOff' = {v \in userOff : "fault" \in lost \/ late[v] > 0
                                         => acc'[v] # Absent /\ acc'[v].manual}
    BY <1>3 DEF Boot, Sure, db, files
  <2>5. acc'[u] = IF u \in OnDisk THEN Stored(u) ELSE Absent
    BY <2>4 DEF Members, Stored
  <2>6. Stored(u) # Absent /\ Stored(u)' = Stored(u)
    BY <2>4, FreshType, AbsentAssumption DEF Stored
  <2>7. FlagTrue(u)'
    BY <2>3, <2>5, <2>6 DEF FlagTrue
  <2>8. OffTrue(u)'
    <3> SUFFICES ASSUME u \in userOff'
                 PROVE  acc'[u] # Absent /\ acc'[u].manual
      BY DEF OffTrue
    <3>1. u \in userOff /\ ("fault" \in lost \/ late[u] > 0 => acc'[u] # Absent /\ acc'[u].manual)
      BY <2>4
    <3>2. CASE Sure /\ ~(late[u] > 0)
      <4>1. late[u] = 0
        BY <3>2 DEF TypeOK
      <4>2. acc[u] # Absent /\ acc[u].manual /\ Stored(u).manual = acc[u].manual
        BY <2>3, <3>1, <3>2, <4>1 DEF FlagInv, OffTrue, FlagTrue
      <4>3. u \in OnDisk
        BY <2>1, <3>2, <4>2 DEF MemberInv, Known, Doomed, Sure
      <4>4. QED BY <2>5, <2>6, <4>2, <4>3
    <3>3. QED BY <3>1, <3>2 DEF Sure
  <2>9. QED BY <2>3, <2>7, <2>8 DEF LoadedTrue
<1>4. QED BY <1>1, <1>2, <1>3 DEF Process

LEMMA FlagNext ==
  ASSUME TypeOK, TypeOK', Alone, DownIdle, RestOK, MemberInv, OrderInv, FlagInv,
         [Next]_vars
  PROVE  FlagInv'
<1>1. ASSUME UNCHANGED <<acc, dbRow, late, userOff, lost, snap, todo, queue, worker,
                         applied>>
      PROVE  FlagInv'
  <2>1. \A u \in Uids : Live(u)' = Live(u)
    BY <1>1, LiveSame
  <2>2. /\ MarkedClean'
        /\ \A u \in Uids, k \in {"row", "gone"} : Writing(u, k)' = Writing(u, k)
    BY <1>1, <2>1, Cleaned DEF FlagInv
  <2>3. Loaded' = Loaded /\ read' = read
    BY <1>1 DEF Loaded, rest, read
  <2>4. QED BY <1>1, <2>1, <2>2, <2>3, FlagKept DEF Known, Sure
<1>2. CASE Files
  BY <1>1, <1>2 DEF Files, Login, Import, mem, db
<1>3. CASE UNCHANGED vars
  BY <1>1, <1>3 DEF vars, mem, db, hist
<1>4. CASE \E t \in Threads : Step(t)
  BY <1>4, NumberFlag, SendFlag, MarkFlag, WriteFlag, ForgetFlag, AnswerFlag,
     LoadFlag DEF Step
<1>5. QED
  BY <1>2, <1>3, <1>4, HandlersFlag, PersisterFlag, ProcessFlag DEF Next

LEMMA FlagInit == Alone /\ Init => FlagInv
<1> SUFFICES ASSUME Alone, Init PROVE FlagInv
  OBVIOUS
<1>1. /\ rest = <<>> /\ queue = <<>> /\ worker = Idle /\ userOff = {}
      /\ acc = Members(dbRow, OnDisk)
  BY OnlyOne DEF Init, rest
<1>2. Pending = {}
  BY <1>1 DEF Pending, InHand, Queued
<1>3. \A u \in Uids : Live(u) = {} /\ (acc[u] = Absent \/ acc[u] = Stored(u))
  BY <1>1, <1>2 DEF Live, Members, Stored
<1>4. QED
  BY <1>1, <1>3 DEF FlagInv, MarkedClean, FlagTrue, LoadedTrue, OffTrue, Writing, Loaded

\* The invariant of one handler after the other.
FilesInv == SerialInv /\ MemberInv /\ OrderInv /\ FlagInv

LEMMA FilesNext == Alone /\ FilesInv /\ [Next]_vars => FilesInv'
<1> SUFFICES ASSUME Alone, FilesInv, [Next]_vars PROVE FilesInv'
  OBVIOUS
<1>1. SerialInv' /\ TypeOK /\ TypeOK' /\ DownIdle /\ RestOK
  BY SerialNext DEF FilesInv, SerialInv
<1>2. QED BY <1>1, MemberNext, OrderNext, FlagNext DEF FilesInv

LEMMA FilesInit == Alone /\ CurrentArchived /\ Init => FilesInv
  BY SerialInit, MemberInit, OrderInit, FlagInit DEF FilesInv

(* ReloadMembers, Activate and a restart, whatever rows they read and        *)
(* however far behind the persister is, do not give an account back that the *)
(* user disabled, unless the database failed or the persister has overtaken  *)
(* the user's write: when handlers run one after the other.                  *)
THEOREM ReloadLeavesDisabled ==
  ASSUME Alone, CurrentArchived
  PROVE  Spec => []ReloadKeepsManual
<1>1. FilesInv => ReloadKeepsManual
  <2>1. FilesInv => userOff \subseteq Uids
    BY DEF FilesInv, SerialInv, TypeOK
  <2>2. QED
    BY <2>1 DEF FilesInv, FlagInv, OffTrue, Sure, ReloadKeepsManual
<1>2. QED BY <1>1, FilesInit, FilesNext, PTL DEF Spec

-----------------------------------------------------------------------------
(***************************************************************************)
(* The whole row.  As long as no reload has read rows the queue had still  *)
(* to write, the last live row of an account, or the one in the database   *)
(* when none is live, agrees with memory, unless the handler under way     *)
(* still owes the account a row; and an account that is gone has no row.   *)
(***************************************************************************)
Whole == "fault" \notin lost /\ "lag" \notin lost

RowStep(u, s) ==
  \/ /\ s.do \in {"persist", "send", "sync", "mark", "write"}
     /\ s.w.kind = "row" /\ s.w.uid = u
  \/ s.do = "record" /\ s.uid = u

Owed(u) ==
  rest # <<>> /\ \/ RowStep(u, Head(rest))
                 \/ Tail(rest) # <<>> /\ RowStep(u, Head(Tail(rest)))

Latest(u, o)  == o \in Live(u) /\ \A p \in Live(u) : p.seq <= o.seq
Agrees(r, s)  == r.manual = s.manual /\ r.auto = s.auto

RowTrue(u) == late[u] = 0 /\ acc[u] # Absent /\ ~Owed(u) =>
  /\ Live(u) = {} => Agrees(Stored(u), acc[u])
  /\ \A o : Latest(u, o) => Agrees(o.w.row, acc[u])

GoneTrue(u) ==
  late[u] = 0 /\ acc[u] = Absent /\ ~Writing(u, "gone") => dbRow[u] = Absent

LoadedWhole == Loaded => Drained /\ read.rows = dbRow

RowInv == Whole =>
  /\ LoadedWhole
  /\ \A u \in Uids : RowTrue(u) /\ ("orphan" \notin lost => GoneTrue(u))

\* One account, when its rows stay the same.
LEMMA RowKept ==
  ASSUME NEW u \in Uids, RowTrue(u), Live(u)' = Live(u), dbRow'[u] = dbRow[u],
         late'[u] = 0 => late[u] = 0, acc'[u] = acc[u], Owed(u) => Owed(u)'
  PROVE  RowTrue(u)'
  BY DEF RowTrue, Latest, Stored

LEMMA GoneKept ==
  ASSUME NEW u \in Uids, GoneTrue(u), dbRow'[u] = dbRow[u],
         late'[u] = 0 => late[u] = 0, acc'[u] = Absent => acc[u] = Absent,
         Writing(u, "gone") => Writing(u, "gone")'
  PROVE  GoneTrue(u)'
  BY DEF GoneTrue

\* What is owed is owed until its step is done.
LEMMA OwedNext ==
  ASSUME rest # <<>>, rest' = Tail(rest), NEW u, Owed(u), ~RowStep(u, Head(rest))
  PROVE  Owed(u)'
  BY DEF Owed, RowStep

LEMMA HandlersOwe ==
  ASSUME TypeOK, Alone, Handlers
  PROVE  \A u \in Known : Agrees(acc'[u], acc[u]) \/ Owed(u)'
<1>1. ASSUME NEW t \in Threads, NEW u \in Uids, NEW m \in Models,
             NoteSuccess(t, u, m)
      PROVE  \A v \in Known : Agrees(acc'[v], acc[v])
  <2>1. acc[u] # Absent => /\ AfterSuccess(acc[u]).manual = acc[u].manual
                           /\ AfterSuccess(acc[u]).auto = acc[u].auto
    <3>1. acc[u] # Absent => acc[u] \in AccountStates
      BY DEF TypeOK
    <3>2. acc[u] \in AccountStates => /\ AfterSuccess(acc[u]).manual = acc[u].manual
                                      /\ AfterSuccess(acc[u]).auto = acc[u].auto
      BY DEF AfterSuccess, AccountStates
    <3>3. QED BY <3>1, <3>2
  <2>2. QED BY <1>1, <2>1 DEF NoteSuccess, TypeOK, Agrees, Known
<1>2. ASSUME NEW t \in Threads, NEW u \in Uids, NEW m \in Models,
             NEW kind \in PunishingKinds, NoteError(t, u, m, kind)
      PROVE  (\A v \in Uids \ {u} : acc'[v] = acc[v]) /\ Owed(u)'
  <2> DEFINE p == IF kind = "rate" THEN Persist(Cool("cool", u, m)) ELSE <<>>
  <2> PICK c : c = [do |-> "persist", w |-> Cool("cool", u, m), seq |-> 0]
    OBVIOUS
  <2> PICK r : r = [do |-> "persist", w |-> Row(u, acc'[u]), seq |-> 0]
    OBVIOUS
  <2>1. rest' = p \o <<r>>
    BY <1>2, Started DEF NoteError, Persist
  <2>2. acc[u] \in AccountStates /\ acc'[u] = AfterError(acc[u], kind)
    BY <1>2 DEF TypeOK, NoteError
  <2>3. Row(u, acc'[u]) \in Rows /\ Cool("cool", u, m) \in Cools
    BY <2>2, EventTypes, RowType DEF Cool, Cools
  <2>4. r \in Steps /\ c \in Steps /\ <<r>> \in Seq(Steps)
    BY <2>3, SendsSteps, StepSeq DEF Sends
  <2>5. RowStep(u, r)
    BY DEF RowStep, Row
  <2>6. rest' = <<r>> \/ rest' = <<c>> \o <<r>>
    BY <2>1, <2>4, ConcatEmptySeq DEF Persist
  <2>7. ASSUME rest' = <<r>>
        PROVE  Owed(u)'
    <3>1. rest' # <<>> /\ Head(rest') = r
      BY <2>7, Singles
    <3>2. QED BY <2>5, <3>1 DEF Owed
  <2>8. ASSUME rest' = <<c>> \o <<r>>
        PROVE  Owed(u)'
    <3>1. rest' # <<>> /\ Tail(rest') = <<r>>
      BY <2>4, <2>8, Joined
    <3>2. Tail(rest') # <<>> /\ Head(Tail(rest')) = r
      BY <3>1, Singles
    <3>3. QED BY <2>5, <3>1, <3>2 DEF Owed
  <2>9. \A v \in Uids \ {u} : acc'[v] = acc[v]
    BY <1>2 DEF NoteError, TypeOK
  <2>10. QED BY <2>6, <2>7, <2>8, <2>9
<1>3. ASSUME NEW t \in Threads, NEW u \in Uids, NEW off \in BOOLEAN,
             SetManualDisabled(t, u, off)
      PROVE  (\A v \in Uids \ {u} : acc'[v] = acc[v]) /\ Owed(u)'
  <2> PICK d : d = [do |-> "sync", w |-> Row(u, acc'[u]), seq |-> 0]
    OBVIOUS
  <2>1. rest' = <<d>>
    BY <1>3, Started DEF SetManualDisabled, Sync
  <2>2. rest' # <<>> /\ Head(rest') = d
    BY <2>1, Singles
  <2>3. RowStep(u, d)
    BY DEF RowStep, Row
  <2>4. \A v \in Uids \ {u} : acc'[v] = acc[v]
    BY <1>3 DEF SetManualDisabled, TypeOK
  <2>5. QED BY <2>2, <2>3, <2>4 DEF Owed
<1>4. ASSUME NEW t \in Threads,
             \/ ReloadMembers(t) \/ Logout(t)
             \/ \E u \in Uids : \/ Probe(t, u) \/ Activate(t, u) \/ RemoveProfile(t, u)
                               \/ \E m \in Models : ClearModelCool(t, u, m)
      PROVE  acc' = acc
  BY <1>4 DEF ReloadMembers, Logout, Probe, Activate, RemoveProfile,
     ClearModelCool, mem
<1>5. ASSUME NEW u \in Uids, \A v \in Uids \ {u} : acc'[v] = acc[v], Owed(u)'
      PROVE  \A v \in Known : Agrees(acc'[v], acc[v]) \/ Owed(v)'
  BY <1>5 DEF Agrees, Known
<1>6. CASE acc' = acc
  BY <1>6 DEF Agrees
<1>7. QED BY <1>1, <1>2, <1>3, <1>4, <1>5, <1>6 DEF Handlers

LEMMA HandlersRow ==
  ASSUME TypeOK, TypeOK', Alone, RowInv, Handlers
  PROVE  RowInv'
<1>1. UNCHANGED <<late, dbRow, queue, worker, applied, lost>> /\ rest = <<>>
  BY HandlersServe, OnlyOne DEF Apart, rest, db
<1>2. ~Loaded'
  <2>1. Begins'
    BY StartRest
  <2>2. QED BY <2>1 DEF Begins, Unbegun, Middles, Loaded
<1> SUFFICES ASSUME Whole', NEW u \in Uids
             PROVE  RowTrue(u)' /\ ("orphan" \notin lost => GoneTrue(u)')
  BY <1>1, <1>2 DEF RowInv, LoadedWhole
<1>3. RowTrue(u) /\ ("orphan" \notin lost => GoneTrue(u))
  BY <1>1 DEF RowInv, Whole
<1>4. Live(u)' = Live(u) /\ Stored(u)' = Stored(u) /\ ~Writing(u, "gone") /\ ~Owed(u)
  BY <1>1, LiveSame DEF Stored, Writing, Owed
<1>5. acc'[u] = Absent <=> acc[u] = Absent
  BY HandlersKnown DEF Known
<1>6. acc[u] # Absent => Agrees(acc'[u], acc[u]) \/ Owed(u)'
  BY HandlersOwe DEF Known
<1>7. RowTrue(u)'
  BY <1>1, <1>3, <1>4, <1>5, <1>6 DEF RowTrue, Agrees, Latest
<1>8. GoneTrue(u) => GoneTrue(u)'
  BY <1>1, <1>4, <1>5, GoneKept
<1>9. QED BY <1>3, <1>7, <1>8

-----------------------------------------------------------------------------
(* The steps of a handler. *)
LEMMA NumberRow ==
  ASSUME TypeOK, TypeOK', Alone, RestOK, RowInv, NEW t \in Threads, Number(t)
  PROVE  RowInv'
<1> PICK h : h = Head(rest)
  OBVIOUS
<1> PICK s : s = Head(rest')
  OBVIOUS
<1>1. UNCHANGED <<acc, dbRow, late, lost, queue, worker, applied>>
  BY DEF Number, mem, db, hist
<1>2. /\ rest # <<>> /\ rest' # <<>> /\ s.w = h.w /\ h.do \in {"persist", "sync"}
      /\ s.do \in {"send", "mark"} /\ (h.do = "sync" => s.do = "mark")
      /\ Tail(rest') = Tail(rest)
  <2>1. /\ rest # <<>> /\ rest' # <<>> /\ h.do \in {"persist", "sync"}
        /\ s = [do |-> IF h.do = "persist" THEN "send" ELSE "mark",
                w |-> h.w, seq |-> seq + 1]
        /\ Tail(rest') = Tail(rest)
    BY StepGoesOn
  <2>2. QED BY <2>1
<1>3. ~Loaded'
  BY <1>2 DEF Loaded
<1>4. ASSUME NEW u
      PROVE  /\ Owed(u) => Owed(u)'
             /\ Writing(u, "gone") => Writing(u, "gone")'
  <2>1. RowStep(u, h) => RowStep(u, s)
    BY <1>2 DEF RowStep
  <2>2. QED BY <1>2, <2>1 DEF Owed, Writing
<1> SUFFICES ASSUME Whole', NEW u \in Uids
             PROVE  RowTrue(u)' /\ ("orphan" \notin lost => GoneTrue(u)')
  BY <1>1, <1>3 DEF RowInv, LoadedWhole
<1>5. RowTrue(u) /\ ("orphan" \notin lost => GoneTrue(u))
  BY <1>1 DEF RowInv, Whole
<1>6. QED BY <1>1, <1>4, <1>5, LiveSame, RowKept, GoneKept

LEMMA SendRow ==
  ASSUME TypeOK, TypeOK', Alone, RestOK, RowInv, OrderInv, NEW t \in Threads, Send(t)
  PROVE  RowInv'
<1> PICK h : h = Head(rest)
  OBVIOUS
<1> PICK o : o = [w |-> h.w, seq |-> h.seq]
  OBVIOUS
<1>1. /\ UNCHANGED <<acc, dbRow, late, worker, applied>> /\ t = One
      /\ rest # <<>> /\ rest' = Tail(rest) /\ h.do = "send" /\ h \in Steps
      /\ h = Head(todo[t])
  BY OnlyOne, Shapes, Moved DEF Send, mem, db, rest
<1>2. PICK v \in Uids : Noting(v, h, Tail(rest))
  BY Shapes DEF Send
<1>3. ~Loaded'
  <2>1. Begins'
    BY StepBegins
  <2>2. QED BY <2>1 DEF Begins, Unbegun, Middles, Loaded
<1>4. /\ o \in Ops /\ h.seq \in Nat /\ \A p \in Pending : p.seq < o.seq
      /\ \A u \in Uids : applied[u] < h.seq
  BY <1>1, StepFields DEF OrderInv, Newest, Numbered, Ops
<1>5. "fault" \in lost' \/ (queue' = Append(queue, o) /\ UNCHANGED lost)
  BY <1>1 DEF Send
<1> SUFFICES ASSUME queue' = Append(queue, o), UNCHANGED lost, Whole', NEW u \in Uids
             PROVE  RowTrue(u)' /\ ("orphan" \notin lost => GoneTrue(u)')
  BY <1>3, <1>5 DEF RowInv, LoadedWhole, Whole
<1>6. Pending' = Pending \cup {o}
  BY <1>1, <1>4, Appended DEF OrderInv
<1>7. RowTrue(u) /\ ("orphan" \notin lost => GoneTrue(u)) /\ ~Writing(u, "gone")
  BY <1>1 DEF RowInv, Whole, Writing
<1>8. GoneTrue(u) => GoneTrue(u)'
  BY <1>1, <1>7, GoneKept
<1>9. CASE h.w.kind = "row" /\ h.w.uid = u
  <2>1. o \in Live(u)' /\ \A p \in Live(u)' : p # o => p.seq < o.seq
    <3>1. applied'[u] < h.seq /\ applied[u] \in Nat
      BY <1>1, <1>4 DEF TypeOK
    <3>2. h.seq >= applied'[u]
      BY <1>1, <1>4, <3>1
    <3>3. o \in Live(u)'
      BY <1>6, <1>9, <3>2 DEF Live
    <3>4. Live(u)' \subseteq Pending \cup {o}
      BY <1>6 DEF Live
    <3>5. QED BY <1>4, <3>3, <3>4
  <2>2. \A p \in Live(u)' : p.seq \in Nat
    <3>1. Live(u)' \subseteq Ops
      BY <1>4, <1>6, PendingType DEF Live
    <3>2. QED BY <3>1 DEF Ops
  <2>3. \A p : Latest(u, p)' => p = o
    <3> SUFFICES ASSUME NEW p, Latest(u, p)', p # o
                 PROVE  FALSE
      OBVIOUS
    <3>1. p \in Live(u)' /\ o.seq <= p.seq
      BY <2>1 DEF Latest
    <3>2. p.seq < o.seq /\ p.seq \in Nat /\ o.seq \in Nat
      BY <1>4, <2>1, <2>2, <3>1
    <3>3. QED BY <3>1, <3>2
  <2>4. acc[u] # Absent /\ o.w.row = acc[u]
    <3>1. \/ h.w = Row(v, acc[v]) /\ acc[v] # Absent
          \/ \E m \in Models : h.w = CoolNow(v, m)
      BY <1>2 DEF Noting, Sends, RowNow
    <3>2. \A m \in Models : CoolNow(v, m).kind # "row"
      BY DEF CoolNow, Cool
    <3>3. QED BY <1>9, <3>1, <3>2 DEF Row
  <2>5. RowTrue(u)'
    BY <1>1, <2>1, <2>3, <2>4 DEF RowTrue, Agrees
  <2>6. QED BY <1>7, <1>8, <2>5
<1>10. CASE ~(h.w.kind = "row" /\ h.w.uid = u)
  <2>1. Live(u)' = Live(u)
    BY <1>1, <1>6, <1>10 DEF Live
  <2>2. ~RowStep(u, h)
    BY <1>1, <1>10 DEF RowStep
  <2>3. RowTrue(u)'
    BY <1>1, <1>7, <2>1, <2>2, OwedNext, RowKept
  <2>4. QED BY <1>7, <1>8, <2>3
<1>11. QED BY <1>9, <1>10

LEMMA MarkRow ==
  ASSUME TypeOK, TypeOK', Alone, RestOK, RowInv, OrderInv, NEW t \in Threads, Mark(t)
  PROVE  RowInv'
<1> PICK h : h = Head(rest)
  OBVIOUS
<1> PICK s : s = Head(rest')
  OBVIOUS
<1>1. UNCHANGED <<acc, dbRow, lost, queue, worker>> /\ h = Head(todo[t])
  BY OnlyOne DEF Mark, mem, db, hist, rest
<1>2. /\ rest # <<>> /\ rest' # <<>> /\ s.w = h.w /\ s.do = "write" /\ h.do = "mark"
      /\ Tail(rest') = Tail(rest)
  <2>1. /\ rest # <<>> /\ rest' # <<>> /\ h.do = "mark" /\ Tail(rest') = Tail(rest)
        /\ s = [do |-> "write", w |-> h.w, seq |-> h.seq]
    BY StepGoesOn
  <2>2. QED BY <2>1
<1>3. ~Loaded'
  BY <1>2 DEF Loaded
<1>4. PICK v \in Uids : \/ (h.w = Row(v, acc[v]) /\ acc[v] # Absent)
                       \/ (h.w = Gone("gone", v) /\ acc[v] = Absent)
  <2>1. PICK v \in Uids : Clicking(v, h, Tail(rest)) \/ Erasing(v, h, Tail(rest))
    BY Shapes DEF Mark
  <2>2. /\ Clicking(v, h, Tail(rest)) => h.w = Row(v, acc[v]) /\ acc[v] # Absent
        /\ Erasing(v, h, Tail(rest)) => h.w = Gone("gone", v) /\ acc[v] = Absent
    BY Written
  <2>3. QED BY <2>1, <2>2
<1>5. h.w.uid = v
  BY <1>4 DEF Row, Gone
<1> SUFFICES ASSUME Whole', NEW u \in Uids
             PROVE  RowTrue(u)' /\ ("orphan" \notin lost => GoneTrue(u)')
  BY <1>1, <1>3 DEF RowInv, LoadedWhole
<1>6. RowTrue(u) /\ ("orphan" \notin lost => GoneTrue(u))
  BY <1>1 DEF RowInv, Whole
<1>7. /\ Owed(u) => Owed(u)'
      /\ Writing(u, "gone") => Writing(u, "gone")'
  <2>1. RowStep(u, h) => RowStep(u, s)
    BY <1>2 DEF RowStep
  <2>2. QED BY <1>2, <2>1 DEF Owed, Writing
<1>8. CASE u # v
  <2>1. applied'[u] = applied[u] /\ late'[u] = late[u]
    <3>1. \/ UNCHANGED <<applied, late>>
          \/ applied' = Raised(v, h.seq) /\ late' = [late EXCEPT ![v] = 0]
      BY <1>1, <1>5 DEF Mark
    <3>2. QED BY <1>8, <3>1 DEF Raised, TypeOK
  <2>2. Live(u)' = Live(u)
    BY <1>1, <2>1, Still DEF Live
  <2>3. QED BY <1>1, <1>6, <1>7, <2>1, <2>2, RowKept, GoneKept
<1>9. CASE u = v /\ acc[v] # Absent
  <2>1. h.w.kind = "row"
    BY <1>4, <1>9 DEF Row
  <2>2. Owed(v)'
    BY <1>2, <1>5, <2>1 DEF Owed, RowStep
  <2>3. QED BY <1>1, <1>9, <2>2 DEF RowTrue, GoneTrue
<1>10. CASE u = v /\ acc[v] = Absent
  <2>1. h.w.kind = "gone"
    BY <1>4, <1>10 DEF Gone
  <2>2. Writing(v, "gone")'
    BY <1>2, <1>5, <2>1 DEF Writing
  <2>3. QED BY <1>1, <1>10, <2>2 DEF RowTrue, GoneTrue
<1>11. QED BY <1>8, <1>9, <1>10

LEMMA WriteRow ==
  ASSUME TypeOK, TypeOK', Alone, RestOK, RowInv, FlagInv, NEW t \in Threads, WriteDb(t)
  PROVE  RowInv'
<1> PICK h : h = Head(rest)
  OBVIOUS
<1>1. UNCHANGED <<acc, late, queue, worker, applied>> /\ h = Head(todo[t])
  BY OnlyOne DEF WriteDb, mem, rest
<1>2. ~Loaded'
  <2>1. Begins'
    BY StepBegins
  <2>2. QED BY <2>1 DEF Begins, Unbegun, Middles, Loaded
<1>3. rest # <<>> /\ h.do = "write" /\ h \in Steps
  BY Shapes DEF WriteDb
<1>4. CASE StoreFails
  BY <1>2, <1>4 DEF StoreFails, RowInv, Whole
<1>5. CASE Store(h.w) /\ Done(t) /\ UNCHANGED lost
  <2> SUFFICES ASSUME Whole', NEW u \in Uids
               PROVE  RowTrue(u)' /\ ("orphan" \notin lost => GoneTrue(u)')
    BY <1>2, <1>5 DEF RowInv, LoadedWhole
  <2>1. RowTrue(u) /\ ("orphan" \notin lost => GoneTrue(u)) /\ Live(u)' = Live(u)
    BY <1>1, <1>5, LiveSame DEF RowInv, Whole
  <2>2. rest' = Tail(rest)
    BY <1>5, Moved
  <2>3. CASE Writing(u, "row")
    <3>1. h.w.kind = "row" /\ h.w.uid = u /\ Live(u) = {}
      BY <1>3, <2>3 DEF Writing, FlagInv, MarkedClean
    <3>2. acc[u] # Absent /\ h.w = Row(u, acc[u])
      BY <2>3, Writer
    <3>3. dbRow' = [dbRow EXCEPT ![u] = acc[u]]
      <4>1. h.w.kind = "row" /\ h.w.uid = u /\ h.w.row = acc[u]
        BY <3>2 DEF Row
      <4>2. QED BY <1>5, <4>1 DEF Store
    <3>4. Stored(u)' = acc[u]
      BY <3>2, <3>3 DEF Stored, TypeOK
    <3>5. QED BY <1>1, <2>1, <3>1, <3>2, <3>4 DEF RowTrue, GoneTrue, Latest, Agrees
  <2>4. CASE Writing(u, "gone")
    <3>1. acc[u] = Absent /\ h.w = Gone("gone", u)
      BY <2>4, Writer
    <3>2. dbRow' = [dbRow EXCEPT ![u] = Absent]
      <4>1. h.w.kind = "gone" /\ h.w.uid = u
        BY <3>1 DEF Gone
      <4>2. QED BY <1>5, <4>1 DEF Store
    <3>3. QED BY <1>1, <3>1, <3>2 DEF RowTrue, GoneTrue, TypeOK
  <2>5. CASE ~Writing(u, "row") /\ ~Writing(u, "gone")
    <3>1. h.w.kind \in {"row", "gone"} => h.w.uid # u
      BY <1>3, <2>5 DEF Writing
    <3>2. dbRow'[u] = dbRow[u]
      BY <1>5, <3>1 DEF Store, TypeOK
    <3>3. ~RowStep(u, h)
      BY <1>3, <3>1 DEF RowStep
    <3>4. RowTrue(u)'
      BY <1>1, <1>3, <2>1, <2>2, <3>2, <3>3, OwedNext, RowKept
    <3>5. GoneTrue(u) => GoneTrue(u)'
      BY <1>1, <2>5, <3>2, GoneKept
    <3>6. QED BY <2>1, <3>4, <3>5
  <2>6. QED BY <2>3, <2>4, <2>5
<1>6. QED BY <1>1, <1>4, <1>5 DEF WriteDb

LEMMA ForgetRow ==
  ASSUME TypeOK, TypeOK', Alone, RestOK, RowInv, NEW t \in Threads, Forget(t)
  PROVE  RowInv'
<1> PICK h : h = Head(rest)
  OBVIOUS
<1> PICK r : r = Tail(rest)
  OBVIOUS
<1>1. UNCHANGED <<dbRow, late, lost, queue, worker, applied>> /\ h = Head(todo[t])
  BY OnlyOne DEF Forget, db, rest
<1>2. /\ rest # <<>> /\ rest' = Tail(rest) /\ h \in Steps
      /\ \E v \in Uids : Forgetting(v, h, r)
  BY Shapes, Moved DEF Forget
<1>3. PICK v \in Uids : Forgetting(v, h, r)
  BY <1>2
<1>4. h.uid = v /\ h.do = "forget"
  <2>1. h = [do |-> "forget", uid |-> v]
    BY <1>3 DEF Forgetting, OnUid
  <2>2. QED BY <2>1
<1>5. acc' = [acc EXCEPT ![v] = Absent]
  BY <1>1, <1>4 DEF Forget
<1>6. Writing(v, "gone")' /\ ~Loaded'
  <2> PICK s : s = [do |-> "sync", w |-> Gone("gone", v), seq |-> 0]
    OBVIOUS
  <2>1. rest' # <<>> /\ Head(rest') = s
    <3>1. Gone("gone", v) \in Goners /\ Gone("goneCools", v) \in Goners
      BY DEF Gone, Goners
    <3>2. s \in Steps /\ Write(Gone("goneCools", v)) \in Seq(Steps)
      BY <3>1, PieceTypes DEF Steps
    <3>3. rest' = <<s>> \o Write(Gone("goneCools", v))
      BY <1>2, <1>3 DEF Forgetting, Sync
    <3>4. QED BY <3>2, <3>3, Joined
  <2>2. QED BY <2>1 DEF Writing, Gone, Loaded
<1> SUFFICES ASSUME Whole', NEW u \in Uids
             PROVE  RowTrue(u)' /\ ("orphan" \notin lost => GoneTrue(u)')
  BY <1>1, <1>6 DEF RowInv, LoadedWhole
<1>7. RowTrue(u) /\ ("orphan" \notin lost => GoneTrue(u)) /\ ~Writing(u, "gone")
  BY <1>1, <1>4 DEF RowInv, Whole, Writing
<1>8. CASE u = v
  <2>1. acc'[v] = Absent
    BY <1>5 DEF TypeOK
  <2>2. QED BY <1>6, <1>8, <2>1 DEF RowTrue, GoneTrue
<1>9. CASE u # v
  <2>1. acc'[u] = acc[u]
    BY <1>5, <1>9 DEF TypeOK
  <2>2. ~RowStep(u, h)
    BY <1>4 DEF RowStep
  <2>3. QED
    BY <1>1, <1>2, <1>7, <2>1, <2>2, LiveSame, OwedNext, RowKept, GoneKept
<1>10. QED BY <1>8, <1>9

LEMMA AnswerRow ==
  ASSUME TypeOK, TypeOK', Alone, RestOK, RestOK', RowInv, NEW t \in Threads,
         Answer(t) \/ Record(t)
  PROVE  RowInv'
<1> PICK h : h = Head(rest)
  OBVIOUS
<1> PICK r : r = Tail(rest)
  OBVIOUS
<1> PICK v : v = Head(todo[t]).uid
  OBVIOUS
<1>1. /\ UNCHANGED <<dbRow, late, lost, queue, worker, applied>>
      /\ h.uid = v /\ v \in Uids
  <2>1. UNCHANGED <<dbRow, late, lost, queue, worker, applied>>
    BY DEF Answer, Record, db, hist
  <2>2. h.uid = v
    BY OnlyOne DEF rest
  <2>3. v \in Uids
    BY HeadType, StepFields DEF Answer, Record
  <2>4. QED BY <2>1, <2>2, <2>3
<1>2. ~Loaded'
  <2>1. Begins'
    BY StepBegins
  <2>2. QED BY <2>1 DEF Begins, Unbegun, Middles, Loaded
<1>3. r = <<>> /\ h.do \in {"answer", "record"}
  BY Shapes DEF Answer, Record, Probing
<1>4. Known' = Known
  <2>1. Step(t) /\ ~Forget(t) /\ ~Swap(t)
    BY DEF Step, Answer, Record, Forget, Swap, At
  <2>2. QED BY <2>1, StepKnown
<1>5. \A u \in Uids \ {v} : acc'[u] = acc[u] /\ ~Owed(u)
  <2>1. \A u \in Uids \ {v} : acc'[u] = acc[u]
    BY <1>1 DEF Answer, Record, TypeOK, mem
  <2>2. \A u \in Uids \ {v} : ~RowStep(u, h)
    BY <1>1, <1>3 DEF RowStep
  <2>3. QED BY <1>3, <2>1, <2>2 DEF Owed
<1>6. acc[v] # Absent => Owed(v)'
  <2> SUFFICES ASSUME acc[v] # Absent PROVE Owed(v)'
    OBVIOUS
  <2>1. acc'[v] # Absent
    BY <1>1, <1>4 DEF Known
  <2>2. acc'[v] \in AccountStates
    BY <1>1, <2>1 DEF TypeOK
  <2> PICK s : s = [do |-> "persist", w |-> Row(v, acc'[v]), seq |-> 0]
    OBVIOUS
  <2> PICK g : g = [do |-> "record", uid |-> v]
    OBVIOUS
  <2>3. RowStep(v, s) /\ RowStep(v, g)
    BY DEF RowStep, Row
  <2>4. s \in Steps /\ g \in Steps /\ <<s>> \in Seq(Steps) /\ <<g>> \in Seq(Steps)
    <3>1. s \in Steps
      BY <1>1, <2>2, RowType, SendsSteps DEF Sends
    <3>2. QED BY <1>1, <3>1, StepSeq DEF Steps
  <2>5. rest' = <<g>> \o <<>> \/ rest' = (<<s>> \o <<g>>) \o <<>> \/ rest' = <<s>> \o <<>>
    <3>1. CASE Record(t)
      <4>1. Then(t, Persist(Row(v, acc[v]))) /\ acc' = acc
        BY <3>1 DEF Record, mem
      <4>2. Then(t, <<s>>)
        BY <4>1 DEF Persist
      <4>3. QED BY <1>3, <4>2, Moved
    <3>2. CASE Answer(t)
      <4>1. Then(t, <<g>>) \/ Then(t, <<s>> \o <<g>>)
        BY <3>2 DEF Answer, OnUid, Persist
      <4>2. QED BY <1>3, <4>1, Moved
    <3>3. QED BY <3>1, <3>2
  <2>6. \/ rest' # <<>> /\ Head(rest') = g
        \/ rest' # <<>> /\ Head(rest') = s
    <3>1. <<s>> \o <<g>> \in Seq(Steps)
      BY <2>4, JoinType
    <3>2. (<<s>> \o <<g>>) \o <<>> = <<s>> \o <<g>>
      BY <3>1, ConcatEmptySeq
    <3>3. QED BY <2>4, <2>5, <3>2, Joined, StepSeq
  <2>7. QED BY <2>3, <2>6 DEF Owed
<1> SUFFICES ASSUME Whole', NEW u \in Uids
             PROVE  RowTrue(u)' /\ ("orphan" \notin lost => GoneTrue(u)')
  BY <1>1, <1>2 DEF RowInv, LoadedWhole
<1>7. RowTrue(u) /\ ("orphan" \notin lost => GoneTrue(u)) /\ ~Writing(u, "gone")
  BY <1>1, <1>3 DEF RowInv, Whole, Writing
<1>8. acc'[u] = Absent <=> acc[u] = Absent
  BY <1>4 DEF Known
<1>9. GoneTrue(u) => GoneTrue(u)'
  BY <1>1, <1>7, <1>8, GoneKept
<1>10. CASE u = v
  BY <1>6, <1>7, <1>8, <1>9, <1>10 DEF RowTrue
<1>11. CASE u # v
  BY <1>1, <1>5, <1>7, <1>9, <1>11, LiveSame, RowKept
<1>12. QED BY <1>10, <1>11

LEMMA LoadRow ==
  ASSUME TypeOK, TypeOK', Alone, RestOK, RowInv, MemberInv, NEW t \in Threads,
         ReadRows(t) \/ Scan(t) \/ Swap(t)
  PROVE  RowInv'
<1>1. /\ UNCHANGED <<dbRow, late, queue, worker, applied>> /\ t = One
      /\ Whole' => Whole
      /\ lost \subseteq lost'
  BY OnlyOne DEF ReadRows, Scan, Swap, db, hist, Whole
<1>2. Head(rest).do \in {"rows", "scan", "swap"} /\ rest # <<>>
      /\ Loading(Head(rest), Tail(rest))
  BY Shapes DEF ReadRows, Scan, Swap
<1>3. \A u : ~Writing(u, "gone") /\ ~Owed(u)
  <2>1. Tail(rest) # <<>> => Head(Tail(rest)).do \in {"scan", "swap"}
    <3> PICK a : a = [do |-> "scan"]
      OBVIOUS
    <3> PICK b : b = [do |-> "swap"]
      OBVIOUS
    <3>1. Tail(rest) \in {<<a, b>>, <<b>>, <<>>}
      BY <1>2 DEF Loading
    <3>2. Head(<<a, b>>) = a /\ Head(<<b>>) = b
      BY Singles, Doubles
    <3>3. a.do = "scan" /\ b.do = "swap"
      OBVIOUS
    <3>4. \/ Tail(rest) = <<>> \/ Head(Tail(rest)) = a \/ Head(Tail(rest)) = b
      BY <3>1, <3>2, Zenon
    <3>5. QED BY <3>3, <3>4, Zenon
  <2>2. QED BY <1>2, <2>1 DEF Writing, Owed, RowStep
<1>4. CASE ReadRows(t) /\ UNCHANGED acc
  <2> SUFFICES ASSUME Whole'
               PROVE  LoadedWhole' /\ \A u \in Uids : RowTrue(u)' /\ ("orphan" \notin lost' => GoneTrue(u)')
    BY DEF RowInv
  <2>1. Drained /\ snap' = [snap EXCEPT ![One].rows = dbRow]
    BY <1>1, <1>4 DEF ReadRows, Whole
  <2>2. read'.rows = dbRow
    BY <1>1, <2>1 DEF TypeOK, read
  <2>3. LoadedWhole'
    BY <1>1, <2>1, <2>2 DEF LoadedWhole, Drained
  <2>4. QED
    BY <1>1, <1>3, <1>4, <2>3, LiveSame, RowKept, GoneKept DEF RowInv
<1>5. CASE Scan(t) /\ UNCHANGED acc
  <2> SUFFICES ASSUME Whole'
               PROVE  LoadedWhole' /\ \A u \in Uids : RowTrue(u)' /\ ("orphan" \notin lost' => GoneTrue(u)')
    BY DEF RowInv
  <2>1. read'.rows = read.rows /\ Loaded
    <3>1. read'.rows = read.rows
      BY <1>1, <1>5 DEF Scan, TypeOK, read
    <3>2. Head(rest).do = "scan"
      BY <1>5, Shapes DEF Scan
    <3>3. QED BY <1>2, <3>1, <3>2 DEF Loaded
  <2>2. LoadedWhole'
    BY <1>1, <2>1 DEF LoadedWhole, Drained, RowInv
  <2>3. QED
    BY <1>1, <1>3, <1>5, <2>2, LiveSame, RowKept, GoneKept DEF RowInv
<1>6. CASE Swap(t)
  <2>0. LoadedWhole'
    BY <1>6, StepGoesOn DEF Loaded, LoadedWhole
  <2> SUFFICES ASSUME Whole', NEW u \in Uids
               PROVE  RowTrue(u)' /\ ("orphan" \notin lost' => GoneTrue(u)')
    BY <2>0 DEF RowInv
  <2>1. Swapping /\ Loaded
    <3>1. Head(rest).do = "swap"
      BY <1>6, Shapes DEF Swap
    <3>2. Head(rest) = [do |-> "swap"]
      BY <1>2, <3>1 DEF Loading
    <3>3. QED BY <1>2, <3>1, <3>2 DEF Swapping, Loaded
  <2>3. Drained /\ read.rows = dbRow /\ ("orphan" \notin lost => GoneTrue(u))
    BY <1>1, <2>1 DEF RowInv, LoadedWhole
  <2>4. acc'[u] = IF u \notin read.files THEN Absent ELSE Stored(u)
    BY <1>1, <1>6, <2>3 DEF Swap, Members, Stored, read
  <2>5. Live(u)' = {} /\ Stored(u)' = Stored(u)
    BY <1>1, <2>3 DEF Live, Pending, InHand, Queued, Drained, Stored
  <2>6. RowTrue(u)'
    BY <2>4, <2>5 DEF RowTrue, Latest, Agrees
  <2>7. acc'[u] = Absent => acc[u] = Absent
    <3>1. Stored(u) # Absent
      BY FreshType, AbsentAssumption DEF Stored
    <3>2. acc[u] # Absent => u \in read.files
      BY <2>1 DEF MemberInv, Known
    <3>3. QED BY <2>4, <3>1, <3>2
  <2>8. "orphan" \notin lost' => GoneTrue(u)'
    BY <1>1, <1>3, <2>3, <2>7, GoneKept
  <2>9. QED BY <2>6, <2>8
<1>7. QED BY <1>4, <1>5, <1>6 DEF ReadRows, Scan, mem

\* The persister: between a reload's read and its swap it does not move.
LEMMA PersisterStays ==
  ASSUME RowInv, Whole, Persister
  PROVE  ~Loaded
  BY DEF RowInv, LoadedWhole, Drained, Persister, Take, Judge, Save, Idle

LEMMA JudgeRow ==
  ASSUME TypeOK, TypeOK', RowInv, OrderInv, Take \/ Judge
  PROVE  RowInv'
<1>1. UNCHANGED <<acc, dbRow, late, lost, todo>>
  BY DEF Take, Judge, mem, db, hist
<1>2. \A u : /\ Owed(u)' <=> Owed(u)
             /\ Writing(u, "gone")' <=> Writing(u, "gone")
  BY <1>1 DEF Owed, Writing, rest
<1>3. ASSUME NEW u \in Uids
      PROVE  Live(u)' = Live(u)
  <2>1. CASE Take
    <3>1. UNCHANGED applied /\ Pending' = Pending
      BY <2>1, Taken DEF Take, OrderInv
    <3>2. QED BY <3>1 DEF Live
  <2>2. CASE Judge
    <3> PICK o : o = worker.op
      OBVIOUS
    <3>1. /\ o \in Pending /\ o \in Ops /\ Sorted
          /\ \A p \in Pending : p = o \/ o.seq < p.seq
          /\ \/ worker' # Idle /\ worker'.op = worker.op /\ Pending' = Pending
             \/ worker' = Idle /\ Pending' = Pending \ {o}
      BY <2>2, InHands, PendingType DEF OrderInv, Sorted, Pending, InHand
    <3>2. \A p \in Pending : p.seq \in Nat
      BY PendingType DEF Ops
    <3>3. applied[u] \in Nat /\ o.seq \in Nat
      BY <3>1, <3>2 DEF TypeOK
    <3>4. CASE o.w.kind = "row" /\ o.w.uid = u /\ ~IsStale(o)
      <4>1. o.seq >= applied[u]
        BY <3>3, <3>4 DEF IsStale
      <4>2. applied'[u] = o.seq /\ worker' # Idle
        <5>1. applied' = Raised(u, o.seq) /\ worker' = [worker EXCEPT !.stage = "save"]
          BY <2>2, <3>4 DEF Judge
        <5>2. worker # Idle
          BY <2>2 DEF Judge, Idle
        <5>3. QED BY <3>3, <4>1, <5>1, <5>2 DEF Raised, TypeOK, Idle
      <4>3. Pending' = Pending
        BY <3>1, <4>2
      <4>4. \A p \in Pending : p.seq >= applied[u] <=> p.seq >= o.seq
        BY <3>1, <3>2, <3>3, <4>1
      <4>5. QED BY <4>2, <4>3, <4>4 DEF Live
    <3>5. CASE o.w.kind = "row" /\ o.w.uid = u /\ IsStale(o)
      <4>1. o.seq < applied[u] /\ applied' = applied
        BY <2>2, <3>5 DEF IsStale, Judge
      <4>2. o \notin Live(u)
        BY <3>3, <4>1 DEF Live
      <4>3. Pending' = Pending \/ Pending' = Pending \ {o}
        BY <3>1
      <4>4. QED BY <4>1, <4>2, <4>3 DEF Live
    <3>6. CASE ~(o.w.kind = "row" /\ o.w.uid = u)
      <4>1. applied'[u] = applied[u]
        BY <2>2, <3>6 DEF Judge, Raised, TypeOK
      <4>2. Pending' = Pending \/ Pending' = Pending \ {o}
        BY <3>1
      <4>3. QED BY <3>6, <4>1, <4>2 DEF Live
    <3>7. QED BY <3>4, <3>5, <3>6
  <2>3. QED BY <2>1, <2>2
<1>4. Whole' => Whole /\ ~Loaded'
  BY <1>1, PersisterStays DEF Whole, Loaded, rest, Persister
<1>5. QED
  BY <1>1, <1>2, <1>3, <1>4, RowKept, GoneKept DEF RowInv, LoadedWhole

LEMMA SaveRow ==
  ASSUME TypeOK, TypeOK', RowInv, FlagInv, OrderInv, Save
  PROVE  RowInv'
<1> PICK o : o = worker.op
  OBVIOUS
<1>1. UNCHANGED <<acc, todo, applied>> /\ lost \subseteq lost'
  BY DEF Save, StoreFails, mem
<1>2. \A u : /\ Owed(u)' <=> Owed(u)
             /\ Writing(u, "gone")' <=> Writing(u, "gone")
  BY <1>1 DEF Owed, Writing, rest
<1>3. Whole' => Whole /\ Sure /\ ~Loaded'
  BY <1>1, PersisterStays DEF Whole, Sure, Loaded, rest, Persister
<1>4. /\ o \in Pending /\ o \in Ops /\ Pending' = Pending \ {o}
      /\ \A p \in Pending : p = o \/ o.seq < p.seq
  <2>1. worker' = Idle /\ worker # Idle
    BY InHands DEF Save, OrderInv
  <2>2. Pending' = Pending \ {o}
    BY <2>1, InHands DEF OrderInv
  <2>3. QED BY <2>1, <2>2, PendingType DEF OrderInv, Sorted, Pending, InHand
<1>5. o.w \in Rows \cup Cools /\ o.seq \in Nat
  BY <1>4 DEF Ops
<1> SUFFICES ASSUME Whole', NEW u \in Uids
             PROVE  RowTrue(u)' /\ ("orphan" \notin lost' => GoneTrue(u)')
  BY <1>3 DEF RowInv, LoadedWhole
<1>6. RowTrue(u) /\ ("orphan" \notin lost => GoneTrue(u)) /\ FlagTrue(u)
  BY <1>3 DEF RowInv, FlagInv
<1>7. Store(o.w) /\ late' = IF o.w.kind = "row" /\ o.seq < applied[o.w.uid]
                            THEN [late EXCEPT ![o.w.uid] = @ + 1] ELSE late
  BY DEF Save, StoreFails, Whole
<1>8. late'[u] = 0 => late[u] = 0
  <2>1. late[u] \in Nat /\ (late'[u] = late[u] \/ late'[u] = late[u] + 1)
    BY <1>7 DEF TypeOK
  <2>2. QED BY <2>1
<1>9. Live(u)' = Live(u) \ {o}
  BY <1>1, <1>4 DEF Live
<1>10. CASE o.w.kind = "row" /\ o.w.uid = u /\ late'[u] = 0
  <2>1. dbRow'[u] = o.w.row /\ o.w.row # Absent
    <3>1. o.w \in Rows
      BY <1>5, <1>10 DEF Cools
    <3>2. o.w.row \in AccountStates
      BY <3>1 DEF Rows
    <3>3. QED BY <1>7, <1>10, <3>2, AbsentAssumption DEF Store, TypeOK
  <2>2. Stored(u)' = o.w.row
    BY <2>1 DEF Stored
  <2>3. o \in Live(u)
    <3>1. o.seq < applied[u] => late'[u] = late[u] + 1 /\ late[u] \in Nat
      BY <1>7, <1>10 DEF TypeOK
    <3>2. applied[u] \in Nat
      BY DEF TypeOK
    <3>3. o.seq >= applied[u]
      BY <1>5, <1>10, <3>1, <3>2
    <3>4. QED BY <1>4, <1>10, <3>3 DEF Live
  <2>4. \A p \in Live(u) : p = o \/ o.seq < p.seq
    BY <1>4 DEF Live
  <2>5. Live(u)' = {} => Latest(u, o)
    BY <1>5, <1>9, <2>3 DEF Latest
  <2>6. \A p : Latest(u, p)' => Latest(u, p)
    <3> SUFFICES ASSUME NEW p, Latest(u, p)'
                 PROVE  Latest(u, p)
      OBVIOUS
    <3>1. p \in Live(u) /\ p # o /\ \A q \in Live(u) : q # o => q.seq <= p.seq
      BY <1>9 DEF Latest
    <3>2. o.seq < p.seq /\ p.seq \in Nat
      <4>1. p \in Ops
        BY <3>1, PendingType DEF Live
      <4>2. QED BY <2>4, <3>1, <4>1 DEF Ops
    <3>3. QED BY <1>5, <3>1, <3>2 DEF Latest
  <2>7. RowTrue(u)'
    BY <1>1, <1>2, <1>6, <1>8, <1>10, <2>2, <2>5, <2>6 DEF RowTrue
  <2>8. GoneTrue(u)'
    BY <1>1, <1>2, <1>6, <1>8, <1>10, <2>3 DEF GoneTrue, FlagTrue
  <2>9. QED BY <2>7, <2>8
<1>11. CASE o.w.kind = "row" /\ o.w.uid = u /\ late'[u] # 0
  BY <1>11 DEF RowTrue, GoneTrue
<1>12. CASE ~(o.w.kind = "row" /\ o.w.uid = u)
  <2>1. dbRow'[u] = dbRow[u]
    <3>1. o.w.kind # "gone"
      BY <1>5 DEF Rows, Cools
    <3>2. QED BY <1>7, <1>12, <3>1 DEF Store, TypeOK
  <2>2. Live(u)' = Live(u)
    BY <1>9, <1>12 DEF Live
  <2>3. QED BY <1>1, <1>2, <1>6, <1>8, <2>1, <2>2, RowKept, GoneKept
<1>13. QED BY <1>10, <1>11, <1>12

LEMMA ProcessRow ==
  ASSUME TypeOK, TypeOK', Alone, DownIdle, RowInv, Process
  PROVE  RowInv'
<1>1. CASE Close
  <2>1. UNCHANGED <<acc, dbRow, late, lost, snap, todo, queue, worker, applied>>
    BY <1>1 DEF Close, mem, db, hist
  <2>2. /\ \A u : Owed(u)' <=> Owed(u)
        /\ \A u : Writing(u, "gone")' <=> Writing(u, "gone")
        /\ LoadedWhole <=> LoadedWhole'
    BY <2>1 DEF Owed, Writing, rest, read, LoadedWhole, Loaded, Drained
  <2>3. QED BY <2>1, <2>2, LiveSame, RowKept, GoneKept DEF RowInv, Whole
<1>2. CASE Exit \/ Crash
  <2>1. /\ UNCHANGED <<acc, dbRow, late>> /\ rest' = <<>>
        /\ queue' = <<>> /\ worker' = Idle
        /\ "fault" \notin lost' => rest = <<>> /\ Drained /\ lost' = lost
    BY <1>2, OnlyOne DEF Exit, Crash, Die, rest, MidHandler, Quiescent, mem, db
  <2>2. \A u : Live(u)' = {} /\ ~Owed(u)' /\ ~Writing(u, "gone")'
    BY <2>1 DEF Live, Pending, InHand, Queued, Owed, Writing
  <2>3. LoadedWhole'
    BY <2>1 DEF LoadedWhole, Loaded
  <2> SUFFICES ASSUME Whole', NEW u \in Uids
               PROVE  RowTrue(u)' /\ ("orphan" \notin lost' => GoneTrue(u)')
    BY <2>3 DEF RowInv
  <2>4. /\ rest = <<>> /\ Drained /\ lost' = lost
        /\ RowTrue(u) /\ ("orphan" \notin lost => GoneTrue(u))
    BY <2>1 DEF Whole, RowInv
  <2>5. Live(u) = {} /\ ~Owed(u) /\ ~Writing(u, "gone")
    BY <2>4 DEF Live, Pending, InHand, Queued, Owed, Writing, Drained
  <2>6. QED BY <2>1, <2>2, <2>4, <2>5, RowKept, GoneKept
<1>3. CASE Boot
  <2>1. rest' = <<>> /\ queue' = <<>> /\ worker' = Idle
    BY <1>3 DEF Boot, DownIdle, Drained, rest
  <2>2. \A u : Live(u)' = {} /\ ~Owed(u)'
    BY <2>1 DEF Live, Pending, InHand, Queued, Owed
  <2>3. LoadedWhole'
    BY <2>1 DEF LoadedWhole, Loaded
  <2> SUFFICES ASSUME Whole', NEW u \in Uids
               PROVE  RowTrue(u)' /\ ("orphan" \notin lost' => GoneTrue(u)')
    BY <2>3 DEF RowInv
  <2>4. /\ acc' = Members(dbRow, OnDisk) /\ dbRow' = dbRow
        /\ "orphan" \notin lost' => ~(dbRow[u] # Absent /\ acc'[u] = Absent)
    BY <1>3 DEF Boot, Whole, db
  <2>5. acc'[u] # Absent => acc'[u] = Stored(u)'
    BY <2>4 DEF Members, Stored
  <2>6. QED BY <2>2, <2>4, <2>5 DEF RowTrue, GoneTrue, Latest, Agrees
<1>4. QED BY <1>1, <1>2, <1>3 DEF Process

LEMMA RowNext ==
  ASSUME FilesInv, FilesInv', Alone, RowInv, [Next]_vars
  PROVE  RowInv'
<1>0. /\ TypeOK /\ TypeOK' /\ DownIdle /\ RestOK /\ RestOK' /\ MemberInv
      /\ OrderInv /\ FlagInv
  BY DEF FilesInv, SerialInv
<1>1. ASSUME UNCHANGED <<acc, dbRow, late, lost, snap, todo, queue, worker, applied>>
      PROVE  RowInv'
  <2>1. /\ \A u : Owed(u)' <=> Owed(u)
        /\ \A u : Writing(u, "gone")' <=> Writing(u, "gone")
        /\ LoadedWhole <=> LoadedWhole'
    BY <1>1 DEF Owed, Writing, rest, read, LoadedWhole, Loaded, Drained
  <2>2. QED BY <1>1, <2>1, LiveSame, RowKept, GoneKept DEF RowInv, Whole
<1>2. CASE Files
  BY <1>1, <1>2 DEF Files, Login, Import, mem, db
<1>3. CASE UNCHANGED vars
  BY <1>1, <1>3 DEF vars, mem, db, hist
<1>4. CASE \E t \in Threads : Step(t)
  BY <1>0, <1>4, NumberRow, SendRow, MarkRow, WriteRow, ForgetRow, AnswerRow,
     LoadRow DEF Step
<1>5. CASE Persister
  BY <1>0, <1>5, JudgeRow, SaveRow DEF Persister
<1>6. QED
  BY <1>0, <1>2, <1>3, <1>4, <1>5, HandlersRow, ProcessRow DEF Next

LEMMA RowInit == Alone /\ Init => RowInv
<1> SUFFICES ASSUME Alone, Init PROVE RowInv
  OBVIOUS
<1>1. /\ rest = <<>> /\ queue = <<>> /\ worker = Idle
      /\ acc = Members(dbRow, OnDisk) /\ \A u \in Uids : dbRow[u] = Absent
  BY OnlyOne DEF Init, rest
<1>2. Pending = {}
  BY <1>1 DEF Pending, InHand, Queued
<1>3. \A u \in Uids : Live(u) = {} /\ (acc[u] = Absent \/ acc[u] = Stored(u))
  BY <1>1, <1>2 DEF Live, Members, Stored
<1>4. QED
  BY <1>1, <1>3 DEF RowInv, LoadedWhole, Loaded, RowTrue, GoneTrue, Latest, Agrees

(* Between handlers, when nothing was dropped, cut short or read too early,  *)
(* there is no row of an account that was deleted (DeleteAccount numbers and *)
(* marks its delete, so that a write in the queue cannot bring it back):     *)
(* when handlers run one after the other, through any restarts.              *)
THEOREM NoRowReturns ==
  ASSUME Alone, CurrentArchived
  PROVE  Spec => []DeletedRowStaysGone
<1>1. Init => FilesInv /\ RowInv
  BY FilesInit, RowInit
<1>2. FilesInv /\ RowInv /\ [Next]_vars => (FilesInv /\ RowInv)'
  BY FilesNext, RowNext
<1>3. FilesInv /\ RowInv => DeletedRowStaysGone
  <2> SUFFICES ASSUME RowInv, Quiescent, lost = {}, NEW u \in Uids,
                      acc[u] = Absent, late[u] = 0
               PROVE  dbRow[u] = Absent
    BY DEF DeletedRowStaysGone
  <2>1. ~Writing(u, "gone")
    BY OnlyOne DEF Quiescent, MidHandler, Writing, rest
  <2>2. QED BY <2>1 DEF RowInv, Whole, GoneTrue
<1>4. QED BY <1>1, <1>2, <1>3, PTL DEF Spec

-----------------------------------------------------------------------------
(***************************************************************************)
(* The cooldowns.  Cooldowns carry numbers too, though the persister does  *)
(* not judge them: for a pair that cools in memory the last write on its   *)
(* way says so, or none is on its way and the database says so.            *)
(***************************************************************************)
Colds(u, m) == {o \in Pending : o.w = Cool("cool", u, m)}
Warms(u, m) == {o \in Pending : o.w = Cool("uncool", u, m)}

\* The handler under way has still to send it.
CoolOwed(u, m) ==
  /\ rest # <<>> /\ Head(rest).do \in {"persist", "send"}
  /\ Head(rest).w = Cool("cool", u, m)

Cooling(u, m) ==
  \/ \E o \in Colds(u, m) : \A p \in Warms(u, m) : p.seq < o.seq
  \/ <<u, m>> \in dbCool /\ Warms(u, m) = {}

CoolTrue(u, m) == <<u, m>> \in cool /\ ~CoolOwed(u, m) => Cooling(u, m)

CoolInv == Sure => \A u \in Uids, m \in Models : CoolTrue(u, m)

LEMMA CoolNames ==
  ASSUME NEW u, NEW m, NEW v, NEW n, NEW k, NEW j
  PROVE  /\ Cool(k, u, m) = Cool(j, v, n) => k = j /\ u = v /\ m = n
         /\ Cool(k, u, m).kind = k /\ Cool(k, u, m).uid = u
         /\ Cool(k, u, m).model = m
<1>1. /\ Cool(k, u, m).kind = k /\ Cool(k, u, m).uid = u
      /\ Cool(k, u, m).model = m
  BY DEF Cool
<1>2. /\ Cool(j, v, n).kind = j /\ Cool(j, v, n).uid = v
      /\ Cool(j, v, n).model = n
  BY DEF Cool
<1>3. QED BY <1>1, <1>2

\* The same cooldowns on their way, and those in the database stay.
LEMMA CoolingKept ==
  ASSUME NEW u, NEW m, Cooling(u, m),
         Colds(u, m)' = Colds(u, m), Warms(u, m)' = Warms(u, m),
         <<u, m>> \in dbCool => <<u, m>> \in dbCool'
  PROVE  Cooling(u, m)'
  BY DEF Cooling

LEMMA SamePending ==
  ASSUME Pending' = Pending, NEW u, NEW m
  PROVE  Colds(u, m)' = Colds(u, m) /\ Warms(u, m)' = Warms(u, m)
  BY DEF Colds, Warms

\* A step that sends and stores nothing.
LEMMA CoolKept ==
  ASSUME CoolInv, Pending' = Pending, UNCHANGED dbCool, Sure' => Sure,
         \A u \in Uids, m \in Models :
           <<u, m>> \in cool' /\ ~CoolOwed(u, m)' =>
             <<u, m>> \in cool /\ ~CoolOwed(u, m)
  PROVE  CoolInv'
<1> SUFFICES ASSUME Sure', NEW u \in Uids, NEW m \in Models,
                    <<u, m>> \in cool', ~CoolOwed(u, m)'
             PROVE  Cooling(u, m)'
  BY DEF CoolInv, CoolTrue
<1>1. Cooling(u, m)
  BY DEF CoolInv, CoolTrue
<1>2. QED BY <1>1, SamePending, CoolingKept

LEMMA HandlersCool ==
  ASSUME TypeOK, Alone, CoolInv, Handlers
  PROVE  CoolInv'
<1>1. /\ UNCHANGED <<dbCool, queue, worker, lost>> /\ rest = <<>>
  BY HandlersServe, OnlyOne DEF Apart, rest, db
<1>2. ASSUME NEW t \in Threads, NEW u \in Uids, NEW m \in Models,
             NoteSuccess(t, u, m) \/ ClearModelCool(t, u, m)
      PROVE  cool' \subseteq cool
  BY <1>2 DEF NoteSuccess, ClearModelCool
<1>3. ASSUME NEW t \in Threads, NEW u \in Uids, NEW m \in Models,
             NEW kind \in PunishingKinds, NoteError(t, u, m, kind)
      PROVE  \A v \in Uids, n \in Models :
               <<v, n>> \in cool' => <<v, n>> \in cool \/ CoolOwed(v, n)'
  <2>1. CASE kind # "rate"
    BY <1>3, <2>1 DEF NoteError
  <2>2. CASE kind = "rate"
    <3> PICK c : c = [do |-> "persist", w |-> Cool("cool", u, m), seq |-> 0]
      OBVIOUS
    <3> PICK r : r = [do |-> "persist", w |-> Row(u, acc'[u]), seq |-> 0]
      OBVIOUS
    <3>1. rest' = <<c>> \o <<r>>
      BY <1>3, <2>2, Started DEF NoteError, Persist
    <3>2. Row(u, acc'[u]) \in Rows /\ Cool("cool", u, m) \in Cools
      <4>1. acc[u] \in AccountStates /\ acc'[u] = AfterError(acc[u], kind)
        BY <1>3 DEF TypeOK, NoteError
      <4>2. QED BY <4>1, EventTypes, RowType DEF Cool, Cools
    <3>3. c \in Steps /\ <<r>> \in Seq(Steps)
      BY <3>2, SendsSteps, StepSeq DEF Sends
    <3>4. rest' # <<>> /\ Head(rest') = c
      BY <3>1, <3>3, Joined
    <3>5. CoolOwed(u, m)'
      BY <3>4 DEF CoolOwed, Cool
    <3>6. cool' = cool \cup {<<u, m>>}
      BY <1>3, <2>2 DEF NoteError
    <3>7. QED BY <3>5, <3>6
  <2>3. QED BY <2>1, <2>2
<1>4. ASSUME NEW t \in Threads,
             \/ ReloadMembers(t) \/ Logout(t)
             \/ \E u \in Uids : \/ Probe(t, u) \/ Activate(t, u) \/ RemoveProfile(t, u)
                               \/ \E off \in BOOLEAN : SetManualDisabled(t, u, off)
      PROVE  cool' = cool
  BY <1>4 DEF ReloadMembers, Logout, Probe, Activate, RemoveProfile,
     SetManualDisabled, mem
<1>5. \A v \in Uids, n \in Models :
        <<v, n>> \in cool' => <<v, n>> \in cool \/ CoolOwed(v, n)'
  BY <1>2, <1>3, <1>4 DEF Handlers
<1>6. \A v \in Uids, n \in Models : ~CoolOwed(v, n)
  BY <1>1 DEF CoolOwed
<1>7. Sure' => Sure
  BY <1>1 DEF Sure
<1>8. QED BY <1>1, <1>5, <1>6, <1>7, Still, CoolKept

-----------------------------------------------------------------------------
(* The steps of a handler. *)
LEMMA NumberCool ==
  ASSUME TypeOK, TypeOK', Alone, RestOK, CoolInv, NEW t \in Threads, Number(t)
  PROVE  CoolInv'
<1> PICK h : h = Head(rest)
  OBVIOUS
<1> PICK s : s = Head(rest')
  OBVIOUS
<1>1. UNCHANGED <<cool, dbCool, lost, queue, worker>>
  BY DEF Number, mem, db, hist
<1>2. /\ rest # <<>> /\ rest' # <<>> /\ s.w = h.w /\ h.do \in {"persist", "sync"}
      /\ h.do = "persist" => s.do = "send"
  <2>1. /\ rest # <<>> /\ rest' # <<>> /\ h.do \in {"persist", "sync"}
        /\ s = [do |-> IF h.do = "persist" THEN "send" ELSE "mark",
                w |-> h.w, seq |-> seq + 1]
    BY StepGoesOn
  <2>2. QED BY <2>1
<1>3. \A u, m : CoolOwed(u, m) => CoolOwed(u, m)'
  BY <1>2 DEF CoolOwed
<1>4. QED BY <1>1, <1>3, Still, CoolKept DEF Sure

LEMMA SendCool ==
  ASSUME TypeOK, TypeOK', Alone, RestOK, CoolInv, OrderInv, NEW t \in Threads, Send(t)
  PROVE  CoolInv'
<1> PICK h : h = Head(rest)
  OBVIOUS
<1> PICK o : o = [w |-> h.w, seq |-> h.seq]
  OBVIOUS
<1>1. /\ UNCHANGED <<cool, dbCool, worker>>
      /\ rest # <<>> /\ h.do = "send" /\ h \in Steps /\ h = Head(todo[t])
  BY OnlyOne, Shapes DEF Send, mem, db, rest
<1>2. PICK v \in Uids : Noting(v, h, Tail(rest))
  BY Shapes DEF Send
<1>3. o \in Ops /\ \A p \in Pending : p.seq < o.seq
  BY <1>1, StepFields DEF OrderInv, Newest, Numbered, Ops
<1>4. "fault" \in lost' \/ (queue' = Append(queue, o) /\ UNCHANGED lost)
  BY <1>1 DEF Send
<1> SUFFICES ASSUME queue' = Append(queue, o), UNCHANGED lost, Sure',
                    NEW u \in Uids, NEW m \in Models, <<u, m>> \in cool
             PROVE  Cooling(u, m)'
  BY <1>1, <1>4 DEF CoolInv, CoolTrue, Sure
<1>5. Pending' = Pending \cup {o}
  BY <1>1, <1>3, Appended DEF OrderInv
<1>6. CASE o.w = Cool("cool", u, m)
  <2>1. o \in Colds(u, m)'
    BY <1>5, <1>6 DEF Colds
  <2>2. Cool("cool", u, m) # Cool("uncool", u, m)
    BY CoolNames
  <2>3. \A p \in Warms(u, m)' : p.seq < o.seq
    BY <1>3, <1>5, <1>6, <2>2 DEF Warms
  <2>4. QED BY <2>1, <2>3 DEF Cooling
<1>7. CASE o.w # Cool("cool", u, m)
  <2>1. o.w # Cool("uncool", u, m)
    <3>1. \/ h.w = RowNow(v)
          \/ \E n \in Models : h.w = CoolNow(v, n)
      BY <1>2 DEF Noting, Sends
    <3>2. RowNow(v) # Cool("uncool", u, m)
      <4>1. RowNow(v).kind = "row"
        BY DEF RowNow, Row
      <4>2. QED BY <4>1, CoolNames
    <3>3. \A n \in Models : CoolNow(v, n) # Cool("uncool", u, m)
      BY CoolNames DEF CoolNow
    <3>4. QED BY <3>1, <3>2, <3>3
  <2>2. Colds(u, m)' = Colds(u, m) /\ Warms(u, m)' = Warms(u, m)
    BY <1>5, <1>7, <2>1 DEF Colds, Warms
  <2>3. Cooling(u, m)
    BY <1>1, <1>7 DEF CoolInv, CoolTrue, CoolOwed, Sure
  <2>4. QED BY <1>1, <2>2, <2>3, CoolingKept
<1>8. QED BY <1>6, <1>7

LEMMA WriteCool ==
  ASSUME TypeOK, TypeOK', Alone, RestOK, CoolInv, NEW t \in Threads, WriteDb(t)
  PROVE  CoolInv'
<1> PICK h : h = Head(rest)
  OBVIOUS
<1> PICK r : r = Tail(rest)
  OBVIOUS
<1>1. /\ UNCHANGED <<cool, queue, worker>> /\ h = Head(todo[t])
  BY OnlyOne DEF WriteDb, mem, rest
<1>2. h.do = "write" /\ rest # <<>>
  BY Shapes DEF WriteDb
<1>3. PICK v \in Uids : \/ Clicking(v, h, r) \/ Erasing(v, h, r)
                       \/ Clearing(v, h, r) \/ Wiping(v, h, r)
  BY Shapes DEF WriteDb
<1>4. "fault" \in lost' \/ (Store(h.w) /\ UNCHANGED lost)
  BY <1>1 DEF WriteDb, StoreFails
<1> SUFFICES ASSUME Store(h.w), UNCHANGED lost, Sure',
                    NEW u \in Uids, NEW m \in Models, <<u, m>> \in cool
             PROVE  Cooling(u, m)'
  BY <1>1, <1>4 DEF CoolInv, CoolTrue, Sure
<1>5. Cooling(u, m)
  BY <1>2 DEF CoolInv, CoolTrue, CoolOwed, Sure
<1>6. <<u, m>> \in dbCool => <<u, m>> \in dbCool'
  <2>1. CASE Clicking(v, h, r) \/ Erasing(v, h, r)
    <3>1. h.w = Row(v, acc[v]) \/ h.w = Gone("gone", v)
      BY <2>1, Written
    <3>2. h.w.kind \in {"row", "gone"}
      BY <3>1 DEF Row, Gone
    <3>3. QED BY <3>2 DEF Store
  <2>2. CASE Clearing(v, h, r)
    <3>1. PICK n \in Models : h.w = Cool("uncool", v, n) /\ <<v, n>> \notin cool
      BY <2>2, Written
    <3>2. h.w.kind = "uncool" /\ h.w.uid = v /\ h.w.model = n
      BY <3>1, CoolNames
    <3>3. dbCool' = dbCool \ {<<v, n>>}
      BY <3>2 DEF Store
    <3>4. QED BY <3>1, <3>3
  <2>3. CASE Wiping(v, h, r)
    <3>0. h.w = Gone("goneCools", v) /\ Bare(v)
      BY <2>3, Written
    <3>1. h.w.kind = "goneCools" /\ h.w.uid = v
      BY <3>0 DEF Gone
    <3>2. dbCool' = {c \in dbCool : c[1] # v}
      BY <3>1 DEF Store
    <3>3. u # v
      BY <3>0 DEF Bare
    <3>4. QED BY <3>2, <3>3
  <2>4. QED BY <1>3, <2>1, <2>2, <2>3
<1>7. QED BY <1>1, <1>5, <1>6, Still, SamePending, CoolingKept

\* The other steps neither send nor store a cooldown.
LEMMA QuietCool ==
  ASSUME TypeOK, TypeOK', Alone, RestOK, CoolInv, NEW t \in Threads,
         \/ Mark(t) \/ Forget(t) \/ Answer(t) \/ Record(t)
         \/ ReadRows(t) \/ Scan(t) \/ Swap(t)
  PROVE  CoolInv'
<1>1. /\ UNCHANGED <<dbCool, queue, worker>> /\ cool' \subseteq cool
      /\ Sure' => Sure
  BY DEF Mark, Forget, Answer, Record, ReadRows, Scan, Swap, mem, db, hist, Sure
<1>2. Head(rest).do \notin {"persist", "send"}
  <2>1. PICK d \in {"mark", "forget", "answer", "record", "rows", "scan", "swap"} : At(t, d)
    BY DEF Mark, Forget, Answer, Record, ReadRows, Scan, Swap
  <2>2. Head(rest).do = d
    BY <2>1, Moved
  <2>3. QED BY <2>2
<1>3. \A u, m : ~CoolOwed(u, m)
  BY <1>2 DEF CoolOwed
<1>4. QED BY <1>1, <1>3, Still, CoolKept

-----------------------------------------------------------------------------
(* The persister and the process. *)
LEMMA TakeCool ==
  ASSUME TypeOK, CoolInv, OrderInv, Take \/ Judge
  PROVE  CoolInv'
<1> PICK o : o = worker.op
  OBVIOUS
<1>1. UNCHANGED <<cool, dbCool, todo, lost>>
  BY DEF Take, Judge, mem, db, hist
<1>2. Pending' = Pending \/ (Pending' = Pending \ {o} /\ o.w.kind = "row")
  <2>1. CASE Take
    BY <2>1, Taken DEF OrderInv
  <2>2. CASE Judge
    <3>1. worker' # Idle \/ o.w.kind = "row"
      <4>1. worker # Idle /\ worker \in [stage: {"judge", "save"}, op: Ops]
        BY <2>2 DEF Judge, Idle, TypeOK
      <4>2. o.w.kind = "row" \/ worker' = [worker EXCEPT !.stage = "save"]
        BY <2>2 DEF Judge
      <4>3. QED BY <4>1, <4>2 DEF Idle
    <3>2. QED BY <2>2, <3>1, InHands DEF OrderInv
  <2>3. QED BY <2>1, <2>2
<1> SUFFICES ASSUME Sure', NEW u \in Uids, NEW m \in Models,
                    <<u, m>> \in cool, ~CoolOwed(u, m)
             PROVE  Cooling(u, m)'
  BY <1>1 DEF CoolInv, CoolTrue, CoolOwed, rest
<1>3. Cooling(u, m)
  BY <1>1 DEF CoolInv, CoolTrue, Sure
<1>4. Colds(u, m)' = Colds(u, m) /\ Warms(u, m)' = Warms(u, m)
  <2>1. Cool("cool", u, m).kind # "row" /\ Cool("uncool", u, m).kind # "row"
    BY CoolNames
  <2>2. QED BY <1>2, <2>1 DEF Colds, Warms
<1>5. QED BY <1>1, <1>3, <1>4, CoolingKept

LEMMA SaveCool ==
  ASSUME TypeOK, CoolInv, OrderInv, Save
  PROVE  CoolInv'
<1> PICK o : o = worker.op
  OBVIOUS
<1>1. UNCHANGED <<cool, todo>> /\ ("fault" \in lost' \/ (Store(o.w) /\ UNCHANGED lost))
  BY DEF Save, StoreFails, mem
<1>2. /\ o \in Pending /\ o \in Ops /\ Pending' = Pending \ {o}
      /\ \A p \in Pending : p = o \/ o.seq < p.seq
  <2>1. worker' = Idle /\ worker # Idle
    BY InHands DEF Save, OrderInv
  <2>2. Pending' = Pending \ {o}
    BY <2>1, InHands DEF OrderInv
  <2>3. QED BY <2>1, <2>2, PendingType DEF OrderInv, Sorted, Pending, InHand
<1>3. \A p \in Pending : p.seq \in Nat
  BY PendingType DEF Ops
<1> SUFFICES ASSUME Store(o.w), UNCHANGED lost, Sure', NEW u \in Uids, NEW m \in Models,
                    <<u, m>> \in cool, ~CoolOwed(u, m)
             PROVE  Cooling(u, m)'
  BY <1>1 DEF CoolInv, CoolTrue, CoolOwed, rest, Sure
<1>4. Cooling(u, m)
  BY DEF CoolInv, CoolTrue, Sure
<1>5. Cool("cool", u, m) # Cool("uncool", u, m)
  BY CoolNames
<1>6. /\ Colds(u, m)' = Colds(u, m) \ {o}
      /\ Warms(u, m)' = Warms(u, m) \ {o}
  BY <1>2 DEF Colds, Warms
<1>7. CASE o.w = Cool("cool", u, m)
  <2>1. <<u, m>> \in dbCool'
    <3>1. o.w.kind = "cool" /\ o.w.uid = u /\ o.w.model = m
      BY <1>7, CoolNames
    <3>2. QED BY <3>1 DEF Store
  <2>2. CASE Warms(u, m) = {}
    BY <1>6, <2>1, <2>2 DEF Cooling
  <2>3. CASE Warms(u, m) # {}
    <3>1. PICK c \in Colds(u, m) : \A p \in Warms(u, m) : p.seq < c.seq
      BY <1>4, <2>3 DEF Cooling
    <3>2. PICK q \in Warms(u, m) : TRUE
      BY <2>3
    <3>3. q \in Pending /\ q # o
      BY <1>5, <1>7, <3>2 DEF Warms
    <3>4. o.seq < q.seq /\ q.seq < c.seq /\ o.seq \in Nat /\ q.seq \in Nat /\ c.seq \in Nat
      BY <1>2, <1>3, <3>1, <3>2, <3>3 DEF Colds
    <3>5. c # o
      BY <3>4
    <3>6. QED BY <1>6, <3>1, <3>5 DEF Cooling
  <2>4. QED BY <2>2, <2>3
<1>8. CASE o.w = Cool("uncool", u, m)
  <2>1. o \in Warms(u, m) /\ o \notin Colds(u, m)
    BY <1>2, <1>5, <1>8 DEF Warms, Colds
  <2>2. QED BY <1>4, <1>6, <2>1 DEF Cooling
<1>9. CASE o.w # Cool("cool", u, m) /\ o.w # Cool("uncool", u, m)
  <2>1. Colds(u, m)' = Colds(u, m) /\ Warms(u, m)' = Warms(u, m)
    BY <1>6, <1>9 DEF Colds, Warms
  <2>2. <<u, m>> \in dbCool => <<u, m>> \in dbCool'
    <3>1. CASE o.w \in Rows
      <4>1. o.w.kind = "row"
        BY <3>1 DEF Rows
      <4>2. QED BY <4>1 DEF Store
    <3>2. CASE o.w \in Cools
      <4>1. o.w = Cool(o.w.kind, o.w.uid, o.w.model) /\ o.w.kind \in {"cool", "uncool"}
        BY <3>2 DEF Cools, Cool
      <4>2. dbCool' = dbCool \cup {<<o.w.uid, o.w.model>>}
              \/ (o.w.kind = "uncool" /\ dbCool' = dbCool \ {<<o.w.uid, o.w.model>>})
        BY <4>1 DEF Store
      <4>3. o.w.kind = "uncool" => <<o.w.uid, o.w.model>> # <<u, m>>
        BY <1>9, <4>1
      <4>4. QED BY <4>2, <4>3
    <3>3. QED BY <1>2, <3>1, <3>2 DEF Ops
  <2>3. QED BY <1>4, <2>1, <2>2, CoolingKept
<1>10. QED BY <1>7, <1>8, <1>9

LEMMA ProcessCool ==
  ASSUME TypeOK, Alone, DownIdle, CoolInv, Process
  PROVE  CoolInv'
<1>1. CASE Close
  <2>1. UNCHANGED <<cool, dbCool, lost, todo, queue, worker>>
    BY <1>1 DEF Close, mem, db, hist
  <2>2. QED BY <2>1, Still, CoolKept DEF CoolOwed, rest, Sure
<1>2. CASE Exit \/ Crash
  <2>1. /\ UNCHANGED <<cool, dbCool>> /\ queue' = <<>> /\ worker' = Idle
        /\ "fault" \notin lost' => rest = <<>> /\ Drained /\ Sure
    BY <1>2, OnlyOne DEF Exit, Crash, Die, rest, MidHandler, Quiescent, mem, db, Sure
  <2>2. Pending' = {}
    BY <2>1 DEF Pending, InHand, Queued
  <2> SUFFICES ASSUME Sure', NEW u \in Uids, NEW m \in Models, <<u, m>> \in cool
               PROVE  Cooling(u, m)'
    BY <2>1 DEF CoolInv, CoolTrue
  <2>3. rest = <<>> /\ Drained /\ Sure
    BY <2>1 DEF Sure
  <2>4. Cooling(u, m)
    BY <2>3 DEF CoolInv, CoolTrue, CoolOwed
  <2>5. Pending = {}
    BY <2>3 DEF Drained, Pending, InHand, Queued
  <2>6. QED BY <2>1, <2>2, <2>4, <2>5 DEF Cooling, Colds, Warms
<1>3. CASE Boot
  <2>1. queue' = <<>> /\ worker' = Idle
    BY <1>3 DEF Boot, DownIdle, Drained
  <2>2. Pending' = {}
    BY <2>1 DEF Pending, InHand, Queued
  <2>3. Sure' => cool' \subseteq dbCool'
    BY <1>3 DEF Boot, Sure, db
  <2>4. QED BY <2>2, <2>3 DEF CoolInv, CoolTrue, Cooling, Warms
<1>4. QED BY <1>1, <1>2, <1>3 DEF Process

LEMMA CoolNext ==
  ASSUME FilesInv, FilesInv', Alone, CoolInv, [Next]_vars
  PROVE  CoolInv'
<1>0. /\ TypeOK /\ TypeOK' /\ DownIdle /\ RestOK /\ RestOK' /\ OrderInv
  BY DEF FilesInv, SerialInv
<1>1. ASSUME UNCHANGED <<cool, dbCool, lost, todo, queue, worker>>
      PROVE  CoolInv'
  BY <1>1, Still, CoolKept DEF CoolOwed, rest, Sure
<1>2. CASE Files
  BY <1>1, <1>2 DEF Files, Login, Import, mem, db
<1>3. CASE UNCHANGED vars
  BY <1>1, <1>3 DEF vars, mem, db, hist
<1>4. CASE \E t \in Threads : Step(t)
  BY <1>0, <1>4, NumberCool, SendCool, WriteCool, QuietCool DEF Step
<1>5. QED
  BY <1>0, <1>2, <1>3, <1>4, HandlersCool, TakeCool, SaveCool, ProcessCool
     DEF Next, Persister

LEMMA CoolInit == Init => CoolInv
  BY DEF Init, CoolInv, CoolTrue

(* Between handlers a restart finds the disabled flags and the cooldowns     *)
(* memory has, for every account whose direct write the persister did not    *)
(* overtake (Close, persistLoop, SetManualDisabled, ReloadMembers): when     *)
(* handlers run one after the other and nothing has gone amiss since the     *)
(* start.                                                                    *)
THEOREM RestartFindsState ==
  ASSUME Alone, CurrentArchived
  PROVE  Spec => []DurableUnlessOvertaken
<1>1. Init => FilesInv /\ RowInv /\ CoolInv
  BY FilesInit, RowInit, CoolInit
<1>2. FilesInv /\ RowInv /\ CoolInv /\ [Next]_vars => (FilesInv /\ RowInv /\ CoolInv)'
  BY FilesNext, RowNext, CoolNext
<1>3. FilesInv /\ RowInv /\ CoolInv => DurableUnlessOvertaken
  <2> SUFFICES ASSUME FilesInv, RowInv, CoolInv, Quiescent, lost \subseteq {"orphan"}
               PROVE  /\ \A u \in Uids : acc[u] # Absent /\ late[u] = 0 =>
                           Stored(u).manual = acc[u].manual /\ Stored(u).auto = acc[u].auto
                      /\ phase = "up" => cool \subseteq dbCool
    BY DEF DurableUnlessOvertaken
  <2>1. Whole /\ Sure
    BY DEF Whole, Sure
  <2>2. rest = <<>> /\ Pending = {}
    BY OnlyOne DEF Quiescent, MidHandler, rest, Drained, Pending, InHand, Queued
  <2>3. \A u \in Uids : Live(u) = {} /\ ~Owed(u)
    BY <2>2 DEF Live, Owed
  <2>4. \A u \in Uids : acc[u] # Absent /\ late[u] = 0 => Agrees(Stored(u), acc[u])
    BY <2>1, <2>3 DEF RowInv, RowTrue
  <2>5. \A u \in Uids, m \in Models : <<u, m>> \in cool => <<u, m>> \in dbCool
    BY <2>1, <2>2 DEF CoolInv, CoolTrue, CoolOwed, Cooling, Colds
  <2>6. cool \subseteq Uids \X Models
    BY DEF FilesInv, SerialInv, TypeOK
  <2>7. QED BY <2>4, <2>5, <2>6 DEF Agrees
<1>4. QED BY <1>1, <1>2, <1>3, PTL DEF Spec
=============================================================================
