------------------------- MODULE PooledChat_proofs -------------------------
(***************************************************************************)
(* Proofs about the pooled chat: its types, the bound of the table of      *)
(* bindings, and that it implements ChatPromise, for any number of         *)
(* requests, accounts, sessions and models and any limits.                 *)
(***************************************************************************)
EXTENDS PooledChat, AccountState_proofs, FiniteSetTheorems

(***************************************************************************)
(* What makes the promise inductive: how far a request has got is visible  *)
(* in tried and attempt.  While it chooses an account it has tried exactly *)
(* attempt of them, afterwards one more, and it is on its way to another   *)
(* choice only after a free refusal with a retry left.                     *)
(***************************************************************************)
Choosing == {"pick", "look", "touch", "assign"}

Towards(q, pc) == q.pc = pc \/ q.next = pc

Counted(q) ==
  /\ IsFiniteSet(q.tried) /\ q.attempt <= MaxRetry
  /\ q.pc \in Choosing => Cardinality(q.tried) = q.attempt
  /\ q.pc \notin Choosing \cup {"idle"} => Cardinality(q.tried) = q.attempt + 1

Placed(q) ==
  /\ q.cand \cap q.tried = {}
  /\ q.pc = "touch" => q.uid \in q.cand
  /\ q.pc \in {"token", "wait", "bind", "stream", "drop", "unbind"} =>
       q.uid \in q.tried
  /\ q.pc \in {"look", "touch", "assign"} => q.sess # NoSession
  /\ q.pc = "drop" <=> q.next # "idle"
  /\ q.pc = "drop" => q.next \in {"unbind", "fail", "stream"}

Judged(q) ==
  /\ q.pc \in Choosing \cup {"token", "wait"} => q.lastStatus # "rejected"
  /\ Towards(q, "unbind") => q.attempt < MaxRetry /\ q.lastStatus = "refused"
  /\ Towards(q, "fail") => q.lastStatus # "none"
  /\ q.pc = "idle" => q.tried = {} /\ q.lastStatus = "none"

ChatTypes ==
  /\ req \in [Requests -> Locals]
  /\ reply \in [Requests -> {"answered", "upstream", "exhausted", "unavailable"}]

Progress(q) == Counted(q) /\ Placed(q) /\ Judged(q)

ChatInv == ChatTypes /\ \A r \in Requests : Progress(req[r])

\* Only request r moves.
Alone(r) == \A s \in Requests \ {r} : req'[s] = req[s] /\ reply'[s] = reply[s]

-----------------------------------------------------------------------------
(* The states of a request. *)

LEMMA Waiting ==
  NoRequest \in Locals /\ Progress(NoRequest) /\ NoRequest.pc = "idle"
<1>1. \E m \in Models : NoRequest = [NewRequest(NoSession, m) EXCEPT !.pc = "idle"]
  BY ChatAssumption DEF NoRequest
<1>2. PICK m \in Models : NoRequest = [NewRequest(NoSession, m) EXCEPT !.pc = "idle"]
  BY <1>1
<1>3. NoRequest \in Locals /\ NoRequest.pc = "idle"
  BY <1>2 DEF NewRequest, Locals, Steps, Statuses, FrameLimit
<1>4. /\ NoRequest.tried = {} /\ NoRequest.attempt = 0 /\ NoRequest.cand = {}
      /\ NoRequest.lastStatus = "none" /\ NoRequest.next = "idle"
  BY <1>2 DEF NewRequest
<1>5. Counted(NoRequest)
  BY <1>3, <1>4, FS_EmptySet, ChatAssumption DEF Counted, Choosing
<1>6. QED BY <1>3, <1>4, <1>5 DEF Progress, Placed, Judged, Towards, Choosing

LEMMA Starting ==
  ASSUME NEW s \in Sessions \cup {NoSession}, NEW m \in Models
  PROVE  NewRequest(s, m) \in Locals /\ Progress(NewRequest(s, m))
<1>1. NewRequest(s, m) \in Locals
  BY DEF NewRequest, Locals, Steps, Statuses, FrameLimit
<1>2. Counted(NewRequest(s, m))
  BY FS_EmptySet, ChatAssumption DEF NewRequest, Counted, Choosing
<1>3. QED
  BY <1>1, <1>2 DEF NewRequest, Progress, Placed, Judged, Towards, Choosing

LEMMA ChosenOne ==
  ASSUME ChatInv, NEW r \in Requests, NEW u \in Uids, Chosen(r, u),
         req[r].pc \in Choosing, u \notin req[r].tried
  PROVE  /\ req'[r] \in Locals /\ Progress(req'[r])
         /\ req' \in [Requests -> Locals]
         /\ \A s \in Requests \ {r} : req'[s] = req[s]
         /\ req'[r].pc = "token" /\ req'[r].lastStatus = req[r].lastStatus
         /\ req'[r].tried \ {req'[r].uid} = req[r].tried /\ req'[r].next = "idle"
<1> DEFINE q == req[r]
           n == [q EXCEPT !.pc = "token", !.uid = u, !.cand = {},
                          !.tried = @ \cup {u}]
<1>1. req' = [req EXCEPT ![r] = n] /\ q \in Locals /\ Progress(q)
  BY DEF Chosen, ChatInv, ChatTypes
<1>2. n \in Locals
  BY <1>1 DEF Locals, Steps
<1>3. /\ n.tried = q.tried \cup {u} /\ n.attempt = q.attempt /\ n.pc = "token"
      /\ n.lastStatus = q.lastStatus /\ n.next = q.next /\ n.cand = {} /\ n.uid = u
  BY <1>1 DEF Locals
<1>4. IsFiniteSet(n.tried) /\ Cardinality(n.tried) = n.attempt + 1
  <2>1. IsFiniteSet(q.tried) /\ Cardinality(q.tried) = q.attempt
    BY <1>1 DEF Progress, Counted
  <2>2. /\ IsFiniteSet(q.tried \cup {u})
        /\ Cardinality(q.tried \cup {u}) = Cardinality(q.tried) + 1
    <3>1. u \notin q.tried
      OBVIOUS
    <3> HIDE DEF q
    <3>2. QED BY <2>1, <3>1, FS_AddElement
  <2>3. QED BY <1>3, <2>1, <2>2
<1>5. Counted(n)
  BY <1>1, <1>3, <1>4 DEF Progress, Counted, Choosing
<1>6. q.next = "idle"
  BY <1>1 DEF Progress, Placed, Choosing
<1>7. Placed(n) /\ Judged(n)
  BY <1>1, <1>3, <1>6 DEF Progress, Placed, Judged, Towards, Choosing
<1>8. req'[r] = n
  BY <1>1 DEF ChatInv, ChatTypes
<1>9. QED BY <1>1, <1>2, <1>3, <1>5, <1>6, <1>7, <1>8 DEF Progress, ChatInv, ChatTypes

-----------------------------------------------------------------------------
(* What the caller sees. *)

LEMMA SeenElsewhere ==
  ASSUME NEW r \in Requests, Alone(r)
  PROVE  \A s \in Requests \ {r} :
           Asked'[s] = Asked[s] /\ Last'[s] = Last[s] /\ Replied'[s] = Replied[s]
BY DEF Alone, Asked, Last, Replied, Sent, Working

LEMMA SeenSame ==
  ASSUME NEW r \in Requests, Alone(r),
         Asked'[r] = Asked[r], Last'[r] = Last[r], Replied'[r] = Replied[r]
  PROVE  UNCHANGED <<Asked, Last, Replied>>
<1>1. \A s \in Requests :
        Asked'[s] = Asked[s] /\ Last'[s] = Last[s] /\ Replied'[s] = Replied[s]
  BY SeenElsewhere
<1>2. Asked' = Asked
  BY <1>1 DEF Asked
<1>3. Last' = Last
  BY <1>1 DEF Last
<1>4. Replied' = Replied
  BY <1>1 DEF Replied
<1>5. QED BY <1>2, <1>3, <1>4

LEMMA PointUpdate ==
  ASSUME NEW S, NEW f, NEW g, NEW r \in S,
         f = [s \in S |-> f[s]], g = [s \in S |-> g[s]],
         \A s \in S \ {r} : g[s] = f[s]
  PROVE  g = [f EXCEPT ![r] = g[r]]
OBVIOUS

LEMMA Seen ==
  ASSUME NEW r \in Requests, Alone(r)
  PROVE  /\ Asked' = [Asked EXCEPT ![r] = Asked'[r]]
         /\ Last' = [Last EXCEPT ![r] = Last'[r]]
         /\ Replied' = [Replied EXCEPT ![r] = Replied'[r]]
         /\ Asked'[r] = Asked[r] => Asked' = Asked
         /\ Last'[r] = Last[r] => Last' = Last
         /\ Replied'[r] = Replied[r] => Replied' = Replied
<1>1. \A f \in {Asked, Last, Replied, Asked', Last', Replied'} :
        f = [s \in Requests |-> f[s]]
  BY DEF Asked, Last, Replied
<1>2. Asked' = [Asked EXCEPT ![r] = Asked'[r]]
  BY <1>1, SeenElsewhere, PointUpdate
<1>3. Last' = [Last EXCEPT ![r] = Last'[r]]
  BY <1>1, SeenElsewhere, PointUpdate
<1>4. Replied' = [Replied EXCEPT ![r] = Replied'[r]]
  BY <1>1, SeenElsewhere, PointUpdate
<1>5. \A f \in {Asked, Last, Replied} : [f EXCEPT ![r] = f[r]] = f
  BY <1>1
<1>6. QED BY <1>2, <1>3, <1>4, <1>5

-----------------------------------------------------------------------------
(* The steps of a request. *)

LEMMA Moved ==
  ASSUME ChatInv, NEW r \in Requests, NEW n \in Locals, Progress(n),
         req' = [req EXCEPT ![r] = n], reply' = reply
  PROVE  ChatInv' /\ Alone(r) /\ req'[r] = n /\ req[r] \in Locals /\ Progress(req[r])
BY DEF ChatInv, ChatTypes, Alone

LEMMA Answered ==
  ASSUME ChatInv, NEW r \in Requests,
         NEW how \in {"answered", "upstream", "exhausted", "unavailable"},
         Answer(r, how), req[r].pc # "idle",
         how \in {"answered", "unavailable"} <=> Working(r),
         how = "upstream" => req[r].lastStatus # "none",
         how = "exhausted" => req[r].lastStatus = "none"
  PROVE  ChatInv' /\ Promise!Reply(r, how)
<1>1. /\ req' = [req EXCEPT ![r] = NoRequest]
      /\ reply' = [reply EXCEPT ![r] = how]
  BY DEF Answer
<1>2. ChatInv' /\ Alone(r) /\ req'[r] = NoRequest /\ reply'[r] = how
  BY <1>1, Waiting DEF ChatInv, ChatTypes, Alone
<1>3. NoRequest.tried = {} /\ NoRequest.lastStatus = "none" /\ NoRequest.next = "idle"
  BY Waiting DEF Progress, Placed, Judged
<1>4. Asked'[r] = {} /\ Last'[r] = "none" /\ Replied'[r] = how
  BY <1>2, <1>3, Waiting DEF Asked, Last, Replied, Sent, Working
<1>5. /\ Replied[r] = ""
      /\ Last[r] = IF Working(r) THEN "out" ELSE req[r].lastStatus
  BY DEF Replied, Last
<1>6. req[r].lastStatus \in Statuses
  BY DEF ChatInv, ChatTypes, Locals
<1>7. (CASE how \in {"answered", "unavailable"} -> Last[r] = "out"
         [] how = "upstream" -> Last[r] \in {"refused", "rejected"}
         [] how = "exhausted" -> Last[r] = "none")
  BY <1>5, <1>6 DEF Statuses
<1>8. QED BY <1>2, <1>4, <1>5, <1>7, Seen DEF Promise!Reply, Promise!Open

\* Nothing the caller sees has changed.
LEMMA Hidden ==
  ASSUME ChatInv, NEW r \in Requests, NEW n \in Locals, Progress(n),
         req' = [req EXCEPT ![r] = n], reply' = reply,
         req[r].pc # "idle", n.pc # "idle",
         Sent(r)' = Sent(r), Working(r)' <=> Working(r),
         Working(r) \/ n.lastStatus = req[r].lastStatus
  PROVE  ChatInv' /\ UNCHANGED <<Asked, Last, Replied>>
<1>1. ChatInv' /\ Alone(r) /\ req'[r] = n
  BY Moved
<1>2. Asked'[r] = Asked[r] /\ Last'[r] = Last[r] /\ Replied'[r] = Replied[r]
  BY <1>1 DEF Asked, Last, Replied
<1>3. QED BY <1>1, <1>2, SeenSame

\* What is shown of every step: the invariant again, and a step of the promise
\* or none.
Kept == ChatInv' /\ [Promise!Next]_(Promise!promise)

LEMMA HiddenKeeps ==
  ASSUME ChatInv, NEW r \in Requests, NEW n \in Locals, Progress(n),
         req' = [req EXCEPT ![r] = n], reply' = reply,
         req[r].pc # "idle", n.pc # "idle",
         Sent(r)' = Sent(r), Working(r)' <=> Working(r),
         Working(r) \/ n.lastStatus = req[r].lastStatus
  PROVE  Kept
BY Hidden DEF Kept, Promise!promise

LEMMA AnsweredKeeps ==
  ASSUME ChatInv, NEW r \in Requests,
         NEW how \in {"answered", "upstream", "exhausted", "unavailable"},
         Answer(r, how), req[r].pc # "idle",
         how \in {"answered", "unavailable"} <=> Working(r),
         how = "upstream" => req[r].lastStatus # "none",
         how = "exhausted" => req[r].lastStatus = "none"
  PROVE  Kept
<1>1. ChatInv' /\ Promise!Reply(r, how)
  BY Answered
<1>2. how \in Promise!Replies
  BY DEF Promise!Replies
<1>3. QED BY <1>1, <1>2 DEF Kept, Promise!Next

LEMMA GiveUpKeeps ==
  ASSUME ChatInv, NEW r \in Requests, GiveUp(r), req[r].pc \in {"pick", "token"}
  PROVE  Kept
<1> DEFINE how == IF req[r].lastStatus = "none" THEN "exhausted" ELSE "upstream"
<1>1. Answer(r, how) /\ req[r].next = "idle"
  BY DEF GiveUp, ChatInv, Progress, Placed
<1>2. ~Working(r)
  BY <1>1 DEF Working
<1>3. QED BY <1>1, <1>2, AnsweredKeeps

LEMMA ChosenKeeps ==
  ASSUME ChatInv, NEW r \in Requests, NEW u \in Uids, Chosen(r, u), reply' = reply,
         req[r].pc \in Choosing, u \notin req[r].tried
  PROVE  Kept
<1>1. /\ req'[r] \in Locals /\ Progress(req'[r]) /\ req'[r].next = "idle"
      /\ req'[r].pc = "token" /\ req'[r].lastStatus = req[r].lastStatus
      /\ req'[r].tried \ {req'[r].uid} = req[r].tried
  BY ChosenOne
<1>2. req' = [req EXCEPT ![r] = req'[r]]
  BY DEF Chosen, ChatInv, ChatTypes
<1>3. Sent(r)' = Sent(r)
  BY <1>1 DEF Sent, Choosing
<1>4. ~Working(r) /\ ~Working(r)'
  BY <1>1 DEF Working, Choosing, ChatInv, Progress, Placed
<1>5. req[r].pc # "idle"
  BY DEF Choosing
<1>6. QED BY <1>1, <1>2, <1>3, <1>4, <1>5, HiddenKeeps

LEMMA BeginKeeps ==
  ASSUME ChatInv, NEW r \in Requests, NEW s \in Sessions \cup {NoSession},
         NEW m \in Models, Begin(r, s, m)
  PROVE  Kept
<1> DEFINE n == NewRequest(s, m)
<1>1. /\ req' = [req EXCEPT ![r] = n] /\ reply' = reply /\ req[r].pc = "idle"
      /\ n \in Locals /\ Progress(n)
  BY Starting DEF Begin
<1>2. /\ ChatInv' /\ Alone(r) /\ req'[r] = n /\ Progress(req[r])
  BY <1>1, Moved
<1>3. /\ n.pc = "pick" /\ n.next = "idle" /\ n.tried = {} /\ n.lastStatus = "none"
  BY DEF NewRequest
<1>4. /\ req[r].tried = {} /\ req[r].lastStatus = "none" /\ req[r].next = "idle"
  BY <1>1, <1>2 DEF Progress, Placed, Judged
<1>5. reply[r] # "" /\ Replied[r] = reply[r] /\ Replied'[r] = ""
  BY <1>1, <1>2, <1>3 DEF Replied, ChatInv, ChatTypes
<1>6. Asked'[r] = Asked[r] /\ Last'[r] = Last[r]
  BY <1>1, <1>2, <1>3, <1>4 DEF Asked, Last, Sent, Working
<1>7. Asked' = Asked /\ Last' = Last
  BY <1>2, <1>6, Seen
<1>8. Promise!Begin(r)
  BY <1>2, <1>5, <1>7, Seen DEF Promise!Begin, Promise!Open
<1>9. QED BY <1>2, <1>8 DEF Kept, Promise!Next

LEMMA ResolveKeeps ==
  ASSUME ChatInv, NEW r \in Requests, Resolve(r)
  PROVE  Kept
<1>1. req[r].pc = "pick" /\ req[r].pc \in Choosing
  BY DEF Resolve, Choosing
<1>2. CASE Candidates(r) = {} /\ GiveUp(r)
  BY <1>1, <1>2, GiveUpKeeps
<1>3. CASE /\ reply' = reply /\ req[r].sess # NoSession
           /\ req' = [req EXCEPT ![r].pc = "look", ![r].cand = Candidates(r)]
  <2> DEFINE q == req[r]
             n == [q EXCEPT !.pc = "look", !.cand = Candidates(r)]
  <2>1. /\ q \in Locals /\ Progress(q) /\ req' = [req EXCEPT ![r] = n]
        /\ q.next = "idle"
    BY <1>1, <1>3 DEF ChatInv, ChatTypes, Progress, Placed
  <2>2. Candidates(r) \subseteq Uids /\ Candidates(r) \cap q.tried = {}
    BY DEF Candidates
  <2>3. n \in Locals
    BY <2>1, <2>2 DEF Locals, Steps
  <2>4. /\ n.pc = "look" /\ n.cand = Candidates(r) /\ n.tried = q.tried
        /\ n.sess # NoSession
        /\ n.attempt = q.attempt /\ n.next = q.next /\ n.lastStatus = q.lastStatus
    BY <1>3, <2>1 DEF Locals
  <2>5. Progress(n)
    BY <1>1, <2>1, <2>2, <2>4
    DEF Progress, Counted, Placed, Judged, Towards, Choosing
  <2>6. req'[r] = n
    BY <2>1 DEF ChatInv, ChatTypes
  <2>7. Sent(r)' = Sent(r) /\ ~Working(r) /\ ~Working(r)'
    BY <1>1, <2>1, <2>4, <2>6 DEF Sent, Working
  <2>8. QED BY <1>1, <1>3, <2>1, <2>3, <2>4, <2>5, <2>7, HiddenKeeps
<1>4. CASE (\E u \in Candidates(r) : Chosen(r, u)) /\ reply' = reply
  <2>1. PICK u \in Candidates(r) : Chosen(r, u)
    BY <1>4
  <2>2. u \in Uids /\ u \notin req[r].tried
    BY DEF Candidates
  <2>3. QED BY <1>1, <1>4, <2>1, <2>2, ChosenKeeps
<1>5. QED BY <1>2, <1>3, <1>4 DEF Resolve

LEMMA LookKeeps ==
  ASSUME ChatInv, NEW r \in Requests, ResolveLook(r)
  PROVE  Kept
<1> DEFINE q == req[r]
           e == entries[Key(r)]
           n == IF Hits(e, q.cand) THEN [q EXCEPT !.pc = "touch", !.uid = e.uid]
                                   ELSE [q EXCEPT !.pc = "assign"]
<1>1. /\ q.pc = "look" /\ q \in Locals /\ Progress(q) /\ reply' = reply
      /\ req' = [req EXCEPT ![r] = n] /\ q.next = "idle"
  BY DEF ResolveLook, Goto, ChatInv, ChatTypes, Progress, Placed
<1>2. n \in Locals
  BY <1>1 DEF Locals, Steps, Hits
<1>3. /\ n.pc \in {"touch", "assign"} /\ n.cand = q.cand /\ n.tried = q.tried
      /\ n.attempt = q.attempt /\ n.next = q.next /\ n.lastStatus = q.lastStatus
      /\ n.pc = "touch" => n.uid \in q.cand
      /\ n.sess = q.sess
  BY <1>1 DEF Locals, Hits
<1>4. Progress(n)
  BY <1>1, <1>3 DEF Progress, Counted, Placed, Judged, Towards, Choosing
<1>5. req'[r] = n
  BY <1>1 DEF ChatInv, ChatTypes
<1>6. Sent(r)' = Sent(r) /\ ~Working(r) /\ ~Working(r)'
  BY <1>1, <1>3, <1>5 DEF Sent, Working
<1>7. QED BY <1>1, <1>2, <1>3, <1>4, <1>6, HiddenKeeps

LEMMA FoundKeeps ==
  ASSUME ChatInv, NEW r \in Requests, ResolveTouch(r) \/ ResolveAssign(r)
  PROVE  Kept
<1>1. PICK u \in req[r].cand : Chosen(r, u) /\ req[r].pc \in {"touch", "assign"}
  BY DEF ResolveTouch, ResolveAssign, ChatInv, Progress, Placed
<1>2. u \in Uids /\ u \notin req[r].tried
  BY DEF ChatInv, ChatTypes, Locals, Progress, Placed
<1>3. QED BY <1>1, <1>2, ChosenKeeps DEF ResolveTouch, ResolveAssign, Choosing

\* The promise counts with the same operator.
LEMMA SameCount == \A S : Promise!Cardinality(S) = Cardinality(S)
BY DEF Promise!Cardinality, Cardinality

LEMMA OneLess ==
  ASSUME NEW S, IsFiniteSet(S), NEW x \in S, NEW n \in Nat, Cardinality(S) = n + 1
  PROVE  Cardinality(S \ {x}) = n
BY FS_RemoveElement

LEMMA AskKeeps ==
  ASSUME ChatInv, NEW r \in Requests, Ask(r)
  PROVE  Kept
<1> DEFINE q == req[r]
           u == q.uid
           n == [q EXCEPT !.pc = "wait"]
<1>1. q.pc = "token" /\ q \in Locals /\ Progress(q) /\ q.next = "idle"
  BY DEF Ask, ChatInv, ChatTypes, Progress, Placed
<1>2. CASE GiveUp(r)
  BY <1>1, <1>2, GiveUpKeeps
<1>3. CASE req' = [req EXCEPT ![r] = n] /\ reply' = reply
  <2>1. n \in Locals
    BY <1>1 DEF Locals, Steps
  <2>2. /\ n.pc = "wait" /\ n.cand = q.cand /\ n.tried = q.tried /\ n.uid = u
        /\ n.attempt = q.attempt /\ n.next = q.next /\ n.lastStatus = q.lastStatus
    BY <1>1 DEF Locals
  <2>3. Progress(n)
    BY <1>1, <2>2 DEF Progress, Counted, Placed, Judged, Towards, Choosing
  <2>4. ChatInv' /\ Alone(r) /\ req'[r] = n
    BY <1>3, <2>1, <2>3, Moved
  <2>5. /\ u \in Uids /\ u \in q.tried /\ IsFiniteSet(q.tried)
        /\ Cardinality(q.tried) = q.attempt + 1 /\ q.attempt <= MaxRetry
        /\ q.lastStatus \in {"none", "refused"} /\ q.attempt \in Nat
    BY <1>1 DEF Progress, Counted, Placed, Judged, Choosing, Locals, Statuses
  <2>6. /\ Asked[r] = q.tried \ {u} /\ Last[r] = q.lastStatus /\ Replied[r] = ""
    BY <1>1 DEF Asked, Last, Replied, Sent, Working
  <2>7. /\ Asked'[r] = q.tried /\ Last'[r] = "out" /\ Replied'[r] = ""
    BY <2>2, <2>4 DEF Asked, Last, Replied, Sent, Working
  <2>8. Cardinality(Asked[r]) = q.attempt
    <3>1. Cardinality(q.tried \ {u}) = q.attempt
      BY <2>5, OneLess
    <3>2. QED BY <2>6, <3>1
  <2>9. u \notin Asked[r] /\ Asked'[r] = Asked[r] \cup {u}
    BY <2>5, <2>6, <2>7
  <2>10. Replied' = Replied
    BY <2>4, <2>6, <2>7, Seen
  <2>11. /\ Asked' = [Asked EXCEPT ![r] = @ \cup {u}]
         /\ Last' = [Last EXCEPT ![r] = "out"]
    BY <2>4, <2>7, <2>9, Seen
  <2>12. Cardinality(Asked[r]) <= MaxRetry /\ Last[r] \in {"none", "refused"}
    BY <2>5, <2>6, <2>8
  <2>13. Promise!Ask(r, u)
    BY <2>6, <2>9, <2>10, <2>11, <2>12, SameCount DEF Promise!Ask, Promise!Open
  <2>14. QED BY <2>4, <2>5, <2>13 DEF Kept, Promise!Next
<1>4. QED BY <1>2, <1>3 DEF Ask, Goto

LEMMA OutKeeps ==
  ASSUME ChatInv, NEW r \in Requests, Succeed(r) \/ BindSession(r)
  PROVE  Kept
<1> DEFINE q == req[r]
           pc == IF q.pc = "wait" THEN "bind" ELSE "stream"
           n == [q EXCEPT !.pc = pc]
<1>1. /\ q.pc \in {"wait", "bind"} /\ q \in Locals /\ Progress(q)
      /\ q.next = "idle" /\ req' = [req EXCEPT ![r] = n] /\ reply' = reply
  BY DEF Succeed, BindSession, Goto, ChatInv, ChatTypes, Progress, Placed
<1>2. n \in Locals
  BY <1>1 DEF Locals, Steps
<1>3. /\ n.pc = pc /\ n.cand = q.cand /\ n.tried = q.tried /\ n.uid = q.uid
      /\ n.attempt = q.attempt /\ n.next = q.next /\ n.lastStatus = q.lastStatus
  BY <1>1 DEF Locals
<1>4. Progress(n)
  BY <1>1, <1>3 DEF Progress, Counted, Placed, Judged, Towards, Choosing
<1>5. req'[r] = n
  BY <1>1 DEF ChatInv, ChatTypes
<1>6. Sent(r)' = Sent(r) /\ Working(r) /\ Working(r)'
  BY <1>1, <1>3, <1>5 DEF Sent, Working
<1>7. n.pc # "idle"
  BY <1>3
<1>8. QED BY <1>1, <1>2, <1>3, <1>4, <1>6, <1>7, HiddenKeeps

\* NoteError leaves the request at the next place, or at DropUID on its way there.
LEMMA Punished ==
  ASSUME ChatInv, NEW r \in Requests, NEW kind, NEW status \in Statuses,
         NEW next \in {"unbind", "fail", "stream"}, Punish(r, kind, next, status),
         req[r].pc \in {"wait", "stream"}, next = "stream" => req[r].frames < FrameLimit
  PROVE  \E n \in Locals :
           /\ req' = [req EXCEPT ![r] = n]
           /\ \/ n.pc = next /\ n.next = "idle"
              \/ n.pc = "drop" /\ n.next = next
           /\ n.cand = req[r].cand /\ n.tried = req[r].tried /\ n.uid = req[r].uid
           /\ n.attempt = req[r].attempt /\ n.lastStatus = status
<1> DEFINE q == req[r]
           off == /\ acc[q.uid] # Absent /\ acc[q.uid].auto = ""
                  /\ acc'[q.uid].auto # ""
           n == [q EXCEPT !.pc = IF off THEN "drop" ELSE next,
                          !.next = IF off THEN next ELSE "idle",
                          !.lastStatus = status,
                          !.frames = IF next = "stream" THEN @ + 1 ELSE @]
<1>1. req' = [req EXCEPT ![r] = n] /\ q \in Locals
  BY DEF Punish, ChatInv, ChatTypes
<1>2. n \in Locals
  <2>1. (IF next = "stream" THEN q.frames + 1 ELSE q.frames) \in 0..FrameLimit
    BY <1>1 DEF Locals, FrameLimit
  <2>2. /\ (IF off THEN "drop" ELSE next) \in Steps
        /\ (IF off THEN next ELSE "idle") \in Steps
    BY DEF Steps
  <2>3. QED BY <1>1, <2>1, <2>2 DEF Locals
<1>3. /\ n.pc = (IF off THEN "drop" ELSE next) /\ n.next = (IF off THEN next ELSE "idle")
      /\ n.cand = q.cand /\ n.tried = q.tried /\ n.uid = q.uid
      /\ n.attempt = q.attempt /\ n.lastStatus = status
  BY <1>1 DEF Locals
<1>4. QED BY <1>1, <1>2, <1>3

LEMMA FrameKeeps ==
  ASSUME ChatInv, NEW r \in Requests, NEW kind, Frame(r, kind)
  PROVE  Kept
<1>1. /\ req[r].pc = "stream" /\ req[r] \in Locals /\ Progress(req[r])
      /\ reply' = reply
  BY DEF Frame, ChatInv, ChatTypes
<1>2. PICK n \in Locals :
        /\ req' = [req EXCEPT ![r] = n]
        /\ \/ n.pc = "stream" /\ n.next = "idle"
           \/ n.pc = "drop" /\ n.next = "stream"
        /\ n.cand = req[r].cand /\ n.tried = req[r].tried /\ n.uid = req[r].uid
        /\ n.attempt = req[r].attempt /\ n.lastStatus = req[r].lastStatus
  BY <1>1, Punished DEF Frame, Locals
<1>3. Progress(n)
  BY <1>1, <1>2 DEF Progress, Counted, Placed, Judged, Towards, Choosing
<1>4. req'[r] = n
  BY <1>2 DEF ChatInv, ChatTypes
<1>5. Sent(r)' = Sent(r) /\ Working(r) /\ Working(r)'
  BY <1>1, <1>2, <1>4 DEF Sent, Working
<1>6. n.pc # "idle"
  BY <1>2
<1>7. QED BY <1>1, <1>2, <1>3, <1>5, <1>6, HiddenKeeps

\* A refusal or any other error status.
LEMMA FailKeeps ==
  ASSUME ChatInv, NEW r \in Requests, NEW n \in Locals,
         req' = [req EXCEPT ![r] = n], reply' = reply, req[r].pc = "wait",
         NEW next \in {"unbind", "fail"}, NEW how \in {"refused", "rejected"},
         \/ n.pc = next /\ n.next = "idle"
         \/ n.pc = "drop" /\ n.next = next,
         n.cand = req[r].cand, n.tried = req[r].tried, n.uid = req[r].uid,
         n.attempt = req[r].attempt, n.lastStatus = how,
         next = "unbind" => MayRetry(r) /\ how = "refused"
  PROVE  Kept
<1>1. req[r] \in Locals /\ Progress(req[r])
  BY DEF ChatInv, ChatTypes
<1>2. Progress(n)
  BY <1>1 DEF Progress, Counted, Placed, Judged, Towards, Choosing, MayRetry
<1>3. ChatInv' /\ Alone(r) /\ req'[r] = n
  BY <1>2, Moved
<1>4. Asked[r] = req[r].tried /\ Last[r] = "out" /\ Replied[r] = ""
  BY DEF Asked, Last, Replied, Sent, Working
<1>5. Asked'[r] = req[r].tried /\ Last'[r] = how /\ Replied'[r] = ""
  BY <1>3 DEF Asked, Last, Replied, Sent, Working
<1>6. Asked' = Asked /\ Replied' = Replied /\ Last' = [Last EXCEPT ![r] = how]
  BY <1>3, <1>4, <1>5, Seen
<1>7. Promise!Fail(r)
  BY <1>4, <1>6 DEF Promise!Fail, Promise!Open
<1>8. QED BY <1>3, <1>7 DEF Kept, Promise!Next

LEMMA RefuseKeeps ==
  ASSUME ChatInv, NEW r \in Requests, NEW kind, Refuse(r, kind)
  PROVE  Kept
<1> DEFINE next == IF MayRetry(r) THEN "unbind" ELSE "fail"
<1>1. req[r].pc = "wait" /\ reply' = reply /\ Punish(r, kind, next, "refused")
  BY DEF Refuse
<1>2. PICK n \in Locals :
        /\ req' = [req EXCEPT ![r] = n]
        /\ \/ n.pc = next /\ n.next = "idle"
           \/ n.pc = "drop" /\ n.next = next
        /\ n.cand = req[r].cand /\ n.tried = req[r].tried /\ n.uid = req[r].uid
        /\ n.attempt = req[r].attempt /\ n.lastStatus = "refused"
  BY <1>1, Punished DEF Statuses
<1>3. next = "unbind" => MayRetry(r)
  OBVIOUS
<1>4. QED BY <1>1, <1>2, <1>3, FailKeeps

LEMMA RejectKeeps ==
  ASSUME ChatInv, NEW r \in Requests, Reject(r)
  PROVE  Kept
<1> DEFINE q == req[r]
           n == [q EXCEPT !.pc = "fail", !.lastStatus = "rejected"]
<1>1. /\ q.pc = "wait" /\ q \in Locals /\ q.next = "idle" /\ reply' = reply
      /\ req' = [req EXCEPT ![r] = n]
  BY DEF Reject, ChatInv, ChatTypes, Progress, Placed
<1>2. n \in Locals
  BY <1>1 DEF Locals, Steps, Statuses
<1>3. /\ n.pc = "fail" /\ n.next = "idle" /\ n.cand = q.cand /\ n.tried = q.tried
      /\ n.uid = q.uid /\ n.attempt = q.attempt /\ n.lastStatus = "rejected"
  BY <1>1 DEF Locals
<1>4. QED BY <1>1, <1>2, <1>3, FailKeeps

LEMMA DropKeeps ==
  ASSUME ChatInv, NEW r \in Requests, DropFailed(r)
  PROVE  Kept
<1> DEFINE q == req[r]
           n == [q EXCEPT !.pc = q.next, !.next = "idle"]
<1>1. /\ q.pc = "drop" /\ q \in Locals /\ Progress(q) /\ reply' = reply
      /\ req' = [req EXCEPT ![r] = n] /\ q.next \in {"unbind", "fail", "stream"}
  BY DEF DropFailed, ChatInv, ChatTypes, Progress, Placed
<1>2. n \in Locals
  BY <1>1 DEF Locals, Steps
<1>3. /\ n.pc = q.next /\ n.next = "idle" /\ n.cand = q.cand /\ n.tried = q.tried
      /\ n.uid = q.uid /\ n.attempt = q.attempt /\ n.lastStatus = q.lastStatus
  BY <1>1 DEF Locals
<1>4. Progress(n)
  BY <1>1, <1>3 DEF Progress, Counted, Placed, Judged, Towards, Choosing
<1>5. req'[r] = n
  BY <1>1 DEF ChatInv, ChatTypes
<1>6. Sent(r)' = Sent(r) /\ (Working(r)' <=> Working(r))
  BY <1>1, <1>3, <1>5 DEF Sent, Working
<1>7. n.pc # "idle"
  BY <1>1, <1>3
<1>8. QED BY <1>1, <1>2, <1>3, <1>4, <1>6, <1>7, HiddenKeeps

LEMMA UnbindKeeps ==
  ASSUME ChatInv, NEW r \in Requests, UnbindFailed(r)
  PROVE  Kept
<1> DEFINE q == req[r]
           n == [q EXCEPT !.pc = "pick", !.uid = NoUid, !.attempt = @ + 1]
<1>1. /\ q.pc = "unbind" /\ q \in Locals /\ Progress(q) /\ reply' = reply
      /\ req' = [req EXCEPT ![r] = n] /\ q.next = "idle"
  BY DEF UnbindFailed, ChatInv, ChatTypes, Progress, Placed
<1>2. n \in Locals
  <2>1. q.attempt + 1 \in Nat /\ "pick" \in Steps
    BY <1>1 DEF Locals, Steps
  <2>2. QED BY <1>1, <2>1 DEF Locals
<1>3. /\ n.pc = "pick" /\ n.next = "idle" /\ n.cand = q.cand /\ n.tried = q.tried
      /\ n.attempt = q.attempt + 1 /\ n.lastStatus = q.lastStatus
  BY <1>1 DEF Locals
<1>4. q.attempt < MaxRetry /\ q.lastStatus = "refused" /\ q.attempt \in Nat
  BY <1>1 DEF Progress, Judged, Towards, Locals
<1>5. Progress(n)
  BY <1>1, <1>3, <1>4, ChatAssumption
  DEF Progress, Counted, Placed, Judged, Towards, Choosing
<1>6. req'[r] = n
  BY <1>1 DEF ChatInv, ChatTypes
<1>7. Sent(r)' = Sent(r) /\ ~Working(r) /\ ~Working(r)'
  BY <1>1, <1>3, <1>6 DEF Sent, Working
<1>8. QED BY <1>1, <1>2, <1>3, <1>5, <1>7, HiddenKeeps

LEMMA EndKeeps ==
  ASSUME ChatInv, NEW r \in Requests, Transport(r) \/ Finish(r)
  PROVE  Kept
<1>1. Progress(req[r])
  BY DEF ChatInv
<1>2. CASE req[r].pc = "wait" /\ Answer(r, "unavailable")
  BY <1>2, AnsweredKeeps DEF Working
<1>3. CASE req[r].pc = "stream" /\ Answer(r, "answered")
  BY <1>3, AnsweredKeeps DEF Working
<1>4. CASE req[r].pc = "fail" /\ Answer(r, "upstream")
  <2>1. ~Working(r) /\ req[r].lastStatus # "none"
    BY <1>1, <1>4 DEF Working, Progress, Placed, Judged, Towards
  <2>2. QED BY <1>4, <2>1, AnsweredKeeps
<1>5. QED BY <1>2, <1>3, <1>4 DEF Transport, Finish

LEMMA OthersKeep ==
  ASSUME ChatInv, req' = req, reply' = reply
  PROVE  Kept
<1>1. ChatInv'
  BY DEF ChatInv, ChatTypes
<1>2. \A r \in Requests : Sent(r)' = Sent(r) /\ Working(r)' = Working(r)
  BY DEF Sent, Working
<1>3. Asked' = Asked /\ Last' = Last /\ Replied' = Replied
  BY <1>2 DEF Asked, Last, Replied
<1>4. QED BY <1>1, <1>3 DEF Kept, Promise!promise

LEMMA StepKeeps ==
  ASSUME ChatInv, [Next]_vars
  PROVE  Kept
<1>1. CASE UNCHANGED vars
  BY <1>1, OthersKeep DEF vars, chat
<1>2. ASSUME NEW r \in Requests, Step(r) PROVE Kept
  BY <1>2, ResolveKeeps, LookKeeps, FoundKeeps, AskKeeps, OutKeeps, DropKeeps,
     UnbindKeeps, EndKeeps DEF Step
<1>3. ASSUME NEW r \in Requests, Failure(r) PROVE Kept
  BY <1>3, EndKeeps, RejectKeeps, RefuseKeeps, FrameKeeps DEF Failure
<1>4. ASSUME NEW r \in Requests, NEW s \in Sessions \cup {NoSession},
             NEW m \in Models, Begin(r, s, m)
      PROVE  Kept
  BY <1>4, BeginKeeps
<1>5. ASSUME Others PROVE Kept
  <2>1. req' = req /\ reply' = reply
    BY <1>5 DEF Others, Reset, Tick, ProbeGood, ProbeBad, DeleteAccount, DropDisabled,
                SetManualDisabled, Thaw, Change, chat
  <2>2. QED BY <2>1, OthersKeep
<1>6. QED BY <1>1, <1>2, <1>3, <1>4, <1>5 DEF Next

LEMMA FirstKeeps ==
  ASSUME Init
  PROVE  ChatInv /\ Promise!Init
<1>1. /\ req = [r \in Requests |-> NoRequest]
      /\ reply = [r \in Requests |-> "answered"]
  BY DEF Init
<1>2. ChatInv
  BY <1>1, Waiting DEF ChatInv, ChatTypes
<1>3. \A r \in Requests : Sent(r) = {} /\ ~Working(r) /\ req[r].lastStatus = "none"
  BY <1>1, Waiting DEF Sent, Working, Progress, Placed, Judged
<1>4. Asked = [r \in Requests |-> {}] /\ Last = [r \in Requests |-> "none"]
  BY <1>3 DEF Asked, Last
<1>5. Replied = [r \in Requests |-> "answered"]
  BY <1>1, Waiting DEF Replied
<1>6. QED BY <1>2, <1>4, <1>5 DEF Promise!Init, Promise!Replies

\* The retry loop of chatPooled, whatever the router, the manager, the panel and
\* the other requests do between its steps, implements ChatPromise: no account
\* twice, another one only after a refusal that cost nothing, at most
\* 1 + PoolMaxRetry of them, and the upstream's error before the gateway's.
THEOREM PromiseKept == Spec => KeepsPromise
<1>1. Init => ChatInv /\ Promise!Init
  BY FirstKeeps
<1>2. ChatInv /\ [Next]_vars => ChatInv' /\ [Promise!Next]_(Promise!promise)
  BY StepKeeps DEF Kept
<1>3. QED BY <1>1, <1>2, PTL DEF Spec, KeepsPromise, Promise!Spec

-----------------------------------------------------------------------------
(* The table of bindings. *)

LEMMA WithoutType ==
  ASSUME NEW t \in [Keys -> Entries], NEW gone
  PROVE  Without(t, gone) \in [Keys -> Entries]
BY DEF Without, Entries

LEMMA PutType ==
  ASSUME NEW t \in [Keys -> Entries], NEW k, NEW u \in Uids, now \in Nat
  PROVE  Put(t, k, u) \in [Keys -> Entries]
BY DEF Put, Entries

LEMMA EvictedType ==
  ASSUME NEW t \in [Keys -> Entries], NEW s \in Evicted(t)
  PROVE  s \in [Keys -> Entries]
BY WithoutType DEF Evicted

\* The size of a table.
Fits(t, n) == IsFiniteSet(Bound(t)) /\ Cardinality(Bound(t)) <= n

LEMMA WithoutFits ==
  ASSUME NEW t, NEW n \in Nat, Fits(t, n), NEW gone
  PROVE  Fits(Without(t, gone), n)
<1>1. Bound(Without(t, gone)) \subseteq Bound(t)
  BY DEF Bound, Without, NoEntry
<1>2. QED BY <1>1, FS_Subset, FS_CardinalityType DEF Fits

LEMMA PutFits ==
  ASSUME NEW t, NEW n \in Nat, Fits(t, n), NEW k \in Keys, NEW u, DOMAIN t = Keys
  PROVE  Fits(Put(t, k, u), n + 1)
<1>1. Bound(Put(t, k, u)) \subseteq Bound(t) \cup {k}
  BY DEF Bound, Put
<1>2. IsFiniteSet(Bound(t) \cup {k}) /\ Cardinality(Bound(t) \cup {k}) <= n + 1
  <2>1. IsFiniteSet(Bound(t)) /\ Cardinality(Bound(t)) \in Nat
    BY FS_CardinalityType DEF Fits
  <2>2. /\ IsFiniteSet(Bound(t) \cup {k})
        /\ Cardinality(Bound(t) \cup {k}) =
             IF k \in Bound(t) THEN Cardinality(Bound(t)) ELSE Cardinality(Bound(t)) + 1
    BY ONLY <2>1, FS_AddElement, SMTT(30)
  <2>3. Cardinality(Bound(t)) <= n
    BY DEF Fits
  <2> DEFINE b == Cardinality(Bound(t))
             a == Cardinality(Bound(t) \cup {k})
  <2>4. b \in Nat /\ b <= n /\ (a = b \/ a = b + 1)
    BY <2>1, <2>2, <2>3
  <2> HIDE DEF a, b
  <2>5. a <= n + 1
    BY <2>4
  <2>6. QED BY <2>2, <2>5 DEF a
<1>3. QED BY <1>1, <1>2, FS_Subset, FS_CardinalityType DEF Fits

LEMMA EvictedFits ==
  ASSUME NEW t, Fits(t, MaxSize + 1), NEW s \in Evicted(t)
  PROVE  Fits(s, MaxSize)
<1> DEFINE full == Bound(t)
           n == Cardinality(full)
<1>1. IsFiniteSet(full) /\ n \in Nat /\ n <= MaxSize + 1 /\ MaxSize \in Nat \ {0}
  BY FS_CardinalityType, RouterAssumption DEF Fits
<1>2. CASE n <= MaxSize
  BY <1>1, <1>2 DEF Evicted, Fits
<1>3. CASE n > MaxSize
  <2>1. PICK old \in SUBSET full :
          /\ s = Without(t, old)
          /\ Cardinality(old) = IF Excess(n) < n THEN Excess(n) ELSE n
    BY <1>1, <1>3 DEF Evicted
  <2>2. Bound(s) = full \ old
    BY <2>1 DEF Bound, Without, NoEntry
  <2>3. full \cap old = old
    OBVIOUS
  <2>4. IsFiniteSet(Bound(s)) /\ Cardinality(Bound(s)) = n - Cardinality(old)
    <3> HIDE DEF full
    <3>1. /\ IsFiniteSet(full \ old)
          /\ Cardinality(full \ old) = Cardinality(full) - Cardinality(full \cap old)
      BY <1>1, FS_Difference
    <3>2. QED BY <2>2, <2>3, <3>1
  <2>5. Excess(n) \in Nat /\ Excess(n) >= 1
    BY <1>1, <1>3 DEF Excess
  <2>6. n - Cardinality(old) <= MaxSize
    BY <1>1, <2>1, <2>5
  <2>7. QED BY <2>4, <2>6 DEF Fits
<1>4. QED BY <1>1, <1>2, <1>3

TableInv == RouterType /\ Fits(entries, MaxSize)

\* What every operation of the router leaves behind.
LEMMA EvictionKeeps ==
  ASSUME TableInv, NEW t \in [Keys -> Entries], Fits(t, MaxSize), NEW k \in Keys,
         NEW u \in Uids, entries' \in Evicted(Put(t, k, u)), now' = now
  PROVE  TableInv'
<1>1. Put(t, k, u) \in [Keys -> Entries]
  BY PutType DEF TableInv, RouterType
<1>2. entries' \in [Keys -> Entries]
  BY <1>1, EvictedType
<1>3. Fits(Put(t, k, u), MaxSize + 1)
  BY PutFits, RouterAssumption
<1>4. Fits(entries', MaxSize)
  BY <1>3, EvictedFits
<1>5. QED BY <1>2, <1>4 DEF TableInv, RouterType, Fits, Bound

LEMMA RemovalKeeps ==
  ASSUME TableInv, NEW gone,
         entries' = Without(entries, gone) \/ entries' = entries, now' = now
  PROVE  TableInv'
<1>1. entries' \in [Keys -> Entries]
  BY WithoutType DEF TableInv, RouterType
<1>2. Fits(entries', MaxSize)
  BY WithoutFits, RouterAssumption DEF TableInv
<1>3. QED BY <1>1, <1>2 DEF TableInv, RouterType, Fits, Bound

\* A look or a touch binds nothing new.
LEMMA TouchKeeps ==
  ASSUME TableInv, NEW k \in Keys, NEW u \in Uids, now' = now,
         \/ entries' = entries
         \/ entries[k].uid # NoUid /\ entries' = [entries EXCEPT ![k].at = now]
         \/ entries[k].uid # NoUid /\ entries' = Put(entries, k, u)
  PROVE  TableInv'
<1>1. entries' \in [Keys -> Entries]
  <2>1. CASE entries' = Put(entries, k, u)
    BY <2>1, PutType DEF TableInv, RouterType
  <2>2. CASE entries[k].uid # NoUid /\ entries' = [entries EXCEPT ![k].at = now]
    <3>1. [entries[k] EXCEPT !.at = now] \in Entries
      BY <2>2 DEF TableInv, RouterType, Entries, NoEntry
    <3>2. QED BY <2>2, <3>1 DEF TableInv, RouterType
  <2>3. QED BY <2>1, <2>2 DEF TableInv, RouterType
<1>2. Bound(entries') = Bound(entries)
  <2>1. \A j \in Keys : entries'[j].uid # NoUid <=> entries[j].uid # NoUid
    BY NoUidAssumption DEF TableInv, RouterType, Put, Entries, NoEntry
  <2>2. QED BY <2>1 DEF Bound
<1>3. Fits(entries', MaxSize)
  BY <1>2 DEF TableInv, Fits
<1>4. QED BY <1>1, <1>3 DEF TableInv, RouterType, Fits, Bound

LEMMA SessionKey ==
  ASSUME ChatInv, NEW r \in Requests, req[r].sess # NoSession
  PROVE  Key(r) \in Keys
BY DEF ChatInv, ChatTypes, Locals, Key, Keys

LEMMA AssignKeeps ==
  ASSUME TableInv, NEW k \in Keys, NEW cand \in SUBSET Uids, NEW u \in cand,
         Assign(k, cand, u), now' = now
  PROVE  TableInv'
<1>1. CASE /\ Hits(entries[k], cand) /\ u = entries[k].uid
           /\ entries' = Put(entries, k, u)
  BY <1>1, TouchKeeps, NoUidAssumption
<1>2. CASE entries' \in Evicted(Put(Without(entries, {k}), k, u))
  <2>1. Without(entries, {k}) \in [Keys -> Entries]
    BY WithoutType DEF TableInv, RouterType
  <2>2. Fits(Without(entries, {k}), MaxSize)
    BY WithoutFits, RouterAssumption DEF TableInv
  <2>3. QED BY <1>2, <2>1, <2>2, EvictionKeeps
<1>3. QED BY <1>1, <1>2 DEF Assign

LEMMA BindKeeps ==
  ASSUME TableInv, NEW k \in Keys, NEW u \in Uids, Bind(k, u), now' = now
  PROVE  TableInv'
BY EvictionKeeps DEF TableInv, RouterType, Bind

LEMMA TableStep ==
  ASSUME TableInv, ChatInv, [Next]_vars
  PROVE  TableInv'
<1>1. CASE UNCHANGED router
  BY <1>1, RemovalKeeps DEF router
<1>2. ASSUME NEW r \in Requests, ResolveTouch(r) PROVE TableInv'
  <2>1. /\ Key(r) \in Keys /\ now' = now /\ Touch(Key(r))
    BY <1>2, SessionKey DEF ResolveTouch, ChatInv, Progress, Placed
  <2>2. PICK u : u \in Uids
    BY <1>2 DEF ResolveTouch, ChatInv, ChatTypes, Locals, Progress, Placed
  <2>3. QED BY <2>1, <2>2, TouchKeeps DEF Touch
<1>3. ASSUME NEW r \in Requests, ResolveAssign(r) PROVE TableInv'
  <2>1. Key(r) \in Keys /\ now' = now
    BY <1>3, SessionKey DEF ResolveAssign, ChatInv, Progress, Placed
  <2>2. PICK u \in req[r].cand : Assign(Key(r), req[r].cand, u)
    BY <1>3 DEF ResolveAssign
  <2>3. req[r].cand \in SUBSET Uids
    BY DEF ChatInv, ChatTypes, Locals
  <2>4. QED BY <2>1, <2>2, <2>3, AssignKeeps
<1>4. ASSUME NEW r \in Requests, BindSession(r) PROVE TableInv'
  <2>1. CASE req[r].sess = NoSession
    BY <1>4, <2>1, <1>1 DEF BindSession, router
  <2>2. CASE req[r].sess # NoSession
    <3>1. Key(r) \in Keys /\ now' = now /\ Bind(Key(r), req[r].uid)
      BY <1>4, <2>2, SessionKey DEF BindSession
    <3>2. req[r].uid \in Uids
      BY <1>4 DEF BindSession, ChatInv, ChatTypes, Locals, Progress, Placed
    <3>3. QED BY <3>1, <3>2, BindKeeps
  <2>3. QED BY <2>1, <2>2
<1>5. CASE Reset
  <2>1. entries' = Without(entries, Keys) /\ now' = now
    BY <1>5 DEF Reset, ResetSessions, Without
  <2>2. QED BY <2>1, RemovalKeeps
<1>6. CASE Tick
  BY <1>6 DEF Tick, TableInv, RouterType, Fits, Bound
<1>7. ASSUME now' = now, \/ \E u \in Uids \cup {NoUid} : DropUID(u)
                         \/ \E r \in Requests : \E u : UnbindIf(Key(r), u)
      PROVE  TableInv'
  BY <1>7, RemovalKeeps DEF DropUID, UnbindIf
<1>8. ASSUME NEW r \in Requests, Step(r) PROVE TableInv'
  <2>1. CASE Resolve(r) \/ ResolveLook(r) \/ Ask(r) \/ Succeed(r) \/ Finish(r)
    BY <1>1, <2>1 DEF Resolve, ResolveLook, Ask, Succeed, Finish
  <2>2. CASE DropFailed(r)
    <3>1. req[r].uid \in Uids \cup {NoUid} /\ DropUID(req[r].uid) /\ now' = now
      BY <2>2 DEF DropFailed, ChatInv, ChatTypes, Locals
    <3>2. QED BY <1>7, <3>1
  <2>3. CASE UnbindFailed(r)
    BY <1>1, <1>7, <2>3 DEF UnbindFailed, router
  <2>4. QED BY <1>2, <1>3, <1>4, <1>8, <2>1, <2>2, <2>3 DEF Step
<1>9. ASSUME NEW r \in Requests, Failure(r) PROVE TableInv'
  BY <1>1, <1>9 DEF Failure, Transport, Reject, Refuse, Frame
<1>10. CASE Others
  <2>1. ASSUME NEW u \in Uids, DropDisabled(u) PROVE TableInv'
    BY <1>7, <2>1 DEF DropDisabled
  <2>2. QED
    BY <1>1, <1>5, <1>6, <1>10, <2>1
    DEF Others, ProbeGood, ProbeBad, DeleteAccount, SetManualDisabled, Thaw, Change
<1>11. CASE UNCHANGED vars
  BY <1>1, <1>11 DEF vars
<1>12. ASSUME NEW r \in Requests, NEW s, NEW m, Begin(r, s, m) PROVE TableInv'
  BY <1>1, <1>12 DEF Begin
<1>13. QED BY <1>8, <1>9, <1>10, <1>11, <1>12 DEF Next

LEMMA TableFirst ==
  ASSUME Init
  PROVE  TableInv
<1>1. entries = [k \in Keys |-> NoEntry] /\ now = 0
  BY DEF Init, RouterInit
<1>2. Bound(entries) = {}
  BY <1>1 DEF Bound, NoEntry
<1>3. QED
  BY <1>1, <1>2, FS_EmptySet, RouterAssumption
  DEF TableInv, RouterType, Fits, Entries

\* The table of bindings never grows past its limit, whichever of Resolve and
\* Bind inserts last: one look of evictLocked after each insertion is enough.
THEOREM TableStaysBounded == Spec => []TableBounded
<1>1. Init => TableInv /\ ChatInv
  BY TableFirst, FirstKeeps
<1>2. TableInv /\ ChatInv /\ [Next]_vars => (TableInv /\ ChatInv)'
  BY TableStep, StepKeeps DEF Kept
<1>3. TableInv => TableBounded
  BY DEF TableInv, Fits, TableBounded
<1>4. QED BY <1>1, <1>2, <1>3, PTL DEF Spec

-----------------------------------------------------------------------------
(* The types: what requests share with the panel, the prober and time. *)

AccountTypes ==
  /\ acc \in [Uids -> AccountStates \cup {Absent}]
  /\ cool \subseteq Uids \X Models /\ drops \subseteq Uids

BoundTypes == budget \in [Events -> Nat] /\ calm \in BOOLEAN

LEMMA SpendType ==
  ASSUME BoundTypes, UNCHANGED bounds \/ \E e \in Events : Spend(e)
  PROVE  BoundTypes'
<1>1. CASE UNCHANGED bounds
  BY <1>1 DEF BoundTypes, bounds
<1>2. ASSUME NEW e \in Events, Spend(e) PROVE BoundTypes'
  <2>1. budget[e] - 1 \in Nat /\ budget' = [budget EXCEPT ![e] = @ - 1]
    BY <1>2 DEF BoundTypes, Spend
  <2>2. calm' \in BOOLEAN
    BY <1>2 DEF Spend
  <2>3. QED BY <2>1, <2>2 DEF BoundTypes
<1>3. QED BY <1>1, <1>2

LEMMA BoundStep ==
  ASSUME BoundTypes, [Next]_vars
  PROVE  BoundTypes'
<1>1. {"request", "failure", "manual", "probe", "remove", "reset", "thaw", "tick"}
        \subseteq Events
  BY DEF Events
<1>2. ASSUME NEW r \in Requests, Step(r) PROVE UNCHANGED bounds
  BY <1>2 DEF Step, Resolve, ResolveLook, ResolveTouch, ResolveAssign, Ask, Succeed,
              BindSession, DropFailed, UnbindFailed, Finish
<1>3. ASSUME NEW r \in Requests, Failure(r) PROVE Spend("failure")
  BY <1>3 DEF Failure, Transport, Reject, Refuse, Frame
<1>4. CASE Others
  BY <1>1, <1>4, SpendType
  DEF Others, Reset, Tick, ProbeGood, ProbeBad, DeleteAccount, DropDisabled,
      SetManualDisabled, Thaw
<1>5. CASE UNCHANGED vars
  BY <1>5, SpendType DEF vars
<1>6. ASSUME NEW r \in Requests, NEW s, NEW m, Begin(r, s, m) PROVE Spend("request")
  BY <1>6 DEF Begin
<1>7. QED BY <1>1, <1>2, <1>3, <1>4, <1>5, <1>6, SpendType DEF Next

LEMMA AccountStep ==
  ASSUME AccountTypes, ChatInv, [Next]_vars
  PROVE  AccountTypes'
<1> DEFINE State == AccountStates \cup {Absent}
<1>1. CASE UNCHANGED <<acc, cool, drops>>
  BY <1>1 DEF AccountTypes
<1>2. ASSUME NEW u, NEW s \in State, acc' = [acc EXCEPT ![u] = s],
             cool' \subseteq Uids \X Models, drops' \subseteq Uids
      PROVE  AccountTypes'
  BY <1>2 DEF AccountTypes
<1>3. ASSUME NEW u \in Uids, acc[u] # Absent PROVE acc[u] \in AccountStates
  BY <1>3 DEF AccountTypes
<1>4. ASSUME NEW r \in Requests, Step(r) PROVE AccountTypes'
  <2>1. CASE Succeed(r)
    <3>1. req[r].uid \in Uids
      BY <2>1 DEF Succeed, ChatInv, ChatTypes, Locals, Progress, Placed
    <3>2. (IF acc[req[r].uid] = Absent THEN acc[req[r].uid]
           ELSE AfterSuccess(acc[req[r].uid])) \in State
      BY <1>3, <3>1, EventTypes
    <3>3. QED BY <1>2, <2>1, <3>1, <3>2 DEF Succeed, AccountTypes
  <2>2. QED
    BY <1>1, <1>4, <2>1 DEF Step, Resolve, ResolveLook, ResolveTouch, ResolveAssign, Ask,
       BindSession, DropFailed, UnbindFailed, Finish
<1>5. ASSUME NEW r \in Requests, NEW kind \in PunishingKinds, NEW next, NEW status,
             Punish(r, kind, next, status), drops' = drops,
             req[r].pc \in {"wait", "stream"}
      PROVE  AccountTypes'
  <2>1. req[r].uid \in Uids /\ req[r].model \in Models
    BY <1>5 DEF ChatInv, ChatTypes, Locals, Progress, Placed
  <2>2. (IF acc[req[r].uid] = Absent THEN acc[req[r].uid]
         ELSE AfterError(acc[req[r].uid], kind)) \in State
    BY <1>3, <2>1, EventTypes
  <2>3. cool' \subseteq Uids \X Models
    <3>1. cool' = cool \cup {<<req[r].uid, req[r].model>>} \/ cool' = cool
      BY <1>5 DEF Punish
    <3>2. QED BY <2>1, <3>1 DEF AccountTypes
  <2>4. acc' = [acc EXCEPT ![req[r].uid] =
                  IF acc[req[r].uid] = Absent THEN acc[req[r].uid]
                  ELSE AfterError(acc[req[r].uid], kind)]
    BY <1>5 DEF Punish
  <2>5. drops' \subseteq Uids
    BY <1>5 DEF AccountTypes
  <2>6. QED BY <1>2, <2>2, <2>3, <2>4, <2>5
<1>6. ASSUME NEW r \in Requests, Failure(r) PROVE AccountTypes'
  BY <1>1, <1>5, <1>6 DEF Failure, Transport, Reject, Refuse, Frame, PunishingKinds
<1>7. ASSUME NEW u \in Uids, ProbeGood(u) PROVE AccountTypes'
  BY <1>2, <1>3, <1>7, EventTypes DEF ProbeGood, Change, AccountTypes
<1>8. ASSUME NEW u \in Uids, NEW reason \in AutoReasons, ProbeBad(u, reason)
      PROVE  AccountTypes'
  BY <1>2, <1>3, <1>8, EventTypes DEF ProbeBad, Change, AccountTypes
<1>9. ASSUME NEW u \in Uids, NEW off \in BOOLEAN, SetManualDisabled(u, off)
      PROVE  AccountTypes'
  BY <1>2, <1>3, <1>9, EventTypes DEF SetManualDisabled, Change, AccountTypes
<1>10. ASSUME NEW u \in Uids, DeleteAccount(u) PROVE AccountTypes'
  BY <1>2, <1>10 DEF DeleteAccount, Change, AccountTypes
<1>11. ASSUME NEW u \in Uids, DropDisabled(u) \/ \E m \in Models : Thaw(u, m)
       PROVE  AccountTypes'
  BY <1>11 DEF DropDisabled, Thaw, AccountTypes
<1>12. CASE Others
  BY <1>1, <1>7, <1>8, <1>9, <1>10, <1>11, <1>12 DEF Others, Reset, Tick, chat
<1>13. CASE UNCHANGED vars
  BY <1>1, <1>13 DEF vars, chat
<1>14. ASSUME NEW r \in Requests, NEW s, NEW m, Begin(r, s, m) PROVE AccountTypes'
  BY <1>1, <1>14 DEF Begin
<1>15. QED BY <1>4, <1>6, <1>12, <1>13, <1>14 DEF Next

\* Accounts, bindings, requests and what is left to drop keep their types: a
\* request asks, binds and punishes only accounts, never the "nobody" it has
\* between two choices.
THEOREM ChatTyped == Spec => []TypeOK
<1>1. Init => TableInv /\ ChatInv /\ AccountTypes /\ BoundTypes
  <2>1. Init => AccountTypes /\ BoundTypes
    BY FreshType, ChatAssumption DEF Init, AccountTypes, BoundTypes
  <2>2. QED BY <2>1, TableFirst, FirstKeeps
<1>2. /\ TableInv /\ ChatInv /\ AccountTypes /\ BoundTypes
      /\ [Next]_vars
      => (TableInv /\ ChatInv /\ AccountTypes /\ BoundTypes)'
  BY TableStep, StepKeeps, AccountStep, BoundStep DEF Kept
<1>3. TableInv /\ ChatInv /\ AccountTypes /\ BoundTypes => TypeOK
  BY DEF TableInv, ChatInv, ChatTypes, AccountTypes, BoundTypes, TypeOK
<1>4. QED BY <1>1, <1>2, <1>3, PTL DEF Spec
-----------------------------------------------------------------------------
(* An account of its own for every session, as long as all goes well. *)

\* There is an account and a place in the table for every session and model.
Room ==
  /\ IsFiniteSet(Keys) /\ IsFiniteSet(Uids)
  /\ Cardinality(Keys) <= Cardinality(Uids) /\ Cardinality(Keys) <= MaxSize

\* Nothing has expired, and no two bindings share an account.
Apart(t) ==
  /\ \A k \in Keys : t[k].at = 0
  /\ \A j, k \in Bound(t) : t[j].uid = t[k].uid => j = k

\* No request has failed: it chooses among all accounts, and from the choice
\* to the answer its session is bound to what it chose.
Smooth(t, q) ==
  /\ q.pc \in Choosing \cup {"idle", "token", "wait", "bind", "stream"}
  /\ q.pc \in Choosing => q.tried = {}
  /\ q.pc \in {"look", "touch", "assign"} => q.cand = Uids
  /\ q.pc \in {"touch", "token", "wait", "bind"} /\ q.sess # NoSession =>
       t[<<q.sess, q.model>>].uid = q.uid

Healthy == cool = {} /\ drops = {} /\ now = 0 /\ \A u \in Uids : Available(acc[u])

CalmInv ==
  calm /\ Room =>
    Healthy /\ Apart(entries) /\ \A r \in Requests : Smooth(entries, req[r])

LEMMA SomeFree ==
  ASSUME Room, NEW t \in [Keys -> Entries], NEW k \in Keys, t[k].uid = NoUid
  PROVE  Uids \ {t[j].uid : j \in Bound(t)} # {}
<1> DEFINE B == Bound(t)
           T == {t[j].uid : j \in B}
           f == [j \in B |-> t[j].uid]
<1>1. B \in SUBSET Keys /\ B # Keys /\ IsFiniteSet(Keys)
  BY DEF Bound, Room
<1>2. IsFiniteSet(B) /\ Cardinality(B) <= Cardinality(Keys) /\ Cardinality(B) # Cardinality(Keys)
  BY <1>1, FS_Subset
<1>3. f \in Surjection(B, T)
  BY DEF Surjection
<1> HIDE DEF B, f, T
<1>4. IsFiniteSet(T) /\ Cardinality(T) <= Cardinality(B)
  BY <1>2, <1>3, FS_Surjection
<1>5. Uids \subseteq T => Cardinality(Uids) <= Cardinality(T)
  BY <1>4, FS_Subset
<1>6. {Cardinality(B), Cardinality(T), Cardinality(Keys), Cardinality(Uids)} \subseteq Nat
  BY <1>1, <1>2, <1>4, FS_CardinalityType DEF Room
<1>7. Cardinality(Keys) <= Cardinality(Uids)
  BY DEF Room
<1>8. ~(Uids \subseteq T)
  BY <1>2, <1>4, <1>5, <1>6, <1>7
<1>9. QED BY <1>8 DEF T, B

\* The table is never too full to keep all bindings.
LEMMA NoEviction ==
  ASSUME Room, NEW t
  PROVE  Evicted(t) = {t}
<1>1. Bound(t) \in SUBSET Keys
  BY DEF Bound
<1>2. IsFiniteSet(Bound(t)) /\ Cardinality(Bound(t)) <= Cardinality(Keys)
  BY <1>1, FS_Subset DEF Room
<1>3. Cardinality(Bound(t)) \in Nat /\ Cardinality(Keys) \in Nat /\ MaxSize \in Nat
  BY <1>2, FS_CardinalityType, RouterAssumption DEF Room
<1>4. Cardinality(Bound(t)) <= MaxSize
  BY <1>2, <1>3 DEF Room
<1>5. QED BY <1>4 DEF Evicted

\* One request moves and bindings are only added.
LEMMA SmoothMove ==
  ASSUME ChatInv, \A s \in Requests : Smooth(entries, req[s]),
         NEW r \in Requests, NEW n, req' = [req EXCEPT ![r] = n], NEW t,
         \A k \in Keys : entries[k].uid # NoUid => t[k].uid = entries[k].uid,
         Smooth(t, n)
  PROVE  \A s \in Requests : Smooth(t, req'[s])
<1> SUFFICES ASSUME NEW s \in Requests PROVE Smooth(t, req'[s])
  OBVIOUS
<1>1. CASE s = r
  BY <1>1 DEF ChatInv, ChatTypes
<1>2. CASE s # r
  <2> DEFINE q == req[s]
  <2>1. req'[s] = q /\ q \in Locals /\ Progress(q) /\ Smooth(entries, q)
    BY <1>2 DEF ChatInv, ChatTypes
  <2>2. q.pc \in {"touch", "token", "wait", "bind"} => q.uid \in Uids /\ q.uid # NoUid
    BY <2>1, NoUidAssumption DEF Progress, Placed, Locals
  <2>3. q.sess # NoSession => <<q.sess, q.model>> \in Keys
    BY <2>1 DEF Locals, Keys
  <2> HIDE DEF q
  <2>4. QED BY <2>1, <2>2, <2>3 DEF Smooth
<1>3. QED BY <1>1, <1>2

\* A step of a request that leaves the table and the accounts alone.
LEMMA PlainMove ==
  ASSUME ChatInv, CalmInv, calm, Room, NEW r \in Requests, NEW n,
         req' = [req EXCEPT ![r] = n], Smooth(entries, n),
         UNCHANGED <<entries, now, cool, drops>>,
         \A u \in Uids : Available(acc'[u])
  PROVE  CalmInv'
<1>1. \A s \in Requests : Smooth(entries, req'[s])
  BY SmoothMove DEF CalmInv
<1>2. Healthy' /\ Apart(entries)
  BY DEF CalmInv, Healthy
<1>3. QED BY <1>1, <1>2 DEF CalmInv

LEMMA IdleSmooth == \A t : Smooth(t, NoRequest)
<1>1. NoRequest.pc = "idle"
  BY Waiting
<1>2. QED BY <1>1 DEF Smooth, Choosing

\* A request whose locals change at a few places.
LEMMA Fields ==
  ASSUME NEW q \in Locals
  PROVE  /\ \A pc : LET n == [q EXCEPT !.pc = pc] IN
              n.pc = pc /\ n.tried = q.tried /\ n.cand = q.cand /\ n.uid = q.uid
              /\ n.sess = q.sess /\ n.model = q.model
         /\ \A pc, u : LET n == [q EXCEPT !.pc = pc, !.uid = u] IN
              n.pc = pc /\ n.tried = q.tried /\ n.cand = q.cand /\ n.uid = u
              /\ n.sess = q.sess /\ n.model = q.model
         /\ \A pc, c : LET n == [q EXCEPT !.pc = pc, !.cand = c] IN
              n.pc = pc /\ n.tried = q.tried /\ n.cand = c /\ n.uid = q.uid
              /\ n.sess = q.sess /\ n.model = q.model
         /\ \A u : LET n == [q EXCEPT !.pc = "token", !.uid = u, !.cand = {},
                                      !.tried = @ \cup {u}] IN
              n.pc = "token" /\ n.uid = u /\ n.sess = q.sess /\ n.model = q.model
BY DEF Locals

\* With all accounts available, an untried request may have any of them.
LEMMA AllCandidates ==
  ASSUME CalmInv, calm, Room, NEW r \in Requests, req[r].pc = "pick"
  PROVE  Candidates(r) = Uids
<1>1. req[r].tried = {} /\ cool = {} /\ \A u \in Uids : Available(acc[u])
  BY DEF CalmInv, Smooth, Choosing, Healthy
<1>2. QED BY <1>1 DEF Candidates

LEMMA ResolveCalm ==
  ASSUME ChatInv, CalmInv, calm, Room, NEW r \in Requests, Resolve(r)
  PROVE  CalmInv'
<1> DEFINE q == req[r]
<1>1. /\ q \in Locals /\ q.pc = "pick" /\ q.tried = {} /\ Candidates(r) = Uids
  BY AllCandidates DEF Resolve, ChatInv, ChatTypes, CalmInv, Smooth, Choosing
<1>2. UNCHANGED <<entries, now, cool, drops>> /\ \A u \in Uids : Available(acc'[u])
  BY DEF Resolve, router, CalmInv, Healthy
<1>3. CASE GiveUp(r)
  <2>1. req' = [req EXCEPT ![r] = NoRequest]
    BY <1>3 DEF GiveUp, Answer
  <2>2. QED BY <1>2, <2>1, IdleSmooth, PlainMove
<1>4. CASE req' = [req EXCEPT ![r].pc = "look", ![r].cand = Candidates(r)]
  <2> DEFINE n == [q EXCEPT !.pc = "look", !.cand = Uids]
  <2>1. req' = [req EXCEPT ![r] = n]
    BY <1>1, <1>4
  <2>2. n.pc = "look" /\ n.tried = {} /\ n.cand = Uids
    BY <1>1, Fields
  <2>3. Smooth(entries, n)
    BY <2>2 DEF Smooth, Choosing
  <2>4. QED BY <1>2, <2>1, <2>3, PlainMove
<1>5. CASE req[r].sess = NoSession /\ \E u \in Candidates(r) : Chosen(r, u)
  <2>1. PICK u \in Uids : Chosen(r, u)
    BY <1>1, <1>5
  <2> DEFINE n == [q EXCEPT !.pc = "token", !.uid = u, !.cand = {}, !.tried = @ \cup {u}]
  <2>2. req' = [req EXCEPT ![r] = n]
    BY <2>1 DEF Chosen
  <2>3. n.pc = "token" /\ n.sess = NoSession
    BY <1>1, <1>5, Fields
  <2>4. Smooth(entries, n)
    BY <2>3 DEF Smooth, Choosing
  <2>5. QED BY <1>2, <2>2, <2>4, PlainMove
<1>6. QED BY <1>3, <1>4, <1>5 DEF Resolve

LEMMA LookCalm ==
  ASSUME ChatInv, CalmInv, calm, Room, NEW r \in Requests, ResolveLook(r)
  PROVE  CalmInv'
<1> DEFINE q == req[r]
           e == entries[Key(r)]
<1>1. q \in Locals /\ q.pc = "look" /\ Smooth(entries, q) /\ Key(r) = <<q.sess, q.model>>
  BY DEF ResolveLook, ChatInv, ChatTypes, CalmInv, Key
<1>2. UNCHANGED <<entries, now, cool, drops>> /\ \A u \in Uids : Available(acc'[u])
  BY DEF ResolveLook, router, CalmInv, Healthy
<1>3. CASE Hits(e, q.cand)
  <2> DEFINE n == [q EXCEPT !.pc = "touch", !.uid = e.uid]
  <2>1. req' = [req EXCEPT ![r] = n]
    BY <1>3 DEF ResolveLook
  <2>2. /\ n.pc = "touch" /\ n.tried = q.tried /\ n.cand = q.cand /\ n.uid = e.uid
        /\ n.sess = q.sess /\ n.model = q.model
    BY <1>1, Fields
  <2>3. Smooth(entries, n)
    BY <1>1, <2>2 DEF Smooth, Choosing
  <2>4. QED BY <1>2, <2>1, <2>3, PlainMove
<1>4. CASE ~Hits(e, q.cand)
  <2> DEFINE n == [q EXCEPT !.pc = "assign"]
  <2>1. req' = [req EXCEPT ![r] = n]
    BY <1>4 DEF ResolveLook, Goto
  <2>2. n.pc = "assign" /\ n.tried = q.tried /\ n.cand = q.cand
    BY <1>1, Fields
  <2>3. Smooth(entries, n)
    BY <1>1, <2>2 DEF Smooth, Choosing
  <2>4. QED BY <1>2, <2>1, <2>3, PlainMove
<1>5. QED BY <1>3, <1>4

\* The request gets account u, to which its session is bound in the new table t.
LEMMA ChosenCalm ==
  ASSUME ChatInv, CalmInv, calm, Room, NEW r \in Requests, NEW u,
         Chosen(r, u), UNCHANGED <<now, acc, cool, drops>>, Apart(entries'),
         \A k \in Keys : entries[k].uid # NoUid => entries'[k].uid = entries[k].uid,
         entries'[Key(r)].uid = u
  PROVE  CalmInv'
<1> DEFINE q == req[r]
           n == [q EXCEPT !.pc = "token", !.uid = u, !.cand = {}, !.tried = @ \cup {u}]
<1>1. q \in Locals /\ req' = [req EXCEPT ![r] = n] /\ Key(r) = <<q.sess, q.model>>
  BY DEF Chosen, ChatInv, ChatTypes, Key
<1>2. n.pc = "token" /\ n.uid = u /\ n.sess = q.sess /\ n.model = q.model
  BY <1>1, Fields
<1> HIDE DEF n
<1>3. Smooth(entries', n)
  BY <1>1, <1>2 DEF Smooth, Choosing
<1>4. \A s \in Requests : Smooth(entries', req'[s])
  BY <1>1, <1>3, SmoothMove DEF CalmInv
<1>5. Healthy'
  BY DEF CalmInv, Healthy
<1>6. QED BY <1>4, <1>5 DEF CalmInv

\* The same account is put in again, now.
LEMMA PutSame ==
  ASSUME TableInv, Apart(entries), now = 0, NEW k \in Keys,
         \/ entries' = Put(entries, k, entries[k].uid)
         \/ entries' = [entries EXCEPT ![k].at = now]
         \/ entries' = entries
  PROVE  Apart(entries') /\ \A j \in Keys : entries'[j].uid = entries[j].uid
<1>1. entries \in [Keys -> Entries]
  BY DEF TableInv, RouterType
<1>2. \A j \in Keys : entries'[j].uid = entries[j].uid /\ entries'[j].at \in {0, entries[j].at}
  <2>1. CASE entries' = Put(entries, k, entries[k].uid)
    BY <1>1, <2>1 DEF Put
  <2>2. CASE entries' = [entries EXCEPT ![k].at = now]
    <3>1. entries[k] \in [uid: Uids \cup {NoUid}, at: Nat]
      BY <1>1 DEF Entries, NoEntry
    <3>2. [entries[k] EXCEPT !.at = now].uid = entries[k].uid
          /\ [entries[k] EXCEPT !.at = now].at = 0
      BY <3>1
    <3>3. QED BY <1>1, <2>2, <3>2
  <2>3. QED BY <2>1, <2>2
<1>3. Bound(entries') = Bound(entries)
  BY <1>2 DEF Bound
<1>4. QED BY <1>2, <1>3 DEF Apart, Bound

LEMMA TouchCalm ==
  ASSUME TableInv, ChatInv, CalmInv, calm, Room, NEW r \in Requests, ResolveTouch(r)
  PROVE  CalmInv'
<1>1. Key(r) \in Keys /\ req[r].pc = "touch" /\ req[r].sess # NoSession
  BY SessionKey DEF ResolveTouch, ChatInv, Progress, Placed
<1>2. entries[Key(r)].uid = req[r].uid /\ Apart(entries) /\ now = 0
  BY <1>1 DEF CalmInv, Smooth, Key, Healthy
<1>3. Apart(entries') /\ \A j \in Keys : entries'[j].uid = entries[j].uid
  BY <1>1, <1>2, PutSame DEF ResolveTouch, Touch
<1>4. QED BY <1>1, <1>2, <1>3, ChosenCalm DEF ResolveTouch

LEMMA AssignCalm ==
  ASSUME TableInv, ChatInv, CalmInv, calm, Room, NEW r \in Requests, ResolveAssign(r)
  PROVE  CalmInv'
<1> DEFINE k == Key(r)
<1>1. /\ k \in Keys /\ req[r].pc = "assign" /\ req[r].cand = Uids
      /\ Apart(entries) /\ now = 0 /\ UNCHANGED <<now, acc, cool, drops>>
  BY SessionKey DEF ResolveAssign, ChatInv, Progress, Placed, CalmInv, Smooth, Healthy
<1>2. PICK u \in Uids : Assign(k, Uids, u) /\ Chosen(r, u)
  BY <1>1 DEF ResolveAssign
<1>3. entries \in [Keys -> Entries]
  BY DEF TableInv, RouterType
<1> HIDE DEF k
<1>4. CASE u = entries[k].uid /\ entries' = Put(entries, k, u)
  <2>1. Apart(entries') /\ \A j \in Keys : entries'[j].uid = entries[j].uid
    BY <1>1, <1>4, PutSame
  <2>2. QED BY <1>1, <1>2, <1>4, <2>1, ChosenCalm DEF k
<1>5. CASE /\ ~Hits(entries[k], Uids)
           /\ u \in Idle(Without(entries, {k}), Uids)
           /\ entries' \in Evicted(Put(Without(entries, {k}), k, u))
  <2>1. entries[k].uid = NoUid
    <3>1. FreshEntry(entries[k])
      BY <1>1, RouterAssumption DEF Apart, FreshEntry
    <3>2. QED BY <1>1, <1>3, <1>5, <3>1 DEF Hits, Entries, NoEntry
  <2>2. Without(entries, {k}) = entries
    BY <1>3, <2>1, NoUidAssumption DEF Without, Entries, NoEntry
  <2>3. u \in Uids /\ u \notin {entries[j].uid : j \in Bound(entries)}
    BY <1>1, <1>3, <1>5, <2>1, <2>2, SomeFree DEF Idle
  <2>4. entries' = Put(entries, k, u)
    BY <1>5, <2>2, NoEviction
  <2>5. \A j \in Keys : entries'[j] = IF j = k THEN [uid |-> u, at |-> 0] ELSE entries[j]
    BY <1>1, <1>3, <2>4 DEF Put
  <2>6. Bound(entries') = Bound(entries) \cup {k}
    BY <1>1, <2>3, <2>5, NoUidAssumption DEF Bound
  <2>7. Apart(entries')
    <3>1. \A j \in Keys : entries'[j].at = 0
      BY <1>1, <2>5 DEF Apart
    <3>2. \A j \in Bound(entries) : entries'[j].uid = entries[j].uid \/ j = k
      BY <2>5 DEF Bound
    <3>3. entries'[k].uid = u /\ \A j \in Bound(entries) : j # k => entries[j].uid # u
      BY <1>1, <2>3, <2>5
    <3>4. ASSUME NEW i \in Bound(entries'), NEW j \in Bound(entries'),
                 entries'[i].uid = entries'[j].uid
          PROVE  i = j
      BY <1>1, <2>6, <3>2, <3>3, <3>4 DEF Apart
    <3>5. QED BY <3>1, <3>4 DEF Apart
  <2>8. /\ \A j \in Keys : entries[j].uid # NoUid => entries'[j].uid = entries[j].uid
        /\ entries'[k].uid = u
    BY <1>1, <2>1, <2>5
  <2>9. QED BY <1>1, <1>2, <2>7, <2>8, ChosenCalm DEF k
<1>6. QED BY <1>2, <1>4, <1>5 DEF Assign

LEMMA BindCalm ==
  ASSUME TableInv, ChatInv, CalmInv, calm, Room, NEW r \in Requests, BindSession(r)
  PROVE  CalmInv'
<1> DEFINE q == req[r]
           n == [q EXCEPT !.pc = "stream"]
<1>1. q \in Locals /\ req' = [req EXCEPT ![r] = n] /\ UNCHANGED <<now, acc, cool, drops>>
  BY DEF BindSession, Goto, ChatInv, ChatTypes
<1>2. n.pc = "stream"
  BY <1>1, Fields
<1> HIDE DEF n
<1>3. Smooth(entries', n)
  BY <1>2 DEF Smooth, Choosing
<1>4. Apart(entries') /\ \A j \in Keys : entries[j].uid # NoUid => entries'[j].uid = entries[j].uid
  <2>1. CASE q.sess = NoSession
    BY <2>1 DEF BindSession, CalmInv
  <2>2. CASE q.sess # NoSession
    <3>1. Key(r) \in Keys /\ entries' \in Evicted(Put(entries, Key(r), q.uid))
      BY <2>2, SessionKey DEF BindSession, Bind
    <3>2. q.uid = entries[Key(r)].uid /\ Apart(entries) /\ now = 0
      BY <2>2 DEF BindSession, CalmInv, Smooth, Key, Healthy
    <3>3. entries' = Put(entries, Key(r), entries[Key(r)].uid)
      BY <3>1, <3>2, NoEviction
    <3>4. QED BY <3>1, <3>2, <3>3, PutSame
  <2>3. QED BY <2>1, <2>2
<1>5. \A s \in Requests : Smooth(entries', req'[s])
  BY <1>1, <1>3, <1>4, SmoothMove DEF CalmInv
<1>6. Healthy'
  BY <1>1 DEF CalmInv, Healthy
<1>7. QED BY <1>4, <1>5, <1>6 DEF CalmInv

LEMMA StepCalm ==
  ASSUME TableInv, ChatInv, AccountTypes, CalmInv, calm, Room, NEW r \in Requests, Step(r)
  PROVE  CalmInv'
<1> DEFINE q == req[r]
<1>1. q \in Locals /\ Smooth(entries, q) /\ Progress(q)
  BY DEF ChatInv, ChatTypes, CalmInv
<1>2. ASSUME req' = [req EXCEPT ![r] = NoRequest],
             UNCHANGED <<entries, now, cool, drops, acc>>
      PROVE  CalmInv'
  BY <1>2, IdleSmooth, PlainMove DEF CalmInv, Healthy
<1>3. CASE Ask(r)
  <2>1. acc[q.uid] # Absent
    BY <1>1, <1>3 DEF Ask, Progress, Placed, Locals, CalmInv, Healthy, Available
  <2> DEFINE n == [q EXCEPT !.pc = "wait"]
  <2>2. req' = [req EXCEPT ![r] = n] /\ q.pc = "token"
    BY <1>3, <2>1 DEF Ask, Goto
  <2>3. /\ n.pc = "wait" /\ n.uid = q.uid /\ n.sess = q.sess /\ n.model = q.model
    BY <1>1, Fields
  <2>4. Smooth(entries, n)
    BY <1>1, <2>2, <2>3 DEF Smooth, Choosing
  <2>5. UNCHANGED <<entries, now, cool, drops>> /\ \A u \in Uids : Available(acc'[u])
    BY <1>3 DEF Ask, router, CalmInv, Healthy
  <2>6. QED BY <2>2, <2>4, <2>5, PlainMove
<1>4. CASE Succeed(r)
  <2> DEFINE n == [q EXCEPT !.pc = "bind"]
  <2>1. req' = [req EXCEPT ![r] = n] /\ q.pc = "wait"
    BY <1>4 DEF Succeed, Goto
  <2>2. /\ n.pc = "bind" /\ n.uid = q.uid /\ n.sess = q.sess /\ n.model = q.model
    BY <1>1, Fields
  <2>3. Smooth(entries, n)
    BY <1>1, <2>1, <2>2 DEF Smooth, Choosing
  <2>4. UNCHANGED <<entries, now, cool, drops>>
    BY <1>4 DEF Succeed, router, CalmInv, Healthy
  <2>5. ASSUME NEW u \in Uids PROVE Available(acc'[u])
    <3>1. Available(acc[u]) /\ acc[u] \in AccountStates
      BY DEF CalmInv, Healthy, Available, AccountTypes
    <3>2. Available(AfterSuccess(acc[u]))
      BY <3>1, EventTypes, AbsentAssumption DEF Available, AfterSuccess, AccountStates
    <3>3. QED BY <1>4, <3>1, <3>2 DEF Succeed
  <2>6. QED BY <2>1, <2>3, <2>4, <2>5, PlainMove
<1>5. CASE DropFailed(r) \/ UnbindFailed(r)
  BY <1>1, <1>5 DEF DropFailed, UnbindFailed, Smooth, Choosing
<1>6. CASE Finish(r)
  BY <1>2, <1>6 DEF Finish, Answer, router
<1>7. QED
  BY <1>3, <1>4, <1>5, <1>6, ResolveCalm, LookCalm, TouchCalm, AssignCalm, BindCalm DEF Step

LEMMA CalmStep ==
  ASSUME TableInv, ChatInv, AccountTypes, CalmInv, [Next]_vars
  PROVE  CalmInv'
<1> SUFFICES ASSUME calm', Room PROVE CalmInv'
  BY DEF CalmInv
<1>1. ASSUME NEW r \in Requests, Step(r) PROVE CalmInv'
  <2>1. calm' = calm
    BY <1>1 DEF Step, Resolve, ResolveLook, ResolveTouch, ResolveAssign, Ask, Succeed,
                BindSession, DropFailed, UnbindFailed, Finish, bounds
  <2>2. QED BY <1>1, <2>1, StepCalm
<1>2. ASSUME NEW e, Spend(e) PROVE e = "request" /\ calm
  BY <1>2 DEF Spend
<1>3. ASSUME NEW r \in Requests, Failure(r) PROVE FALSE
  <2>1. Spend("failure")
    BY <1>3 DEF Failure, Transport, Reject, Refuse, Frame
  <2>2. QED BY <1>2, <2>1
<1>4. CASE UNCHANGED vars
  BY <1>4 DEF vars, router, chat, bounds, CalmInv, Healthy
<1>5. ASSUME NEW r \in Requests, NEW s \in Sessions \cup {NoSession}, NEW m \in Models,
             Begin(r, s, m)
      PROVE  CalmInv'
  <2> DEFINE n == NewRequest(s, m)
  <2>1. n.pc = "pick" /\ n.tried = {}
    BY DEF NewRequest
  <2>2. req' = [req EXCEPT ![r] = n] /\ calm
    BY <1>2, <1>5 DEF Begin
  <2> HIDE DEF n
  <2>3. Smooth(entries, n)
    BY <2>1 DEF Smooth, Choosing
  <2>4. UNCHANGED <<entries, now, cool, drops>> /\ \A u \in Uids : Available(acc'[u])
    BY <1>5, <2>2 DEF Begin, router, CalmInv, Healthy
  <2>5. QED BY <2>2, <2>3, <2>4, PlainMove
<1>6. CASE Others
  <2>1. CASE \E u \in Uids : DropDisabled(u)
    BY <2>1 DEF DropDisabled, bounds, CalmInv, Healthy
  <2>2. CASE ~\E u \in Uids : DropDisabled(u)
    <3>1. \E e \in {"reset", "tick", "probe", "remove", "manual", "thaw"} : Spend(e)
      BY <1>6, <2>2 DEF Others, Reset, Tick, ProbeGood, ProbeBad, DeleteAccount,
                        SetManualDisabled, Thaw
    <3>2. QED BY <1>2, <3>1
  <2>3. QED BY <2>1, <2>2
<1>7. QED BY <1>1, <1>3, <1>4, <1>5, <1>6 DEF Next

LEMMA CalmFirst == Init => CalmInv
<1> SUFFICES ASSUME Init PROVE CalmInv
  OBVIOUS
<1>1. Healthy
  BY FreshType, AbsentAssumption DEF Init, RouterInit, Healthy, Available, Fresh
<1>2. Apart(entries)
  BY DEF Init, RouterInit, Apart, Bound, NoEntry
<1>3. \A r \in Requests : Smooth(entries, req[r])
  BY IdleSmooth DEF Init
<1>4. QED BY <1>1, <1>2, <1>3 DEF CalmInv

\* As long as nothing fails, expires or is reset, every session and model has
\* an account of its own, however many requests look and choose at once, and
\* two requests of one session agree on it: the slow path of Resolve looks
\* again under the lock, and what a success binds is what was chosen.
THEOREM OwnWhileCalm ==
  ASSUME IsFiniteSet(Keys), IsFiniteSet(Uids)
  PROVE  Spec => []OwnAccount
<1>1. Init => TableInv /\ ChatInv /\ AccountTypes /\ CalmInv
  <2>1. Init => AccountTypes
    BY FreshType DEF Init, AccountTypes
  <2>2. QED BY <2>1, TableFirst, FirstKeeps, CalmFirst
<1>2. /\ TableInv /\ ChatInv /\ AccountTypes /\ CalmInv /\ [Next]_vars
      => (TableInv /\ ChatInv /\ AccountTypes /\ CalmInv)'
  BY TableStep, StepKeeps, AccountStep, CalmStep DEF Kept
<1>3. CalmInv => OwnAccount
  BY DEF CalmInv, Room, Apart, OwnAccount
<1>4. QED BY <1>1, <1>2, <1>3, PTL DEF Spec

-----------------------------------------------------------------------------
(* A session leaves its account only for a reason. *)

Leaves(k) == entries[k].uid # NoUid /\ entries'[k].uid # entries[k].uid

\* An insertion takes the binding of another key only from a full table.
LEMMA Squeezed ==
  ASSUME TableInv, NEW k \in Keys, NEW j \in Keys, NEW u, NEW t,
         t = entries \/ t = Without(entries, {j}),
         entries' \in Evicted(Put(t, j, u)), k # j, Leaves(k)
  PROVE  entries'[k] = NoEntry /\ Cardinality(Bound(entries)) >= MaxSize
<1> DEFINE p == Put(t, j, u)
           n == Cardinality(Bound(p))
           m == Cardinality(Bound(entries))
<1>1. entries \in [Keys -> Entries] /\ Fits(entries, m) /\ m \in Nat
  BY FS_CardinalityType DEF TableInv, RouterType, Fits
<1>2. DOMAIN t = Keys /\ t[k] = entries[k] /\ Fits(t, m)
  <2>1. CASE t = entries
    BY <1>1, <2>1
  <2>2. CASE t = Without(entries, {j})
    <3>1. Fits(t, m)
      BY <1>1, <2>2, WithoutFits
    <3>2. QED BY <2>2, <3>1 DEF Without
  <2>3. QED BY <2>1, <2>2
<1>3. p[k].uid = entries[k].uid
  BY <1>2 DEF Put
<1>4. Fits(p, m + 1)
  BY <1>1, <1>2, PutFits
<1>5. n \in Nat /\ n <= m + 1 /\ MaxSize \in Nat
  BY <1>1, <1>4, FS_CardinalityType, RouterAssumption DEF Fits
<1> HIDE DEF p
<1>6. entries' \in Evicted(p)
  BY DEF p
<1>7. entries' # p
  BY <1>3 DEF Leaves
<1>8. n > MaxSize /\ \E old : entries' = Without(p, old)
  BY <1>5, <1>6, <1>7 DEF Evicted
<1>9. entries'[k] = NoEntry
  BY <1>3, <1>8 DEF Without, Leaves
<1> HIDE DEF n, m
<1>10. m >= MaxSize
  BY <1>1, <1>5, <1>8
<1>11. QED BY <1>9, <1>10 DEF m

\* Binding a session once more to its account makes the table no longer.
LEMMA Rebound ==
  ASSUME TableInv, NEW k \in Keys, entries[k].uid # NoUid,
         entries' \in Evicted(Put(entries, k, entries[k].uid))
  PROVE  entries'[k].uid = entries[k].uid
<1> DEFINE p == Put(entries, k, entries[k].uid)
<1>1. DOMAIN entries = Keys
  BY DEF TableInv, RouterType
<1>2. \A j \in Keys : p[j].uid = entries[j].uid
  BY <1>1 DEF Put
<1> HIDE DEF p
<1>3. Bound(p) = Bound(entries)
  BY <1>2 DEF Bound
<1>4. Cardinality(Bound(p)) <= MaxSize
  BY <1>3 DEF TableInv, Fits
<1>5. entries' = p
  BY <1>4 DEF Evicted, p
<1>6. QED BY <1>2, <1>5

LEMMA RequestLeaves ==
  ASSUME TableInv, ChatInv, NEW r \in Requests, Step(r), NEW k \in Keys, Leaves(k)
  PROVE  MayLeave(k, entries[k].uid)
<1> DEFINE q == req[r]
<1>0. q \in Locals /\ Progress(q) /\ entries \in [Keys -> Entries]
  BY DEF ChatInv, ChatTypes, TableInv, RouterType
<1>1. ASSUME NEW pc, q.pc # pc, req' = [req EXCEPT ![r].pc = pc]
      PROVE  Moves(r, q.pc)
  <2>1. req'[r].pc = pc
    BY <1>0, <1>1 DEF ChatInv, ChatTypes, Locals
  <2>2. QED BY <1>1, <2>1 DEF Moves
<1>2. CASE Resolve(r) \/ ResolveLook(r) \/ Ask(r) \/ Succeed(r) \/ Finish(r)
  BY <1>2 DEF Resolve, ResolveLook, Ask, Succeed, Finish, router, Leaves
<1>3. CASE ResolveTouch(r)
  <2>1. Key(r) \in Keys
    BY <1>3, SessionKey DEF ResolveTouch, ChatInv, Progress, Placed
  <2>2. entries'[k].uid = entries[k].uid
    <3>1. [entries[k] EXCEPT !.at = now].uid = entries[k].uid
      <4>1. entries[k] \in [uid: Uids \cup {NoUid}, at: Nat]
        BY <1>0 DEF Entries, NoEntry
      <4>2. QED BY <4>1
    <3>2. QED BY <1>0, <1>3, <3>1 DEF ResolveTouch, Touch
  <2>3. QED BY <2>2 DEF Leaves
<1>4. CASE ResolveAssign(r)
  <2>1. Key(r) \in Keys /\ q.pc = "assign"
    BY <1>4, SessionKey DEF ResolveAssign, ChatInv, Progress, Placed
  <2>2. PICK u \in q.cand : Assign(Key(r), q.cand, u) /\ Chosen(r, u)
    BY <1>4 DEF ResolveAssign
  <2>3. Moves(r, "assign")
    <3>1. req'[r].pc = "token"
      BY <1>0, <2>2, Fields DEF Chosen, ChatInv, ChatTypes
    <3>2. QED BY <2>1, <3>1 DEF Moves
  <2>4. CASE u = entries[Key(r)].uid /\ entries' = Put(entries, Key(r), u)
    BY <1>0, <2>1, <2>4 DEF Put, Leaves
  <2>5. CASE ~Hits(entries[Key(r)], q.cand) /\ Key(r) = k
    BY <2>3, <2>5 DEF MayLeave
  <2>6. CASE /\ Key(r) # k
             /\ entries' \in Evicted(Put(Without(entries, {Key(r)}), Key(r), u))
    BY <2>1, <2>3, <2>6, Squeezed DEF MayLeave
  <2>7. QED BY <2>2, <2>4, <2>5, <2>6 DEF Assign
<1>5. CASE BindSession(r)
  <2>1. Moves(r, "bind")
    BY <1>1, <1>5 DEF BindSession, Goto
  <2>2. CASE q.sess = NoSession
    BY <1>5, <2>2 DEF BindSession, Leaves
  <2>3. CASE q.sess # NoSession
    <3>1. Key(r) \in Keys /\ entries' \in Evicted(Put(entries, Key(r), q.uid))
      BY <1>5, <2>3, SessionKey DEF BindSession, Bind
    <3>2. CASE Key(r) # k
      BY <2>1, <3>1, <3>2, Squeezed DEF MayLeave
    <3>3. CASE Key(r) = k
      <4>1. q.uid # entries[k].uid
        BY <3>1, <3>3, Rebound DEF Leaves
      <4>2. QED BY <2>1, <3>3, <4>1 DEF MayLeave
    <3>4. QED BY <3>2, <3>3
  <2>4. QED BY <2>2, <2>3
<1>6. CASE DropFailed(r)
  <2>1. q.pc = "drop" /\ q.next # "drop" /\ q.uid = entries[k].uid
    BY <1>0, <1>6 DEF DropFailed, DropUID, Without, Leaves, Progress, Placed
  <2>2. req'[r].pc = q.next
    BY <1>0, <1>6 DEF DropFailed, ChatInv, ChatTypes, Locals
  <2>3. QED BY <2>1, <2>2 DEF Moves, MayLeave
<1>7. CASE UnbindFailed(r)
  <2>1. q.pc = "unbind" /\ Key(r) = k /\ q.uid = entries[k].uid
    BY <1>0, <1>7 DEF UnbindFailed, UnbindIf, Without, Leaves
  <2>2. req'[r].pc = "pick"
    BY <1>0, <1>7 DEF UnbindFailed, ChatInv, ChatTypes, Locals
  <2>3. QED BY <2>1, <2>2 DEF Moves, MayLeave
<1>8. QED BY <1>2, <1>3, <1>4, <1>5, <1>6, <1>7 DEF Step

LEMMA OtherLeaves ==
  ASSUME TableInv, BoundTypes, Others, NEW k \in Keys, Leaves(k)
  PROVE  MayLeave(k, entries[k].uid)
<1>1. CASE Reset
  <2>1. budget'["reset"] # budget["reset"]
    BY <1>1 DEF Reset, Spend, BoundTypes, Events
  <2>2. QED BY <1>1, <2>1 DEF Reset, ResetSessions, MayLeave
<1>2. ASSUME NEW u \in Uids, DropDisabled(u) PROVE MayLeave(k, entries[k].uid)
  <2>1. u = entries[k].uid
    BY <1>2 DEF DropDisabled, DropUID, Without, Leaves
  <2>2. QED BY <1>2, <2>1 DEF DropDisabled, MayLeave
<1>3. CASE ~Reset /\ ~\E u \in Uids : DropDisabled(u)
  BY <1>3 DEF Others, Tick, ProbeGood, ProbeBad, DeleteAccount, SetManualDisabled, Thaw,
              Change, router, Leaves
<1>4. QED BY <1>1, <1>2, <1>3

\* A conversation changes its account only when that account was dropped or
\* failed it, is no candidate, has expired, or another one has just served the
\* session, and loses it otherwise only to a full table or the panel's reset:
\* no late unbinding of a request takes a newer binding (UnbindIf).
THEOREM SessionsStick == Spec => StickyKept
<1>1. Init => TableInv /\ ChatInv /\ BoundTypes
  <2>1. Init => BoundTypes
    BY ChatAssumption DEF Init, BoundTypes
  <2>2. QED BY <2>1, TableFirst, FirstKeeps
<1>2. TableInv /\ ChatInv /\ BoundTypes /\ [Next]_vars
        => (TableInv /\ ChatInv /\ BoundTypes)'
  BY TableStep, StepKeeps, BoundStep DEF Kept
<1>3. TableInv /\ ChatInv /\ BoundTypes /\ [Next]_vars
        => [\A k \in Keys : entries[k].uid # NoUid /\ entries'[k].uid # entries[k].uid
              => MayLeave(k, entries[k].uid)]_vars
  <2> SUFFICES ASSUME TableInv, ChatInv, BoundTypes, Next, NEW k \in Keys, Leaves(k)
               PROVE  MayLeave(k, entries[k].uid)
    BY DEF Leaves
  <2>1. CASE \E r \in Requests : Step(r)
    BY <2>1, RequestLeaves
  <2>2. CASE Others
    BY <2>2, OtherLeaves
  <2>3. CASE \E r \in Requests : \/ Failure(r)
                                 \/ \E s \in Sessions \cup {NoSession}, m \in Models :
                                      Begin(r, s, m)
    BY <2>3 DEF Failure, Transport, Reject, Refuse, Frame, Begin, router, Leaves
  <2>4. QED BY <2>1, <2>2, <2>3 DEF Next
<1>4. QED BY <1>1, <1>2, <1>3, PTL DEF Spec, StickyKept
=============================================================================
