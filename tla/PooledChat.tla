----------------------------- MODULE PooledChat -----------------------------
(***************************************************************************)
(* proxy.chatPooled and the parts of pool.Manager it calls: a request      *)
(* picks an account, asks it, and on a refusal that cost nothing picks     *)
(* another.  The accounts and cooldowns it looks at (Manager.mu) and the   *)
(* bindings it uses and repairs (Router.mu) are two locks, never held      *)
(* together, so every step below is one critical section or one exchange   *)
(* with the upstream, and the panel, the prober and other requests act in  *)
(* between.  How account states are stored is in module AccountPool.       *)
(***************************************************************************)
EXTENDS AccountState, SessionRouter

CONSTANTS
  Requests,    \* goroutines running Chat
  NoSession,   \* a request without a session key: nothing is bound
  MaxRetry,    \* PoolMaxRetry
  Budgets      \* bounds to explore: how often each environment event happens

Events == {"request", "failure", "manual", "probe", "remove", "reset",
           "thaw", "tick"}

ASSUME ChatAssumption ==
  /\ Models # {} /\ MaxRetry \in Nat /\ NoSession \notin Sessions
  /\ Budgets \subseteq [Events -> Nat]

VARIABLES
  acc,       \* Manager.accounts
  cool,      \* the (account, model) pairs cooling down now
  req,       \* per goroutine, the locals of its request
  drops,     \* accounts some panel or probe goroutine has still to drop
  budget,    \* what is left of the chosen one of Budgets
  calm,      \* history: nothing but requests has happened yet
  reply      \* history: how the last request ended

chat == <<acc, cool, req, drops>>
bounds == <<budget, calm>>
vars == <<router, chat, bounds, reply>>

Steps == {"idle", "pick", "look", "touch", "assign", "token", "wait",
          "bind", "stream", "drop", "unbind", "fail"}

\* A stream reports one error frame; a tool-stall retry opens a second one.
FrameLimit == 2

\* "refused": a kind another account may take over (Retryable); "rejected": any other.
Statuses == {"none", "refused", "rejected"}

Locals == [pc: Steps, next: Steps, sess: Sessions \cup {NoSession},
           model: Models, tried: SUBSET Uids, attempt: Nat, lastStatus: Statuses,
           uid: Uids \cup {NoUid}, cand: SUBSET Uids, frames: 0..FrameLimit]

NewRequest(s, m) ==
  [pc |-> "pick", next |-> "idle", sess |-> s, model |-> m, tried |-> {},
   attempt |-> 0, lastStatus |-> "none", uid |-> NoUid, cand |-> {}, frames |-> 0]

NoRequest == [NewRequest(NoSession, CHOOSE m \in Models : TRUE)
                EXCEPT !.pc = "idle"]

TypeOK ==
  /\ RouterType
  /\ acc \in [Uids -> AccountStates \cup {Absent}]
  /\ cool \subseteq Uids \X Models
  /\ req \in [Requests -> Locals]
  /\ drops \subseteq Uids
  /\ budget \in [Events -> Nat] /\ calm \in BOOLEAN
  /\ reply \in [Requests -> {"answered", "upstream", "exhausted", "unavailable"}]

Init ==
  /\ RouterInit
  /\ acc = [u \in Uids |-> Fresh] /\ cool = {} /\ drops = {}
  /\ req = [r \in Requests |-> NoRequest]
  /\ budget \in Budgets /\ calm = TRUE
  /\ reply = [r \in Requests |-> "answered"]

-----------------------------------------------------------------------------
Spend(e) ==
  /\ budget[e] > 0 /\ budget' = [budget EXCEPT ![e] = @ - 1]
  /\ calm' = (calm /\ e = "request")

Key(r) == <<req[r].sess, req[r].model>>

Goto(r, pc) == req' = [req EXCEPT ![r].pc = pc]

\* Resolve has returned u.
Chosen(r, u) ==
  req' = [req EXCEPT ![r].pc = "token", ![r].uid = u, ![r].cand = {},
                     ![r].tried = @ \cup {u}]

Answer(r, how) ==
  /\ req' = [req EXCEPT ![r] = NoRequest]
  /\ reply' = [reply EXCEPT ![r] = how]

\* chatPooled's two places without an account to ask: an upstream error, if
\* there was one, comes first.
GiveUpNot(r) == UNCHANGED <<req, reply>>        \* mutant: look again and again
GiveUp(r) == Answer(r, IF req[r].lastStatus = "none" THEN "exhausted" ELSE "upstream")

Begin(r, s, m) ==
  /\ req[r].pc = "idle" /\ Spend("request")
  /\ req' = [req EXCEPT ![r] = NewRequest(s, m)]
  /\ UNCHANGED <<router, acc, cool, drops, reply>>

\* Manager.Available, less the accounts this request has tried.
CandidatesAll(r) ==                                             \* mutant
  {u \in Uids : Available(acc[u]) /\ <<u, req[r].model>> \notin cool}
Candidates(r) ==
  {u \in Uids \ req[r].tried :
     Available(acc[u]) /\ <<u, req[r].model>> \notin cool}

Resolve(r) ==
  /\ req[r].pc = "pick"
  /\ \/ /\ Candidates(r) = {}
        /\ GiveUp(r)
     \/ /\ Candidates(r) # {} /\ req[r].sess # NoSession
        /\ req' = [req EXCEPT ![r].pc = "look", ![r].cand = Candidates(r)]
        /\ UNCHANGED reply
     \/ /\ req[r].sess = NoSession
        /\ \E u \in Candidates(r) : Chosen(r, u)
        /\ UNCHANGED reply
  /\ UNCHANGED <<router, acc, cool, drops, bounds>>

\* The fast path reads under RLock and touches under Lock.
ResolveLook(r) ==
  LET e == entries[Key(r)] IN
  /\ req[r].pc = "look"
  /\ IF Hits(e, req[r].cand)
     THEN req' = [req EXCEPT ![r].pc = "touch", ![r].uid = e.uid]
     ELSE Goto(r, "assign")
  /\ UNCHANGED <<router, acc, cool, drops, bounds, reply>>

ResolveTouch(r) ==
  /\ req[r].pc = "touch"
  /\ Touch(Key(r)) /\ Chosen(r, req[r].uid)
  /\ UNCHANGED <<now, acc, cool, drops, bounds, reply>>

ResolveAssign(r) ==
  /\ req[r].pc = "assign"
  /\ \E u \in req[r].cand : Assign(Key(r), req[r].cand, u) /\ Chosen(r, u)
  /\ UNCHANGED <<now, acc, cool, drops, bounds, reply>>

\* Manager.TokenStore, then DoChatWith.
Ask(r) ==
  LET u == req[r].uid IN
  /\ req[r].pc = "token"
  /\ \/ /\ acc[u] = Absent
        /\ GiveUp(r)
     \/ /\ acc[u] # Absent
        /\ Goto(r, "wait")
        /\ UNCHANGED reply
  /\ UNCHANGED <<router, acc, cool, drops, bounds>>

\* No answer at all: neither a retry nor a punishment.
Transport(r) ==
  /\ req[r].pc = "wait" /\ Spend("failure")
  /\ Answer(r, "unavailable")
  /\ UNCHANGED <<router, acc, cool, drops>>

\* NoteSuccess.
Succeed(r) ==
  LET u == req[r].uid IN
  /\ req[r].pc = "wait"
  /\ acc' = [acc EXCEPT ![u] = IF @ = Absent THEN @ ELSE AfterSuccess(@)]
  /\ cool' = cool \ {<<u, req[r].model>>}
  /\ Goto(r, "bind")
  /\ UNCHANGED <<router, drops, bounds, reply>>

\* Bind, whatever has happened to the account since.
BindSession(r) ==
  /\ req[r].pc = "bind" /\ Goto(r, "stream")
  /\ IF req[r].sess = NoSession THEN UNCHANGED entries
                                ELSE Bind(Key(r), req[r].uid)
  /\ UNCHANGED <<now, acc, cool, drops, bounds, reply>>

\* NoteError, which goes on to DropUID when it has just disabled the account.
Punish(r, kind, next, status) ==
  LET u == req[r].uid IN
  /\ acc' = [acc EXCEPT ![u] = IF @ = Absent THEN @ ELSE AfterError(@, kind)]
  /\ cool' = IF kind = "rate" /\ acc[u] # Absent
             THEN cool \cup {<<u, req[r].model>>} ELSE cool
  /\ LET now_off == acc[u] # Absent /\ acc[u].auto = "" /\ acc'[u].auto # ""
     IN req' = [req EXCEPT ![r].pc = IF now_off THEN "drop" ELSE next,
                           ![r].next = IF now_off THEN next ELSE "idle",
                           ![r].lastStatus = status,
                           ![r].frames = IF next = "stream" THEN @ + 1 ELSE @]

MayRetryOnce(r) == req[r].attempt <= MaxRetry                   \* mutant
MayRetry(r) == req[r].attempt < MaxRetry

\* A rate limit, an empty quota or a dead credential: another account may
\* take over.  Any other error status is passed on.
Refuse(r, kind) ==
  /\ req[r].pc = "wait" /\ Spend("failure")
  /\ Punish(r, kind, IF MayRetry(r) THEN "unbind" ELSE "fail", "refused")
  /\ UNCHANGED <<router, drops, reply>>

Reject(r) ==
  /\ req[r].pc = "wait" /\ Spend("failure")
  /\ req' = [req EXCEPT ![r].pc = "fail", ![r].lastStatus = "rejected"]
  /\ UNCHANGED <<router, acc, cool, drops, reply>>

\* The error frame inside a stream; its status is 200, so it is never 401.
Frame(r, kind) ==
  /\ req[r].pc = "stream" /\ req[r].frames < FrameLimit /\ Spend("failure")
  /\ Punish(r, kind, "stream", req[r].lastStatus)
  /\ UNCHANGED <<router, drops, reply>>

DropFailed(r) ==
  /\ req[r].pc = "drop"
  /\ DropUID(req[r].uid)
  /\ req' = [req EXCEPT ![r].pc = req[r].next, ![r].next = "idle"]
  /\ UNCHANGED <<now, acc, cool, drops, bounds, reply>>

UnbindFailed(r) ==
  /\ req[r].pc = "unbind"
  /\ IF req[r].sess = NoSession THEN UNCHANGED entries
                                ELSE UnbindIf(Key(r), req[r].uid)
  /\ req' = [req EXCEPT ![r].pc = "pick", ![r].uid = NoUid,
                        ![r].attempt = @ + 1]
  /\ UNCHANGED <<now, acc, cool, drops, bounds, reply>>

Finish(r) ==
  /\ \/ req[r].pc = "fail" /\ Answer(r, "upstream")
     \/ req[r].pc = "stream" /\ Answer(r, "answered")
  /\ UNCHANGED <<router, acc, cool, drops, bounds>>

Step(r) ==
  \/ Resolve(r) \/ ResolveLook(r) \/ ResolveTouch(r) \/ ResolveAssign(r)
  \/ Ask(r) \/ Succeed(r) \/ BindSession(r)
  \/ DropFailed(r) \/ UnbindFailed(r) \/ Finish(r)

Failure(r) ==
  \/ Transport(r) \/ Reject(r)
  \/ \E kind \in PunishingKinds : Refuse(r, kind)
  \/ \E kind \in {"rate", "quota"} : Frame(r, kind)

-----------------------------------------------------------------------------
(* Everybody else: the panel, the prober, time. *)

Change(u, s) ==
  /\ acc' = [acc EXCEPT ![u] = s]
  /\ UNCHANGED <<router, req, reply>>

SetManualDisabled(u, off) ==
  /\ acc[u] # Absent /\ Spend("manual")
  /\ Change(u, AfterManual(acc[u], off))
  /\ drops' = IF off THEN drops \cup {u} ELSE drops
  /\ UNCHANGED cool

ProbeBad(u, reason) ==
  /\ acc[u] # Absent /\ Spend("probe")
  /\ Change(u, Condemned(acc[u], reason))
  /\ drops' = drops \cup {u}
  /\ UNCHANGED cool

ProbeGood(u) ==
  /\ acc[u] # Absent /\ Spend("probe")
  /\ Change(u, Recovered(acc[u]))
  /\ UNCHANGED <<cool, drops>>

DeleteAccount(u) ==
  /\ acc[u] # Absent /\ Spend("remove")
  /\ Change(u, Absent)
  /\ cool' = {c \in cool : c[1] # u}
  /\ drops' = drops \cup {u}

DropDisabled(u) ==
  /\ u \in drops /\ drops' = drops \ {u}
  /\ DropUID(u)
  /\ UNCHANGED <<now, acc, cool, req, bounds, reply>>

\* The cooldown runs out, or the panel clears it.
Thaw(u, m) ==
  /\ <<u, m>> \in cool /\ Spend("thaw")
  /\ cool' = cool \ {<<u, m>>}
  /\ UNCHANGED <<router, acc, req, drops, reply>>

Reset ==
  /\ Spend("reset") /\ ResetSessions
  /\ UNCHANGED <<now, chat, reply>>

Tick ==
  /\ Spend("tick") /\ now' = now + 1
  /\ UNCHANGED <<entries, chat, reply>>

Others ==
  \/ Reset \/ Tick
  \/ \E u \in Uids :
       \/ ProbeGood(u) \/ DeleteAccount(u) \/ DropDisabled(u)
       \/ \E off \in BOOLEAN : SetManualDisabled(u, off)
       \/ \E reason \in AutoReasons : ProbeBad(u, reason)
       \/ \E m \in Models : Thaw(u, m)

Next ==
  \/ \E r \in Requests :
       \/ Step(r) \/ Failure(r)
       \/ \E s \in Sessions \cup {NoSession}, m \in Models : Begin(r, s, m)
  \/ Others

Spec == Init /\ [][Next]_vars

\* A running request goes on and the upstream answers it in the end, if only
\* by the client's timeout.
FairSpec == Spec /\ \A r \in Requests : WF_vars(Step(r) \/ Failure(r))
-----------------------------------------------------------------------------
(* Each request, whatever the others and the panel do, keeps what the        *)
(* comments of chatPooled promise its caller: no account twice, another one  *)
(* only after a free refusal, at most 1 + MaxRetry, the upstream's error     *)
(* before the gateway's own 503.                                             *)
\* The accounts the request was sent to: the one just chosen is in tried already.
Sent(r) == IF req[r].pc = "token" THEN req[r].tried \ {req[r].uid}
                                  ELSE req[r].tried

\* The last one asked is at work, or has answered.
Working(r) == \/ req[r].pc \in {"wait", "bind"}
              \/ "stream" \in {req[r].pc, req[r].next}

Asked   == [r \in Requests |-> Sent(r)]
Last    == [r \in Requests |-> IF Working(r) THEN "out" ELSE req[r].lastStatus]
Replied == [r \in Requests |-> IF req[r].pc = "idle" THEN reply[r] ELSE ""]

Promise == INSTANCE ChatPromise WITH asked <- Asked, last <- Last, reply <- Replied
KeepsPromise == Promise!Spec

(* A session leaves its account only for a reason the code names: this very  *)
(* account was dropped, failed this session or is no candidate of its        *)
(* request, the binding expired, another account has just served the         *)
(* session, or the table was full or reset (Resolve's second look, UnbindIf, *)
(* DropUID, Bind, evictLocked).                                              *)
Moves(r, pc) == req[r].pc = pc /\ req'[r].pc # pc

MayLeave(k, u) ==
  \/ \A j \in Keys : entries'[j] = NoEntry /\ budget'["reset"] # budget["reset"]
  \/ u \in drops \ drops'
  \/ \E r \in Requests :
       \/ Moves(r, "drop") /\ req[r].uid = u
       \/ /\ Key(r) = k
          /\ \/ Moves(r, "unbind") /\ req[r].uid = u
             \/ Moves(r, "bind") /\ req[r].uid # u
             \/ Moves(r, "assign") /\ ~Hits(entries[k], req[r].cand)
       \/ /\ Moves(r, "bind") \/ Moves(r, "assign")
          /\ entries'[k] = NoEntry /\ Cardinality(Bound(entries)) >= MaxSize

StickyKept ==
  [][\A k \in Keys : entries[k].uid # NoUid /\ entries'[k].uid # entries[k].uid
       => MayLeave(k, entries[k].uid)]_vars

(* The table never holds more than MaxSize bindings, whichever of Resolve    *)
(* and Bind adds the last one (evictLocked).                                 *)
TableBounded == Cardinality(Bound(entries)) <= MaxSize

(* As long as nothing has failed, expired or been reset, as many sessions    *)
(* as accounts have an account each, even when their first requests come at  *)
(* once (comment of Resolve: four conversations on four accounts).           *)
OwnAccount ==
  calm /\ Cardinality(Keys) <= Cardinality(Uids) /\ Cardinality(Keys) <= MaxSize
    => \A j, k \in Bound(entries) : entries[j].uid = entries[k].uid => j = k

(* Every request gets its answer.                                            *)
RequestAnswered == \A r \in Requests : req[r].pc # "idle" ~> req[r].pc = "idle"
=============================================================================
