----------------------------- MODULE ChatPromise -----------------------------
(***************************************************************************)
(* What a caller of the pooled chat is promised (comments of chatPooled,   *)
(* Manager.Resolve and Retryable), whatever accounts, bindings and other   *)
(* requests do: no account is asked twice; another one is asked only when  *)
(* the last one refused before doing any work; at most 1 + MaxRetry are    *)
(* asked; the last error of the upstream is passed on and never replaced   *)
(* by the gateway's own "pool exhausted".                                  *)
(***************************************************************************)
EXTENDS Naturals, FiniteSets

CONSTANTS Uids, Requests, MaxRetry

VARIABLES
  asked,     \* accounts the request was sent to
  last,      \* what became of the last one
  reply      \* "" while the request is open

promise == <<asked, last, reply>>

\* "refused": before doing any work; "rejected": any other error status.
Outcomes == {"none", "out", "refused", "rejected"}
Replies  == {"answered", "upstream", "exhausted", "unavailable"}

Init ==
  /\ asked = [r \in Requests |-> {}]
  /\ last = [r \in Requests |-> "none"]
  /\ reply \in [Requests -> Replies]

Open(r) == reply[r] = ""

Begin(r) ==
  /\ ~Open(r)
  /\ reply' = [reply EXCEPT ![r] = ""]
  /\ UNCHANGED <<asked, last>>

Ask(r, u) ==
  /\ Open(r) /\ u \notin asked[r] /\ last[r] \in {"none", "refused"}
  /\ Cardinality(asked[r]) <= MaxRetry
  /\ asked' = [asked EXCEPT ![r] = @ \cup {u}]
  /\ last' = [last EXCEPT ![r] = "out"]
  /\ UNCHANGED reply

Fail(r) ==
  /\ Open(r) /\ last[r] = "out"
  /\ \E how \in {"refused", "rejected"} : last' = [last EXCEPT ![r] = how]
  /\ UNCHANGED <<asked, reply>>

\* "unavailable": the request never got an answer from the account.
Reply(r, how) ==
  /\ Open(r)
  /\ CASE how \in {"answered", "unavailable"} -> last[r] = "out"
       [] how = "upstream"  -> last[r] \in {"refused", "rejected"}
       [] how = "exhausted" -> last[r] = "none"
  /\ asked' = [asked EXCEPT ![r] = {}]
  /\ last' = [last EXCEPT ![r] = "none"]
  /\ reply' = [reply EXCEPT ![r] = how]

Next == \E r \in Requests :
          \/ Begin(r) \/ Fail(r)
          \/ \E u \in Uids : Ask(r, u)
          \/ \E how \in Replies : Reply(r, how)

Spec == Init /\ [][Next]_promise
=============================================================================
