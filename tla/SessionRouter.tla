---------------------------- MODULE SessionRouter ----------------------------
(***************************************************************************)
(* pool.Router (internal/pool/router.go): the table that binds a session   *)
(* and a model to an account, and what each of its operations does to the  *)
(* table in one critical section of Router.mu.  Who calls them, and when,  *)
(* is in module PooledChat.                                                *)
(*                                                                         *)
(* hashIndex spreads keys over the candidates; nothing depends on which    *)
(* candidate it lands on, so the choice is left open.                      *)
(***************************************************************************)
EXTENDS Naturals, FiniteSets

CONSTANTS
  Uids, Sessions, Models,
  MaxSize,     \* Router.maxSize
  Ttl,         \* PoolSessionTTL; the configuration keeps it above zero
  NoUid

ASSUME RouterAssumption == MaxSize \in Nat \ {0} /\ Ttl \in Nat \ {0}
ASSUME NoUidAssumption  == NoUid \notin Uids

VARIABLES
  entries,     \* Router.entries, total: an unbound key has NoEntry
  now          \* the clock

router == <<entries, now>>

Keys    == Sessions \X Models
NoEntry == [uid |-> NoUid, at |-> 0]
Entries == [uid: Uids, at: Nat] \cup {NoEntry}

RouterType == entries \in [Keys -> Entries] /\ now \in Nat

RouterInit == entries = [k \in Keys |-> NoEntry] /\ now = 0

-----------------------------------------------------------------------------
Bound(table) == {k \in Keys : table[k].uid # NoUid}

FreshEntry(e) == now - e.at <= Ttl

\* The test of both paths of Resolve.
Hits(e, cand) == e.uid \in cand /\ FreshEntry(e)

Put(table, k, u)    == [table EXCEPT ![k] = [uid |-> u, at |-> now]]
Without(table, gone) == [k \in Keys |-> IF k \in gone THEN NoEntry ELSE table[k]]

\* evictLocked: once over the limit, down to a tenth under it, oldest first.
Excess(n) == n - MaxSize + MaxSize \div 10 + 1

EvictedNot(table) == {table}                                    \* mutant

Evicted(table) ==
  LET full == Bound(table)
      n    == Cardinality(full)
      Oldest(old) == /\ Cardinality(old) = IF Excess(n) < n THEN Excess(n) ELSE n
                     /\ \A j \in old, k \in full \ old : table[j].at <= table[k].at
  IN IF n <= MaxSize THEN {table}
     ELSE {Without(table, old) : old \in {s \in SUBSET full : Oldest(s)}}

\* The slow path's choice: an account no binding uses, or else any.  A
\* binding counts even when it has expired.
IdleAll(table, cand) == cand                                    \* mutant

Idle(table, cand) ==
  LET free == cand \ {table[k].uid : k \in Bound(table)}
  IN IF free = {} THEN cand ELSE free

-----------------------------------------------------------------------------
(* The operations.  k is a key, cand the candidates of the request. *)

Touch(k) ==
  entries' = IF entries[k].uid = NoUid THEN entries
             ELSE [entries EXCEPT ![k].at = now]

\* The slow path, with the account it returns: look again, then reassign.
Assign(k, cand, u) ==
  \/ /\ Hits(entries[k], cand)
     /\ u = entries[k].uid
     /\ entries' = Put(entries, k, u)
  \/ /\ ~Hits(entries[k], cand)
     /\ u \in Idle(Without(entries, {k}), cand)
     /\ entries' \in Evicted(Put(Without(entries, {k}), k, u))

Bind(k, u) == entries' \in Evicted(Put(entries, k, u))

UnbindAny(k, u) == entries' = Without(entries, {k})              \* mutant
UnbindIf(k, u) ==
  entries' = IF entries[k].uid = u THEN Without(entries, {k}) ELSE entries

DropUID(u) == entries' = Without(entries, {k \in Keys : entries[k].uid = u})

ResetSessions == entries' = [k \in Keys |-> NoEntry]
=============================================================================
