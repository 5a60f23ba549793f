---------------------------- MODULE Credentials ----------------------------
(***************************************************************************)
(* auth.TokenStore and auth.AccountBook: a credential lives in a file      *)
(* (token.json or an archive in data/accounts) and in the memory of every  *)
(* TokenStore that loaded it.  The panel has one store, on token.json; the *)
(* pool has one per member, on token.json for the account that is there    *)
(* when it loads and on the archive for the others.  Each store has its    *)
(* own mu and refreshMu, so a refresh of one is invisible to the others.   *)
(*                                                                         *)
(* A goroutine runs a chat (which refreshes its store when the credential  *)
(* has expired, and once more after a 401), or a handler of the panel that *)
(* changes the credentials.  A critical section, an exchange with the      *)
(* upstream or an access to a file is one step.                            *)
(***************************************************************************)
EXTENDS Naturals

CONSTANTS
  Uids, Threads,
  None,        \* no credential: a nil Token, a file that is not there
  Main,        \* the path of token.json; an archive's path is its uid
  Panel,       \* the store of the panel
  Loads,       \* how often the pool may load its members after the start
  Budgets      \* bounds to explore: how often each environment event happens

Events == {"use", "deny", "expire", "login", "import", "activate", "remove",
           "logout", "reload", "heal"}

\* Credentials of an account are numbered as the upstream issues them.
Tokens == [uid: Uids, gen: Nat]
Paths  == Uids \cup {Main}

\* The pool makes new stores each time it loads; a chat may still hold an
\* old one.
Epochs == 0..Loads
Pool   == Epochs \X Uids
Stores == Pool \cup {Panel}

ASSUME NoneAssumption  == None \notin Tokens \cup Paths
ASSUME MainAssumption  == Main \notin Uids
ASSUME PanelAssumption == Panel \notin Pool
ASSUME BoundAssumption == Loads \in Nat /\ Budgets \subseteq [Events -> Nat]

VARIABLES
  file,      \* contents of token.json and of the archives
  mem,       \* TokenStore.t of every store
  path,      \* TokenStore.path of the pool's stores
  epoch, members,     \* Manager.toks: <<epoch, u>> for each member u
  job,       \* per goroutine, what it is doing
  issued,    \* the upstream: the number of the newest credential
  expired,   \* credentials past their time
  budget,
  owner,     \* history: the account the user last logged in, None after logout
  torn,      \* history: token.json changed its account while the pool loaded
  kept       \* history: the newest credential of an account a store or the
             \* book was given to keep

disk  == <<file, mem, path>>
pool  == <<epoch, members>>
world == <<issued, expired>>
hist  == <<owner, torn, kept>>
vars  == <<disk, pool, job, world, budget, hist>>

Idle == [pc |-> "idle"]

\* A refresh: "same" says that the store's memory was not replaced since the
\* refresh read it (s.t == t compares pointers).
Refresh(pc, s, force) ==
  [pc |-> pc, store |-> s, force |-> force, from |-> None, same |-> TRUE]

Jobs ==
  {Idle}
    \cup [pc: {"asked", "enter"}, store: Stores, force: BOOLEAN,
          from: {None}, same: BOOLEAN]
    \cup [pc: {"wait", "save"}, store: Stores, force: BOOLEAN,
          from: Tokens, same: BOOLEAN]
    \cup [pc: {"archive"}, from: Tokens, next: Tokens \cup {None}]
    \cup [pc: {"install"}, next: Tokens]
    \cup [pc: {"list"}]
    \cup [pc: {"open"}, seen: [Uids -> Paths \cup {None}]]
    \cup [pc: {"clear"}, uid: Uids \cup {None}]
    \cup [pc: {"delete", "forget"}, uid: Uids]

TypeOK ==
  /\ file \in [Paths -> Tokens \cup {None}]
  /\ mem \in [Stores -> Tokens \cup {None}]
  /\ path \in [Pool -> Paths]
  /\ epoch \in Epochs /\ members \subseteq Uids
  /\ job \in [Threads -> Jobs]
  /\ issued \in [Uids -> Nat] /\ expired \subseteq Tokens
  /\ budget \in [Events -> Nat]
  /\ owner \in Uids \cup {None} /\ torn \in BOOLEAN
  /\ kept \in [Uids -> Nat]

-----------------------------------------------------------------------------
(* reloadMembers: the members, each with the file its store is made from.   *)
(* The account in token.json is read from there, not from its archive.      *)
ActiveFromMemory == mem[Panel]                                   \* mutant
ActiveOnDisk == file[Main]

Listed ==
  [u \in Uids |-> IF ActiveOnDisk # None /\ ActiveOnDisk.uid = u THEN Main
                  ELSE IF file[u] # None THEN u ELSE None]

First(u) == [uid |-> u, gen |-> 0]

\* A start with any accounts on the disk; the panel and then the pool load.
Init ==
  /\ \E archived \in SUBSET Uids, current \in Uids \cup {None} :
       /\ file = [p \in Paths |->
                    IF p \in archived THEN First(p)
                    ELSE IF p = Main /\ current # None THEN First(current)
                    ELSE None]
       /\ members = archived \cup ({current} \ {None})
       /\ path = [s \in Pool |-> IF s[2] = current THEN Main ELSE s[2]]
       /\ mem = [s \in Stores |->
                   IF s = Panel THEN file[Main]
                   ELSE IF s[1] = 0 /\ s[2] \in members THEN First(s[2])
                   ELSE None]
       /\ owner = current
  /\ epoch = 0
  /\ job = [g \in Threads |-> Idle]
  /\ issued = [u \in Uids |-> 0] /\ expired = {}
  /\ budget \in Budgets
  /\ torn = FALSE /\ kept = [u \in Uids |-> 0]

-----------------------------------------------------------------------------
Spend(e) == budget[e] > 0 /\ budget' = [budget EXCEPT ![e] = @ - 1]

Free(g) == job[g].pc = "idle"
Refreshing(g) == job[g].pc \in {"wait", "save"}
Goto(g, j) == job' = [job EXCEPT ![g] = j]

\* The refreshes of store s that read its memory before now lose it.
Replaced(s) ==
  [g \in Threads |-> IF Refreshing(g) /\ job[g].store = s
                     THEN [job[g] EXCEPT !.same = FALSE] ELSE job[g]]

Tearing(p, t) ==
  torn' = (torn \/ /\ p = Main /\ \E g \in Threads : job[g].pc = "open"
                   /\ file[Main] = None \/ file[Main].uid # t.uid)

\* TokenStore.Save: the file, then the memory, under mu.
Save(s, t) ==
  LET p == IF s = Panel THEN Main ELSE path[s] IN
  /\ file' = [file EXCEPT ![p] = t]
  /\ mem' = [mem EXCEPT ![s] = t]
  /\ Tearing(p, t)

Newest(u) == [uid |-> u, gen |-> issued[u] + 1]
Issue(u) == issued' = [issued EXCEPT ![u] = @ + 1]

-----------------------------------------------------------------------------
(* Using a store: doChatWith and its like. *)

Live == {Panel} \cup {<<epoch, u>> : u \in members}

\* EnsureValid returns at once unless the credential has expired.
Use(g, s) ==
  /\ Free(g) /\ mem[s] # None /\ Spend("use")
  /\ Goto(g, Refresh(IF mem[s] \in expired THEN "enter" ELSE "asked", s, FALSE))
  /\ UNCHANGED <<disk, pool, world, hist>>

\* The upstream says 401: ForceRefresh, unless the store was cleared.
Unauthorized(g) ==
  /\ job[g].pc = "asked" /\ Spend("deny")
  /\ Goto(g, IF mem[job[g].store] = None THEN Idle
             ELSE Refresh("enter", job[g].store, TRUE))
  /\ UNCHANGED <<disk, pool, world, hist>>

Served(g) ==
  /\ job[g].pc = "asked" /\ Goto(g, Idle)
  /\ UNCHANGED <<disk, pool, world, budget, hist>>

\* After EnsureValid, successful or not, the chat is sent; after ForceRefresh
\* it is sent a last time or refused.
After(g) == IF job[g].force THEN Idle ELSE Refresh("asked", job[g].store, FALSE)

LockHeldEarly(s) ==                                              \* mutant
  \E h \in Threads : (Refreshing(h) \/ job[h].pc = "enter") /\ job[h].store = s
LockHeld(s) == \E h \in Threads : Refreshing(h) /\ job[h].store = s

NeededBlindly(s, force) == force \/ mem[s] \in expired           \* mutant
NeededAlways(s, force) == mem[s] # None                          \* mutant
Needed(s, force) == mem[s] # None /\ (force \/ mem[s] \in expired)

\* refresh: with refreshMu held, look again.
Look(g) ==
  LET s == job[g].store IN
  /\ job[g].pc = "enter" /\ ~LockHeld(s)
  /\ Goto(g, IF Needed(s, job[g].force)
             THEN [job[g] EXCEPT !.pc = "wait", !.from = mem[s], !.same = TRUE]
             ELSE After(g))
  /\ UNCHANGED <<disk, pool, world, budget, hist>>

\* RefreshFn: the upstream issues a new credential of the same account, or
\* refuses, or cannot be reached.
Renewed(g) ==
  LET u == job[g].from.uid IN
  /\ job[g].pc = "wait"
  /\ Issue(u)
  /\ Goto(g, [job[g] EXCEPT !.pc = "save", !.from = Newest(u)])
  /\ UNCHANGED <<disk, pool, expired, budget, hist>>

NotRenewed(g) ==
  /\ job[g].pc = "wait" /\ Goto(g, After(g))
  /\ UNCHANGED <<disk, pool, world, budget, hist>>

SameAlways(g) == TRUE                                            \* mutant
Same(g) == job[g].same

\* The new credential is kept only if the memory is still the one refreshed.
Keep(g) ==
  LET s == job[g].store   t == job[g].from IN
  /\ job[g].pc = "save" /\ Goto(g, After(g))
  /\ IF Same(g)
     THEN Save(s, t) /\ kept' = [kept EXCEPT ![t.uid] = t.gen]
     ELSE UNCHANGED <<file, mem, torn, kept>>
  /\ UNCHANGED <<path, pool, world, budget, owner>>

-----------------------------------------------------------------------------
(* The panel. *)

PanelUid == IF mem[Panel] = None THEN None ELSE mem[Panel].uid

PanelSave(g, t, j) ==
  /\ Save(Panel, t)
  /\ job' = [Replaced(Panel) EXCEPT ![g] = j]
  /\ owner' = t.uid

\* oauthPoll, accountImport with activate: Save, then the archive.
Login(g, u) ==
  /\ Free(g) /\ Spend("login")
  /\ Issue(u) /\ kept' = [kept EXCEPT ![u] = issued[u] + 1]
  /\ PanelSave(g, Newest(u),
               [pc |-> "archive", from |-> Newest(u), next |-> None])
  /\ UNCHANGED <<path, pool, expired>>

\* accountImport, accountImportBatch: an archive only.
Import(u) ==
  /\ Spend("import")
  /\ Issue(u) /\ kept' = [kept EXCEPT ![u] = issued[u] + 1]
  /\ file' = [file EXCEPT ![u] = Newest(u)]
  /\ UNCHANGED <<mem, path, pool, job, expired, owner, torn>>

\* listAccounts archives the active account when it has no archive.
Heal(g) ==
  LET t == mem[Panel] IN
  /\ Free(g) /\ t # None /\ file[t.uid] = None /\ Spend("heal")
  /\ Goto(g, [pc |-> "archive", from |-> t, next |-> None])
  /\ UNCHANGED <<disk, pool, world, hist>>

\* activateAccount: archive what the panel holds, save the chosen archive in
\* its place, reload the members.
Activate(g, u) ==
  LET cur == mem[Panel] IN
  /\ Free(g) /\ file[u] # None /\ Spend("activate")
  /\ PanelUid # u
  /\ Goto(g, IF cur = None THEN [pc |-> "install", next |-> file[u]]
             ELSE [pc |-> "archive", from |-> cur, next |-> file[u]])
  /\ UNCHANGED <<disk, pool, world, hist>>

Archive(g) ==
  LET t == job[g].from   n == job[g].next IN
  /\ job[g].pc = "archive"
  /\ file' = [file EXCEPT ![t.uid] = t]
  /\ Goto(g, IF n = None THEN Idle ELSE [pc |-> "install", next |-> n])
  /\ UNCHANGED <<mem, path, pool, world, budget, hist>>

Install(g) ==
  /\ job[g].pc = "install"
  /\ PanelSave(g, job[g].next, [pc |-> "list"])
  /\ UNCHANGED <<path, pool, world, budget, kept>>

\* The settings of the pool were saved.
Reload(g) ==
  /\ Free(g) /\ Spend("reload") /\ Goto(g, [pc |-> "list"])
  /\ UNCHANGED <<disk, pool, world, hist>>

List(g) ==
  /\ job[g].pc = "list" /\ Goto(g, [pc |-> "open", seen |-> Listed])
  /\ UNCHANGED <<disk, pool, world, budget, hist>>

\* Under Manager.mu every store reads its file again; a file that has gone
\* makes a member without a credential.
Open(g) ==
  LET seen == job[g].seen IN
  /\ job[g].pc = "open" /\ epoch < Loads
  /\ Goto(g, Idle)
  /\ epoch' = epoch + 1
  /\ members' = {u \in Uids : seen[u] # None}
  /\ path' = [s \in Pool |-> IF s[1] = epoch' /\ s[2] \in members'
                             THEN seen[s[2]] ELSE path[s]]
  /\ mem' = [s \in Stores |-> IF s # Panel /\ s[1] = epoch' /\ s[2] \in members'
                              THEN file[seen[s[2]]] ELSE mem[s]]
  /\ UNCHANGED <<file, world, budget, hist>>

\* accountDelete: note who it is, Clear, then the pool's DeleteAccount.
Logout(g) ==
  /\ Free(g) /\ Spend("logout")
  /\ Goto(g, [pc |-> "clear", uid |-> PanelUid])
  /\ UNCHANGED <<disk, pool, world, hist>>

Clear(g) ==
  LET u == job[g].uid IN
  /\ job[g].pc = "clear"
  /\ file' = [file EXCEPT ![Main] = None]
  /\ mem' = [mem EXCEPT ![Panel] = None]
  /\ job' = [Replaced(Panel) EXCEPT ![g] =
               IF u = None THEN Idle ELSE [pc |-> "forget", uid |-> u]]
  /\ owner' = None
  /\ torn' = (torn \/ \E h \in Threads : job[h].pc = "open")
  /\ UNCHANGED <<path, pool, world, budget, kept>>

\* deleteAccountProfile: never the active account, at the time of the look.
Remove(g, u) ==
  /\ Free(g) /\ file[u] # None /\ PanelUid # u /\ Spend("remove")
  /\ Goto(g, [pc |-> "delete", uid |-> u])
  /\ UNCHANGED <<disk, pool, world, hist>>

Delete(g) ==
  LET u == job[g].uid IN
  /\ job[g].pc = "delete"
  /\ file' = [file EXCEPT ![u] = None]
  /\ Goto(g, [pc |-> "forget", uid |-> u])
  /\ UNCHANGED <<mem, path, pool, world, budget, hist>>

Forget(g) ==
  /\ job[g].pc = "forget"
  /\ members' = members \ {job[g].uid}
  /\ Goto(g, Idle)
  /\ UNCHANGED <<disk, epoch, world, budget, hist>>

Expire(t) ==
  /\ t \notin expired /\ Spend("expire")
  /\ expired' = expired \cup {t}
  /\ UNCHANGED <<disk, pool, job, issued, hist>>
-----------------------------------------------------------------------------
Handlers(g) ==
  \/ \E s \in Live : Use(g, s)
  \/ Heal(g) \/ Reload(g) \/ Logout(g)
  \/ \E u \in Uids : Login(g, u) \/ Activate(g, u) \/ Remove(g, u)

Step(g) ==
  \/ Served(g) \/ Look(g) \/ Renewed(g) \/ NotRenewed(g) \/ Keep(g)
  \/ Archive(g) \/ Install(g) \/ List(g) \/ Open(g)
  \/ Clear(g) \/ Delete(g) \/ Forget(g)

Next ==
  \/ \E g \in Threads : Handlers(g) \/ Unauthorized(g) \/ Step(g)
  \/ \E u \in Uids : Import(u)
  \/ \E s \in Live : mem[s] # None /\ Expire(mem[s])

Spec == Init /\ [][Next]_vars

\* A running goroutine goes on, and the upstream answers its refresh, if only
\* by the client's timeout.  A 401 need never come.
FairSpec == Spec /\ \A g \in Threads : WF_vars(Step(g))
-----------------------------------------------------------------------------
(* The panel's store holds the account the user last logged in or switched   *)
(* to, and nothing after a logout: no refresh that was waiting for the       *)
(* upstream brings an earlier one back (comment of TokenStore.refresh).      *)
PanelFollowsUser == PanelUid = owner

(* A member of the pool never chats with the credential of another account   *)
(* (comment of NewTokenStorePath), unless token.json changed its account     *)
(* while the members were loaded, which reads it twice.                      *)
OwnCredential ==
  ~torn => \A u \in members :
             mem[<<epoch, u>>] # None => mem[<<epoch, u>>].uid = u

(* However many goroutines find one credential expired, their store renews   *)
(* it once: a refresh that was not forced only replaces an expired one       *)
(* (comment of refresh: look again once inside).                             *)
RenewedOnce ==
  [][\A g \in Threads :
       Keep(g) /\ ~job[g].force /\ mem' # mem => mem[job[g].store] \in expired]_vars

(* Every chat and every handler ends: waiting for another goroutine's        *)
(* refresh is never for ever.                                                *)
EverythingEnds == \A g \in Threads : job[g].pc # "idle" ~> job[g].pc = "idle"

-----------------------------------------------------------------------------
(* What the comments say and the code does not do.                           *)
Quiescent == \A g \in Threads : Free(g)

(* token.go:250: the check before saving keeps a refresh from overwriting    *)
(* what a login or a logout put there.                                       *)
RefreshKeepsLogin ==
  Quiescent => owner = IF file[Main] = None THEN None ELSE file[Main].uid

(* admin.go:862: archiving the current account before a switch keeps its     *)
(* newest credential.                                                        *)
Has(p, u) == file[p] # None /\ file[p].uid = u
NewestOnDisk ==
  Quiescent => \A u \in Uids : Has(u, u) \/ Has(Main, u) =>
                 \E p \in Paths : Has(p, u) /\ file[p].gen = kept[u]
=============================================================================
