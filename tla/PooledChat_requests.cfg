SPECIFICATION FairSpec
CONSTANTS
  Absent = Absent
  NoUid = NoUid
  NoSession = NoSession
  Uids = {a, b, c}
  Sessions = {s1, s2}
  Models = {m1}
  Requests = {r1, r2}
  MaxSize = 2
  Ttl = 1
  MaxRetry = 1
  Budgets <- Requesting
INVARIANTS TypeOK OwnAccount
PROPERTIES KeepsPromise RequestAnswered
CHECK_DEADLOCK FALSE
