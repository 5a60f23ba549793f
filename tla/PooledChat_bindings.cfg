SPECIFICATION Spec
CONSTANTS
  Absent = Absent
  NoUid = NoUid
  NoSession = NoSession
  Uids = {a, b}
  Sessions = {s1, s2}
  Models = {m1}
  Requests = {r1, r2}
  MaxSize = 1
  Ttl = 1
  MaxRetry = 1
  Budgets <- Bindings
SYMMETRY AllSymmetry
INVARIANT TableBounded
PROPERTY StickyKept
CHECK_DEADLOCK FALSE
