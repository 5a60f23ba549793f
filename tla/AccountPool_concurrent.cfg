SPECIFICATION Spec
CONSTANTS
  Absent = Absent
  NoUid = NoUid
  Uids = {a}
  Models = {m1}
  Threads = {t1, t2}
  QueueCap = 2
  Budgets <- Concurrent
  Archived = {a}
  Current = NoUid
SYMMETRY ThreadSymmetry
INVARIANTS TypeOK AtMostOneLate ManualStaysOff
PROPERTY QuotaNeedsTwo
CHECK_DEADLOCK FALSE
