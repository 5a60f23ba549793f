SPECIFICATION Spec
CONSTANTS
  Absent = Absent
  NoUid = NoUid
  Uids = {a}
  Models = {m1}
  Threads = {t1, t2}
  QueueCap = 2
  Budgets <- DisableAfterError
  Archived = {a}
  Current = NoUid
INVARIANT UserDisableDurable
CHECK_DEADLOCK FALSE
