SPECIFICATION Spec
CONSTANTS
  Absent = Absent
  NoUid = NoUid
  Uids = {a}
  Models = {m1}
  Threads = {t1}
  QueueCap = 2
  Budgets <- LogoutThenReload
  Archived = {a}
  Current = a
INVARIANT LoggedOutUnused
CHECK_DEADLOCK FALSE
