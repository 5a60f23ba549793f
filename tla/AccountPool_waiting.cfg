SPECIFICATION FairSpec
CONSTANTS
  Absent = Absent
  NoUid = NoUid
  Uids = {a}
  Models = {m1}
  Threads = {t1, t2}
  QueueCap = 1
  Budgets <- Stopping
  Archived = {a}
  Current = NoUid
PROPERTIES HandlersNeverWait CloseReturns
CHECK_DEADLOCK FALSE
