SPECIFICATION Spec
CONSTANTS
  Absent = Absent
  NoUid = NoUid
  Uids = {a, b}
  Models = {m1}
  Threads = {t1}
  QueueCap = 2
  Budgets <- OneByOne
  Archived = {a}
  Current = a
INVARIANTS DurableUnlessOvertaken ReloadKeepsManual MembersOnDisk DeletedRowStaysGone
CHECK_DEADLOCK FALSE
