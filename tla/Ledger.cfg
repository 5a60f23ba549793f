SPECIFICATION FairSpec
CONSTANTS
  Absent = Absent
  MaxKeys = 2
  p1 = p1
  p2 = p2
  Plains = {p1, p2}
  Admins = {a1, a2}
  Callers = {c1, c2}
  UsageCap = 1
  LogCap = 1
  Sizes = {2, 5}
  MaxBytes = 6
  Retention = 1
  Starts <- Tables2
  Budgets <- Everything
INVARIANTS TypeOK KeysObeyed UsageAccounted
PROPERTIES DeletedStaysDeleted NewestKept SizeSettles RequestsEnd
CHECK_DEADLOCK FALSE
