SPECIFICATION Spec
CONSTANTS
  None = None
  Main = Main
  Panel = Panel
  Uids = {a, b}
  Threads = {t1, t2}
  Loads = 1
  Budgets <- ChatThenSwitch
INVARIANT NewestOnDisk
CHECK_DEADLOCK FALSE
