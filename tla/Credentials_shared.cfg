SPECIFICATION FairSpec
CONSTANTS
  None = None
  Main = Main
  Panel = Panel
  Uids = {a, b}
  Threads = {t1, t2}
  Loads = 1
  Budgets <- Everything
INVARIANTS TypeOK PanelFollowsUser OwnCredential
PROPERTIES RenewedOnce EverythingEnds
CHECK_DEADLOCK FALSE
