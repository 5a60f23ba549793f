SPECIFICATION FairSpec
CONSTANTS
  Missing = Missing
  Torn = Torn
  None = None
  Accts = {"a", "b", "e"}
  Enterprise = {"e"}
  Edits <- MCEdits
  Runs = {r1, r2}
  CronRuns = {r1}
  Tiers = {"t7", "t14"}
  Door = 2
  MaxDraws = 3
  Codes = {"chat", "mini", "night"}
  MPCodes = {"mini"}
  AutoCodes = {"chat", "night"}
  NightCodes = {"night"}
  Workers = {w1, w2}
  Ticker = w2
  Panels = {p1, p2}
  Ticks = {k1, k2}
  Minute = 1
  Wrap = 307445735
  Instants <- MCInstants
  CronAt <- MCCronAt
  Scenes <- MCScenes
INVARIANTS TypeOK SecuredTruly EntriesFollowConfig NumbersInRange FlagsTruthful NothingLeft
           ShownOwn
PROPERTIES DayTries SettingsSurvive HandlersEnd EveryDoneClaimed MenuSettles
CHECK_DEADLOCK FALSE
