\* The lists alone, of a site that keeps in its bag what describes its list.
SPECIFICATION MCSpec
CONSTANTS
  c1 = c1
  c2 = c2
  Parts = {"lists"}
  Wanted = {1, 2, 4}
  Horizon = 4
  Room = 1
  Limited = TRUE
  ArgsWait = TRUE
  Calls = {k1, k2}
  Slots = 2
  Limit = 2
  Runs = 2
  Mishaps = {"login", "busy", "drop", "expire", "near"}
  MaxMishaps = 2
  Processes = {s1, s2}
  Keys = {1, 2}
  Past = {1}
  Page = 1
  MaxCalls = 3
  Kills = 1
  Left <- MCLeft
  Looks = {"made", "unmade"}
  Commands <- MCCommands
  Selecting <- MCSelecting
  MaxAge = 1
  Versions = 3
  Wrongs = {"unanswered", "refused", "store", "kill"}
  MaxWrongs = 1
  Alone = FALSE
  Far = Far
  NoList = NoList
INVARIANTS
  StampsStandForList
CHECK_DEADLOCK FALSE
