\* As MCSchedulesDirect.cfg.
SPECIFICATION MCSpec
CONSTANTS
  None = None
  Incomplete = Incomplete
  x = x
  StationDays <- MCStationDays
  Programmes <- MCProgrammes
  Airs <- MCAirs
  Md5s = 2
  PerRequest = {1, 2}
  Waits = 1
  Mishaps = {"remap", "state", "entry", "refused", "call", "write", "absent", "cancel", "stop"}
  MaxMishaps = 1
  MaxTime = 2
INVARIANT
  KeptIsAsMapped
