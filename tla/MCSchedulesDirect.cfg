\* A request for each day or one for both, a wait, one listing made anew, one thing gone wrong.
SPECIFICATION MCSpec
CONSTANTS
  None = None
  Incomplete = Incomplete
  x = x
  StationDays <- MCStationDays
  Programmes <- MCProgrammes
  Airs <- MCAirs
  Md5s = 2
  PerRequest = {1, 2}
  Waits = 1
  Mishaps = {"remap", "state", "entry", "refused", "call", "write", "absent", "cancel", "stop"}
  MaxMishaps = 1
  MaxTime = 2
INVARIANTS
  KeptIsListed
  EachIsSaidOnce
PROPERTIES
  Converges
