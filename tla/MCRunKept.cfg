\* One request for each channel-day of one url, none of them failing.
SPECIFICATION MCSpec
CONSTANTS
  a = a
  b = b
  c = c
  Sites <- MCSites
  Fetched <- MCFetched
  ListsAtOnce = 2
  SitesAtOnce = 2
  Pieces = 2
  Ceiling = 4
  MaxMs = 2
  RecoverAfter = 2
  MaxRequests = 5
  MaxTime = 5
  NoTimer = NoTimer
  MaxNow = 4
  MaxMoves = 2
  MaxWork = 2
  MaxAsked = 1
  DayLen = 1
  LastDay = 3
  MaxVersion = 1
  MaxLength = 3
  Dated = FALSE
  PerRequest = 1
  maxAgeDays = 2
  CanFail = {}
INVARIANT KeptIsCurrent
