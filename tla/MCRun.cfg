\* Three sites, two lists and two turns at once, a guide in two pieces; up to
\* five requests, four at once, and holds of up to two ticks; four moments of a
\* clock, two changes in each; and four days of a source that publishes twice.
SPECIFICATION MCSpec
CONSTANTS
  a = a
  b = b
  c = c
  Sites <- MCSites
  Fetched <- MCFetched
  ListsAtOnce = 2
  SitesAtOnce = 2
  Pieces = 2
  Ceiling = 4
  MaxMs = 2
  RecoverAfter = 2
  MaxRequests = 5
  MaxTime = 5
  NoTimer = NoTimer
  MaxNow = 4
  MaxMoves = 2
  MaxWork = 2
  MaxAsked = 1
  DayLen = 1
  LastDay = 3
  MaxVersion = 1
  MaxLength = 3
  Dated = FALSE
  PerRequest = 2
  maxAgeDays = 1
  CanFail = {"body", "write"}
INVARIANTS
  WindsDown
  AnswerTellsAll
  HoldFits
  TimeIsGivenOnce
  FreezeIsBounded
PROPERTIES
  SentInTurn
  AskedIsSent
