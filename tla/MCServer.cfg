\* Two channels of which one comes and goes, one grab, one change, one mishap; and
\* three guides over one slot.
SPECIFICATION MCSpec
CONSTANTS
  None = None
  a = a
  b = b
  z = z
  p = p
  q = q
  r = r
  Parts = {"server", "bodies"}
  Channels <- MCChannels
  Lineups <- MCLineups
  Left <- MCLeft
  Bodies <- MCBodies
  Slots = 1
  Chunks = 2
  MaxThrows = 1
  MaxGrabs = 1
  MaxChanges = 1
  MaxMishaps = 1
  Noting = FALSE
INVARIANTS
  AnswersAreTrue
  CloseIsFinal
PROPERTIES
  ChannelsStay
  EverythingFollows
\* A server that was closed has nothing more to do.
CHECK_DEADLOCK FALSE
