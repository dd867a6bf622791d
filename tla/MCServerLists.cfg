\* As MCServer.cfg, the bodies of guides left out.
SPECIFICATION MCSpec
CONSTANTS
  None = None
  a = a
  b = b
  z = z
  p = p
  q = q
  r = r
  Parts = {"server"}
  Channels <- MCChannels
  Lineups <- MCLineups
  Left <- MCLeft
  Bodies <- MCBodies
  Slots = 1
  Chunks = 2
  MaxThrows = 1
  MaxGrabs = 1
  MaxChanges = 1
  MaxMishaps = 1
  Noting = TRUE
PROPERTIES
  ListsFollow
\* A server that was closed has nothing more to do.
CHECK_DEADLOCK FALSE
