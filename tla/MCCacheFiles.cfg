\* Two channels of two days, two writes and a look beside a prune; and the
\* questions of MCDecisions, within its bounds.
SPECIFICATION MCSpec
CONSTANTS
  Absent = Absent
  Bad = Bad
  Good = Good
  None = None
  a = a
  b = b
  w1 = w1
  w2 = w2
  r = r
  c1 = c1
  c2 = c2
  c3 = c3
  DayLen = 4
  Unbounded = 1000
  Channels <- MCChannels
  OldDays = {1}
  NewDays = {2}
  Writes <- MCWrites
  Looks <- MCLooks
  May <- MCMay
  Left <- MCLeft
  Disk = TRUE
INVARIANTS
  WholeOrNot
  WritesAreClean
PROPERTIES
  KeptDaysStay
  EverythingEnds
  ClocksAreRead
  RequestsCoverOnce
  DocumentsReadAlike
  WrittenIsReadBack
  GuideIsWhole
\* Everything under way has ended.
CHECK_DEADLOCK FALSE
