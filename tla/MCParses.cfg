\* Three parses, of two waits, one and none, over one slot or two, that may leave
\* one out; three calls over two keys, any group left by an earlier run, and a
\* store whose read and write may fail.
SPECIFICATION MCSpec
CONSTANTS
  p1 = p1
  p2 = p2
  p3 = p3
  w1 = w1
  w2 = w2
  MaxSlots = 2
  Abandons = TRUE
  Works <- MCWorks
  Waits <- MCWaits
  parse = parse
  other = other
  request = request
  key1 = key1
  key2 = key2
  Callers <- MCCallers
  Keys <- MCKeys
  Asks <- MCAsks
  Stored <- MCStored
  Earlier = Earlier
  Nothing = Nothing
  Failed = Failed
  None = None
INVARIANTS
  SlotsFit
  AnswerIsItsOwn
  StoredIsCurrent
PROPERTIES
  Implements
  NothingLost
  EverythingEnds
\* Every work is over, every call answered and the turn saved.
CHECK_DEADLOCK FALSE
