\* Two slots: a channel-day said again while its first write waits.
SPECIFICATION MCSpec
CONSTANTS
  a = a
  b = b
  c = c
  d = d
  x = x
  None = None
  MaxSlots = 2
  MaxEmissions = 3
  StoreFails = FALSE
  Pairs <- MCOne
  Others <- MCNobody
  Labels = {l1, l2}
  Slots = 1
  MaxCount = 2
  Requests <- MCRequests
  PairsOf <- MCPairsOf
  Cached <- MCCached
  Concurrency = 2
  LocalSlots = 1
  MaxPaced = 1
INVARIANTS
  SaidIsStored
\* A turn that is over has nothing more to do.
CHECK_DEADLOCK FALSE
