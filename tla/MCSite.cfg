\* A document of two channel-days and one nobody asked for, over one slot or two
\* and a store that may refuse; three requests, two at once, and parses that ask
\* for one more each; two labels with room for one, two requests.
SPECIFICATION MCSpec
CONSTANTS
  a = a
  b = b
  c = c
  d = d
  x = x
  None = None
  MaxSlots = 2
  MaxEmissions = 2
  StoreFails = TRUE
  Pairs <- MCPairs
  Others <- MCOthers
  Labels = {l1, l2}
  Slots = 1
  MaxCount = 2
  Requests <- MCRequests
  PairsOf <- MCPairsOf
  Cached <- MCCached
  Concurrency = 2
  LocalSlots = 1
  MaxPaced = 1
INVARIANTS
  NoLostUpdate
  CountsAreTrue
  SaidOnce
  RequestsAddUp
  CountedOnce
PROPERTIES
  EverythingEnds
\* A turn that is over has nothing more to do.
CHECK_DEADLOCK FALSE
