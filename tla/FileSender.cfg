\* Two connections of a server with one thread.
SPECIFICATION FairSpec
CONSTANTS
  Conns = {c1, c2}
  Threads = 1
  PartSize = 2
  Files = {"even", "odd", "empty"}
  Size <- MCSize
  MaxRequests = 2
  MaxChanges = 1
INVARIANTS
  TypeOK
  PartsInOrder
  KeptWhenComplete
PROPERTY TransferEnds
\* The clients make no more than MaxRequests requests.
CHECK_DEADLOCK FALSE
