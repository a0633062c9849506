\* Each kind of content, and a request that asks to close the connection.
SPECIFICATION FairSpec
CONSTANTS
  Kinds <- MCKinds
  Silence = TRUE
  TimeoutRequest = 5
  TimeoutContent = 300
  MaxRequests = 2
INVARIANT TypeOK
PROPERTIES
  ImplementsCalls
  CallEnds
  ServerFrees
\* The client makes no more than MaxRequests requests.
CHECK_DEADLOCK FALSE
