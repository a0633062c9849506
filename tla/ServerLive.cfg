\* One connection over TLS on a single thread, two requests.
SPECIFICATION FairSpec
CONSTANTS
  Conns = {c1}
  Threads = 1
  NoRequest = NoRequest
  Secure = TRUE
  TimeoutRequest = 5
  TimeoutContent = 300
  Requests <- MCKeptRequests
  MaxRequests = 2
PROPERTIES WaitEnds ResponseBounded
\* A connection ends for good when its last handler returns.
CHECK_DEADLOCK FALSE
