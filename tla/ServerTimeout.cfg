\* Does a timer close the socket only for the operation it was set on?
SPECIFICATION Spec
CONSTANTS
  Conns = {c1}
  Threads = 1
  NoRequest = NoRequest
  Secure = FALSE
  TimeoutRequest = 5
  TimeoutContent = 300
  Requests <- MCKeptRequests
  MaxRequests = 1
PROPERTY TimeoutConfined
\* A connection ends for good when its last handler returns.
CHECK_DEADLOCK FALSE
