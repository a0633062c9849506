\* A response with a Content-Length that is not a number.
SPECIFICATION Spec
CONSTANTS
  Settings <- BadLength
  Contents = {"none"}
  MaxRequests = 3
  MaxChunks = 1
INVARIANT TimeoutOfItsRequest
\* The caller makes no more than MaxRequests requests.
CHECK_DEADLOCK FALSE
