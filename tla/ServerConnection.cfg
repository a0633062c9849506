\* One connection over TLS, all kinds of requests, four threads.
SPECIFICATION Spec
CONSTANTS
  Conns = {c1}
  Threads = 4
  NoRequest = NoRequest
  Secure = TRUE
  TimeoutRequest = 5
  TimeoutContent = 300
  Requests <- MCRequests
  MaxRequests = 3
INVARIANTS TypeOK OnePhase SendHoldsResponse ArmedForPhase WaitIsTimed AnswersFollowCalls
PROPERTY ImplementsCycle
\* A connection ends for good when its last handler returns.
CHECK_DEADLOCK FALSE
