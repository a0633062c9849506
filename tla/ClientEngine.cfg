\* Any peer: well-formed, malformed, slow, silent or gone; HTTP and HTTPS.
SPECIFICATION FairSpec
CONSTANTS
  Settings <- MCSettings
  Contents = {"none", "string", "stream"}
  MaxRequests = 3
  MaxChunks = 2
INVARIANTS
  TypeOK
  NoNullSocket
  NoOrphanHandler
  FailureDropsConnection
  NoStaleAnswer
  TimeoutFindsNothing
  HandshakeFirst
PROPERTY RequestEnds
\* The caller makes no more than MaxRequests requests.
CHECK_DEADLOCK FALSE
