---------------------------- MODULE MCClientEngine ----------------------------
(* The settings of a client that the runs check.                           *)
EXTENDS ClientEngine

Plain(timeout, timeoutConnect, bindFails, responses) ==
  [secure |-> FALSE, proxy |-> FALSE, timeout |-> timeout, timeoutConnect |-> timeoutConnect,
   bindFails |-> bindFails, responses |-> responses]

Tls(proxy) ==
  [secure |-> TRUE, proxy |-> proxy, timeout |-> 2, timeoutConnect |-> 1,
   bindFails |-> FALSE, responses |-> {"complete", "until close", "chunked"}]

\* Well-formed responses; any response, and bind() may fail; no timeout, the
\* default, but one on connect; Client<HTTPS> with a proxy and without one.
MCSettings ==
  {Plain(5, 0, FALSE, WellFormed), Plain(5, 2, TRUE, WellFormed \cup Malformed),
   Plain(0, 2, FALSE, WellFormed), Tls(TRUE), Tls(FALSE)}

\* A response with a Content-Length that is not a number.
BadLength == {Plain(5, 0, FALSE, {"complete", "bad length"})}
=============================================================================
