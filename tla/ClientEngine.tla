------------------------------ MODULE ClientEngine ------------------------------
(***************************************************************************)
(* SimpleWeb::Client<HTTP> (client_http.hpp) and Client<HTTPS>             *)
(* (client_https.hpp): one thread calls request(), which runs the client's *)
(* io_service to connect, to write and to read, one run() after the other; *)
(* another thread may call close() at any time.                            *)
(*                                                                         *)
(* The io_service runs its ready handlers in the order they became ready;  *)
(* run() returns when nothing is pending or queued.  A handler that throws *)
(* makes request() throw and leaves the handlers behind it queued for the  *)
(* run() of the next request.  A handler body is one action.               *)
(*                                                                         *)
(* Cancelled timers' handlers do nothing and are left out.  What a parse   *)
(* finds is the kind of a response, not its text.                          *)
(***************************************************************************)
EXTENDS Naturals, Sequences

CONSTANTS
  Settings,     \* the settings a client may run with, see Setting
  Contents,     \* kinds of request content the caller sends
  MaxRequests,  \* bound: requests made
  MaxChunks     \* bound: chunks of a response

(* How the header says the body ends.  "unframed" is an HTTP/1.1 response  *)
(* with a body but neither Content-Length, chunked nor "Connection: close";*)
(* stoull throws on a "bad length", stol or pop_back on a "bad chunk".     *)
WellFormed == {"complete", "length", "chunked", "until close"}
Malformed  == {"unframed", "bad length", "bad chunk"}

(* What the program that uses the client decides and what surrounds it.    *)
Setting == [
  secure         : BOOLEAN,  \* Client<HTTPS>, not Client<HTTP>
  proxy          : BOOLEAN,  \* config.proxy_server is set
  timeout        : Nat,      \* config.timeout in seconds, 0 is none
  timeoutConnect : Nat,      \* config.timeout_connect, 0 is config.timeout
  bindFails      : BOOLEAN,  \* bind() to the interface's address may fail
  responses      : SUBSET (WellFormed \cup Malformed)]  \* what the peer sends

ASSUME ConstantsAssumption ==
  /\ Settings \subseteq Setting
  /\ Contents \subseteq {"none", "string", "stream"}
  /\ MaxRequests \in Nat
  /\ MaxChunks \in Nat

TunnelOps == {"proxy write", "proxy read", "handshake"}
SocketOps == TunnelOps \cup {"connect", "write", "write content", "header", "content", "rest",
              "chunk line", "chunk data", "last chunk"}
Ops == {"none", "resolve"} \cup SocketOps

VARIABLES
  setting,   \* the settings of this client, which never change
  run,       \* the run() the caller is in, named for its first operation
             \* ("connect" begins with the resolver), or none
  op,        \* the one asynchronous operation that is under way
  result,    \* pending, or how it completed: ok, eof, failed
  queue,     \* ready handlers: "op", "timeout", or a "leftover" timeout
             \* of an earlier request
  armed,     \* the timer of the operation waits
  sock,      \* null, bound (open, not connected), connecting, open (connected),
             \* secured (the TLS handshake is done), closed
  content,   \* the content of the request
  response,  \* the kind of the response being read
  unread,    \* an earlier response on this socket was not read to its end
  chunks,    \* chunks read of this response
  made,      \* requests made
  outcome    \* of the last request: none, returned, threw

vars == <<setting, run, op, result, queue, armed, sock, content, response, unread, chunks,
          made, outcome>>

-----------------------------------------------------------------------------

IsOpen == sock \in {"bound", "connecting", "open", "secured"}

\* The state of a socket that requests may be written to.
Ready == IF setting.secure THEN "secured" ELSE "open"

\* A mistake: no timer for the reads of a body.
SecondsNoBody(o) ==
  CASE o \in {"none", "resolve", "content", "chunk data"} -> 0
    [] o = "connect" /\ setting.timeoutConnect # 0 -> setting.timeoutConnect
    [] OTHER -> setting.timeout

\* get_timeout_timer: timeout_connect falls back to timeout.
Seconds(o) ==
  CASE o \in {"none", "resolve"} -> 0
    [] o = "connect" /\ setting.timeoutConnect # 0 -> setting.timeoutConnect
    [] OTHER -> setting.timeout

\* Starts operation o on a socket in state s, behind the handlers in q.  On a
\* socket that is not connected it fails at once, except a read of a line that
\* the buffer of the response already holds.
Usable(o, s) ==
  \/ o = "resolve"
  \/ s = CASE o = "connect" -> "connecting"
           [] o \in TunnelOps -> "open"
           [] OTHER -> Ready

Begin(o, s, q) ==
  /\ op' = o
  /\ armed' = (Seconds(o) # 0)
  /\ \/ Usable(o, s) /\ result' = "pending" /\ queue' = q
     \/ ~ Usable(o, s) /\ result' = "failed" /\ queue' = Append(q, "op")
     \/ ~ Usable(o, s) /\ o = "chunk line" /\ result' = "ok" /\ queue' = Append(q, "op")

\* A mistake: the handler leaves its timer running.
FinishUncancelled ==
  /\ op' = "none"
  /\ result' = "ok"
  /\ queue' = Tail(queue)
  /\ UNCHANGED armed

\* The handler cancels its timer, returns and starts nothing.
Finish ==
  /\ op' = "none"
  /\ result' = "ok"
  /\ armed' = FALSE
  /\ queue' = Tail(queue)

Goes == UNCHANGED <<run, unread, outcome>>

\* The handler throws: run() and request() end, the rest of the queue stays,
\* and what the peer has sent or will send is not read.
Throw ==
  /\ Finish
  /\ run' = "none"
  /\ unread' = TRUE
  /\ outcome' = "threw"

FailKeepingSocket == Throw /\ UNCHANGED sock

\* A mistake: the exception is swallowed, and run() goes on.
FailSilently == Finish /\ sock' = "null" /\ Goes

\* On an error the handlers drop the socket and throw the error.
Fail == Throw /\ sock' = "null"

\* The handler of operation o is the next one that run() calls.
Handles(o) ==
  /\ run # "none"
  /\ queue # <<>>
  /\ Head(queue) = "op"
  /\ op = o

-----------------------------------------------------------------------------
(* The caller *)

Init ==
  /\ setting \in Settings
  /\ run = "none"
  /\ op = "none"
  /\ result = "ok"
  /\ queue = <<>>
  /\ armed = FALSE
  /\ sock = "null"
  /\ content = "none"
  /\ response = "complete"
  /\ unread = FALSE
  /\ chunks = 0
  /\ made = 0
  /\ outcome = "none"

\* The timeouts that are still queued are now those of an earlier request.
Leftovers == [i \in DOMAIN queue |-> "leftover"]

\* request(): connect() does nothing when the socket is open.
Request ==
  /\ run = "none"
  /\ made < MaxRequests
  /\ made' = made + 1
  /\ content' \in Contents
  /\ outcome' = "none"
  /\ UNCHANGED <<setting, sock, response, unread, chunks>>
  /\ \/ ~ IsOpen /\ run' = "connect" /\ Begin("resolve", sock, Leftovers)
     \/ IsOpen /\ run' = "write" /\ Begin("write", sock, Leftovers)

AfterConnect == IF ~ setting.secure THEN "write" ELSE IF setting.proxy THEN "proxy write" ELSE "handshake"

Runs(r) ==
  /\ run' = r
  /\ Begin(r, sock, queue)
  /\ UNCHANGED <<sock, outcome>>

\* A mistake: the tunnel that was refused is kept.
RefusedKeepingSocket ==
  /\ run' = "none"
  /\ outcome' = "threw"
  /\ UNCHANGED <<op, result, queue, armed, sock>>

\* The proxy has answered, but not with status 200: connect() throws.
Refused ==
  /\ run' = "none"
  /\ outcome' = "threw"
  /\ sock' = "null"
  /\ UNCHANGED <<op, result, queue, armed>>

\* run() has nothing left to do and returns, and request() goes on.
RunReturns ==
  /\ run # "none"
  /\ op = "none" /\ ~ armed /\ queue = <<>>
  /\ UNCHANGED <<setting, content, response, unread, chunks, made>>
  /\ \/ run = "connect" /\ Runs(AfterConnect)
     \/ run = "proxy write" /\ Runs("proxy read")
     \/ run = "proxy read" /\ (Runs("handshake") \/ Refused)
     \/ run = "handshake" /\ Runs("write")
     \/ run = "write" /\ Runs("header")
     \/ /\ run = "header" /\ run' = "none" /\ outcome' = "returned"
        /\ UNCHANGED <<op, result, queue, armed, sock>>

\* A mistake: an operation that has completed is aborted once more.
CloseTwice ==
  /\ IsOpen
  /\ sock' = "closed"
  /\ IF op \in SocketOps
     THEN result' = "failed" /\ queue' = Append(queue, "op")
     ELSE UNCHANGED <<result, queue>>
  /\ UNCHANGED <<setting, run, op, armed, content, response, unread, chunks, made, outcome>>

\* close(), by any thread: what was under way on the socket is aborted.
Close ==
  /\ IsOpen
  /\ sock' = "closed"
  /\ IF op \in SocketOps /\ result = "pending"
     THEN result' = "failed" /\ queue' = Append(queue, "op")
     ELSE UNCHANGED <<result, queue>>
  /\ UNCHANGED <<setting, run, op, armed, content, response, unread, chunks, made, outcome>>

-----------------------------------------------------------------------------
(* Handlers *)

Connects ==
  /\ sock' = "connecting"
  /\ unread' = FALSE
  /\ Begin("connect", "connecting", Tail(queue))
  /\ UNCHANGED <<run, outcome>>

\* The experiment binds the new socket to the address of the interface.
ResolveDone ==
  /\ ~ setting.secure
  /\ Handles("resolve")
  /\ UNCHANGED <<setting, content, response, chunks, made>>
  /\ \/ result = "failed" /\ Fail
     \/ result = "ok" /\ setting.bindFails /\ sock' = "bound" /\ Throw
     \/ result = "ok" /\ Connects

SecureResolveDone ==
  /\ setting.secure
  /\ Handles("resolve")
  /\ UNCHANGED <<setting, content, response, chunks, made>>
  /\ \/ result = "failed" /\ Fail
     \/ result = "ok" /\ Connects

\* set_option throws when the socket was closed before the handler ran.
ConnectDone ==
  /\ Handles("connect")
  /\ UNCHANGED <<setting, content, response, chunks, made>>
  /\ \/ result = "ok" /\ sock = "connecting" /\ sock' = "open" /\ Finish /\ Goes
     \/ result = "ok" /\ sock # "connecting" /\ FailKeepingSocket
     \/ result = "failed" /\ Fail

\* A handler after which nothing is left to do in this run().
LastDone(o) ==
  /\ Handles(o)
  /\ UNCHANGED <<setting, content, response, chunks, made>>
  /\ \/ result = "failed" /\ Fail
     \/ result = "ok" /\ Finish /\ Goes /\ UNCHANGED sock

ProxyWriteDone == LastDone("proxy write")

ProxyReadDone == LastDone("proxy read")

\* The socket may have been closed before the handler of the handshake ran.
HandshakeDone ==
  /\ Handles("handshake")
  /\ UNCHANGED <<setting, content, response, chunks, made>>
  /\ \/ result = "failed" /\ Fail
     \/ /\ result = "ok" /\ Finish /\ Goes
        /\ sock' = IF sock = "open" THEN "secured" ELSE sock

WriteDone ==
  \/ (content # "string" \/ result = "failed") /\ LastDone("write")
  \/ /\ Handles("write")
     /\ result = "ok" /\ content = "string"
     /\ Begin("write content", sock, Tail(queue)) /\ Goes
     /\ UNCHANGED <<setting, sock, content, response, chunks, made>>

WriteContentDone == LastDone("write content")

HeaderFailed ==
  /\ Handles("header") /\ result = "failed"
  /\ Fail
  /\ UNCHANGED <<setting, content, response, chunks, made>>

\* Where the rest of the response comes from.
HeaderDone ==
  /\ Handles("header") /\ result = "ok"
  /\ response' \in setting.responses
  /\ chunks' = 0
  /\ UNCHANGED <<setting, sock, content, made>>
  /\ \/ response' = "complete" /\ Finish /\ Goes
     \/ response' = "length" /\ Begin("content", sock, Tail(queue)) /\ Goes
     \/ /\ response' \in {"chunked", "bad chunk"}
        /\ Begin("chunk line", sock, Tail(queue)) /\ Goes
     \/ response' = "until close" /\ Begin("rest", sock, Tail(queue)) /\ Goes
     \/ response' = "unframed" /\ Finish /\ unread' = TRUE /\ UNCHANGED <<run, outcome>>
     \/ response' = "bad length" /\ Throw

ContentDone == LastDone("content")

\* The end of the stream is the end of such a body.
RestDone ==
  /\ Handles("rest")
  /\ UNCHANGED <<setting, content, response, chunks, made>>
  /\ \/ result = "failed" /\ Fail
     \/ result = "eof" /\ Finish /\ sock' = "null" /\ Goes

\* request_read_chunked: after the line of a chunk its data, unless it is
\* there already; after the data the next line, or nothing after chunk 0.
ChunkLineDone ==
  /\ Handles("chunk line")
  /\ UNCHANGED <<setting, content, response, made>>
  /\ \/ result = "failed" /\ Fail /\ UNCHANGED chunks
     \/ result = "ok" /\ response = "bad chunk" /\ FailKeepingSocket /\ UNCHANGED chunks
     \/ /\ result = "ok" /\ chunks < MaxChunks
        /\ chunks' = chunks + 1
        /\ \E o \in {"chunk data", "chunk line"} : Begin(o, sock, Tail(queue))
        /\ Goes /\ UNCHANGED sock
     \/ /\ result = "ok" /\ response = "chunked"
        /\ Begin("last chunk", sock, Tail(queue)) \/ Finish
        /\ Goes /\ UNCHANGED <<sock, chunks>>

ChunkDataDone ==
  /\ Handles("chunk data")
  /\ UNCHANGED <<setting, content, response, chunks, made>>
  /\ \/ result = "failed" /\ Fail
     \/ result = "ok" /\ Begin("chunk line", sock, Tail(queue)) /\ Goes /\ UNCHANGED sock

LastChunkDone == LastDone("last chunk")

Handler ==
  \/ ResolveDone \/ SecureResolveDone \/ ConnectDone
  \/ ProxyWriteDone \/ ProxyReadDone \/ HandshakeDone
  \/ WriteDone \/ WriteContentDone
  \/ HeaderFailed \/ HeaderDone \/ ContentDone \/ RestDone
  \/ ChunkLineDone \/ ChunkDataDone \/ LastChunkDone

\* The handler of an expired timer calls close() on the socket there is now.
TimeoutHandler ==
  /\ run # "none"
  /\ queue # <<>>
  /\ Head(queue) \in {"timeout", "leftover"}
  /\ IF IsOpen
     THEN /\ sock' = "closed"
          /\ IF op \in SocketOps /\ result = "pending"
             THEN result' = "failed" /\ queue' = Append(Tail(queue), "op")
             ELSE UNCHANGED result /\ queue' = Tail(queue)
     ELSE UNCHANGED <<sock, result>> /\ queue' = Tail(queue)
  /\ UNCHANGED <<setting, run, op, armed, content, response, unread, chunks, made, outcome>>

-----------------------------------------------------------------------------
(* The network, the resolver and the clock *)

Complete ==
  /\ result = "pending"
  /\ result' \in IF op = "rest" THEN {"eof", "failed"} ELSE {"ok", "failed"}
  /\ queue' = Append(queue, "op")
  /\ UNCHANGED <<setting, run, op, armed, sock, content, response, unread, chunks, made, outcome>>

Expire ==
  /\ armed
  /\ armed' = FALSE
  /\ queue' = Append(queue, "timeout")
  /\ UNCHANGED <<setting, run, op, result, sock, content, response, unread, chunks, made, outcome>>

-----------------------------------------------------------------------------

Next ==
  Request \/ RunReturns \/ Close \/ Handler \/ TimeoutHandler \/ Complete \/ Expire

Spec == Init /\ [][Next]_vars

(* run() calls its handlers, the clock goes on and getaddrinfo, which has  *)
(* no timer here but limits of its own, returns.  The peer and the user    *)
(* owe nothing.                                                            *)
FairSpec ==
  /\ Spec
  /\ WF_vars(RunReturns) /\ WF_vars(Handler) /\ WF_vars(TimeoutHandler)
  /\ WF_vars(Expire)
  /\ WF_vars(op = "resolve" /\ Complete)

-----------------------------------------------------------------------------
(* Properties *)

TypeOK ==
  /\ setting \in Settings
  /\ run \in {"none", "connect", "write", "header"} \cup TunnelOps
  /\ op \in Ops
  /\ result \in {"pending", "ok", "eof", "failed"}
  /\ queue \in Seq({"op", "timeout", "leftover"}) /\ Len(queue) <= 3
  /\ armed \in BOOLEAN
  /\ sock \in {"null", "bound", "connecting", "open", "secured", "closed"}
  /\ content \in Contents \cup {"none"}
  /\ response \in setting.responses \cup {"complete"}
  /\ unread \in BOOLEAN
  /\ chunks \in 0 .. MaxChunks
  /\ made \in 0 .. MaxRequests
  /\ outcome \in {"none", "returned", "threw"}

(* The handlers and request() dereference the socket without a test: it is *)
(* there whenever one of them uses it, although every error path and the   *)
(* end of an unframed body reset it.                                       *)
NoNullSocket == op \in SocketOps => sock # "null"

(* The handlers refer to variables of request() and request_read() by      *)
(* reference: when request() has returned or thrown, no operation is under *)
(* way and none is queued that a later run() would resume.                 *)
NoOrphanHandler ==
  run = "none" => /\ op = "none" /\ ~ armed
                  /\ \A i \in DOMAIN queue : queue[i] # "op"

\* Every response is well-formed and bind() succeeds.
Orderly == setting.responses \subseteq WellFormed /\ ~ setting.bindFails

(* A request that threw leaves no connection that the next one would use,  *)
(* as long as the responses are well-formed and bind() succeeds: else a    *)
(* handler throws without dropping the socket.                             *)
FailureDropsConnection ==
  Orderly /\ run = "none" /\ outcome = "threw" => ~ IsOpen

(* The response read for a request is not what is left of an earlier one,  *)
(* with the same exceptions.                                               *)
NoStaleAnswer == Orderly /\ op \in {"write", "header"} /\ sock = Ready => ~ unread

(* Nothing of an HTTPS request is written or read before the handshake on  *)
(* the socket it uses, whatever an earlier request left behind, and a      *)
(* tunnel that the proxy refused is never used.                            *)
HandshakeFirst ==
  setting.secure /\ op \in SocketOps \ (TunnelOps \cup {"connect"}) => sock # "open"

(* "Set timeout on requests in seconds" (client_http.hpp:91): a timeout    *)
(* does not close the connection of another request.  A timeout whose      *)
(* handler was queued behind one that threw outlives its request.          *)
TimeoutOfItsRequest == queue # <<>> /\ Head(queue) = "leftover" => ~ IsOpen

(* That takes a handler that throws and keeps the socket: a failing read,  *)
(* write, connect or handshake drops it, so that a timeout which expired   *)
(* together with the failure finds nothing to close in the next request.   *)
TimeoutFindsNothing == Orderly => TimeoutOfItsRequest

(* With a timeout set, request() returns or throws whatever the peer does, *)
(* when the response has finitely many chunks.                             *)
RequestEnds == run # "none" /\ setting.timeout # 0 ~> run = "none"
=============================================================================
