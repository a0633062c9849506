--------------------------- MODULE ServerConnection ---------------------------
(***************************************************************************)
(* The life of the connections of SimpleWeb::ServerBase (server_http.hpp,  *)
(* and the TLS handshake of server_https.hpp): what each asynchronous      *)
(* handler does, from the accepted socket to the last response.            *)
(*                                                                         *)
(* Handlers run on the threads of one io_service (config.thread_pool_size  *)
(* of them, no strand), so handlers of one connection, the timer handlers  *)
(* among them, run in any order; a handler body is one action.  Resource   *)
(* functions are user code: they occupy their thread for any time, hand    *)
(* the Response to a thread of their own, call send(), and let go of it    *)
(* when they like.                                                         *)
(*                                                                         *)
(* A socket is freed when the last handler that captured it is gone, which *)
(* is not an action.  The handler of a cancelled timer does nothing and is *)
(* left out.                                                               *)
(***************************************************************************)
EXTENDS Naturals, FiniteSets

CONSTANTS
  Conns,           \* connections, each one socket object made by accept()
  Threads,         \* threads in io_service->run()
  NoRequest,       \* no Request made yet
  Secure,          \* TRUE for Server<HTTPS>: a handshake precedes the requests
  TimeoutRequest,  \* config.timeout_request in seconds, 0 is no timer
  TimeoutContent,  \* config.timeout_content in seconds, 0 is no timer
  Requests,        \* the requests a peer may send
  MaxRequests      \* bound: requests answered by a resource, per connection

(* What the handlers look at in a request: whether parse_request accepts   *)
(* it; the first "close" or "keep-alive" among its Connection headers;     *)
(* http_version >= "1.1"; how Content-Length compares with the bytes read  *)
(* past the header; and what find_resource finds for it.                   *)
RequestType ==
  [ wellFormed : BOOLEAN,
    connection : {"close", "keep-alive", "none"},
    version11  : BOOLEAN,
    body       : {"none", "invalid", "buffered", "remaining"},
    route      : {"resource", "unmatched", "upgrade"} ]

ASSUME ConstantsAssumption ==
  /\ Threads \in Nat \ {0}
  /\ NoRequest \notin RequestType
  /\ Secure \in BOOLEAN
  /\ TimeoutRequest \in Nat
  /\ TimeoutContent \in Nat
  /\ MaxRequests \in Nat
  /\ Requests \subseteq RequestType

Ops     == {"handshake", "header", "content", "send", "final"}
Status  == {"idle", "pending", "ok", "failed"}
Guards  == {"handshake", "header", "content", "response"}
Holders == {"handler", "worker", "callback"}

VARIABLES
  sock,      \* none, open, closed, or upgraded (given to on_upgrade)
  io,        \* per operation: idle, pending, or completed with its handler queued
  armed,     \* timers that wait
  due,       \* timers that expired, their handler (ec = 0) queued
  holders,   \* who holds the shared_ptr<Response> of the current request
  request,   \* the Request captured by the handlers
  called,    \* how many times a resource function was called
  replied    \* how many final sends ended without error

vars == <<sock, io, armed, due, holders, request, called, replied>>

-----------------------------------------------------------------------------
(* Operations and the timers that guard them *)

GuardOf(op) == IF op \in {"send", "final"} THEN "response" ELSE op

Seconds(g) == IF g \in {"handshake", "header"} THEN TimeoutRequest ELSE TimeoutContent

\* Mistakes in the code that the mutants use: a phase without a timer.
TimerForNoContent(g) == IF g = "content" \/ Seconds(g) = 0 THEN {} ELSE {g}
TimerForNoResponse(g) == IF g = "response" \/ Seconds(g) = 0 THEN {} ELSE {g}

\* A mistake: one timer for all phases.
TimerForAll(g) == IF Seconds(g) = 0 THEN {} ELSE {"timer"}

\* get_timeout_timer: the timer made for a guard, none when its timeout is 0.
TimerFor(g) == IF Seconds(g) = 0 THEN {} ELSE {g}

Busy(c, op) == io[c][op] # "idle"

Serving(c) == holders[c] # {} \/ Busy(c, "final")

\* What a timer of guard g stands over is still going on.
InProgress(c, g) == IF g = "response" THEN Serving(c) ELSE Busy(c, g)

\* An operation on a socket that is already closed fails at once.
Begun(c) == IF sock[c] = "open" THEN "pending" ELSE "failed"

\* A write too, unless nothing was written to the response: an empty
\* async_write succeeds on a closed socket.
BegunWrite(c) == IF sock[c] = "open" THEN {"pending"} ELSE {"failed", "ok"}

\* A mistake: the handler leaves its timer running.
NotCancelled(c, op) == armed[c]

\* timer->cancel() at the head of the handler of op: it has no effect on a
\* timer that has expired already.
Cancelled(c, op) == armed[c] \ {GuardOf(op)}

\* A thread of the io_service is not inside a resource function.
ThreadFree == Cardinality({c \in Conns : "handler" \in holders[c]}) < Threads

-----------------------------------------------------------------------------
(* What the handlers do next; op is the operation whose handler runs *)

\* The handler returns and starts nothing.
Return(c, op) ==
  /\ io' = [io EXCEPT ![c][op] = "idle"]
  /\ armed' = [armed EXCEPT ![c] = Cancelled(c, op)]
  /\ UNCHANGED <<sock, holders>>

\* The handler starts another operation under a timer of its own.
Continue(c, op, next) ==
  /\ io' = [io EXCEPT ![c][op] = "idle", ![c][next] = Begun(c)]
  /\ armed' = [armed EXCEPT ![c] = Cancelled(c, op) \cup TimerFor(next)]
  /\ UNCHANGED <<sock, holders>>

\* Mistakes: find_resource goes on to the next match; the next request is read
\* while the resource works on this one.
WriteResponseTwice(c, op) ==
  /\ io' = [io EXCEPT ![c][op] = "idle"]
  /\ armed' = [armed EXCEPT ![c] = Cancelled(c, op) \cup TimerFor("response")]
  /\ holders' = [holders EXCEPT ![c] = {"handler"}]
  /\ called' = [called EXCEPT ![c] = @ + 2]
  /\ UNCHANGED sock

WriteResponseReadOn(c, op) ==
  /\ io' = [io EXCEPT ![c][op] = "idle", ![c]["header"] = Begun(c)]
  /\ armed' = [armed EXCEPT ![c] = Cancelled(c, op) \cup TimerFor("response")]
  /\ holders' = [holders EXCEPT ![c] = {"handler"}]
  /\ called' = [called EXCEPT ![c] = @ + 1]
  /\ UNCHANGED sock

\* write_response: a Response and its timer are made, the resource is called.
WriteResponse(c, op) ==
  /\ io' = [io EXCEPT ![c][op] = "idle"]
  /\ armed' = [armed EXCEPT ![c] = Cancelled(c, op) \cup TimerFor("response")]
  /\ holders' = [holders EXCEPT ![c] = {"handler"}]
  /\ called' = [called EXCEPT ![c] = @ + 1]
  /\ UNCHANGED sock

FindResource(c, r, op) ==
  \/ /\ r.route = "upgrade"
     /\ io' = [io EXCEPT ![c][op] = "idle"]
     /\ armed' = [armed EXCEPT ![c] = Cancelled(c, op)]
     /\ sock' = [sock EXCEPT ![c] = IF @ = "open" THEN "upgraded" ELSE @]
     /\ UNCHANGED <<holders, called>>
  \/ /\ r.route = "unmatched"
     /\ Return(c, op)
     /\ UNCHANGED called
  \/ /\ r.route = "resource"
     /\ WriteResponse(c, op)

\* A mistake the reference count rules out: the first holder to let go sends.
FirstRelease(c, h, status) ==
  \E s \in BegunWrite(c) : io' = [io EXCEPT ![c] = [status EXCEPT !["final"] = s]]

\* The deleter of the Response starts the final send when its last holder
\* lets go; otherwise only the operation whose handler ran, if any, ends.
LastRelease(c, h, status) ==
  IF holders[c] = {h}
  THEN \E s \in BegunWrite(c) : io' = [io EXCEPT ![c] = [status EXCEPT !["final"] = s]]
  ELSE io' = [io EXCEPT ![c] = status]

Release(c, h, status) ==
  /\ holders' = [holders EXCEPT ![c] = @ \ {h}]
  /\ LastRelease(c, h, status)
  /\ UNCHANGED <<sock, armed, due, request, called, replied>>

KeepAlive(r) ==
  \/ r.connection = "keep-alive"
  \/ r.connection = "none" /\ r.version11

-----------------------------------------------------------------------------
(* Handlers of the server *)

Init ==
  /\ sock = [c \in Conns |-> "none"]
  /\ io = [c \in Conns |-> [op \in Ops |-> "idle"]]
  /\ armed = [c \in Conns |-> {}]
  /\ due = [c \in Conns |-> {}]
  /\ holders = [c \in Conns |-> {}]
  /\ request = [c \in Conns |-> NoRequest]
  /\ called = [c \in Conns |-> 0]
  /\ replied = [c \in Conns |-> 0]

Accept(c) ==
  LET first == IF Secure THEN "handshake" ELSE "header" IN
  /\ ThreadFree
  /\ sock[c] = "none"
  /\ sock' = [sock EXCEPT ![c] = "open"]
  /\ io' = [io EXCEPT ![c][first] = "pending"]
  /\ armed' = [armed EXCEPT ![c] = TimerFor(first)]
  /\ UNCHANGED <<due, holders, request, called, replied>>

HandshakeDone(c) ==
  /\ ThreadFree
  /\ \/ io[c]["handshake"] = "ok" /\ Continue(c, "handshake", "header")
     \/ io[c]["handshake"] = "failed" /\ Return(c, "handshake")
  /\ UNCHANGED <<due, request, called, replied>>

HeaderFailed(c) ==
  /\ ThreadFree
  /\ io[c]["header"] = "failed"
  /\ Return(c, "header")
  /\ UNCHANGED <<due, request, called, replied>>

HeaderDone(c) ==
  /\ ThreadFree
  /\ io[c]["header"] = "ok"
  /\ \E r \in Requests :
       /\ request' = [request EXCEPT ![c] = r]
       /\ \/ /\ ~ r.wellFormed \/ r.body = "invalid"
             /\ Return(c, "header")
             /\ UNCHANGED called
          \/ /\ r.wellFormed /\ r.body = "remaining"
             /\ Continue(c, "header", "content")
             /\ UNCHANGED called
          \/ /\ r.wellFormed /\ r.body \in {"none", "buffered"}
             /\ FindResource(c, r, "header")
  /\ UNCHANGED <<due, replied>>

ContentDone(c) ==
  /\ ThreadFree
  /\ \/ /\ io[c]["content"] = "ok"
        /\ FindResource(c, request[c], "content")
     \/ /\ io[c]["content"] = "failed"
        /\ Return(c, "content")
        /\ UNCHANGED called
  /\ UNCHANGED <<due, request, replied>>

\* The callback of the final send.  The user may have set
\* close_connection_after_response.
FinalDone(c) ==
  /\ ThreadFree
  /\ \/ /\ io[c]["final"] = "ok"
        /\ replied' = [replied EXCEPT ![c] = @ + 1]
        /\ \/ Return(c, "final")
           \/ KeepAlive(request[c]) /\ Continue(c, "final", "header")
     \/ /\ io[c]["final"] = "failed"
        /\ Return(c, "final")
        /\ UNCHANGED replied
  /\ UNCHANGED <<due, request, called>>

\* The handler of an expired timer: shutdown and close.  What was under way
\* on the socket completes with operation_aborted.
TimeoutHandler(c, g) ==
  /\ ThreadFree
  /\ g \in due[c]
  /\ due' = [due EXCEPT ![c] = @ \ {g}]
  /\ sock' = [sock EXCEPT ![c] = "closed"]
  /\ io' = [io EXCEPT ![c] = [op \in Ops |-> IF @[op] = "pending" THEN "failed" ELSE @[op]]]
  /\ UNCHANGED <<armed, holders, request, called, replied>>

-----------------------------------------------------------------------------
(* Resource functions, with the Response they hold *)

\* The resource function returns, or throws a std::exception: in both cases
\* write_response drops its reference.
ResourceReturns(c) ==
  /\ "handler" \in holders[c]
  /\ Release(c, "handler", io[c])

\* It moves a reference to a thread that outlives the call.
HandOff(c) ==
  /\ "handler" \in holders[c]
  /\ "worker" \notin holders[c]
  /\ holders' = [holders EXCEPT ![c] = @ \cup {"worker"}]
  /\ UNCHANGED <<sock, io, armed, due, request, called, replied>>

WorkerReturns(c) ==
  /\ "worker" \in holders[c]
  /\ Release(c, "worker", io[c])

\* A mistake: the callback does not capture the Response.
SendUncaptured(c) ==
  /\ holders[c] \cap {"handler", "worker"} # {}
  /\ io[c]["send"] = "idle"
  /\ \E s \in BegunWrite(c) : io' = [io EXCEPT ![c]["send"] = s]
  /\ UNCHANGED <<sock, armed, due, holders, request, called, replied>>

\* send(): the callback captures the Response.  A resource sends its parts
\* one after the other, each from the callback of the one before.
Send(c) ==
  /\ holders[c] \cap {"handler", "worker"} # {}
  /\ "callback" \notin holders[c]
  /\ holders' = [holders EXCEPT ![c] = @ \cup {"callback"}]
  /\ \E s \in BegunWrite(c) : io' = [io EXCEPT ![c]["send"] = s]
  /\ UNCHANGED <<sock, armed, due, request, called, replied>>

\* The callback of send() sends the next part, or lets go.
SendDone(c) ==
  /\ ThreadFree
  /\ io[c]["send"] \in {"ok", "failed"}
  /\ \/ /\ io[c]["send"] = "ok"
        /\ \E s \in BegunWrite(c) : io' = [io EXCEPT ![c]["send"] = s]
        /\ UNCHANGED <<sock, armed, due, holders, request, called, replied>>
     \/ Release(c, "callback", [io[c] EXCEPT !["send"] = "idle"])

-----------------------------------------------------------------------------
(* The network, the peer and the clock *)

Complete(c, op) ==
  /\ io[c][op] = "pending"
  /\ \E result \in {"ok", "failed"} :
       /\ op = "header" /\ result = "ok" => called[c] < MaxRequests
       /\ io' = [io EXCEPT ![c][op] = result]
  /\ UNCHANGED <<sock, armed, due, holders, request, called, replied>>

\* A timer expires: its handler is queued and can no longer be cancelled.
Expire(c, g) ==
  /\ g \in armed[c]
  /\ armed' = [armed EXCEPT ![c] = @ \ {g}]
  /\ due' = [due EXCEPT ![c] = @ \cup {g}]
  /\ UNCHANGED <<sock, io, holders, request, called, replied>>

-----------------------------------------------------------------------------

Handler(c) ==
  \/ HandshakeDone(c)
  \/ HeaderFailed(c)
  \/ HeaderDone(c)
  \/ ContentDone(c)
  \/ FinalDone(c)
  \/ SendDone(c)

Resource(c) ==
  \/ ResourceReturns(c)
  \/ HandOff(c)
  \/ WorkerReturns(c)
  \/ Send(c)

Next ==
  \E c \in Conns :
    \/ Accept(c)
    \/ Handler(c)
    \/ Resource(c)
    \/ \E op \in Ops : Complete(c, op)
    \/ \E g \in Guards : Expire(c, g) \/ TimeoutHandler(c, g)

Spec == Init /\ [][Next]_vars

(* The io_service runs what is queued and the clock goes on.  A resource   *)
(* function returns, so that its thread can run handlers; what it handed   *)
(* the Response to may keep it for ever, and the peer may stay silent.     *)
Fairness ==
  \A c \in Conns :
    /\ SF_vars(Handler(c))
    /\ WF_vars(ResourceReturns(c))
    /\ \A g \in Guards : WF_vars(Expire(c, g)) /\ SF_vars(TimeoutHandler(c, g))

FairSpec == Spec /\ Fairness

-----------------------------------------------------------------------------
(* Properties *)

TypeOK ==
  /\ sock \in [Conns -> {"none", "open", "closed", "upgraded"}]
  /\ io \in [Conns -> [Ops -> Status]]
  /\ armed \in [Conns -> SUBSET Guards]
  /\ due \in [Conns -> SUBSET Guards]
  /\ holders \in [Conns -> SUBSET Holders]
  /\ request \in [Conns -> Requests \cup {NoRequest}]
  /\ called \in [Conns -> Nat]
  /\ replied \in [Conns -> Nat]

Phases(c) ==
  {op \in {"handshake", "header", "content", "final"} : Busy(c, op)}
    \cup (IF holders[c] = {} THEN {} ELSE {"resource"})

(* A connection is in one phase: no read, and no final send, is under way  *)
(* while somebody still holds the Response, and the next request is not    *)
(* read before the last response went out.                                 *)
OnePhase == \A c \in Conns : \A p, q \in Phases(c) : p = q

(* The Response, with the buffer that async_write reads from, is held as   *)
(* long as a send() of a part of it is under way.                          *)
SendHoldsResponse == \A c \in Conns : Busy(c, "send") => "callback" \in holders[c]

(* Every timer that still waits is the timer of the phase the connection   *)
(* is in: each handler cancelled its own, the deleter's callback the one   *)
(* write_response made.                                                    *)
ArmedForPhase == \A c \in Conns : \A g \in armed[c] : InProgress(c, g)

(* No operation waits for the peer on an open socket without a timer, when *)
(* its timeout is not 0.                                                   *)
WaitIsTimed ==
  \A c \in Conns : \A op \in Ops :
    io[c][op] = "pending" /\ Seconds(GuardOf(op)) # 0
      => GuardOf(op) \in armed[c] \cup due[c]

\* The peer or the user still works with the socket: an operation waits on
\* it, somebody holds the Response, or on_upgrade has taken it.
InUse(c) ==
  \/ sock[c] = "upgraded"
  \/ sock[c] = "open" /\ (holders[c] # {} \/ \E op \in Ops : io[c][op] = "pending")

(* "Set timeout on the following boost::asio::async-read or write          *)
(* function" (server_http.hpp:286): the handler of a timer that closes a   *)
(* socket in use does so for the operation that the timer was set on.  The *)
(* code does not achieve it: cancel() has no effect on a timer whose       *)
(* handler is queued, and that handler closes the socket in a later phase. *)
TimeoutConfined ==
  [][\A c \in Conns : \A g \in due[c] \ due'[c] : InUse(c) => InProgress(c, g)]_vars

(* The connection seen as a cycle of requests (RequestCycle). *)
StageOf(c) ==
  CASE sock[c] = "none" -> "new"
    [] \E op \in {"handshake", "header", "content"} : Busy(c, op) -> "receiving"
    [] holders[c] # {} -> "serving"
    [] Busy(c, "final") -> "replying"
    [] OTHER -> "over"

Cycle == INSTANCE RequestCycle WITH stage <- [c \in Conns |-> StageOf(c)]

(* Every connection goes through the cycle that RequestCycle promises,     *)
(* whatever the timers, the user's threads and the peer do.                *)
ImplementsCycle == Cycle!Spec

(* A request is answered at most once, and the next one is read only after *)
(* the answer went out.                                                    *)
AnswersFollowCalls == Cycle!AnswersFollowCalls

(* A silent or slow peer holds no operation for ever: the timer of the     *)
(* operation closes the socket.                                            *)
WaitEnds ==
  \A c \in Conns : \A op \in Ops : io[c][op] = "pending" ~> io[c][op] # "pending"

(* A Response that is never let go of does not keep its socket open: the   *)
(* timer of write_response closes it.                                      *)
ResponseBounded ==
  \A c \in Conns : holders[c] # {} ~> holders[c] = {} \/ sock[c] = "closed"
=============================================================================
