------------------------------ MODULE HttpExchange ------------------------------
(***************************************************************************)
(* A client (client_http.hpp) and a server (server_http.hpp) and the TCP   *)
(* connections between them: requests over a connection that is kept,      *)
(* either side closing it at any time, timeouts on both sides, and a       *)
(* network that goes silent.                                               *)
(*                                                                         *)
(* A message is one part, header or content, of a request or of the answer *)
(* to it.  What the handlers of each side do in detail is the matter of    *)
(* ServerConnection and ClientEngine; here an operation of the client and  *)
(* its handler are one action, and so are those of the server.  Answers    *)
(* are framed by their length, as those of the examples are.               *)
(***************************************************************************)
EXTENDS Naturals, Sequences

CONSTANTS
  Kinds,           \* the requests the client makes
  Silence,         \* TRUE if the network may go silent
  TimeoutRequest,  \* the server's timeouts in seconds, 0 is none
  TimeoutContent,
  MaxRequests      \* bound: requests made, and so connections

(* Whether the content is written after the header ("string") or with it   *)
(* ("stream"); whether the header has "Connection: close".                 *)
KindType == [content : {"none", "string", "stream"}, close : BOOLEAN]

ASSUME ConstantsAssumption ==
  /\ Kinds \subseteq KindType
  /\ Silence \in BOOLEAN
  /\ TimeoutRequest \in Nat
  /\ TimeoutContent \in Nat
  /\ MaxRequests \in Nat

Requests == 1 .. MaxRequests
Conns    == 1 .. MaxRequests

VARIABLES
  \* the client
  turn,     \* requests made
  doing,    \* what request() waits for: nothing, connect, write, write content,
            \* header, content
  conn,     \* the connection of the socket, 0 is null
  call,     \* of each request: none, open, returned, threw
  answer,   \* the request whose answer was read
  kind,     \* what kind of request it is
  \* the connections
  client,   \* the client's end: none, open, closed
  server,   \* the server's end: none, open, closed
  silent,   \* nothing arrives any more
  up,       \* parts of requests on their way
  down,     \* parts of answers on their way
  \* the server
  stage,    \* what the server waits for: none, accept, header, content, resource,
            \* send, or it is over
  serving,  \* the request in hand
  executed  \* calls of a resource for each request

clientVars == <<turn, doing, conn, call, answer, kind>>
serverVars == <<stage, serving, executed>>
vars == <<clientVars, client, server, silent, up, down, serverVars>>

-----------------------------------------------------------------------------
(* The client *)

NoKind == [content |-> "none", close |-> FALSE]

Part(i, p) == [request |-> i, part |-> p]

Parts == [request : Requests, part : {"header", "content"}]

IsOpen == conn # 0 /\ client[conn] = "open"

Ended(how) ==
  /\ doing' = "nothing"
  /\ call' = [call EXCEPT ![turn] = how]

\* The handlers reset the socket, which closes it, and throw.
Fail ==
  /\ Ended("threw")
  /\ conn' = 0
  /\ client' = IF conn = 0 THEN client ELSE [client EXCEPT ![conn] = "closed"]

\* An operation fails on a socket that either side has closed.
MayFail == client[conn] = "closed" \/ server[conn] = "closed"

Init ==
  /\ turn = 0
  /\ doing = "nothing"
  /\ conn = 0
  /\ call = [i \in Requests |-> "none"]
  /\ answer = [i \in Requests |-> 0]
  /\ kind = [i \in Requests |-> NoKind]
  /\ client = [k \in Conns |-> "none"]
  /\ server = [k \in Conns |-> "none"]
  /\ silent = [k \in Conns |-> FALSE]
  /\ up = [k \in Conns |-> <<>>]
  /\ down = [k \in Conns |-> <<>>]
  /\ stage = [k \in Conns |-> "none"]
  /\ serving = [k \in Conns |-> 0]
  /\ executed = [i \in Requests |-> 0]

\* request(): a socket that is open is used again.
Request ==
  /\ doing = "nothing"
  /\ turn < MaxRequests
  /\ turn' = turn + 1
  /\ call' = [call EXCEPT ![turn'] = "open"]
  /\ kind' \in {[kind EXCEPT ![turn'] = x] : x \in Kinds}
  /\ doing' = IF IsOpen THEN "write" ELSE "connect"
  /\ UNCHANGED <<conn, answer, client, server, silent, up, down, serverVars>>

\* The connection is there before the server has accepted it.
Connect ==
  /\ doing = "connect"
  /\ UNCHANGED <<turn, answer, kind, silent, up, down, serving, executed>>
  /\ \/ \E k \in Conns :
          /\ client[k] = "none" /\ \A j \in 1 .. k - 1 : client[j] # "none"
          /\ conn' = k
          /\ client' = [client EXCEPT ![k] = "open"]
          /\ server' = [server EXCEPT ![k] = "open"]
          /\ stage' = [stage EXCEPT ![k] = "accept"]
          /\ doing' = "write"
          /\ UNCHANGED call
     \/ Fail /\ UNCHANGED <<server, stage>>

\* A mistake: the content is never written.
WriteNoContent ==
  /\ doing = "write"
  /\ UNCHANGED <<turn, answer, kind, server, silent, down, serverVars>>
  /\ \/ /\ client[conn] = "open"
        /\ up' = [up EXCEPT ![conn] = Append(@, Part(turn, "header"))]
        /\ doing' = "header"
        /\ UNCHANGED <<conn, call, client>>
     \/ MayFail /\ Fail /\ UNCHANGED up

\* A write succeeds as soon as the bytes are with the kernel.
Write ==
  /\ doing = "write"
  /\ UNCHANGED <<turn, answer, kind, server, silent, down, serverVars>>
  /\ \/ /\ client[conn] = "open"
        /\ UNCHANGED <<conn, call, client>>
        /\ \/ /\ kind[turn].content = "stream"
              /\ up' = [up EXCEPT ![conn] =
                          @ \o <<Part(turn, "header"), Part(turn, "content")>>]
              /\ doing' = "header"
           \/ /\ kind[turn].content # "stream"
              /\ up' = [up EXCEPT ![conn] = Append(@, Part(turn, "header"))]
              /\ doing' = IF kind[turn].content = "string" THEN "write content" ELSE "header"
     \/ MayFail /\ Fail /\ UNCHANGED up

WriteContent ==
  /\ doing = "write content"
  /\ UNCHANGED <<turn, answer, kind, server, silent, down, serverVars>>
  /\ \/ /\ client[conn] = "open"
        /\ up' = [up EXCEPT ![conn] = Append(@, Part(turn, "content"))]
        /\ doing' = "header"
        /\ UNCHANGED <<conn, call, client>>
     \/ MayFail /\ Fail /\ UNCHANGED up

\* What has arrived is read, also when close() is called just then.
Arrived == down[conn] # <<>> /\ ~ silent[conn]

\* A mistake: the content is left on the connection.
ReadHeaderOnly ==
  /\ doing = "header"
  /\ Arrived
  /\ answer' = [answer EXCEPT ![turn] = Head(down[conn]).request]
  /\ down' = [down EXCEPT ![conn] = Tail(@)]
  /\ Ended("returned")
  /\ UNCHANGED <<turn, conn, kind, client, server, silent, up, serverVars>>

ReadHeader ==
  /\ doing = "header"
  /\ Arrived
  /\ answer' = [answer EXCEPT ![turn] = Head(down[conn]).request]
  /\ down' = [down EXCEPT ![conn] = Tail(@)]
  /\ doing' = "content"
  /\ UNCHANGED <<turn, conn, call, kind, client, server, silent, up, serverVars>>

ReadContent ==
  /\ doing = "content"
  /\ Arrived
  /\ down' = [down EXCEPT ![conn] = Tail(@)]
  /\ Ended("returned")
  /\ UNCHANGED <<turn, conn, answer, kind, client, server, silent, up, serverVars>>

ReadFails ==
  /\ doing \in {"header", "content"}
  /\ \/ client[conn] = "closed"
     \/ server[conn] = "closed" /\ down[conn] = <<>> /\ ~ silent[conn]
  /\ Fail
  /\ UNCHANGED <<turn, answer, kind, server, silent, up, down, serverVars>>

\* close(), by the user or by the handler of a timer.
Close ==
  /\ IsOpen
  /\ client' = [client EXCEPT ![conn] = "closed"]
  /\ UNCHANGED <<clientVars, server, silent, up, down, serverVars>>

-----------------------------------------------------------------------------
(* The server *)

At(k, s) == stage[k] = s

To(k, s) == stage' = [stage EXCEPT ![k] = s]

\* The last handler that holds the socket goes away.
GivesUp(k) ==
  /\ To(k, "over")
  /\ server' = [server EXCEPT ![k] = "closed"]

\* A mistake: no timer for the content of a request.
SecondsNoContent(s) ==
  CASE s = "header" -> TimeoutRequest
    [] s \in {"resource", "send"} -> TimeoutContent
    [] OTHER -> 0

\* The timer of what the server waits for.
Seconds(s) ==
  CASE s = "header" -> TimeoutRequest
    [] s \in {"content", "resource", "send"} -> TimeoutContent
    [] OTHER -> 0

Accept(k) ==
  /\ At(k, "accept")
  /\ To(k, "header")
  /\ UNCHANGED <<clientVars, client, server, silent, up, down, serving, executed>>

\* There is a part to read.
Comes(k) == server[k] = "open" /\ ~ silent[k] /\ up[k] # <<>>

Executes(k, i) ==
  /\ To(k, "resource")
  /\ executed' = [executed EXCEPT ![i] = @ + 1]

\* A mistake: the resource is called although the content is to come.
TakeHeaderAndExecute(k) ==
  /\ At(k, "header") /\ Comes(k)
  /\ LET part == Head(up[k])
     IN  /\ part.part = "header"
         /\ serving' = [serving EXCEPT ![k] = part.request]
         /\ executed' = [executed EXCEPT ![part.request] = @ + 1]
         /\ To(k, IF kind[part.request].content = "none" THEN "resource" ELSE "content")
  /\ up' = [up EXCEPT ![k] = Tail(@)]
  /\ UNCHANGED <<clientVars, client, server, silent, down>>

\* read_request_and_content, the handler of the header.
TakeHeader(k) ==
  /\ At(k, "header") /\ Comes(k)
  /\ LET part == Head(up[k])
     IN  /\ part.part = "header"
         /\ serving' = [serving EXCEPT ![k] = part.request]
         /\ IF kind[part.request].content = "none"
            THEN Executes(k, part.request)
            ELSE To(k, "content") /\ UNCHANGED executed
  /\ up' = [up EXCEPT ![k] = Tail(@)]
  /\ UNCHANGED <<clientVars, client, server, silent, down>>

TakeContent(k) ==
  /\ At(k, "content") /\ Comes(k)
  /\ Executes(k, serving[k])
  /\ up' = [up EXCEPT ![k] = Tail(@)]
  /\ UNCHANGED <<clientVars, client, server, silent, down, serving>>

\* The resource function and whoever else holds the Response let go of it.
ResourceDone(k) ==
  /\ At(k, "resource")
  /\ To(k, "send")
  /\ UNCHANGED <<clientVars, client, server, silent, up, down, serving, executed>>

\* A request of HTTP/1.1 without "Connection: close" keeps the connection.
Keeps(i) == ~ kind[i].close

\* The callback of the final send.
Sent(k) ==
  /\ At(k, "send") /\ server[k] = "open" /\ ~ silent[k]
  /\ down' = [down EXCEPT ![k] =
                @ \o <<Part(serving[k], "header"), Part(serving[k], "content")>>]
  /\ IF Keeps(serving[k]) THEN To(k, "header") /\ UNCHANGED server ELSE GivesUp(k)
  /\ UNCHANGED <<clientVars, client, silent, up, serving, executed>>

\* The socket was closed, or the client has closed it and the bytes it sent
\* before have been read.
ServerFails(k) ==
  /\ stage[k] \in {"header", "content", "send"}
  /\ \/ server[k] = "closed"
     \/ ~ silent[k] /\ client[k] = "closed" /\ (At(k, "send") \/ up[k] = <<>>)
  /\ GivesUp(k)
  /\ UNCHANGED <<clientVars, client, silent, up, down, serving, executed>>

\* The handler of a timer, of this operation or of an earlier one.
ServerTimeout(k) ==
  /\ stage[k] \in {"header", "content", "resource", "send"}
  /\ server[k] = "open"
  /\ TimeoutRequest + TimeoutContent # 0
  /\ server' = [server EXCEPT ![k] = "closed"]
  /\ UNCHANGED <<clientVars, client, silent, up, down, serverVars>>

-----------------------------------------------------------------------------

\* The network between the two goes silent: neither side is told.
GoSilent(k) ==
  /\ Silence
  /\ client[k] = "open" /\ ~ silent[k]
  /\ silent' = [silent EXCEPT ![k] = TRUE]
  /\ UNCHANGED <<clientVars, client, server, up, down, serverVars>>

ClientStep ==
  \/ Connect \/ Write \/ WriteContent \/ ReadHeader \/ ReadContent \/ ReadFails

ServerStep(k) ==
  \/ Accept(k) \/ TakeHeader(k) \/ TakeContent(k) \/ ResourceDone(k)
  \/ Sent(k) \/ ServerFails(k)

Next ==
  \/ Request \/ ClientStep \/ Close
  \/ \E k \in Conns : ServerStep(k) \/ ServerTimeout(k) \/ GoSilent(k)

Spec == Init /\ [][Next]_vars

(* Handlers are called, resources return, and the server's timers expire   *)
(* on a silent connection.  They expire elsewhere too, but nothing depends *)
(* on it, and nothing on the client's timers.                              *)
FairSpec ==
  /\ Spec
  /\ WF_vars(ClientStep)
  /\ \A k \in Conns :
       /\ WF_vars(ServerStep(k))
       /\ WF_vars(silent[k] /\ Seconds(stage[k]) # 0 /\ ServerTimeout(k))

-----------------------------------------------------------------------------
(* Properties *)

TypeOK ==
  /\ turn \in 0 .. MaxRequests
  /\ doing \in {"nothing", "connect", "write", "write content", "header", "content"}
  /\ conn \in 0 .. MaxRequests
  /\ doing \notin {"nothing", "connect"} => conn # 0
  /\ call \in [Requests -> {"none", "open", "returned", "threw"}]
  /\ answer \in [Requests -> 0 .. MaxRequests]
  /\ kind \in [Requests -> Kinds \cup {NoKind}]
  /\ client \in [Conns -> {"none", "open", "closed"}]
  /\ server \in [Conns -> {"none", "open", "closed"}]
  /\ silent \in [Conns -> BOOLEAN]
  /\ up \in [Conns -> Seq(Parts)] /\ down \in [Conns -> Seq(Parts)]
  /\ \A k \in Conns : Len(up[k]) <= 2 /\ Len(down[k]) <= 2
  /\ stage \in [Conns -> {"none", "accept", "header", "content", "resource", "send", "over"}]
  /\ serving \in [Conns -> 0 .. MaxRequests]
  /\ executed \in [Requests -> 0 .. 1]

(* request() returns the answer to its own request, and no request is      *)
(* executed twice, whatever closes or times out on a connection that is    *)
(* used for several of them.                                               *)
Calls == INSTANCE HttpCalls WITH
  answer <- [i \in Requests |-> IF call[i] = "returned" THEN answer[i] ELSE 0]

ImplementsCalls == Calls!Spec

(* The two sides never wait for each other: unless the network is silent,  *)
(* request() returns or throws without the help of any timer.              *)
CallEnds ==
  \A i \in Requests :
    call[i] = "open" ~> call[i] # "open" \/ (conn # 0 /\ silent[conn])

(* The server frees the connection of a client that has gone, or that it   *)
(* cannot hear any more.                                                   *)
ServerFrees ==
  \A k \in Conns :
    stage[k] # "none" /\ (client[k] = "closed" \/ silent[k]) ~> stage[k] = "over"
=============================================================================
