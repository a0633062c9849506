------------------------------ MODULE RequestRead ------------------------------
(***************************************************************************)
(* ServerBase::read_request_and_content and parse_request (server_http.hpp) *)
(* on the bytes of a connection's requests: what the stream buffer of each *)
(* Request holds, where its header ends, and what find_resource is given.  *)
(*                                                                         *)
(* Bytes arrive in any portions.  async_read_until may take more than the  *)
(* header, async_read takes exactly what it was asked for.  Every Request  *)
(* has a stream buffer of its own.  Timers, errors of the socket and the   *)
(* answer are the matter of ServerConnection.                              *)
(*                                                                         *)
(* A symbol stands for a byte, or for a word that the code looks at as a   *)
(* whole.                                                                  *)
(***************************************************************************)
EXTENDS Integers, Sequences, SequencesExt, FiniteSetsExt

CONSTANTS
  Plans   \* sequences of requests that a client sends on one connection

(* A request as its sender means it.  A field is a name, whether a space   *)
(* follows the colon, and a value; one without a colon has no name.        *)
IsField(f) == f \in [name : Seq(STRING), space : BOOLEAN, value : Seq(STRING)]

IsRequest(r) ==
  /\ DOMAIN r = {"line", "fields", "content"}
  /\ r.line \in Seq(STRING) /\ r.content \in Seq(STRING)
  /\ \A i \in DOMAIN r.fields : IsField(r.fields[i])

ASSUME ConstantsAssumption ==
  \A plan \in Plans : \A i \in DOMAIN plan : IsRequest(plan[i])

VARIABLES
  plan,       \* the requests of this connection
  pipelined,  \* the client does not wait for the answers
  begun,      \* requests the client has begun to send
  wire,       \* bytes sent and not received
  phase,      \* header, content, resource; closed
  buffer,     \* request->streambuf
  need,       \* bytes that async_read still has to transfer
  request,    \* what parse_request found
  delivered   \* what find_resource was given, one entry for each request

vars == <<plan, pipelined, begun, wire, phase, buffer, need, request, delivered>>

-----------------------------------------------------------------------------
(* The client's encoding *)

CRLF == <<"CR", "LF">>

FieldText(f) ==
  f.name \o (IF f.name = <<>> THEN <<>> ELSE <<":">>)
    \o (IF f.space THEN <<" ">> ELSE <<>>) \o f.value \o CRLF

Text(r) ==
  r.line \o CRLF \o FlattenSeq([i \in DOMAIN r.fields |-> FieldText(r.fields[i])])
    \o CRLF \o r.content

-----------------------------------------------------------------------------
(* Stream buffers and parse_request *)

Drop(s, n) == SubSeq(s, n + 1, Len(s))

\* The first place of a symbol at or behind a place, or 0: std::string::find.
Find(s, symbol, place) ==
  LET places == {i \in place .. Len(s) : s[i] = symbol}
  IN  IF places = {} THEN 0 ELSE Min(places)

\* Where the first blank line ends: 0 if there is none.
HeaderEnd(s) ==
  LET ends == {i \in 4 .. Len(s) : SubSeq(s, i - 3, i) = CRLF \o CRLF}
  IN  IF ends = {} THEN 0 ELSE Min(ends)

\* The name and the value in a line; its last character is dropped.  There is
\* no field if nothing is behind the colon and its space.
Field(line, colon) ==
  LET start == IF colon < Len(line) /\ line[colon + 1] = " " THEN colon + 2 ELSE colon + 1
  IN  IF start > Len(line) THEN <<>>
      ELSE <<<<SubSeq(line, 1, colon - 1), SubSeq(line, start, Len(line) - 1)>>>>

(* The lines from a place on, each taken by getline, up to the first one   *)
(* without a colon; and where that line ends.                              *)
Fields(s, place) ==
  LET F[p \in 1 .. Len(s)] ==
        LET end   == Find(s, "LF", p)
            line  == SubSeq(s, p, end - 1)
            colon == Find(line, ":", 1)
        IN  IF colon = 0 THEN [header |-> <<>>, end |-> end]
            ELSE [F[end + 1] EXCEPT !.header = Field(line, colon) \o @]
  IN  F[place]

\* parse_request, of a buffer that has a blank line; ok is its result.
Parsed(s) ==
  LET end     == Find(s, "LF", 1)
      line    == SubSeq(s, 1, end - 1)
      method  == Find(line, " ", 1)
      path    == Find(line, " ", method + 1)
      version == Find(line, "/", path + 1)
      fields  == Fields(s, end + 1)
  IN  IF method # 0 /\ path # 0 /\ version # 0 /\ SubSeq(line, path + 1, version - 1) = <<"HTTP">>
      THEN [ok |-> TRUE, method |-> SubSeq(line, 1, method - 1),
            path |-> SubSeq(line, method + 1, path - 1),
            version |-> SubSeq(line, version + 1, Len(line) - 1),
            header |-> fields.header, end |-> fields.end]
      ELSE [ok |-> FALSE]

Digits == <<"0", "1", "2", "3", "4", "5", "6", "7", "8", "9">>

\* The value of header.find("Content-Length"), or none.
LengthField(header) ==
  LET values == {header[i][2] : i \in {j \in DOMAIN header : header[j][1] = <<"Content-Length">>}}
  IN  IF values = {} THEN <<"none">> ELSE CHOOSE v \in values : TRUE

\* stoull throws on a value that does not begin with a digit.
IsNumber(v) == v # <<>> /\ \E n \in 0 .. 9 : Digits[n + 1] = v[1]

Number(v) == CHOOSE n \in 0 .. 9 : Digits[n + 1] = v[1]

\* A mistake: what has been read with the header is forgotten.
MissingForgetful(length, additional) == length

\* The bytes of the content that are not in the buffer.
Missing(length, additional) == IF length > additional THEN length - additional ELSE 0

-----------------------------------------------------------------------------
(* The client and the network *)

Init ==
  /\ plan \in Plans
  /\ pipelined \in BOOLEAN
  /\ begun = 0
  /\ wire = <<>>
  /\ phase = "header"
  /\ buffer = <<>>
  /\ need = 0
  /\ request = [ok |-> FALSE]
  /\ delivered = <<>>

\* The client sends its next request, when it has the answers to the others
\* or does not wait for them.
ClientSends ==
  /\ begun < Len(plan)
  /\ pipelined \/ (begun = Len(delivered) /\ phase = "header")
  /\ begun' = begun + 1
  /\ wire' = wire \o Text(plan[begun'])
  /\ UNCHANGED <<plan, pipelined, phase, buffer, need, request, delivered>>

Take(n) ==
  /\ buffer' = buffer \o SubSeq(wire, 1, n)
  /\ wire' = Drop(wire, n)
  /\ UNCHANGED <<plan, pipelined, begun, phase, request, delivered>>

(* async_read_until completes.  Its portions matter to a handler only by   *)
(* where the last one ends, at the blank line or anywhere behind it.       *)
ReceiveHeader ==
  /\ phase = "header"
  /\ HeaderEnd(buffer) = 0
  /\ HeaderEnd(buffer \o wire) # 0
  /\ \E n \in HeaderEnd(buffer \o wire) - Len(buffer) .. Len(wire) : Take(n)
  /\ UNCHANGED need

\* async_read completes, with the bytes it was asked for and no more.
ReceiveContent ==
  /\ phase = "content"
  /\ need \in 1 .. Len(wire)
  /\ Take(need)
  /\ need' = 0

-----------------------------------------------------------------------------
(* Handlers *)

\* find_resource, with what the buffer holds behind the header as content.
Deliver(r, content) ==
  /\ phase' = "resource"
  /\ delivered' = Append(delivered,
       [method |-> r.method, path |-> r.path, version |-> r.version,
        header |-> r.header, content |-> content])

\* A return without another read drops the socket.
DropSocket ==
  /\ phase' = "closed"
  /\ UNCHANGED <<buffer, need, delivered>>

\* The header is parsed: what the buffer holds behind it, of which
\* `additional` bytes came behind the blank line, is content.
HeaderRead(r, length, additional) ==
  /\ buffer' = Drop(buffer, r.end)
  /\ need' = IF length = <<"none">> THEN 0 ELSE Missing(Number(length), additional)
  /\ IF need' = 0 THEN Deliver(r, buffer') ELSE phase' = "content" /\ UNCHANGED delivered

\* The handler of the header.
HeaderDone ==
  /\ phase = "header"
  /\ HeaderEnd(buffer) # 0
  /\ \E r \in {Parsed(buffer)} :
       /\ request' = r
       /\ \/ ~ r.ok /\ DropSocket
          \/ /\ r.ok
             /\ \E length \in {LengthField(r.header)} :
                  IF length = <<"none">> \/ IsNumber(length)
                  THEN HeaderRead(r, length, Len(buffer) - HeaderEnd(buffer))
                  ELSE DropSocket
  /\ UNCHANGED <<plan, pipelined, begun, wire>>

\* The handler of the content.
ContentDone ==
  /\ phase = "content"
  /\ need = 0
  /\ Deliver(request, buffer)
  /\ UNCHANGED <<plan, pipelined, begun, wire, buffer, need, request>>

\* A mistake: the next request is read into the same buffer.
AnsweredSameBuffer ==
  /\ phase = "resource"
  /\ phase' = "header"
  /\ UNCHANGED <<plan, pipelined, begun, wire, buffer, need, request, delivered>>

\* The answer went out; read_request_and_content reads the next request into
\* the stream buffer of a new Request.
Answered ==
  /\ phase = "resource"
  /\ phase' = "header"
  /\ buffer' = <<>>
  /\ request' = [ok |-> FALSE]
  /\ UNCHANGED <<plan, pipelined, begun, wire, need, delivered>>

-----------------------------------------------------------------------------

Receive == ReceiveHeader \/ ReceiveContent

Handler == HeaderDone \/ ContentDone \/ Answered

Next == ClientSends \/ Receive \/ Handler

\* What was sent arrives, handlers run, and the client sends its requests.
Fairness == WF_vars(ClientSends) /\ WF_vars(Receive) /\ WF_vars(Handler)

-----------------------------------------------------------------------------
(* Properties *)

\* Every field has a colon, and the content is as long as it is said to be.
WellFormed(r) ==
  /\ \A i \in DOMAIN r.fields : r.fields[i].name # <<>>
  /\ LET lengths == {i \in DOMAIN r.fields : r.fields[i].name = <<"Content-Length">>}
     IN  IF lengths = {} THEN r.content = <<>>
         ELSE \A i \in lengths : r.fields[i].value = <<Digits[Len(r.content) + 1]>>
  /\ Len(r.line) = 7

\* The request line or the length cannot be read, and nothing else is wrong.
Refused(r) ==
  /\ \A i \in DOMAIN r.fields : r.fields[i].name # <<>>
  /\ \/ Len(r.line) # 7
     \/ \E i \in DOMAIN r.fields :
          r.fields[i].name = <<"Content-Length">> /\ ~ IsNumber(r.fields[i].value)

Meant(r) ==
  [method |-> <<r.line[1]>>, path |-> <<r.line[3]>>, version |-> <<r.line[7]>>,
   header |-> [i \in DOMAIN r.fields |-> <<r.fields[i].name, r.fields[i].value>>],
   content |-> r.content]

(* Each request reaches its resource as it was sent, however its bytes     *)
(* arrive and whatever its content looks like, and none does that cannot   *)
(* be framed.  That takes a client that waits for the answers: what it     *)
(* sends before is in the stream buffer of the wrong Request, behind the   *)
(* content of the first one.  After a field without a colon nothing is     *)
(* promised: the rest of the header is taken for content.                  *)
DeliveredExactly ==
  \A i \in DOMAIN delivered :
    (\A j \in 1 .. i - 1 : WellFormed(plan[j])) =>
      \/ WellFormed(plan[i]) /\ delivered[i] = Meant(plan[i])
      \/ ~ WellFormed(plan[i]) /\ ~ Refused(plan[i])
      \/ pipelined /\ i > 1
      \/ /\ pipelined
         /\ [delivered[i] EXCEPT !.content = <<>>] = [Meant(plan[i]) EXCEPT !.content = <<>>]
         /\ IsPrefix(plan[i].content, delivered[i].content)

(* The server never waits for a byte that the client does not send.        *)
EveryRequestDelivered ==
  ~ pipelined /\ (\A i \in DOMAIN plan : WellFormed(plan[i])) ~> Len(delivered) = Len(plan)
=============================================================================
