--------------------------- MODULE ClientEngineProofs ---------------------------
(***************************************************************************)
(* Proofs about ClientEngine, for any settings and any number of requests  *)
(* and of chunks.                                                          *)
(*                                                                         *)
(* The properties speak of the socket, but what decides them is the queue: *)
(* which handlers may stand in front of which.  QueueInv says it once and  *)
(* for all, and every handler is then shown to be one of three things: it  *)
(* begins another operation, finishes, or throws.                          *)
(***************************************************************************)
EXTENDS ClientEngine, SequenceTheorems, TLAPS

\* The handler of the operation is not queued, and at most one timeout is.
Clear == {<<>>, <<"timeout">>, <<"leftover">>}

\* The timer of the operation has expired before the handler of the last one ran.
Late == {<<"timeout", "timeout">>, <<"leftover", "timeout">>}

\* The handler of the operation is queued.
OpLast == {<<"op">>, <<"timeout", "op">>, <<"leftover", "op">>}
OpLate == {<<"op", "timeout">>, <<"timeout", "op", "timeout">>, <<"leftover", "op", "timeout">>,
           <<"timeout", "timeout", "op">>, <<"leftover", "timeout", "op">>}

(* At most one handler of an operation is ready, for the one under way,    *)
(* and at most two timeouts, of which only the first may be a leftover.    *)
QueueInv ==
  /\ op = "none" => queue \in {<<>>, <<"timeout">>} /\ ~ armed /\ result # "pending"
  /\ op # "none" /\ result = "pending" => queue \in Clear \/ (~ armed /\ queue \in Late)
  /\ op # "none" /\ result # "pending" => queue \in OpLast \/ (~ armed /\ queue \in OpLate)

\* The operations that a run() performs.
OpsOf(r) ==
  CASE r = "none" -> {"none"}
    [] r = "connect" -> {"none", "resolve", "connect"}
    [] r \in TunnelOps -> {"none", r}
    [] r = "write" -> {"none", "write", "write content"}
    [] OTHER -> {"none", "header", "content", "rest", "chunk line", "chunk data", "last chunk"}

RunInv == op \in OpsOf(run)

(* The socket is there from the moment the resolver has answered until an  *)
(* error or the end of an unframed body; what is behind it is secured      *)
(* before the request is written.                                          *)
SocketInv ==
  /\ op \in SocketOps \/ (run \notin {"none", "header"} /\ op = "none") => sock # "null"
  /\ op = "connect" => sock \in {"connecting", "closed"}
  /\ setting.secure /\ (run \in {"none", "write", "header"} \/ (run = "handshake" /\ op = "none"))
       => sock # "open"

(* What is left of a request that failed: no open socket, so that nothing  *)
(* of its answer is ever read and its timeout finds nothing to close.      *)
FailureInv ==
  /\ run = "none" /\ queue # <<>> => outcome = "threw"
  /\ Orderly /\ run = "none" /\ outcome = "threw" => ~ IsOpen
  /\ Orderly /\ unread => ~ IsOpen
  /\ Orderly /\ queue # <<>> /\ Head(queue) = "leftover" => ~ IsOpen

EngineInv == TypeOK /\ QueueInv /\ RunInv /\ SocketInv /\ FailureInv

-----------------------------------------------------------------------------
(* What a handler does to the connection: one of seven things. *)

\* The next handler is the one of the operation under way.
Handled ==
  /\ run # "none" /\ op # "none"
  /\ queue # <<>> /\ Head(queue) = "op"
  /\ UNCHANGED <<setting, content, made>>

Dials ==
  /\ op = "resolve"
  /\ sock' = "connecting" /\ unread' = FALSE
  /\ Begin("connect", "connecting", Tail(queue))
  /\ UNCHANGED <<run, outcome>>

Drops == Throw /\ sock' = "null"

Leaves ==
  /\ Throw
  /\ \/ ~ Orderly /\ ~ setting.secure /\ sock' = "bound"
     \/ ~ Orderly /\ run = "header" /\ sock' = sock
     \/ op = "connect" /\ sock # "connecting" /\ sock' = sock

Opens == op = "connect" /\ sock = "connecting" /\ sock' = "open" /\ Finish /\ Goes

Secures ==
  /\ op = "handshake"
  /\ sock' = IF sock = "open" THEN "secured" ELSE sock
  /\ Finish /\ Goes

Ends ==
  /\ op \notin {"resolve", "connect", "handshake"}
  /\ sock' = sock \/ (run = "header" /\ sock' = "null")
  /\ unread' = unread \/ (~ Orderly /\ unread' = TRUE)
  /\ Finish
  /\ UNCHANGED <<run, outcome>>

Continues ==
  /\ op \in SocketOps \ {"connect"}
  /\ \E o \in OpsOf(run) \ {"none", "resolve", "connect"} : Begin(o, sock, Tail(queue))
  /\ Goes /\ UNCHANGED sock

-----------------------------------------------------------------------------
(* Queues *)

Kinds == {"op", "timeout", "leftover"}

LEMMA AppendedToOne ==
  ASSUME NEW S, NEW a \in S, NEW e \in S
  PROVE  Append(<<a>>, e) = <<a, e>>
<1>1. <<a>> \in Seq(S) /\ Len(<<a>>) = 1 /\ <<a>>[1] = a
  OBVIOUS
<1>2. <<a, e>> \in Seq(S) /\ Len(<<a, e>>) = 2 /\ <<a, e>>[1] = a /\ <<a, e>>[2] = e
  OBVIOUS
<1>3. /\ Append(<<a>>, e) \in Seq(S)
      /\ Len(Append(<<a>>, e)) = 2
      /\ Append(<<a>>, e)[1] = a
      /\ Append(<<a>>, e)[2] = e
  BY <1>1, AppendProperties
<1>4. \A i \in 1 .. 2 : Append(<<a>>, e)[i] = <<a, e>>[i]
  <2> TAKE i \in 1 .. 2
  <2>1. i = 1 \/ i = 2
    OBVIOUS
  <2> QED
    BY <2>1, <1>2, <1>3
<1> QED
  BY <1>2, <1>3, <1>4, SeqEqual

LEMMA AppendedToTwo ==
  ASSUME NEW S, NEW a \in S, NEW b \in S, NEW e \in S
  PROVE  Append(<<a, b>>, e) = <<a, b, e>>
<1>1. <<a, b>> \in Seq(S) /\ Len(<<a, b>>) = 2 /\ <<a, b>>[1] = a /\ <<a, b>>[2] = b
  OBVIOUS
<1>2. <<a, b, e>> \in Seq(S) /\ Len(<<a, b, e>>) = 3 /\ <<a, b, e>>[1] = a /\ <<a, b, e>>[2] = b
      /\ <<a, b, e>>[3] = e
  OBVIOUS
<1>3. /\ Append(<<a, b>>, e) \in Seq(S)
      /\ Len(Append(<<a, b>>, e)) = 3
      /\ Append(<<a, b>>, e)[1] = a
      /\ Append(<<a, b>>, e)[2] = b
      /\ Append(<<a, b>>, e)[3] = e
  BY <1>1, AppendProperties
<1>4. \A i \in 1 .. 3 : Append(<<a, b>>, e)[i] = <<a, b, e>>[i]
  <2> TAKE i \in 1 .. 3
  <2>1. i = 1 \/ i = 2 \/ i = 3
    OBVIOUS
  <2> QED
    BY <2>1, <1>2, <1>3
<1> QED
  BY <1>2, <1>3, <1>4, SeqEqual

LEMMA HeadsAndTails ==
  /\ \A a : Head(<<a>>) = a /\ Tail(<<a>>) = <<>> /\ <<a>> # <<>>
  /\ \A a, b : Head(<<a, b>>) = a /\ Tail(<<a, b>>) = <<b>> /\ <<a, b>> # <<>>
  /\ \A a, b, c : Head(<<a, b, c>>) = a /\ Tail(<<a, b, c>>) = <<b, c>> /\ <<a, b, c>> # <<>>
OBVIOUS

LEMMA QueuesAreTyped ==
  ASSUME NEW q \in Clear \cup Late \cup OpLast \cup OpLate
  PROVE  q \in Seq(Kinds) /\ Len(q) <= 3
<1>1. CASE q \in Clear
  <2>0. \/ q = <<>>
        \/ q = <<"timeout">>
        \/ q = <<"leftover">>
    BY <1>1 DEF Clear
  <2>1. CASE q = <<>>
    BY <2>1 DEF Kinds
  <2>2. CASE q = <<"timeout">>
    BY <2>2 DEF Kinds
  <2>3. CASE q = <<"leftover">>
    BY <2>3 DEF Kinds
  <2> QED
    BY <2>0, <2>1, <2>2, <2>3
<1>2. CASE q \in Late
  <2>0. \/ q = <<"timeout", "timeout">>
        \/ q = <<"leftover", "timeout">>
    BY <1>2 DEF Late
  <2>1. CASE q = <<"timeout", "timeout">>
    BY <2>1 DEF Kinds
  <2>2. CASE q = <<"leftover", "timeout">>
    BY <2>2 DEF Kinds
  <2> QED
    BY <2>0, <2>1, <2>2
<1>3. CASE q \in OpLast
  <2>0. \/ q = <<"op">>
        \/ q = <<"timeout", "op">>
        \/ q = <<"leftover", "op">>
    BY <1>3 DEF OpLast
  <2>1. CASE q = <<"op">>
    BY <2>1 DEF Kinds
  <2>2. CASE q = <<"timeout", "op">>
    BY <2>2 DEF Kinds
  <2>3. CASE q = <<"leftover", "op">>
    BY <2>3 DEF Kinds
  <2> QED
    BY <2>0, <2>1, <2>2, <2>3
<1>4. CASE q \in OpLate
  <2>0. \/ q = <<"op", "timeout">>
        \/ q = <<"timeout", "op", "timeout">>
        \/ q = <<"leftover", "op", "timeout">>
        \/ q = <<"timeout", "timeout", "op">>
        \/ q = <<"leftover", "timeout", "op">>
    BY <1>4 DEF OpLate
  <2>1. CASE q = <<"op", "timeout">>
    BY <2>1 DEF Kinds
  <2>2. CASE q = <<"timeout", "op", "timeout">>
    BY <2>2 DEF Kinds
  <2>3. CASE q = <<"leftover", "op", "timeout">>
    BY <2>3 DEF Kinds
  <2>4. CASE q = <<"timeout", "timeout", "op">>
    BY <2>4 DEF Kinds
  <2>5. CASE q = <<"leftover", "timeout", "op">>
    BY <2>5 DEF Kinds
  <2> QED
    BY <2>0, <2>1, <2>2, <2>3, <2>4, <2>5
<1> QED
  BY <1>1, <1>2, <1>3, <1>4

\* The operation completes, or fails at once, behind what is queued.
LEMMA CompletionQueued ==
  ASSUME NEW q
  PROVE  /\ q \in Clear => Append(q, "op") \in OpLast
         /\ q \in Late => Append(q, "op") \in OpLate
<1>1. "op" \in Kinds /\ "timeout" \in Kinds /\ "leftover" \in Kinds
  BY DEF Kinds
<1>2. Append(<<>>, "op") = <<"op">>
  OBVIOUS
<1>3. \A a \in Kinds : Append(<<a>>, "op") = <<a, "op">>
  BY <1>1, AppendedToOne
<1>4. \A a, b \in Kinds : Append(<<a, b>>, "op") = <<a, b, "op">>
  BY <1>1, AppendedToTwo
<1>5. q \in Clear => Append(q, "op") \in OpLast
  BY <1>1, <1>2, <1>3 DEF Clear, OpLast
<1>6. q \in Late => Append(q, "op") \in OpLate
  BY <1>1, <1>4 DEF Late, OpLate
<1> QED
  BY <1>5, <1>6

\* The timer expires.
LEMMA TimeoutQueued ==
  ASSUME NEW q
  PROVE  /\ q \in Clear => Append(q, "timeout") \in Clear \cup Late
         /\ q \in OpLast => Append(q, "timeout") \in OpLate
<1>1. "op" \in Kinds /\ "timeout" \in Kinds /\ "leftover" \in Kinds
  BY DEF Kinds
<1>2. Append(<<>>, "timeout") = <<"timeout">>
  OBVIOUS
<1>3. \A a \in Kinds : Append(<<a>>, "timeout") = <<a, "timeout">>
  BY <1>1, AppendedToOne
<1>4. \A a, b \in Kinds : Append(<<a, b>>, "timeout") = <<a, b, "timeout">>
  BY <1>1, AppendedToTwo
<1>5. q \in Clear => Append(q, "timeout") \in Clear \cup Late
  BY <1>1, <1>2, <1>3 DEF Clear, Late
<1>6. q \in OpLast => Append(q, "timeout") \in OpLate
  BY <1>1, <1>3, <1>4 DEF OpLast, OpLate
<1> QED
  BY <1>5, <1>6

\* The handler of the operation is called.
LEMMA CompletionTaken ==
  ASSUME NEW q, q # <<>>, Head(q) = "op"
  PROVE  /\ q \notin Clear \cup Late
         /\ q \in OpLast \cup OpLate => Tail(q) \in {<<>>, <<"timeout">>}
<1>1. q \notin Clear \cup Late
  BY HeadsAndTails DEF Clear, Late
<1>2. ASSUME q \in OpLast PROVE Tail(q) \in {<<>>, <<"timeout">>}
  <2>1. q = <<"op">>
    BY <1>2, HeadsAndTails DEF OpLast
  <2>2. Tail(<<"op">>) = <<>>
    OBVIOUS
  <2> QED
    BY <2>1, <2>2
<1>3. ASSUME q \in OpLate PROVE Tail(q) \in {<<>>, <<"timeout">>}
  <2>1. q = <<"op", "timeout">>
    BY <1>3, HeadsAndTails DEF OpLate
  <2>2. Tail(<<"op", "timeout">>) = <<"timeout">>
    OBVIOUS
  <2> QED
    BY <2>1, <2>2
<1> QED
  BY <1>1, <1>2, <1>3

\* The handler of a timer is called.
LEMMA TimeoutTaken ==
  ASSUME NEW q, q # <<>>, Head(q) \in {"timeout", "leftover"}
  PROVE  /\ q \in Clear => Tail(q) = <<>>
         /\ q \in Late => Tail(q) = <<"timeout">>
         /\ q \in OpLast => Tail(q) \in OpLast
         /\ q \in OpLate => Tail(q) \in OpLast \cup OpLate
<1>1. ASSUME q \in Clear PROVE Tail(q) = <<>>
  <2>1. q = <<"timeout">> \/ q = <<"leftover">>
    BY <1>1 DEF Clear
  <2>2. Tail(<<"timeout">>) = <<>> /\ Tail(<<"leftover">>) = <<>>
    OBVIOUS
  <2> QED
    BY <2>1, <2>2
<1>2. ASSUME q \in Late PROVE Tail(q) = <<"timeout">>
  <2>1. q = <<"timeout", "timeout">> \/ q = <<"leftover", "timeout">>
    BY <1>2 DEF Late
  <2>2. /\ Tail(<<"timeout", "timeout">>) = <<"timeout">>
        /\ Tail(<<"leftover", "timeout">>) = <<"timeout">>
    OBVIOUS
  <2> QED
    BY <2>1, <2>2
<1>3. ASSUME q \in OpLast PROVE Tail(q) \in OpLast
  <2>1. q = <<"timeout", "op">> \/ q = <<"leftover", "op">>
    BY <1>3, HeadsAndTails DEF OpLast
  <2>2. Tail(<<"timeout", "op">>) = <<"op">> /\ Tail(<<"leftover", "op">>) = <<"op">>
    OBVIOUS
  <2> QED
    BY <2>1, <2>2 DEF OpLast
<1>4. ASSUME q \in OpLate PROVE Tail(q) \in OpLast \cup OpLate
  <2>1. \/ q = <<"timeout", "op", "timeout">> \/ q = <<"leftover", "op", "timeout">>
        \/ q = <<"timeout", "timeout", "op">> \/ q = <<"leftover", "timeout", "op">>
    BY <1>4, HeadsAndTails DEF OpLate
  <2>2. /\ Tail(<<"timeout", "op", "timeout">>) = <<"op", "timeout">>
        /\ Tail(<<"leftover", "op", "timeout">>) = <<"op", "timeout">>
        /\ Tail(<<"timeout", "timeout", "op">>) = <<"timeout", "op">>
        /\ Tail(<<"leftover", "timeout", "op">>) = <<"timeout", "op">>
    OBVIOUS
  <2> QED
    BY <2>1, <2>2 DEF OpLast, OpLate
<1> QED
  BY <1>1, <1>2, <1>3, <1>4

-----------------------------------------------------------------------------
(* Handlers *)

QueueTyped == queue \in Seq({"op", "timeout", "leftover"}) /\ Len(queue) <= 3

LEMMA QueueInvTyped == QueueInv => QueueTyped
<1>1. QueueInv => queue \in Clear \cup Late \cup OpLast \cup OpLate
  BY DEF QueueInv, Clear
<1> QED
  BY <1>1, QueuesAreTyped DEF Kinds, QueueTyped

LEMMA QueueTypedAfter == QueueInv' => QueueTyped'
BY QueueInvTyped, PTL

\* In which run() an operation is.
LEMMA RunOfOp ==
  ASSUME TypeOK, RunInv
  PROVE  /\ op \in {"resolve", "connect"} => run = "connect"
         /\ op \in TunnelOps => run = op
         /\ op \in {"write", "write content"} => run = "write"
         /\ op \in {"header", "content", "rest", "chunk line", "chunk data", "last chunk"}
              => run = "header"
BY DEF TypeOK, RunInv, OpsOf, TunnelOps

LEMMA Popped ==
  ASSUME QueueInv, op # "none", queue # <<>>, Head(queue) = "op"
  PROVE  /\ Tail(queue) \in {<<>>, <<"timeout">>}
         /\ result # "pending"
<1>1. queue \notin Clear \cup Late
  BY CompletionTaken
<1>2. result # "pending"
  BY <1>1 DEF QueueInv
<1>3. queue \in OpLast \cup OpLate
  BY <1>2 DEF QueueInv
<1> QED
  BY <1>2, <1>3, CompletionTaken

LEMMA Begun ==
  ASSUME NEW o, o # "none", NEW s, NEW q \in Clear, Begin(o, s, q)
  PROVE  /\ QueueInv'
         /\ op' = o /\ armed' \in BOOLEAN
         /\ result' \in {"pending", "ok", "eof", "failed"}
         /\ q # <<"leftover">> /\ queue' # <<>> => Head(queue') # "leftover"
<1>1. \/ result' = "pending" /\ queue' = q
      \/ result' \in {"ok", "failed"} /\ queue' = Append(q, "op")
  BY DEF Begin
<1>2. Append(q, "op") \in OpLast
  BY CompletionQueued
<1>3. op' = o /\ armed' \in BOOLEAN
  BY DEF Begin
<1>4. QueueInv'
  BY <1>1, <1>2, <1>3 DEF QueueInv
<1>5. q # <<"leftover">> /\ queue' # <<>> => Head(queue') # "leftover"
  <2>1. ASSUME q = <<>> \/ q = <<"timeout">> PROVE queue' # <<>> => Head(queue') # "leftover"
    <3>1. Append(<<>>, "op") = <<"op">>
      OBVIOUS
    <3>2. "timeout" \in Kinds /\ "op" \in Kinds
      BY DEF Kinds
    <3>3. Append(<<"timeout">>, "op") = <<"timeout", "op">>
      BY <3>2, AppendedToOne
    <3> QED
      BY <1>1, <2>1, <3>1, <3>3, HeadsAndTails
  <2> QED
    BY <2>1 DEF Clear
<1> QED
  BY <1>1, <1>3, <1>4, <1>5

LEMMA Finished ==
  ASSUME Tail(queue) \in {<<>>, <<"timeout">>}, Finish
  PROVE  /\ QueueInv'
         /\ op' = "none" /\ armed' \in BOOLEAN /\ result' = "ok"
         /\ queue' # <<>> => Head(queue') # "leftover"
<1>1. QueueInv'
  BY DEF Finish, QueueInv
<1>2. queue' # <<>> => Head(queue') # "leftover"
  BY HeadsAndTails DEF Finish
<1> QED
  BY <1>1, <1>2 DEF Finish

LEMMA LastDoneForms ==
  ASSUME TypeOK, RunInv, NEW o \in SocketOps \ {"connect", "handshake", "none"}, LastDone(o)
  PROVE  Handled /\ (Drops \/ Ends)
BY DEF LastDone, Handles, Handled, Fail, Drops, Ends, Goes, TypeOK, SocketOps, TunnelOps

LEMMA HandlerForms ==
  ASSUME TypeOK, RunInv, Handler
  PROVE  /\ Handled
         /\ Dials \/ Drops \/ Leaves \/ Opens \/ Secures \/ Ends \/ Continues
<1>1. CASE ResolveDone
  <2>1. op = "resolve" /\ Handled
    BY <1>1 DEF ResolveDone, Handles, Handled
  <2>2. Fail => Drops
    BY DEF Fail, Drops
  <2>3. setting.bindFails /\ sock' = "bound" /\ Throw /\ ~ setting.secure => Leaves
    BY DEF Leaves, Orderly
  <2>4. Connects => Dials
    BY <2>1 DEF Connects, Dials
  <2> QED
    BY <1>1, <2>1, <2>2, <2>3, <2>4 DEF ResolveDone
<1>2. CASE SecureResolveDone
  BY <1>2 DEF SecureResolveDone, Handles, Handled, Fail, Drops, Connects, Dials
<1>3. CASE ConnectDone
  BY <1>3 DEF ConnectDone, Handles, Handled, Fail, Drops, FailKeepingSocket, Leaves, Opens
<1>4. CASE ProxyWriteDone
  BY <1>4, LastDoneForms DEF ProxyWriteDone, SocketOps, TunnelOps
<1>5. CASE ProxyReadDone
  BY <1>5, LastDoneForms DEF ProxyReadDone, SocketOps, TunnelOps
<1>6. CASE HandshakeDone
  BY <1>6 DEF HandshakeDone, Handles, Handled, Fail, Drops, Secures
<1>7. CASE WriteDone
  <2>1. CASE LastDone("write")
    BY <2>1, LastDoneForms DEF SocketOps
  <2>2. CASE Handles("write") /\ Begin("write content", sock, Tail(queue)) /\ Goes
             /\ UNCHANGED <<setting, sock, content, response, chunks, made>>
    BY <2>2, RunOfOp DEF Handles, Handled, Continues, OpsOf, SocketOps, TunnelOps
  <2> QED
    BY <1>7, <2>1, <2>2 DEF WriteDone
<1>8. CASE WriteContentDone
  BY <1>8, LastDoneForms DEF WriteContentDone, SocketOps
<1>9. CASE HeaderFailed
  BY <1>9 DEF HeaderFailed, Handles, Handled, Fail, Drops
<1>10. CASE HeaderDone
  <2>1. op = "header" /\ run = "header" /\ Handled /\ sock' = sock
    BY <1>10, RunOfOp DEF HeaderDone, Handles, Handled
  <2>2. ASSUME NEW o \in {"content", "chunk line", "rest"}, Begin(o, sock, Tail(queue)), Goes
        PROVE  Continues
    BY <2>1, <2>2 DEF Continues, OpsOf, SocketOps, TunnelOps
  <2>3. Finish /\ Goes => Ends
    BY <2>1 DEF Goes, Ends
  <2>4. response' \in {"unframed", "bad length"} => ~ Orderly
    BY <1>10 DEF HeaderDone, Orderly, WellFormed
  <2>5. CASE response' = "unframed"
    BY <1>10, <2>1, <2>4, <2>5 DEF HeaderDone, Ends
  <2>6. CASE response' = "bad length"
    BY <1>10, <2>1, <2>4, <2>6 DEF HeaderDone, Leaves
  <2> QED
    BY <1>10, <2>1, <2>2, <2>3, <2>5, <2>6 DEF HeaderDone
<1>11. CASE ContentDone
  BY <1>11, LastDoneForms DEF ContentDone, SocketOps
<1>12. CASE RestDone
  BY <1>12, RunOfOp DEF RestDone, Handles, Handled, Fail, Drops, Ends, Goes
<1>13. CASE ChunkLineDone
  <2>1. op = "chunk line" /\ run = "header" /\ Handled
    BY <1>13, RunOfOp DEF ChunkLineDone, Handles, Handled
  <2>2. ASSUME NEW o \in {"chunk data", "chunk line", "last chunk"},
               Begin(o, sock, Tail(queue)), Goes, sock' = sock
        PROVE  Continues
    BY <2>1, <2>2 DEF Continues, OpsOf, SocketOps, TunnelOps
  <2>3. Finish /\ Goes /\ sock' = sock => Ends
    BY <2>1 DEF Goes, Ends
  <2>4. response = "bad chunk" => ~ Orderly
    BY DEF TypeOK, Orderly, WellFormed
  <2>5. FailKeepingSocket /\ response = "bad chunk" => Leaves
    BY <2>1, <2>4 DEF FailKeepingSocket, Leaves
  <2>6. Fail => Drops
    BY DEF Fail, Drops
  <2> QED
    BY <1>13, <2>1, <2>2, <2>3, <2>5, <2>6 DEF ChunkLineDone
<1>14. CASE ChunkDataDone
  BY <1>14, RunOfOp DEF ChunkDataDone, Handles, Handled, Fail, Drops, Continues, OpsOf, SocketOps,
     TunnelOps
<1>15. CASE LastChunkDone
  BY <1>15, LastDoneForms DEF LastChunkDone, SocketOps
<1> QED
  BY <1>1, <1>2, <1>3, <1>4, <1>5, <1>6, <1>7, <1>8, <1>9, <1>10, <1>11, <1>12, <1>13, <1>14,
     <1>15 DEF Handler

LEMMA HandlerTypes ==
  ASSUME TypeOK, Handler
  PROVE  /\ response' \in setting'.responses \cup {"complete"}
         /\ chunks' \in 0 .. MaxChunks
<1>1. setting' = setting
  BY DEF Handler, ResolveDone, SecureResolveDone, ConnectDone, ProxyWriteDone, ProxyReadDone,
     HandshakeDone, WriteDone, WriteContentDone, HeaderFailed, HeaderDone, ContentDone, RestDone,
     ChunkLineDone, ChunkDataDone, LastChunkDone, LastDone
<1>2. response' = response \/ response' \in setting.responses
  BY DEF Handler, ResolveDone, SecureResolveDone, ConnectDone, ProxyWriteDone, ProxyReadDone,
     HandshakeDone, WriteDone, WriteContentDone, HeaderFailed, HeaderDone, ContentDone, RestDone,
     ChunkLineDone, ChunkDataDone, LastChunkDone, LastDone
<1>3. chunks' = chunks \/ chunks' = 0 \/ (chunks < MaxChunks /\ chunks' = chunks + 1)
  BY DEF Handler, ResolveDone, SecureResolveDone, ConnectDone, ProxyWriteDone, ProxyReadDone,
     HandshakeDone, WriteDone, WriteContentDone, HeaderFailed, HeaderDone, ContentDone, RestDone,
     ChunkLineDone, ChunkDataDone, LastChunkDone, LastDone
<1>4. chunks \in 0 .. MaxChunks /\ response \in setting.responses \cup {"complete"}
  BY DEF TypeOK
<1>5. chunks' \in 0 .. MaxChunks
  <2>1. CASE chunks' = chunks
    BY <1>4, <2>1
  <2>2. CASE chunks' = 0
    BY <2>2, ConstantsAssumption
  <2>3. CASE chunks < MaxChunks /\ chunks' = chunks + 1
    BY <1>4, <2>3, ConstantsAssumption
  <2> QED
    BY <1>3, <2>1, <2>2, <2>3
<1> QED
  BY <1>1, <1>2, <1>4, <1>5

\* What every form of a handler leaves to be shown.
LEMMA HandlerInvariant ==
  ASSUME EngineInv, Handler, QueueInv', RunInv', SocketInv', FailureInv',
         run' \in {"none", run}, op' \in Ops, armed' \in BOOLEAN,
         result' \in {"pending", "ok", "eof", "failed"},
         sock' \in {"null", "bound", "connecting", "open", "secured", "closed"},
         unread' \in BOOLEAN, outcome' \in {"none", "returned", "threw"}
  PROVE  EngineInv'
<1>1. Handled
  BY HandlerForms DEF EngineInv
<1>2. queue' \in Seq({"op", "timeout", "leftover"}) /\ Len(queue') <= 3
  BY QueueTypedAfter DEF QueueTyped
<1>3. TypeOK
  BY DEF EngineInv
<1>4. run' \in {"none", "connect", "write", "header"} \cup TunnelOps
  BY <1>3 DEF TypeOK
<1>5. TypeOK'
  BY <1>1, <1>2, <1>3, <1>4, HandlerTypes DEF TypeOK, Handled
<1> QED
  BY <1>5 DEF EngineInv

LEMMA OrderlyStays == ASSUME setting' = setting PROVE Orderly' <=> Orderly
BY DEF Orderly

LEMMA BeginsKeep ==
  ASSUME EngineInv, Handler, Dials \/ Continues
  PROVE  EngineInv'
<1> DEFINE Starts(o) ==
      /\ o \in (Ops \cap OpsOf(run)) \ {"none", "resolve"}
      /\ Begin(o, sock', Tail(queue))
      /\ \/ op = "resolve" /\ o = "connect" /\ sock' = "connecting" /\ unread' = FALSE
         \/ op \in SocketOps /\ o # "connect" /\ sock' = sock /\ unread' = unread
<1>1. /\ TypeOK /\ QueueInv /\ RunInv /\ SocketInv /\ FailureInv
      /\ Handled
  BY HandlerForms DEF EngineInv
<1>2. UNCHANGED <<setting, run, outcome>>
  BY <1>1 DEF Handled, Dials, Continues, Goes
<1>3. PICK o : Starts(o)
  <2>1. CASE Dials
    BY <1>1, <2>1, RunOfOp DEF Dials, OpsOf, Ops, SocketOps
  <2>2. CASE Continues
    BY <1>1, <2>2 DEF Continues, OpsOf, Ops, SocketOps, TunnelOps, Goes, TypeOK
  <2> QED
    BY <2>1, <2>2
<1>4. Tail(queue) \in {<<>>, <<"timeout">>}
  BY <1>1, Popped DEF Handled
<1>5. /\ QueueInv' /\ op' = o /\ armed' \in BOOLEAN
      /\ result' \in {"pending", "ok", "eof", "failed"}
      /\ queue' # <<>> => Head(queue') # "leftover"
  <2>1. Tail(queue) \in Clear /\ Tail(queue) # <<"leftover">>
    BY <1>4 DEF Clear
  <2> QED
    BY <1>3, <2>1, Begun
<1>6. RunInv'
  BY <1>2, <1>3, <1>5 DEF RunInv, OpsOf
<1>7. SocketInv'
  BY <1>1, <1>2, <1>3, <1>5, RunOfOp DEF SocketInv, SocketOps, TunnelOps, Handled
<1>8. FailureInv'
  BY <1>1, <1>2, <1>3, <1>5, OrderlyStays DEF FailureInv, IsOpen, Handled
<1>9. /\ run' \in {"none", run} /\ op' \in Ops
      /\ sock' \in {"null", "bound", "connecting", "open", "secured", "closed"}
      /\ unread' \in BOOLEAN /\ outcome' \in {"none", "returned", "threw"}
  BY <1>1, <1>2, <1>3, <1>5 DEF TypeOK
<1> QED
  BY <1>5, <1>6, <1>7, <1>8, <1>9, HandlerInvariant

LEMMA FinishesKeep ==
  ASSUME EngineInv, Handler, Opens \/ Secures \/ Ends
  PROVE  EngineInv'
<1>1. /\ TypeOK /\ QueueInv /\ RunInv /\ SocketInv /\ FailureInv
      /\ Handled
  BY HandlerForms DEF EngineInv
<1>2. Finish /\ UNCHANGED <<setting, run, outcome>>
  BY <1>1 DEF Handled, Opens, Secures, Ends, Goes
<1>3. /\ QueueInv' /\ op' = "none" /\ armed' \in BOOLEAN /\ result' = "ok"
      /\ queue' # <<>> => Head(queue') # "leftover"
  BY <1>1, <1>2, Popped, Finished DEF Handled
<1>4. RunInv'
  BY <1>1, <1>2, <1>3 DEF RunInv, OpsOf, TypeOK
<1>5. SocketInv'
  <2>1. op # "resolve" => op \in SocketOps /\ sock # "null"
    BY <1>1 DEF Handled, TypeOK, Ops, SocketInv
  <2>2. op = "connect" => run = "connect"
    BY <1>1, RunOfOp
  <2>3. run = "handshake" => op = "handshake"
    BY <1>1 DEF RunInv, OpsOf, TunnelOps, Handled
  <2>4. CASE Opens
    BY <1>2, <1>3, <2>2, <2>4 DEF SocketInv, SocketOps, TunnelOps, Opens
  <2>5. CASE Secures
    BY <1>1, <1>2, <1>3, <2>1, <2>5 DEF SocketInv, SocketOps, TunnelOps, Secures
  <2>6. CASE Ends
    BY <1>1, <1>2, <1>3, <2>1, <2>3, <2>6 DEF SocketInv, SocketOps, TunnelOps, Ends
  <2> QED
    BY <2>4, <2>5, <2>6
<1>6. FailureInv'
  BY <1>1, <1>2, <1>3, OrderlyStays DEF FailureInv, IsOpen, Handled, Opens, Secures, Ends, Goes
<1>7. /\ run' \in {"none", run} /\ op' \in Ops
      /\ sock' \in {"null", "bound", "connecting", "open", "secured", "closed"}
      /\ unread' \in BOOLEAN /\ outcome' \in {"none", "returned", "threw"}
  BY <1>1, <1>2, <1>3 DEF TypeOK, Opens, Secures, Ends, Goes, Ops
<1> QED
  BY <1>3, <1>4, <1>5, <1>6, <1>7, HandlerInvariant

LEMMA ThrowsKeep ==
  ASSUME EngineInv, Handler, Drops \/ Leaves
  PROVE  EngineInv'
<1>1. /\ TypeOK /\ QueueInv /\ RunInv /\ SocketInv /\ FailureInv
      /\ Handled
  BY HandlerForms DEF EngineInv
<1>2. Throw /\ setting' = setting
  BY <1>1 DEF Handled, Drops, Leaves
<1>3. /\ QueueInv' /\ op' = "none" /\ armed' \in BOOLEAN /\ result' = "ok"
      /\ queue' # <<>> => Head(queue') # "leftover"
  BY <1>1, <1>2, Popped, Finished DEF Handled, Throw
<1>4. run' = "none" /\ unread' = TRUE /\ outcome' = "threw"
  BY <1>2 DEF Throw
<1>5. RunInv'
  BY <1>3, <1>4 DEF RunInv, OpsOf
<1>6. SocketInv'
  BY <1>1, <1>2, <1>3, <1>4 DEF SocketInv, SocketOps, TunnelOps, Drops, Leaves
<1>7. FailureInv'
  BY <1>1, <1>2, <1>3, <1>4, OrderlyStays DEF FailureInv, SocketInv, IsOpen, Drops, Leaves
<1>8. /\ op' \in Ops
      /\ sock' \in {"null", "bound", "connecting", "open", "secured", "closed"}
  BY <1>1, <1>3 DEF TypeOK, Drops, Leaves, Ops
<1> QED
  BY <1>3, <1>4, <1>5, <1>6, <1>7, <1>8, HandlerInvariant

LEMMA HandlerKeeps == ASSUME EngineInv, Handler PROVE EngineInv'
BY HandlerForms, BeginsKeep, FinishesKeep, ThrowsKeep DEF EngineInv

-----------------------------------------------------------------------------
(* The caller, the other thread, the timers and the network *)

LEMMA EngineInit == Init => EngineInv
<1> SUFFICES ASSUME Init PROVE EngineInv
  OBVIOUS
<1>1. queue = <<>> /\ queue \in Seq({"op", "timeout", "leftover"}) /\ Len(queue) <= 3
  BY DEF Init
<1>2. 0 \in 0 .. MaxRequests /\ 0 \in 0 .. MaxChunks
  BY ConstantsAssumption
<1>3. TypeOK
  BY <1>1, <1>2 DEF Init, TypeOK, Ops
<1> QED
  BY <1>1, <1>3 DEF Init, EngineInv, QueueInv, RunInv, OpsOf, SocketInv, SocketOps, TunnelOps,
     FailureInv, IsOpen

LEMMA RequestKeeps == ASSUME EngineInv, Request PROVE EngineInv'
<1>1. /\ TypeOK /\ QueueInv /\ RunInv /\ SocketInv /\ FailureInv
  BY DEF EngineInv
<1>2. /\ run = "none" /\ op = "none"
      /\ UNCHANGED <<setting, sock, response, unread, chunks>>
      /\ outcome' = "none"
  BY <1>1 DEF Request, RunInv, OpsOf
<1>3. Leftovers \in {<<>>, <<"leftover">>} /\ (queue = <<>> => Leftovers = <<>>)
  <2>1. queue = <<>> \/ queue = <<"timeout">>
    BY <1>1, <1>2 DEF QueueInv
  <2>2. CASE queue = <<>>
    BY <2>2 DEF Leftovers
  <2>3. CASE queue = <<"timeout">>
    BY <2>3 DEF Leftovers
  <2> QED
    BY <2>1, <2>2, <2>3
<1>4. PICK o \in {"resolve", "write"} :
        /\ Begin(o, sock, Leftovers)
        /\ o = "resolve" => ~ IsOpen /\ run' = "connect"
        /\ o = "write" => IsOpen /\ run' = "write"
  BY DEF Request
<1>5. /\ QueueInv' /\ op' = o /\ armed' \in BOOLEAN
      /\ result' \in {"pending", "ok", "eof", "failed"}
      /\ Leftovers # <<"leftover">> /\ queue' # <<>> => Head(queue') # "leftover"
  BY <1>3, <1>4, Begun DEF Clear
<1>6. RunInv'
  BY <1>4, <1>5 DEF RunInv, OpsOf, TunnelOps
<1>7. SocketInv'
  BY <1>1, <1>2, <1>4, <1>5 DEF SocketInv, SocketOps, TunnelOps, IsOpen
<1>8. FailureInv'
  <2>1. Orderly /\ Leftovers = <<"leftover">> => ~ IsOpen
    <3>1. Leftovers = <<"leftover">> => queue # <<>>
      BY <1>3
    <3> QED
      BY <1>1, <1>2, <3>1 DEF FailureInv
  <2>2. IsOpen' <=> IsOpen
    BY <1>2 DEF IsOpen
  <2> QED
    BY <1>1, <1>2, <1>3, <1>4, <1>5, <2>1, <2>2, OrderlyStays DEF FailureInv
<1>9. TypeOK'
  <2>1. made' \in 0 .. MaxRequests
    BY <1>1, ConstantsAssumption DEF TypeOK, Request
  <2>2. queue' \in Seq({"op", "timeout", "leftover"}) /\ Len(queue') <= 3
    BY <1>5, QueueTypedAfter DEF QueueTyped
  <2>3. content' \in Contents \cup {"none"}
    BY DEF Request
  <2> QED
    BY <1>1, <1>2, <1>4, <1>5, <2>1, <2>2, <2>3 DEF TypeOK, Ops, SocketOps
<1> QED
  BY <1>5, <1>6, <1>7, <1>8, <1>9 DEF EngineInv

LEMMA RunReturnsKeeps == ASSUME EngineInv, RunReturns PROVE EngineInv'
<1> DEFINE Continued(o) ==
      /\ Runs(o)
      /\ o = "write" => run = "handshake" \/ ~ setting.secure
      /\ o = "header" => run = "write"
      /\ run # "header"
<1> DEFINE Over ==
      /\ run' = "none" /\ outcome' \in {"returned", "threw"}
      /\ UNCHANGED <<op, result, queue, armed>>
      /\ \/ run = "header" /\ sock' = sock /\ outcome' = "returned"
         \/ sock' = "null"
<1>1. /\ TypeOK /\ QueueInv /\ RunInv /\ SocketInv /\ FailureInv
  BY DEF EngineInv
<1>2. /\ run # "none" /\ op = "none" /\ ~ armed /\ queue = <<>>
      /\ UNCHANGED <<setting, content, response, unread, chunks, made>>
  BY DEF RunReturns
<1>3. \/ \E o \in TunnelOps \cup {"write", "header"} : Continued(o)
      \/ Over
  BY <1>2 DEF RunReturns, AfterConnect, Refused, TunnelOps
<1>4. CASE \E o \in TunnelOps \cup {"write", "header"} : Continued(o)
  <2>1. PICK o \in TunnelOps \cup {"write", "header"} : Continued(o)
    BY <1>4
  <2>2. o \in SocketOps /\ o # "none" /\ o # "connect"
    BY DEF SocketOps, TunnelOps
  <2>3. run' = o /\ Begin(o, sock, <<>>) /\ UNCHANGED <<sock, outcome>>
    BY <1>2, <2>1 DEF Runs
  <2>4. /\ QueueInv' /\ op' = o /\ armed' \in BOOLEAN
        /\ result' \in {"pending", "ok", "eof", "failed"}
        /\ queue' # <<>> => Head(queue') # "leftover"
    BY <2>2, <2>3, Begun DEF Clear
  <2>5. RunInv'
    BY <2>1, <2>3, <2>4 DEF RunInv, OpsOf, TunnelOps
  <2>6. SocketInv'
    BY <1>1, <1>2, <2>1, <2>2, <2>3, <2>4 DEF SocketInv, TunnelOps
  <2>7. FailureInv'
    BY <1>1, <1>2, <2>1, <2>3, <2>4, OrderlyStays DEF FailureInv, IsOpen, TunnelOps
  <2>8. queue' \in Seq({"op", "timeout", "leftover"}) /\ Len(queue') <= 3
    BY <2>4, QueueTypedAfter DEF QueueTyped
  <2>9. TypeOK'
    BY <1>1, <1>2, <2>1, <2>2, <2>3, <2>4, <2>8 DEF TypeOK, Ops, TunnelOps
  <2> QED
    BY <2>4, <2>5, <2>6, <2>7, <2>9 DEF EngineInv
<1>5. CASE Over
  <2>1. QueueInv' /\ RunInv'
    BY <1>1, <1>2, <1>5 DEF QueueInv, RunInv, OpsOf
  <2>2. SocketInv'
    BY <1>1, <1>2, <1>5 DEF SocketInv, SocketOps, TunnelOps
  <2>3. FailureInv'
    BY <1>1, <1>2, <1>5, OrderlyStays DEF FailureInv, IsOpen
  <2>4. TypeOK'
    BY <1>1, <1>2, <1>5 DEF TypeOK
  <2> QED
    BY <2>1, <2>2, <2>3, <2>4 DEF EngineInv
<1> QED
  BY <1>3, <1>4, <1>5

\* The socket is closed and what was under way on it is aborted: by close(),
\* behind the whole queue, or by the handler of a timer, behind its tail.
LEMMA ClosingKeeps ==
  ASSUME EngineInv, NEW q, NEW closes \in BOOLEAN,
         op = "none" => q \in {<<>>, <<"timeout">>},
         op # "none" /\ result = "pending" => q \in Clear \/ (~ armed /\ q \in Late),
         op # "none" /\ result # "pending" => q \in OpLast \/ (~ armed /\ q \in OpLate),
         q # queue => run # "none" /\ (q # <<>> => Head(q) # "leftover"),
         closes => sock' = "closed",
         ~ closes => sock' = sock,
         IF closes /\ op \in SocketOps /\ result = "pending"
           THEN result' = "failed" /\ queue' = Append(q, "op")
           ELSE result' = result /\ queue' = q,
         UNCHANGED <<setting, run, op, armed, content, response, unread, chunks, made, outcome>>
  PROVE  EngineInv'
<1>1. /\ TypeOK /\ QueueInv /\ RunInv /\ SocketInv /\ FailureInv
  BY DEF EngineInv
<1>2. /\ q \in Clear => Append(q, "op") \in OpLast
      /\ q \in Late => Append(q, "op") \in OpLate
  BY CompletionQueued
<1>3. QueueInv'
  BY <1>1, <1>2 DEF QueueInv, SocketOps, TunnelOps
<1>4. RunInv'
  BY <1>1 DEF RunInv, OpsOf
<1>5. SocketInv'
  BY <1>1 DEF SocketInv
<1>6. FailureInv'
  BY <1>1, OrderlyStays DEF FailureInv, IsOpen, RunInv, OpsOf, SocketOps, TunnelOps
<1>7. queue' \in Seq({"op", "timeout", "leftover"}) /\ Len(queue') <= 3
  BY <1>3, QueueTypedAfter DEF QueueTyped
<1>8. TypeOK'
  BY <1>1, <1>7 DEF TypeOK
<1> QED
  BY <1>3, <1>4, <1>5, <1>6, <1>8 DEF EngineInv

LEMMA CloseKeeps == ASSUME EngineInv, Close PROVE EngineInv'
<1>1. /\ sock' = "closed"
      /\ IF TRUE /\ op \in SocketOps /\ result = "pending"
           THEN result' = "failed" /\ queue' = Append(queue, "op")
           ELSE result' = result /\ queue' = queue
      /\ UNCHANGED <<setting, run, op, armed, content, response, unread, chunks, made, outcome>>
  BY DEF Close
<1> QED
  BY <1>1, ClosingKeeps DEF EngineInv, QueueInv

LEMMA TimeoutHandlerKeeps == ASSUME EngineInv, TimeoutHandler PROVE EngineInv'
<1>1. QueueInv
  BY DEF EngineInv
<1>2. /\ run # "none" /\ queue # <<>> /\ Head(queue) \in {"timeout", "leftover"}
      /\ UNCHANGED <<setting, run, op, armed, content, response, unread, chunks, made, outcome>>
  BY DEF TimeoutHandler
<1>3. /\ queue \in Clear => Tail(queue) = <<>>
      /\ queue \in Late => Tail(queue) = <<"timeout">>
      /\ queue \in OpLast => Tail(queue) \in OpLast
      /\ queue \in OpLate => Tail(queue) \in OpLast \cup OpLate
  BY <1>2, TimeoutTaken
<1>4. /\ op = "none" => Tail(queue) \in {<<>>, <<"timeout">>}
      /\ op # "none" /\ result = "pending" => Tail(queue) \in Clear
  BY <1>1, <1>3 DEF QueueInv, Clear
<1>5. op # "none" /\ result # "pending"
        => Tail(queue) \in OpLast \/ (~ armed /\ Tail(queue) \in OpLate)
  BY <1>1, <1>3 DEF QueueInv
<1>6. Tail(queue) # <<>> => Head(Tail(queue)) # "leftover"
  <2>1. queue \in Clear \cup Late \cup OpLast \cup OpLate
    BY <1>1 DEF QueueInv, Clear
  <2>2. \A q \in OpLast \cup OpLate \cup Late :
          q # <<>> /\ Head(q) \in {"timeout", "leftover"} /\ Tail(q) # <<>>
            => Head(Tail(q)) # "leftover"
    BY HeadsAndTails DEF OpLast, OpLate, Late
  <2> QED
    BY <1>2, <1>3, <2>1, <2>2
<1>7. /\ IsOpen => sock' = "closed"
      /\ ~ IsOpen => sock' = sock
      /\ IF IsOpen /\ op \in SocketOps /\ result = "pending"
           THEN result' = "failed" /\ queue' = Append(Tail(queue), "op")
           ELSE result' = result /\ queue' = Tail(queue)
  BY DEF TimeoutHandler
<1>8. IsOpen \in BOOLEAN
  BY DEF IsOpen
<1> QED
  BY <1>2, <1>4, <1>5, <1>6, <1>7, <1>8, ClosingKeeps

\* An operation completes, or its timer expires.
LEMMA ReadyKeeps ==
  ASSUME EngineInv, Complete \/ Expire
  PROVE  EngineInv'
<1>1. /\ TypeOK /\ QueueInv /\ RunInv /\ SocketInv /\ FailureInv
  BY DEF EngineInv
<1>2. UNCHANGED <<setting, run, op, sock, content, response, unread, chunks, made, outcome>>
  BY DEF Complete, Expire
<1>3. run # "none" /\ op # "none"
  BY <1>1 DEF Complete, Expire, QueueInv, RunInv, OpsOf
<1>4. /\ QueueInv'
      /\ Head(queue') = "leftover" => queue # <<>> /\ Head(queue) = "leftover"
  <2>1. CASE Complete
    <3>1. result = "pending" /\ result' # "pending" /\ armed' = armed
          /\ queue' = Append(queue, "op")
      BY <2>1 DEF Complete
    <3> QED
      BY <1>1, <1>2, <1>3, <3>1, CompletionQueued DEF QueueInv
  <2>2. CASE Expire
    <3>1. armed /\ armed' = FALSE /\ result' = result /\ queue' = Append(queue, "timeout")
      BY <2>2 DEF Expire
    <3> QED
      BY <1>1, <1>2, <1>3, <3>1, TimeoutQueued DEF QueueInv
  <2> QED
    BY <2>1, <2>2
<1>5. RunInv' /\ SocketInv'
  BY <1>1, <1>2 DEF RunInv, OpsOf, SocketInv
<1>6. FailureInv'
  BY <1>1, <1>2, <1>3, <1>4, OrderlyStays DEF FailureInv, IsOpen
<1>7. queue' \in Seq({"op", "timeout", "leftover"}) /\ Len(queue') <= 3
  BY <1>4, QueueTypedAfter DEF QueueTyped
<1>8. result' \in {"pending", "ok", "eof", "failed"} /\ armed' \in BOOLEAN
  BY <1>1 DEF TypeOK, Complete, Expire
<1>9. TypeOK'
  BY <1>1, <1>2, <1>7, <1>8 DEF TypeOK
<1> QED
  BY <1>4, <1>5, <1>6, <1>9 DEF EngineInv

LEMMA EngineStep == EngineInv /\ [Next]_vars => EngineInv'
<1> SUFFICES ASSUME EngineInv, [Next]_vars PROVE EngineInv'
  OBVIOUS
<1>1. CASE Request
  BY <1>1, RequestKeeps
<1>2. CASE RunReturns
  BY <1>2, RunReturnsKeeps
<1>3. CASE Close
  BY <1>3, CloseKeeps
<1>4. CASE Handler
  BY <1>4, HandlerKeeps
<1>5. CASE TimeoutHandler
  BY <1>5, TimeoutHandlerKeeps
<1>6. CASE Complete \/ Expire
  BY <1>6, ReadyKeeps
<1>7. CASE UNCHANGED vars
  <2>1. TypeOK'
    BY <1>7 DEF vars, EngineInv, TypeOK
  <2>2. QueueInv'
    BY <1>7 DEF vars, EngineInv, QueueInv
  <2>3. RunInv' /\ SocketInv'
    BY <1>7 DEF vars, EngineInv, RunInv, OpsOf, SocketInv
  <2>4. FailureInv'
    BY <1>7, OrderlyStays DEF vars, EngineInv, FailureInv, IsOpen
  <2> QED
    BY <2>1, <2>2, <2>3, <2>4 DEF EngineInv
<1> QED
  BY <1>1, <1>2, <1>3, <1>4, <1>5, <1>6, <1>7 DEF Next

-----------------------------------------------------------------------------

(* Type correctness, and no more than three handlers are ready at once: the *)
(* queue of the io_service does not grow with the requests that fail.      *)
THEOREM EngineTypeCorrect == Spec => []TypeOK
<1>1. EngineInv => TypeOK
  BY DEF EngineInv
<1> QED
  BY EngineInit, EngineStep, <1>1, PTL DEF Spec

(* Whatever a handler dereferences is there: no operation on the socket is *)
(* under way, and none is queued, while the pointer to it is null.         *)
THEOREM SocketIsThere == Spec => []NoNullSocket
<1>1. EngineInv => NoNullSocket
  BY DEF EngineInv, SocketInv, NoNullSocket
<1> QED
  BY EngineInit, EngineStep, <1>1, PTL DEF Spec

(* When request() has returned or thrown, no handler that refers to its    *)
(* variables is left in the queue, whichever handler threw and whatever    *)
(* was queued behind it.                                                   *)
THEOREM NoHandlerOutlivesItsRequest == Spec => []NoOrphanHandler
<1>1. EngineInv => NoOrphanHandler
  <2> SUFFICES ASSUME EngineInv, run = "none"
               PROVE  op = "none" /\ ~ armed /\ \A i \in DOMAIN queue : queue[i] # "op"
    BY DEF NoOrphanHandler
  <2>1. op = "none"
    BY DEF EngineInv, RunInv, OpsOf
  <2>2. ~ armed /\ (queue = <<>> \/ queue = <<"timeout">>)
    BY <2>1 DEF EngineInv, QueueInv
  <2> QED
    BY <2>1, <2>2
<1> QED
  BY EngineInit, EngineStep, <1>1, PTL DEF Spec

(* With well-formed responses, a request that threw leaves no connection   *)
(* that the next one would use.                                            *)
THEOREM FailedConnectionsAreDropped == Spec => []FailureDropsConnection
<1>1. EngineInv => FailureDropsConnection
  BY DEF EngineInv, FailureInv, FailureDropsConnection
<1> QED
  BY EngineInit, EngineStep, <1>1, PTL DEF Spec

(* With well-formed responses, no request reads what an earlier one left   *)
(* unread on the connection.                                               *)
THEOREM AnswersAreFresh == Spec => []NoStaleAnswer
<1>1. EngineInv => NoStaleAnswer
  BY DEF EngineInv, FailureInv, NoStaleAnswer, IsOpen, Ready
<1> QED
  BY EngineInit, EngineStep, <1>1, PTL DEF Spec

(* With well-formed responses, a timeout that outlives its request closes  *)
(* no connection of a later one.                                           *)
THEOREM LeftoverTimeoutsFindNothing == Spec => []TimeoutFindsNothing
<1>1. EngineInv => TimeoutFindsNothing
  BY DEF EngineInv, FailureInv, TimeoutFindsNothing, TimeoutOfItsRequest
<1> QED
  BY EngineInit, EngineStep, <1>1, PTL DEF Spec

(* Nothing of an HTTPS request goes over a connection without a handshake. *)
THEOREM NothingBeforeHandshake == Spec => []HandshakeFirst
<1>1. EngineInv => HandshakeFirst
  <2> SUFFICES ASSUME EngineInv, setting.secure, op \in SocketOps \ (TunnelOps \cup {"connect"})
               PROVE  sock # "open"
    BY DEF HandshakeFirst
  <2>1. run \in {"write", "header"}
    BY RunOfOp DEF EngineInv, SocketOps
  <2> QED
    BY <2>1 DEF EngineInv, SocketInv
<1> QED
  BY EngineInit, EngineStep, <1>1, PTL DEF Spec
=============================================================================
