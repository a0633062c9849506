--------------------------- MODULE HttpExchangeProofs ---------------------------
(***************************************************************************)
(* Proofs about HttpExchange, for any kinds of requests, any timeouts and  *)
(* any number of requests: it implements HttpCalls.                        *)
(*                                                                         *)
(* What has to be shown is that a connection carries the parts of one      *)
(* request at a time, that no two connections carry the same request, and  *)
(* that on the client's own connection it is the request the client waits  *)
(* for.  A connection is in one of six conditions.                         *)
(***************************************************************************)
EXTENDS HttpExchange, SequenceTheorems, TLAPS

Header(i)  == <<Part(i, "header")>>
Content(i) == <<Part(i, "content")>>
Both(i)    == <<Part(i, "header"), Part(i, "content")>>

\* Nothing is under way, and the server waits for a request.
Idle(k) == stage[k] \in {"none", "accept", "header"} /\ up[k] = <<>> /\ down[k] = <<>>

\* The request is on its way.
Written(k, i) ==
  /\ stage[k] \in {"accept", "header"}
  /\ up[k] \in {Header(i), Both(i)} /\ down[k] = <<>>
  /\ kind[i].content = "none" => up[k] = Header(i)
  /\ executed[i] = 0

\* The server has its header and waits for its content.
Taken(k, i) ==
  /\ stage[k] = "content" /\ serving[k] = i
  /\ up[k] \in {<<>>, Content(i)} /\ down[k] = <<>>
  /\ executed[i] = 0

Executing(k, i) ==
  /\ stage[k] \in {"resource", "send"} /\ serving[k] = i
  /\ up[k] = <<>> /\ down[k] = <<>>
  /\ executed[i] = 1

Answered(k, i) ==
  /\ stage[k] \in {"header", "over"}
  /\ up[k] = <<>> /\ down[k] \in {Both(i), Content(i)}
  /\ executed[i] = 1

\* The server has given the connection up without an answer.
Dead(k) == stage[k] = "over" /\ down[k] = <<>>

\* The server has still to call a resource for it.
Pending(k, i) == Written(k, i) \/ Taken(k, i)

Carries(k, i) == Written(k, i) \/ Taken(k, i) \/ Executing(k, i) \/ Answered(k, i)

\* The first byte of the request may have been written.
Begun(i) == i \in 1 .. turn /\ (i = turn => doing \notin {"connect", "write"})

ConnInv == \A k \in Conns : Idle(k) \/ Dead(k) \/ \E i \in Requests : Carries(k, i) /\ Begun(i)

OnceInv ==
  /\ \A k, l \in Conns : \A i \in Requests :
       Pending(k, i) /\ Pending(l, i) => k = l
  /\ \A i \in Requests : ~ Begun(i) => executed[i] = 0

(* Of each operation of the client, what its connection may hold: the      *)
(* answer that is read is the one to the request in hand.                  *)
Waits(k, i) ==
  /\ doing = "write content" =>
       /\ kind[i].content = "string"
       /\ \/ Written(k, i) /\ up[k] = Header(i)
          \/ Taken(k, i) /\ up[k] = <<>>
          \/ Dead(k) /\ up[k] \in {<<>>, Header(i)}
  /\ doing = "header" =>
       \/ Written(k, i) \/ Taken(k, i) \/ Executing(k, i)
       \/ Answered(k, i) /\ down[k] = Both(i)
       \/ Dead(k)
  /\ doing = "content" =>
       Answered(k, i) /\ down[k] = Content(i) /\ answer[i] = i

CurrentInv ==
  /\ doing \notin {"nothing", "connect"} => conn # 0
  /\ \A k \in Conns : k = conn =>
       /\ doing \in {"nothing", "connect", "write"} => Idle(k) \/ (Dead(k) /\ up[k] = <<>>)
       /\ \A i \in Requests : i = turn => Waits(k, i)

\* One request at a time, and a connection is used once it is made.
CallInv ==
  /\ doing # "nothing" => turn # 0 /\ call[turn] = "open"
  /\ \A i \in Requests : i < turn \/ (i = turn /\ doing = "nothing") => call[i] \in {"returned", "threw"}
  /\ \A i \in Requests : i > turn => call[i] = "none"
  /\ \A k \in Conns : /\ client[k] = "none" <=> stage[k] = "none"
                      /\ client[k] = "none" => k # conn /\ up[k] = <<>>

ExchangeInv == TypeOK /\ ConnInv /\ OnceInv /\ CurrentInv /\ CallInv

-----------------------------------------------------------------------------
(* Parts *)

LEMMA PartFacts ==
  ASSUME NEW i
  PROVE  /\ Part(i, "header").request = i /\ Part(i, "header").part = "header"
         /\ Part(i, "content").request = i /\ Part(i, "content").part = "content"
         /\ Header(i) # <<>> /\ Head(Header(i)) = Part(i, "header") /\ Tail(Header(i)) = <<>>
         /\ Content(i) # <<>> /\ Head(Content(i)) = Part(i, "content") /\ Tail(Content(i)) = <<>>
         /\ Both(i) # <<>> /\ Head(Both(i)) = Part(i, "header") /\ Tail(Both(i)) = Content(i)
         /\ Len(Header(i)) = 1 /\ Len(Content(i)) = 1 /\ Len(Both(i)) = 2 /\ Len(<<>>) = 0
         /\ Header(i) # Both(i) /\ Content(i) # Both(i)
<1>1. /\ Part(i, "header").request = i /\ Part(i, "header").part = "header"
      /\ Part(i, "content").request = i /\ Part(i, "content").part = "content"
  BY DEF Part
<1>2. /\ Header(i) # <<>> /\ Head(Header(i)) = Part(i, "header") /\ Tail(Header(i)) = <<>>
      /\ Content(i) # <<>> /\ Head(Content(i)) = Part(i, "content") /\ Tail(Content(i)) = <<>>
  BY DEF Header, Content
<1>3. Both(i) # <<>> /\ Head(Both(i)) = Part(i, "header") /\ Tail(Both(i)) = Content(i)
  BY DEF Both, Content
<1>4. Len(Header(i)) = 1 /\ Len(Content(i)) = 1 /\ Len(Both(i)) = 2 /\ Len(<<>>) = 0
  BY DEF Header, Content, Both
<1>5. Header(i) # Both(i) /\ Content(i) # Both(i)
  BY <1>4
<1> QED
  BY <1>1, <1>2, <1>3, <1>4, <1>5

LEMMA AppendedToOne ==
  ASSUME NEW S, NEW a \in S, NEW e \in S
  PROVE  Append(<<a>>, e) = <<a, e>>
<1>1. <<a>> \in Seq(S) /\ Len(<<a>>) = 1 /\ <<a>>[1] = a
  OBVIOUS
<1>2. <<a, e>> \in Seq(S) /\ Len(<<a, e>>) = 2 /\ <<a, e>>[1] = a /\ <<a, e>>[2] = e
  OBVIOUS
<1>3. /\ Append(<<a>>, e) \in Seq(S)
      /\ Len(Append(<<a>>, e)) = 2
      /\ Append(<<a>>, e)[1] = a
      /\ Append(<<a>>, e)[2] = e
  BY <1>1, AppendProperties
<1>4. \A i \in 1 .. 2 : Append(<<a>>, e)[i] = <<a, e>>[i]
  <2> TAKE i \in 1 .. 2
  <2>1. i = 1 \/ i = 2
    OBVIOUS
  <2> QED
    BY <2>1, <1>2, <1>3
<1> QED
  BY <1>2, <1>3, <1>4, SeqEqual

LEMMA PartsWritten ==
  ASSUME NEW i
  PROVE  /\ Append(<<>>, Part(i, "header")) = Header(i)
         /\ Append(<<>>, Part(i, "content")) = Content(i)
         /\ Append(Header(i), Part(i, "content")) = Both(i)
         /\ <<>> \o <<Part(i, "header"), Part(i, "content")>> = Both(i)
<1> DEFINE h == Part(i, "header")
           c == Part(i, "content")
           S == {h, c}
<1>1. Append(<<>>, h) = Header(i) /\ Append(<<>>, c) = Content(i)
  BY DEF Header, Content
<1>2. Append(Header(i), c) = Both(i)
  <2>1. Header(i) = <<h>> /\ Both(i) = <<h, c>>
    BY DEF Header, Both
  <2> HIDE DEF h, c
  <2>2. h \in S /\ c \in S
    OBVIOUS
  <2> QED
    BY <2>1, <2>2, AppendedToOne
<1>3. <<>> \o <<h, c>> = Both(i)
  BY DEF Both
<1> QED
  BY <1>1, <1>2, <1>3

\* A connection carries at most one request.
LEMMA OneRequest ==
  ASSUME NEW k, NEW i, NEW j, Carries(k, i), Carries(k, j)
  PROVE  i = j
<1>1. \A n : /\ Part(n, "header").request = n /\ Part(n, "content").request = n
             /\ Head(Header(n)) = Part(n, "header") /\ Head(Content(n)) = Part(n, "content")
             /\ Head(Both(n)) = Part(n, "header")
             /\ Header(n) # <<>> /\ Content(n) # <<>> /\ Both(n) # <<>>
  BY PartFacts
<1>2. CASE Written(k, i)
  <2>1. Head(up[k]) = Part(i, "header") /\ up[k] # <<>>
    BY <1>1, <1>2 DEF Written
  <2>2. Written(k, j)
    BY <1>2, <2>1 DEF Carries, Written, Taken, Executing, Answered
  <2>3. Head(up[k]) = Part(j, "header")
    BY <1>1, <2>2 DEF Written
  <2> QED
    BY <1>1, <2>1, <2>3
<1>3. CASE Taken(k, i)
  BY <1>3 DEF Carries, Written, Taken, Executing, Answered
<1>4. CASE Executing(k, i)
  BY <1>4 DEF Carries, Written, Taken, Executing, Answered
<1>5. CASE Answered(k, i)
  <2>1. Answered(k, j)
    BY <1>1, <1>5 DEF Carries, Written, Taken, Executing, Answered
  <2>2. Head(down[k]).request = i /\ Head(down[k]).request = j
    BY <1>1, <1>5, <2>1 DEF Answered
  <2> QED
    BY <2>2
<1> QED
  BY <1>2, <1>3, <1>4, <1>5 DEF Carries

LEMMA PendingIsBegun ==
  ASSUME ConnInv, NEW k \in Conns, NEW i \in Requests, Pending(k, i)
  PROVE  Begun(i)
<1>1. Header(i) # <<>> /\ Both(i) # <<>>
  BY PartFacts
<1>2. ~ Idle(k) /\ ~ Dead(k)
  BY <1>1 DEF Pending, Written, Taken, Idle, Dead
<1>3. PICK j \in Requests : Carries(k, j) /\ Begun(j)
  BY <1>2 DEF ConnInv
<1> QED
  BY <1>3, OneRequest DEF Pending, Carries

-----------------------------------------------------------------------------
(* Steps that concern one connection *)

\* The step changes nothing on the other connections, and calls a resource
\* only for a request that the connection carries.
Touches(k) ==
  /\ UNCHANGED <<turn, kind>>
  /\ \A l \in Conns : l # k =>
       /\ stage'[l] = stage[l] /\ up'[l] = up[l] /\ down'[l] = down[l]
       /\ serving'[l] = serving[l]
  /\ \A i \in Requests : executed'[i] = executed[i] \/ Pending(k, i)

\* What the client waits for may change, but no request is taken back.
Forward == \A i \in Requests : Begun(i) => Begun(i)'

\* On the other connections every request is where it was.
LEMMA OthersStay ==
  ASSUME ExchangeInv, NEW k \in Conns, Touches(k), NEW l \in Conns, l # k, NEW i \in Requests
  PROVE  /\ Written(l, i) => Written(l, i)'
         /\ Taken(l, i) => Taken(l, i)'
         /\ Executing(l, i) => Executing(l, i)'
         /\ Answered(l, i) => Answered(l, i)'
         /\ Idle(l) => Idle(l)'
         /\ Dead(l) => Dead(l)'
         /\ Pending(l, i)' => Pending(l, i) \/ executed'[i] # executed[i]
<1>1. /\ stage'[l] = stage[l] /\ up'[l] = up[l] /\ down'[l] = down[l] /\ serving'[l] = serving[l]
      /\ kind' = kind
  BY DEF Touches
<1>2. Pending(k, i) => executed[i] = 0
  BY DEF Pending, Written, Taken
<1>3. Pending(l, i) => executed'[i] = executed[i]
  BY DEF ExchangeInv, OnceInv, Touches
<1>4. executed[i] = 1 => executed'[i] = executed[i]
  BY <1>2 DEF Touches
<1>5. Header(i)' = Header(i) /\ Both(i)' = Both(i) /\ Content(i)' = Content(i)
  BY DEF Header, Both, Content, Part
<1>6. (Written(l, i) => Written(l, i)') /\ (Taken(l, i) => Taken(l, i)')
  BY <1>1, <1>3, <1>5 DEF Pending, Written, Taken
<1>7. (Executing(l, i) => Executing(l, i)') /\ (Answered(l, i) => Answered(l, i)')
  BY <1>1, <1>4, <1>5 DEF Executing, Answered
<1>8. (Idle(l) => Idle(l)') /\ (Dead(l) => Dead(l)')
  BY <1>1 DEF Idle, Dead
<1>9. Pending(l, i)' => Pending(l, i) \/ executed'[i] # executed[i]
  BY <1>1, <1>5 DEF Pending, Written, Taken
<1> QED
  BY <1>6, <1>7, <1>8, <1>9

LEMMA ConnectionStep ==
  ASSUME ExchangeInv, NEW k \in Conns, Touches(k), Forward,
         \/ Idle(k)' \/ Dead(k)'
         \/ \E i \in Requests : Carries(k, i)' /\ Begun(i)',
         \A i \in Requests : Pending(k, i)' => Pending(k, i) \/ ~ Begun(i),
         \A i \in Requests : executed'[i] \in {executed[i], 1}
  PROVE  ConnInv' /\ OnceInv'
<1>1. ConnInv /\ OnceInv
  BY DEF ExchangeInv
<1>2. ConnInv'
  <2>1. ASSUME NEW l \in Conns, l # k
        PROVE  Idle(l)' \/ Dead(l)' \/ \E i \in Requests : Carries(l, i)' /\ Begun(i)'
    <3>1. CASE Idle(l) \/ Dead(l)
      <4>1. CASE Requests # {}
        BY <2>1, <3>1, <4>1, OthersStay
      <4>2. CASE Requests = {}
        BY <4>2 DEF Requests, Conns
      <4> QED
        BY <4>1, <4>2
    <3>2. CASE \E i \in Requests : Carries(l, i) /\ Begun(i)
      <4>1. PICK i \in Requests : Carries(l, i) /\ Begun(i)
        BY <3>2
      <4>2. Carries(l, i)' /\ Begun(i)'
        BY <2>1, <4>1, OthersStay DEF Carries, Forward
      <4> QED
        BY <4>2
    <3> QED
      BY <1>1, <3>1, <3>2 DEF ConnInv
  <2> QED
    BY <2>1 DEF ConnInv, Conns
<1>3. \A i \in Requests : executed'[i] # executed[i] => Pending(k, i) /\ Begun(i)
  BY <1>1, PendingIsBegun DEF Touches
<1>4. \A i \in Requests : ~ Begun(i)' => executed'[i] = 0
  BY <1>1, <1>3 DEF Forward, OnceInv
<1>5. ASSUME NEW l \in Conns, NEW i \in Requests, Pending(l, i)'
      PROVE  executed'[i] = 0
  BY <1>5 DEF Pending, Written, Taken
<1>6. ASSUME NEW l \in Conns, NEW i \in Requests, l # k, Pending(l, i)'
      PROVE  Pending(l, i)
  <2>1. CASE executed'[i] # executed[i]
    <3>1. executed'[i] = 1 /\ executed'[i] = 0
      BY <1>5, <1>6, <2>1
    <3> QED
      BY <3>1
  <2>2. CASE executed'[i] = executed[i]
    BY <1>6, <2>2, OthersStay
  <2> QED
    BY <2>1, <2>2
<1>7. ASSUME NEW l \in Conns, NEW m \in Conns, NEW i \in Requests, Pending(l, i)', Pending(m, i)'
      PROVE  l = m
  <2>1. CASE l # k /\ m # k
    BY <1>1, <1>6, <1>7, <2>1 DEF OnceInv
  <2>2. CASE l = k /\ m # k
    BY <1>1, <1>6, <1>7, <2>2, PendingIsBegun DEF OnceInv
  <2>3. CASE l # k /\ m = k
    BY <1>1, <1>6, <1>7, <2>3, PendingIsBegun DEF OnceInv
  <2> QED
    BY <2>1, <2>2, <2>3
<1>8. OnceInv'
  BY <1>4, <1>7 DEF OnceInv, Requests, Conns
<1> QED
  BY <1>2, <1>8

-----------------------------------------------------------------------------
(* The server *)

\* A connection carries one request, or is idle, or dead.
Exclusive ==
  \A k \in Conns :
    /\ \A i, j \in Requests : Carries(k, i) /\ Carries(k, j) => i = j
    /\ \A i \in Requests : Pending(k, i) => ~ Idle(k) /\ ~ Dead(k)

LEMMA ExclusiveNow == Exclusive
<1>1. \A i : Header(i) # <<>> /\ Both(i) # <<>>
  BY PartFacts
<1>2. \A k \in Conns, i \in Requests : Pending(k, i) => ~ Idle(k) /\ ~ Dead(k)
  BY <1>1 DEF Pending, Written, Taken, Idle, Dead
<1> QED
  BY <1>2, OneRequest DEF Exclusive

LEMMA ExclusiveAfter == Exclusive'
BY ExclusiveNow, PTL

\* How the server moves the request of a connection on.
Moves(k) ==
  /\ Idle(k) => (Idle(k)' \/ Dead(k)') /\ up'[k] = <<>>
  /\ \A i \in Requests :
       /\ Written(k, i) =>
            \/ Written(k, i)' /\ up'[k] = up[k]
            \/ Taken(k, i)' /\ up'[k] = Tail(up[k])
            \/ Executing(k, i)' /\ kind[i].content = "none"
            \/ Dead(k)' /\ up'[k] = up[k]
       /\ Taken(k, i) => (Executing(k, i)' /\ up[k] = Content(i)) \/ (Dead(k)' /\ up'[k] = up[k])
       /\ Executing(k, i) =>
            Executing(k, i)' \/ (Answered(k, i)' /\ down'[k] = Both(i)) \/ Dead(k)'
       /\ Answered(k, i) => Answered(k, i)' /\ down'[k] = down[k]
  /\ ~ Dead(k)

LEMMA PartsStay == ASSUME NEW i PROVE Header(i)' = Header(i) /\ Both(i)' = Both(i) /\ Content(i)' = Content(i)
BY DEF Header, Both, Content, Part

LEMMA AcceptMoves == ASSUME TypeOK, NEW k \in Conns, Accept(k) PROVE Moves(k) /\ Touches(k)
<1>1. /\ stage[k] = "accept" /\ stage'[k] = "header"
      /\ UNCHANGED <<turn, kind, up, down, serving, executed>>
      /\ \A l \in Conns : l # k => stage'[l] = stage[l]
  BY DEF Accept, At, To, TypeOK, clientVars
<1>2. Moves(k)
  BY <1>1, PartsStay DEF Moves, Idle, Written, Taken, Executing, Answered, Dead
<1> QED
  BY <1>1, <1>2 DEF Touches

LEMMA TakeHeaderMoves ==
  ASSUME ExchangeInv, NEW k \in Conns, TakeHeader(k)
  PROVE  /\ Moves(k) /\ Touches(k)
         /\ \A i \in Requests : executed'[i] \in {executed[i], 1}
<1>1. TypeOK /\ ConnInv
  BY DEF ExchangeInv
<1>2. stage[k] = "header" /\ up[k] # <<>> /\ Head(up[k]).part = "header"
  BY DEF TakeHeader, At, Comes
<1>3. PICK i \in Requests : i = Head(up[k]).request /\ Written(k, i) /\ Begun(i)
  <2>1. ~ Idle(k) /\ ~ Dead(k)
    BY <1>2 DEF Idle, Dead
  <2>2. PICK j \in Requests : Carries(k, j) /\ Begun(j)
    BY <1>1, <2>1 DEF ConnInv
  <2>3. Written(k, j)
    BY <1>2, <2>2 DEF Carries, Taken, Executing, Answered
  <2>4. j = Head(up[k]).request
    BY <2>3, PartFacts DEF Written
  <2> QED
    BY <2>2, <2>3, <2>4
<1>4. executed \in [Requests -> 0 .. 1] /\ executed[i] = 0
  BY <1>1, <1>3 DEF TypeOK, Written
<1>5. /\ UNCHANGED <<turn, kind, down>>
      /\ up' = [up EXCEPT ![k] = Tail(@)]
      /\ serving' = [serving EXCEPT ![k] = i]
      /\ \/ kind[i].content = "none" /\ stage' = [stage EXCEPT ![k] = "resource"]
            /\ executed' = [executed EXCEPT ![i] = @ + 1]
         \/ kind[i].content # "none" /\ stage' = [stage EXCEPT ![k] = "content"]
            /\ executed' = executed
  BY <1>3 DEF TakeHeader, Executes, To, clientVars
<1>6. up'[k] = Tail(up[k]) /\ serving'[k] = i
  BY <1>1, <1>5 DEF TypeOK
<1>7. Touches(k) /\ \A j \in Requests : executed'[j] \in {executed[j], 1}
  <2>1. \A l \in Conns : l # k => /\ stage'[l] = stage[l] /\ up'[l] = up[l] /\ down'[l] = down[l]
                                  /\ serving'[l] = serving[l]
    BY <1>1, <1>5 DEF TypeOK
  <2>2. \A j \in Requests : j # i => executed'[j] = executed[j]
    BY <1>4, <1>5
  <2>3. executed'[i] \in {executed[i], 1}
    BY <1>3, <1>4, <1>5
  <2> QED
    BY <1>3, <1>5, <2>1, <2>2, <2>3 DEF Touches, Pending
<1>8. \/ Executing(k, i)' /\ kind[i].content = "none"
      \/ Taken(k, i)' /\ kind[i].content # "none"
  <2>1. down'[k] = <<>> /\ Tail(Header(i)) = <<>> /\ Tail(Both(i)) = Content(i)
    BY <1>3, <1>5, PartFacts DEF Written
  <2>2. CASE kind[i].content = "none"
    <3>1. stage'[k] = "resource" /\ executed'[i] = 1
      <4>1. executed'[i] = executed[i] + 1
        BY <1>4, <1>5, <2>2
      <4>2. stage'[k] = "resource"
        BY <1>1, <1>5, <2>2 DEF TypeOK
      <4> QED
        BY <1>4, <4>1, <4>2
    <3>2. up'[k] = <<>>
      BY <1>3, <1>6, <2>1, <2>2 DEF Written
    <3> QED
      BY <1>6, <2>1, <2>2, <3>1, <3>2 DEF Executing
  <2>3. CASE kind[i].content # "none"
    <3>1. stage'[k] = "content" /\ executed'[i] = 0
      BY <1>1, <1>4, <1>5, <2>3 DEF TypeOK
    <3>2. up'[k] \in {<<>>, Content(i)}
      BY <1>3, <1>6, <2>1 DEF Written
    <3> QED
      BY <1>6, <2>1, <2>3, <3>1, <3>2, PartsStay DEF Taken
  <2> QED
    BY <2>2, <2>3
<1>9. Moves(k)
  <2>1. \A j \in Requests : Carries(k, j) => j = i
    BY <1>3, OneRequest DEF Carries
  <2>2. ~ Idle(k) /\ ~ Dead(k)
    BY <1>2 DEF Idle, Dead
  <2>3. ~ Taken(k, i) /\ ~ Executing(k, i) /\ ~ Answered(k, i)
    BY <1>2 DEF Taken, Executing, Answered
  <2> QED
    BY <1>6, <1>8, <2>1, <2>2, <2>3 DEF Moves, Carries
<1> QED
  BY <1>7, <1>9

LEMMA TakeContentMoves ==
  ASSUME ExchangeInv, NEW k \in Conns, TakeContent(k)
  PROVE  /\ Moves(k) /\ Touches(k)
         /\ \A i \in Requests : executed'[i] \in {executed[i], 1}
<1>1. TypeOK /\ ConnInv
  BY DEF ExchangeInv
<1>2. stage[k] = "content" /\ up[k] # <<>>
  BY DEF TakeContent, At, Comes
<1>3. PICK i \in Requests : i = serving[k] /\ Taken(k, i) /\ Begun(i)
  <2>1. ~ Idle(k) /\ ~ Dead(k)
    BY <1>2 DEF Idle, Dead
  <2>2. PICK j \in Requests : Carries(k, j) /\ Begun(j)
    BY <1>1, <2>1 DEF ConnInv
  <2> QED
    BY <1>2, <2>2 DEF Carries, Written, Taken, Executing, Answered
<1>4. executed \in [Requests -> 0 .. 1] /\ executed[i] = 0
  BY <1>1, <1>3 DEF TypeOK, Taken
<1>5. /\ UNCHANGED <<turn, kind, down, serving>>
      /\ up' = [up EXCEPT ![k] = Tail(@)]
      /\ stage' = [stage EXCEPT ![k] = "resource"]
      /\ executed' = [executed EXCEPT ![i] = @ + 1]
  BY <1>3 DEF TakeContent, Executes, To, clientVars
<1>6. up[k] = Content(i) /\ up'[k] = <<>>
  <2>1. up[k] = Content(i) /\ Tail(Content(i)) = <<>>
    BY <1>2, <1>3, PartFacts DEF Taken
  <2> QED
    BY <1>1, <1>5, <2>1 DEF TypeOK
<1>7. Touches(k) /\ \A j \in Requests : executed'[j] \in {executed[j], 1}
  <2>1. \A l \in Conns : l # k => /\ stage'[l] = stage[l] /\ up'[l] = up[l] /\ down'[l] = down[l]
                                  /\ serving'[l] = serving[l]
    BY <1>1, <1>5 DEF TypeOK
  <2>2. \A j \in Requests : j # i => executed'[j] = executed[j]
    BY <1>4, <1>5
  <2>3. executed'[i] \in {executed[i], 1}
    BY <1>3, <1>4, <1>5
  <2> QED
    BY <1>3, <1>5, <2>1, <2>2, <2>3 DEF Touches, Pending
<1>8. Executing(k, i)'
  <2>1. stage'[k] = "resource" /\ executed'[i] = 1
    <3>1. executed'[i] = executed[i] + 1
      BY <1>4, <1>5
    <3>2. stage'[k] = "resource"
      BY <1>1, <1>5 DEF TypeOK
    <3> QED
      BY <1>4, <3>1, <3>2
  <2> QED
    BY <1>3, <1>5, <1>6, <2>1 DEF Executing, Taken
<1>9. Moves(k)
  <2>1. \A j \in Requests : Carries(k, j) => j = i
    BY <1>3, OneRequest DEF Carries
  <2>2. ~ Idle(k) /\ ~ Dead(k) /\ ~ Written(k, i) /\ ~ Executing(k, i) /\ ~ Answered(k, i)
    BY <1>2 DEF Idle, Dead, Written, Executing, Answered
  <2> QED
    BY <1>6, <1>8, <2>1, <2>2 DEF Moves, Carries
<1> QED
  BY <1>7, <1>9

LEMMA ResourceDoneMoves ==
  ASSUME TypeOK, NEW k \in Conns, ResourceDone(k)
  PROVE  Moves(k) /\ Touches(k)
<1>1. /\ stage[k] = "resource" /\ stage'[k] = "send"
      /\ UNCHANGED <<turn, kind, up, down, serving, executed>>
      /\ \A l \in Conns : l # k => stage'[l] = stage[l]
  BY DEF ResourceDone, At, To, TypeOK, clientVars
<1>2. Moves(k)
  BY <1>1, PartsStay DEF Moves, Idle, Written, Taken, Executing, Answered, Dead
<1> QED
  BY <1>1, <1>2 DEF Touches

LEMMA SentMoves ==
  ASSUME ExchangeInv, NEW k \in Conns, Sent(k)
  PROVE  Moves(k) /\ Touches(k)
<1>1. TypeOK /\ ConnInv
  BY DEF ExchangeInv
<1>2. stage[k] = "send"
  BY DEF Sent, At
<1>3. PICK i \in Requests : i = serving[k] /\ Executing(k, i)
  <2>1. ~ Idle(k) /\ ~ Dead(k)
    BY <1>2 DEF Idle, Dead
  <2>2. PICK j \in Requests : Carries(k, j)
    BY <1>1, <2>1 DEF ConnInv
  <2> QED
    BY <1>2, <2>2 DEF Carries, Written, Taken, Executing, Answered
<1>4. /\ UNCHANGED <<turn, kind, up, serving, executed>>
      /\ down' = [down EXCEPT ![k] = @ \o <<Part(i, "header"), Part(i, "content")>>]
      /\ \E s \in {"header", "over"} : stage' = [stage EXCEPT ![k] = s]
  BY <1>3 DEF Sent, GivesUp, To, clientVars
<1>5. down'[k] = Both(i)
  <2>1. down[k] = <<>>
    BY <1>3 DEF Executing
  <2> QED
    BY <1>1, <1>4, <2>1, PartsWritten DEF TypeOK
<1>6. stage'[k] \in {"header", "over"}
  BY <1>1, <1>4 DEF TypeOK
<1>7. Answered(k, i)'
  BY <1>3, <1>4, <1>5, <1>6, PartsStay DEF Executing, Answered
<1>8. Touches(k)
  BY <1>1, <1>4 DEF Touches, TypeOK
<1>9. Moves(k)
  <2>1. \A j \in Requests : Carries(k, j) => j = i
    BY <1>3, OneRequest DEF Carries
  <2>2. ~ Idle(k) /\ ~ Dead(k) /\ ~ Written(k, i) /\ ~ Taken(k, i) /\ ~ Answered(k, i)
    BY <1>2 DEF Idle, Dead, Written, Taken, Answered
  <2> QED
    BY <1>5, <1>7, <2>1, <2>2 DEF Moves, Carries
<1> QED
  BY <1>8, <1>9

LEMMA ServerFailsMoves ==
  ASSUME TypeOK, NEW k \in Conns, ServerFails(k)
  PROVE  Moves(k) /\ Touches(k)
<1>1. /\ stage[k] \in {"header", "content", "send"} /\ stage'[k] = "over"
      /\ UNCHANGED <<turn, kind, up, down, serving, executed>>
      /\ \A l \in Conns : l # k => stage'[l] = stage[l]
  BY DEF ServerFails, GivesUp, At, To, TypeOK, clientVars
<1>2. Moves(k)
  BY <1>1, PartsStay DEF Moves, Idle, Written, Taken, Executing, Answered, Dead
<1> QED
  BY <1>1, <1>2 DEF Touches

LEMMA ServerMoves ==
  ASSUME ExchangeInv, NEW k \in Conns, ServerStep(k)
  PROVE  /\ Moves(k) /\ Touches(k)
         /\ UNCHANGED <<clientVars, client>>
         /\ \A i \in Requests : executed'[i] \in {executed[i], 1}
<1>1. TypeOK
  BY DEF ExchangeInv
<1>2. UNCHANGED <<clientVars, client>>
  BY DEF ServerStep, Accept, TakeHeader, TakeContent, ResourceDone, Sent, ServerFails, clientVars
<1>3. CASE TakeHeader(k)
  BY <1>2, <1>3, TakeHeaderMoves
<1>4. CASE TakeContent(k)
  BY <1>2, <1>4, TakeContentMoves
<1>5. CASE Accept(k) \/ ResourceDone(k) \/ Sent(k) \/ ServerFails(k)
  <2>1. executed' = executed
    BY <1>5 DEF Accept, ResourceDone, Sent, ServerFails
  <2>2. Moves(k) /\ Touches(k)
    BY <1>1, <1>5, AcceptMoves, ResourceDoneMoves, SentMoves, ServerFailsMoves
  <2> QED
    BY <1>2, <2>1, <2>2
<1> QED
  BY <1>3, <1>4, <1>5 DEF ServerStep

\* What a connection of the client holds is not changed by the others.
LEMMA ElsewhereKeeps ==
  ASSUME ExchangeInv, NEW k \in Conns, Touches(k), k # conn, UNCHANGED clientVars
  PROVE  CurrentInv'
<1>1. UNCHANGED <<turn, doing, conn, answer, kind>>
  BY DEF clientVars
<1>2. ASSUME NEW c \in Conns, c = conn
      PROVE  up'[c] = up[c] /\ down'[c] = down[c]
  BY <1>2 DEF Touches
<1>3. ASSUME NEW c \in Conns, NEW i \in Requests, c = conn, i = turn
      PROVE  Waits(c, i)'
  <2>1. Waits(c, i)
    BY <1>3 DEF ExchangeInv, CurrentInv
  <2>2. Header(i)' = Header(i) /\ Both(i)' = Both(i) /\ Content(i)' = Content(i)
    BY PartsStay
  <2>3. /\ Written(c, i) => Written(c, i)'
        /\ Taken(c, i) => Taken(c, i)'
        /\ Executing(c, i) => Executing(c, i)'
        /\ Answered(c, i) => Answered(c, i)'
        /\ Dead(c) => Dead(c)'
    BY <1>3, OthersStay
  <2> QED
    BY <1>1, <1>2, <1>3, <2>1, <2>2, <2>3 DEF Waits
<1>4. ASSUME NEW c \in Conns, c = conn, doing \in {"nothing", "connect", "write"}
      PROVE  Idle(c)' \/ (Dead(c)' /\ up'[c] = <<>>)
  <2>1. Idle(c) \/ (Dead(c) /\ up[c] = <<>>)
    BY <1>4 DEF ExchangeInv, CurrentInv
  <2>2. stage'[c] = stage[c] /\ up'[c] = up[c] /\ down'[c] = down[c]
    BY <1>4 DEF Touches
  <2> QED
    BY <2>1, <2>2 DEF Idle, Dead
<1> QED
  BY <1>1, <1>3, <1>4 DEF ExchangeInv, CurrentInv, Requests, Conns

LEMMA HereKeeps ==
  ASSUME ExchangeInv, NEW k \in Conns, Moves(k), k = conn, UNCHANGED clientVars
  PROVE  CurrentInv'
<1>1. UNCHANGED <<turn, doing, conn, answer, kind>>
  BY DEF clientVars
<1>2. ~ Dead(k)
  BY DEF Moves
<1>3. ASSUME doing \in {"nothing", "connect", "write"}
      PROVE  Idle(k)' \/ (Dead(k)' /\ up'[k] = <<>>)
  BY <1>2, <1>3 DEF ExchangeInv, CurrentInv, Moves
<1>4. ASSUME NEW i \in Requests, i = turn
      PROVE  Waits(k, i)'
  <2>1. Waits(k, i)
    BY <1>4 DEF ExchangeInv, CurrentInv
  <2>2. Header(i)' = Header(i) /\ Both(i)' = Both(i) /\ Content(i)' = Content(i)
    BY PartsStay
  <2>3. CASE doing = "write content"
    <3>1. Tail(Header(i)) = <<>> /\ Content(i) # <<>>
      BY PartFacts
    <3>2. kind[i].content = "string"
      BY <2>1, <2>3 DEF Waits
    <3>3. CASE Written(k, i) /\ up[k] = Header(i)
      BY <1>1, <2>2, <2>3, <3>1, <3>2, <3>3 DEF Waits, Moves
    <3>4. CASE Taken(k, i) /\ up[k] = <<>>
      BY <1>1, <2>2, <2>3, <3>1, <3>2, <3>4 DEF Waits, Moves
    <3> QED
      BY <1>2, <2>1, <2>3, <3>3, <3>4 DEF Waits
  <2>4. CASE doing = "header"
    <3>1. Written(k, i) \/ Taken(k, i) \/ Executing(k, i) \/ (Answered(k, i) /\ down[k] = Both(i))
      BY <1>2, <2>1, <2>4 DEF Waits
    <3>2. \/ Written(k, i)' \/ Taken(k, i)' \/ Executing(k, i)'
          \/ Answered(k, i)' /\ down'[k] = Both(i)
          \/ Dead(k)'
      BY <3>1 DEF Moves
    <3> QED
      BY <1>1, <2>2, <2>4, <3>2 DEF Waits
  <2>5. CASE doing = "content"
    <3>1. Answered(k, i) /\ down[k] = Content(i) /\ answer[i] = i
      BY <2>1, <2>5 DEF Waits
    <3>2. Answered(k, i)' /\ down'[k] = Content(i)
      BY <3>1 DEF Moves
    <3> QED
      BY <1>1, <2>2, <2>5, <3>1, <3>2 DEF Waits
  <2> QED
    BY <1>1, <2>3, <2>4, <2>5 DEF Waits
<1> QED
  BY <1>1, <1>3, <1>4 DEF ExchangeInv, CurrentInv, Requests, Conns

\* No request is taken back, and none is written, by a step of the server.
LEMMA MovesConnection ==
  ASSUME ExchangeInv, NEW k \in Conns, Moves(k), Touches(k), UNCHANGED clientVars,
         \A i \in Requests : executed'[i] \in {executed[i], 1}
  PROVE  ConnInv' /\ OnceInv'
<1>1. \A i \in Requests : Begun(i)' <=> Begun(i)
  BY DEF Begun, clientVars
<1>2. CASE Idle(k)
  <2>1. Idle(k)' \/ Dead(k)'
    BY <1>2 DEF Moves
  <2>2. \A i \in Requests : ~ Pending(k, i)'
    BY <2>1, ExclusiveAfter DEF Exclusive
  <2> QED
    BY <1>1, <2>1, <2>2, ConnectionStep DEF Forward
<1>3. CASE \E i \in Requests : Carries(k, i) /\ Begun(i)
  <2>1. PICK i \in Requests : Carries(k, i) /\ Begun(i)
    BY <1>3
  <2>2. Dead(k)' \/ (Carries(k, i)' /\ Begun(i)')
    BY <1>1, <2>1 DEF Moves, Carries
  <2>3. Pending(k, i)' => Pending(k, i)
    BY <2>1 DEF Moves, Carries, Pending, Written, Taken, Executing, Answered
  <2>4. \A j \in Requests : Pending(k, j)' => Pending(k, j)
    BY <2>2, <2>3, ExclusiveAfter DEF Exclusive, Pending, Carries
  <2> QED
    BY <1>1, <2>1, <2>2, <2>4, ConnectionStep DEF Forward
<1> QED
  BY <1>2, <1>3 DEF ExchangeInv, ConnInv, Moves

LEMMA PartsTyped ==
  ASSUME NEW i \in Requests
  PROVE  /\ <<>> \in Seq(Parts) /\ Header(i) \in Seq(Parts) /\ Content(i) \in Seq(Parts)
         /\ Both(i) \in Seq(Parts)
<1>1. Part(i, "header") \in Parts /\ Part(i, "content") \in Parts
  BY DEF Part, Parts
<1> QED
  BY <1>1 DEF Header, Content, Both

\* The types of the parts under way, from what the connections carry.
LEMMA ServerTypes ==
  ASSUME ExchangeInv, NEW k \in Conns, ServerStep(k)
  PROVE  TypeOK'
<1>1. TypeOK /\ ConnInv
  BY DEF ExchangeInv
<1>2. Moves(k) /\ Touches(k) /\ UNCHANGED <<clientVars, client>>
  BY ServerMoves
<1>3. silent' = silent
  BY DEF ServerStep, Accept, TakeHeader, TakeContent, ResourceDone, Sent, ServerFails
<1>4. /\ server' \in [Conns -> {"none", "open", "closed"}]
      /\ stage' \in [Conns -> {"none", "accept", "header", "content", "resource", "send", "over"}]
  BY <1>1 DEF TypeOK, ServerStep, Accept, TakeHeader, TakeContent, ResourceDone, Sent, ServerFails,
              Executes, GivesUp, To
<1>5. up' \in [Conns -> Seq(Parts)] /\ \A l \in Conns : Len(up'[l]) <= 2
  <2>1. CASE up' = up
    BY <1>1, <2>1 DEF TypeOK
  <2>2. CASE up[k] # <<>> /\ up' = [up EXCEPT ![k] = Tail(@)]
    <3>1. up[k] \in Seq(Parts) /\ Len(up[k]) <= 2
      BY <1>1 DEF TypeOK
    <3>2. Tail(up[k]) \in Seq(Parts) /\ Len(Tail(up[k])) <= 2
      BY <2>2, <3>1, HeadTailProperties
    <3> QED
      BY <1>1, <2>2, <3>2 DEF TypeOK
  <2> QED
    BY <2>1, <2>2 DEF ServerStep, Accept, TakeHeader, TakeContent, ResourceDone, Sent, ServerFails,
                      Comes
<1>6. down' \in [Conns -> Seq(Parts)] /\ \A l \in Conns : Len(down'[l]) <= 2
  <2>1. CASE down' = down
    BY <1>1, <2>1 DEF TypeOK
  <2>2. CASE Sent(k)
    <3>1. stage[k] = "send"
      BY <2>2 DEF Sent, At
    <3>2. PICK i \in Requests : Executing(k, i)
      BY <1>1, <3>1 DEF ConnInv, Idle, Dead, Carries, Written, Taken, Executing, Answered
    <3>3. serving[k] = i /\ down[k] = <<>>
      BY <3>2 DEF Executing
    <3>4. down' = [down EXCEPT ![k] = Both(i)]
      BY <1>1, <2>2, <3>3, PartsWritten DEF Sent, TypeOK
    <3>5. Both(i) \in Seq(Parts) /\ Len(Both(i)) <= 2
      BY PartsTyped, PartFacts
    <3>6. down \in [Conns -> Seq(Parts)] /\ \A l \in Conns : Len(down[l]) <= 2
      BY <1>1 DEF TypeOK
    <3>7. down' \in [Conns -> Seq(Parts)]
      BY <3>4, <3>5, <3>6
    <3>8. \A l \in Conns : down'[l] = down[l] \/ down'[l] = Both(i)
      BY <3>4, <3>6
    <3> QED
      BY <3>5, <3>6, <3>7, <3>8
  <2> QED
    BY <2>1, <2>2 DEF ServerStep, Accept, TakeHeader, TakeContent, ResourceDone, ServerFails
<1>7. serving' \in [Conns -> 0 .. MaxRequests]
  <2>1. CASE serving' = serving
    BY <1>1, <2>1 DEF TypeOK
  <2>2. CASE TakeHeader(k)
    <3>1. up[k] \in Seq(Parts) /\ up[k] # <<>>
      BY <1>1, <2>2 DEF TypeOK, TakeHeader, Comes
    <3>2. Head(up[k]) \in Parts
      BY <3>1, HeadTailProperties
    <3>3. Head(up[k]).request \in 0 .. MaxRequests
      <4>1. Head(up[k]).request \in Requests
        BY <3>2 DEF Parts
      <4> QED
        BY <4>1, ConstantsAssumption DEF Requests
    <3>4. serving' = [serving EXCEPT ![k] = Head(up[k]).request]
      BY <2>2 DEF TakeHeader
    <3>5. serving \in [Conns -> 0 .. MaxRequests]
      BY <1>1 DEF TypeOK
    <3> QED
      BY <3>3, <3>4, <3>5
  <2> QED
    BY <2>1, <2>2 DEF ServerStep, Accept, TakeContent, ResourceDone, Sent, ServerFails
<1>8. executed' \in [Requests -> 0 .. 1]
  <2>1. \A i \in Requests : executed'[i] \in 0 .. 1
    <3>1. \A i \in Requests : executed'[i] \in {executed[i], 1} /\ executed[i] \in 0 .. 1
      BY <1>1, ServerMoves DEF TypeOK
    <3>2. 1 \in 0 .. 1
      OBVIOUS
    <3> QED
      BY <3>1, <3>2
  <2>2. executed' = [i \in Requests |-> executed'[i]]
    BY <1>1 DEF TypeOK, ServerStep, Accept, TakeHeader, TakeContent, ResourceDone, Sent, ServerFails,
                Executes
  <2> QED
    BY <2>1, <2>2
<1> QED
  BY <1>1, <1>2, <1>3, <1>4, <1>5, <1>6, <1>7, <1>8 DEF TypeOK, clientVars

LEMMA ServerKeeps ==
  ASSUME ExchangeInv, NEW k \in Conns, ServerStep(k)
  PROVE  ExchangeInv'
<1>1. /\ Moves(k) /\ Touches(k) /\ UNCHANGED <<clientVars, client>>
      /\ \A i \in Requests : executed'[i] \in {executed[i], 1}
  BY ServerMoves
<1>2. ConnInv' /\ OnceInv'
  BY <1>1, MovesConnection
<1>3. CurrentInv'
  BY <1>1, HereKeeps, ElsewhereKeeps
<1>4. CallInv'
  <2>1. \A l \in Conns : /\ client[l] = "none" <=> stage'[l] = "none"
                         /\ client[l] = "none" => up'[l] = <<>>
    <3>1. stage[k] # "none" /\ stage'[k] # "none"
      BY DEF ExchangeInv, TypeOK, ServerStep, Accept, TakeHeader, TakeContent, ResourceDone, Sent,
             ServerFails, At, To, GivesUp, Executes
    <3> QED
      BY <1>1, <3>1 DEF ExchangeInv, CallInv, Touches
  <2> QED
    BY <1>1, <2>1 DEF ExchangeInv, CallInv, clientVars, Requests, Conns
<1> QED
  BY <1>2, <1>3, <1>4, ServerTypes DEF ExchangeInv

-----------------------------------------------------------------------------
(* Steps after which the requests are where they were *)

LEMMA SameConnection ==
  ASSUME NEW k, NEW i,
         UNCHANGED <<kind, up, down, stage, serving, executed>>
  PROVE  /\ Idle(k)' <=> Idle(k)
         /\ Dead(k)' <=> Dead(k)
         /\ Written(k, i)' <=> Written(k, i)
         /\ Taken(k, i)' <=> Taken(k, i)
         /\ Executing(k, i)' <=> Executing(k, i)
         /\ Answered(k, i)' <=> Answered(k, i)
         /\ Pending(k, i)' <=> Pending(k, i)
         /\ Carries(k, i)' <=> Carries(k, i)
<1>1. Header(i)' = Header(i) /\ Both(i)' = Both(i) /\ Content(i)' = Content(i)
  BY PartsStay
<1>2. /\ Idle(k)' <=> Idle(k)
      /\ Dead(k)' <=> Dead(k)
  BY DEF Idle, Dead
<1>3. /\ Written(k, i)' <=> Written(k, i)
      /\ Taken(k, i)' <=> Taken(k, i)
      /\ Executing(k, i)' <=> Executing(k, i)
      /\ Answered(k, i)' <=> Answered(k, i)
  BY <1>1 DEF Written, Taken, Executing, Answered
<1> QED
  BY <1>2, <1>3 DEF Pending, Carries

\* close(), the timers of the server and the network change the ends of the
\* connections only.
LEMMA QuietKeeps ==
  ASSUME ExchangeInv,
         \/ Close
         \/ \E k \in Conns : ServerTimeout(k) \/ GoSilent(k)
         \/ UNCHANGED vars
  PROVE  ExchangeInv' /\ UNCHANGED <<call, answer, executed>>
<1>1. UNCHANGED <<turn, doing, conn, call, answer, kind, up, down, stage, serving, executed>>
  BY DEF Close, ServerTimeout, GoSilent, clientVars, serverVars, vars
<1>2. TypeOK
  BY DEF ExchangeInv
<1>3. /\ client' \in [Conns -> {"none", "open", "closed"}]
      /\ \A k \in Conns : client'[k] = "none" <=> client[k] = "none"
  BY <1>2 DEF TypeOK, Close, ServerTimeout, GoSilent, vars, IsOpen
<1>4. server' \in [Conns -> {"none", "open", "closed"}] /\ silent' \in [Conns -> BOOLEAN]
  BY <1>2 DEF TypeOK, Close, ServerTimeout, GoSilent, vars
<1>5. TypeOK'
  BY <1>1, <1>2, <1>3, <1>4 DEF TypeOK
<1>6. CallInv'
  BY <1>1, <1>3 DEF ExchangeInv, CallInv
<1>7. ConnInv'
  BY <1>1, SameConnection DEF ExchangeInv, ConnInv, Requests, Conns, Begun
<1>8. OnceInv'
  BY <1>1, SameConnection DEF ExchangeInv, OnceInv, Requests, Conns, Begun
<1>9. CurrentInv'
  <2>1. \A k \in Conns, i \in Requests : Waits(k, i) => Waits(k, i)'
    BY <1>1, SameConnection, PartsStay DEF Waits
  <2> QED
    BY <1>1, <2>1, SameConnection DEF ExchangeInv, CurrentInv, Requests, Conns
<1> QED
  BY <1>1, <1>5, <1>6, <1>7, <1>8, <1>9 DEF ExchangeInv

-----------------------------------------------------------------------------
(* The client *)

PendingBegun == ConnInv => \A k \in Conns, i \in Requests : Pending(k, i) => Begun(i)

LEMMA PendingBegunNow == PendingBegun
BY PendingIsBegun DEF PendingBegun

LEMMA PendingBegunAfter == PendingBegun'
BY PendingBegunNow, PTL

LEMMA RequestKeeps == ASSUME ExchangeInv, Request PROVE ExchangeInv'
<1>1. TypeOK /\ ConnInv /\ OnceInv /\ CurrentInv /\ CallInv
  BY DEF ExchangeInv
<1>2. /\ doing = "nothing" /\ turn \in Nat /\ turn < MaxRequests /\ turn' = turn + 1
      /\ call' = [call EXCEPT ![turn'] = "open"]
      /\ doing' \in {"write", "connect"} /\ (doing' = "write" => conn # 0)
      /\ UNCHANGED <<conn, answer, client, server, silent, up, down, stage, serving, executed>>
  BY <1>1 DEF Request, TypeOK, serverVars, IsOpen
<1>3. PICK x \in Kinds : kind' = [kind EXCEPT ![turn'] = x]
  BY DEF Request
<1>4. turn' \in Requests /\ turn' # turn /\ turn' \in 0 .. MaxRequests
  BY <1>2, ConstantsAssumption DEF Requests
<1>5. \A i \in Requests : i \in 1 .. turn => kind'[i] = kind[i]
  BY <1>1, <1>2, <1>3, <1>4 DEF TypeOK
<1>6. \A i \in Requests : Begun(i) <=> i \in 1 .. turn
  BY <1>2 DEF Begun
<1>7. \A i \in Requests : Begun(i)' <=> i \in 1 .. turn
  BY <1>2, <1>4 DEF Begun, Requests
<1>8. ASSUME NEW k \in Conns, NEW i \in Requests, Begun(i)
      PROVE  (Carries(k, i) => Carries(k, i)') /\ (Pending(k, i)' => Pending(k, i))
  <2>1. Header(i)' = Header(i) /\ Both(i)' = Both(i) /\ Content(i)' = Content(i)
    BY PartsStay
  <2>2. kind'[i] = kind[i]
    BY <1>5, <1>6, <1>8
  <2> QED
    BY <1>2, <2>1, <2>2 DEF Carries, Pending, Written, Taken, Executing, Answered
<1>9. \A k \in Conns : (Idle(k)' <=> Idle(k)) /\ (Dead(k)' <=> Dead(k))
  BY <1>2 DEF Idle, Dead
<1>10. ConnInv'
  BY <1>1, <1>6, <1>7, <1>8, <1>9 DEF ConnInv, Requests, Conns
<1>11. OnceInv'
  <2>1. \A k \in Conns, i \in Requests : Pending(k, i)' => Begun(i)
    BY <1>6, <1>7, <1>10, PendingBegunAfter DEF PendingBegun, Requests, Conns
  <2> QED
    BY <1>1, <1>2, <1>6, <1>7, <1>8, <2>1 DEF OnceInv, Requests, Conns
<1>12. CurrentInv'
  BY <1>1, <1>2, <1>9 DEF CurrentInv, Waits, Requests, Conns
<1>13. CallInv'
  <2>1. \A i \in Requests : call'[i] = IF i = turn' THEN "open" ELSE call[i]
    BY <1>1, <1>2, <1>4 DEF TypeOK
  <2>2. \A i \in Requests : /\ i < turn' <=> i \in 1 .. turn
                            /\ i > turn' => i > turn
                            /\ i \in 1 .. turn => i < turn \/ i = turn
    BY <1>2 DEF Requests
  <2>3. turn' # 0
    BY <1>2
  <2>4. \A i \in Requests : ~ (i < turn' /\ i = turn') /\ ~ (i > turn' /\ i = turn')
    BY <1>2 DEF Requests
  <2>5. /\ doing' # "nothing" => turn' # 0 /\ call'[turn'] = "open"
        /\ \A i \in Requests : i < turn' \/ (i = turn' /\ doing' = "nothing")
                                 => call'[i] \in {"returned", "threw"}
        /\ \A i \in Requests : i > turn' => call'[i] = "none"
    BY <1>1, <1>2, <1>4, <2>1, <2>2, <2>3, <2>4 DEF CallInv
  <2> QED
    BY <1>1, <1>2, <2>5 DEF CallInv, Requests, Conns
<1>14. TypeOK'
  <2>1. kind' \in [Requests -> Kinds \cup {NoKind}]
    BY <1>1, <1>3 DEF TypeOK
  <2>2. call' \in [Requests -> {"none", "open", "returned", "threw"}]
    BY <1>1, <1>2 DEF TypeOK
  <2> QED
    BY <1>1, <1>2, <1>4, <2>1, <2>2 DEF TypeOK
<1> QED
  BY <1>10, <1>11, <1>12, <1>13, <1>14 DEF ExchangeInv

\* The request in hand, and the connection.
LEMMA InHand == ASSUME ExchangeInv, doing # "nothing" PROVE turn \in Requests
<1>1. turn \in 0 .. MaxRequests
  BY DEF ExchangeInv, TypeOK
<1>2. turn # 0
  BY DEF ExchangeInv, CallInv
<1> QED
  BY <1>1, <1>2, ConstantsAssumption DEF Requests

LEMMA Connected == ASSUME ExchangeInv, conn # 0 PROVE conn \in Conns /\ client[conn] # "none"
<1>1. conn \in 0 .. MaxRequests
  BY DEF ExchangeInv, TypeOK
<1>2. conn \in Conns
  BY <1>1, ConstantsAssumption DEF Conns
<1> QED
  BY <1>2 DEF ExchangeInv, CallInv

\* An operation fails: request() throws.
LEMMA FailKeeps ==
  ASSUME ExchangeInv, doing # "nothing", Fail,
         UNCHANGED <<turn, answer, kind, server, silent, up, down, stage, serving, executed>>
  PROVE  ExchangeInv'
<1>1. TypeOK /\ ConnInv /\ OnceInv /\ CurrentInv /\ CallInv
  BY DEF ExchangeInv
<1>2. /\ conn' = 0 /\ doing' = "nothing" /\ call' = [call EXCEPT ![turn] = "threw"]
  BY DEF Fail, Ended
<1>3. turn \in Requests
  BY InHand
<1>4. /\ client' \in [Conns -> {"none", "open", "closed"}]
      /\ \A k \in Conns : client'[k] = "none" <=> client[k] = "none"
  <2>1. CASE conn = 0
    BY <1>1, <2>1 DEF Fail, TypeOK
  <2>2. CASE conn # 0
    <3>1. conn \in Conns /\ client[conn] # "none"
      BY <2>2, Connected
    <3>2. client' = [client EXCEPT ![conn] = "closed"]
      BY <2>2 DEF Fail
    <3> QED
      BY <1>1, <3>1, <3>2 DEF TypeOK
  <2> QED
    BY <2>1, <2>2
<1>5. \A i \in Requests : Begun(i) => Begun(i)'
  BY <1>2 DEF Begun
<1>6. ConnInv'
  BY <1>1, <1>5, SameConnection DEF ConnInv, Requests, Conns
<1>7. OnceInv'
  BY <1>1, <1>5, SameConnection DEF OnceInv, Requests, Conns
<1>8. CurrentInv'
  BY <1>2, ConstantsAssumption DEF CurrentInv, Conns
<1>9. CallInv'
  <2>1. \A i \in Requests : call'[i] = IF i = turn THEN "threw" ELSE call[i]
    BY <1>1, <1>2, <1>3 DEF TypeOK
  <2>2. \A i \in Requests : ~ (i > turn /\ i = turn) /\ i # 0
    BY <1>3 DEF Requests
  <2>3. \A k \in Conns : k # conn'
    BY <1>2 DEF Conns
  <2> QED
    BY <1>1, <1>2, <1>4, <2>1, <2>2, <2>3 DEF CallInv, Requests, Conns
<1>10. TypeOK'
  <2>1. conn' \in 0 .. MaxRequests
    BY <1>2, ConstantsAssumption
  <2>2. call' \in [Requests -> {"none", "open", "returned", "threw"}]
    BY <1>1, <1>2 DEF TypeOK
  <2> QED
    BY <1>1, <1>2, <1>4, <2>1, <2>2 DEF TypeOK
<1> QED
  BY <1>6, <1>7, <1>8, <1>9, <1>10 DEF ExchangeInv

\* An operation on the connection succeeds, and request() goes on.
LEMMA GoesOn ==
  ASSUME ExchangeInv, doing # "nothing", doing' # "nothing", NEW k \in Conns, k = conn,
         UNCHANGED <<turn, conn, call, client, stage>>,
         \A l \in Conns : l # k => up'[l] = up[l]
  PROVE  CallInv'
<1>1. CallInv /\ turn \in Requests
  BY InHand DEF ExchangeInv
<1>2. \A l \in Conns : client[l] = "none" => l # k
  BY <1>1 DEF CallInv
<1> QED
  BY <1>1, <1>2 DEF CallInv, Requests, Conns

\* The step of a client that writes a part on its connection, or reads one.
LEMMA ConnectionTypes ==
  ASSUME TypeOK, NEW k \in Conns, NEW i \in Requests,
         \/ up' = up
         \/ \E p \in {Header(i), Content(i), Both(i)} : up' = [up EXCEPT ![k] = p],
         \/ down' = down
         \/ \E p \in {<<>>, Content(i)} : down' = [down EXCEPT ![k] = p]
  PROVE  /\ up' \in [Conns -> Seq(Parts)] /\ down' \in [Conns -> Seq(Parts)]
         /\ \A l \in Conns : Len(up'[l]) <= 2 /\ Len(down'[l]) <= 2
<1>1. /\ <<>> \in Seq(Parts) /\ Header(i) \in Seq(Parts) /\ Content(i) \in Seq(Parts)
      /\ Both(i) \in Seq(Parts)
  BY PartsTyped
<1>2. Len(Header(i)) <= 2 /\ Len(Content(i)) <= 2 /\ Len(Both(i)) <= 2 /\ Len(<<>>) <= 2
  BY PartFacts
<1>3. /\ up \in [Conns -> Seq(Parts)] /\ down \in [Conns -> Seq(Parts)]
      /\ \A l \in Conns : Len(up[l]) <= 2 /\ Len(down[l]) <= 2
  BY DEF TypeOK
<1>4. up' \in [Conns -> Seq(Parts)] /\ \A l \in Conns : Len(up'[l]) <= 2
  <2>1. CASE up' = up
    BY <1>3, <2>1
  <2>2. ASSUME NEW p \in {Header(i), Content(i), Both(i)}, up' = [up EXCEPT ![k] = p]
        PROVE  up' \in [Conns -> Seq(Parts)] /\ \A l \in Conns : Len(up'[l]) <= 2
    <3>1. p \in Seq(Parts) /\ Len(p) <= 2
      BY <1>1, <1>2, <2>2
    <3>2. \A l \in Conns : up'[l] = IF l = k THEN p ELSE up[l]
      BY <1>3, <2>2
    <3> QED
      BY <1>3, <2>2, <3>1, <3>2
  <2> QED
    BY <2>1, <2>2
<1>5. down' \in [Conns -> Seq(Parts)] /\ \A l \in Conns : Len(down'[l]) <= 2
  <2>1. CASE down' = down
    BY <1>3, <2>1
  <2>2. ASSUME NEW p \in {<<>>, Content(i)}, down' = [down EXCEPT ![k] = p]
        PROVE  down' \in [Conns -> Seq(Parts)] /\ \A l \in Conns : Len(down'[l]) <= 2
    <3>1. p \in Seq(Parts) /\ Len(p) <= 2
      BY <1>1, <1>2, <2>2
    <3>2. \A l \in Conns : down'[l] = IF l = k THEN p ELSE down[l]
      BY <1>3, <2>2
    <3> QED
      BY <1>3, <2>2, <3>1, <3>2
  <2> QED
    BY <2>1, <2>2
<1> QED
  BY <1>4, <1>5

LEMMA ConnectKeeps ==
  ASSUME ExchangeInv, Connect
  PROVE  ExchangeInv'
<1>1. TypeOK /\ ConnInv /\ OnceInv /\ CurrentInv /\ CallInv /\ turn \in Requests
  BY InHand DEF ExchangeInv, Connect
<1>2. doing = "connect" /\ UNCHANGED <<turn, answer, kind, silent, up, down, serving, executed>>
  BY DEF Connect
<1>3. CASE Fail /\ UNCHANGED <<server, stage>>
  BY <1>2, <1>3, FailKeeps
<1>4. ASSUME NEW k \in Conns,
             client[k] = "none" /\ conn' = k
             /\ client' = [client EXCEPT ![k] = "open"]
             /\ server' = [server EXCEPT ![k] = "open"]
             /\ stage' = [stage EXCEPT ![k] = "accept"]
             /\ doing' = "write" /\ UNCHANGED call
      PROVE  ExchangeInv'
  <2>1. stage[k] = "none" /\ up[k] = <<>> /\ stage'[k] = "accept"
    BY <1>1, <1>4 DEF CallInv, TypeOK
  <2>2. down[k] = <<>>
    BY <1>1, <2>1 DEF ConnInv, Idle, Dead, Carries, Written, Taken, Executing, Answered
  <2>3. Idle(k)'
    BY <1>2, <2>1, <2>2 DEF Idle
  <2>4. Touches(k)
    BY <1>1, <1>2, <1>4 DEF Touches, TypeOK
  <2>5. Forward
    BY <1>2, <1>4 DEF Forward, Begun
  <2>6. \A i \in Requests : ~ Pending(k, i)'
    BY <2>3, ExclusiveAfter DEF Exclusive
  <2>7. ConnInv' /\ OnceInv'
    BY <1>2, <2>3, <2>4, <2>5, <2>6, ConnectionStep
  <2>8. CurrentInv'
    <3>1. k # 0
      BY DEF Conns
    <3> QED
      BY <1>2, <1>4, <2>3, <3>1 DEF CurrentInv, Waits, Conns
  <2>9. \A l \in Conns : /\ client'[l] = IF l = k THEN "open" ELSE client[l]
                         /\ stage'[l] = IF l = k THEN "accept" ELSE stage[l]
    BY <1>1, <1>4 DEF TypeOK
  <2>10. CallInv'
    BY <1>1, <1>2, <1>4, <2>9 DEF CallInv, Requests, Conns
  <2>11. TypeOK'
    <3>1. conn' \in 0 .. MaxRequests /\ conn' # 0
      BY <1>4, ConstantsAssumption DEF Conns
    <3>2. /\ client' \in [Conns -> {"none", "open", "closed"}]
          /\ server' \in [Conns -> {"none", "open", "closed"}]
          /\ stage' \in [Conns -> {"none", "accept", "header", "content", "resource", "send", "over"}]
      BY <1>1, <1>4 DEF TypeOK
    <3> QED
      BY <1>1, <1>2, <1>4, <3>1, <3>2 DEF TypeOK
  <2> QED
    BY <2>7, <2>8, <2>10, <2>11 DEF ExchangeInv
<1> QED
  BY <1>3, <1>4 DEF Connect

\* What the connection of a client may hold before a write.
LEMMA WriteKeeps ==
  ASSUME ExchangeInv, Write
  PROVE  ExchangeInv'
<1>1. TypeOK /\ ConnInv /\ OnceInv /\ CurrentInv /\ CallInv /\ turn \in Requests
  BY InHand DEF ExchangeInv, Write
<1>2. doing = "write" /\ UNCHANGED <<turn, answer, kind, server, silent, down, stage, serving, executed>>
  BY DEF Write, serverVars
<1>3. CASE Fail /\ UNCHANGED up
  BY <1>2, <1>3, FailKeeps
<1>4. CASE ~ (Fail /\ UNCHANGED up)
  <2>1. PICK k \in Conns : k = conn /\ client[k] # "none" /\ k # 0
    BY <1>1, <1>2, Connected DEF CurrentInv
  <2>2. PICK i \in Requests : i = turn
    BY <1>1
  <2>3. UNCHANGED <<conn, call, client>> /\ doing' \in {"header", "write content"}
    BY <1>4 DEF Write
  <2>4. up \in [Conns -> Seq(Parts)]
    BY <1>1 DEF TypeOK
  <2>5. up[k] = <<>> /\ stage[k] # "none" /\ (Idle(k) \/ Dead(k))
    BY <1>1, <1>2, <2>1 DEF CurrentInv, CallInv, Idle
  <2>6. \/ up' = [up EXCEPT ![k] = Both(i)] /\ doing' = "header" /\ kind[i].content = "stream"
        \/ /\ up' = [up EXCEPT ![k] = Header(i)]
           /\ doing' = "write content" => kind[i].content = "string"
    <3>1. /\ Append(<<>>, Part(i, "header")) = Header(i)
          /\ <<>> \o <<Part(i, "header"), Part(i, "content")>> = Both(i)
      BY PartsWritten
    <3> QED
      BY <1>4, <2>1, <2>2, <2>4, <2>5, <3>1 DEF Write
  <2>7. up'[k] \in {Header(i), Both(i)} /\ (kind[i].content = "none" => up'[k] = Header(i))
    BY <2>4, <2>6
  <2>8. \A l \in Conns : l # k => up'[l] = up[l]
    BY <2>4, <2>6
  <2>9. executed[i] = 0 /\ ~ Begun(i)
    BY <1>1, <1>2, <2>2 DEF OnceInv, Begun
  <2>10. Begun(i)' /\ Forward
    <3>1. i \in 1 .. turn'
      <4>1. turn' = i
        BY <1>2, <2>2
      <4> QED
        BY <4>1 DEF Requests
    <3>2. doing' \notin {"connect", "write"}
      BY <2>3
    <3>3. Begun(i)'
      BY <3>1, <3>2 DEF Begun
    <3>4. Forward
      BY <1>2, <3>2 DEF Forward, Begun
    <3> QED
      BY <3>3, <3>4
  <2>11. Written(k, i)' \/ Dead(k)'
    BY <1>2, <2>5, <2>7, <2>9, PartsStay DEF Idle, Dead, Written
  <2>12. Touches(k)
    BY <1>2, <2>8 DEF Touches
  <2>13. \A j \in Requests : Pending(k, j)' => j = i
    BY <2>11, ExclusiveAfter DEF Exclusive, Carries, Pending
  <2>14. ConnInv' /\ OnceInv'
    BY <1>2, <2>9, <2>10, <2>11, <2>12, <2>13, ConnectionStep DEF Carries
  <2>15. CurrentInv'
    <3>1. doing' = "write content" => up'[k] = Header(i) /\ kind'[i].content = "string"
      BY <1>2, <2>4, <2>6
    <3>2. Waits(k, i)'
      BY <2>3, <2>11, <3>1, PartsStay DEF Waits
    <3> QED
      BY <1>2, <2>1, <2>2, <2>3, <3>2 DEF CurrentInv, Requests, Conns
  <2>16. CallInv'
    BY <1>2, <2>1, <2>3, <2>8, GoesOn
  <2>17. TypeOK'
    <3>1. /\ up' \in [Conns -> Seq(Parts)] /\ down' \in [Conns -> Seq(Parts)]
          /\ \A l \in Conns : Len(up'[l]) <= 2 /\ Len(down'[l]) <= 2
      BY <1>1, <1>2, <2>6, ConnectionTypes
    <3> QED
      BY <1>1, <1>2, <2>1, <2>3, <3>1 DEF TypeOK
  <2> QED
    BY <2>14, <2>15, <2>16, <2>17 DEF ExchangeInv
<1> QED
  BY <1>3, <1>4

LEMMA WriteContentKeeps ==
  ASSUME ExchangeInv, WriteContent
  PROVE  ExchangeInv'
<1>1. TypeOK /\ ConnInv /\ OnceInv /\ CurrentInv /\ CallInv /\ turn \in Requests
  BY InHand DEF ExchangeInv, WriteContent
<1>2. /\ doing = "write content"
      /\ UNCHANGED <<turn, answer, kind, server, silent, down, stage, serving, executed>>
  BY DEF WriteContent, serverVars
<1>3. CASE Fail /\ UNCHANGED up
  BY <1>2, <1>3, FailKeeps
<1>4. CASE ~ (Fail /\ UNCHANGED up)
  <2>1. PICK k \in Conns : k = conn /\ client[k] # "none" /\ k # 0
    BY <1>1, <1>2, Connected DEF CurrentInv
  <2>2. PICK i \in Requests : i = turn
    BY <1>1
  <2>3. UNCHANGED <<conn, call, client>> /\ doing' = "header"
    BY <1>4 DEF WriteContent
  <2>4. up \in [Conns -> Seq(Parts)]
    BY <1>1 DEF TypeOK
  <2>5. /\ kind[i].content = "string"
        /\ \/ Written(k, i) /\ up[k] = Header(i)
           \/ Taken(k, i) /\ up[k] = <<>>
           \/ Dead(k) /\ up[k] \in {<<>>, Header(i)}
    BY <1>1, <1>2, <2>1, <2>2 DEF CurrentInv, Waits
  <2>6. \/ up[k] = Header(i) /\ up' = [up EXCEPT ![k] = Both(i)]
        \/ up[k] = <<>> /\ up' = [up EXCEPT ![k] = Content(i)]
    <3>1. /\ Append(<<>>, Part(i, "content")) = Content(i)
          /\ Append(Header(i), Part(i, "content")) = Both(i)
      BY PartsWritten
    <3>2. up' = [up EXCEPT ![k] = Append(@, Part(i, "content"))]
      BY <1>4, <2>1, <2>2 DEF WriteContent
    <3>3. up[k] \in {<<>>, Header(i)}
      BY <2>5
    <3> QED
      BY <2>4, <3>1, <3>2, <3>3
  <2>7. \/ up[k] = Header(i) /\ up'[k] = Both(i)
        \/ up[k] = <<>> /\ up'[k] = Content(i)
    BY <2>4, <2>6
  <2>8. \A l \in Conns : l # k => up'[l] = up[l]
    BY <2>4, <2>6
  <2>9. Begun(i)' /\ Forward
    <3>1. i \in 1 .. turn'
      <4>1. turn' = i
        BY <1>2, <2>2
      <4> QED
        BY <4>1 DEF Requests
    <3>2. doing' \notin {"connect", "write"}
      BY <2>3
    <3>3. Begun(i)'
      BY <3>1, <3>2 DEF Begun
    <3>4. Forward
      BY <1>2, <3>2 DEF Forward, Begun
    <3> QED
      BY <3>3, <3>4
  <2>10. \/ Written(k, i) /\ Written(k, i)'
         \/ Taken(k, i) /\ Taken(k, i)'
         \/ Dead(k)'
    <3>1. Header(i) # <<>>
      BY PartFacts
    <3>2. CASE Written(k, i) /\ up[k] = Header(i)
      BY <1>2, <2>5, <2>7, <3>1, <3>2, PartsStay DEF Written
    <3>3. CASE Taken(k, i) /\ up[k] = <<>>
      BY <1>2, <2>5, <2>7, <3>1, <3>3, PartsStay DEF Taken
    <3>4. CASE Dead(k)
      BY <1>2, <3>4 DEF Dead
    <3> QED
      BY <2>5, <3>2, <3>3, <3>4
  <2>11. Touches(k)
    BY <1>2, <2>8 DEF Touches
  <2>12. \A j \in Requests : Pending(k, j)' => Pending(k, j)
    BY <2>10, ExclusiveAfter DEF Exclusive, Carries, Pending
  <2>13. ConnInv' /\ OnceInv'
    BY <1>2, <2>9, <2>10, <2>11, <2>12, ConnectionStep DEF Carries
  <2>14. CurrentInv'
    <3>1. Waits(k, i)'
      BY <2>3, <2>10 DEF Waits
    <3> QED
      BY <1>2, <2>1, <2>2, <2>3, <3>1 DEF CurrentInv, Requests, Conns
  <2>15. CallInv'
    BY <1>2, <2>1, <2>3, <2>8, GoesOn
  <2>16. TypeOK'
    <3>1. /\ up' \in [Conns -> Seq(Parts)] /\ down' \in [Conns -> Seq(Parts)]
          /\ \A l \in Conns : Len(up'[l]) <= 2 /\ Len(down'[l]) <= 2
      BY <1>1, <1>2, <2>6, ConnectionTypes
    <3> QED
      BY <1>1, <1>2, <2>1, <2>3, <3>1 DEF TypeOK
  <2> QED
    BY <2>13, <2>14, <2>15, <2>16 DEF ExchangeInv
<1> QED
  BY <1>3, <1>4

\* The answer that has arrived is the one to the request in hand.
LEMMA ReadHeaderKeeps ==
  ASSUME ExchangeInv, ReadHeader
  PROVE  ExchangeInv'
<1>1. TypeOK /\ ConnInv /\ OnceInv /\ CurrentInv /\ CallInv /\ turn \in Requests
  BY InHand DEF ExchangeInv, ReadHeader
<1>2. /\ doing = "header" /\ doing' = "content"
      /\ UNCHANGED <<turn, conn, call, kind, client, server, silent, up, stage, serving, executed>>
  BY DEF ReadHeader, serverVars
<1>3. PICK k \in Conns : k = conn /\ client[k] # "none" /\ k # 0
  BY <1>1, <1>2, Connected DEF CurrentInv
<1>4. PICK i \in Requests : i = turn
  BY <1>1
<1>5. Answered(k, i) /\ down[k] = Both(i)
  <2>1. down[k] # <<>>
    BY <1>3 DEF ReadHeader, Arrived
  <2>2. \/ Written(k, i) \/ Taken(k, i) \/ Executing(k, i)
        \/ Answered(k, i) /\ down[k] = Both(i)
        \/ Dead(k)
    BY <1>1, <1>2, <1>3, <1>4 DEF CurrentInv, Waits
  <2> QED
    BY <2>1, <2>2 DEF Written, Taken, Executing, Dead
<1>6. /\ answer' = [answer EXCEPT ![i] = i]
      /\ down' = [down EXCEPT ![k] = Content(i)]
  <2>1. Head(Both(i)).request = i /\ Tail(Both(i)) = Content(i)
    BY PartFacts
  <2>2. down \in [Conns -> Seq(Parts)]
    BY <1>1 DEF TypeOK
  <2> QED
    BY <1>3, <1>4, <1>5, <2>1, <2>2 DEF ReadHeader
<1>7. /\ answer'[i] = i /\ down'[k] = Content(i)
      /\ \A l \in Conns : l # k => down'[l] = down[l]
  BY <1>1, <1>6 DEF TypeOK
<1>8. Answered(k, i)'
  BY <1>2, <1>5, <1>7, PartsStay DEF Answered
<1>9. Touches(k)
  BY <1>2, <1>7 DEF Touches
<1>10. Begun(i)' /\ Forward
  <2>1. i \in 1 .. turn'
    <3>1. turn' = i
      BY <1>2, <1>4
    <3> QED
      BY <3>1 DEF Requests
  <2>2. Begun(i)'
    BY <1>2, <2>1 DEF Begun
  <2>3. Forward
    BY <1>2 DEF Forward, Begun
  <2> QED
    BY <2>2, <2>3
<1>11. \A j \in Requests : Pending(k, j)' => Pending(k, j)
  <2>1. ~ Pending(k, i)'
    BY <1>7, PartFacts DEF Pending, Written, Taken
  <2> QED
    BY <1>8, <2>1, ExclusiveAfter DEF Exclusive, Carries, Pending
<1>12. ConnInv' /\ OnceInv'
  BY <1>2, <1>8, <1>9, <1>10, <1>11, ConnectionStep DEF Carries
<1>13. CurrentInv'
  <2>1. Waits(k, i)'
    BY <1>2, <1>7, <1>8, PartsStay DEF Waits
  <2> QED
    BY <1>2, <1>3, <1>4, <2>1 DEF CurrentInv, Requests, Conns
<1>14. CallInv'
  BY <1>2, <1>3, GoesOn
<1>15. TypeOK'
  <2>1. /\ up' \in [Conns -> Seq(Parts)] /\ down' \in [Conns -> Seq(Parts)]
        /\ \A l \in Conns : Len(up'[l]) <= 2 /\ Len(down'[l]) <= 2
    BY <1>1, <1>2, <1>6, ConnectionTypes
  <2>2. answer' \in [Requests -> 0 .. MaxRequests]
    <3>1. i \in 0 .. MaxRequests
      BY <1>1, <1>4 DEF TypeOK
    <3> QED
      BY <1>1, <1>6, <3>1 DEF TypeOK
  <2> QED
    BY <1>1, <1>2, <1>3, <2>1, <2>2 DEF TypeOK
<1> QED
  BY <1>12, <1>13, <1>14, <1>15 DEF ExchangeInv

\* The answer is whole, and request() returns.
LEMMA ReadContentKeeps ==
  ASSUME ExchangeInv, ReadContent
  PROVE  /\ ExchangeInv'
         /\ call[turn] = "open" /\ executed[turn] = 1 /\ answer[turn] = turn
<1>1. TypeOK /\ ConnInv /\ OnceInv /\ CurrentInv /\ CallInv /\ turn \in Requests
  BY InHand DEF ExchangeInv, ReadContent
<1>2. /\ doing = "content" /\ doing' = "nothing" /\ call' = [call EXCEPT ![turn] = "returned"]
      /\ UNCHANGED <<turn, conn, answer, kind, client, server, silent, up, stage, serving, executed>>
  BY DEF ReadContent, Ended, serverVars
<1>3. PICK k \in Conns : k = conn /\ client[k] # "none" /\ k # 0
  BY <1>1, <1>2, Connected DEF CurrentInv
<1>4. PICK i \in Requests : i = turn
  BY <1>1
<1>5. Answered(k, i) /\ down[k] = Content(i) /\ answer[i] = i
  BY <1>1, <1>2, <1>3, <1>4 DEF CurrentInv, Waits
<1>6. down' = [down EXCEPT ![k] = <<>>]
  <2>1. Tail(Content(i)) = <<>>
    BY PartFacts
  <2>2. down \in [Conns -> Seq(Parts)]
    BY <1>1 DEF TypeOK
  <2> QED
    BY <1>3, <1>5, <2>1, <2>2 DEF ReadContent
<1>7. down'[k] = <<>> /\ \A l \in Conns : l # k => down'[l] = down[l]
  BY <1>1, <1>6 DEF TypeOK
<1>8. up'[k] = <<>> /\ (Idle(k)' \/ Dead(k)')
  BY <1>2, <1>5, <1>7 DEF Answered, Idle, Dead
<1>9. Touches(k)
  BY <1>2, <1>7 DEF Touches
<1>10. Forward
  BY <1>2 DEF Forward, Begun
<1>11. \A j \in Requests : ~ Pending(k, j)'
  BY <1>8, ExclusiveAfter DEF Exclusive
<1>12. ConnInv' /\ OnceInv'
  BY <1>2, <1>8, <1>9, <1>10, <1>11, ConnectionStep
<1>13. CurrentInv'
  BY <1>2, <1>3, <1>8 DEF CurrentInv, Waits, Requests, Conns
<1>14. CallInv'
  <2>1. \A j \in Requests : call'[j] = IF j = turn THEN "returned" ELSE call[j]
    BY <1>1, <1>2 DEF TypeOK
  <2>2. \A j \in Requests : ~ (j > turn /\ j = turn)
    BY <1>1 DEF Requests
  <2> QED
    BY <1>1, <1>2, <2>1, <2>2 DEF CallInv, Requests, Conns
<1>15. TypeOK'
  <2>1. /\ up' \in [Conns -> Seq(Parts)] /\ down' \in [Conns -> Seq(Parts)]
        /\ \A l \in Conns : Len(up'[l]) <= 2 /\ Len(down'[l]) <= 2
    BY <1>1, <1>2, <1>6, ConnectionTypes
  <2>2. call' \in [Requests -> {"none", "open", "returned", "threw"}]
    BY <1>1, <1>2 DEF TypeOK
  <2> QED
    BY <1>1, <1>2, <1>3, <2>1, <2>2 DEF TypeOK
<1>16. call[turn] = "open" /\ executed[turn] = 1 /\ answer[turn] = turn
  BY <1>1, <1>2, <1>4, <1>5 DEF CallInv, Answered
<1> QED
  BY <1>12, <1>13, <1>14, <1>15, <1>16 DEF ExchangeInv

LEMMA ExchangeInit == ASSUME Init PROVE ExchangeInv
<1>1. TypeOK
  <2>1. 0 \in 0 .. MaxRequests /\ 0 \in 0 .. 1
    BY ConstantsAssumption
  <2>2. <<>> \in Seq(Parts) /\ Len(<<>>) <= 2
    OBVIOUS
  <2> QED
    BY <2>1, <2>2 DEF Init, TypeOK
<1>2. \A k \in Conns : Idle(k)
  BY DEF Init, Idle
<1>3. \A k \in Conns, i \in Requests : ~ Pending(k, i)
  BY DEF Init, Pending, Written, Taken
<1>4. ConnInv /\ OnceInv
  BY <1>2, <1>3 DEF ConnInv, OnceInv, Init
<1>5. CurrentInv
  BY DEF CurrentInv, Init, Conns
<1>6. CallInv
  <2>1. \A k \in Conns : k # 0
    BY DEF Conns
  <2>2. \A i \in Requests : ~ i < 0 /\ i # 0
    BY DEF Requests
  <2> QED
    BY <2>1, <2>2 DEF CallInv, Init
<1> QED
  BY <1>1, <1>4, <1>5, <1>6 DEF ExchangeInv

LEMMA ReadFailsKeeps == ASSUME ExchangeInv, ReadFails PROVE ExchangeInv'
<1>1. doing # "nothing"
  BY DEF ReadFails
<1> QED
  BY <1>1, FailKeeps DEF ReadFails, serverVars

LEMMA ExchangeStep == ASSUME ExchangeInv, [Next]_vars PROVE ExchangeInv'
BY RequestKeeps, ConnectKeeps, WriteKeeps, WriteContentKeeps, ReadHeaderKeeps, ReadContentKeeps,
   ReadFailsKeeps, ServerKeeps, QuietKeeps
   DEF Next, ClientStep

LEMMA ExchangeInvariant == Spec => []ExchangeInv
<1>1. Init => ExchangeInv
  BY ExchangeInit
<1>2. ExchangeInv /\ [Next]_vars => ExchangeInv'
  BY ExchangeStep
<1> QED
  BY <1>1, <1>2, PTL DEF Spec

(* What is under way is typed, no more than one request or one answer is   *)
(* on a connection, and no request is executed twice: the handlers of a    *)
(* server's connection and a client's operations keep to this whatever     *)
(* closes or times out between them.                                       *)
THEOREM ExchangeTypeCorrect == Spec => []TypeOK
<1>1. ExchangeInv => TypeOK
  BY DEF ExchangeInv
<1> QED
  BY <1>1, ExchangeInvariant, PTL

-----------------------------------------------------------------------------
(* HttpCalls *)

\* What HttpCalls calls the answer.
Shown == [i \in Requests |-> IF call[i] = "returned" THEN answer[i] ELSE 0]

Stays == UNCHANGED <<call, executed, Shown>>

LEMMA RequestStarts ==
  ASSUME ExchangeInv, Request
  PROVE  \E i \in Requests : Calls!Start(i)
<1>1. TypeOK /\ CallInv
  BY DEF ExchangeInv
<1>2. /\ doing = "nothing" /\ turn \in Nat /\ turn < MaxRequests /\ turn' = turn + 1
      /\ call' = [call EXCEPT ![turn'] = "open"]
      /\ UNCHANGED <<answer, executed>>
  BY <1>1 DEF Request, TypeOK, serverVars
<1>3. PICK i \in Requests : i = turn + 1
  BY <1>2, ConstantsAssumption DEF Requests
<1>4. i > turn
  BY <1>2, <1>3
<1>5. call[i] = "none"
  BY <1>1, <1>4 DEF CallInv
<1>6. \A j \in 1 .. i - 1 : call[j] \in {"returned", "threw"}
  <2>1. \A j \in 1 .. i - 1 : j \in Requests /\ (j < turn \/ j = turn)
    <3>1. turn \in Nat /\ i = turn + 1 /\ turn < MaxRequests /\ MaxRequests \in Nat
      BY <1>2, <1>3, ConstantsAssumption
    <3> QED
      BY <3>1 DEF Requests
  <2> QED
    BY <1>1, <1>2, <2>1 DEF CallInv
<1>7. call' = [call EXCEPT ![i] = "open"]
  BY <1>2, <1>3
<1>8. Shown' = Shown
  <2>1. \A j \in Requests : call'[j] = IF j = i THEN "open" ELSE call[j]
    BY <1>1, <1>7 DEF TypeOK
  <2> QED
    BY <1>2, <1>5, <2>1 DEF Shown, Requests
<1> QED
  BY <1>2, <1>5, <1>6, <1>7, <1>8 DEF Calls!Start, Shown

LEMMA FailThrows ==
  ASSUME ExchangeInv, doing # "nothing", Fail, UNCHANGED <<answer, executed>>
  PROVE  \E i \in Requests : Calls!Throw(i)
<1>1. TypeOK /\ CallInv /\ turn \in Requests
  BY InHand DEF ExchangeInv
<1>2. PICK i \in Requests : i = turn
  BY <1>1
<1>3. call[i] = "open" /\ call' = [call EXCEPT ![i] = "threw"]
  BY <1>1, <1>2 DEF CallInv, Fail, Ended
<1>4. Shown' = Shown
  <2>1. \A j \in Requests : call'[j] = IF j = i THEN "threw" ELSE call[j]
    BY <1>1, <1>3 DEF TypeOK
  <2> QED
    BY <1>3, <2>1 DEF Shown, Requests
<1> QED
  BY <1>3, <1>4 DEF Calls!Throw, Shown

LEMMA ReadContentReturns ==
  ASSUME ExchangeInv, ReadContent
  PROVE  \E i \in Requests : Calls!Return(i)
<1>1. TypeOK /\ turn \in Requests
  BY InHand DEF ExchangeInv, ReadContent
<1>2. PICK i \in Requests : i = turn
  BY <1>1
<1>3. call[i] = "open" /\ executed[i] = 1 /\ answer[i] = i
  BY <1>2, ReadContentKeeps
<1>4. call' = [call EXCEPT ![i] = "returned"] /\ UNCHANGED <<answer, executed>>
  BY <1>2 DEF ReadContent, Ended, serverVars
<1>5. Shown' = [Shown EXCEPT ![i] = i]
  <2>1. \A j \in Requests : call'[j] = IF j = i THEN "returned" ELSE call[j]
    BY <1>1, <1>4 DEF TypeOK
  <2> QED
    BY <1>3, <1>4, <2>1 DEF Shown, Requests
<1> QED
  BY <1>3, <1>4, <1>5 DEF Calls!Return, Shown

LEMMA ClientImplements ==
  ASSUME ExchangeInv, ClientStep
  PROVE  Stays \/ \E i \in Requests : Calls!Throw(i) \/ Calls!Return(i)
<1>1. doing # "nothing"
  BY DEF ClientStep, Connect, Write, WriteContent, ReadHeader, ReadContent, ReadFails
<1>2. CASE Connect \/ Write \/ WriteContent \/ ReadFails
  <2>1. UNCHANGED <<answer, executed>> /\ (Fail \/ UNCHANGED call)
    BY <1>2 DEF Connect, Write, WriteContent, ReadFails, serverVars
  <2>2. CASE Fail
    BY <1>1, <2>1, <2>2, FailThrows
  <2>3. CASE UNCHANGED call
    BY <2>1, <2>3 DEF Stays, Shown, Requests
  <2> QED
    BY <2>1, <2>2, <2>3
<1>3. CASE ReadHeader
  <2>1. /\ UNCHANGED <<call, executed>>
        /\ \A j \in Requests : j # turn => answer'[j] = answer[j]
    BY <1>3 DEF ReadHeader, serverVars, ExchangeInv, TypeOK
  <2>2. call[turn] = "open"
    BY <1>1 DEF ExchangeInv, CallInv
  <2> QED
    BY <2>1, <2>2 DEF Stays, Shown, Requests
<1>4. CASE ReadContent
  BY <1>4, ReadContentReturns
<1> QED
  BY <1>2, <1>3, <1>4 DEF ClientStep

\* A request that has been begun was made.
LEMMA BegunIsMade == ASSUME ExchangeInv, NEW i \in Requests, Begun(i) PROVE call[i] # "none"
<1>1. TypeOK /\ CallInv
  BY DEF ExchangeInv
<1>2. i < turn \/ i = turn
  <2>1. turn \in 0 .. MaxRequests /\ i \in 1 .. turn
    BY <1>1 DEF TypeOK, Begun
  <2> QED
    BY <2>1
<1> QED
  BY <1>1, <1>2 DEF CallInv

LEMMA ServerImplements ==
  ASSUME ExchangeInv, NEW k \in Conns, ServerStep(k)
  PROVE  Stays \/ \E i \in Requests : Calls!Execute(i)
<1>1. /\ Touches(k) /\ UNCHANGED <<call, answer>>
      /\ \A i \in Requests : executed'[i] \in {executed[i], 1}
  BY ServerMoves DEF clientVars
<1>2. executed \in [Requests -> 0 .. 1] /\ executed' \in [Requests -> 0 .. 1]
  BY ServerTypes DEF ExchangeInv, TypeOK, Requests
<1>3. CASE \A i \in Requests : executed'[i] = executed[i]
  <2>1. executed' = executed
    BY <1>2, <1>3
  <2> QED
    BY <1>1, <2>1 DEF Stays, Shown, Requests
<1>4. CASE \E i \in Requests : executed'[i] # executed[i]
  <2>1. PICK i \in Requests : executed'[i] # executed[i]
    BY <1>4
  <2>2. Pending(k, i) /\ executed'[i] = 1
    BY <1>1, <2>1 DEF Touches
  <2>3. executed[i] = 0 /\ call[i] # "none"
    <3>1. Begun(i)
      BY <2>2, PendingIsBegun DEF ExchangeInv
    <3> QED
      BY <2>2, <3>1, BegunIsMade DEF Pending, Written, Taken
  <2>4. \A j \in Requests : j # i => executed'[j] = executed[j]
    BY <1>1, <2>2, OneRequest DEF Touches, Pending, Carries
  <2>5. executed' = [executed EXCEPT ![i] = 1]
    BY <1>2, <2>2, <2>4
  <2>6. Shown' = Shown
    BY <1>1 DEF Shown, Requests
  <2> QED
    BY <1>1, <2>3, <2>5, <2>6 DEF Calls!Execute, Shown
<1> QED
  BY <1>3, <1>4

LEMMA StepImplements ==
  ASSUME ExchangeInv, [Next]_vars
  PROVE  [Calls!Next]_(Calls!vars)
<1>1. CASE Request
  BY <1>1, RequestStarts DEF Calls!Next, Calls!Requests, Requests
<1>2. CASE ClientStep
  BY <1>2, ClientImplements DEF Calls!Next, Calls!Requests, Requests, Calls!vars, Stays, Shown
<1>3. ASSUME NEW k \in Conns, ServerStep(k)
      PROVE  [Calls!Next]_(Calls!vars)
  BY <1>3, ServerImplements DEF Calls!Next, Calls!Requests, Requests, Calls!vars, Stays, Shown
<1>4. ASSUME \/ Close
             \/ \E k \in Conns : ServerTimeout(k) \/ GoSilent(k)
             \/ UNCHANGED vars
      PROVE  [Calls!Next]_(Calls!vars)
  <2>1. UNCHANGED <<call, answer, executed>>
    BY <1>4, QuietKeeps
  <2> QED
    BY <2>1 DEF Calls!vars, Requests
<1> QED
  BY <1>1, <1>2, <1>3, <1>4 DEF Next

(* request() returns the answer to its own request, and no request is      *)
(* executed twice, over connections that are kept and closed and timed out *)
(* on either side: a client and a server implement HttpCalls.              *)
THEOREM ExchangeImplementsCalls == Spec => ImplementsCalls
<1>1. Init => Calls!Init
  BY DEF Init, Calls!Init, Calls!Requests, Requests
<1>2. ExchangeInv /\ [Next]_vars => [Calls!Next]_(Calls!vars)
  BY StepImplements
<1> QED
  BY <1>1, <1>2, ExchangeInvariant, PTL DEF Spec, ImplementsCalls, Calls!Spec
=============================================================================
