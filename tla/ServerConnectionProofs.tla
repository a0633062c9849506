------------------------ MODULE ServerConnectionProofs ------------------------
(***************************************************************************)
(* Proofs about ServerConnection, for any number of connections, threads   *)
(* and requests and for any timeouts.                                      *)
(***************************************************************************)
EXTENDS ServerConnection, TLAPS

PhaseOps == {"handshake", "header", "content", "final"}

(* OnePhase without sets. *)
Exclusive(c) ==
  /\ \A p, q \in PhaseOps : p # q => io[c][p] = "idle" \/ io[c][q] = "idle"
  /\ holders[c] # {} => \A p \in PhaseOps : io[c][p] = "idle"

(* A socket that accept() has not filled yet has nothing under way. *)
NewIsIdle(c) ==
  sock[c] = "none" => /\ \A op \in Ops : io[c][op] = "idle"
                      /\ holders[c] = {}
                      /\ armed[c] = {}

(* The timer of write_response waits, or has expired, as long as somebody  *)
(* holds the Response or the final send is under way on an open socket.    *)
ServingIsTimed(c) ==
  sock[c] = "open" /\ Serving(c) /\ Seconds("response") # 0
    => "response" \in armed[c] \cup due[c]

SendHolds(c) == Busy(c, "send") => "callback" \in holders[c]

Armed(c) == \A g \in armed[c] : InProgress(c, g)

Timed(c) ==
  \A op \in Ops :
    io[c][op] = "pending" /\ Seconds(GuardOf(op)) # 0
      => GuardOf(op) \in armed[c] \cup due[c]

ConnInv(c) ==
  /\ Exclusive(c)
  /\ NewIsIdle(c)
  /\ ServingIsTimed(c)
  /\ SendHolds(c)
  /\ Armed(c)
  /\ Timed(c)

IInv == TypeOK /\ \A c \in Conns : ConnInv(c)

-----------------------------------------------------------------------------

LEMMA PhasesExclusive ==
  ASSUME NEW c \in Conns, Exclusive(c)
  PROVE  \A p, q \in Phases(c) : p = q
BY DEF Exclusive, Phases, Busy, PhaseOps

LEMMA InitInv == Init => IInv
BY ConstantsAssumption
   DEF Init, IInv, TypeOK, ConnInv, Exclusive, NewIsIdle, ServingIsTimed, SendHolds,
       Armed, Timed, Serving, Busy, Ops, Status, PhaseOps, Guards, Holders

LEMMA OpsFacts ==
  /\ PhaseOps \subseteq Ops
  /\ Ops = PhaseOps \cup {"send"}
  /\ \A op \in Ops : GuardOf(op) \in Guards
  /\ \A g \in Guards : TimerFor(g) \subseteq Guards
BY DEF PhaseOps, Ops, GuardOf, Guards, TimerFor

(* A step that leaves a connection alone keeps its invariant. *)
LEMMA OthersKeep ==
  ASSUME NEW d \in Conns, ConnInv(d),
         sock'[d] = sock[d], io'[d] = io[d], armed'[d] = armed[d],
         due'[d] = due[d], holders'[d] = holders[d]
  PROVE  ConnInv(d)'
BY DEF ConnInv, Exclusive, NewIsIdle, ServingIsTimed, SendHolds, Armed, Timed,
       Serving, InProgress, Busy, Seconds

(* The types of the variables that the handlers' helpers change. *)
CoreType ==
  /\ sock \in [Conns -> {"none", "open", "closed", "upgraded"}]
  /\ io \in [Conns -> [Ops -> Status]]
  /\ armed \in [Conns -> SUBSET Guards]
  /\ due \in [Conns -> SUBSET Guards]
  /\ holders \in [Conns -> SUBSET Holders]

LEMMA ReturnKeeps ==
  ASSUME CoreType, \A d \in Conns : ConnInv(d), NEW c \in Conns, NEW op \in PhaseOps,
         Busy(c, op), Return(c, op), due' = due
  PROVE  CoreType' /\ \A d \in Conns : ConnInv(d)'
<1>1. /\ io' = [io EXCEPT ![c] = [@ EXCEPT ![op] = "idle"]]
      /\ armed' = [armed EXCEPT ![c] = armed[c] \ {GuardOf(op)}]
      /\ sock' = sock /\ holders' = holders /\ due' = due
  BY DEF Return, Cancelled
<1>2. CoreType'
  BY <1>1 DEF CoreType, Ops, PhaseOps, Status, Guards
<1>3. ASSUME NEW d \in Conns, d # c PROVE ConnInv(d)'
  BY <1>1, <1>3, OthersKeep DEF CoreType
<1>4. ConnInv(c)'
  <2>1. /\ io'[c] = [io[c] EXCEPT ![op] = "idle"]
        /\ armed'[c] = armed[c] \ {GuardOf(op)}
        /\ sock'[c] = sock[c] /\ holders'[c] = holders[c] /\ due'[c] = due[c]
    BY <1>1 DEF CoreType
  <2>2. \A p \in Ops : io'[c][p] = IF p = op THEN "idle" ELSE io[c][p]
    BY <2>1 DEF CoreType
  <2>3. Exclusive(c)' /\ NewIsIdle(c)' /\ SendHolds(c)'
    BY <2>1, <2>2, OpsFacts DEF ConnInv, Exclusive, NewIsIdle, SendHolds, Busy, PhaseOps
  <2>4. Armed(c)'
    BY <2>1, <2>2, OpsFacts
       DEF ConnInv, Exclusive, Armed, InProgress, Serving, Busy, PhaseOps, GuardOf, CoreType, Guards
  <2>5. ServingIsTimed(c)' /\ Timed(c)'
    BY <2>1, <2>2, OpsFacts
       DEF ConnInv, Exclusive, SendHolds, ServingIsTimed, Timed, Serving, Busy, PhaseOps,
           GuardOf, Seconds
  <2> QED
    BY <2>3, <2>4, <2>5 DEF ConnInv
<1> QED
  BY <1>2, <1>3, <1>4

LEMMA ContinueKeeps ==
  ASSUME CoreType, \A d \in Conns : ConnInv(d), NEW c \in Conns, NEW op \in PhaseOps,
         NEW next \in PhaseOps \ {"final"}, next # op,
         Busy(c, op), Continue(c, op, next), due' = due
  PROVE  CoreType' /\ \A d \in Conns : ConnInv(d)'
<1>1. /\ io' = [io EXCEPT ![c] = [@ EXCEPT ![op] = "idle", ![next] = Begun(c)]]
      /\ armed' = [armed EXCEPT ![c] = (armed[c] \ {GuardOf(op)}) \cup TimerFor(next)]
      /\ sock' = sock /\ holders' = holders /\ due' = due
  BY DEF Continue, Cancelled, CoreType, Ops, PhaseOps
<1>2. Begun(c) \in {"pending", "failed"}
  BY DEF Begun
<1>3. CoreType'
  BY <1>1, <1>2, OpsFacts DEF CoreType, Status, PhaseOps, Guards, TimerFor
<1>4. ASSUME NEW d \in Conns, d # c PROVE ConnInv(d)'
  BY <1>1, <1>4, OthersKeep DEF CoreType
<1>5. ConnInv(c)'
  <2>1. /\ io'[c] = [io[c] EXCEPT ![op] = "idle", ![next] = Begun(c)]
        /\ armed'[c] = (armed[c] \ {GuardOf(op)}) \cup TimerFor(next)
        /\ sock'[c] = sock[c] /\ holders'[c] = holders[c] /\ due'[c] = due[c]
    BY <1>1 DEF CoreType
  <2>2. \A p \in Ops : io'[c][p] = IF p = next THEN Begun(c)
                                   ELSE IF p = op THEN "idle" ELSE io[c][p]
    BY <2>1 DEF CoreType
  <2>3. holders[c] = {} /\ io[c]["send"] = "idle" /\ sock[c] # "none"
    BY OpsFacts DEF ConnInv, Exclusive, NewIsIdle, SendHolds, Busy, PhaseOps
  <2>4. \A p \in PhaseOps : p # next => io'[c][p] = "idle"
    BY <2>2, OpsFacts DEF ConnInv, Exclusive, Busy
  <2>5. io'[c]["send"] = "idle"
    BY <2>2, <2>3, OpsFacts DEF PhaseOps
  <2>6. Exclusive(c)' /\ NewIsIdle(c)' /\ SendHolds(c)'
    BY <2>1, <2>3, <2>4, <2>5 DEF Exclusive, NewIsIdle, SendHolds, Busy
  <2>7. Armed(c)'
    <3>1. armed[c] \subseteq {GuardOf(op)}
      BY <2>3, OpsFacts
         DEF ConnInv, Exclusive, Armed, InProgress, Serving, Busy, PhaseOps, GuardOf, CoreType, Guards
    <3>2. io'[c][next] # "idle" /\ next # "response"
      BY <1>2, <2>2, OpsFacts DEF PhaseOps
    <3> QED
      BY <2>1, <3>1, <3>2 DEF Armed, InProgress, Busy, TimerFor
  <2>8. ServingIsTimed(c)'
    BY <2>1, <2>3, <2>4 DEF ServingIsTimed, Serving, Busy, PhaseOps
  <2>9. Timed(c)'
    BY <2>1, <2>4, <2>5, OpsFacts DEF Timed, TimerFor, GuardOf, PhaseOps, Seconds
  <2> QED
    BY <2>6, <2>7, <2>8, <2>9 DEF ConnInv
<1> QED
  BY <1>3, <1>4, <1>5

LEMMA WriteResponseKeeps ==
  ASSUME CoreType, \A d \in Conns : ConnInv(d), NEW c \in Conns,
         NEW op \in {"header", "content"}, Busy(c, op), WriteResponse(c, op), due' = due
  PROVE  CoreType' /\ \A d \in Conns : ConnInv(d)'
<1>1. /\ io' = [io EXCEPT ![c] = [@ EXCEPT ![op] = "idle"]]
      /\ armed' = [armed EXCEPT ![c] = (armed[c] \ {op}) \cup TimerFor("response")]
      /\ holders' = [holders EXCEPT ![c] = {"handler"}]
      /\ sock' = sock /\ due' = due
  BY DEF WriteResponse, Cancelled, GuardOf
<1>2. CoreType'
  BY <1>1, OpsFacts DEF CoreType, Ops, Status, Guards, TimerFor, Holders
<1>3. ASSUME NEW d \in Conns, d # c PROVE ConnInv(d)'
  BY <1>1, <1>3, OthersKeep DEF CoreType
<1>4. ConnInv(c)'
  <2>1. /\ io'[c] = [io[c] EXCEPT ![op] = "idle"]
        /\ armed'[c] = (armed[c] \ {op}) \cup TimerFor("response")
        /\ holders'[c] = {"handler"}
        /\ sock'[c] = sock[c] /\ due'[c] = due[c]
    BY <1>1 DEF CoreType
  <2>2. \A p \in Ops : io'[c][p] = "idle"
    <3>1. holders[c] = {} /\ io[c]["send"] = "idle"
      BY OpsFacts DEF ConnInv, Exclusive, SendHolds, Busy, PhaseOps
    <3>2. \A p \in Ops : io'[c][p] = IF p = op THEN "idle" ELSE io[c][p]
      BY <2>1 DEF CoreType
    <3> QED
      BY <3>1, <3>2, OpsFacts DEF ConnInv, Exclusive, Busy, PhaseOps
  <2>3. sock[c] # "none" /\ armed[c] \subseteq {op}
    <3>1. io[c][op] # "idle" /\ op \in Ops /\ op \in PhaseOps
      BY OpsFacts DEF Busy, PhaseOps
    <3>2. sock[c] # "none" /\ holders[c] = {}
      BY <3>1 DEF ConnInv, NewIsIdle, Exclusive
    <3>3. \A g \in armed[c] : g = op
      BY <3>1, <3>2
         DEF ConnInv, Exclusive, Armed, InProgress, Serving, Busy, PhaseOps, CoreType, Guards
    <3> QED
      BY <3>2, <3>3
  <2>4. Exclusive(c)' /\ NewIsIdle(c)' /\ SendHolds(c)' /\ Timed(c)'
    BY <2>1, <2>2, <2>3, OpsFacts DEF Exclusive, NewIsIdle, SendHolds, Timed, Busy, PhaseOps
  <2>5. Armed(c)' /\ ServingIsTimed(c)'
    BY <2>1, <2>3 DEF Armed, InProgress, ServingIsTimed, Serving, TimerFor, Seconds
  <2> QED
    BY <2>4, <2>5 DEF ConnInv
<1> QED
  BY <1>2, <1>3, <1>4

LEMMA FindResourceKeeps ==
  ASSUME CoreType, \A d \in Conns : ConnInv(d), NEW c \in Conns, NEW r,
         NEW op \in {"header", "content"}, Busy(c, op), FindResource(c, r, op), due' = due
  PROVE  CoreType' /\ \A d \in Conns : ConnInv(d)'
<1>1. CASE Return(c, op)
  BY <1>1, ReturnKeeps DEF PhaseOps
<1>2. CASE WriteResponse(c, op)
  BY <1>2, WriteResponseKeeps
<1>3. CASE /\ io' = [io EXCEPT ![c][op] = "idle"]
           /\ armed' = [armed EXCEPT ![c] = Cancelled(c, op)]
           /\ sock' = [sock EXCEPT ![c] = IF @ = "open" THEN "upgraded" ELSE @]
           /\ holders' = holders
  <2>1. CoreType'
    BY <1>3 DEF CoreType, Ops, Status, Guards, Cancelled
  <2>2. ASSUME NEW d \in Conns, d # c PROVE ConnInv(d)'
    BY <1>3, <2>2, OthersKeep DEF CoreType
  <2>3. /\ io'[c] = [io[c] EXCEPT ![op] = "idle"]
        /\ armed'[c] = armed[c] \ {op}
        /\ holders'[c] = holders[c]
        /\ sock[c] # "none" => sock'[c] \notin {"none", "open"}
                             \/ sock'[c] = sock[c]
    BY <1>3 DEF CoreType, Cancelled, GuardOf
  <2>4. /\ holders[c] = {} /\ sock[c] # "none"
        /\ \A p \in Ops : io'[c][p] = "idle"
    <3>1. op \in Ops /\ op \in PhaseOps /\ io[c][op] # "idle"
      BY OpsFacts DEF Busy, PhaseOps
    <3>2. holders[c] = {} /\ sock[c] # "none" /\ io[c]["send"] = "idle"
      BY <3>1, OpsFacts DEF ConnInv, Exclusive, NewIsIdle, SendHolds, Busy
    <3>3. \A p \in Ops : io'[c][p] = IF p = op THEN "idle" ELSE io[c][p]
      BY <2>3 DEF CoreType
    <3> QED
      BY <3>1, <3>2, <3>3, OpsFacts DEF ConnInv, Exclusive
  <2>5. armed'[c] = {}
    <3>1. \A g \in armed[c] : g = op
      BY <2>4, OpsFacts
         DEF ConnInv, Exclusive, Armed, InProgress, Serving, Busy, PhaseOps, CoreType, Guards
    <3> QED
      BY <2>3, <3>1
  <2>6. ConnInv(c)'
    BY <2>3, <2>4, <2>5, OpsFacts
       DEF ConnInv, Exclusive, NewIsIdle, ServingIsTimed, SendHolds, Armed, Timed, Serving,
           Busy, PhaseOps
  <2> QED
    BY <2>1, <2>2, <2>6
<1> QED
  BY <1>1, <1>2, <1>3 DEF FindResource

(* Letting go of a Response: status is what io[c] becomes but for the final *)
(* send, and the write of a holder that lets go has ended.                  *)
LEMMA ReleaseKeeps ==
  ASSUME CoreType, \A d \in Conns : ConnInv(d), NEW c \in Conns, NEW h \in holders[c],
         NEW status \in [Ops -> Status],
         \A p \in PhaseOps : status[p] = io[c][p],
         status["send"] \in {io[c]["send"], "idle"},
         h = "callback" => status["send"] = "idle",
         Release(c, h, status)
  PROVE  CoreType' /\ \A d \in Conns : ConnInv(d)'
<1>1. PICK s \in BegunWrite(c) \cup {status["final"]} :
        /\ s \in Status
        /\ s # status["final"] => holders[c] = {h}
        /\ holders[c] = {h} => s \in BegunWrite(c)
        /\ io' = [io EXCEPT ![c] = [status EXCEPT !["final"] = s]]
  <2>1. CASE holders[c] = {h}
    BY <2>1 DEF Release, LastRelease, BegunWrite, Status
  <2>2. CASE holders[c] # {h}
    <3>1. io' = [io EXCEPT ![c] = status]
      BY <2>2 DEF Release, LastRelease
    <3>2. status = [status EXCEPT !["final"] = status["final"]]
      BY OpsFacts DEF PhaseOps
    <3> QED
      BY <2>2, <3>1, <3>2, OpsFacts DEF PhaseOps
  <2> QED
    BY <2>1, <2>2
<1>2. /\ holders' = [holders EXCEPT ![c] = @ \ {h}]
      /\ sock' = sock /\ armed' = armed /\ due' = due
  BY DEF Release
<1>3. CoreType'
  BY <1>1, <1>2 DEF CoreType
<1>4. ASSUME NEW d \in Conns, d # c PROVE ConnInv(d)'
  BY <1>1, <1>2, <1>4, OthersKeep DEF CoreType
<1>5. ConnInv(c)'
  <2>1. /\ io'[c] = [status EXCEPT !["final"] = s]
        /\ holders'[c] = holders[c] \ {h}
        /\ sock'[c] = sock[c] /\ armed'[c] = armed[c] /\ due'[c] = due[c]
    BY <1>1, <1>2 DEF CoreType
  <2>2. /\ \A p \in PhaseOps : io[c][p] = "idle"
        /\ sock[c] # "none"
    BY DEF ConnInv, Exclusive, NewIsIdle
  <2>3. /\ \A p \in PhaseOps : io'[c][p] = IF p = "final" THEN s ELSE "idle"
        /\ io'[c]["send"] \in {io[c]["send"], "idle"}
        /\ h = "callback" => io'[c]["send"] = "idle"
    BY <2>1, <2>2, OpsFacts DEF PhaseOps
  <2>4. holders'[c] = {} \/ s = "idle"
    BY <1>1, <2>1, <2>2 DEF PhaseOps
  <2>5. holders[c] = {h} => s # "idle"
    BY <1>1 DEF BegunWrite
  <2>6. Serving(c) /\ Serving(c)'
    BY <2>1, <2>3, <2>5 DEF Serving, Busy, PhaseOps
  <2>7. Exclusive(c)' /\ NewIsIdle(c)' /\ SendHolds(c)'
    BY <2>1, <2>2, <2>3, <2>4, OpsFacts
       DEF ConnInv, Exclusive, NewIsIdle, SendHolds, Busy, PhaseOps
  <2>8. Armed(c)'
    BY <2>1, <2>2, <2>6 DEF ConnInv, Armed, InProgress, Busy, PhaseOps, CoreType, Guards
  <2>9. ServingIsTimed(c)'
    BY <2>1, <2>6 DEF ConnInv, ServingIsTimed, Seconds
  <2>10. s = "pending" => sock[c] = "open"
    BY <1>1, <2>2, <2>5 DEF BegunWrite, PhaseOps
  <2>11. Timed(c)'
    <3> SUFFICES ASSUME NEW op \in Ops, io'[c][op] = "pending", Seconds(GuardOf(op)) # 0
                 PROVE  GuardOf(op) \in armed[c] \cup due[c]
      BY <2>1 DEF Timed, Seconds
    <3>1. CASE op = "send"
      BY <3>1, <2>3 DEF ConnInv, Timed
    <3>2. CASE op = "final"
      BY <3>2, <2>3, <2>6, <2>10, OpsFacts DEF ConnInv, ServingIsTimed, GuardOf, PhaseOps
    <3> QED
      BY <3>1, <3>2, <2>3, OpsFacts
  <2> QED
    BY <2>7, <2>8, <2>9, <2>11 DEF ConnInv
<1> QED
  BY <1>3, <1>4, <1>5

-----------------------------------------------------------------------------
(* The steps *)

LEMMA CoreInvStep ==
  ASSUME IInv, [Next]_vars
  PROVE  CoreType' /\ \A d \in Conns : ConnInv(d)'
<1>0. CoreType /\ \A d \in Conns : ConnInv(d)
  BY DEF IInv, TypeOK, CoreType
<1>1. ASSUME NEW c \in Conns, Accept(c) PROVE CoreType' /\ \A d \in Conns : ConnInv(d)'
  <2>1. PICK first \in {"handshake", "header"} :
          /\ io' = [io EXCEPT ![c] = [@ EXCEPT ![first] = "pending"]]
          /\ armed' = [armed EXCEPT ![c] = TimerFor(first)]
    BY <1>1 DEF Accept
  <2>2. /\ sock[c] = "none" /\ sock' = [sock EXCEPT ![c] = "open"]
        /\ due' = due /\ holders' = holders
    BY <1>1 DEF Accept
  <2>3. CoreType'
    BY <1>0, <2>1, <2>2, OpsFacts DEF CoreType, Status, Ops, Guards, TimerFor
  <2>4. ASSUME NEW d \in Conns, d # c PROVE ConnInv(d)'
    BY <1>0, <2>1, <2>2, <2>4, OthersKeep DEF CoreType
  <2>5. /\ sock'[c] = "open" /\ holders'[c] = {} /\ armed'[c] = TimerFor(first)
        /\ \A p \in Ops : io'[c][p] = IF p = first THEN "pending" ELSE "idle"
    BY <1>0, <2>1, <2>2 DEF CoreType, ConnInv, NewIsIdle
  <2>6. ConnInv(c)'
    BY <2>5, OpsFacts
       DEF ConnInv, Exclusive, NewIsIdle, ServingIsTimed, SendHolds, Armed, Timed, Serving,
           InProgress, Busy, PhaseOps, TimerFor, GuardOf, Seconds
  <2> QED
    BY <2>3, <2>4, <2>6
<1>2. ASSUME NEW c \in Conns, HandshakeDone(c) PROVE CoreType' /\ \A d \in Conns : ConnInv(d)'
  <2>1. Busy(c, "handshake") /\ due' = due
    BY <1>2 DEF HandshakeDone, Busy
  <2>2. Continue(c, "handshake", "header") \/ Return(c, "handshake")
    BY <1>2 DEF HandshakeDone
  <2> QED
    BY <1>0, <2>1, <2>2, ContinueKeeps, ReturnKeeps DEF PhaseOps
<1>3. ASSUME NEW c \in Conns, HeaderFailed(c) PROVE CoreType' /\ \A d \in Conns : ConnInv(d)'
  BY <1>0, <1>3, ReturnKeeps DEF HeaderFailed, Busy, PhaseOps
<1>4. ASSUME NEW c \in Conns, HeaderDone(c) PROVE CoreType' /\ \A d \in Conns : ConnInv(d)'
  <2>1. Busy(c, "header") /\ due' = due
    BY <1>4 DEF HeaderDone, Busy
  <2>2. \/ Return(c, "header")
        \/ Continue(c, "header", "content")
        \/ \E r \in Requests : FindResource(c, r, "header")
    BY <1>4 DEF HeaderDone
  <2> QED
    BY <1>0, <2>1, <2>2, ContinueKeeps, ReturnKeeps, FindResourceKeeps DEF PhaseOps
<1>5. ASSUME NEW c \in Conns, ContentDone(c) PROVE CoreType' /\ \A d \in Conns : ConnInv(d)'
  <2>1. Busy(c, "content") /\ due' = due
    BY <1>5 DEF ContentDone, Busy
  <2>2. Return(c, "content") \/ FindResource(c, request[c], "content")
    BY <1>5 DEF ContentDone
  <2> QED
    BY <1>0, <2>1, <2>2, ReturnKeeps, FindResourceKeeps DEF PhaseOps
<1>6. ASSUME NEW c \in Conns, FinalDone(c) PROVE CoreType' /\ \A d \in Conns : ConnInv(d)'
  <2>1. Busy(c, "final") /\ due' = due
    BY <1>6 DEF FinalDone, Busy
  <2>2. Continue(c, "final", "header") \/ Return(c, "final")
    BY <1>6 DEF FinalDone
  <2> QED
    BY <1>0, <2>1, <2>2, ContinueKeeps, ReturnKeeps DEF PhaseOps
<1>7. ASSUME NEW c \in Conns, SendDone(c) PROVE CoreType' /\ \A d \in Conns : ConnInv(d)'
  <2>1. io[c]["send"] # "idle" /\ "callback" \in holders[c]
    BY <1>0, <1>7 DEF SendDone, ConnInv, SendHolds, Busy
  <2>2. CASE Release(c, "callback", [io[c] EXCEPT !["send"] = "idle"])
    BY <1>0, <2>1, <2>2, ReleaseKeeps, OpsFacts DEF CoreType, Ops, Status, PhaseOps
  <2>3. ASSUME NEW s \in BegunWrite(c), io' = [io EXCEPT ![c]["send"] = s],
               UNCHANGED <<sock, armed, due, holders, request, called, replied>>
        PROVE  CoreType' /\ \A d \in Conns : ConnInv(d)'
    <3>1. io' = [io EXCEPT ![c] = [@ EXCEPT !["send"] = s]] /\ s \in Status
      BY <2>3 DEF BegunWrite, Status
    <3>2. CoreType'
      <4>1. io' \in [Conns -> [Ops -> Status]]
        BY <1>0, <3>1 DEF CoreType
      <4> QED
        BY <1>0, <2>3, <4>1 DEF CoreType
    <3>3. ASSUME NEW d \in Conns, d # c PROVE ConnInv(d)'
      BY <1>0, <2>3, <3>1, <3>3, OthersKeep DEF CoreType
    <3>4. \A p \in Ops : io'[c][p] = IF p = "send" THEN s ELSE io[c][p]
      BY <1>0, <3>1 DEF CoreType
    <3>5. s = "pending" => sock[c] = "open"
      BY DEF BegunWrite
    <3>6. /\ \A p \in PhaseOps : io'[c][p] = io[c][p]
          /\ io'[c]["send"] = s
          /\ UNCHANGED <<sock, armed, due, holders>>
      BY <2>3, <3>4, OpsFacts DEF PhaseOps
    <3>7. Exclusive(c)' /\ NewIsIdle(c)' /\ SendHolds(c)'
      BY <1>0, <2>1, <3>6 DEF ConnInv, Exclusive, NewIsIdle, SendHolds
    <3>8. Armed(c)' /\ ServingIsTimed(c)'
      BY <1>0, <2>1, <3>6
         DEF ConnInv, Armed, ServingIsTimed, Serving, InProgress, Busy, PhaseOps, Seconds,
             CoreType, Guards
    <3>9. Timed(c)'
      BY <1>0, <2>1, <3>5, <3>6, OpsFacts
         DEF ConnInv, Timed, ServingIsTimed, Serving, GuardOf, Seconds
    <3>10. ConnInv(c)'
      BY <3>7, <3>8, <3>9 DEF ConnInv
    <3> QED
      BY <3>2, <3>3, <3>10
  <2> QED
    BY <1>7, <2>2, <2>3 DEF SendDone
<1>8. ASSUME NEW c \in Conns, ResourceReturns(c) PROVE CoreType' /\ \A d \in Conns : ConnInv(d)'
  BY <1>0, <1>8, ReleaseKeeps DEF ResourceReturns, CoreType
<1>9. ASSUME NEW c \in Conns, WorkerReturns(c) PROVE CoreType' /\ \A d \in Conns : ConnInv(d)'
  BY <1>0, <1>9, ReleaseKeeps DEF WorkerReturns, CoreType
<1>10. ASSUME NEW c \in Conns, HandOff(c) PROVE CoreType' /\ \A d \in Conns : ConnInv(d)'
  <2>1. CoreType'
    BY <1>0, <1>10 DEF HandOff, CoreType, Holders
  <2>2. ASSUME NEW d \in Conns, d # c PROVE ConnInv(d)'
    BY <1>0, <1>10, <2>2, OthersKeep DEF HandOff, CoreType
  <2>3. /\ holders[c] # {} /\ holders'[c] = holders[c] \cup {"worker"}
        /\ UNCHANGED <<sock, io, armed, due>>
    BY <1>0, <1>10 DEF HandOff, CoreType
  <2>4. ConnInv(c)'
    BY <1>0, <2>3
       DEF ConnInv, Exclusive, NewIsIdle, ServingIsTimed, SendHolds, Armed, Timed, Serving,
           InProgress, Busy, Seconds
  <2> QED
    BY <2>1, <2>2, <2>4
<1>11. ASSUME NEW c \in Conns, Send(c) PROVE CoreType' /\ \A d \in Conns : ConnInv(d)'
  <2>1. PICK s \in BegunWrite(c) : io' = [io EXCEPT ![c] = [@ EXCEPT !["send"] = s]]
    BY <1>11 DEF Send
  <2>2. /\ holders[c] # {} /\ holders' = [holders EXCEPT ![c] = @ \cup {"callback"}]
        /\ UNCHANGED <<sock, armed, due>>
    BY <1>11 DEF Send
  <2>3. s \in Status /\ (s = "pending" => sock[c] = "open")
    BY DEF BegunWrite, Status
  <2>4. CoreType'
    BY <1>0, <2>1, <2>2, <2>3 DEF CoreType, Holders
  <2>5. ASSUME NEW d \in Conns, d # c PROVE ConnInv(d)'
    BY <1>0, <2>1, <2>2, <2>5, OthersKeep DEF CoreType
  <2>6. /\ \A p \in Ops : io'[c][p] = IF p = "send" THEN s ELSE io[c][p]
        /\ holders'[c] = holders[c] \cup {"callback"}
    BY <1>0, <2>1, <2>2 DEF CoreType
  <2>7. ConnInv(c)'
    BY <1>0, <2>2, <2>3, <2>6, OpsFacts
       DEF ConnInv, Exclusive, NewIsIdle, ServingIsTimed, SendHolds, Armed, Timed, Serving,
           InProgress, Busy, PhaseOps, GuardOf, Seconds, CoreType, Guards
  <2> QED
    BY <2>4, <2>5, <2>7
<1>12. ASSUME NEW c \in Conns, NEW op \in Ops, Complete(c, op)
       PROVE  CoreType' /\ \A d \in Conns : ConnInv(d)'
  <2>1. PICK s \in {"ok", "failed"} : io' = [io EXCEPT ![c] = [@ EXCEPT ![op] = s]]
    BY <1>12 DEF Complete
  <2>2. io[c][op] = "pending" /\ UNCHANGED <<sock, armed, due, holders>>
    BY <1>12 DEF Complete
  <2>3. CoreType'
    BY <1>0, <2>1, <2>2 DEF CoreType, Status
  <2>4. ASSUME NEW d \in Conns, d # c PROVE ConnInv(d)'
    BY <1>0, <2>1, <2>2, <2>4, OthersKeep DEF CoreType
  <2>5. \A p \in Ops : io'[c][p] = IF p = op THEN s ELSE io[c][p]
    BY <1>0, <2>1 DEF CoreType
  <2>6. ConnInv(c)'
    BY <1>0, <2>2, <2>5, OpsFacts
       DEF ConnInv, Exclusive, NewIsIdle, ServingIsTimed, SendHolds, Armed, Timed, Serving,
           InProgress, Busy, PhaseOps, Seconds, CoreType, Guards, Ops
  <2> QED
    BY <2>3, <2>4, <2>6
<1>13. ASSUME NEW c \in Conns, NEW g \in Guards, Expire(c, g)
       PROVE  CoreType' /\ \A d \in Conns : ConnInv(d)'
  <2>1. CoreType'
    BY <1>0, <1>13 DEF Expire, CoreType
  <2>2. ASSUME NEW d \in Conns, d # c PROVE ConnInv(d)'
    BY <1>0, <1>13, <2>2, OthersKeep DEF Expire, CoreType
  <2>3. /\ armed'[c] = armed[c] \ {g} /\ due'[c] = due[c] \cup {g}
        /\ UNCHANGED <<sock, io, holders>>
    BY <1>0, <1>13 DEF Expire, CoreType
  <2>4. ConnInv(c)'
    BY <1>0, <2>3
       DEF ConnInv, Exclusive, NewIsIdle, ServingIsTimed, SendHolds, Armed, Timed, Serving,
           InProgress, Busy, Seconds
  <2> QED
    BY <2>1, <2>2, <2>4
<1>14. ASSUME NEW c \in Conns, NEW g \in Guards, TimeoutHandler(c, g)
       PROVE  CoreType' /\ \A d \in Conns : ConnInv(d)'
  <2>1. /\ sock' = [sock EXCEPT ![c] = "closed"]
        /\ due' = [due EXCEPT ![c] = @ \ {g}]
        /\ io' = [io EXCEPT ![c] = [op \in Ops |-> IF @[op] = "pending" THEN "failed" ELSE @[op]]]
        /\ UNCHANGED <<armed, holders>>
    BY <1>14 DEF TimeoutHandler
  <2>2. CoreType'
    BY <1>0, <2>1 DEF CoreType, Status
  <2>3. ASSUME NEW d \in Conns, d # c PROVE ConnInv(d)'
    BY <1>0, <2>1, <2>3, OthersKeep DEF CoreType
  <2>4. /\ \A p \in Ops : io'[c][p] = IF io[c][p] = "pending" THEN "failed" ELSE io[c][p]
        /\ sock'[c] = "closed"
    BY <1>0, <2>1 DEF CoreType
  <2>5. ConnInv(c)'
    BY <1>0, <2>1, <2>4, OpsFacts
       DEF ConnInv, Exclusive, NewIsIdle, ServingIsTimed, SendHolds, Armed, Timed, Serving,
           InProgress, Busy, PhaseOps, CoreType, Guards, Ops
  <2> QED
    BY <2>2, <2>3, <2>5
<1>15. CASE UNCHANGED vars
  BY <1>0, <1>15, OthersKeep DEF vars, CoreType
<1> QED
  BY <1>1, <1>2, <1>3, <1>4, <1>5, <1>6, <1>7, <1>8, <1>9, <1>10, <1>11, <1>12, <1>13,
     <1>14, <1>15 DEF Next, Handler, Resource

(* What CoreType leaves out: the request and the two counters. *)
LEMMA CountersStep ==
  ASSUME TypeOK, [Next]_vars
  PROVE  /\ request' \in [Conns -> Requests \cup {NoRequest}]
         /\ called' \in [Conns -> Nat]
         /\ replied' \in [Conns -> Nat]
<1>1. ASSUME NEW c \in Conns, Handler(c)
      PROVE  /\ request' \in [Conns -> Requests \cup {NoRequest}]
             /\ called' \in [Conns -> Nat]
             /\ replied' \in [Conns -> Nat]
  <2>1. \A r, op : FindResource(c, r, op) => called' \in [Conns -> Nat]
    BY DEF TypeOK, FindResource, Return, WriteResponse
  <2>2. CASE HandshakeDone(c) \/ HeaderFailed(c) \/ SendDone(c)
    BY <2>2 DEF TypeOK, HandshakeDone, HeaderFailed, SendDone, Release
  <2>3. CASE HeaderDone(c)
    <3>1. PICK r \in Requests : request' = [request EXCEPT ![c] = r]
      BY <2>3 DEF HeaderDone
    <3>2. replied' = replied /\ (called' = called \/ called' \in [Conns -> Nat])
      BY <2>1, <2>3 DEF HeaderDone
    <3> QED
      BY <3>1, <3>2 DEF TypeOK
  <2>4. CASE ContentDone(c)
    BY <2>1, <2>4 DEF TypeOK, ContentDone
  <2>5. CASE FinalDone(c)
    BY <2>5 DEF TypeOK, FinalDone
  <2> QED
    BY <1>1, <2>2, <2>3, <2>4, <2>5 DEF Handler
<1>2. ASSUME UNCHANGED <<request, called, replied>>
      PROVE  /\ request' \in [Conns -> Requests \cup {NoRequest}]
             /\ called' \in [Conns -> Nat]
             /\ replied' \in [Conns -> Nat]
  BY <1>2 DEF TypeOK
<1> QED
  BY <1>1, <1>2 DEF Next, Accept, Resource, ResourceReturns, HandOff, WorkerReturns, Send,
                    Release, Complete, Expire, TimeoutHandler, vars

LEMMA InvStep == IInv /\ [Next]_vars => IInv'
BY CoreInvStep, CountersStep DEF IInv, TypeOK, CoreType

-----------------------------------------------------------------------------
(* The theorems *)

(* The variables keep their types. *)
THEOREM TypeCorrect == Spec => []TypeOK
<1>1. IInv => TypeOK
  BY DEF IInv
<1> QED
  BY InitInv, InvStep, <1>1, PTL DEF Spec

(* The phases of a connection never overlap: the deleter of the Response   *)
(* keeps the final send, and with it the next read, behind every holder.   *)
THEOREM PhasesNeverOverlap == Spec => []OnePhase
<1>1. IInv => OnePhase
  BY PhasesExclusive DEF IInv, ConnInv, OnePhase
<1> QED
  BY InitInv, InvStep, <1>1, PTL DEF Spec

(* The buffer of a send() that is under way is alive. *)
THEOREM BufferOutlivesSend == Spec => []SendHoldsResponse
<1>1. IInv => SendHoldsResponse
  BY DEF IInv, ConnInv, SendHoldsResponse, SendHolds
<1> QED
  BY InitInv, InvStep, <1>1, PTL DEF Spec

(* Every waiting timer belongs to the phase the connection is in. *)
THEOREM TimersBelongToPhase == Spec => []ArmedForPhase
<1>1. IInv => ArmedForPhase
  BY DEF IInv, ConnInv, ArmedForPhase, Armed
<1> QED
  BY InitInv, InvStep, <1>1, PTL DEF Spec

(* With its timeout not 0, no operation waits for the peer untimed. *)
THEOREM WaitsAreTimed == Spec => []WaitIsTimed
<1>1. IInv => WaitIsTimed
  BY DEF IInv, ConnInv, WaitIsTimed, Timed
<1> QED
  BY InitInv, InvStep, <1>1, PTL DEF Spec

-----------------------------------------------------------------------------
(* ServerConnection implements RequestCycle, for any number of             *)
(* connections, threads and requests and for any timeouts.                 *)

(* A timer that closed the socket before accept() filled it would end a    *)
(* connection that never began: IInv says it is not armed, not that its    *)
(* handler is not queued.                                                  *)
NewIsNotDue == \A c \in Conns : sock[c] = "none" => due[c] = {}

ServerInv == IInv /\ NewIsNotDue

Receiving(c) == \E op \in {"handshake", "header", "content"} : Busy(c, op)

(* StageOf without the order of its cases, which the invariant makes       *)
(* exclusive.                                                              *)
StageIs(c) ==
  /\ sock[c] = "none" => StageOf(c) = "new"
  /\ Receiving(c) => StageOf(c) = "receiving"
  /\ holders[c] # {} => StageOf(c) = "serving"
  /\ Busy(c, "final") => StageOf(c) = "replying"
  /\ (/\ sock[c] # "none"
      /\ \A p \in PhaseOps : ~ Busy(c, p)
      /\ holders[c] = {}) => StageOf(c) = "over"

LEMMA StageNow == ASSUME IInv, NEW c \in Conns PROVE StageIs(c)
<1>1. ConnInv(c)
  BY DEF IInv
<1>2. CASE sock[c] = "none"
  <2>1. ~ Receiving(c) /\ ~ Busy(c, "final") /\ holders[c] = {}
    BY <1>1, <1>2, OpsFacts DEF ConnInv, NewIsIdle, Busy, Receiving, PhaseOps
  <2> QED
    BY <1>2, <2>1 DEF StageIs, StageOf, Receiving
<1>3. CASE sock[c] # "none" /\ Receiving(c)
  <2>1. ~ Busy(c, "final") /\ holders[c] = {}
    BY <1>1, <1>3 DEF ConnInv, Exclusive, Busy, Receiving, PhaseOps
  <2>2. StageOf(c) = "receiving"
    BY <1>3, <2>1 DEF StageOf, Receiving
  <2> QED
    BY <1>3, <2>1, <2>2 DEF StageIs, Receiving, PhaseOps
<1>4. CASE sock[c] # "none" /\ ~ Receiving(c) /\ holders[c] # {}
  <2>1. ~ Busy(c, "final")
    BY <1>1, <1>4 DEF ConnInv, Exclusive, Busy, PhaseOps
  <2> QED
    BY <1>4, <2>1 DEF StageIs, StageOf, Receiving
<1>5. CASE sock[c] # "none" /\ ~ Receiving(c) /\ holders[c] = {}
  <2>1. CASE Busy(c, "final")
    BY <1>5, <2>1 DEF StageIs, StageOf, Receiving, PhaseOps
  <2>2. CASE ~ Busy(c, "final")
    BY <1>5, <2>2 DEF StageIs, StageOf, Receiving
  <2> QED
    BY <2>1, <2>2
<1> QED
  BY <1>2, <1>3, <1>4, <1>5

LEMMA StageAlways == IInv => \A c \in Conns : StageIs(c)
BY StageNow

LEMMA StageNext == IInv' => \A c \in Conns : StageIs(c)'
<1>1. IInv' => (\A c \in Conns : StageIs(c))'
  BY StageAlways, PTL
<1> QED
  BY <1>1

(* What the steps do to the socket and the queued timer handlers. *)
SockAndDue(c) ==
  \/ UNCHANGED <<sock, due>>
  \/ sock' = [sock EXCEPT ![c] = "open"] /\ UNCHANGED due
  \/ sock' = [sock EXCEPT ![c] = IF @ = "open" THEN "upgraded" ELSE @] /\ UNCHANGED due
  \/ \E g \in Guards :
       /\ g \in armed[c] /\ UNCHANGED sock
       /\ due' = [due EXCEPT ![c] = @ \cup {g}]
  \/ \E g \in Guards :
       /\ sock' = [sock EXCEPT ![c] = "closed"]
       /\ due' = [due EXCEPT ![c] = @ \ {g}]

LEMMA NotDueStep == ServerInv /\ [Next]_vars => NewIsNotDue'
<1> SUFFICES ASSUME ServerInv, [Next]_vars, NEW e \in Conns, sock'[e] = "none"
             PROVE  due'[e] = {}
  BY DEF NewIsNotDue
<1>1. CoreType /\ NewIsIdle(e) /\ (sock[e] = "none" => due[e] = {})
  BY DEF ServerInv, NewIsNotDue, IInv, TypeOK, CoreType, ConnInv
<1>2. UNCHANGED <<sock, due>> \/ \E c \in Conns : SockAndDue(c)
  <2>1. ASSUME NEW c \in Conns, Handler(c) PROVE SockAndDue(c)
    <3>1. \A r, op : FindResource(c, r, op) /\ due' = due => SockAndDue(c)
      BY DEF FindResource, Return, WriteResponse, SockAndDue
    <3>2. CASE HandshakeDone(c) \/ HeaderFailed(c) \/ FinalDone(c)
      BY <3>2 DEF HandshakeDone, HeaderFailed, FinalDone, Return, Continue, SockAndDue
    <3>3. CASE HeaderDone(c)
      <4>1. PICK r \in Requests :
              \/ Return(c, "header")
              \/ Continue(c, "header", "content")
              \/ FindResource(c, r, "header")
        BY <3>3 DEF HeaderDone
      <4>2. due' = due
        BY <3>3 DEF HeaderDone
      <4> QED
        BY <3>1, <4>1, <4>2 DEF Return, Continue, SockAndDue
    <3>4. CASE ContentDone(c)
      BY <3>1, <3>4 DEF ContentDone, Return, SockAndDue
    <3>5. CASE SendDone(c)
      BY <3>5 DEF SendDone, Release, SockAndDue
    <3> QED
      BY <2>1, <3>2, <3>3, <3>4, <3>5 DEF Handler
  <2>2. ASSUME NEW c \in Conns, Resource(c) PROVE SockAndDue(c)
    BY <2>2 DEF Resource, ResourceReturns, HandOff, WorkerReturns, Send, Release, SockAndDue
  <2>3. ASSUME NEW c \in Conns, Accept(c) PROVE SockAndDue(c)
    BY <2>3 DEF Accept, SockAndDue
  <2>4. ASSUME NEW c \in Conns, NEW op \in Ops, Complete(c, op) PROVE SockAndDue(c)
    BY <2>4 DEF Complete, SockAndDue
  <2>5. ASSUME NEW c \in Conns, NEW g \in Guards, Expire(c, g) \/ TimeoutHandler(c, g)
        PROVE  SockAndDue(c)
    BY <2>5 DEF Expire, TimeoutHandler, SockAndDue
  <2>6. CASE UNCHANGED vars
    BY <2>6 DEF vars
  <2> QED
    BY <2>1, <2>2, <2>3, <2>4, <2>5, <2>6 DEF Next
<1> QED
  BY <1>1, <1>2 DEF CoreType, NewIsIdle, SockAndDue

-----------------------------------------------------------------------------
(* Steps of the cycle *)

LEMMA Moves ==
  ASSUME NEW c \in Conns, NEW from, NEW to, StageOf(c) = from, StageOf(c)' = to,
         \A d \in Conns : d # c => StageOf(d)' = StageOf(d)
  PROVE  Cycle!Move(c, from, to)
BY DEF Cycle!Move

LEMMA Stays ==
  ASSUME \A d \in Conns : StageOf(d)' = StageOf(d), called' = called, replied' = replied
  PROVE  UNCHANGED Cycle!vars
BY DEF Cycle!vars

(* Only the connection whose handler runs changes its stage. *)
LEMMA OthersStay ==
  ASSUME NEW d \in Conns, sock'[d] = sock[d], io'[d] = io[d], holders'[d] = holders[d]
  PROVE  StageOf(d)' = StageOf(d)
BY DEF StageOf, Busy

(* What a step leaves to the stage of a connection: which operations are   *)
(* under way, whether somebody holds the Response, whether it was accepted.*)
LEMMA SameStage ==
  ASSUME NEW d \in Conns, StageIs(d), StageIs(d)',
         sock[d] = "none" <=> sock'[d] = "none",
         \A p \in PhaseOps : io[d][p] = "idle" <=> io'[d][p] = "idle",
         holders[d] = {} <=> holders'[d] = {}
  PROVE  StageOf(d)' = StageOf(d)
<1>1. /\ Receiving(d) <=> Receiving(d)'
      /\ \A p \in PhaseOps : Busy(d, p) <=> Busy(d, p)'
  BY DEF Receiving, Busy, PhaseOps
<1>2. "final" \in PhaseOps
  BY DEF PhaseOps
<1>3. Receiving(d) \/ Busy(d, "final") \/ \A p \in PhaseOps : ~ Busy(d, p)
  BY DEF Receiving, PhaseOps
<1> QED
  BY <1>1, <1>2, <1>3 DEF StageIs

LEMMA StageOfPhase ==
  ASSUME NEW c \in Conns, ConnInv(c), StageIs(c), NEW op \in PhaseOps, Busy(c, op)
  PROVE  /\ StageOf(c) = IF op = "final" THEN "replying" ELSE "receiving"
         /\ sock[c] # "none" /\ holders[c] = {}
         /\ \A p \in PhaseOps : p # op => io[c][p] = "idle"
<1>1. op \in Ops /\ io[c][op] # "idle"
  BY OpsFacts DEF Busy
<1>2. op # "final" => Receiving(c)
  BY DEF Receiving, PhaseOps
<1> QED
  BY <1>1, <1>2 DEF ConnInv, Exclusive, NewIsIdle, StageIs

LEMMA ReturnEnds ==
  ASSUME CoreType, NEW c \in Conns, ConnInv(c), StageIs(c), StageIs(c)',
         NEW op \in PhaseOps, Busy(c, op), Return(c, op)
  PROVE  Cycle!Move(c, IF op = "final" THEN "replying" ELSE "receiving", "over")
<1>1. /\ io' = [io EXCEPT ![c] = [@ EXCEPT ![op] = "idle"]]
      /\ sock' = sock /\ holders' = holders
  BY DEF Return
<1>2. \A d \in Conns : d # c => StageOf(d)' = StageOf(d)
  BY <1>1, OthersStay DEF CoreType
<1>3. \A p \in Ops : io'[c][p] = IF p = op THEN "idle" ELSE io[c][p]
  BY <1>1 DEF CoreType
<1>4. \A p \in PhaseOps : io'[c][p] = "idle"
  BY <1>3, StageOfPhase, OpsFacts
<1>5. StageOf(c)' = "over"
  BY <1>1, <1>4, StageOfPhase DEF StageIs, Busy
<1> QED
  BY <1>2, <1>5, StageOfPhase, Moves

LEMMA ContinueReceives ==
  ASSUME CoreType, NEW c \in Conns, ConnInv(c), StageIs(c), StageIs(c)',
         NEW op \in PhaseOps, NEW next \in {"header", "content"},
         Busy(c, op), Continue(c, op, next)
  PROVE  Cycle!Move(c, IF op = "final" THEN "replying" ELSE "receiving", "receiving")
<1>1. /\ io' = [io EXCEPT ![c] = [@ EXCEPT ![op] = "idle", ![next] = Begun(c)]]
      /\ sock' = sock /\ holders' = holders
  BY DEF Continue, CoreType, Ops, PhaseOps
<1>2. \A d \in Conns : d # c => StageOf(d)' = StageOf(d)
  BY <1>1, OthersStay DEF CoreType
<1>3. io'[c][next] = Begun(c)
  BY <1>1 DEF CoreType, Ops
<1>4. StageOf(c)' = "receiving"
  BY <1>3 DEF StageIs, Receiving, Busy, Begun
<1> QED
  BY <1>2, <1>4, StageOfPhase, Moves

(* The request is given to a resource: the call of the abstract cycle. *)
LEMMA WriteResponseCalls ==
  ASSUME CoreType, NEW c \in Conns, ConnInv(c), StageIs(c), StageIs(c)',
         NEW op \in {"header", "content"}, Busy(c, op), WriteResponse(c, op),
         replied' = replied
  PROVE  Cycle!Call(c)
<1>1. /\ io' = [io EXCEPT ![c] = [@ EXCEPT ![op] = "idle"]]
      /\ holders' = [holders EXCEPT ![c] = {"handler"}]
      /\ sock' = sock
      /\ called' = [called EXCEPT ![c] = @ + 1]
  BY DEF WriteResponse
<1>2. \A d \in Conns : d # c => StageOf(d)' = StageOf(d)
  BY <1>1, OthersStay DEF CoreType
<1>3. StageOf(c)' = "serving"
  BY <1>1 DEF StageIs, CoreType
<1>4. StageOf(c) = "receiving"
  BY StageOfPhase DEF PhaseOps
<1> QED
  BY <1>1, <1>2, <1>3, <1>4, Moves DEF Cycle!Call

LEMMA FindResourceCycles ==
  ASSUME CoreType, NEW c \in Conns, ConnInv(c), StageIs(c), StageIs(c)', NEW r,
         NEW op \in {"header", "content"}, Busy(c, op), FindResource(c, r, op),
         replied' = replied
  PROVE  Cycle!Call(c) \/ Cycle!GiveUp(c)
<1>1. CASE Return(c, op) /\ called' = called
  BY <1>1, ReturnEnds DEF Cycle!GiveUp, PhaseOps
<1>2. CASE WriteResponse(c, op)
  BY <1>2, WriteResponseCalls
<1>3. CASE /\ io' = [io EXCEPT ![c][op] = "idle"]
           /\ sock' = [sock EXCEPT ![c] = IF @ = "open" THEN "upgraded" ELSE @]
           /\ UNCHANGED <<holders, called>>
  <2>1. \A d \in Conns : d # c => StageOf(d)' = StageOf(d)
    BY <1>3, OthersStay DEF CoreType
  <2>2. /\ StageOf(c) = "receiving" /\ sock[c] # "none" /\ holders[c] = {}
        /\ \A p \in PhaseOps : p # op => io[c][p] = "idle"
    BY StageOfPhase DEF PhaseOps
  <2>3. \A p \in Ops : io'[c][p] = IF p = op THEN "idle" ELSE io[c][p]
    BY <1>3 DEF CoreType
  <2>4. sock'[c] # "none" /\ \A p \in PhaseOps : io'[c][p] = "idle"
    BY <1>3, <2>2, <2>3, OpsFacts DEF CoreType
  <2>5. StageOf(c)' = "over"
    BY <1>3, <2>2, <2>4 DEF StageIs, Busy
  <2> QED
    BY <1>3, <2>1, <2>2, <2>5, Moves DEF Cycle!GiveUp
<1> QED
  BY <1>1, <1>2, <1>3 DEF FindResource

(* The last holder that lets go starts the final send; no other does. *)
LEMMA ReleaseReplies ==
  ASSUME CoreType, NEW c \in Conns, ConnInv(c), StageIs(c), StageIs(c)',
         NEW h \in holders[c], NEW status \in [Ops -> Status],
         \A p \in PhaseOps : status[p] = io[c][p],
         Release(c, h, status)
  PROVE  Cycle!Reply(c) \/ UNCHANGED Cycle!vars
<1>1. /\ holders' = [holders EXCEPT ![c] = @ \ {h}]
      /\ UNCHANGED <<sock, called, replied>>
      /\ LastRelease(c, h, status)
  BY DEF Release
<1>2. StageOf(c) = "serving"
  BY DEF StageIs
<1>3. CASE holders[c] = {h}
  <2>1. PICK s \in BegunWrite(c) : io' = [io EXCEPT ![c] = [status EXCEPT !["final"] = s]]
    BY <1>1, <1>3 DEF LastRelease
  <2>2. \A d \in Conns : d # c => StageOf(d)' = StageOf(d)
    BY <1>1, <2>1, OthersStay DEF CoreType
  <2>3. io'[c]["final"] # "idle"
    BY <2>1 DEF CoreType, BegunWrite, Ops
  <2>4. StageOf(c)' = "replying"
    BY <2>3 DEF StageIs, Busy
  <2> QED
    BY <1>1, <1>2, <2>2, <2>4, Moves DEF Cycle!Reply
<1>4. CASE holders[c] # {h}
  <2>1. io' = [io EXCEPT ![c] = status]
    BY <1>1, <1>4 DEF LastRelease
  <2>2. \A d \in Conns : d # c => StageOf(d)' = StageOf(d)
    BY <1>1, <2>1, OthersStay DEF CoreType
  <2>3. holders'[c] # {}
    BY <1>1, <1>4 DEF CoreType
  <2>4. StageOf(c)' = "serving"
    BY <2>3 DEF StageIs
  <2> QED
    BY <1>1, <1>2, <2>2, <2>4, Stays
<1> QED
  BY <1>3, <1>4

LEMMA MoveToSame ==
  ASSUME NEW c \in Conns, Cycle!Move(c, "receiving", "receiving"),
         called' = called, replied' = replied
  PROVE  UNCHANGED Cycle!vars
BY DEF Cycle!Move, Cycle!vars

-----------------------------------------------------------------------------
(* The theorems *)

LEMMA CycleStep == ServerInv /\ ServerInv' /\ [Next]_vars => [Cycle!Next]_Cycle!vars
<1> SUFFICES ASSUME ServerInv, ServerInv', [Next]_vars PROVE [Cycle!Next]_Cycle!vars
  OBVIOUS
<1>0. /\ CoreType
      /\ \A d \in Conns : ConnInv(d) /\ StageIs(d) /\ StageIs(d)'
      /\ \A d \in Conns : (sock[d] = "none" => due[d] = {})
  BY StageNow, StageNext DEF ServerInv, NewIsNotDue, IInv, TypeOK, CoreType
<1>1. ASSUME NEW c \in Conns, Accept(c) PROVE Cycle!Open(c)
  <2>1. PICK first \in {"handshake", "header"} :
          io' = [io EXCEPT ![c] = [@ EXCEPT ![first] = "pending"]]
    BY <1>1 DEF Accept
  <2>2. /\ sock[c] = "none" /\ sock' = [sock EXCEPT ![c] = "open"]
        /\ UNCHANGED <<holders, called, replied>>
    BY <1>1 DEF Accept
  <2>3. \A d \in Conns : d # c => StageOf(d)' = StageOf(d)
    BY <1>0, <2>1, <2>2, OthersStay DEF CoreType
  <2>4. io'[c][first] = "pending"
    BY <1>0, <2>1 DEF CoreType, Ops
  <2>5. StageOf(c) = "new" /\ StageOf(c)' = "receiving"
    BY <1>0, <2>2, <2>4 DEF StageIs, Receiving, Busy
  <2> QED
    BY <2>2, <2>3, <2>5, Moves DEF Cycle!Open
<1>2. ASSUME NEW c \in Conns, HandshakeDone(c)
      PROVE  Cycle!GiveUp(c) \/ UNCHANGED Cycle!vars
  <2>1. Busy(c, "handshake") /\ UNCHANGED <<called, replied>>
    BY <1>2 DEF HandshakeDone, Busy
  <2>2. CASE Continue(c, "handshake", "header")
    <3>1. Cycle!Move(c, "receiving", "receiving")
      BY <1>0, <2>1, <2>2, ContinueReceives DEF PhaseOps
    <3> QED
      BY <2>1, <3>1, MoveToSame
  <2>3. CASE Return(c, "handshake")
    BY <1>0, <2>1, <2>3, ReturnEnds DEF PhaseOps, Cycle!GiveUp
  <2> QED
    BY <1>2, <2>2, <2>3 DEF HandshakeDone
<1>3. ASSUME NEW c \in Conns, HeaderFailed(c) PROVE Cycle!GiveUp(c)
  BY <1>0, <1>3, ReturnEnds DEF HeaderFailed, Busy, PhaseOps, Cycle!GiveUp
<1>4. ASSUME NEW c \in Conns, HeaderDone(c)
      PROVE  Cycle!Call(c) \/ Cycle!GiveUp(c) \/ UNCHANGED Cycle!vars
  <2>1. Busy(c, "header") /\ replied' = replied
    BY <1>4 DEF HeaderDone, Busy
  <2>2. \/ Return(c, "header") /\ called' = called
        \/ Continue(c, "header", "content") /\ called' = called
        \/ \E r \in Requests : FindResource(c, r, "header")
    BY <1>4 DEF HeaderDone
  <2>3. CASE Return(c, "header") /\ called' = called
    BY <1>0, <2>1, <2>3, ReturnEnds DEF PhaseOps, Cycle!GiveUp
  <2>4. CASE Continue(c, "header", "content") /\ called' = called
    <3>1. Cycle!Move(c, "receiving", "receiving")
      BY <1>0, <2>1, <2>4, ContinueReceives DEF PhaseOps
    <3> QED
      BY <2>1, <2>4, <3>1, MoveToSame
  <2>5. CASE \E r \in Requests : FindResource(c, r, "header")
    BY <1>0, <2>1, <2>5, FindResourceCycles
  <2> QED
    BY <2>2, <2>3, <2>4, <2>5
<1>5. ASSUME NEW c \in Conns, ContentDone(c) PROVE Cycle!Call(c) \/ Cycle!GiveUp(c)
  <2>1. Busy(c, "content") /\ replied' = replied
    BY <1>5 DEF ContentDone, Busy
  <2>2. CASE FindResource(c, request[c], "content")
    BY <1>0, <2>1, <2>2, FindResourceCycles
  <2>3. CASE Return(c, "content") /\ called' = called
    BY <1>0, <2>1, <2>3, ReturnEnds DEF PhaseOps, Cycle!GiveUp
  <2> QED
    BY <1>5, <2>2, <2>3 DEF ContentDone
<1>6. ASSUME NEW c \in Conns, FinalDone(c) PROVE Cycle!Replied(c) \/ Cycle!GiveUp(c)
  <2>1. Busy(c, "final") /\ called' = called
    BY <1>6 DEF FinalDone, Busy
  <2>2. Return(c, "final") => Cycle!Move(c, "replying", "over")
    BY <1>0, <2>1, ReturnEnds DEF PhaseOps
  <2>3. Continue(c, "final", "header") => Cycle!Move(c, "replying", "receiving")
    BY <1>0, <2>1, ContinueReceives DEF PhaseOps
  <2>4. CASE /\ replied' = [replied EXCEPT ![c] = @ + 1]
             /\ Return(c, "final") \/ Continue(c, "final", "header")
    BY <2>1, <2>2, <2>3, <2>4 DEF Cycle!Replied
  <2>5. CASE Return(c, "final") /\ replied' = replied
    BY <2>1, <2>2, <2>5 DEF Cycle!GiveUp
  <2> QED
    BY <1>6, <2>4, <2>5 DEF FinalDone
<1>7. ASSUME NEW c \in Conns, SendDone(c)
      PROVE  Cycle!Reply(c) \/ UNCHANGED Cycle!vars
  <2>1. "callback" \in holders[c]
    BY <1>0, <1>7 DEF SendDone, ConnInv, SendHolds, Busy
  <2>2. CASE Release(c, "callback", [io[c] EXCEPT !["send"] = "idle"])
    <3>1. /\ [io[c] EXCEPT !["send"] = "idle"] \in [Ops -> Status]
          /\ \A p \in PhaseOps : [io[c] EXCEPT !["send"] = "idle"][p] = io[c][p]
      BY <1>0, OpsFacts DEF CoreType, Status, PhaseOps
    <3> QED
      BY <1>0, <2>1, <2>2, <3>1, ReleaseReplies
  <2>3. ASSUME NEW s, io' = [io EXCEPT ![c]["send"] = s],
               UNCHANGED <<sock, armed, due, holders, request, called, replied>>
        PROVE  UNCHANGED Cycle!vars
    <3>1. \A d \in Conns : \A p \in PhaseOps : io'[d][p] = io[d][p]
      BY <1>0, <2>3 DEF CoreType, PhaseOps
    <3>2. \A d \in Conns : StageOf(d)' = StageOf(d)
      BY <1>0, <2>3, <3>1, SameStage
    <3> QED
      BY <2>3, <3>2, Stays
  <2> QED
    BY <1>7, <2>2, <2>3 DEF SendDone
<1>8. ASSUME NEW c \in Conns, ResourceReturns(c) \/ WorkerReturns(c)
      PROVE  Cycle!Reply(c) \/ UNCHANGED Cycle!vars
  BY <1>0, <1>8, ReleaseReplies DEF ResourceReturns, WorkerReturns, CoreType
<1>9. ASSUME NEW c \in Conns, HandOff(c) \/ Send(c) PROVE UNCHANGED Cycle!vars
  <2>1. /\ holders[c] # {} /\ UNCHANGED <<sock, called, replied>>
        /\ \E h \in Holders : holders' = [holders EXCEPT ![c] = @ \cup {h}]
        /\ io' = io \/ \E s : io' = [io EXCEPT ![c]["send"] = s]
    BY <1>9 DEF HandOff, Send, Holders
  <2>2. \A d \in Conns : \A p \in PhaseOps : io'[d][p] = io[d][p]
    <3>1. ASSUME NEW s, io' = [io EXCEPT ![c]["send"] = s]
          PROVE  \A d \in Conns : \A p \in PhaseOps : io'[d][p] = io[d][p]
      BY <1>0, <3>1 DEF CoreType, PhaseOps
    <3> QED
      BY <2>1, <3>1
  <2>3. \A d \in Conns : holders[d] = {} <=> holders'[d] = {}
    BY <1>0, <2>1 DEF CoreType
  <2>4. \A d \in Conns : StageOf(d)' = StageOf(d)
    BY <1>0, <2>1, <2>2, <2>3, SameStage
  <2> QED
    BY <2>1, <2>4, Stays
<1>10. ASSUME NEW c \in Conns, NEW op \in Ops, Complete(c, op) PROVE UNCHANGED Cycle!vars
  <2>1. PICK s \in {"ok", "failed"} : io' = [io EXCEPT ![c] = [@ EXCEPT ![op] = s]]
    BY <1>10 DEF Complete
  <2>2. io[c][op] = "pending" /\ UNCHANGED <<sock, holders, called, replied>>
    BY <1>10 DEF Complete
  <2>3. \A d \in Conns : \A p \in PhaseOps : io[d][p] = "idle" <=> io'[d][p] = "idle"
    BY <1>0, <2>1, <2>2, OpsFacts DEF CoreType
  <2>4. \A d \in Conns : StageOf(d)' = StageOf(d)
    BY <1>0, <2>2, <2>3, SameStage
  <2> QED
    BY <2>2, <2>4, Stays
<1>11. ASSUME NEW c \in Conns, NEW g \in Guards, Expire(c, g) PROVE UNCHANGED Cycle!vars
  <2>1. UNCHANGED <<sock, io, holders, called, replied>>
    BY <1>11 DEF Expire
  <2> QED
    BY <2>1, OthersStay, Stays
<1>12. ASSUME NEW c \in Conns, NEW g \in Guards, TimeoutHandler(c, g)
       PROVE  UNCHANGED Cycle!vars
  <2>1. /\ sock' = [sock EXCEPT ![c] = "closed"]
        /\ io' = [io EXCEPT ![c] = [op \in Ops |-> IF @[op] = "pending" THEN "failed" ELSE @[op]]]
        /\ UNCHANGED <<holders, called, replied>>
        /\ g \in due[c]
    BY <1>12 DEF TimeoutHandler
  <2>2. \A d \in Conns : sock[d] = "none" <=> sock'[d] = "none"
    BY <1>0, <2>1 DEF CoreType
  <2>3. \A d \in Conns : \A p \in PhaseOps : io[d][p] = "idle" <=> io'[d][p] = "idle"
    BY <1>0, <2>1, OpsFacts DEF CoreType
  <2>4. \A d \in Conns : StageOf(d)' = StageOf(d)
    BY <1>0, <2>1, <2>2, <2>3, SameStage
  <2> QED
    BY <2>1, <2>4, Stays
<1>13. CASE UNCHANGED vars
  BY <1>13, OthersStay, Stays DEF vars
<1> QED
  BY <1>1, <1>2, <1>3, <1>4, <1>5, <1>6, <1>7, <1>8, <1>9, <1>10, <1>11, <1>12, <1>13
     DEF Next, Handler, Resource, Cycle!Next

LEMMA CycleInit == Init => Cycle!Init /\ ServerInv
<1> SUFFICES ASSUME Init PROVE Cycle!Init /\ ServerInv
  OBVIOUS
<1>1. IInv /\ NewIsNotDue
  BY InitInv DEF Init, NewIsNotDue
<1>2. \A c \in Conns : StageOf(c) = "new"
  BY <1>1, StageNow DEF Init, StageIs
<1> QED
  BY <1>1, <1>2 DEF Init, ServerInv, Cycle!Init

(* Whatever the timers, the threads of the users and the peers do, every   *)
(* connection goes through the cycle of RequestCycle: a resource is called *)
(* once per request, its response goes out once, when the last holder of   *)
(* the shared_ptr let go, and the next request is read after that.         *)
THEOREM ServerImplementsCycle == Spec => ImplementsCycle
<1>1. Spec => []ServerInv
  <2>1. ServerInv /\ [Next]_vars => ServerInv'
    BY InvStep, NotDueStep DEF ServerInv
  <2> QED
    BY <2>1, CycleInit, PTL DEF Spec
<1> QED
  BY <1>1, CycleInit, CycleStep, PTL DEF Spec, ImplementsCycle, Cycle!Spec

(* AnswersFollowCalls relates the counts in one stage only; to keep it by  *)
(* every step of the cycle one has to say what they are in each.           *)
Counts(c) ==
  /\ StageOf(c) \in {"new", "receiving"} => called[c] = replied[c]
  /\ StageOf(c) \in {"serving", "replying"} => called[c] = replied[c] + 1
  /\ StageOf(c) = "over" => called[c] \in {replied[c], replied[c] + 1}

CountsInv == \A c \in Conns : Counts(c)

LEMMA MoveFacts ==
  ASSUME NEW c \in Conns, NEW from, NEW to, Cycle!Move(c, from, to)
  PROVE  /\ StageOf(c) = from /\ StageOf(c)' = to
         /\ \A d \in Conns : d # c => StageOf(d)' = StageOf(d)
<1>1. \A d \in Conns : StageOf(d)' = IF d = c THEN to ELSE StageOf(d)
  <2>1. [d \in Conns |-> StageOf(d)'] = [d \in Conns |-> IF d = c THEN to ELSE StageOf(d)]
    BY DEF Cycle!Move
  <2> QED
    BY <2>1
<1> QED
  BY <1>1 DEF Cycle!Move

LEMMA CountsStep ==
  ASSUME TypeOK, CountsInv, [Cycle!Next]_Cycle!vars
  PROVE  CountsInv'
<1> USE DEF TypeOK, CountsInv, Counts
<1>1. ASSUME NEW c \in Conns, Cycle!Open(c) PROVE CountsInv'
  BY <1>1, MoveFacts DEF Cycle!Open
<1>2. ASSUME NEW c \in Conns, Cycle!Call(c) PROVE CountsInv'
  BY <1>2, MoveFacts DEF Cycle!Call
<1>3. ASSUME NEW c \in Conns, Cycle!Reply(c) PROVE CountsInv'
  BY <1>3, MoveFacts DEF Cycle!Reply
<1>4. ASSUME NEW c \in Conns, Cycle!Replied(c) PROVE CountsInv'
  BY <1>4, MoveFacts DEF Cycle!Replied
<1>5. ASSUME NEW c \in Conns, Cycle!GiveUp(c) PROVE CountsInv'
  BY <1>5, MoveFacts DEF Cycle!GiveUp
<1>6. CASE UNCHANGED Cycle!vars
  <2>1. \A d \in Conns : StageOf(d)' = StageOf(d)
    <3>1. [d \in Conns |-> StageOf(d)'] = [d \in Conns |-> StageOf(d)]
      BY <1>6 DEF Cycle!vars
    <3> QED
      BY <3>1
  <2> QED
    BY <1>6, <2>1 DEF Cycle!vars
<1> QED
  BY <1>1, <1>2, <1>3, <1>4, <1>5, <1>6 DEF Cycle!Next

(* No request is answered twice, and none is read before the last one of   *)
(* its connection was answered.                                            *)
THEOREM ServerAnswersFollowCalls == Spec => []AnswersFollowCalls
<1>1. Init => CountsInv
  <2> SUFFICES ASSUME Init PROVE CountsInv
    OBVIOUS
  <2>1. \A c \in Conns : StageOf(c) = "new"
    BY InitInv, StageNow DEF Init, StageIs
  <2> QED
    BY <2>1 DEF Init, CountsInv, Counts
<1>2. CountsInv /\ TypeOK => AnswersFollowCalls
  <2> SUFFICES ASSUME CountsInv, TypeOK, NEW c \in Conns
               PROVE  /\ StageOf(c) = "receiving" => called[c] = replied[c]
                      /\ called[c] \in {replied[c], replied[c] + 1}
    BY DEF AnswersFollowCalls, Cycle!AnswersFollowCalls
  <2>1. StageOf(c) \in {"new", "receiving", "serving", "replying", "over"}
    BY DEF StageOf
  <2> QED
    BY <2>1 DEF CountsInv, Counts, TypeOK
<1>3. CountsInv /\ TypeOK /\ [Cycle!Next]_Cycle!vars => CountsInv'
  BY CountsStep
<1>4. Spec => [][Cycle!Next]_Cycle!vars
  BY ServerImplementsCycle, PTL DEF ImplementsCycle, Cycle!Spec
<1> QED
  BY <1>1, <1>2, <1>3, <1>4, TypeCorrect, PTL DEF Spec
=============================================================================
