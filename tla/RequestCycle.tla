----------------------------- MODULE RequestCycle -----------------------------
(***************************************************************************)
(* What a server promises of each connection (Simple-Web-Server README:    *)
(* "HTTP persistent connection"): requests are taken one after the other,  *)
(* each is given to a resource once, its response is handed to the network *)
(* once, after the resource is done with it, and only then is the next     *)
(* request read.  A connection may be given up at any point.               *)
(***************************************************************************)
EXTENDS Naturals

CONSTANT Conns

VARIABLES
  stage,    \* new, receiving, serving, replying or over
  called,   \* requests given to a resource
  replied   \* responses that went out

vars == <<stage, called, replied>>

Init ==
  /\ stage = [c \in Conns |-> "new"]
  /\ called = [c \in Conns |-> 0]
  /\ replied = [c \in Conns |-> 0]

Move(c, from, to) ==
  /\ stage[c] = from
  /\ stage' = [stage EXCEPT ![c] = to]

Open(c) == Move(c, "new", "receiving") /\ UNCHANGED <<called, replied>>

Call(c) ==
  /\ Move(c, "receiving", "serving")
  /\ called' = [called EXCEPT ![c] = @ + 1]
  /\ UNCHANGED replied

Reply(c) == Move(c, "serving", "replying") /\ UNCHANGED <<called, replied>>

\* The response went out: the next request is awaited, or it was the last.
Replied(c) ==
  /\ \E to \in {"receiving", "over"} : Move(c, "replying", to)
  /\ replied' = [replied EXCEPT ![c] = @ + 1]
  /\ UNCHANGED called

GiveUp(c) ==
  /\ \E from \in {"receiving", "replying"} : Move(c, from, "over")
  /\ UNCHANGED <<called, replied>>

Next == \E c \in Conns : Open(c) \/ Call(c) \/ Reply(c) \/ Replied(c) \/ GiveUp(c)

Spec == Init /\ [][Next]_vars

(* A request is answered at most once and before the next is taken: the    *)
(* two counts differ by the request in hand, or by the one given up.       *)
AnswersFollowCalls ==
  \A c \in Conns :
    /\ stage[c] = "receiving" => called[c] = replied[c]
    /\ called[c] \in {replied[c], replied[c] + 1}
=============================================================================
