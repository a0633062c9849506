------------------------------- MODULE HttpCalls -------------------------------
(***************************************************************************)
(* What a client and a server promise together: request() is called again  *)
(* only after it has returned or thrown; a resource is called at most once *)
(* for a request, and possibly after the client has given it up; what      *)
(* request() returns is the answer to this request.                        *)
(***************************************************************************)
EXTENDS Naturals

CONSTANT MaxRequests   \* bound: requests made

Requests == 1 .. MaxRequests

VARIABLES
  call,      \* of each request: none, open, returned, threw
  executed,  \* calls of a resource for each request
  answer     \* the request whose answer was returned, 0 is none

vars == <<call, executed, answer>>

Init ==
  /\ call = [i \in Requests |-> "none"]
  /\ executed = [i \in Requests |-> 0]
  /\ answer = [i \in Requests |-> 0]

Start(i) ==
  /\ call[i] = "none"
  /\ \A j \in 1 .. i - 1 : call[j] \in {"returned", "threw"}
  /\ call' = [call EXCEPT ![i] = "open"]
  /\ UNCHANGED <<executed, answer>>

Execute(i) ==
  /\ call[i] # "none" /\ executed[i] = 0
  /\ executed' = [executed EXCEPT ![i] = 1]
  /\ UNCHANGED <<call, answer>>

Return(i) ==
  /\ call[i] = "open" /\ executed[i] = 1
  /\ call' = [call EXCEPT ![i] = "returned"]
  /\ answer' = [answer EXCEPT ![i] = i]
  /\ UNCHANGED executed

Throw(i) ==
  /\ call[i] = "open"
  /\ call' = [call EXCEPT ![i] = "threw"]
  /\ UNCHANGED <<executed, answer>>

Next == \E i \in Requests : Start(i) \/ Execute(i) \/ Return(i) \/ Throw(i)

Spec == Init /\ [][Next]_vars
=============================================================================
