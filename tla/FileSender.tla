------------------------------ MODULE FileSender ------------------------------
(***************************************************************************)
(* The default resource of the examples and default_resource_send: a file  *)
(* is announced with its length when it is opened and then sent part by    *)
(* part.  Each part is read into one static buffer, copied to the Response *)
(* and sent; the callback of a full part reads the next one.  What was not *)
(* sent that way goes out when the last holder lets go of the Response.    *)
(*                                                                         *)
(* The connections of a server share the buffer.  The programs that write  *)
(* the files are not part of the server: a file may change while it is     *)
(* sent.  The phases of a connection are those of ServerConnection; here   *)
(* they carry the bytes.                                                   *)
(***************************************************************************)
EXTENDS Naturals, Sequences, SequencesExt, FiniteSets

CONSTANTS
  Conns,        \* connections
  Threads,      \* config.thread_pool_size
  PartSize,     \* bytes of the static buffer
  Files,        \* paths within the web root that can be opened
  Size,         \* the length of each file at first
  MaxRequests,  \* bound: requests on a connection
  MaxChanges    \* bound: changes of files

None == "none"

ASSUME ConstantsAssumption ==
  /\ IsFiniteSet(Conns)
  /\ None \notin Files
  /\ Threads \in Nat \ {0}
  /\ PartSize \in Nat \ {0}
  /\ Size \in [Files -> Nat]
  /\ MaxRequests \in Nat
  /\ MaxChanges \in Nat

VARIABLES
  size,      \* the length of each file
  changed,   \* the files that changed, in the order they did
  buffer,    \* the static buffer
  phase,     \* idle (reading a request), then one of the steps below; closed
  file,      \* the file that is sent, or none
  declared,  \* the Content-Length that was announced
  offset,    \* bytes read from the file
  got,       \* read_length
  streambuf, \* bytes of the body in the Response that are not sent
  sent,      \* bytes of the body that are sent
  requests   \* requests taken

connections == <<phase, file, declared, offset, got, streambuf, sent, requests>>

vars == <<size, changed, buffer, connections>>

\* Steps that occupy a thread: before a part is read, and after.
Running == {"reading", "read"}

\* Byte i of a file, or of the message of the 400 response.
Bytes(f, i, j) == [k \in 1 .. (IF j >= i THEN j - i + 1 ELSE 0) |-> <<f, i + k - 1>>]

Message == Bytes("message", 1, 1)

-----------------------------------------------------------------------------

Init ==
  /\ size = Size
  /\ changed = <<>>
  /\ buffer = [i \in 1 .. PartSize |-> <<None, 0>>]
  /\ phase = [c \in Conns |-> "idle"]
  /\ file = [c \in Conns |-> None]
  /\ declared = [c \in Conns |-> 0]
  /\ offset = [c \in Conns |-> 0]
  /\ got = [c \in Conns |-> 0]
  /\ streambuf = [c \in Conns |-> <<>>]
  /\ sent = [c \in Conns |-> <<>>]
  /\ requests = [c \in Conns |-> 0]

\* A mistake: any number of threads.
ThreadAlwaysFree == TRUE

\* A thread of the pool is free to run a handler.
ThreadFree == Cardinality({c \in Conns : phase[c] \in Running}) < Threads

Goes(c, p) == phase' = [phase EXCEPT ![c] = p]

\* A request that default_resource["GET"] takes.
Take(c, f) ==
  /\ phase[c] = "idle"
  /\ ThreadFree
  /\ requests[c] < MaxRequests
  /\ requests' = [requests EXCEPT ![c] = @ + 1]
  /\ file' = [file EXCEPT ![c] = f]
  /\ offset' = [offset EXCEPT ![c] = 0]
  /\ sent' = [sent EXCEPT ![c] = <<>>]
  /\ UNCHANGED <<size, changed, buffer, got>>

\* The file is there: its length at this moment is announced.
Open(c, f) ==
  /\ Take(c, f)
  /\ declared' = [declared EXCEPT ![c] = size[f]]
  /\ streambuf' = [streambuf EXCEPT ![c] = <<>>]
  /\ Goes(c, "reading")

\* The path is not there, is outside of the root or cannot be opened.
Refuse(c) ==
  /\ Take(c, None)
  /\ declared' = [declared EXCEPT ![c] = Len(Message)]
  /\ streambuf' = [streambuf EXCEPT ![c] = Message]
  /\ Goes(c, "final")

\* ifs->read(&buffer[0], buffer.size()).gcount()
ReadPart(c) ==
  /\ phase[c] = "reading"
  /\ LET left == IF size[file[c]] > offset[c] THEN size[file[c]] - offset[c] ELSE 0
         n    == IF left < PartSize THEN left ELSE PartSize
         part == Bytes(file[c], offset[c] + 1, offset[c] + n)
     IN  /\ buffer' = part \o SubSeq(buffer, n + 1, PartSize)
         /\ got' = [got EXCEPT ![c] = n]
         /\ offset' = [offset EXCEPT ![c] = @ + n]
  /\ Goes(c, "read")
  /\ UNCHANGED <<size, changed, file, declared, streambuf, sent, requests>>

\* A mistake: the first part is the last one.
EveryPartIsLast(n) == TRUE

\* A mistake: what was read is sent, if it is nothing too.
NoPartIsLast(n) == FALSE

\* A part that is not full is the last one, and so is none.
IsLast(n) == n # PartSize

\* response->write; a full part is sent, otherwise the function returns and
\* with it the last holder of the Response, which sends the rest.
WritePart(c) ==
  /\ phase[c] = "read"
  /\ streambuf' = [streambuf EXCEPT ![c] = @ \o SubSeq(buffer, 1, got[c])]
  /\ Goes(c, IF IsLast(got[c]) THEN "final" ELSE "sending")
  /\ UNCHANGED <<size, changed, buffer, file, declared, offset, got, sent, requests>>

-----------------------------------------------------------------------------
(* async_write and its callbacks *)

\* A mistake: what was sent stays in the stream buffer.
TransmitCopy(c, n) ==
  /\ sent' = [sent EXCEPT ![c] = @ \o SubSeq(streambuf[c], 1, n)]
  /\ UNCHANGED streambuf

Transmit(c, n) ==
  /\ sent' = [sent EXCEPT ![c] = @ \o SubSeq(streambuf[c], 1, n)]
  /\ streambuf' = [streambuf EXCEPT ![c] = SubSeq(@, n + 1, Len(@))]

\* All of the stream buffer was sent; the callback is queued.
SendDone(c) ==
  /\ phase[c] = "sending"
  /\ Transmit(c, Len(streambuf[c]))
  /\ Goes(c, "callback")
  /\ UNCHANGED <<size, changed, buffer, file, declared, offset, got, requests>>

\* default_resource_send(server, response, ifs)
Callback(c) ==
  /\ phase[c] = "callback"
  /\ ThreadFree
  /\ Goes(c, "reading")
  /\ UNCHANGED <<size, changed, buffer, file, declared, offset, got, streambuf, sent, requests>>

\* The final send is done and the connection takes another request.
FinalDone(c) ==
  /\ phase[c] = "final"
  /\ Transmit(c, Len(streambuf[c]))
  /\ Goes(c, "idle")
  /\ UNCHANGED <<size, changed, buffer, file, declared, offset, got, requests>>

\* "Connection interrupted": some of the bytes were sent, and as the socket
\* is of no use any more, neither the final send nor a read follows.
Interrupted(c) ==
  /\ phase[c] \in {"sending", "final"}
  /\ \E n \in 0 .. Len(streambuf[c]) : Transmit(c, n)
  /\ Goes(c, "closed")
  /\ UNCHANGED <<size, changed, buffer, file, declared, offset, got, requests>>

\* Somebody writes to a file, or cuts it.
Change(f) ==
  /\ Len(changed) < MaxChanges
  /\ changed' = Append(changed, f)
  /\ \E n \in {0, size[f] + 1} : size' = [size EXCEPT ![f] = n]
  /\ UNCHANGED <<buffer, connections>>

-----------------------------------------------------------------------------

Handler(c) == ReadPart(c) \/ WritePart(c)

Next ==
  \/ \E c \in Conns :
       \/ \E f \in Files : Open(c, f)
       \/ Refuse(c) \/ Handler(c) \/ Callback(c)
       \/ SendDone(c) \/ FinalDone(c) \/ Interrupted(c)
  \/ \E f \in Files : Change(f)

Spec == Init /\ [][Next]_vars

(* A handler goes on; the io_service serves its queue in turn; a send ends *)
(* one way or the other, by the timer of write_response at the latest.     *)
FairSpec ==
  /\ Spec
  /\ \A c \in Conns :
       /\ WF_vars(Handler(c))
       /\ SF_vars(Callback(c))
       /\ WF_vars(SendDone(c) \/ FinalDone(c) \/ Interrupted(c))

-----------------------------------------------------------------------------
(* Properties *)

TypeOK ==
  /\ size \in [Files -> Nat]
  /\ changed \in Seq(Files) /\ Len(changed) <= MaxChanges
  /\ Len(buffer) = PartSize
  /\ phase \in [Conns -> Running \cup {"idle", "sending", "callback", "final", "closed"}]
  /\ file \in [Conns -> Files \cup {None}]
  /\ declared \in [Conns -> Nat] /\ offset \in [Conns -> Nat]
  /\ got \in [Conns -> 0 .. PartSize]
  /\ \A c \in Conns : Len(streambuf[c]) <= PartSize
  /\ requests \in [Conns -> 0 .. MaxRequests]

Steady(c) == \A i \in DOMAIN changed : changed[i] # file[c]

Expected(c) == IF file[c] = None THEN Message ELSE Bytes(file[c], 1, declared[c])

(* "Safe when server is running on one thread" (the static buffer): what   *)
(* goes out of a file nobody writes to is at every moment the beginning of *)
(* that file, whatever other connections read into the buffer between two  *)
(* parts.                                                                  *)
PartsInOrder ==
  \A c \in Conns : Steady(c) => IsPrefix(sent[c] \o streambuf[c], Expected(c))

(* A connection that is kept for another request has sent exactly the      *)
(* bytes it announced: a file whose length is a multiple of a part, an     *)
(* empty one and a refusal included.  Else the client would take the rest  *)
(* for the next response, or wait for it.                                  *)
KeptWhenComplete ==
  \A c \in Conns : Steady(c) /\ phase[c] = "idle" /\ requests[c] > 0 =>
                      sent[c] = Expected(c)

(* The sending of a file ends, also of one that is an exact number of     *)
(* parts or that changes a number of times.                                *)
TransferEnds ==
  \A c \in Conns : phase[c] \in Running ~> phase[c] \in {"idle", "closed"}
=============================================================================
