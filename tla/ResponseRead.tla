------------------------------ MODULE ResponseRead ------------------------------
(***************************************************************************)
(* ClientBase::request_read and request_read_chunked (client_http.hpp), on *)
(* the bytes of one response: what is in the stream buffer, how many bytes *)
(* the next read asks for, and what has been put together of the body.     *)
(*                                                                         *)
(* Bytes arrive in any portions.  async_read_until may take more than the  *)
(* line it looks for, async_read takes exactly what it was asked for.      *)
(* Timers, errors and the socket are the matter of ClientEngine.  A peer   *)
(* that frames its response as its header says may stop anywhere.          *)
(*                                                                         *)
(* A symbol stands for one byte, except "H", which stands for the header   *)
(* up to its last line.                                                    *)
(***************************************************************************)
EXTENDS Integers, Sequences, SequencesExt, FiniteSetsExt

CONSTANTS
  Symbols,       \* bytes the body may hold; "CR", "LF" and digits among them
  Framings,      \* how the header says the body ends
  MaxChunks,     \* bound: chunks of a body, the last one not counted
  MaxChunkSize   \* bound: bytes of a chunk

Digits == <<"0", "1", "2", "3", "4", "5", "6", "7", "8", "9">>

ASSUME ConstantsAssumption ==
  /\ Symbols \subseteq {Digits[i] : i \in DOMAIN Digits} \cup {"CR", "LF", ";", "a", "b"}
  /\ Framings \subseteq {"length", "chunked", "close"}
  /\ MaxChunks \in Nat
  /\ MaxChunkSize \in 1 .. 9

VARIABLES
  framing,    \* of the response: length, chunked or close
  body,       \* the body the peer sends
  wire,       \* bytes sent and not received
  peer,       \* open, closed (after its last byte), cut (before)
  phase,      \* header, content, rest, line, data: what is being read; done, failed
  buffer,     \* response->content_buffer
  need,       \* bytes that async_read still has to transfer
  length,     \* of the chunk being read
  assembled   \* chunked_streambuf

vars == <<framing, body, wire, peer, phase, buffer, need, length, assembled>>

-----------------------------------------------------------------------------
(* The peer's encoding *)

CRLF == <<"CR", "LF">>

Chunk(data, extension) ==
  <<Digits[Len(data) + 1]>> \o extension \o CRLF \o data \o CRLF

Encoded(f, chunks, extension) ==
  LET Encode(d) == Chunk(d, extension)
  IN  <<"H">> \o CRLF \o CRLF \o
        IF f = "chunked"
        THEN FlattenSeq([i \in DOMAIN chunks |-> Encode(chunks[i])]) \o Chunk(<<>>, <<>>)
        ELSE FlattenSeq(chunks)

-----------------------------------------------------------------------------
(* Stream buffers *)

Drop(s, n) == SubSeq(s, n + 1, Len(s))

\* Where the first occurrence of a delimiter ends, as async_read_until says.
EndsOf(s, delimiter) ==
  {i \in Len(delimiter) .. Len(s) : SubSeq(s, i - Len(delimiter) + 1, i) = delimiter}

Found(s, delimiter) == EndsOf(s, delimiter) # {}

Transferred(s, delimiter) == Min(EndsOf(s, delimiter))

\* stol(line, 0, 16) of a line that begins with one digit.
LengthOf(line) == CHOOSE n \in 0 .. 9 : Digits[n + 1] = Head(line)

\* A mistake: "\r\n" after the data is not removed.
PostProcessKeepingCRLF(b, n) ==
  LET rest == Drop(b, n)
      all  == assembled \o SubSeq(b, 1, n)
  IN  /\ assembled' = all
      /\ IF n > 0 THEN phase' = "line" /\ buffer' = rest
                  ELSE phase' = "done" /\ buffer' = rest \o all

\* post_process: moves the data to chunked_streambuf, removes "\r\n" and
\* reads the next chunk, or puts the body behind what is left in the buffer.
PostProcess(b, n) ==
  LET rest == Drop(b, n + 2)
      all  == assembled \o SubSeq(b, 1, n)
  IN  /\ assembled' = all
      /\ IF n > 0 THEN phase' = "line" /\ buffer' = rest
                  ELSE phase' = "done" /\ buffer' = rest \o all

\* A mistake: what has been read with the line is forgotten.
MissingForgetful(n, additional) == n

\* A mistake: one byte too few is enough to read no more.
MissingAnyway(n, additional) == n - additional

\* The bytes that async_read has to transfer when n are wanted.
Missing(n, additional) == IF n > additional THEN n - additional ELSE 0

-----------------------------------------------------------------------------

Init ==
  /\ framing \in Framings
  /\ \E chunks \in SeqOf(SeqOf(Symbols, MaxChunkSize) \ {<<>>}, MaxChunks),
        extension \in {<<>>, <<";">>} :
       /\ body = FlattenSeq(chunks)
       /\ wire = Encoded(framing, chunks, extension)
  /\ peer = "open"
  /\ phase = "header"
  /\ buffer = <<>>
  /\ need = 0
  /\ length = 0
  /\ assembled = <<>>

\* request_read, the handler of the header.
HeaderDone ==
  /\ phase = "header"
  /\ Found(buffer, CRLF \o CRLF)
  /\ LET transferred == Transferred(buffer, CRLF \o CRLF)
         additional  == Len(buffer) - transferred
     IN  /\ buffer' = Drop(buffer, transferred)
         /\ \/ /\ framing = "length"
               /\ need' = Missing(Len(body), additional)
               /\ phase' = IF need' = 0 THEN "done" ELSE "content"
            \/ framing = "chunked" /\ phase' = "line" /\ UNCHANGED need
            \/ framing = "close" /\ phase' = "rest" /\ UNCHANGED need
  /\ UNCHANGED <<framing, body, wire, peer, length, assembled>>

ContentDone ==
  /\ phase = "content"
  /\ need = 0
  /\ phase' = "done"
  /\ UNCHANGED <<framing, body, wire, peer, buffer, need, length, assembled>>

\* request_read_chunked, the handler of a line.
LineDone ==
  /\ phase = "line"
  /\ Found(buffer, CRLF)
  /\ LET line       == Transferred(buffer, <<"LF">>)       \* what getline takes
         left       == Transferred(buffer, CRLF) - line
         content    == Drop(buffer, line)
         additional == Len(content) - left
     IN  /\ length' = LengthOf(buffer)
         /\ need' = Missing(2 + length', additional)
         /\ IF need' = 0
            THEN PostProcess(content, length')
            ELSE phase' = "data" /\ buffer' = content /\ UNCHANGED assembled
  /\ UNCHANGED <<framing, body, wire, peer>>

DataDone ==
  /\ phase = "data"
  /\ need = 0
  /\ PostProcess(buffer, length)
  /\ UNCHANGED <<framing, body, wire, peer, need, length>>

-----------------------------------------------------------------------------
(* The socket *)

\* The read under way has not got what it waits for.
Reading ==
  \/ phase = "header" /\ ~ Found(buffer, CRLF \o CRLF)
  \/ phase = "line" /\ ~ Found(buffer, CRLF)
  \/ phase \in {"content", "data"} /\ need # 0
  \/ phase = "rest"

Receive ==
  /\ Reading
  /\ \E n \in 1 .. Len(wire) :
       /\ buffer' = buffer \o SubSeq(wire, 1, n)
       /\ wire' = Drop(wire, n)
       /\ IF phase \in {"content", "data"} THEN n <= need /\ need' = need - n
                                           ELSE UNCHANGED need
  /\ UNCHANGED <<framing, body, peer, phase, length, assembled>>

\* The end of the stream is an error, except for the rest of the stream; a
\* peer that breaks off may have reset the connection, which is one anyway.
EndOfStream ==
  /\ Reading
  /\ peer # "open" /\ wire = <<>>
  /\ \/ phase = "rest" /\ phase' = "done"
     \/ (phase # "rest" \/ peer = "cut") /\ phase' = "failed"
  /\ UNCHANGED <<framing, body, wire, peer, buffer, need, length, assembled>>

PeerCloses ==
  /\ peer = "open"
  /\ \/ peer' = "closed" /\ UNCHANGED wire
     \/ peer' = "cut" /\ wire # <<>> /\ wire' = <<>>
  /\ UNCHANGED <<framing, body, phase, buffer, need, length, assembled>>

-----------------------------------------------------------------------------

Next ==
  \/ HeaderDone \/ ContentDone \/ LineDone \/ DataDone
  \/ Receive \/ EndOfStream \/ PeerCloses

Spec == Init /\ [][Next]_vars

(* What was sent arrives, handlers are called, and a peer that says so     *)
(* closes at the end.                                                      *)
FairSpec ==
  /\ Spec
  /\ WF_vars(HeaderDone) /\ WF_vars(ContentDone) /\ WF_vars(LineDone) /\ WF_vars(DataDone)
  /\ WF_vars(Receive) /\ WF_vars(EndOfStream)
  /\ WF_vars(framing = "close" /\ PeerCloses)

-----------------------------------------------------------------------------
(* Properties *)

TypeOK ==
  /\ framing \in Framings
  /\ peer \in {"open", "closed", "cut"}
  /\ phase \in {"header", "content", "rest", "line", "data", "done", "failed"}
  /\ need \in 0 .. 2 + MaxChunks * MaxChunkSize
  /\ length \in 0 .. MaxChunkSize
  /\ \A s \in {body, wire, buffer, assembled} :
       Range(s) \subseteq Symbols \cup {"H", "CR", "LF", ";"} \cup Range(Digits)

(* When request_read returns, the buffer holds the body and nothing else,  *)
(* however the bytes were cut into portions and whatever the data looks    *)
(* like; and nothing of the response is left for the next one to read.  A  *)
(* truncated body is taken for a whole one only if it had no framing.      *)
BodyDelivered ==
  phase = "done" =>
    IF framing = "close" /\ peer = "cut"
    THEN IsPrefix(buffer, body)
    ELSE buffer = body /\ wire = <<>>

(* The reader never waits for a byte that a correct response does not have *)
(* and fails only if the peer cut it short.                                *)
Finishes == <>(phase = "done" \/ (phase = "failed" /\ peer = "cut"))
=============================================================================
