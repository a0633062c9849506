---------------------------- MODULE FileSenderProofs ----------------------------
(***************************************************************************)
(* Proofs about FileSender, for any files, lengths and connections and any *)
(* size of a part.  With one thread, what a connection sends of a file is  *)
(* the file from its beginning, and what it announced when it is kept.     *)
(***************************************************************************)
EXTENDS FileSender, FiniteSetTheorems, SequenceTheorems, TLAPS

Names == Files \cup {None, "message"}
Byte  == Names \X Nat

(* The stream buffer is filled and emptied again between two phases; only  *)
(* the sending of a file gets to the steps that read it.                   *)
TypeInv ==
  /\ TypeOK
  /\ buffer \in Seq(Byte)
  /\ streambuf \in [Conns -> Seq(Byte)]
  /\ sent \in [Conns -> Seq(Byte)]
  /\ \A c \in Conns :
       /\ phase[c] \notin {"sending", "final", "closed"} => streambuf[c] = <<>>
       /\ phase[c] \in Running \cup {"sending", "callback"} => file[c] \in Files

\* The bytes that the resource has written.
Handed(c) == sent[c] \o streambuf[c]

\* How many those are of a file.
Done(c) == IF phase[c] = "read" THEN offset[c] - got[c] ELSE offset[c]

FlowNone(c) ==
  file[c] = None => Handed(c) = IF requests[c] = 0 THEN <<>> ELSE Message

(* Between the reading of a part and its writing the static buffer holds   *)
(* this part.                                                              *)
FlowFile(c) ==
  file[c] \in Files /\ Steady(c) =>
    /\ declared[c] = Size[file[c]]
    /\ offset[c] <= declared[c]
    /\ Done(c) \in Nat
    /\ Handed(c) = Bytes(file[c], 1, Done(c))
    /\ phase[c] \in {"idle", "final"} => offset[c] = declared[c]
    /\ phase[c] = "read" =>
         /\ SubSeq(buffer, 1, got[c]) = Bytes(file[c], Done(c) + 1, Done(c) + got[c])
         /\ got[c] = PartSize \/ offset[c] = declared[c]

OneRunning == \A c, d \in Conns : phase[c] \in Running /\ phase[d] \in Running => c = d

SizeKept == \A f \in Files : (\A i \in DOMAIN changed : changed[i] # f) => size[f] = Size[f]

FlowInv == OneRunning /\ SizeKept /\ \A c \in Conns : FlowNone(c) /\ FlowFile(c)

-----------------------------------------------------------------------------
(* Bytes of a file *)

LEMMA BytesFacts ==
  ASSUME NEW f \in Names, NEW o \in Nat, NEW n \in Nat
  PROVE  /\ Bytes(f, o + 1, o + n) \in Seq(Byte)
         /\ Len(Bytes(f, o + 1, o + n)) = n
         /\ \A k \in 1 .. n : Bytes(f, o + 1, o + n)[k] = <<f, o + k>>
<1> DEFINE b == [k \in 1 .. n |-> <<f, o + k>>]
<1>1. Bytes(f, o + 1, o + n) = b
  <2>1. (IF o + n >= o + 1 THEN (o + n) - (o + 1) + 1 ELSE 0) = n
    OBVIOUS
  <2>2. \A k \in 1 .. n : (o + 1) + k - 1 = o + k
    OBVIOUS
  <2> QED
    BY <2>1, <2>2 DEF Bytes
<1>2. b \in [1 .. n -> Byte]
  BY DEF Byte
<1>3. b \in Seq(Byte) /\ Len(b) = n
  BY <1>2
<1> QED
  BY <1>1, <1>3

LEMMA FirstBytes ==
  ASSUME NEW f \in Names, NEW n \in Nat
  PROVE  /\ Bytes(f, 1, n) \in Seq(Byte)
         /\ Len(Bytes(f, 1, n)) = n
         /\ \A k \in 1 .. n : Bytes(f, 1, n)[k] = <<f, k>>
<1>1. 0 + 1 = 1 /\ 0 + n = n /\ \A k \in 1 .. n : 0 + k = k
  OBVIOUS
<1>2. /\ Bytes(f, 0 + 1, 0 + n) \in Seq(Byte)
      /\ Len(Bytes(f, 0 + 1, 0 + n)) = n
      /\ \A k \in 1 .. n : Bytes(f, 0 + 1, 0 + n)[k] = <<f, 0 + k>>
  BY BytesFacts
<1> QED
  BY <1>1, <1>2

\* Two parts that follow one another.
LEMMA BytesJoin ==
  ASSUME NEW f \in Names, NEW o \in Nat, NEW n \in Nat
  PROVE  Bytes(f, 1, o) \o Bytes(f, o + 1, o + n) = Bytes(f, 1, o + n)
<1> DEFINE a == Bytes(f, 1, o)
           b == Bytes(f, o + 1, o + n)
           c == Bytes(f, 1, o + n)
<1>1. a \in Seq(Byte) /\ Len(a) = o /\ \A k \in 1 .. o : a[k] = <<f, k>>
  BY FirstBytes
<1>2. b \in Seq(Byte) /\ Len(b) = n /\ \A k \in 1 .. n : b[k] = <<f, o + k>>
  BY BytesFacts
<1>3. c \in Seq(Byte) /\ Len(c) = o + n /\ \A k \in 1 .. o + n : c[k] = <<f, k>>
  <2>1. o + n \in Nat
    OBVIOUS
  <2> QED
    BY <2>1, FirstBytes
<1> HIDE DEF a, b, c
<1>4. /\ a \o b \in Seq(Byte)
      /\ Len(a \o b) = o + n
      /\ \A k \in 1 .. o + n : (a \o b)[k] = IF k <= o THEN a[k] ELSE b[k - o]
  BY <1>1, <1>2, ConcatProperties
<1>5. \A k \in 1 .. o + n : (a \o b)[k] = c[k]
  <2> TAKE k \in 1 .. o + n
  <2>1. CASE k <= o
    <3>1. k \in 1 .. o
      BY <2>1
    <3> QED
      BY <1>1, <1>3, <1>4, <2>1, <3>1
  <2>2. CASE ~ k <= o
    <3>1. k - o \in 1 .. n /\ o + (k - o) = k
      BY <2>2
    <3> QED
      BY <1>2, <1>3, <1>4, <2>2, <3>1
  <2> QED
    BY <2>1, <2>2
<1>6. a \o b = c
  BY <1>3, <1>4, <1>5, SeqEqual
<1> QED
  BY <1>6 DEF a, b, c

\* The beginning of a file is a beginning of a longer one.
LEMMA BytesPrefix ==
  ASSUME NEW f \in Names, NEW n \in Nat, NEW m \in Nat, n <= m
  PROVE  IsPrefix(Bytes(f, 1, n), Bytes(f, 1, m))
<1> DEFINE a == Bytes(f, 1, n)
           b == Bytes(f, 1, m)
<1>1. a \in Seq(Byte) /\ Len(a) = n /\ \A k \in 1 .. n : a[k] = <<f, k>>
  BY FirstBytes
<1>2. b \in Seq(Byte) /\ Len(b) = m /\ \A k \in 1 .. m : b[k] = <<f, k>>
  BY FirstBytes
<1> HIDE DEF a, b
<1>3. \A k \in 1 .. n : a[k] \in Byte /\ b[k] \in Byte /\ a[k] = b[k]
  BY <1>1, <1>2
<1>4. SubSeq(a, 1, n) = SubSeq(b, 1, n)
  <2>1. /\ SubSeq(a, 1, n) \in Seq(Byte)
        /\ Len(SubSeq(a, 1, n)) = IF 1 <= n THEN n - 1 + 1 ELSE 0
        /\ \A k \in 1 .. n - 1 + 1 : SubSeq(a, 1, n)[k] = a[1 + k - 1]
    BY <1>3, SubSeqProperties
  <2>2. /\ SubSeq(b, 1, n) \in Seq(Byte)
        /\ Len(SubSeq(b, 1, n)) = IF 1 <= n THEN n - 1 + 1 ELSE 0
        /\ \A k \in 1 .. n - 1 + 1 : SubSeq(b, 1, n)[k] = b[1 + k - 1]
    BY <1>3, SubSeqProperties
  <2>3. (IF 1 <= n THEN n - 1 + 1 ELSE 0) = n /\ n - 1 + 1 = n /\ \A k \in 1 .. n : 1 + k - 1 = k
    OBVIOUS
  <2>4. \A k \in 1 .. n : SubSeq(a, 1, n)[k] = SubSeq(b, 1, n)[k]
    BY <1>3, <2>1, <2>2, <2>3
  <2> QED
    BY <2>1, <2>2, <2>3, <2>4, SeqEqual
<1>5. IsPrefix(a, b)
  BY <1>1, <1>2, <1>4 DEF IsPrefix
<1> QED
  BY <1>5 DEF a, b

LEMMA PrefixOfSelf ==
  ASSUME NEW s \in Seq(Byte)
  PROVE  IsPrefix(s, s) /\ IsPrefix(<<>>, s)
<1>1. SubSeq(<<>>, 1, 0) = <<>> /\ SubSeq(s, 1, 0) = <<>>
  BY SubSeqEmpty
<1>2. Len(s) \in Nat /\ Len(<<>>) = 0
  BY LenProperties
<1> QED
  BY <1>1, <1>2 DEF IsPrefix

LEMMA MessageTyped == Message \in Seq(Byte) /\ Len(Message) = 1
<1>1. "message" \in Names /\ 1 \in Nat
  BY DEF Names
<1> QED
  BY <1>1, FirstBytes DEF Message

-----------------------------------------------------------------------------
(* The buffers *)

LEMMA Regrouped ==
  ASSUME NEW s \in Seq(Byte), NEW t \in Seq(Byte), NEW u \in Seq(Byte)
  PROVE  (s \o t) \o u = s \o (t \o u)
BY ConcatAssociative

\* Sending moves bytes from the stream buffer behind those that were sent.
LEMMA Split ==
  ASSUME NEW s \in Seq(Byte), NEW t \in Seq(Byte), NEW n \in 0 .. Len(t)
  PROVE  /\ SubSeq(t, 1, n) \in Seq(Byte) /\ SubSeq(t, n + 1, Len(t)) \in Seq(Byte)
         /\ Len(SubSeq(t, n + 1, Len(t))) = Len(t) - n
         /\ s \o SubSeq(t, 1, n) \in Seq(Byte)
         /\ (s \o SubSeq(t, 1, n)) \o SubSeq(t, n + 1, Len(t)) = s \o t
         /\ n = Len(t) => SubSeq(t, n + 1, Len(t)) = <<>>
<1>1. Len(t) \in Nat /\ n \in Nat /\ n <= Len(t) /\ \A k \in 1 .. Len(t) : t[k] \in Byte
  BY LenProperties, ElementOfSeq
<1>2. (\A k \in 1 .. n : t[k] \in Byte) /\ (\A k \in n + 1 .. Len(t) : t[k] \in Byte)
  BY <1>1
<1>3. SubSeq(t, 1, n) \in Seq(Byte)
  BY <1>1, <1>2, SubSeqProperties
<1>4. /\ SubSeq(t, n + 1, Len(t)) \in Seq(Byte)
      /\ Len(SubSeq(t, n + 1, Len(t))) = IF n + 1 <= Len(t) THEN Len(t) - (n + 1) + 1 ELSE 0
  BY <1>1, <1>2, SubSeqProperties
<1>5. (IF n + 1 <= Len(t) THEN Len(t) - (n + 1) + 1 ELSE 0) = Len(t) - n
  BY <1>1
<1>6. SubSeq(t, 1, n) \o SubSeq(t, n + 1, Len(t)) = t
  <2>1. 1 \in 1 .. Len(t) + 1 /\ n \in 1 - 1 .. Len(t) /\ Len(t) \in n .. Len(t)
    BY <1>1
  <2>2. SubSeq(t, 1, n) \o SubSeq(t, n + 1, Len(t)) = SubSeq(t, 1, Len(t))
    BY <2>1, ConcatAdjacentSubSeq
  <2> QED
    BY <2>2, SubSeqFull
<1>7. s \o SubSeq(t, 1, n) \in Seq(Byte)
  BY <1>3, ConcatProperties
<1>8. (s \o SubSeq(t, 1, n)) \o SubSeq(t, n + 1, Len(t)) = s \o t
  <2> DEFINE u == SubSeq(t, 1, n)
             v == SubSeq(t, n + 1, Len(t))
  <2>1. u \in Seq(Byte) /\ v \in Seq(Byte) /\ u \o v = t
    BY <1>3, <1>4, <1>6
  <2> HIDE DEF u, v
  <2>2. (s \o u) \o v = s \o (u \o v)
    BY <2>1, Regrouped, Zenon
  <2>3. (s \o u) \o v = s \o t
    BY <2>1, <2>2
  <2> QED
    BY <2>3 DEF u, v
<1>9. n = Len(t) => SubSeq(t, n + 1, Len(t)) = <<>>
  <2> SUFFICES ASSUME n = Len(t) PROVE SubSeq(t, n + 1, n) = <<>>
    OBVIOUS
  <2>1. n + 1 \in Int /\ n \in Int /\ n < n + 1
    BY <1>1
  <2> QED
    BY <2>1, SubSeqEmpty
<1>10. Len(SubSeq(t, n + 1, Len(t))) = Len(t) - n
  <2> DEFINE l == Len(SubSeq(t, n + 1, Len(t)))
  <2>1. l = IF n + 1 <= Len(t) THEN Len(t) - (n + 1) + 1 ELSE 0
    BY <1>4
  <2> HIDE DEF l
  <2>2. l = Len(t) - n
    BY <1>5, <2>1
  <2> QED
    BY <2>2 DEF l
<1> QED
  BY <1>3, <1>4, <1>7, <1>8, <1>9, <1>10, Zenon

\* What a part that is read leaves of the buffer before it.
LEMMA BufferRead ==
  ASSUME NEW p \in Seq(Byte), NEW b \in Seq(Byte), Len(b) = PartSize, Len(p) <= PartSize
  PROVE  /\ p \o SubSeq(b, Len(p) + 1, PartSize) \in Seq(Byte)
         /\ Len(p \o SubSeq(b, Len(p) + 1, PartSize)) = PartSize
         /\ SubSeq(p \o SubSeq(b, Len(p) + 1, PartSize), 1, Len(p)) = p
<1> DEFINE n == Len(p)
           r == SubSeq(b, n + 1, PartSize)
<1>1. n \in Nat /\ PartSize \in Nat /\ n <= PartSize
  BY LenProperties, ConstantsAssumption
<1>2. r \in Seq(Byte) /\ Len(r) = PartSize - n
  <2>1. n \in 0 .. Len(b)
    BY <1>1
  <2> QED
    BY <2>1, Split
<1> HIDE DEF r
<1>3. /\ p \o r \in Seq(Byte) /\ Len(p \o r) = n + (PartSize - n)
      /\ \A k \in 1 .. n + (PartSize - n) : (p \o r)[k] = IF k <= n THEN p[k] ELSE r[k - n]
  BY <1>2, ConcatProperties
<1>4. n + (PartSize - n) = PartSize
  BY <1>1
<1>5. SubSeq(p \o r, 1, n) = p
  <2>1. CASE n = 0
    <3>1. p = <<>>
      BY <2>1, EmptySeq
    <3> QED
      BY <2>1, <3>1, SubSeqEmpty
  <2>2. CASE n # 0
    <3>1. 1 \in 1 .. n /\ n \in 1 .. n
      BY <1>1, <2>2
    <3>2. SubSeq(p \o r, 1, n) = SubSeq(p, 1, n)
      BY <1>2, <3>1, SubSeqOfConcat1
    <3> QED
      BY <3>2, SubSeqFull
  <2> QED
    BY <2>1, <2>2
<1> QED
  BY <1>3, <1>4, <1>5 DEF r

-----------------------------------------------------------------------------
(* Types *)

Phases == Running \cup {"idle", "sending", "callback", "final", "closed"}

\* The part of TypeInv that is about phases, files and bodies.
BodyInv ==
  /\ phase \in [Conns -> Phases]
  /\ file \in [Conns -> Files \cup {None}]
  /\ streambuf \in [Conns -> Seq(Byte)]
  /\ sent \in [Conns -> Seq(Byte)]
  /\ \A c \in Conns :
       /\ Len(streambuf[c]) <= PartSize
       /\ phase[c] \notin {"sending", "final", "closed"} => streambuf[c] = <<>>
       /\ phase[c] \in Running \cup {"sending", "callback"} => file[c] \in Files

NumberInv ==
  /\ size \in [Files -> Nat]
  /\ changed \in Seq(Files) /\ Len(changed) <= MaxChanges
  /\ buffer \in Seq(Byte) /\ Len(buffer) = PartSize
  /\ declared \in [Conns -> Nat] /\ offset \in [Conns -> Nat]
  /\ got \in [Conns -> 0 .. PartSize]
  /\ requests \in [Conns -> 0 .. MaxRequests]

LEMMA TypeInvIs == TypeInv <=> BodyInv /\ NumberInv
BY DEF TypeInv, TypeOK, BodyInv, NumberInv, Phases

LEMMA TypeInvIsAfter == TypeInv' <=> BodyInv' /\ NumberInv'
BY TypeInvIs, PTL

LEMMA BodyStep ==
  ASSUME BodyInv, NEW c \in Conns, NEW p \in Phases, NEW f \in Files \cup {None},
         NEW b \in Seq(Byte), NEW s \in Seq(Byte), Len(b) <= PartSize,
         p \notin {"sending", "final", "closed"} => b = <<>>,
         p \in Running \cup {"sending", "callback"} => f \in Files,
         phase' = [phase EXCEPT ![c] = p], file' = [file EXCEPT ![c] = f],
         streambuf' = [streambuf EXCEPT ![c] = b], sent' = [sent EXCEPT ![c] = s]
  PROVE  BodyInv'
<1>1. /\ phase' \in [Conns -> Phases] /\ file' \in [Conns -> Files \cup {None}]
      /\ streambuf' \in [Conns -> Seq(Byte)] /\ sent' \in [Conns -> Seq(Byte)]
  BY DEF BodyInv
<1>2. ASSUME NEW d \in Conns
      PROVE  /\ Len(streambuf'[d]) <= PartSize
             /\ phase'[d] \notin {"sending", "final", "closed"} => streambuf'[d] = <<>>
             /\ phase'[d] \in Running \cup {"sending", "callback"} => file'[d] \in Files
  <2>1. CASE d = c
    <3>1. phase'[d] = p /\ file'[d] = f /\ streambuf'[d] = b
      BY <2>1 DEF BodyInv
    <3> QED
      BY <3>1
  <2>2. CASE d # c
    <3>1. phase'[d] = phase[d] /\ file'[d] = file[d] /\ streambuf'[d] = streambuf[d]
      BY <2>2 DEF BodyInv
    <3> QED
      BY <3>1 DEF BodyInv
  <2> QED
    BY <2>1, <2>2
<1> QED
  BY <1>1, <1>2 DEF BodyInv

LEMMA TypeInit == Init => TypeInv
<1> SUFFICES ASSUME Init PROVE TypeInv
  OBVIOUS
<1>1. <<None, 0>> \in Byte
  BY DEF Byte, Names
<1>2. buffer \in Seq(Byte) /\ Len(buffer) = PartSize
  <2>1. buffer \in [1 .. PartSize -> Byte] /\ PartSize \in Nat
    BY <1>1, ConstantsAssumption DEF Init
  <2> QED
    BY <2>1
<1>3. BodyInv
  <2>1. Len(<<>>) <= PartSize /\ <<>> \in Seq(Byte)
    BY ConstantsAssumption
  <2> QED
    BY <2>1 DEF Init, BodyInv, Phases, Running
<1>4. NumberInv
  <2>1. 0 \in 0 .. PartSize /\ 0 \in 0 .. MaxRequests /\ <<>> \in Seq(Files) /\ Len(<<>>) <= MaxChanges
    BY ConstantsAssumption
  <2> QED
    BY <1>2, <2>1, ConstantsAssumption DEF Init, NumberInv
<1> QED
  BY <1>3, <1>4, TypeInvIs

LEMMA TakeNumbers ==
  ASSUME NumberInv, NEW c \in Conns, NEW f, Take(c, f),
         NEW n \in Nat, declared' = [declared EXCEPT ![c] = n]
  PROVE  NumberInv'
<1>1. requests' = [requests EXCEPT ![c] = requests[c] + 1] /\ requests[c] < MaxRequests
  BY DEF Take
<1>2. requests[c] + 1 \in 0 .. MaxRequests
  <2>1. requests[c] \in 0 .. MaxRequests /\ MaxRequests \in Nat
    BY ConstantsAssumption DEF NumberInv
  <2> QED
    BY <1>1, <2>1
<1>3. requests' \in [Conns -> 0 .. MaxRequests]
  BY <1>1, <1>2 DEF NumberInv
<1>4. offset' \in [Conns -> Nat] /\ declared' \in [Conns -> Nat]
  BY DEF NumberInv, Take
<1>5. UNCHANGED <<size, changed, buffer, got>>
  BY DEF Take
<1> QED
  BY <1>3, <1>4, <1>5 DEF NumberInv

LEMMA OpenTypes == ASSUME TypeInv, NEW c \in Conns, NEW f \in Files, Open(c, f) PROVE TypeInv'
<1>1. BodyInv /\ NumberInv
  BY TypeInvIs
<1>2. BodyInv'
  <2>1. <<>> \in Seq(Byte) /\ Len(<<>>) <= PartSize /\ "reading" \in Phases
    BY ConstantsAssumption DEF Phases, Running
  <2>2. /\ phase' = [phase EXCEPT ![c] = "reading"] /\ file' = [file EXCEPT ![c] = f]
        /\ streambuf' = [streambuf EXCEPT ![c] = <<>>] /\ sent' = [sent EXCEPT ![c] = <<>>]
    BY DEF Open, Take, Goes
  <2> QED
    BY <1>1, <2>1, <2>2, BodyStep
<1>3. NumberInv'
  <2>1. size[f] \in Nat
    BY <1>1 DEF NumberInv
  <2> QED
    BY <1>1, <2>1, TakeNumbers DEF Open
<1> QED
  BY <1>2, <1>3, TypeInvIsAfter

LEMMA RefuseTypes == ASSUME TypeInv, NEW c \in Conns, Refuse(c) PROVE TypeInv'
<1>1. BodyInv /\ NumberInv
  BY TypeInvIs
<1>2. BodyInv'
  <2>1. /\ <<>> \in Seq(Byte) /\ "final" \in Phases /\ None \in Files \cup {None}
        /\ "final" \notin Running \cup {"sending", "callback"}
    BY DEF Phases, Running
  <2>2. Message \in Seq(Byte) /\ Len(Message) <= PartSize
    BY MessageTyped, ConstantsAssumption
  <2>3. /\ phase' = [phase EXCEPT ![c] = "final"] /\ file' = [file EXCEPT ![c] = None]
        /\ streambuf' = [streambuf EXCEPT ![c] = Message] /\ sent' = [sent EXCEPT ![c] = <<>>]
    BY DEF Refuse, Take, Goes
  <2> QED
    BY <1>1, <2>1, <2>2, <2>3, BodyStep
<1>3. NumberInv'
  <2>1. Len(Message) \in Nat
    BY MessageTyped
  <2> QED
    BY <1>1, <2>1, TakeNumbers DEF Refuse
<1> QED
  BY <1>2, <1>3, TypeInvIsAfter

\* A step that changes a phase only.
LEMMA PhaseTypes ==
  ASSUME TypeInv, NEW c \in Conns, NEW p \in Phases, Goes(c, p),
         p \notin {"sending", "final", "closed"} => streambuf[c] = <<>>,
         p \in Running \cup {"sending", "callback"} => file[c] \in Files,
         UNCHANGED <<file, streambuf, sent>>
  PROVE  BodyInv'
<1>1. BodyInv
  BY TypeInvIs
<1>2. /\ file' = [file EXCEPT ![c] = file[c]] /\ streambuf' = [streambuf EXCEPT ![c] = streambuf[c]]
      /\ sent' = [sent EXCEPT ![c] = sent[c]]
  BY <1>1 DEF BodyInv
<1>3. /\ file[c] \in Files \cup {None} /\ streambuf[c] \in Seq(Byte) /\ sent[c] \in Seq(Byte)
      /\ Len(streambuf[c]) <= PartSize
  BY <1>1 DEF BodyInv
<1>4. phase' = [phase EXCEPT ![c] = p]
  BY DEF Goes
<1> QED
  BY <1>1, <1>2, <1>3, <1>4, BodyStep

(* What a read leaves: how much came, where it is from, and where it is.   *)
LEMMA ReadPartIs ==
  ASSUME TypeInv, NEW c \in Conns, ReadPart(c)
  PROVE  \E n \in 0 .. PartSize :
           /\ n = PartSize \/ offset[c] + n >= size[file[c]]
           /\ offset[c] <= size[file[c]] => offset[c] + n <= size[file[c]]
           /\ buffer' \in Seq(Byte) /\ Len(buffer') = PartSize
           /\ SubSeq(buffer', 1, n) = Bytes(file[c], offset[c] + 1, offset[c] + n)
           /\ got' = [got EXCEPT ![c] = n]
           /\ offset' = [offset EXCEPT ![c] = offset[c] + n]
<1> DEFINE o == offset[c]
           l == size[file[c]]
           left == IF l > o THEN l - o ELSE 0
           n == IF left < PartSize THEN left ELSE PartSize
           part == Bytes(file[c], o + 1, o + n)
<1>1. BodyInv /\ NumberInv
  BY TypeInvIs
<1>2. phase[c] = "reading" /\ file[c] \in Files
  BY <1>1 DEF ReadPart, BodyInv, Running
<1>3. o \in Nat /\ l \in Nat /\ PartSize \in Nat
  BY <1>1, <1>2, ConstantsAssumption DEF NumberInv
<1>4. /\ buffer' = part \o SubSeq(buffer, n + 1, PartSize)
      /\ got' = [got EXCEPT ![c] = n]
      /\ offset' = [offset EXCEPT ![c] = @ + n]
  BY DEF ReadPart
<1> HIDE DEF o, l
<1>5. n \in 0 .. PartSize /\ n \in Nat /\ (n = PartSize \/ o + n >= l) /\ (o <= l => o + n <= l)
  BY <1>3
<1> HIDE DEF n
<1>6. part \in Seq(Byte) /\ Len(part) = n
  BY <1>2, <1>3, <1>5, BytesFacts DEF Names
<1> HIDE DEF part
<1>7. buffer' \in Seq(Byte) /\ Len(buffer') = PartSize /\ SubSeq(buffer', 1, n) = part
  <2>1. buffer \in Seq(Byte) /\ Len(buffer) = PartSize /\ Len(part) <= PartSize
    BY <1>1, <1>5, <1>6 DEF NumberInv
  <2> QED
    BY <1>4, <1>6, <2>1, BufferRead
<1>8. offset' = [offset EXCEPT ![c] = o + n]
  BY <1>4 DEF o
<1> QED
  BY <1>4, <1>5, <1>7, <1>8 DEF o, l, part

LEMMA ReadPartTypes == ASSUME TypeInv, NEW c \in Conns, ReadPart(c) PROVE TypeInv'
<1>1. BodyInv /\ NumberInv
  BY TypeInvIs
<1>2. PICK n \in 0 .. PartSize :
        /\ buffer' \in Seq(Byte) /\ Len(buffer') = PartSize
        /\ got' = [got EXCEPT ![c] = n]
        /\ offset' = [offset EXCEPT ![c] = offset[c] + n]
  BY ReadPartIs
<1>3. BodyInv'
  <2>1. phase[c] = "reading" /\ Goes(c, "read") /\ UNCHANGED <<file, streambuf, sent>>
    BY DEF ReadPart
  <2>2. "read" \in Phases /\ streambuf[c] = <<>> /\ file[c] \in Files
    BY <1>1, <2>1 DEF BodyInv, Phases, Running
  <2> QED
    BY <2>1, <2>2, PhaseTypes
<1>4. NumberInv'
  <2>1. UNCHANGED <<size, changed, declared, requests>>
    BY DEF ReadPart
  <2>2. offset[c] + n \in Nat
    BY <1>1, ConstantsAssumption DEF NumberInv
  <2> QED
    BY <1>1, <1>2, <2>1, <2>2 DEF NumberInv
<1> QED
  BY <1>3, <1>4, TypeInvIsAfter

\* A part is copied to an empty stream buffer.
LEMMA WritePartIs ==
  ASSUME TypeInv, NEW c \in Conns, WritePart(c)
  PROVE  /\ streambuf' = [streambuf EXCEPT ![c] = SubSeq(buffer, 1, got[c])]
         /\ SubSeq(buffer, 1, got[c]) \in Seq(Byte)
         /\ Len(SubSeq(buffer, 1, got[c])) <= PartSize
         /\ streambuf[c] = <<>> /\ file[c] \in Files
<1>1. BodyInv /\ NumberInv
  BY TypeInvIs
<1>2. streambuf[c] = <<>> /\ file[c] \in Files
  BY <1>1 DEF WritePart, BodyInv, Running
<1>3. SubSeq(buffer, 1, got[c]) \in Seq(Byte) /\ Len(SubSeq(buffer, 1, got[c])) <= PartSize
  <2>1. got[c] \in 0 .. Len(buffer) /\ buffer \in Seq(Byte) /\ Len(buffer) = PartSize
    BY <1>1 DEF NumberInv
  <2>2. \A k \in 1 .. got[c] : buffer[k] \in Byte
    BY <2>1, ElementOfSeq
  <2>3. got[c] \in Int
    BY <1>1, ConstantsAssumption DEF NumberInv
  <2>4. /\ SubSeq(buffer, 1, got[c]) \in Seq(Byte)
        /\ Len(SubSeq(buffer, 1, got[c])) = IF 1 <= got[c] THEN got[c] - 1 + 1 ELSE 0
    BY <2>2, <2>3, SubSeqProperties
  <2>5. (IF 1 <= got[c] THEN got[c] - 1 + 1 ELSE 0) <= PartSize
    BY <2>1, <2>3, ConstantsAssumption
  <2> QED
    BY <2>4, <2>5
<1>4. streambuf' = [streambuf EXCEPT ![c] = SubSeq(buffer, 1, got[c])]
  <2>1. <<>> \o SubSeq(buffer, 1, got[c]) = SubSeq(buffer, 1, got[c])
    BY <1>3, ConcatEmptySeq
  <2>2. streambuf' = [streambuf EXCEPT ![c] = streambuf[c] \o SubSeq(buffer, 1, got[c])]
    BY DEF WritePart
  <2> QED
    BY <1>2, <2>1, <2>2
<1> QED
  BY <1>2, <1>3, <1>4

LEMMA WritePartTypes == ASSUME TypeInv, NEW c \in Conns, WritePart(c) PROVE TypeInv'
<1>1. BodyInv /\ NumberInv
  BY TypeInvIs
<1>2. PICK p \in {"final", "sending"} : phase' = [phase EXCEPT ![c] = p]
  BY DEF WritePart, Goes
<1>3. BodyInv'
  <2>1. /\ file' = [file EXCEPT ![c] = file[c]] /\ sent' = [sent EXCEPT ![c] = sent[c]]
        /\ file[c] \in Files \cup {None} /\ sent[c] \in Seq(Byte) /\ p \in Phases
    BY <1>1, <1>2 DEF WritePart, BodyInv, Phases
  <2> QED
    BY <1>1, <1>2, <2>1, WritePartIs, BodyStep
<1>4. NumberInv'
  BY <1>1 DEF WritePart, NumberInv
<1> QED
  BY <1>3, <1>4, TypeInvIsAfter

\* Sending leaves the body as it is.
LEMMA TransmitIs ==
  ASSUME TypeInv, NEW c \in Conns, NEW n \in 0 .. Len(streambuf[c]), Transmit(c, n)
  PROVE  \E s \in Seq(Byte), b \in Seq(Byte) :
           /\ sent' = [sent EXCEPT ![c] = s] /\ streambuf' = [streambuf EXCEPT ![c] = b]
           /\ s \o b = sent[c] \o streambuf[c]
           /\ Len(b) <= PartSize
           /\ n = Len(streambuf[c]) => b = <<>>
<1>1. BodyInv
  BY TypeInvIs
<1>2. sent[c] \in Seq(Byte) /\ streambuf[c] \in Seq(Byte) /\ Len(streambuf[c]) <= PartSize
  BY <1>1 DEF BodyInv
<1> DEFINE s == sent[c] \o SubSeq(streambuf[c], 1, n)
           b == SubSeq(streambuf[c], n + 1, Len(streambuf[c]))
<1>3. sent' = [sent EXCEPT ![c] = s] /\ streambuf' = [streambuf EXCEPT ![c] = b]
  BY DEF Transmit
<1>4. /\ s \in Seq(Byte) /\ b \in Seq(Byte) /\ s \o b = sent[c] \o streambuf[c]
      /\ Len(b) = Len(streambuf[c]) - n
      /\ n = Len(streambuf[c]) => b = <<>>
  BY <1>2, Split
<1> HIDE DEF s, b
<1>5. Len(b) <= PartSize
  <2>1. Len(streambuf[c]) \in Nat /\ n \in Nat /\ PartSize \in Nat
    BY <1>2, LenProperties, ConstantsAssumption
  <2> QED
    BY <1>2, <1>4, <2>1
<1> QED
  BY <1>3, <1>4, <1>5

LEMMA SendTypes ==
  ASSUME TypeInv, NEW c \in Conns, SendDone(c) \/ FinalDone(c) \/ Interrupted(c)
  PROVE  TypeInv'
<1>1. BodyInv /\ NumberInv
  BY TypeInvIs
<1>2. Len(streambuf[c]) \in 0 .. Len(streambuf[c])
  <2>1. streambuf[c] \in Seq(Byte)
    BY <1>1 DEF BodyInv
  <2>2. Len(streambuf[c]) \in Nat
    BY <2>1, LenProperties
  <2> QED
    BY <2>2
<1>3. PICK n \in 0 .. Len(streambuf[c]), p \in {"callback", "idle", "closed"} :
        /\ Transmit(c, n) /\ Goes(c, p)
        /\ p = "closed" \/ n = Len(streambuf[c])
        /\ p = "callback" => phase[c] = "sending"
  BY <1>2 DEF SendDone, FinalDone, Interrupted
<1>4. PICK s \in Seq(Byte), b \in Seq(Byte) :
        /\ sent' = [sent EXCEPT ![c] = s] /\ streambuf' = [streambuf EXCEPT ![c] = b]
        /\ Len(b) <= PartSize
        /\ n = Len(streambuf[c]) => b = <<>>
  BY <1>3, TransmitIs
<1>5. UNCHANGED <<size, changed, buffer, file, declared, offset, got, requests>>
  BY DEF SendDone, FinalDone, Interrupted
<1>6. BodyInv'
  <2>1. /\ file' = [file EXCEPT ![c] = file[c]] /\ file[c] \in Files \cup {None} /\ p \in Phases
        /\ phase' = [phase EXCEPT ![c] = p]
    BY <1>1, <1>3, <1>5 DEF BodyInv, Phases, Goes
  <2>2. p \in Running \cup {"sending", "callback"} => file[c] \in Files
    BY <1>1, <1>3 DEF BodyInv, Running
  <2>3. p \notin {"sending", "final", "closed"} => b = <<>>
    BY <1>3, <1>4
  <2> QED
    BY <1>1, <1>4, <2>1, <2>2, <2>3, BodyStep
<1>7. NumberInv'
  BY <1>1, <1>5 DEF NumberInv
<1> QED
  BY <1>6, <1>7, TypeInvIsAfter

LEMMA CallbackTypes == ASSUME TypeInv, NEW c \in Conns, Callback(c) PROVE TypeInv'
<1>1. BodyInv /\ NumberInv
  BY TypeInvIs
<1>2. /\ phase[c] = "callback" /\ Goes(c, "reading")
      /\ UNCHANGED <<size, changed, buffer, file, declared, offset, got, streambuf, sent, requests>>
  BY DEF Callback
<1>3. "reading" \in Phases /\ streambuf[c] = <<>> /\ file[c] \in Files
  BY <1>1, <1>2 DEF BodyInv, Phases, Running
<1>4. BodyInv'
  BY <1>2, <1>3, PhaseTypes
<1>5. NumberInv'
  BY <1>1, <1>2 DEF NumberInv
<1> QED
  BY <1>4, <1>5, TypeInvIsAfter

LEMMA ChangeTypes == ASSUME TypeInv, NEW f \in Files, Change(f) PROVE TypeInv'
<1>1. BodyInv /\ NumberInv
  BY TypeInvIs
<1>2. UNCHANGED <<buffer, phase, file, declared, offset, got, streambuf, sent, requests>>
  BY DEF Change, connections
<1>3. changed' \in Seq(Files) /\ Len(changed') <= MaxChanges
  <2>1. changed \in Seq(Files) /\ changed' = Append(changed, f) /\ Len(changed) < MaxChanges
    BY <1>1 DEF NumberInv, Change
  <2>2. changed' \in Seq(Files) /\ Len(changed') = Len(changed) + 1 /\ Len(changed) \in Nat
    BY <2>1, AppendProperties, LenProperties
  <2> QED
    BY <2>1, <2>2, ConstantsAssumption
<1>4. size' \in [Files -> Nat]
  <2>1. size \in [Files -> Nat]
    BY <1>1 DEF NumberInv
  <2>2. PICK n \in {0, size[f] + 1} : size' = [size EXCEPT ![f] = n]
    BY DEF Change
  <2>3. n \in Nat
    BY <2>1
  <2> QED
    BY <2>1, <2>2, <2>3
<1>5. BodyInv'
  BY <1>1, <1>2 DEF BodyInv
<1>6. NumberInv'
  BY <1>1, <1>2, <1>3, <1>4 DEF NumberInv
<1> QED
  BY <1>5, <1>6, TypeInvIsAfter

LEMMA TypeStep == TypeInv /\ [Next]_vars => TypeInv'
<1> SUFFICES ASSUME TypeInv, [Next]_vars PROVE TypeInv'
  OBVIOUS
<1>1. CASE UNCHANGED vars
  <2>1. BodyInv /\ NumberInv
    BY TypeInvIs
  <2>2. BodyInv' /\ NumberInv'
    BY <1>1, <2>1 DEF BodyInv, NumberInv, vars, connections
  <2> QED
    BY <2>2, TypeInvIsAfter
<1> QED
  BY <1>1, OpenTypes, RefuseTypes, ReadPartTypes, WritePartTypes, SendTypes, CallbackTypes, ChangeTypes
     DEF Next, Handler

(* The stream buffer holds one part at most: it is empty again when the    *)
(* next part is copied to it, however long the file is.                    *)
THEOREM SenderTypeCorrect == Spec => []TypeOK
<1>1. TypeInv => TypeOK
  BY DEF TypeInv
<1> QED
  BY TypeInit, TypeStep, <1>1, PTL DEF Spec

-----------------------------------------------------------------------------
(* One thread *)

LEMMA NobodyRuns ==
  ASSUME Threads = 1, ThreadFree
  PROVE  \A c \in Conns : phase[c] \notin Running
<1> DEFINE R == {c \in Conns : phase[c] \in Running}
<1>1. IsFiniteSet(R)
  BY ConstantsAssumption, FS_Subset
<1>2. Cardinality(R) < 1
  BY DEF ThreadFree
<1> HIDE DEF R
<1>3. Cardinality(R) \in Nat
  BY <1>1, FS_CardinalityType
<1>4. Cardinality(R) = 0
  BY <1>2, <1>3
<1>5. R = {}
  BY <1>1, <1>4, FS_EmptySet
<1> QED
  BY <1>5 DEF R

LEMMA OneRunningStep ==
  ASSUME Threads = 1, TypeInv, OneRunning, [Next]_vars
  PROVE  OneRunning'
<1>1. phase \in [Conns -> Phases]
  BY TypeInvIs DEF BodyInv
<1>2. CASE phase' = phase
  BY <1>2 DEF OneRunning
<1>3. ASSUME NEW c \in Conns, NEW p, Goes(c, p), ThreadFree \/ p \notin Running \/ phase[c] \in Running
      PROVE  OneRunning'
  <2>1. \A d \in Conns : phase'[d] = IF d = c THEN p ELSE phase[d]
    BY <1>1, <1>3 DEF Goes
  <2>2. CASE ThreadFree
    BY <2>1, <2>2, NobodyRuns DEF OneRunning
  <2>3. CASE p \notin Running \/ phase[c] \in Running
    BY <2>1, <2>3 DEF OneRunning
  <2> QED
    BY <1>3, <2>2, <2>3
<1>4. ASSUME NEW c \in Conns,
             \/ \E f \in Files : Open(c, f)
             \/ Refuse(c) \/ Callback(c)
      PROVE  \E p : Goes(c, p) /\ ThreadFree
  BY <1>4 DEF Open, Refuse, Take, Callback
<1>5. ASSUME NEW c \in Conns, SendDone(c) \/ FinalDone(c) \/ Interrupted(c)
      PROVE  \E p : Goes(c, p) /\ p \notin Running
  BY <1>5 DEF SendDone, FinalDone, Interrupted, Running
<1>6. ASSUME NEW c \in Conns, Handler(c)
      PROVE  \E p : Goes(c, p) /\ phase[c] \in Running
  BY <1>6 DEF Handler, ReadPart, WritePart, Running
<1>7. ASSUME (\E f \in Files : Change(f)) \/ UNCHANGED vars PROVE phase' = phase
  BY <1>7 DEF Change, connections, vars
<1> QED
  BY <1>2, <1>3, <1>4, <1>5, <1>6, <1>7 DEF Next

\* A file that changed stays in the list.
LEMMA ChangedGrows ==
  ASSUME TypeInv, NEW f \in Files, Change(f), NEW g, \A i \in DOMAIN changed' : changed'[i] # g
  PROVE  g # f /\ \A i \in DOMAIN changed : changed[i] # g
<1>1. changed \in Seq(Files) /\ changed' = Append(changed, f)
  BY TypeInvIs DEF NumberInv, Change
<1>2. /\ Len(changed') = Len(changed) + 1
      /\ \A i \in 1 .. Len(changed) : changed'[i] = changed[i]
      /\ changed'[Len(changed) + 1] = f
      /\ changed' \in Seq(Files)
  BY <1>1, AppendProperties
<1>3. /\ DOMAIN changed = 1 .. Len(changed) /\ DOMAIN changed' = 1 .. Len(changed')
      /\ Len(changed) \in Nat
  BY <1>1, <1>2, LenProperties
<1>4. Len(changed) + 1 \in DOMAIN changed' /\ 1 .. Len(changed) \subseteq DOMAIN changed'
  BY <1>2, <1>3
<1> QED
  BY <1>2, <1>3, <1>4

LEMMA SizeKeptStep ==
  ASSUME TypeInv, SizeKept, [Next]_vars
  PROVE  SizeKept'
<1>1. CASE UNCHANGED <<size, changed>>
  BY <1>1 DEF SizeKept
<1>2. ASSUME NEW f \in Files, Change(f) PROVE SizeKept'
  <2>1. size \in [Files -> Nat]
    BY TypeInvIs DEF NumberInv
  <2>2. \A g \in Files : g # f => size'[g] = size[g]
    BY <1>2, <2>1 DEF Change
  <2> QED
    BY <1>2, <2>2, ChangedGrows DEF SizeKept
<1>3. (\E f \in Files : Change(f)) \/ UNCHANGED <<size, changed>>
  BY DEF Next, Open, Refuse, Take, Handler, ReadPart, WritePart, Callback, SendDone, FinalDone,
         Interrupted, vars
<1> QED
  BY <1>1, <1>2, <1>3

-----------------------------------------------------------------------------
(* What is sent *)

LEMMA NoBytes == ASSUME NEW f \in Names PROVE Bytes(f, 1, 0) = <<>>
<1>1. Bytes(f, 1, 0) \in Seq(Byte) /\ Len(Bytes(f, 1, 0)) = 0
  BY FirstBytes
<1> QED
  BY <1>1, EmptySeq

Flows(c) == FlowNone(c) /\ FlowFile(c)

\* The step does nothing to the connection, nor to a part of it in the buffer.
LEMMA OtherFlows ==
  ASSUME NEW d \in Conns, Flows(d), changed' = changed,
         phase'[d] = phase[d] /\ file'[d] = file[d] /\ declared'[d] = declared[d],
         offset'[d] = offset[d] /\ got'[d] = got[d] /\ requests'[d] = requests[d],
         streambuf'[d] = streambuf[d] /\ sent'[d] = sent[d],
         buffer' = buffer \/ phase[d] # "read"
  PROVE  Flows(d)'
<1>1. Handed(d)' = Handed(d) /\ Done(d)' = Done(d) /\ Steady(d)' = Steady(d)
  BY DEF Handed, Done, Steady
<1>2. FlowNone(d)'
  BY <1>1 DEF Flows, FlowNone
<1>3. FlowFile(d)'
  <2>1. CASE buffer' = buffer
    BY <1>1, <2>1 DEF Flows, FlowFile
  <2>2. CASE phase[d] # "read"
    BY <1>1, <2>2 DEF Flows, FlowFile
  <2> QED
    BY <2>1, <2>2
<1> QED
  BY <1>2, <1>3 DEF Flows

LEMMA OpenFlows ==
  ASSUME TypeInv, FlowInv, NEW c \in Conns, NEW f \in Files, Open(c, f)
  PROVE  Flows(c)'
<1>1. BodyInv /\ NumberInv
  BY TypeInvIs
<1>2. /\ phase'[c] = "reading" /\ file'[c] = f /\ declared'[c] = size[f] /\ offset'[c] = 0
      /\ sent'[c] = <<>> /\ streambuf'[c] = <<>> /\ changed' = changed
  BY <1>1 DEF Open, Take, Goes, BodyInv, NumberInv
<1>3. f # None /\ f \in Names
  BY ConstantsAssumption DEF Names
<1>4. Handed(c)' = <<>> /\ Done(c)' = 0
  <2>1. <<>> \o <<>> = <<>>
    BY ConcatEmptySeq, EmptySeq
  <2> QED
    BY <1>2, <2>1 DEF Handed, Done
<1>5. FlowNone(c)'
  BY <1>2, <1>3 DEF FlowNone
<1>6. FlowFile(c)'
  <2> SUFFICES ASSUME Steady(c)' PROVE FlowFile(c)'
    BY DEF FlowFile
  <2>1. size[f] = Size[f]
    BY <1>2 DEF Steady, FlowInv, SizeKept
  <2>2. 0 <= size[f]
    BY <1>1 DEF NumberInv
  <2> QED
    BY <1>2, <1>3, <1>4, <2>1, <2>2, NoBytes DEF FlowFile
<1> QED
  BY <1>5, <1>6 DEF Flows

LEMMA RefuseFlows ==
  ASSUME TypeInv, FlowInv, NEW c \in Conns, Refuse(c)
  PROVE  Flows(c)'
<1>1. BodyInv /\ NumberInv
  BY TypeInvIs
<1>2. /\ file'[c] = None /\ sent'[c] = <<>> /\ streambuf'[c] = Message
      /\ requests'[c] = requests[c] + 1
  BY <1>1 DEF Refuse, Take, BodyInv, NumberInv
<1>3. requests'[c] # 0
  <2>1. requests[c] \in 0 .. MaxRequests
    BY <1>1 DEF NumberInv
  <2> QED
    BY <1>2, <2>1
<1>4. Handed(c)' = Message
  BY <1>2, MessageTyped, ConcatEmptySeq DEF Handed
<1> QED
  BY <1>2, <1>3, <1>4, ConstantsAssumption DEF Flows, FlowNone, FlowFile, Message, Bytes

LEMMA ReadPartFlows ==
  ASSUME TypeInv, FlowInv, NEW c \in Conns, ReadPart(c)
  PROVE  Flows(c)'
<1>1. BodyInv /\ NumberInv
  BY TypeInvIs
<1>2. PICK n \in 0 .. PartSize :
        /\ n = PartSize \/ offset[c] + n >= size[file[c]]
        /\ offset[c] <= size[file[c]] => offset[c] + n <= size[file[c]]
        /\ SubSeq(buffer', 1, n) = Bytes(file[c], offset[c] + 1, offset[c] + n)
        /\ got' = [got EXCEPT ![c] = n]
        /\ offset' = [offset EXCEPT ![c] = offset[c] + n]
  BY ReadPartIs
<1>3. /\ phase[c] = "reading" /\ phase'[c] = "read" /\ got'[c] = n /\ offset'[c] = offset[c] + n
      /\ UNCHANGED <<size, changed, file, declared, streambuf, sent, requests>>
  BY <1>1, <1>2 DEF ReadPart, Goes, BodyInv, NumberInv
<1>4. file[c] \in Files /\ file[c] # None
  BY <1>1, <1>3, ConstantsAssumption DEF BodyInv, Running
<1>5. offset[c] \in Nat /\ n \in Nat /\ size[file[c]] \in Nat
  BY <1>1, <1>2, <1>4, ConstantsAssumption DEF NumberInv
<1>6. Done(c) = offset[c] /\ Done(c)' = offset[c]
  <2>1. (offset[c] + n) - n = offset[c]
    BY <1>5
  <2> QED
    BY <1>3, <2>1 DEF Done
<1>7. Handed(c)' = Handed(c) /\ Steady(c)' = Steady(c)
  BY <1>3 DEF Handed, Steady
<1>8. FlowNone(c)'
  BY <1>3, <1>4 DEF FlowNone
<1>9. FlowFile(c)'
  <2> SUFFICES ASSUME Steady(c) PROVE FlowFile(c)'
    BY <1>7 DEF FlowFile
  <2>1. /\ declared[c] = Size[file[c]] /\ offset[c] <= declared[c]
        /\ Handed(c) = Bytes(file[c], 1, offset[c])
    BY <1>4, <1>6 DEF FlowInv, FlowFile
  <2>2. size[file[c]] = declared[c]
    BY <1>4, <2>1 DEF FlowInv, SizeKept, Steady
  <2>3. offset[c] + n <= declared[c] /\ (n = PartSize \/ offset[c] + n = declared[c])
    BY <1>2, <1>5, <2>1, <2>2
  <2> QED
    BY <1>2, <1>3, <1>5, <1>6, <1>7, <2>1, <2>3 DEF FlowFile
<1> QED
  BY <1>8, <1>9 DEF Flows

LEMMA WritePartFlows ==
  ASSUME TypeInv, FlowInv, NEW c \in Conns, WritePart(c)
  PROVE  Flows(c)'
<1>1. BodyInv /\ NumberInv
  BY TypeInvIs
<1> DEFINE part == SubSeq(buffer, 1, got[c])
<1>2. /\ phase[c] = "read" /\ phase'[c] = (IF got[c] # PartSize THEN "final" ELSE "sending")
      /\ UNCHANGED <<changed, buffer, file, declared, offset, got, sent, requests>>
  BY <1>1 DEF WritePart, Goes, IsLast, BodyInv
<1>3. streambuf[c] = <<>> /\ file[c] \in Files /\ streambuf'[c] = part
  BY <1>1, WritePartIs DEF BodyInv
<1>4. file[c] # None /\ file[c] \in Names /\ offset[c] \in Nat /\ got[c] \in Nat /\ sent[c] \in Seq(Byte)
  BY <1>1, <1>3, ConstantsAssumption DEF BodyInv, NumberInv, Names
<1>5. FlowNone(c)'
  BY <1>2, <1>4 DEF FlowNone
<1>6. FlowFile(c)'
  <2> SUFFICES ASSUME Steady(c) PROVE FlowFile(c)'
    BY <1>2 DEF FlowFile, Steady
  <2>1. /\ declared[c] = Size[file[c]] /\ offset[c] <= declared[c]
        /\ Done(c) \in Nat /\ Handed(c) = Bytes(file[c], 1, Done(c))
        /\ part = Bytes(file[c], Done(c) + 1, Done(c) + got[c])
        /\ got[c] = PartSize \/ offset[c] = declared[c]
    BY <1>2, <1>3 DEF FlowInv, FlowFile
  <2>2. Done(c) + got[c] = offset[c]
    <3>1. Done(c) = offset[c] - got[c]
      BY <1>2 DEF Done
    <3> QED
      BY <1>4, <3>1
  <2>3. Handed(c)' = Bytes(file[c], 1, offset[c])
    <3>1. Handed(c) = sent[c]
      BY <1>3, <1>4, ConcatEmptySeq DEF Handed
    <3>2. Handed(c)' = Bytes(file[c], 1, Done(c)) \o Bytes(file[c], Done(c) + 1, Done(c) + got[c])
      BY <1>2, <1>3, <2>1, <3>1 DEF Handed
    <3> QED
      BY <1>4, <2>1, <2>2, <3>2, BytesJoin
  <2>4. Done(c)' = offset[c]
    BY <1>2 DEF Done
  <2>5. phase'[c] = "final" => offset[c] = declared[c]
    BY <1>2, <2>1
  <2> QED
    BY <1>2, <1>4, <2>1, <2>3, <2>4, <2>5 DEF FlowFile
<1> QED
  BY <1>5, <1>6 DEF Flows

LEMMA SendFlows ==
  ASSUME TypeInv, FlowInv, NEW c \in Conns, SendDone(c) \/ FinalDone(c) \/ Interrupted(c)
  PROVE  Flows(c)'
<1>1. BodyInv /\ NumberInv
  BY TypeInvIs
<1>2. Len(streambuf[c]) \in 0 .. Len(streambuf[c])
  <2>1. streambuf[c] \in Seq(Byte)
    BY <1>1 DEF BodyInv
  <2>2. Len(streambuf[c]) \in Nat
    BY <2>1, LenProperties
  <2> QED
    BY <2>2
<1>3. PICK n \in 0 .. Len(streambuf[c]) : Transmit(c, n)
  BY <1>2 DEF SendDone, FinalDone, Interrupted
<1>4. /\ phase[c] \in {"sending", "final"} /\ phase'[c] \in {"callback", "idle", "closed"}
      /\ phase'[c] = "idle" => phase[c] = "final"
      /\ UNCHANGED <<size, changed, buffer, file, declared, offset, got, requests>>
  BY <1>1 DEF SendDone, FinalDone, Interrupted, Goes, BodyInv
<1>5. Handed(c)' = Handed(c)
  <2>1. PICK s \in Seq(Byte), b \in Seq(Byte) :
          /\ sent' = [sent EXCEPT ![c] = s] /\ streambuf' = [streambuf EXCEPT ![c] = b]
          /\ s \o b = sent[c] \o streambuf[c]
    BY <1>3, TransmitIs
  <2>2. sent'[c] = s /\ streambuf'[c] = b
    BY <1>1, <2>1 DEF BodyInv
  <2> QED
    BY <2>1, <2>2 DEF Handed
<1>6. Done(c)' = Done(c) /\ Steady(c)' = Steady(c)
  BY <1>4 DEF Done, Steady
<1>7. FlowNone(c)'
  BY <1>4, <1>5 DEF FlowInv, FlowNone
<1>8. FlowFile(c)'
  BY <1>4, <1>5, <1>6 DEF FlowInv, FlowFile
<1> QED
  BY <1>7, <1>8 DEF Flows

LEMMA CallbackFlows ==
  ASSUME TypeInv, FlowInv, NEW c \in Conns, Callback(c)
  PROVE  Flows(c)'
<1>1. /\ phase[c] = "callback" /\ phase'[c] = "reading"
      /\ UNCHANGED <<changed, buffer, file, declared, offset, got, streambuf, sent, requests>>
  BY TypeInvIs DEF Callback, Goes, BodyInv
<1>2. Handed(c)' = Handed(c) /\ Done(c)' = Done(c) /\ Steady(c)' = Steady(c)
  BY <1>1 DEF Handed, Done, Steady
<1> QED
  BY <1>1, <1>2 DEF Flows, FlowInv, FlowNone, FlowFile

\* Somebody writes to a file: less is steady than before.
LEMMA ChangeFlows ==
  ASSUME TypeInv, FlowInv, NEW c \in Conns, NEW f \in Files, Change(f)
  PROVE  Flows(c)'
<1>1. UNCHANGED <<buffer, phase, file, declared, offset, got, streambuf, sent, requests>>
  BY DEF Change, connections
<1>2. Handed(c)' = Handed(c) /\ Done(c)' = Done(c)
  BY <1>1 DEF Handed, Done
<1>3. Steady(c)' => Steady(c)
  <2> SUFFICES ASSUME Steady(c)' PROVE Steady(c)
    OBVIOUS
  <2>1. \A i \in DOMAIN changed' : changed'[i] # file[c]
    BY <1>1 DEF Steady
  <2> QED
    BY <2>1, ChangedGrows DEF Steady
<1>4. FlowNone(c) /\ FlowFile(c)
  BY DEF FlowInv
<1>5. FlowNone(c)'
  BY <1>1, <1>2, <1>4 DEF FlowNone
<1>6. FlowFile(c)'
  BY <1>1, <1>2, <1>3, <1>4 DEF FlowFile
<1> QED
  BY <1>5, <1>6 DEF Flows

\* A step of a connection leaves the others alone.
LEMMA StepIsLocal ==
  ASSUME TypeInv, NEW c \in Conns,
         \/ \E f \in Files : Open(c, f)
         \/ Refuse(c) \/ Handler(c) \/ Callback(c)
         \/ SendDone(c) \/ FinalDone(c) \/ Interrupted(c),
         NEW d \in Conns, d # c
  PROVE  /\ changed' = changed
         /\ phase'[d] = phase[d] /\ file'[d] = file[d] /\ declared'[d] = declared[d]
         /\ offset'[d] = offset[d] /\ got'[d] = got[d] /\ requests'[d] = requests[d]
         /\ streambuf'[d] = streambuf[d] /\ sent'[d] = sent[d]
         /\ buffer' = buffer \/ phase[c] = "reading"
<1>1. BodyInv /\ NumberInv
  BY TypeInvIs
<1>2. CASE (\E f \in Files : Open(c, f)) \/ Refuse(c)
  BY <1>1, <1>2 DEF Open, Refuse, Take, Goes, BodyInv, NumberInv
<1>3. CASE Handler(c)
  BY <1>1, <1>3 DEF Handler, ReadPart, WritePart, Goes, BodyInv, NumberInv
<1>4. CASE Callback(c)
  BY <1>1, <1>4 DEF Callback, Goes, BodyInv, NumberInv
<1>5. CASE SendDone(c) \/ FinalDone(c) \/ Interrupted(c)
  BY <1>1, <1>5 DEF SendDone, FinalDone, Interrupted, Transmit, Goes, BodyInv, NumberInv
<1> QED
  BY <1>2, <1>3, <1>4, <1>5

LEMMA ActorFlows ==
  ASSUME TypeInv, FlowInv, NEW c \in Conns,
         \/ \E f \in Files : Open(c, f)
         \/ Refuse(c) \/ Handler(c) \/ Callback(c)
         \/ SendDone(c) \/ FinalDone(c) \/ Interrupted(c)
  PROVE  Flows(c)'
BY OpenFlows, RefuseFlows, ReadPartFlows, WritePartFlows, SendFlows, CallbackFlows DEF Handler

LEMMA FlowInvAfter == FlowInv' <=> OneRunning' /\ SizeKept' /\ \A c \in Conns : Flows(c)'
BY DEF FlowInv, Flows

(* Two connections meet in the buffer only.  A part is read to it by a     *)
(* connection that runs, so no other one is between its reading and its    *)
(* writing of a part.                                                      *)
LEMMA FlowStep ==
  ASSUME Threads = 1, TypeInv, FlowInv, [Next]_vars
  PROVE  FlowInv'
<1>1. OneRunning' /\ SizeKept'
  BY OneRunningStep, SizeKeptStep DEF FlowInv
<1>2. ASSUME NEW d \in Conns PROVE Flows(d)'
  <2>1. Flows(d)
    BY DEF FlowInv, Flows
  <2>2. CASE UNCHANGED vars
    BY <2>1, <2>2, OtherFlows DEF vars, connections
  <2>3. ASSUME NEW f \in Files, Change(f) PROVE Flows(d)'
    BY <2>3, ChangeFlows
  <2>4. ASSUME NEW c \in Conns,
               \/ \E f \in Files : Open(c, f)
               \/ Refuse(c) \/ Handler(c) \/ Callback(c)
               \/ SendDone(c) \/ FinalDone(c) \/ Interrupted(c)
        PROVE  Flows(d)'
    <3>1. CASE d = c
      BY <2>4, <3>1, ActorFlows
    <3>2. CASE d # c
      <4>1. phase[c] = "reading" => phase[d] # "read"
        BY <3>2 DEF FlowInv, OneRunning, Running
      <4> QED
        BY <2>1, <2>4, <3>2, <4>1, StepIsLocal, OtherFlows
    <3> QED
      BY <3>1, <3>2
  <2> QED
    BY <2>2, <2>3, <2>4 DEF Next
<1> QED
  BY <1>1, <1>2, FlowInvAfter

LEMMA FlowInit == Init => FlowInv
<1> SUFFICES ASSUME Init PROVE FlowInv
  OBVIOUS
<1>1. OneRunning /\ SizeKept
  BY DEF Init, OneRunning, SizeKept, Running
<1>2. ASSUME NEW c \in Conns PROVE FlowNone(c) /\ FlowFile(c)
  <2>1. file[c] = None /\ requests[c] = 0 /\ sent[c] = <<>> /\ streambuf[c] = <<>>
    BY DEF Init
  <2>2. <<>> \o <<>> = <<>>
    BY ConcatEmptySeq, EmptySeq
  <2> QED
    BY <2>1, <2>2, ConstantsAssumption DEF FlowNone, FlowFile, Handed
<1> QED
  BY <1>1, <1>2 DEF FlowInv

LEMMA FlowHolds == ASSUME Threads = 1 PROVE Spec => [](TypeInv /\ FlowInv)
<1>1. Init => TypeInv /\ FlowInv
  BY TypeInit, FlowInit
<1>2. TypeInv /\ FlowInv /\ [Next]_vars => (TypeInv /\ FlowInv)'
  BY TypeStep, FlowStep
<1> QED
  BY <1>1, <1>2, PTL DEF Spec

LEMMA FlowIsPrefix == TypeInv /\ FlowInv => PartsInOrder
<1> SUFFICES ASSUME TypeInv, FlowInv, NEW c \in Conns, Steady(c)
             PROVE  IsPrefix(Handed(c), Expected(c))
  BY DEF PartsInOrder, Handed
<1>1. BodyInv /\ NumberInv
  BY TypeInvIs
<1>2. CASE file[c] = None
  <2>1. Handed(c) = <<>> \/ Handed(c) = Message
    BY <1>2 DEF FlowInv, FlowNone
  <2> QED
    BY <1>2, <2>1, MessageTyped, PrefixOfSelf DEF Expected
<1>3. CASE file[c] \in Files
  <2>1. /\ offset[c] <= declared[c] /\ Done(c) \in Nat
        /\ Handed(c) = Bytes(file[c], 1, Done(c))
    BY <1>3 DEF FlowInv, FlowFile
  <2>2. offset[c] \in Nat /\ declared[c] \in Nat /\ got[c] \in Nat
    BY <1>1, ConstantsAssumption DEF NumberInv
  <2>3. Done(c) = offset[c] \/ Done(c) = offset[c] - got[c]
    BY DEF Done
  <2>4. Done(c) <= declared[c]
    BY <2>1, <2>2, <2>3
  <2>5. file[c] \in Names /\ file[c] # None
    BY <1>3, ConstantsAssumption DEF Names
  <2> QED
    BY <2>1, <2>2, <2>4, <2>5, BytesPrefix DEF Expected
<1> QED
  BY <1>1, <1>2, <1>3 DEF BodyInv

LEMMA FlowIsComplete == TypeInv /\ FlowInv => KeptWhenComplete
<1> SUFFICES ASSUME TypeInv, FlowInv, NEW c \in Conns, Steady(c), phase[c] = "idle", requests[c] > 0
             PROVE  sent[c] = Expected(c)
  BY DEF KeptWhenComplete
<1>1. BodyInv /\ NumberInv
  BY TypeInvIs
<1>2. Handed(c) = sent[c]
  <2>1. streambuf[c] = <<>> /\ sent[c] \in Seq(Byte)
    BY <1>1 DEF BodyInv
  <2> QED
    BY <2>1, ConcatEmptySeq DEF Handed
<1>3. CASE file[c] = None
  <2>1. requests[c] # 0
    BY <1>1 DEF NumberInv
  <2> QED
    BY <1>2, <1>3, <2>1 DEF FlowInv, FlowNone, Expected
<1>4. CASE file[c] \in Files
  <2>1. Handed(c) = Bytes(file[c], 1, Done(c)) /\ offset[c] = declared[c]
    BY <1>4 DEF FlowInv, FlowFile
  <2>2. Done(c) = offset[c] /\ file[c] # None
    BY <1>4, ConstantsAssumption DEF Done
  <2> QED
    BY <1>2, <2>1, <2>2 DEF Expected
<1> QED
  BY <1>1, <1>3, <1>4 DEF BodyInv

(* "Safe when server is running on one thread" (the static buffer of       *)
(* default_resource_send): with one thread, whatever the number of         *)
(* connections, files and bytes of a part, what a connection has sent or   *)
(* holds of a file nobody writes to is the beginning of that file.         *)
THEOREM SenderPartsInOrder == ASSUME Threads = 1 PROVE Spec => []PartsInOrder
BY FlowHolds, FlowIsPrefix, PTL

(* With one thread, a connection that is kept for another request has sent *)
(* all of the Content-Length it announced when it opened the file, and     *)
(* nothing else: read_length tells the last part from the others also when *)
(* the length is a multiple of a part, or zero.                            *)
THEOREM SenderKeptWhenComplete == ASSUME Threads = 1 PROVE Spec => []KeptWhenComplete
BY FlowHolds, FlowIsComplete, PTL
=============================================================================
