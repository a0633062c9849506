---------------------------- MODULE ParserProofs ----------------------------
(***************************************************************************)
(* Proofs about ResponseRead, for any bytes, framings, bodies and portions *)
(* in which they arrive.                                                   *)
(*                                                                         *)
(* At every point the bytes in the stream buffer, followed by those on the *)
(* way and by those that were lost when the peer broke off, are what the   *)
(* reader has still to see of the response (Ahead): the header and all     *)
(* behind it, the rest of a content, the line of a chunk and all chunks    *)
(* behind it, or what is left of a chunk's data.  A delimiter or a length  *)
(* therefore takes the right bytes out of the buffer, wherever it was cut. *)
(*                                                                         *)
(* The second part is about QueryString, for any keys and values: the path *)
(* holds the pairs that are meant one behind the other, each value in some *)
(* spelling (Writes), and the matches are found where the pairs are.       *)
(***************************************************************************)
EXTENDS ResponseRead, QueryString, SequenceTheorems, WellFoundedInduction, TLAPS

-----------------------------------------------------------------------------
(* Induction over the natural numbers, for sets of them: a set that is not *)
(* empty has a least element.                                              *)
LEMMA LeastNatural ==
  ASSUME NEW T, T \subseteq Nat, T # {}
  PROVE  \E n \in T : \A m \in T : ~ m < n
<1>1. \E n \in T : \A m \in T : ~ (<<m, n>> \in OpToRel(<, Nat))
  BY NatLessThanWellFounded, WFMin, Zenon
<1> QED
  BY <1>1 DEF OpToRel

LEMMA Induction ==
  ASSUME NEW S, 0 \in S, \A n \in Nat : n \in S => n + 1 \in S
  PROVE  Nat \subseteq S
<1> SUFFICES ASSUME ~ Nat \subseteq S PROVE FALSE
  OBVIOUS
<1> DEFINE T == Nat \ S
<1>1. PICK n \in T : \A m \in T : ~ m < n
  BY LeastNatural
<1>2. n # 0 /\ n - 1 \in Nat /\ n - 1 < n
  BY <1>1
<1>3. n - 1 \in S
  BY <1>1, <1>2
<1>4. (n - 1) + 1 = n
  BY <1>1
<1> QED
  BY <1>1, <1>2, <1>3, <1>4

LEMMA UptoInduction ==
  ASSUME NEW m \in Nat, NEW S, 1 \in 1 .. m => 1 \in S,
         \A n \in 1 .. m : n + 1 \in 1 .. m /\ n \in S => n + 1 \in S
  PROVE  1 .. m \subseteq S
<1> DEFINE N == {n \in Nat : n \in 1 .. m => n \in S}
<1>1. 0 \in N
  OBVIOUS
<1>2. ASSUME NEW n \in Nat, n \in N PROVE n + 1 \in N
  <2>1. CASE n = 0
    BY <2>1
  <2>2. CASE n # 0
    BY <1>2, <2>2
  <2> QED
    BY <2>1, <2>2
<1>3. Nat \subseteq N
  <2> HIDE DEF N
  <2> QED
    BY <1>1, <1>2, Induction
<1> QED
  BY <1>3

-----------------------------------------------------------------------------
(* FlattenSeq *)

\* What its recursive function satisfies.
Flattens(g, s) ==
  /\ DOMAIN g = 1 .. Len(s)
  /\ \A i \in 1 .. Len(s) : g[i] = IF i = 1 THEN s[i] ELSE g[i - 1] \o s[i]

LEMMA FlattensExists ==
  ASSUME NEW A, NEW s \in Seq(Seq(A))
  PROVE  \E g : g = [i \in 1 .. Len(s) |-> IF i = 1 THEN s[i] ELSE g[i - 1] \o s[i]]
<1> DEFINE Upto(n, g) ==
             /\ DOMAIN g = 1 .. n
             /\ \A i \in 1 .. n : g[i] = IF i = 1 THEN s[i] ELSE g[i - 1] \o s[i]
           N == {n \in Nat : \E g : Upto(n, g)}
<1>1. 0 \in N
  <2>1. Upto(0, <<>>)
    OBVIOUS
  <2> QED
    BY <2>1
<1>2. ASSUME NEW n \in Nat, n \in N PROVE n + 1 \in N
  <2>1. PICK g : Upto(n, g)
    BY <1>2
  <2> DEFINE h == [i \in 1 .. n + 1 |-> IF i <= n THEN g[i] ELSE IF i = 1 THEN s[i] ELSE g[i - 1] \o s[i]]
  <2>2. ASSUME NEW i \in 1 .. n + 1
        PROVE  h[i] = IF i = 1 THEN s[i] ELSE h[i - 1] \o s[i]
    <3>1. i # 1 => h[i - 1] = g[i - 1]
      <4> SUFFICES ASSUME i # 1 PROVE h[i - 1] = g[i - 1]
        OBVIOUS
      <4>1. i - 1 \in 1 .. n + 1 /\ i - 1 <= n
        OBVIOUS
      <4> QED
        BY <4>1
    <3>2. CASE i <= n
      <4>1. h[i] = g[i] /\ i \in 1 .. n
        BY <3>2
      <4> QED
        BY <2>1, <3>1, <4>1
    <3>3. CASE ~ i <= n
      <4>1. h[i] = IF i = 1 THEN s[i] ELSE g[i - 1] \o s[i]
        BY <3>3
      <4> QED
        BY <3>1, <4>1
    <3> QED
      BY <3>2, <3>3
  <2>3. DOMAIN h = 1 .. n + 1
    OBVIOUS
  <2> HIDE DEF h
  <2>4. Upto(n + 1, h)
    BY <2>2, <2>3
  <2> HIDE DEF Upto
  <2>5. n + 1 \in Nat /\ \E k : Upto(n + 1, k)
    BY <2>4
  <2> QED
    BY <2>5
<1>3. Nat \subseteq N
  <2> HIDE DEF N
  <2> QED
    BY <1>1, <1>2, Induction
<1>4. Len(s) \in Nat
  BY LenProperties
<1>5. PICK g : Upto(Len(s), g)
  BY <1>3, <1>4
<1> DEFINE h == [i \in 1 .. Len(s) |-> g[i]]
<1>6. \A i \in 1 .. Len(s) : h[i] = g[i]
  OBVIOUS
<1>7. ASSUME NEW i \in 1 .. Len(s), i # 1
      PROVE  h[i - 1] = g[i - 1]
  <2>1. i - 1 \in 1 .. Len(s)
    BY <1>4, <1>7
  <2> QED
    BY <2>1
<1>8. \A i \in 1 .. Len(s) : g[i] = IF i = 1 THEN s[i] ELSE h[i - 1] \o s[i]
  BY <1>5, <1>7
<1>9. h = [i \in 1 .. Len(s) |-> IF i = 1 THEN s[i] ELSE h[i - 1] \o s[i]]
  BY <1>8
<1> QED
  BY <1>9

LEMMA FlattenIs ==
  ASSUME NEW A, NEW s \in Seq(Seq(A)), s # <<>>
  PROVE  \E g : Flattens(g, s) /\ FlattenSeq(s) = g[Len(s)]
<1> DEFINE g == CHOOSE g : g = [i \in 1 .. Len(s) |-> IF i = 1 THEN s[i] ELSE g[i - 1] \o s[i]]
<1>1. g = [i \in 1 .. Len(s) |-> IF i = 1 THEN s[i] ELSE g[i - 1] \o s[i]]
  BY FlattensExists
<1>2. FlattenSeq(s) = g[Len(s)]
  <2>1. Len(s) # 0
    BY EmptySeq
  <2> QED
    BY <2>1 DEF FlattenSeq
<1> HIDE DEF g
<1>3. Flattens(g, s)
  <2>1. DOMAIN g = 1 .. Len(s)
    BY <1>1
  <2>2. ASSUME NEW i \in 1 .. Len(s) PROVE g[i] = IF i = 1 THEN s[i] ELSE g[i - 1] \o s[i]
    BY <1>1
  <2> QED
    BY <2>1, <2>2 DEF Flattens
<1> QED
  BY <1>2, <1>3

LEMMA FlattensTyped ==
  ASSUME NEW A, NEW s \in Seq(Seq(A)), NEW g, Flattens(g, s)
  PROVE  \A i \in 1 .. Len(s) : g[i] \in Seq(A)
<1> DEFINE N == {n \in 1 .. Len(s) : g[n] \in Seq(A)}
<1>1. Len(s) \in Nat /\ \A i \in 1 .. Len(s) : s[i] \in Seq(A)
  BY LenProperties, ElementOfSeq
<1>2. 1 \in 1 .. Len(s) => 1 \in N
  BY <1>1 DEF Flattens
<1>3. ASSUME NEW n \in 1 .. Len(s), n + 1 \in 1 .. Len(s), n \in N
      PROVE  n + 1 \in N
  <2>1. n + 1 # 1 /\ (n + 1) - 1 = n
    OBVIOUS
  <2>2. g[n + 1] = g[n] \o s[n + 1]
    BY <1>3, <2>1 DEF Flattens
  <2>3. g[n] \in Seq(A) /\ s[n + 1] \in Seq(A)
    BY <1>1, <1>3
  <2> QED
    BY <1>3, <2>2, <2>3, ConcatProperties
<1>4. 1 .. Len(s) \subseteq N
  <2> HIDE DEF N
  <2> QED
    BY <1>1, <1>2, <1>3, UptoInduction
<1> QED
  BY <1>4

LEMMA FlattenTyped ==
  ASSUME NEW A, NEW s \in Seq(Seq(A))
  PROVE  FlattenSeq(s) \in Seq(A)
<1>1. CASE s = <<>>
  <2>1. FlattenSeq(s) = <<>>
    BY <1>1 DEF FlattenSeq
  <2> QED
    BY <2>1, EmptySeq
<1>2. CASE s # <<>>
  <2>1. PICK g : Flattens(g, s) /\ FlattenSeq(s) = g[Len(s)]
    BY <1>2, FlattenIs
  <2>2. Len(s) \in 1 .. Len(s)
    BY <1>2, EmptySeq
  <2> QED
    BY <2>1, <2>2, FlattensTyped
<1> QED
  BY <1>1, <1>2

LEMMA FlattenNone == FlattenSeq(<<>>) = <<>>
BY DEF FlattenSeq

LEMMA TailIs ==
  ASSUME NEW A, NEW s \in Seq(A), s # <<>>
  PROVE  /\ Len(s) \in Nat \ {0} /\ Tail(s) \in Seq(A) /\ s[1] \in A
         /\ Len(Tail(s)) = Len(s) - 1
         /\ \A i \in 1 .. Len(s) - 1 : Tail(s)[i] = s[i + 1]
<1>1. Len(s) \in Nat \ {0}
  BY EmptySeq
<1>2. 1 \in 1 .. Len(s)
  BY <1>1
<1>3. /\ Tail(s) \in Seq(A) /\ Len(Tail(s)) = Len(s) - 1
      /\ \A i \in 1 .. Len(Tail(s)) : Tail(s)[i] = s[i + 1]
  BY HeadTailProperties
<1>4. s[1] \in A
  BY <1>2, ElementOfSeq
<1> QED
  BY <1>1, <1>3, <1>4

LEMMA Regrouped == \A A : \A x, y, z \in Seq(A) : (x \o y) \o z = x \o (y \o z)
<1> SUFFICES ASSUME NEW A, NEW x \in Seq(A), NEW y \in Seq(A), NEW z \in Seq(A)
             PROVE  (x \o y) \o z = x \o (y \o z)
  BY Zenon
<1> QED
  BY ConcatAssociative, SMTT(30)

LEMMA FlattenFirst ==
  ASSUME NEW A, NEW s \in Seq(Seq(A)), s # <<>>
  PROVE  FlattenSeq(s) = s[1] \o FlattenSeq(Tail(s))
<1>0. \A x, y, z \in Seq(A) : (x \o y) \o z = x \o (y \o z)
  BY Regrouped, SMTT(30)
<1> DEFINE t == Tail(s)
<1>1. /\ Len(s) \in Nat \ {0} /\ t \in Seq(Seq(A)) /\ s[1] \in Seq(A)
      /\ Len(t) = Len(s) - 1
      /\ \A i \in 1 .. Len(s) - 1 : t[i] = s[i + 1]
  BY TailIs
<1>2. PICK g : Flattens(g, s) /\ FlattenSeq(s) = g[Len(s)]
  BY FlattenIs
<1> HIDE DEF t
<1>3. CASE t = <<>>
  <2>1. Len(s) = 1
    BY <1>1, <1>3
  <2>2. FlattenSeq(s) = s[1]
    BY <1>2, <2>1 DEF Flattens
  <2>3. FlattenSeq(t) = <<>>
    BY <1>3, FlattenNone
  <2> QED
    BY <1>1, <2>2, <2>3, ConcatEmptySeq DEF t
<1>4. CASE t # <<>>
  <2>1. PICK h : Flattens(h, t) /\ FlattenSeq(t) = h[Len(t)]
    BY <1>1, <1>4, FlattenIs
  <2>2. Len(t) \in Nat /\ Len(t) # 0
    BY <1>1, <1>4, EmptySeq
  <2> DEFINE N == {n \in 1 .. Len(t) : g[n + 1] = s[1] \o h[n]}
  <2>3. 1 \in N
    <3>1. /\ 1 \in 1 .. Len(t) /\ 1 \in 1 .. Len(s) /\ 1 + 1 \in 1 .. Len(s)
          /\ 1 + 1 # 1 /\ (1 + 1) - 1 = 1 /\ 1 \in 1 .. Len(s) - 1
      BY <1>1, <2>2
    <3>2. g[1 + 1] = s[1] \o s[1 + 1]
      BY <1>2, <3>1 DEF Flattens
    <3>3. h[1] = s[1 + 1]
      BY <1>1, <2>1, <3>1 DEF Flattens
    <3> QED
      BY <3>1, <3>2, <3>3
  <2>4. ASSUME NEW n \in 1 .. Len(t), n + 1 \in 1 .. Len(t), n \in N
        PROVE  n + 1 \in N
    <3>1. /\ n \in Nat /\ n + 1 # 1 /\ (n + 1) - 1 = n
          /\ (n + 1) + 1 \in 1 .. Len(s) /\ (n + 1) + 1 # 1 /\ ((n + 1) + 1) - 1 = n + 1
          /\ n + 1 \in 1 .. Len(s) - 1
      BY <1>1, <2>4
    <3>2. g[(n + 1) + 1] = g[n + 1] \o t[n + 1]
      BY <1>1, <1>2, <3>1 DEF Flattens
    <3>3. g[n + 1] = s[1] \o h[n] /\ h[n + 1] = h[n] \o t[n + 1]
      BY <2>1, <2>4, <3>1 DEF Flattens
    <3>4. h[n] \in Seq(A) /\ t[n + 1] \in Seq(A)
      BY <1>1, <2>1, <2>4, FlattensTyped, ElementOfSeq
    <3>5. (s[1] \o h[n]) \o t[n + 1] = s[1] \o (h[n] \o t[n + 1])
      <4>2. s[1] \in Seq(A) /\ h[n] \in Seq(A) /\ t[n + 1] \in Seq(A)
        BY <1>1, <3>4
      <4> QED
        BY <1>0, <4>2, Zenon
    <3>6. g[(n + 1) + 1] = s[1] \o h[n + 1]
      BY <3>2, <3>3, <3>5, Zenon
    <3> QED
      BY <2>4, <3>6
  <2>5. 1 .. Len(t) \subseteq N
    <3> HIDE DEF N
    <3> QED
      BY <2>2, <2>3, <2>4, UptoInduction
  <2>6. Len(t) \in N /\ Len(t) \in 1 .. Len(t) /\ Len(t) + 1 = Len(s)
    <3>1. Len(t) \in 1 .. Len(t) /\ Len(t) + 1 = Len(s)
      BY <1>1, <2>2
    <3> HIDE DEF N
    <3> QED
      BY <2>5, <3>1
  <2>7. g[Len(t) + 1] = s[1] \o h[Len(t)]
    BY <2>6
  <2> QED
    BY <1>2, <2>1, <2>6, <2>7 DEF t
<1> QED
  BY <1>3, <1>4

LEMMA FlattenBound ==
  ASSUME NEW A, NEW s \in Seq(Seq(A)), NEW m \in Nat, \A i \in 1 .. Len(s) : Len(s[i]) <= m
  PROVE  Len(FlattenSeq(s)) <= Len(s) * m
<1>1. Len(s) \in Nat
  BY LenProperties
<1>2. CASE s = <<>>
  <2>1. Len(s) = 0 /\ FlattenSeq(s) = <<>> /\ Len(<<>>) = 0 /\ 0 * m = 0
    BY <1>2, FlattenNone
  <2>2. 0 <= 0
    OBVIOUS
  <2> QED
    BY <2>1, <2>2, Zenon
<1>3. CASE s # <<>>
  <2>1. PICK g : Flattens(g, s) /\ FlattenSeq(s) = g[Len(s)]
    BY <1>3, FlattenIs
  <2> DEFINE N == {n \in 1 .. Len(s) : Len(g[n]) <= n * m}
  <2>2. 1 \in N
    <3>1. 1 \in 1 .. Len(s) /\ 1 * m = m
      BY <1>1, <1>3, EmptySeq
    <3>2. g[1] = s[1]
      BY <2>1, <3>1 DEF Flattens
    <3>3. Len(g[1]) <= 1 * m
      BY <3>1, <3>2
    <3> QED
      BY <3>1, <3>3
  <2>3. ASSUME NEW n \in 1 .. Len(s), n + 1 \in 1 .. Len(s), n \in N
        PROVE  n + 1 \in N
    <3>1. s[n + 1] \in Seq(A) /\ Len(s[n + 1]) <= m
      BY <2>3, ElementOfSeq
    <3>2. n + 1 # 1 /\ (n + 1) - 1 = n /\ n \in Nat
      OBVIOUS
    <3>3. g[n + 1] = g[n] \o s[n + 1] /\ g[n] \in Seq(A) /\ Len(g[n]) <= n * m
      BY <2>1, <2>3, <3>2, FlattensTyped DEF Flattens
    <3>4. Len(g[n + 1]) = Len(g[n]) + Len(s[n + 1])
      BY <3>1, <3>3, ConcatProperties
    <3>5. Len(g[n]) \in Nat /\ Len(s[n + 1]) \in Nat
      BY <3>1, <3>3, LenProperties
    <3>6. (n + 1) * m = n * m + m /\ n * m \in Nat
      BY <3>2
    <3> DEFINE x == Len(g[n])
               y == Len(s[n + 1])
               z == n * m
    <3>7. x \in Nat /\ y \in Nat /\ z \in Nat /\ x <= z /\ y <= m
      BY <3>1, <3>3, <3>5, <3>6
    <3> HIDE DEF x, y, z
    <3>8. x + y <= z + m
      BY <3>7
    <3>9. Len(g[n + 1]) <= (n + 1) * m
      BY <3>4, <3>6, <3>8, Zenon DEF x, y, z
    <3> QED
      BY <2>3, <3>9
  <2>4. 1 .. Len(s) \subseteq N
    <3> HIDE DEF N
    <3> QED
      BY <1>1, <2>2, <2>3, UptoInduction
  <2>5. Len(s) \in N /\ Len(s) \in 1 .. Len(s)
    <3>1. Len(s) # 0
      BY <1>3, EmptySeq
    <3>2. Len(s) \in 1 .. Len(s)
      BY <1>1, <3>1
    <3> HIDE DEF N
    <3> QED
      BY <2>4, <3>2
  <2> QED
    BY <2>1, <2>5
<1> QED
  BY <1>2, <1>3

-----------------------------------------------------------------------------
(* Stream buffers *)

Byte == Symbols \cup {"H", "CR", "LF", ";"} \cup Range(Digits)

LEMMA ByteFacts ==
  /\ "H" \in Byte /\ "CR" \in Byte /\ "LF" \in Byte /\ ";" \in Byte
  /\ Symbols \subseteq Byte
  /\ \A n \in 0 .. 9 : Digits[n + 1] \in Byte
<1>1. \A n \in 0 .. 9 : n + 1 \in DOMAIN Digits
  BY DEF Digits
<1> QED
  BY <1>1 DEF Byte, Range

\* Concatenation, by a name that hides it while it is regrouped.
Cat(x, y) == x \o y

LEMMA Grouped == \A x, y, z \in Seq(Byte) : (x \o y) \o z = x \o (y \o z)
BY Regrouped

LEMMA DataRegrouped == \A x, y, z \in Seq(Byte) : Cat(Cat(x, y), z) = Cat(x, Cat(y, z))
<1> SUFFICES ASSUME NEW x \in Seq(Byte), NEW y \in Seq(Byte), NEW z \in Seq(Byte)
             PROVE  Cat(Cat(x, y), z) = Cat(x, Cat(y, z))
  OBVIOUS
<1>1. (x \o y) \o z = x \o (y \o z)
  BY Grouped
<1> QED
  BY <1>1, Zenon DEF Cat

LEMMA Joined ==
  ASSUME NEW s \in Seq(Byte), NEW t \in Seq(Byte)
  PROVE  s \o t \in Seq(Byte) /\ Len(s \o t) = Len(s) + Len(t) /\ Len(s) \in Nat /\ Len(t) \in Nat
BY ConcatProperties, LenProperties

LEMMA NothingJoined ==
  ASSUME NEW s \in Seq(Byte)
  PROVE  s \o <<>> = s /\ <<>> \o s = s /\ <<>> \in Seq(Byte) /\ Len(<<>>) = 0
         /\ (Len(s) = 0 => s = <<>>)
BY ConcatEmptySeq, EmptySeq

LEMMA Cancelled ==
  ASSUME NEW h \in Seq(Byte), NEW x \in Seq(Byte), NEW t \in Seq(Byte), h \o x = h \o t
  PROVE  x = t
<1>1. Len(h) \in Nat /\ Len(x) \in Nat /\ Len(t) \in Nat
  BY LenProperties
<1>2. Len(h) + Len(x) = Len(h) + Len(t)
  <2>1. Len(h \o x) = Len(h) + Len(x)
    BY Joined
  <2>2. Len(h \o t) = Len(h) + Len(t)
    BY Joined
  <2> QED
    BY <2>1, <2>2
<1>3. Len(x) = Len(t)
  BY <1>1, <1>2
<1>4. ASSUME NEW i \in 1 .. Len(x) PROVE x[i] = t[i]
  <2>1. /\ Len(h) + i \in 1 .. Len(h) + Len(x) /\ Len(h) + i \in 1 .. Len(h) + Len(t)
        /\ ~ Len(h) + i <= Len(h) /\ (Len(h) + i) - Len(h) = i
    BY <1>1, <1>3
  <2>2. (h \o x)[Len(h) + i] = x[i]
    BY <2>1, ConcatProperties
  <2>3. (h \o t)[Len(h) + i] = t[i]
    BY <2>1, ConcatProperties
  <2> QED
    BY <2>2, <2>3
<1> QED
  BY <1>3, <1>4, SeqEqual

\* The first bytes of a stream buffer and the others.
LEMMA Taken ==
  ASSUME NEW s \in Seq(Byte), NEW n \in 0 .. Len(s)
  PROVE  /\ SubSeq(s, 1, n) \in Seq(Byte) /\ Len(SubSeq(s, 1, n)) = n
         /\ Drop(s, n) \in Seq(Byte) /\ Len(Drop(s, n)) = Len(s) - n
         /\ SubSeq(s, 1, n) \o Drop(s, n) = s
         /\ \A i \in 1 .. n : SubSeq(s, 1, n)[i] = s[i]
<1>1. Len(s) \in Nat /\ n \in Nat /\ n <= Len(s) /\ \A k \in 1 .. Len(s) : s[k] \in Byte
  BY LenProperties, ElementOfSeq
<1>2. (\A k \in 1 .. n : s[k] \in Byte) /\ (\A k \in n + 1 .. Len(s) : s[k] \in Byte)
  BY <1>1
<1>3. /\ SubSeq(s, 1, n) \in Seq(Byte)
      /\ Len(SubSeq(s, 1, n)) = IF 1 <= n THEN n - 1 + 1 ELSE 0
      /\ \A i \in 1 .. n - 1 + 1 : SubSeq(s, 1, n)[i] = s[1 + i - 1]
  BY <1>1, <1>2, SubSeqProperties
<1>4. /\ SubSeq(s, n + 1, Len(s)) \in Seq(Byte)
      /\ Len(SubSeq(s, n + 1, Len(s))) = IF n + 1 <= Len(s) THEN Len(s) - (n + 1) + 1 ELSE 0
  BY <1>1, <1>2, SubSeqProperties
<1>5. /\ (IF 1 <= n THEN n - 1 + 1 ELSE 0) = n /\ n - 1 + 1 = n
      /\ \A i \in 1 .. n : 1 + i - 1 = i
      /\ (IF n + 1 <= Len(s) THEN Len(s) - (n + 1) + 1 ELSE 0) = Len(s) - n
  BY <1>1
<1>6. SubSeq(s, 1, n) \o SubSeq(s, n + 1, Len(s)) = s
  <2>1. 1 \in 1 .. Len(s) + 1 /\ n \in 1 - 1 .. Len(s) /\ Len(s) \in n .. Len(s)
    BY <1>1
  <2>2. SubSeq(s, 1, n) \o SubSeq(s, n + 1, Len(s)) = SubSeq(s, 1, Len(s))
    BY <2>1, ConcatAdjacentSubSeq
  <2> QED
    BY <2>2, SubSeqFull
<1>7. Len(SubSeq(s, 1, n)) = n
  BY <1>3, <1>5, Zenon
<1>8. Len(SubSeq(s, n + 1, Len(s))) = Len(s) - n
  BY <1>4, <1>5, Zenon
<1>9. \A i \in 1 .. n : SubSeq(s, 1, n)[i] = s[i]
  BY <1>3, <1>5
<1> QED
  BY <1>3, <1>4, <1>6, <1>7, <1>8, <1>9, Zenon DEF Drop

\* A stream that is cut at two places: h ends in what has been received.
LEMMA Received ==
  ASSUME NEW a \in Seq(Byte), NEW b \in Seq(Byte), NEW h \in Seq(Byte), NEW t \in Seq(Byte),
         a \o b = h \o t, Len(h) <= Len(a)
  PROVE  /\ SubSeq(a, 1, Len(h)) = h
         /\ Drop(a, Len(h)) \in Seq(Byte) /\ Len(Drop(a, Len(h))) = Len(a) - Len(h)
         /\ Drop(a, Len(h)) \o b = t
<1> DEFINE n == Len(h)
           c == SubSeq(a, 1, n)
           d == Drop(a, n)
<1>1. Len(a) \in Nat /\ n \in Nat /\ Len(b) \in Nat /\ Len(t) \in Nat /\ n \in 0 .. Len(a)
  BY LenProperties
<1>2. /\ c \in Seq(Byte) /\ Len(c) = n /\ d \in Seq(Byte) /\ Len(d) = Len(a) - n /\ c \o d = a
      /\ \A i \in 1 .. n : c[i] = a[i]
  BY <1>1, Taken
<1> HIDE DEF c, d
<1>3. \A i \in 1 .. n : a[i] = h[i]
  <2> TAKE i \in 1 .. n
  <2>1. i \in 1 .. Len(a) + Len(b) /\ i <= Len(a) /\ i \in 1 .. Len(h) + Len(t) /\ i <= Len(h)
    BY <1>1
  <2>2. (a \o b)[i] = a[i] /\ (h \o t)[i] = h[i]
    BY <2>1, ConcatProperties
  <2> QED
    BY <2>2
<1>4. c = h
  BY <1>2, <1>3, SeqEqual
<1>5. h \o (d \o b) = h \o t
  <2>1. (h \o d) \o b = h \o (d \o b)
    BY <1>2, Grouped, ZenonT(40)
  <2> QED
    BY <1>2, <1>4, <2>1, Zenon
<1>6. d \o b = t
  <2>1. d \o b \in Seq(Byte)
    BY <1>2, Joined
  <2> DEFINE x == d \o b
  <2>2. x \in Seq(Byte) /\ h \o x = h \o t
    BY <1>5, <2>1
  <2> HIDE DEF x
  <2>3. x = t
    BY <1>1, <2>2, Cancelled, Zenon
  <2> QED
    BY <2>3 DEF x
<1> QED
  BY <1>2, <1>4, <1>6, Zenon DEF c, d

\* A delimiter that ends at a place is there byte by byte.
LEMMA EndsAt ==
  ASSUME NEW s \in Seq(Byte), NEW d \in Seq(Byte), NEW i \in Nat
  PROVE  i \in EndsOf(s, d) <=>
           i \in Len(d) .. Len(s) /\ \A k \in 1 .. Len(d) : s[i - Len(d) + k] = d[k]
<1> DEFINE n == Len(d)
           c == SubSeq(s, i - n + 1, i)
<1>1. n \in Nat /\ Len(s) \in Nat
  BY LenProperties
<1> HIDE DEF n
<1>2. SUFFICES ASSUME i \in n .. Len(s)
               PROVE  c = d <=> \A k \in 1 .. n : s[i - n + k] = d[k]
  BY DEF EndsOf, n
<1>3. \A k \in i - n + 1 .. i : s[k] \in Byte
  <2>1. \A k \in i - n + 1 .. i : k \in 1 .. Len(s)
    BY <1>1, <1>2
  <2> QED
    BY <2>1, ElementOfSeq
<1>4. i - n + 1 \in Int /\ i \in Int
  BY <1>1
<1>5. /\ c \in Seq(Byte)
      /\ Len(c) = IF i - n + 1 <= i THEN i - (i - n + 1) + 1 ELSE 0
      /\ \A k \in 1 .. i - (i - n + 1) + 1 : c[k] = s[(i - n + 1) + k - 1]
  BY <1>3, <1>4, SubSeqProperties
<1>6. /\ (IF i - n + 1 <= i THEN i - (i - n + 1) + 1 ELSE 0) = n
      /\ i - (i - n + 1) + 1 = n
      /\ \A k \in 1 .. n : (i - n + 1) + k - 1 = i - n + k
  BY <1>1
<1>7. c \in Seq(Byte) /\ Len(c) = Len(d) /\ \A k \in 1 .. n : c[k] = s[i - n + k]
  BY <1>5, <1>6 DEF n
<1> HIDE DEF c
<1>8. (\A k \in 1 .. n : c[k] = d[k]) => c = d
  BY <1>7, SeqEqual DEF n
<1> QED
  BY <1>7, <1>8

\* Of two ways to cut one stream, the shorter first part is a beginning of
\* the other.
LEMMA Shared ==
  ASSUME NEW a \in Seq(Byte), NEW b \in Seq(Byte), NEW h \in Seq(Byte), NEW t \in Seq(Byte),
         a \o b = h \o t, NEW i \in Nat, i \in 1 .. Len(a), i \in 1 .. Len(h)
  PROVE  a[i] = h[i]
<1>1. Len(a) \in Nat /\ Len(h) \in Nat /\ Len(b) \in Nat /\ Len(t) \in Nat
  BY LenProperties
<1>2. i \in 1 .. Len(a) + Len(b) /\ i <= Len(a) /\ i \in 1 .. Len(h) + Len(t) /\ i <= Len(h)
  BY <1>1
<1>3. (a \o b)[i] = a[i]
  BY <1>2, ConcatProperties
<1>4. (h \o t)[i] = h[i]
  BY <1>2, ConcatProperties
<1> QED
  BY <1>3, <1>4

\* The delimiter ends h and is nowhere else in h.
Ends(h, d) == EndsOf(h, d) = {Len(h)}

\* What is read up to the delimiter d is as long as h.
Until(s, d, h) == Transferred(s, d) = Len(h)

\* async_read_until: when the stream begins with h, which ends in the
\* delimiter and has it nowhere else, the delimiter is found when all of h
\* has been received, and there.
LEMMA DelimiterAfter ==
  ASSUME NEW s \in Seq(Byte), NEW r \in Seq(Byte), NEW h \in Seq(Byte), NEW p \in Seq(Byte),
         NEW d \in Seq(Byte), s \o r = h \o p, Ends(h, d)
  PROVE  \A i \in EndsOf(s, d) : i \in Nat /\ Len(h) <= i /\ i <= Len(s)
<1>1. Len(s) \in Nat /\ Len(h) \in Nat /\ Len(d) \in Nat
  BY LenProperties
<1>2. EndsOf(h, d) = {Len(h)} /\ Len(h) \in EndsOf(h, d)
  BY DEF Ends
<1>3. /\ Len(h) \in Len(d) .. Len(h)
      /\ \A k \in 1 .. Len(d) : h[Len(h) - Len(d) + k] = d[k]
  BY <1>1, <1>2, EndsAt
<1>4. ASSUME NEW i \in EndsOf(s, d), i <= Len(h) PROVE i = Len(h)
  <2>1. i \in Nat
    BY <1>1 DEF EndsOf
  <2>2. i \in Len(d) .. Len(s) /\ \A k \in 1 .. Len(d) : s[i - Len(d) + k] = d[k]
    BY <2>1, EndsAt
  <2>3. ASSUME NEW k \in 1 .. Len(d) PROVE h[i - Len(d) + k] = d[k]
    <3>1. /\ i - Len(d) + k \in Nat /\ i - Len(d) + k \in 1 .. Len(s)
          /\ i - Len(d) + k \in 1 .. Len(h)
      BY <1>1, <1>4, <2>2
    <3>2. s[i - Len(d) + k] = h[i - Len(d) + k]
      BY <3>1, Shared
    <3> QED
      BY <2>2, <3>2
  <2>4. i \in Len(d) .. Len(h)
    BY <1>1, <1>4, <2>2
  <2>5. i \in EndsOf(h, d)
    BY <2>1, <2>3, <2>4, EndsAt
  <2> QED
    BY <1>2, <2>5
<1>5. EndsOf(s, d) \subseteq Nat
  BY <1>1 DEF EndsOf
<1>6. ASSUME NEW i \in EndsOf(s, d) PROVE Len(h) <= i /\ i <= Len(s)
  <2>1. i \in Nat /\ i <= Len(s)
    BY <1>1 DEF EndsOf
  <2>2. i <= Len(h) => i = Len(h)
    BY <1>4
  <2> QED
    BY <1>1, <2>1, <2>2
<1> QED
  BY <1>5, <1>6

LEMMA DelimiterThere ==
  ASSUME NEW s \in Seq(Byte), NEW r \in Seq(Byte), NEW h \in Seq(Byte), NEW p \in Seq(Byte),
         NEW d \in Seq(Byte), s \o r = h \o p, Ends(h, d), Len(h) <= Len(s)
  PROVE  Until(s, d, h)
<1>1. Len(s) \in Nat /\ Len(h) \in Nat /\ Len(d) \in Nat
  BY LenProperties
<1>2. Len(h) \in EndsOf(h, d)
  BY DEF Ends
<1>3. /\ Len(h) \in Len(d) .. Len(h)
      /\ \A k \in 1 .. Len(d) : h[Len(h) - Len(d) + k] = d[k]
  BY <1>1, <1>2, EndsAt
<1>4. \A i \in EndsOf(s, d) : i \in Nat /\ Len(h) <= i
  BY DelimiterAfter
<1>5. Len(h) \in EndsOf(s, d)
  <2>1. Len(h) \in Len(d) .. Len(s)
    BY <1>1, <1>3
  <2>2. ASSUME NEW k \in 1 .. Len(d) PROVE s[Len(h) - Len(d) + k] = d[k]
    <3> DEFINE i == Len(h) - Len(d) + k
    <3>1. i \in Nat /\ i \in 1 .. Len(s) /\ i \in 1 .. Len(h)
      BY <1>1, <1>3
    <3>2. h[i] = d[k]
      BY <1>3
    <3> HIDE DEF i
    <3>3. s[i] = h[i]
      BY <3>1, Shared
    <3> QED
      BY <3>2, <3>3 DEF i
  <2> QED
    BY <1>1, <2>1, <2>2, EndsAt
<1>6. Transferred(s, d) \in EndsOf(s, d) /\ \A y \in EndsOf(s, d) : Transferred(s, d) <= y
  <2>1. \E x \in EndsOf(s, d) : \A y \in EndsOf(s, d) : x <= y
    BY <1>4, <1>5
  <2> QED
    BY <2>1 DEF Transferred, Min
<1>7. Transferred(s, d) <= Len(h) /\ Len(h) <= Transferred(s, d) /\ Transferred(s, d) \in Nat
  BY <1>4, <1>5, <1>6
<1>8. Transferred(s, d) = Len(h)
  BY <1>1, <1>7
<1> QED
  BY <1>8 DEF Until

LEMMA DelimiterFound ==
  ASSUME NEW s \in Seq(Byte), NEW r \in Seq(Byte), NEW h \in Seq(Byte), NEW p \in Seq(Byte),
         NEW d \in Seq(Byte), s \o r = h \o p, Ends(h, d), Found(s, d)
  PROVE  Len(h) <= Len(s) /\ Until(s, d, h)
<1>1. Len(s) \in Nat /\ Len(h) \in Nat
  BY LenProperties
<1>2. PICK i : i \in EndsOf(s, d)
  BY DEF Found
<1>3. i \in Nat /\ Len(h) <= i /\ i <= Len(s)
  BY <1>2, DelimiterAfter
<1>4. Len(h) <= Len(s)
  BY <1>1, <1>3
<1> QED
  BY <1>4, DelimiterThere

\* Concatenations of a few bytes.
LEMMA JoinedIs ==
  ASSUME NEW s \in Seq(Byte), NEW t \in Seq(Byte), NEW u \in Seq(Byte),
         Len(u) = Len(s) + Len(t), \A i \in 1 .. Len(s) : u[i] = s[i],
         \A i \in 1 .. Len(t) : u[Len(s) + i] = t[i]
  PROVE  s \o t = u
<1> DEFINE v == s \o t
<1>1. Len(s) \in Nat /\ Len(t) \in Nat
  BY LenProperties
<1>2. /\ v \in Seq(Byte) /\ Len(v) = Len(s) + Len(t)
      /\ \A i \in 1 .. Len(s) + Len(t) : v[i] = IF i <= Len(s) THEN s[i] ELSE t[i - Len(s)]
  BY ConcatProperties
<1> HIDE DEF v
<1>3. ASSUME NEW i \in 1 .. Len(v) PROVE v[i] = u[i]
  <2>1. CASE i <= Len(s)
    BY <1>1, <1>2, <2>1
  <2>2. CASE ~ i <= Len(s)
    <3>1. i - Len(s) \in 1 .. Len(t) /\ Len(s) + (i - Len(s)) = i
      BY <1>1, <1>2, <2>2
    <3>2. v[i] = t[i - Len(s)]
      BY <1>1, <1>2, <2>2
    <3>3. u[Len(s) + (i - Len(s))] = t[i - Len(s)]
      BY <3>1
    <3> QED
      BY <3>1, <3>2, <3>3
  <2> QED
    BY <2>1, <2>2
<1>4. v = u
  BY <1>2, <1>3, SeqEqual
<1> QED
  BY <1>4 DEF v

LEMMA Joined11 ==
  ASSUME NEW a \in Byte, NEW b \in Byte
  PROVE  <<a>> \o <<b>> = <<a, b>>
<1> DEFINE x == <<a>>
           y == <<b>>
           z == <<a, b>>
<1>1. x \in Seq(Byte) /\ y \in Seq(Byte) /\ z \in Seq(Byte)
  OBVIOUS
<1>2. Len(x) = 1 /\ Len(y) = 1 /\ Len(z) = 2
  OBVIOUS
<1>3. x[1] = z[1] /\ y[1] = z[2]
  OBVIOUS
<1> HIDE DEF x, y, z
<1>4. ASSUME NEW i \in 1 .. Len(x) PROVE z[i] = x[i]
  <2>1. i = 1
    BY <1>2
  <2> QED
    BY <1>3, <2>1
<1>5. ASSUME NEW i \in 1 .. Len(y) PROVE z[Len(x) + i] = y[i]
  <2>1. i = 1
    BY <1>2
  <2>2. Len(x) + 1 = 2
    BY <1>2
  <2> QED
    BY <1>3, <2>1, <2>2
<1>6. Len(z) = Len(x) + Len(y)
  BY <1>2
<1>7. x \o y = z
  BY <1>1, <1>4, <1>5, <1>6, JoinedIs
<1> QED
  BY <1>7 DEF x, y, z

LEMMA Joined12 ==
  ASSUME NEW a \in Byte, NEW b \in Byte, NEW c \in Byte
  PROVE  <<a>> \o <<b, c>> = <<a, b, c>>
<1> DEFINE x == <<a>>
           y == <<b, c>>
           z == <<a, b, c>>
<1>1. x \in Seq(Byte) /\ y \in Seq(Byte) /\ z \in Seq(Byte)
  OBVIOUS
<1>2. Len(x) = 1 /\ Len(y) = 2 /\ Len(z) = 3
  OBVIOUS
<1>3. x[1] = z[1] /\ y[1] = z[2] /\ y[2] = z[3]
  OBVIOUS
<1> HIDE DEF x, y, z
<1>4. ASSUME NEW i \in 1 .. Len(x) PROVE z[i] = x[i]
  <2>1. i = 1
    BY <1>2
  <2> QED
    BY <1>3, <2>1
<1>5. ASSUME NEW i \in 1 .. Len(y) PROVE z[Len(x) + i] = y[i]
  <2>1. i = 1 \/ i = 2
    BY <1>2
  <2>2. Len(x) + 1 = 2 /\ Len(x) + 2 = 3
    BY <1>2
  <2> QED
    BY <1>3, <2>1, <2>2
<1>6. Len(z) = Len(x) + Len(y)
  BY <1>2
<1>7. x \o y = z
  BY <1>1, <1>4, <1>5, <1>6, JoinedIs
<1> QED
  BY <1>7 DEF x, y, z

LEMMA Joined22 ==
  ASSUME NEW a \in Byte, NEW b \in Byte, NEW c \in Byte, NEW d \in Byte
  PROVE  <<a, b>> \o <<c, d>> = <<a, b, c, d>>
<1> DEFINE x == <<a, b>>
           y == <<c, d>>
           z == <<a, b, c, d>>
<1>1. x \in Seq(Byte) /\ y \in Seq(Byte) /\ z \in Seq(Byte)
  OBVIOUS
<1>2. Len(x) = 2 /\ Len(y) = 2 /\ Len(z) = 4
  OBVIOUS
<1>3. x[1] = z[1] /\ x[2] = z[2] /\ y[1] = z[3] /\ y[2] = z[4]
  OBVIOUS
<1> HIDE DEF x, y, z
<1>4. ASSUME NEW i \in 1 .. Len(x) PROVE z[i] = x[i]
  <2>1. i = 1 \/ i = 2
    BY <1>2
  <2> QED
    BY <1>3, <2>1
<1>5. ASSUME NEW i \in 1 .. Len(y) PROVE z[Len(x) + i] = y[i]
  <2>1. i = 1 \/ i = 2
    BY <1>2
  <2>2. Len(x) + 1 = 3 /\ Len(x) + 2 = 4
    BY <1>2
  <2> QED
    BY <1>3, <2>1, <2>2
<1>6. Len(z) = Len(x) + Len(y)
  BY <1>2
<1>7. x \o y = z
  BY <1>1, <1>4, <1>5, <1>6, JoinedIs
<1> QED
  BY <1>7 DEF x, y, z

LEMMA Joined32 ==
  ASSUME NEW a \in Byte, NEW b \in Byte, NEW c \in Byte, NEW d \in Byte, NEW e \in Byte
  PROVE  <<a, b, c>> \o <<d, e>> = <<a, b, c, d, e>>
<1> DEFINE x == <<a, b, c>>
           y == <<d, e>>
           z == <<a, b, c, d, e>>
<1>1. x \in Seq(Byte) /\ y \in Seq(Byte) /\ z \in Seq(Byte)
  OBVIOUS
<1>2. Len(x) = 3 /\ Len(y) = 2 /\ Len(z) = 5
  OBVIOUS
<1>3. x[1] = z[1] /\ x[2] = z[2] /\ x[3] = z[3] /\ y[1] = z[4] /\ y[2] = z[5]
  OBVIOUS
<1> HIDE DEF x, y, z
<1>4. ASSUME NEW i \in 1 .. Len(x) PROVE z[i] = x[i]
  <2>1. i = 1 \/ i = 2 \/ i = 3
    BY <1>2
  <2> QED
    BY <1>3, <2>1
<1>5. ASSUME NEW i \in 1 .. Len(y) PROVE z[Len(x) + i] = y[i]
  <2>1. i = 1 \/ i = 2
    BY <1>2
  <2>2. Len(x) + 1 = 4 /\ Len(x) + 2 = 5
    BY <1>2
  <2> QED
    BY <1>3, <2>1, <2>2
<1>6. Len(z) = Len(x) + Len(y)
  BY <1>2
<1>7. x \o y = z
  BY <1>1, <1>4, <1>5, <1>6, JoinedIs
<1> QED
  BY <1>7 DEF x, y, z

Header == <<"H">> \o CRLF \o CRLF

LEMMA HeaderIs ==
  /\ Header \in Seq(Byte) /\ Len(Header) = 5
  /\ CRLF \o CRLF \in Seq(Byte)
  /\ Ends(Header, CRLF \o CRLF)
<1> DEFINE h == <<"H", "CR", "LF", "CR", "LF">>
           d == <<"CR", "LF", "CR", "LF">>
<1>1. Header = h /\ CRLF \o CRLF = d
  <2>1. <<"H">> \o <<"CR", "LF">> = <<"H", "CR", "LF">>
    BY ByteFacts, Joined12
  <2>2. <<"H", "CR", "LF">> \o <<"CR", "LF">> = h
    <3>1. ASSUME NEW a \in Byte, NEW b \in Byte, NEW c \in Byte
          PROVE  <<a, b, c>> \o <<b, c>> = <<a, b, c, b, c>>
      BY Joined32
    <3>2. "H" \in Byte /\ "CR" \in Byte /\ "LF" \in Byte
      BY ByteFacts
    <3> HIDE DEF d
    <3> QED
      BY <3>1, <3>2, Zenon
  <2>3. <<"CR", "LF">> \o <<"CR", "LF">> = d
    BY ByteFacts, Joined22
  <2> QED
    BY <2>1, <2>2, <2>3, Zenon DEF Header, CRLF
<1>2. h \in Seq(Byte) /\ d \in Seq(Byte)
  <2>1. \A a, b, c, e, f \in Byte : <<a, b, c, e, f>> \in Seq(Byte) /\ <<a, b, c, e>> \in Seq(Byte)
    OBVIOUS
  <2> QED
    BY <2>1, ByteFacts, Zenon
<1>3. /\ Len(h) = 5 /\ Len(d) = 4 /\ d[1] = "CR" /\ d[2] = "LF" /\ d[3] = "CR" /\ d[4] = "LF"
      /\ h[1] = "H" /\ h[2] = "CR" /\ h[3] = "LF" /\ h[4] = "CR" /\ h[5] = "LF" /\ "H" # "CR"
  OBVIOUS
<1> HIDE DEF h, d
<1>4. ASSUME NEW k \in 1 .. Len(d) PROVE h[5 - Len(d) + k] = d[k]
  <2>1. k = 1 \/ k = 2 \/ k = 3 \/ k = 4
    BY <1>3
  <2>2. /\ 5 - Len(d) + 1 = 2 /\ 5 - Len(d) + 2 = 3
        /\ 5 - Len(d) + 3 = 4 /\ 5 - Len(d) + 4 = 5
    BY <1>3
  <2> QED
    BY <1>3, <2>1, <2>2
<1>5. ~ \A k \in 1 .. Len(d) : h[4 - Len(d) + k] = d[k]
  <2>1. 1 \in 1 .. Len(d) /\ 4 - Len(d) + 1 = 1
    BY <1>3
  <2> QED
    BY <1>3, <2>1
<1>6. 5 \in EndsOf(h, d)
  <2>1. 5 \in Len(d) .. Len(h)
    BY <1>3
  <2> QED
    BY <1>2, <1>3, <1>4, <2>1, EndsAt
<1>7. ~ 4 \in EndsOf(h, d)
  BY <1>2, <1>3, <1>5, EndsAt
<1>8. EndsOf(h, d) \subseteq 4 .. 5
  BY <1>3 DEF EndsOf
<1>9. EndsOf(h, d) = {5}
  <2>1. \A i \in 4 .. 5 : i = 4 \/ i = 5
    OBVIOUS
  <2> QED
    BY <1>6, <1>7, <1>8, <2>1
<1>10. Ends(h, d)
  BY <1>3, <1>9 DEF Ends
<1> QED
  BY <1>1, <1>2, <1>3, <1>10

-----------------------------------------------------------------------------
(* Chunks *)

Extensions == {<<>>, <<";">>}

\* The line that announces a chunk.
LineOf(d, ext) == <<Digits[Len(d) + 1]>> \o ext \o CRLF

LEMMA DigitFacts ==
  ASSUME NEW n \in 0 .. 9
  PROVE  /\ Digits[n + 1] \in Byte /\ Digits[n + 1] # "CR" /\ Digits[n + 1] # "LF"
         /\ \A m \in 0 .. 9 : Digits[m + 1] = Digits[n + 1] => m = n
<1>1. /\ Digits[0 + 1] = "0" /\ Digits[1 + 1] = "1" /\ Digits[2 + 1] = "2" /\ Digits[3 + 1] = "3"
      /\ Digits[4 + 1] = "4" /\ Digits[5 + 1] = "5" /\ Digits[6 + 1] = "6" /\ Digits[7 + 1] = "7"
      /\ Digits[8 + 1] = "8" /\ Digits[9 + 1] = "9"
  BY DEF Digits
<1>2. \A m \in 0 .. 9 : m = 0 \/ m = 1 \/ m = 2 \/ m = 3 \/ m = 4 \/ m = 5 \/ m = 6 \/ m = 7 \/ m = 8 \/ m = 9
  OBVIOUS
<1>3. Digits[n + 1] # "CR" /\ Digits[n + 1] # "LF"
  BY <1>1, <1>2
<1>4. ASSUME NEW m \in 0 .. 9, Digits[m + 1] = Digits[n + 1] PROVE m = n
  BY <1>1, <1>2, <1>4
<1> QED
  BY <1>3, <1>4, ByteFacts

LEMMA LengthIsDigit ==
  ASSUME NEW d \in Seq(Symbols), Len(d) <= MaxChunkSize
  PROVE  Len(d) \in 0 .. 9
<1> DEFINE n == Len(d)
<1>1. n \in Nat
  BY LenProperties
<1>2. n <= MaxChunkSize /\ MaxChunkSize \in 1 .. 9
  BY ConstantsAssumption
<1> HIDE DEF n
<1>3. n \in 0 .. 9
  BY <1>1, <1>2
<1> QED
  BY <1>3 DEF n

LEMMA LineIs ==
  ASSUME NEW d \in Seq(Symbols), Len(d) <= MaxChunkSize, NEW ext \in Extensions
  PROVE  /\ LineOf(d, ext) \in Seq(Byte) /\ Len(LineOf(d, ext)) \in 3 .. 4
         /\ CRLF \in Seq(Byte) /\ <<"LF">> \in Seq(Byte)
         /\ LineOf(d, ext)[1] = Digits[Len(d) + 1]
         /\ Ends(LineOf(d, ext), CRLF) /\ Ends(LineOf(d, ext), <<"LF">>)
<1> DEFINE g == Digits[Len(d) + 1]
           h == LineOf(d, ext)
           c == CRLF
           l == <<"LF">>
<1>1. Len(d) \in 0 .. 9
  BY LengthIsDigit
<1>2. g \in Byte /\ g # "CR" /\ g # "LF"
  BY <1>1, DigitFacts
<1>3. "CR" \in Byte /\ "LF" \in Byte /\ ";" \in Byte
  BY ByteFacts
<1>4. c \in Seq(Byte) /\ l \in Seq(Byte) /\ Len(c) = 2 /\ Len(l) = 1
  <2>1. \A a, b \in Byte : <<a, b>> \in Seq(Byte) /\ <<a>> \in Seq(Byte)
    OBVIOUS
  <2>2. c \in Seq(Byte) /\ l \in Seq(Byte)
    BY <1>3, <2>1, Zenon DEF CRLF
  <2> QED
    BY <2>2 DEF CRLF
<1>5. c[1] = "CR" /\ c[2] = "LF" /\ l[1] = "LF"
  BY DEF CRLF
<1> HIDE DEF g
<1>6. /\ h \in Seq(Byte) /\ Len(h) \in 3 .. 4 /\ h[1] = g /\ h[Len(h)] = "LF" /\ h[Len(h) - 1] = "CR"
      /\ \A i \in 1 .. Len(h) : h[i] = "LF" => i = Len(h)
  <2>1. CASE ext = <<>>
    <3>0. <<g>> \o <<>> = <<g>>
      BY <1>2, ConcatEmptySeq
    <3>1. h = <<g, "CR", "LF">>
      <4>1. <<g>> \o <<"CR", "LF">> = <<g, "CR", "LF">>
        BY <1>2, <1>3, Joined12
      <4> QED
        BY <2>1, <3>0, <4>1, Zenon DEF LineOf, CRLF, g
    <3> DEFINE k == <<g, "CR", "LF">>
    <3>2. Len(k) = 3 /\ k[1] = g /\ k[2] = "CR" /\ k[3] = "LF"
      OBVIOUS
    <3>3. k \in Seq(Byte)
      <4>1. \A x, y, z \in Byte : <<x, y, z>> \in Seq(Byte)
        OBVIOUS
      <4> QED
        BY <1>2, <1>3, <4>1, Zenon
    <3> HIDE DEF k
    <3>4. "LF" # "CR" /\ "LF" # ";"
      OBVIOUS
    <3>5. ASSUME NEW i \in 1 .. 3, k[i] = "LF" PROVE i = 3
      <4>1. i = 1 \/ i = 2 \/ i = 3
        OBVIOUS
      <4> QED
        BY <1>2, <3>2, <3>4, <3>5, <4>1
    <3>6. Len(k) \in 3 .. 4 /\ k[Len(k)] = "LF" /\ k[Len(k) - 1] = "CR"
      <4>1. Len(k) - 1 = 2 /\ Len(k) \in 3 .. 4
        BY <3>2
      <4> QED
        BY <3>2, <4>1
    <3> QED
      BY <3>1, <3>2, <3>3, <3>5, <3>6 DEF k
  <2>2. CASE ext = <<";">>
    <3>1. h = <<g, ";", "CR", "LF">>
      <4>1. <<g>> \o <<";">> = <<g, ";">>
        BY <1>2, <1>3, Joined11
      <4>2. <<g, ";">> \o <<"CR", "LF">> = <<g, ";", "CR", "LF">>
        BY <1>2, <1>3, Joined22
      <4> QED
        BY <2>2, <4>1, <4>2, Zenon DEF LineOf, CRLF, g
    <3> DEFINE k == <<g, ";", "CR", "LF">>
    <3>0. Len(k) = 4
      OBVIOUS
    <3>2. Len(k) = 4 /\ k[1] = g /\ k[2] = ";" /\ k[3] = "CR" /\ k[4] = "LF"
      OBVIOUS
    <3>3. k \in Seq(Byte)
      <4>1. \A w, x, y, z \in Byte : <<w, x, y, z>> \in Seq(Byte)
        OBVIOUS
      <4> QED
        BY <1>2, <1>3, <4>1, Zenon
    <3> HIDE DEF k
    <3>4. "LF" # "CR" /\ "LF" # ";"
      OBVIOUS
    <3>5. ASSUME NEW i \in 1 .. 4, k[i] = "LF" PROVE i = 4
      <4>1. i = 1 \/ i = 2 \/ i = 3 \/ i = 4
        OBVIOUS
      <4> QED
        BY <1>2, <3>2, <3>4, <3>5, <4>1
    <3>6. Len(k) \in 3 .. 4 /\ k[Len(k)] = "LF" /\ k[Len(k) - 1] = "CR"
      <4>1. Len(k) - 1 = 3 /\ Len(k) \in 3 .. 4
        BY <3>0
      <4> QED
        BY <3>2, <4>1
    <3> QED
      BY <3>1, <3>2, <3>3, <3>5, <3>6 DEF k
  <2> QED
    BY <2>1, <2>2 DEF Extensions
<1> HIDE DEF h, c, l
<1>7. Ends(h, c)
  <2>1. Len(h) \in EndsOf(h, c)
    <3>1. Len(h) \in Nat /\ Len(h) \in Len(c) .. Len(h)
      BY <1>4, <1>6
    <3>2. ASSUME NEW k \in 1 .. Len(c) PROVE h[Len(h) - Len(c) + k] = c[k]
      <4>1. k = 1 \/ k = 2
        BY <1>4
      <4>2. Len(h) - Len(c) + 1 = Len(h) - 1 /\ Len(h) - Len(c) + 2 = Len(h)
        BY <1>4, <3>1
      <4> QED
        BY <1>5, <1>6, <4>1, <4>2
    <3> QED
      BY <1>4, <1>6, <3>1, <3>2, EndsAt
  <2>2. ASSUME NEW i \in EndsOf(h, c) PROVE i = Len(h)
    <3>1. i \in Nat /\ i \in 2 .. Len(h) /\ i \in 1 .. Len(h)
      BY <1>4, <1>6, <2>2 DEF EndsOf
    <3>2. h[i - Len(c) + 2] = c[2]
      <4>1. 2 \in 1 .. Len(c)
        BY <1>4
      <4>2. \A k \in 1 .. Len(c) : h[i - Len(c) + k] = c[k]
        BY <1>4, <1>6, <2>2, <3>1, EndsAt
      <4> QED
        BY <4>1, <4>2
    <3>3. i - Len(c) + 2 = i
      BY <1>4, <3>1
    <3> QED
      BY <1>5, <1>6, <3>1, <3>2, <3>3
  <2> QED
    BY <2>1, <2>2 DEF Ends
<1>8. Ends(h, l)
  <2>1. Len(h) \in EndsOf(h, l)
    <3>1. Len(h) \in Nat /\ Len(h) \in Len(l) .. Len(h)
      BY <1>4, <1>6
    <3>2. ASSUME NEW k \in 1 .. Len(l) PROVE h[Len(h) - Len(l) + k] = l[k]
      <4>1. k = 1 /\ Len(h) - Len(l) + 1 = Len(h)
        BY <1>4, <3>1
      <4> QED
        BY <1>5, <1>6, <4>1
    <3> QED
      BY <1>4, <1>6, <3>1, <3>2, EndsAt
  <2>2. ASSUME NEW i \in EndsOf(h, l) PROVE i = Len(h)
    <3>1. i \in Nat /\ i \in 1 .. Len(h)
      BY <1>4, <1>6, <2>2 DEF EndsOf
    <3>2. h[i - Len(l) + 1] = l[1]
      <4>1. 1 \in 1 .. Len(l)
        BY <1>4
      <4>2. \A k \in 1 .. Len(l) : h[i - Len(l) + k] = l[k]
        BY <1>4, <1>6, <2>2, <3>1, EndsAt
      <4> QED
        BY <4>1, <4>2
    <3>3. i - Len(l) + 1 = i
      BY <1>4, <3>1
    <3> QED
      BY <1>5, <1>6, <3>1, <3>2, <3>3
  <2> QED
    BY <2>1, <2>2 DEF Ends
<1> QED
  BY <1>4, <1>6, <1>7, <1>8 DEF h, c, l, g

Data == {d \in Seq(Symbols) : d # <<>> /\ Len(d) <= MaxChunkSize}

LEMMA DataFacts ==
  /\ Seq(Symbols) \subseteq Seq(Byte)
  /\ Data \subseteq Seq(Symbols) /\ Seq(Data) \subseteq Seq(Seq(Symbols))
  /\ CRLF \in Seq(Byte) /\ Len(CRLF) = 2
<1>1. Seq(Symbols) \subseteq Seq(Byte)
  BY ByteFacts, SeqMonotonic
<1>2. Data \subseteq Seq(Symbols)
  BY DEF Data
<1>3. Seq(Data) \subseteq Seq(Seq(Symbols))
  BY <1>2, SeqMonotonic
<1>4. CRLF \in Seq(Byte) /\ Len(CRLF) = 2
  <2>1. \A a, b \in Byte : <<a, b>> \in Seq(Byte)
    OBVIOUS
  <2>2. CRLF \in Seq(Byte)
    BY <2>1, ByteFacts, Zenon DEF CRLF
  <2> QED
    BY <2>2 DEF CRLF
<1> QED
  BY <1>1, <1>2, <1>3, <1>4

LEMMA NothingFacts ==
  /\ <<>> \in Seq(Symbols) /\ <<>> \in Seq(Data) /\ <<>> \in Seq(Byte) /\ <<>> \in Extensions
  /\ Len(<<>>) <= MaxChunkSize
<1>1. Len(<<>>) = 0 /\ <<>> \in Seq(Symbols)
  BY EmptySeq
<1>2. <<>> \in Seq(Data) /\ <<>> \in Seq(Byte)
  BY EmptySeq
<1>3. Len(<<>>) <= MaxChunkSize
  <2>1. MaxChunkSize \in 1 .. 9
    BY ConstantsAssumption
  <2>2. 0 <= MaxChunkSize
    BY <2>1
  <2> QED
    BY <1>1, <2>2, Zenon
<1> QED
  BY <1>1, <1>2, <1>3 DEF Extensions

LEMMA ChunkIs ==
  ASSUME NEW d \in Seq(Symbols), Len(d) <= MaxChunkSize, NEW ext \in Extensions
  PROVE  Chunk(d, ext) \in Seq(Byte) /\ Chunk(d, ext) = LineOf(d, ext) \o (d \o CRLF)
<1> DEFINE h == LineOf(d, ext)
<1>1. h \in Seq(Byte) /\ d \in Seq(Byte) /\ CRLF \in Seq(Byte)
  BY LineIs, DataFacts
<1>2. Chunk(d, ext) = (h \o d) \o CRLF
  BY DEF Chunk, LineOf
<1> HIDE DEF h
<1>3. (h \o d) \o CRLF = h \o (d \o CRLF)
  BY <1>1, Grouped, Zenon
<1>4. h \o (d \o CRLF) \in Seq(Byte)
  <2>1. d \o CRLF \in Seq(Byte)
    BY <1>1, Joined
  <2> QED
    BY <1>1, <2>1, Joined
<1> QED
  BY <1>2, <1>3, <1>4 DEF h

LEMMA FunctionIsSeq ==
  ASSUME NEW S, NEW n \in Nat, NEW f \in [1 .. n -> S]
  PROVE  f \in Seq(S) /\ Len(f) = n
<1>1. f \in Seq(S)
  BY SeqDef
<1>2. DOMAIN f = 1 .. Len(f) /\ Len(f) \in Nat
  BY <1>1, LenProperties
<1>3. \A a \in Nat : 1 .. a = 1 .. n => a = n
  <2> TAKE a \in Nat
  <2> HAVE 1 .. a = 1 .. n
  <2>1. a \in 1 .. a \/ a = 0
    OBVIOUS
  <2>2. n \in 1 .. n \/ n = 0
    OBVIOUS
  <2> QED
    BY <2>1, <2>2
<1> QED
  BY <1>1, <1>2, <1>3

\* What the peer sends for chunks, and for all that it has left to send.
Texts(todo, ext) == [i \in DOMAIN todo |-> Chunk(todo[i], ext)]
ChunksText(todo, ext) == FlattenSeq(Texts(todo, ext)) \o Chunk(<<>>, <<>>)

LEMMA TextsAre ==
  ASSUME NEW todo \in Seq(Data), NEW ext \in Extensions
  PROVE  /\ Texts(todo, ext) \in Seq(Seq(Byte)) /\ Len(Texts(todo, ext)) = Len(todo)
         /\ \A i \in 1 .. Len(todo) : Texts(todo, ext)[i] = Chunk(todo[i], ext)
<1>1. Len(todo) \in Nat /\ DOMAIN todo = 1 .. Len(todo)
  BY LenProperties
<1>2. ASSUME NEW i \in 1 .. Len(todo) PROVE Chunk(todo[i], ext) \in Seq(Byte)
  <2>1. todo[i] \in Data
    BY ElementOfSeq
  <2>2. todo[i] \in Seq(Symbols) /\ Len(todo[i]) <= MaxChunkSize
    BY <2>1 DEF Data
  <2> QED
    BY <2>2, ChunkIs
<1>3. Texts(todo, ext) \in [1 .. Len(todo) -> Seq(Byte)]
  BY <1>1, <1>2 DEF Texts
<1>4. \A i \in 1 .. Len(todo) : Texts(todo, ext)[i] = Chunk(todo[i], ext)
  BY <1>1 DEF Texts
<1> QED
  BY <1>1, <1>3, <1>4, FunctionIsSeq

LEMMA NoText ==
  ASSUME NEW ext
  PROVE  Texts(<<>>, ext) = <<>>
<1>1. DOMAIN Texts(<<>>, ext) = {}
  BY DEF Texts
<1> QED
  BY <1>1 DEF Texts

LEMMA TextsTail ==
  ASSUME NEW todo \in Seq(Data), todo # <<>>, NEW ext \in Extensions
  PROVE  Texts(todo, ext) # <<>> /\ Tail(Texts(todo, ext)) = Texts(Tail(todo), ext)
<1> DEFINE s == Texts(todo, ext)
           rest == Tail(todo)
           t == Texts(rest, ext)
<1>1. /\ Len(todo) \in Nat \ {0} /\ rest \in Seq(Data) /\ Len(rest) = Len(todo) - 1
      /\ \A i \in 1 .. Len(todo) - 1 : rest[i] = todo[i + 1]
  BY TailIs
<1> HIDE DEF rest
<1>2. /\ s \in Seq(Seq(Byte)) /\ Len(s) = Len(todo)
      /\ \A i \in 1 .. Len(todo) : s[i] = Chunk(todo[i], ext)
  BY TextsAre
<1>3. /\ t \in Seq(Seq(Byte)) /\ Len(t) = Len(rest)
      /\ \A i \in 1 .. Len(rest) : t[i] = Chunk(rest[i], ext)
  BY <1>1, TextsAre
<1> HIDE DEF s, t
<1>4. s # <<>>
  BY <1>1, <1>2
<1>5. /\ Tail(s) \in Seq(Seq(Byte)) /\ Len(Tail(s)) = Len(s) - 1
      /\ \A i \in 1 .. Len(s) - 1 : Tail(s)[i] = s[i + 1]
  BY <1>2, <1>4, TailIs
<1>6. ASSUME NEW i \in 1 .. Len(Tail(s)) PROVE Tail(s)[i] = t[i]
  <2>1. i \in 1 .. Len(s) - 1 /\ i + 1 \in 1 .. Len(todo) /\ i \in 1 .. Len(rest) /\ i \in 1 .. Len(todo) - 1
    BY <1>1, <1>2, <1>5
  <2> QED
    BY <1>1, <1>2, <1>3, <1>5, <2>1
<1>7. Tail(s) = t
  BY <1>1, <1>2, <1>3, <1>5, <1>6, SeqEqual
<1> QED
  BY <1>4, <1>7 DEF s, t, rest

LEMMA DataFlattens ==
  ASSUME NEW todo \in Seq(Data)
  PROVE  FlattenSeq(todo) \in Seq(Symbols) /\ FlattenSeq(todo) \in Seq(Byte)
<1>1. todo \in Seq(Seq(Symbols))
  BY DataFacts
<1>2. FlattenSeq(todo) \in Seq(Symbols)
  BY <1>1, FlattenTyped
<1> QED
  BY <1>2, DataFacts

LEMMA ChunksTyped ==
  ASSUME NEW todo \in Seq(Data), NEW ext \in Extensions
  PROVE  ChunksText(todo, ext) \in Seq(Byte)
<1>1. FlattenSeq(Texts(todo, ext)) \in Seq(Byte)
  BY TextsAre, FlattenTyped
<1>2. Chunk(<<>>, <<>>) \in Seq(Byte)
  <2>1. <<>> \in Seq(Symbols) /\ Len(<<>>) <= MaxChunkSize /\ <<>> \in Extensions
    BY NothingFacts
  <2> QED
    BY <2>1, ChunkIs
<1> QED
  BY <1>1, <1>2, Joined DEF ChunksText

\* What is left when the data d of a chunk has been read.
Follows(d, rest, text, ext) ==
  /\ d \in Seq(Symbols) /\ Len(d) <= MaxChunkSize
  /\ rest \in Seq(Data) /\ text \in Seq(Byte) /\ ext \in Extensions
  /\ d = <<>> => text = <<>> /\ rest = <<>>
  /\ d # <<>> => text = ChunksText(rest, ext)

LEMMA ChunksFirst ==
  ASSUME NEW todo \in Seq(Data), NEW ext \in Extensions
  PROVE  \E d, rest, text : \E e \in Extensions :
           /\ Follows(d, rest, text, ext)
           /\ ChunksText(todo, ext) = LineOf(d, e) \o (d \o (CRLF \o text))
           /\ FlattenSeq(todo) = d \o FlattenSeq(rest)
<1> DEFINE last == Chunk(<<>>, <<>>)
<1>0. /\ <<>> \in Seq(Symbols) /\ Len(<<>>) <= MaxChunkSize /\ <<>> \in Extensions
      /\ <<>> \in Seq(Byte) /\ <<>> \in Seq(Data)
  BY NothingFacts
<1>1. last \in Seq(Byte) /\ last = LineOf(<<>>, <<>>) \o (<<>> \o CRLF)
  BY <1>0, ChunkIs
<1>2. CRLF \in Seq(Byte) /\ CRLF \o <<>> = CRLF
  BY DataFacts, NothingJoined
<1>3. CASE todo = <<>>
  <2>1. Follows(<<>>, <<>>, <<>>, ext)
    BY <1>0 DEF Follows
  <2>2. ChunksText(todo, ext) = <<>> \o last
    BY <1>3, NoText, FlattenNone DEF ChunksText
  <2>3. <<>> \o last = last
    BY <1>1, NothingJoined
  <2>4. ChunksText(todo, ext) = LineOf(<<>>, <<>>) \o (<<>> \o (CRLF \o <<>>))
    BY <1>1, <1>2, <2>2, <2>3, Zenon
  <2>5. FlattenSeq(todo) = <<>> \o FlattenSeq(<<>>)
    <3>1. <<>> \o <<>> = <<>>
      BY <1>0, NothingJoined
    <3> QED
      BY <1>3, <3>1, FlattenNone
  <2> QED
    BY <1>0, <2>1, <2>4, <2>5, Zenon
<1>4. CASE todo # <<>>
  <2> DEFINE d == todo[1]
             rest == Tail(todo)
             text == ChunksText(rest, ext)
             s == Texts(todo, ext)
             h == LineOf(d, ext)
             more == FlattenSeq(Texts(rest, ext))
  <2>1. d \in Data /\ rest \in Seq(Data) /\ 1 \in 1 .. Len(todo)
    BY <1>4, TailIs
  <2>2. d \in Seq(Symbols) /\ Len(d) <= MaxChunkSize /\ d # <<>>
    BY <2>1 DEF Data
  <2>3. text \in Seq(Byte)
    BY <2>1, ChunksTyped
  <2>4. Follows(d, rest, text, ext)
    <3> HIDE DEF d, rest
    <3> QED
      BY <2>1, <2>2, <2>3 DEF Follows
  <2>5. FlattenSeq(todo) = d \o FlattenSeq(rest)
    <3>1. todo \in Seq(Seq(Symbols))
      BY DataFacts
    <3> QED
      BY <1>4, <3>1, FlattenFirst
  <2>6. s \in Seq(Seq(Byte)) /\ s # <<>> /\ Tail(s) = Texts(rest, ext) /\ s[1] = Chunk(d, ext)
    BY <1>4, <2>1, TextsAre, TextsTail
  <2>7. FlattenSeq(s) = Chunk(d, ext) \o more
    <3> HIDE DEF s, d
    <3>1. FlattenSeq(s) = s[1] \o FlattenSeq(Tail(s))
      BY <2>6, FlattenFirst
    <3> QED
      BY <2>6, <3>1, Zenon
  <2>8. h \in Seq(Byte) /\ Chunk(d, ext) = h \o (d \o CRLF) /\ d \in Seq(Byte)
    BY <2>2, LineIs, ChunkIs, DataFacts
  <2>9. more \in Seq(Byte)
    BY <2>1, TextsAre, FlattenTyped
  <2>10. ChunksText(todo, ext) = ((h \o (d \o CRLF)) \o more) \o last /\ text = more \o last
    BY <2>7, <2>8, Zenon DEF ChunksText
  <2> HIDE DEF last, more, h, d, text
  <2>11. ((h \o (d \o CRLF)) \o more) \o last = h \o (d \o (CRLF \o (more \o last)))
    <3>1. d \o CRLF \in Seq(Byte) /\ more \o last \in Seq(Byte)
      BY <1>1, <1>2, <2>8, <2>9, Joined
    <3>2. h \o (d \o CRLF) \in Seq(Byte)
      BY <2>8, <3>1, Joined
    <3>3. ((h \o (d \o CRLF)) \o more) \o last = (h \o (d \o CRLF)) \o (more \o last)
      BY <1>1, <2>9, <3>2, Grouped, Zenon
    <3>4. (h \o (d \o CRLF)) \o (more \o last) = h \o ((d \o CRLF) \o (more \o last))
      BY <2>8, <3>1, Grouped, Zenon
    <3>5. (d \o CRLF) \o (more \o last) = d \o (CRLF \o (more \o last))
      BY <1>2, <2>8, <3>1, Grouped, Zenon
    <3> QED
      BY <3>3, <3>4, <3>5, Zenon
  <2>12. ChunksText(todo, ext) = h \o (d \o (CRLF \o text))
    BY <2>10, <2>11, Zenon
  <2> QED
    BY <2>4, <2>5, <2>12, Zenon DEF h
<1> QED
  BY <1>3, <1>4

\* When n bytes are taken out of a buffer, t is what there still is to read.
Leaves(b, n, v, t) == Drop(b, n) \o v = t

\* What post_process takes out of the buffer.
LEMMA ChunkTaken ==
  ASSUME NEW b \in Seq(Byte), NEW v \in Seq(Byte), NEW d \in Seq(Symbols), NEW text \in Seq(Byte),
         b \o v = d \o (CRLF \o text), Len(d) + 2 <= Len(b)
  PROVE  /\ SubSeq(b, 1, Len(d)) = d
         /\ Drop(b, Len(d) + 2) \in Seq(Byte) /\ Leaves(b, Len(d) + 2, v, text)
<1>1. d \in Seq(Byte) /\ CRLF \in Seq(Byte) /\ Len(CRLF) = 2
  BY DataFacts
<1>2. Len(d) \in Nat /\ Len(b) \in Nat /\ Len(d) <= Len(b)
  <2>1. Len(d) \in Nat /\ Len(b) \in Nat
    BY LenProperties
  <2> QED
    BY <2>1
<1>3. CRLF \o text \in Seq(Byte) /\ d \o CRLF \in Seq(Byte) /\ Len(d \o CRLF) = Len(d) + 2
  <2>1. CRLF \o text \in Seq(Byte)
    BY <1>1, Joined
  <2>2. d \o CRLF \in Seq(Byte) /\ Len(d \o CRLF) = Len(d) + Len(CRLF)
    BY <1>1, Joined
  <2> QED
    BY <1>1, <2>1, <2>2
<1>4. SubSeq(b, 1, Len(d)) = d
  BY <1>1, <1>2, <1>3, Received
<1>5. (d \o CRLF) \o text = d \o (CRLF \o text)
  BY <1>1, Grouped, ZenonT(40)
<1> DEFINE h == d \o CRLF
<1>6. h \in Seq(Byte) /\ b \o v = h \o text /\ Len(h) = Len(d) + 2 /\ Len(h) <= Len(b)
  BY <1>3, <1>5
<1> HIDE DEF h
<1>7. Drop(b, Len(h)) \in Seq(Byte) /\ Drop(b, Len(h)) \o v = text
  BY <1>6, Received, ZenonT(40)
<1>8. Leaves(b, Len(h), v, text)
  BY <1>7 DEF Leaves
<1> QED
  BY <1>4, <1>6, <1>7, <1>8

\* stol of the line of a chunk is the length of its data.
LEMMA LengthRead ==
  ASSUME NEW s \in Seq(Byte), NEW r \in Seq(Byte), NEW p \in Seq(Byte),
         NEW d \in Seq(Symbols), Len(d) <= MaxChunkSize, NEW ext \in Extensions,
         s \o r = LineOf(d, ext) \o p, Len(LineOf(d, ext)) <= Len(s)
  PROVE  LengthOf(s) = Len(d)
<1> DEFINE h == LineOf(d, ext)
<1>1. h \in Seq(Byte) /\ Len(h) \in 3 .. 4 /\ h[1] = Digits[Len(d) + 1]
  BY LineIs
<1>2. s \o r = h \o p /\ Len(h) <= Len(s)
  OBVIOUS
<1> HIDE DEF h
<1>3. Len(s) \in Nat /\ 1 \in 1 .. Len(h) /\ 1 \in 1 .. Len(s) /\ Len(s) # 0
  <2>1. Len(s) \in Nat
    BY LenProperties
  <2> QED
    BY <1>1, <1>2, <2>1
<1>4. s[1] = h[1]
  BY <1>1, <1>2, <1>3, Shared
<1>5. Head(s) = s[1]
  <2>1. s # <<>>
    BY <1>3, EmptySeq
  <2> QED
    BY <2>1, HeadTailProperties
<1> DEFINE n == Len(d)
<1>6. n \in 0 .. 9 /\ Digits[n + 1] = Head(s)
  BY <1>1, <1>4, <1>5, LengthIsDigit
<1> HIDE DEF n
<1>7. \A m \in 0 .. 9 : Digits[m + 1] = Head(s) => m = n
  BY <1>6, DigitFacts
<1>8. LengthOf(s) = n
  BY <1>6, <1>7 DEF LengthOf
<1> QED
  BY <1>8 DEF n

\* A buffer that holds as much as the stream has holds the stream.
LEMMA AllThere ==
  ASSUME NEW b \in Seq(Byte), NEW w \in Seq(Byte), NEW l \in Seq(Byte), Len(b \o (w \o l)) <= Len(b)
  PROVE  b \o (w \o l) = b /\ w = <<>> /\ l = <<>>
<1>1. w \o l \in Seq(Byte) /\ Len(w \o l) = Len(w) + Len(l) /\ Len(w) \in Nat /\ Len(l) \in Nat
  BY Joined
<1>2. Len(b \o (w \o l)) = Len(b) + Len(w \o l) /\ Len(b) \in Nat
  BY <1>1, Joined
<1>3. Len(w) = 0 /\ Len(l) = 0
  BY <1>1, <1>2
<1>4. w = <<>> /\ l = <<>>
  BY <1>3, NothingJoined
<1> QED
  BY <1>4, NothingJoined

-----------------------------------------------------------------------------
(* The invariant: the bytes that are buffered, on the way or lost when the *)
(* peer broke off are what the reader has still to see of the response.    *)

Types ==
  /\ framing \in Framings
  /\ peer \in {"open", "closed", "cut"}
  /\ phase \in {"header", "content", "rest", "line", "data", "done", "failed"}
  /\ body \in Seq(Symbols) /\ Len(body) <= MaxChunks * MaxChunkSize
  /\ wire \in Seq(Byte) /\ buffer \in Seq(Byte) /\ assembled \in Seq(Byte)
  /\ need \in Nat /\ need <= 2 + Len(body)
  /\ length \in 0 .. MaxChunkSize

HeaderAhead(u) ==
  /\ assembled = <<>>
  /\ \E todo \in Seq(Data), ext \in Extensions :
       /\ body = FlattenSeq(todo)
       /\ u = Header \o (IF framing = "chunked" THEN ChunksText(todo, ext) ELSE body)

ContentAhead(u) == framing = "length" /\ u = body /\ need = Len(body) - Len(buffer)

RestAhead(u) == framing = "close" /\ u = body

LineAhead(u) ==
  /\ framing = "chunked"
  /\ \E todo \in Seq(Data), ext \in Extensions :
       u = ChunksText(todo, ext) /\ body = assembled \o FlattenSeq(todo)

DataAhead(u) ==
  /\ framing = "chunked"
  /\ \E d, rest, text, ext :
       /\ Follows(d, rest, text, ext)
       /\ u = d \o (CRLF \o text) /\ body = assembled \o (d \o FlattenSeq(rest))
       /\ length = Len(d) /\ need = Len(d) + 2 - Len(buffer)

Ahead(u) ==
  /\ phase = "header" => HeaderAhead(u)
  /\ phase = "content" => ContentAhead(u)
  /\ phase = "rest" => RestAhead(u)
  /\ phase = "line" => LineAhead(u)
  /\ phase = "data" => DataAhead(u)

Lost(lost) ==
  /\ lost \in Seq(Byte)
  /\ peer # "cut" => lost = <<>>
  /\ peer = "cut" => wire = <<>>

Inv ==
  /\ Types
  /\ BodyDelivered
  /\ \E lost : Lost(lost) /\ Ahead(buffer \o (wire \o lost))

LEMMA BoundFact == MaxChunks * MaxChunkSize \in Int
<1>1. \A m, n \in Nat : m * n \in Int
  OBVIOUS
<1>2. MaxChunks \in Nat /\ MaxChunkSize \in Nat
  <2>1. MaxChunks \in Nat /\ MaxChunkSize \in 1 .. 9
    BY ConstantsAssumption
  <2> QED
    BY <2>1
<1> QED
  BY <1>1, <1>2, Zenon

\* Where the body ends, the buffer has it all.
LEMMA Delivered ==
  ASSUME Types, NEW lost \in Seq(Byte), buffer \o (wire \o lost) = body, Len(body) <= Len(buffer)
  PROVE  buffer = body /\ wire = <<>> /\ lost = <<>>
<1>1. Len(buffer \o (wire \o lost)) <= Len(buffer)
  OBVIOUS
<1>2. buffer \o (wire \o lost) = buffer /\ wire = <<>> /\ lost = <<>>
  BY <1>1, AllThere DEF Types
<1> QED
  BY <1>2

LEMMA HeaderDoneStep ==
  ASSUME Inv, HeaderDone
  PROVE  Inv'
<1>1. PICK lost : Lost(lost) /\ Ahead(buffer \o (wire \o lost))
  BY DEF Inv
<1>2. Types /\ phase = "header" /\ Found(buffer, CRLF \o CRLF)
  BY DEF Inv, HeaderDone
<1>3. PICK todo \in Seq(Data), ext \in Extensions :
        /\ body = FlattenSeq(todo)
        /\ buffer \o (wire \o lost) = Header \o (IF framing = "chunked" THEN ChunksText(todo, ext) ELSE body)
  BY <1>1, <1>2 DEF Ahead, HeaderAhead
<1>4. assembled = <<>>
  BY <1>1, <1>2 DEF Ahead, HeaderAhead
<1> DEFINE p == IF framing = "chunked" THEN ChunksText(todo, ext) ELSE body
<1>5. PICK v : v = wire \o lost
  OBVIOUS
<1>6. /\ buffer \in Seq(Byte) /\ wire \in Seq(Byte) /\ lost \in Seq(Byte) /\ body \in Seq(Symbols)
      /\ body \in Seq(Byte)
  BY <1>1, <1>2, DataFacts DEF Types, Lost
<1>7. v \in Seq(Byte)
  BY <1>5, <1>6, Joined
<1>8. p \in Seq(Byte)
  BY <1>6, ChunksTyped
<1>9. buffer \o v = Header \o p
  BY <1>3, <1>5
<1> HIDE DEF p
<1>10. 5 <= Len(buffer) /\ Transferred(buffer, CRLF \o CRLF) = 5
  <2>1. CRLF \o CRLF \in Seq(Byte) /\ Header \in Seq(Byte) /\ Ends(Header, CRLF \o CRLF)
    BY HeaderIs
  <2>2. Len(Header) <= Len(buffer) /\ Until(buffer, CRLF \o CRLF, Header)
    BY <1>2, <1>6, <1>7, <1>8, <1>9, <2>1, DelimiterFound
  <2> QED
    BY <2>2, HeaderIs DEF Until
<1>11. /\ Drop(buffer, 5) \in Seq(Byte) /\ Len(Drop(buffer, 5)) = Len(buffer) - 5
       /\ Drop(buffer, 5) \o v = p
  <2>1. Header \in Seq(Byte) /\ Len(Header) <= Len(buffer)
    BY <1>10, HeaderIs
  <2>2. /\ Drop(buffer, Len(Header)) \in Seq(Byte)
        /\ Len(Drop(buffer, Len(Header))) = Len(buffer) - Len(Header)
        /\ Drop(buffer, Len(Header)) \o v = p
    BY <1>6, <1>7, <1>8, <1>9, <2>1, Received, ZenonT(40)
  <2> QED
    BY <2>2, HeaderIs
<1>12. /\ buffer' = Drop(buffer, 5)
       /\ UNCHANGED <<framing, body, wire, peer, length, assembled>>
       /\ \/ /\ framing = "length"
             /\ need' = Missing(Len(body), Len(buffer'))
             /\ phase' = IF need' = 0 THEN "done" ELSE "content"
          \/ framing = "chunked" /\ phase' = "line" /\ UNCHANGED need
          \/ framing = "close" /\ phase' = "rest" /\ UNCHANGED need
  BY <1>10, <1>11 DEF HeaderDone
<1>13. Len(body) \in Nat /\ Len(buffer') \in Nat
  BY <1>6, <1>11, <1>12, LenProperties
<1>14. buffer' \in Seq(Byte) /\ buffer' \o (wire' \o lost) = p
  BY <1>5, <1>11, <1>12
<1>15. Lost(lost)'
  BY <1>1, <1>12 DEF Lost
<1>16. CASE framing = "length"
  <2>1. need' = Missing(Len(body), Len(buffer')) /\ phase' = IF need' = 0 THEN "done" ELSE "content"
    BY <1>12, <1>16
  <2>2. need' \in Nat /\ need' <= 2 + Len(body)
    BY <1>13, <2>1 DEF Missing
  <2>3. Types'
    BY <1>2, <1>12, <1>14, <2>1, <2>2 DEF Types
  <2>4. p = body
    BY <1>16 DEF p
  <2>5. need' = 0 => Len(body) <= Len(buffer')
    BY <1>13, <2>1 DEF Missing
  <2>6. need' # 0 => need' = Len(body) - Len(buffer')
    BY <1>13, <2>1 DEF Missing
  <2>7. CASE need' = 0
    <3>1. Len(buffer' \o (wire' \o lost)) <= Len(buffer')
      BY <1>14, <2>4, <2>5, <2>7
    <3>2. wire' \in Seq(Byte)
      BY <1>6, <1>12
    <3>3. buffer' \o (wire' \o lost) = buffer' /\ wire' = <<>>
      BY <1>6, <1>14, <3>1, <3>2, AllThere
    <3>4. phase' = "done" /\ framing' = "length" /\ buffer' = body' /\ wire' = <<>>
      BY <1>12, <1>14, <1>16, <2>1, <2>4, <2>7, <3>3
    <3>5. BodyDelivered'
      BY <3>4 DEF BodyDelivered
    <3>6. Ahead(buffer \o (wire \o lost))'
      BY <3>4 DEF Ahead
    <3> QED
      BY <1>15, <2>3, <3>5, <3>6 DEF Inv
  <2>8. CASE need' # 0
    <3>1. phase' = "content"
      BY <2>1, <2>8
    <3>2. BodyDelivered'
      BY <3>1 DEF BodyDelivered
    <3>3. ContentAhead(buffer \o (wire \o lost))'
      BY <1>12, <1>14, <1>16, <2>4, <2>6, <2>8 DEF ContentAhead
    <3>4. Ahead(buffer \o (wire \o lost))'
      BY <3>1, <3>3 DEF Ahead
    <3> QED
      BY <1>15, <2>3, <3>2, <3>4 DEF Inv
  <2> QED
    BY <2>7, <2>8
<1>17. CASE framing = "chunked"
  <2>1. phase' = "line" /\ need' = need
    BY <1>12, <1>17
  <2>2. Types'
    BY <1>2, <1>12, <1>14, <2>1 DEF Types
  <2>3. BodyDelivered'
    BY <2>1 DEF BodyDelivered
  <2>4. p = ChunksText(todo, ext)
    BY <1>17 DEF p
  <2>5. body = assembled \o FlattenSeq(todo)
    <3>1. <<>> \o body = body
      BY <1>6, NothingJoined
    <3> QED
      BY <1>3, <1>4, <3>1
  <2>6. LineAhead(buffer \o (wire \o lost))'
    BY <1>12, <1>14, <1>17, <2>4, <2>5 DEF LineAhead
  <2>7. Ahead(buffer \o (wire \o lost))'
    BY <2>1, <2>6 DEF Ahead
  <2> QED
    BY <1>15, <2>2, <2>3, <2>7 DEF Inv
<1>18. CASE framing = "close"
  <2>1. phase' = "rest" /\ need' = need
    BY <1>12, <1>18
  <2>2. Types'
    BY <1>2, <1>12, <1>14, <2>1 DEF Types
  <2>3. BodyDelivered'
    BY <2>1 DEF BodyDelivered
  <2>4. p = body
    BY <1>18 DEF p
  <2>5. RestAhead(buffer \o (wire \o lost))'
    BY <1>12, <1>14, <1>18, <2>4 DEF RestAhead
  <2>6. Ahead(buffer \o (wire \o lost))'
    BY <2>1, <2>5 DEF Ahead
  <2> QED
    BY <1>15, <2>2, <2>3, <2>6 DEF Inv
<1> QED
  BY <1>12, <1>16, <1>17, <1>18

LEMMA ContentDoneStep ==
  ASSUME Inv, ContentDone
  PROVE  Inv'
<1>1. PICK lost : Lost(lost) /\ Ahead(buffer \o (wire \o lost))
  BY DEF Inv
<1>2. /\ Types /\ phase = "content" /\ need = 0 /\ phase' = "done"
      /\ UNCHANGED <<framing, body, wire, peer, buffer, need, length, assembled>>
  BY DEF Inv, ContentDone
<1>3. framing = "length" /\ buffer \o (wire \o lost) = body /\ need = Len(body) - Len(buffer)
  BY <1>1, <1>2 DEF Ahead, ContentAhead
<1>4. Len(body) <= Len(buffer) /\ lost \in Seq(Byte)
  <2>1. Len(body) \in Nat /\ Len(buffer) \in Nat
    BY <1>2, LenProperties DEF Types
  <2> QED
    BY <1>1, <1>2, <1>3, <2>1 DEF Lost
<1>5. buffer = body /\ wire = <<>>
  BY <1>2, <1>3, <1>4, Delivered
<1>6. Types'
  BY <1>2 DEF Types
<1>7. BodyDelivered'
  BY <1>2, <1>3, <1>5 DEF BodyDelivered
<1>8. Lost(lost)' /\ Ahead(buffer \o (wire \o lost))'
  BY <1>1, <1>2 DEF Lost, Ahead
<1> QED
  BY <1>6, <1>7, <1>8 DEF Inv

LEMMA NothingLeft ==
  ASSUME NEW s \in Seq(Byte), NEW t \in Seq(Byte), s \o t = <<>>
  PROVE  s = <<>> /\ t = <<>>
BY ConcatEqualIffEmpty

\* The last part of the handlers of a line and of a chunk's data.
LEMMA PostProcessStep ==
  ASSUME Types, NEW lost, Lost(lost), framing = "chunked",
         NEW b \in Seq(Byte), NEW d, NEW rest, NEW text, NEW ext, Follows(d, rest, text, ext),
         b \o (wire \o lost) = d \o (CRLF \o text), Len(d) + 2 <= Len(b),
         body = assembled \o (d \o FlattenSeq(rest)),
         assembled' = assembled \o SubSeq(b, 1, Len(d)),
         IF Len(d) > 0 THEN phase' = "line" /\ buffer' = Drop(b, Len(d) + 2)
                       ELSE phase' = "done" /\ buffer' = Drop(b, Len(d) + 2) \o assembled',
         UNCHANGED <<framing, body, wire, peer>>,
         need' \in Nat, need' <= 2 + Len(body), length' \in 0 .. MaxChunkSize
  PROVE  Inv'
<1>1. /\ wire \in Seq(Byte) /\ lost \in Seq(Byte) /\ assembled \in Seq(Byte)
      /\ d \in Seq(Symbols) /\ text \in Seq(Byte) /\ rest \in Seq(Data) /\ d \in Seq(Byte)
  BY DataFacts DEF Types, Lost, Follows
<1>2. PICK v : v = wire \o lost
  OBVIOUS
<1>3. v \in Seq(Byte)
  BY <1>1, <1>2, Joined
<1>4. b \o v = d \o (CRLF \o text)
  BY <1>2
<1>5. PICK left : left = Drop(b, Len(d) + 2)
  OBVIOUS
<1>6. SubSeq(b, 1, Len(d)) = d /\ left \in Seq(Byte) /\ left \o v = text
  <2>1. SubSeq(b, 1, Len(d)) = d
    BY <1>1, <1>3, <1>4, ChunkTaken, Zenon
  <2>2. Drop(b, Len(d) + 2) \in Seq(Byte)
    BY <1>1, <1>3, <1>4, ChunkTaken, Zenon
  <2>3. Leaves(b, Len(d) + 2, v, text)
    BY <1>1, <1>3, <1>4, ChunkTaken, Zenon
  <2> QED
    BY <1>5, <2>1, <2>2, <2>3 DEF Leaves
<1>7. assembled' = assembled \o d /\ assembled' \in Seq(Byte)
  BY <1>1, <1>6, Joined
<1>8. Lost(lost)'
  BY DEF Lost
<1>9. Len(d) \in Nat /\ (Len(d) = 0 <=> d = <<>>)
  BY <1>1, EmptySeq, LenProperties
<1>10. FlattenSeq(rest) \in Seq(Byte)
  BY <1>1, DataFlattens
<1>11. CASE d = <<>>
  <2>1. text = <<>> /\ rest = <<>>
    BY <1>11 DEF Follows
  <2>2. left = <<>> /\ v = <<>>
    BY <1>3, <1>6, <2>1, NothingLeft
  <2>3. wire = <<>>
    BY <1>1, <1>2, <2>2, NothingLeft
  <2>4. phase' = "done" /\ buffer' = left \o assembled'
    BY <1>5, <1>9, <1>11
  <2>5. body = assembled'
    <3>1. <<>> \o <<>> = <<>>
      BY <1>1, NothingJoined
    <3>2. d \o FlattenSeq(rest) = <<>>
      BY <1>11, <2>1, <3>1, FlattenNone
    <3> QED
      BY <1>7, <1>11, <3>2
  <2>6. buffer' = assembled'
    BY <1>7, <2>2, <2>4, NothingJoined
  <2>7. Types'
    BY <1>7, <2>4, <2>6 DEF Types
  <2>8. BodyDelivered'
    BY <2>3, <2>4, <2>5, <2>6 DEF BodyDelivered
  <2>9. Ahead(buffer \o (wire \o lost))'
    BY <2>4 DEF Ahead
  <2> QED
    BY <1>8, <2>7, <2>8, <2>9 DEF Inv
<1>12. CASE d # <<>>
  <2>1. text = ChunksText(rest, ext) /\ ext \in Extensions
    BY <1>12 DEF Follows
  <2>2. phase' = "line" /\ buffer' = left
    <3>1. Len(d) > 0
      BY <1>9, <1>12
    <3> QED
      BY <1>5, <3>1
  <2>3. body' = assembled' \o FlattenSeq(rest)
    <3> DEFINE f == FlattenSeq(rest)
    <3>1. body' = body /\ body = assembled \o (d \o f)
      OBVIOUS
    <3>2. f \in Seq(Byte)
      BY <1>10
    <3> HIDE DEF f
    <3>3. Cat(Cat(assembled, d), f) = Cat(assembled, Cat(d, f))
      BY <1>1, <3>2, DataRegrouped
    <3>4. (assembled \o d) \o f = assembled \o (d \o f)
      BY <3>3, Zenon DEF Cat
    <3> QED
      BY <1>7, <3>1, <3>4 DEF f
  <2>4. buffer' \o (wire' \o lost) = ChunksText(rest, ext)
    BY <1>2, <1>6, <2>1, <2>2
  <2>5. Types'
    BY <1>6, <1>7, <2>2 DEF Types
  <2>6. BodyDelivered'
    BY <2>2 DEF BodyDelivered
  <2>7. LineAhead(buffer \o (wire \o lost))'
    BY <1>1, <2>1, <2>3, <2>4 DEF LineAhead
  <2>8. Ahead(buffer \o (wire \o lost))'
    BY <2>2, <2>7 DEF Ahead
  <2> QED
    BY <1>8, <2>5, <2>6, <2>8 DEF Inv
<1> QED
  BY <1>11, <1>12

\* Data that is still to be read is part of the body.
LEMMA DataBound ==
  ASSUME Types, NEW d, NEW rest, NEW text, NEW ext, Follows(d, rest, text, ext),
         body = assembled \o (d \o FlattenSeq(rest))
  PROVE  Len(d) \in Nat /\ Len(d) <= Len(body) /\ Len(d) \in 0 .. MaxChunkSize
<1>1. d \in Seq(Byte) /\ FlattenSeq(rest) \in Seq(Byte) /\ assembled \in Seq(Byte)
  BY DataFacts, DataFlattens DEF Types, Follows
<1> DEFINE t == d \o FlattenSeq(rest)
<1>2. t \in Seq(Byte) /\ Len(t) = Len(d) + Len(FlattenSeq(rest)) /\ Len(d) \in Nat /\ Len(FlattenSeq(rest)) \in Nat
  BY <1>1, Joined
<1> HIDE DEF t
<1>3. Len(assembled \o t) = Len(assembled) + Len(t) /\ Len(assembled) \in Nat
  BY <1>1, <1>2, Joined
<1>4. Len(body) = Len(assembled) + Len(t)
  BY <1>3 DEF t
<1>5. Len(d) <= Len(body)
  BY <1>2, <1>3, <1>4
<1>6. Len(d) \in 0 .. MaxChunkSize
  <2>1. Len(d) <= MaxChunkSize /\ MaxChunkSize \in 1 .. 9
    BY ConstantsAssumption DEF Follows
  <2> QED
    BY <1>2, <2>1
<1> QED
  BY <1>2, <1>5, <1>6

LEMMA DataDoneStep ==
  ASSUME Inv, DataDone
  PROVE  Inv'
<1>1. PICK lost : Lost(lost) /\ Ahead(buffer \o (wire \o lost))
  BY DEF Inv
<1>2. /\ Types /\ phase = "data" /\ need = 0 /\ PostProcess(buffer, length)
      /\ UNCHANGED <<framing, body, wire, peer, need, length>>
  BY DEF Inv, DataDone
<1>3. DataAhead(buffer \o (wire \o lost))
  BY <1>1, <1>2 DEF Ahead
<1>4. PICK d, rest, text, ext :
        /\ Follows(d, rest, text, ext)
        /\ buffer \o (wire \o lost) = d \o (CRLF \o text)
        /\ body = assembled \o (d \o FlattenSeq(rest))
        /\ length = Len(d) /\ need = Len(d) + 2 - Len(buffer)
  BY <1>3 DEF DataAhead
<1>5. framing = "chunked"
  BY <1>3 DEF DataAhead
<1>6. PICK b : b = buffer
  OBVIOUS
<1>7. b \in Seq(Byte) /\ Len(d) + 2 <= Len(b)
  <2>1. buffer \in Seq(Byte) /\ Len(buffer) \in Nat /\ Len(d) \in Nat
    BY <1>2, <1>4, DataBound, LenProperties DEF Types
  <2> QED
    BY <1>2, <1>4, <1>6, <2>1
<1>8. /\ assembled' = assembled \o SubSeq(b, 1, Len(d))
      /\ IF Len(d) > 0 THEN phase' = "line" /\ buffer' = Drop(b, Len(d) + 2)
                       ELSE phase' = "done" /\ buffer' = Drop(b, Len(d) + 2) \o assembled'
  BY <1>2, <1>4, <1>6 DEF PostProcess
<1>9. need' \in Nat /\ need' <= 2 + Len(body) /\ length' \in 0 .. MaxChunkSize
  BY <1>2 DEF Types
<1> QED
  BY <1>1, <1>2, <1>4, <1>5, <1>6, <1>7, <1>8, <1>9, PostProcessStep

LEMMA LineDoneStep ==
  ASSUME Inv, LineDone
  PROVE  Inv'
<1>1. PICK lost : Lost(lost) /\ Ahead(buffer \o (wire \o lost))
  BY DEF Inv
<1>2. /\ Types /\ phase = "line" /\ Found(buffer, CRLF)
      /\ UNCHANGED <<framing, body, wire, peer>>
  BY DEF Inv, LineDone
<1>3. LineAhead(buffer \o (wire \o lost))
  BY <1>1, <1>2 DEF Ahead
<1>4. PICK todo \in Seq(Data), ext \in Extensions :
        buffer \o (wire \o lost) = ChunksText(todo, ext) /\ body = assembled \o FlattenSeq(todo)
  BY <1>3 DEF LineAhead
<1>5. framing = "chunked"
  BY <1>3 DEF LineAhead
<1>6. PICK d, rest, text : \E e \in Extensions :
        /\ Follows(d, rest, text, ext)
        /\ ChunksText(todo, ext) = LineOf(d, e) \o (d \o (CRLF \o text))
        /\ FlattenSeq(todo) = d \o FlattenSeq(rest)
  BY ChunksFirst
<1>7. PICK e \in Extensions :
        /\ Follows(d, rest, text, ext)
        /\ ChunksText(todo, ext) = LineOf(d, e) \o (d \o (CRLF \o text))
        /\ FlattenSeq(todo) = d \o FlattenSeq(rest)
  BY <1>6
<1>8. PICK v, h, p : v = wire \o lost /\ h = LineOf(d, e) /\ p = d \o (CRLF \o text)
  OBVIOUS
<1>9. /\ buffer \in Seq(Byte) /\ wire \in Seq(Byte) /\ lost \in Seq(Byte)
      /\ d \in Seq(Symbols) /\ Len(d) <= MaxChunkSize /\ text \in Seq(Byte) /\ d \in Seq(Byte)
  BY <1>1, <1>2, <1>7, DataFacts DEF Types, Lost, Follows
<1>10. v \in Seq(Byte) /\ p \in Seq(Byte)
  <2>1. CRLF \o text \in Seq(Byte)
    BY <1>9, DataFacts, Joined
  <2> QED
    BY <1>8, <1>9, <2>1, Joined
<1>11. /\ h \in Seq(Byte) /\ Len(h) \in 3 .. 4 /\ CRLF \in Seq(Byte) /\ <<"LF">> \in Seq(Byte)
       /\ Ends(h, CRLF) /\ Ends(h, <<"LF">>)
  BY <1>8, <1>9, LineIs
<1>12. buffer \o v = h \o p
  BY <1>4, <1>7, <1>8
<1>13. Len(h) <= Len(buffer) /\ Until(buffer, CRLF, h)
  BY <1>2, <1>9, <1>10, <1>11, <1>12, DelimiterFound
<1>14. Until(buffer, <<"LF">>, h)
  BY <1>9, <1>10, <1>11, <1>12, <1>13, DelimiterThere
<1>15. LengthOf(buffer) = Len(d)
  <2>1. buffer \o v = LineOf(d, e) \o p /\ Len(LineOf(d, e)) <= Len(buffer)
    BY <1>8, <1>12, <1>13
  <2> QED
    BY <1>9, <1>10, <2>1, LengthRead
<1>16. PICK b : b = Drop(buffer, Len(h))
  OBVIOUS
<1>17. b \in Seq(Byte) /\ b \o v = p /\ Len(b) \in Nat
  <2>1. Drop(buffer, Len(h)) \in Seq(Byte) /\ Drop(buffer, Len(h)) \o v = p
    BY <1>9, <1>10, <1>11, <1>12, <1>13, Received, ZenonT(40)
  <2> QED
    BY <1>16, <2>1, LenProperties
<1>18. /\ length' = Len(d)
       /\ need' = Missing(2 + Len(d), Len(b))
       /\ IF need' = 0
          THEN PostProcess(b, Len(d))
          ELSE phase' = "data" /\ buffer' = b /\ UNCHANGED assembled
  <2>1. Transferred(buffer, CRLF) = Len(h) /\ Transferred(buffer, <<"LF">>) = Len(h)
    BY <1>13, <1>14 DEF Until
  <2>2. Len(h) - Len(h) = 0 /\ Len(b) - 0 = Len(b)
    BY <1>11, <1>17
  <2>3. length' = Len(d) /\ need' = Missing(2 + length', Len(b) - (Len(h) - Len(h)))
    BY <1>15, <1>16, <2>1 DEF LineDone
  <2>4. need' = Missing(2 + Len(d), Len(b))
    BY <2>2, <2>3
  <2>5. IF need' = 0
        THEN PostProcess(b, Len(d))
        ELSE phase' = "data" /\ buffer' = b /\ UNCHANGED assembled
    BY <1>15, <1>16, <2>1 DEF LineDone, PostProcess
  <2> QED
    BY <2>3, <2>4, <2>5
<1>19. body = assembled \o (d \o FlattenSeq(rest))
  BY <1>4, <1>7
<1>20. Len(d) \in Nat /\ Len(d) <= Len(body) /\ Len(d) \in 0 .. MaxChunkSize
  BY <1>2, <1>7, <1>19, DataBound
<1>21. Len(body) \in Nat
  BY <1>2, LenProperties DEF Types
<1>22. need' \in Nat /\ need' <= 2 + Len(body) /\ length' \in 0 .. MaxChunkSize
  BY <1>17, <1>18, <1>20, <1>21 DEF Missing
<1>23. CASE need' = 0
  <2>1. Len(d) + 2 <= Len(b)
    BY <1>17, <1>18, <1>20, <1>23 DEF Missing
  <2>2. /\ assembled' = assembled \o SubSeq(b, 1, Len(d))
        /\ IF Len(d) > 0 THEN phase' = "line" /\ buffer' = Drop(b, Len(d) + 2)
                         ELSE phase' = "done" /\ buffer' = Drop(b, Len(d) + 2) \o assembled'
    BY <1>18, <1>23 DEF PostProcess
  <2>3. b \o (wire \o lost) = d \o (CRLF \o text)
    BY <1>8, <1>17
  <2> QED
    BY <1>1, <1>2, <1>5, <1>7, <1>17, <1>19, <1>22, <2>1, <2>2, <2>3, PostProcessStep
<1>24. CASE need' # 0
  <2>1. phase' = "data" /\ buffer' = b /\ assembled' = assembled
    BY <1>18, <1>24
  <2>2. need' = Len(d) + 2 - Len(b)
    BY <1>17, <1>18, <1>20, <1>24 DEF Missing
  <2>3. Types'
    BY <1>2, <1>17, <1>22, <2>1 DEF Types
  <2>4. BodyDelivered'
    BY <2>1 DEF BodyDelivered
  <2>5. buffer' \o (wire' \o lost) = d \o (CRLF \o text)
    BY <1>2, <1>8, <1>17, <2>1
  <2>6. DataAhead(buffer \o (wire \o lost))'
    BY <1>2, <1>5, <1>7, <1>18, <1>19, <2>1, <2>2, <2>5 DEF DataAhead
  <2>7. Lost(lost)'
    BY <1>1, <1>2 DEF Lost
  <2>8. Ahead(buffer \o (wire \o lost))'
    BY <2>1, <2>6 DEF Ahead
  <2> QED
    BY <2>3, <2>4, <2>7, <2>8 DEF Inv
<1> QED
  BY <1>23, <1>24

LEMMA ReceiveStep ==
  ASSUME Inv, Receive
  PROVE  Inv'
<1>1. PICK lost : Lost(lost) /\ Ahead(buffer \o (wire \o lost))
  BY DEF Inv
<1>2. PICK n \in 1 .. Len(wire) :
        /\ buffer' = buffer \o SubSeq(wire, 1, n)
        /\ wire' = Drop(wire, n)
        /\ IF phase \in {"content", "data"} THEN n <= need /\ need' = need - n
                                            ELSE UNCHANGED need
  BY DEF Receive
<1>3. /\ Types /\ phase # "done"
      /\ UNCHANGED <<framing, body, peer, phase, length, assembled>>
  BY DEF Inv, Receive, Reading
<1>4. /\ buffer \in Seq(Byte) /\ wire \in Seq(Byte) /\ lost \in Seq(Byte)
      /\ Len(wire) \in Nat /\ Len(buffer) \in Nat /\ Len(body) \in Nat /\ n \in Nat /\ n <= Len(wire)
  BY <1>1, <1>3, LenProperties DEF Types, Lost
<1>5. PICK a, c : a = SubSeq(wire, 1, n) /\ c = Drop(wire, n)
  OBVIOUS
<1>6. a \in Seq(Byte) /\ Len(a) = n /\ c \in Seq(Byte) /\ a \o c = wire
  <2>1. n \in 0 .. Len(wire)
    BY <1>4
  <2> QED
    BY <1>4, <1>5, <2>1, Taken
<1>7. buffer' = buffer \o a /\ wire' = c
  BY <1>2, <1>5
<1>8. buffer' \in Seq(Byte) /\ Len(buffer') = Len(buffer) + n /\ wire' \in Seq(Byte)
  BY <1>4, <1>6, <1>7, Joined
<1>9. buffer' \o (wire' \o lost) = buffer \o (wire \o lost)
  <2>0. buffer \in Seq(Byte) /\ a \in Seq(Byte) /\ c \in Seq(Byte) /\ lost \in Seq(Byte)
    BY <1>4, <1>6
  <2>1. c \o lost \in Seq(Byte)
    BY <2>0, Joined
  <2>2. (buffer \o a) \o (c \o lost) = buffer \o (a \o (c \o lost))
    BY <2>0, <2>1, Grouped, ZenonT(40)
  <2>3. (a \o c) \o lost = a \o (c \o lost)
    BY <2>0, Grouped, Zenon
  <2> QED
    BY <1>6, <1>7, <2>2, <2>3
<1>10. Lost(lost)'
  <2>1. peer # "cut"
    <3>1. Len(wire) # 0
      BY <1>4
    <3>2. wire # <<>>
      BY <3>1, EmptySeq
    <3> QED
      BY <1>1, <3>2 DEF Lost
  <2> QED
    BY <1>1, <1>3, <2>1 DEF Lost
<1>11. need' \in Nat /\ need' <= need
  BY <1>2, <1>3, <1>4 DEF Types
<1>12. Types'
  <2>1. need' <= 2 + Len(body)
    BY <1>3, <1>4, <1>11 DEF Types
  <2> QED
    BY <1>3, <1>8, <1>11, <2>1 DEF Types
<1>13. BodyDelivered'
  BY <1>3 DEF BodyDelivered
<1>14. need \in Nat /\ need \in Int
  BY <1>3 DEF Types
<1>15. phase = "content" => ContentAhead(buffer \o (wire \o lost))'
  <2> SUFFICES ASSUME phase = "content" PROVE ContentAhead(buffer \o (wire \o lost))'
    OBVIOUS
  <2>1. framing = "length" /\ buffer \o (wire \o lost) = body /\ need = Len(body) - Len(buffer)
    BY <1>1 DEF Ahead, ContentAhead
  <2>2. need' = need - n
    BY <1>2
  <2>3. need' = Len(body) - Len(buffer')
    BY <1>4, <1>8, <2>1, <2>2
  <2> QED
    BY <1>3, <1>9, <2>1, <2>3 DEF ContentAhead
<1>16. phase = "data" => DataAhead(buffer \o (wire \o lost))'
  <2> SUFFICES ASSUME phase = "data" PROVE DataAhead(buffer \o (wire \o lost))'
    OBVIOUS
  <2>1. DataAhead(buffer \o (wire \o lost))
    BY <1>1 DEF Ahead
  <2>2. PICK d, rest, text, ext :
          /\ Follows(d, rest, text, ext)
          /\ buffer \o (wire \o lost) = d \o (CRLF \o text)
          /\ body = assembled \o (d \o FlattenSeq(rest))
          /\ length = Len(d) /\ need = Len(d) + 2 - Len(buffer)
    BY <2>1 DEF DataAhead
  <2>3. need' = need - n /\ Len(d) \in Nat
    BY <1>2, <1>3, <2>2, DataBound
  <2>4. need' = Len(d) + 2 - Len(buffer')
    BY <1>4, <1>8, <2>2, <2>3
  <2> QED
    BY <1>3, <1>9, <2>1, <2>2, <2>4 DEF DataAhead
<1>17. phase = "header" => HeaderAhead(buffer \o (wire \o lost))'
  <2> SUFFICES ASSUME phase = "header" PROVE HeaderAhead(buffer \o (wire \o lost))'
    OBVIOUS
  <2>1. HeaderAhead(buffer \o (wire \o lost))
    BY <1>1 DEF Ahead
  <2> QED
    BY <1>3, <1>9, <2>1 DEF HeaderAhead
<1>18. phase = "rest" => RestAhead(buffer \o (wire \o lost))'
  BY <1>1, <1>3, <1>9 DEF Ahead, RestAhead
<1>19. phase = "line" => LineAhead(buffer \o (wire \o lost))'
  <2> SUFFICES ASSUME phase = "line" PROVE LineAhead(buffer \o (wire \o lost))'
    OBVIOUS
  <2>1. LineAhead(buffer \o (wire \o lost))
    BY <1>1 DEF Ahead
  <2> QED
    BY <1>3, <1>9, <2>1 DEF LineAhead
<1>20. Ahead(buffer \o (wire \o lost))'
  BY <1>3, <1>15, <1>16, <1>17, <1>18, <1>19 DEF Ahead
<1> QED
  BY <1>10, <1>12, <1>13, <1>20 DEF Inv

LEMMA PrefixOf ==
  ASSUME NEW s \in Seq(Byte), NEW t \in Seq(Byte)
  PROVE  IsPrefix(s, s \o t)
<1>1. s \o t \in Seq(Byte) /\ Len(s) <= Len(s \o t) /\ <<>> \in Seq(Byte)
  <2>1. s \o t \in Seq(Byte) /\ Len(s \o t) = Len(s) + Len(t) /\ Len(s) \in Nat /\ Len(t) \in Nat
    BY Joined
  <2> QED
    BY <2>1, NothingJoined
<1> DEFINE a == s \o t
<1>2. a \in Seq(Byte) /\ a \o <<>> = s \o t /\ Len(s) <= Len(a)
  BY <1>1, NothingJoined
<1> HIDE DEF a
<1>3. SubSeq(a, 1, Len(s)) = s
  BY <1>1, <1>2, Received
<1>4. SubSeq(s, 1, Len(s)) = s
  BY SubSeqFull
<1> QED
  BY <1>2, <1>3, <1>4 DEF IsPrefix, a

LEMMA EndOfStreamStep ==
  ASSUME Inv, EndOfStream
  PROVE  Inv'
<1>1. PICK lost : Lost(lost) /\ Ahead(buffer \o (wire \o lost))
  BY DEF Inv
<1>2. /\ Types /\ peer # "open" /\ wire = <<>>
      /\ \/ phase = "rest" /\ phase' = "done"
         \/ phase' = "failed"
      /\ UNCHANGED <<framing, body, wire, peer, buffer, need, length, assembled>>
  BY DEF Inv, EndOfStream
<1>3. Types' /\ Lost(lost)'
  BY <1>1, <1>2 DEF Types, Lost
<1>4. Ahead(buffer \o (wire \o lost))'
  BY <1>2 DEF Ahead
<1>5. BodyDelivered'
  <2>1. CASE phase' = "failed"
    BY <2>1 DEF BodyDelivered
  <2>2. CASE phase = "rest" /\ phase' = "done"
    <3>1. framing = "close" /\ buffer \o (wire \o lost) = body
      BY <1>1, <2>2 DEF Ahead, RestAhead
    <3>2. buffer \in Seq(Byte) /\ lost \in Seq(Byte)
      BY <1>1, <1>2 DEF Types, Lost
    <3>3. body = buffer \o lost
      <4>1. <<>> \o lost = lost
        BY <3>2, NothingJoined
      <4> QED
        BY <1>2, <3>1, <4>1
    <3>4. IsPrefix(buffer, body)
      BY <3>2, <3>3, PrefixOf
    <3>5. peer # "cut" => buffer = body
      <4>1. buffer \o <<>> = buffer
        BY <3>2, NothingJoined
      <4> QED
        BY <1>1, <3>3, <4>1 DEF Lost
    <3>6. UNCHANGED <<framing, body, wire, peer, buffer>>
      BY <1>2
    <3>7. IF framing' = "close" /\ peer' = "cut"
          THEN IsPrefix(buffer', body')
          ELSE buffer' = body' /\ wire' = <<>>
      BY <1>2, <3>1, <3>4, <3>5, <3>6
    <3> QED
      BY <3>7 DEF BodyDelivered
  <2> QED
    BY <1>2, <2>1, <2>2
<1> QED
  BY <1>3, <1>4, <1>5 DEF Inv

LEMMA PeerClosesStep ==
  ASSUME Inv, PeerCloses
  PROVE  Inv'
<1>1. PICK lost : Lost(lost) /\ Ahead(buffer \o (wire \o lost))
  BY DEF Inv
<1>2. /\ Types /\ BodyDelivered /\ peer = "open"
      /\ \/ peer' = "closed" /\ wire' = wire
         \/ peer' = "cut" /\ wire # <<>> /\ wire' = <<>>
      /\ UNCHANGED <<framing, body, phase, buffer, need, length, assembled>>
  BY DEF Inv, PeerCloses
<1>3. lost = <<>> /\ wire \in Seq(Byte) /\ <<>> \in Seq(Byte)
  BY <1>1, <1>2, EmptySeq DEF Lost, Types
<1>4. Types'
  BY <1>2, <1>3 DEF Types
<1>5. BodyDelivered'
  BY <1>2 DEF BodyDelivered
<1>6. PICK gone : gone = IF peer' = "cut" THEN wire ELSE <<>>
  OBVIOUS
<1>7. Lost(gone)'
  BY <1>2, <1>3, <1>6 DEF Lost
<1>8. wire' \o gone = wire \o lost
  <2>1. wire \o <<>> = wire /\ <<>> \o wire = wire
    BY <1>3, NothingJoined
  <2> QED
    BY <1>2, <1>3, <1>6, <2>1
<1>9. buffer' \o (wire' \o gone) = buffer \o (wire \o lost)
  BY <1>2, <1>8
<1>10. Ahead(buffer \o (wire \o gone))'
  <2>1. phase = "header" => HeaderAhead(buffer \o (wire \o gone))'
    BY <1>1, <1>2, <1>9 DEF Ahead, HeaderAhead
  <2>2. phase = "content" => ContentAhead(buffer \o (wire \o gone))'
    BY <1>1, <1>2, <1>9 DEF Ahead, ContentAhead
  <2>3. phase = "rest" => RestAhead(buffer \o (wire \o gone))'
    BY <1>1, <1>2, <1>9 DEF Ahead, RestAhead
  <2>4. phase = "line" => LineAhead(buffer \o (wire \o gone))'
    BY <1>1, <1>2, <1>9 DEF Ahead, LineAhead
  <2>5. phase = "data" => DataAhead(buffer \o (wire \o gone))'
    BY <1>1, <1>2, <1>9 DEF Ahead, DataAhead
  <2> QED
    BY <1>2, <2>1, <2>2, <2>3, <2>4, <2>5 DEF Ahead
<1> QED
  BY <1>4, <1>5, <1>7, <1>10 DEF Inv

LEMMA SeqOfTyped ==
  ASSUME NEW S, NEW n \in Nat, NEW s \in SeqOf(S, n)
  PROVE  s \in Seq(S) /\ Len(s) \in Nat /\ Len(s) <= n
<1>1. PICK m \in 0 .. n : s \in [1 .. m -> S]
  BY DEF SeqOf
<1>2. m \in Nat /\ m <= n
  BY <1>1
<1>3. s \in Seq(S) /\ Len(s) = m
  BY <1>1, <1>2, FunctionIsSeq
<1> QED
  BY <1>2, <1>3

LEMMA Times ==
  ASSUME NEW a \in Nat, NEW b \in Nat, NEW m \in Nat, NEW n \in Nat, a <= b, n <= a * m
  PROVE  n <= b * m
<1>1. PICK c \in Nat : b = a + c
  <2>1. b - a \in Nat /\ b = a + (b - a)
    OBVIOUS
  <2> QED
    BY <2>1
<1>2. (a + c) * m = a * m + c * m
  OBVIOUS
<1>3. a * m \in Nat /\ c * m \in Nat
  OBVIOUS
<1> DEFINE x == a * m
           y == c * m
<1>4. x \in Nat /\ y \in Nat /\ n <= x
  BY <1>3
<1> HIDE DEF x, y
<1>5. n <= x + y
  BY <1>4
<1> QED
  BY <1>1, <1>2, <1>5, Zenon DEF x, y

LEMMA Bounds == MaxChunks \in Nat /\ MaxChunkSize \in Nat /\ 0 \in 0 .. MaxChunkSize
<1>1. MaxChunks \in Nat /\ MaxChunkSize \in 1 .. 9
  BY ConstantsAssumption
<1> QED
  BY <1>1

LEMMA DataSize ==
  ASSUME NEW chunks \in Seq(Data), Len(chunks) <= MaxChunks
  PROVE  Len(FlattenSeq(chunks)) <= MaxChunks * MaxChunkSize
<1>1. \A i \in 1 .. Len(chunks) : Len(chunks[i]) <= MaxChunkSize
  <2> TAKE i \in 1 .. Len(chunks)
  <2>1. chunks[i] \in Data
    BY ElementOfSeq
  <2> QED
    BY <2>1 DEF Data
<1>2. chunks \in Seq(Seq(Symbols))
  BY DataFacts
<1>3. Len(FlattenSeq(chunks)) <= Len(chunks) * MaxChunkSize
  BY <1>1, <1>2, Bounds, FlattenBound
<1>4. Len(FlattenSeq(chunks)) \in Nat /\ Len(chunks) \in Nat
  BY DataFlattens, LenProperties
<1> QED
  BY <1>3, <1>4, Bounds, Times, Zenon

LEMMA InitStep ==
  ASSUME Init
  PROVE  Inv
<1>1. PICK chunks \in SeqOf(SeqOf(Symbols, MaxChunkSize) \ {<<>>}, MaxChunks), ext \in Extensions :
        body = FlattenSeq(chunks) /\ wire = Encoded(framing, chunks, ext)
  BY DEF Init, Extensions
<1>2. /\ framing \in Framings /\ peer = "open" /\ phase = "header" /\ buffer = <<>> /\ need = 0
      /\ length = 0 /\ assembled = <<>>
  BY DEF Init
<1>3. MaxChunks \in Nat /\ MaxChunkSize \in Nat
  BY Bounds
<1> DEFINE D == SeqOf(Symbols, MaxChunkSize) \ {<<>>}
<1>4. D \subseteq Data
  <2> SUFFICES ASSUME NEW d \in D PROVE d \in Data
    OBVIOUS
  <2>1. d \in SeqOf(Symbols, MaxChunkSize) /\ d # <<>>
    OBVIOUS
  <2>2. d \in Seq(Symbols) /\ Len(d) <= MaxChunkSize
    BY <1>3, <2>1, SeqOfTyped
  <2> QED
    BY <2>1, <2>2 DEF Data
<1>5. chunks \in SeqOf(D, MaxChunks)
  OBVIOUS
<1> HIDE DEF D
<1>6. chunks \in Seq(D) /\ Len(chunks) \in Nat /\ Len(chunks) <= MaxChunks
  BY <1>3, <1>5, SeqOfTyped
<1>7. chunks \in Seq(Data) /\ ext \in Extensions
  <2>1. Seq(D) \subseteq Seq(Data)
    BY <1>4, SeqMonotonic
  <2> QED
    BY <1>6, <2>1
<1>8. body \in Seq(Symbols) /\ body \in Seq(Byte)
  BY <1>1, <1>7, DataFlattens
<1>9. Len(body) <= MaxChunks * MaxChunkSize
  BY <1>1, <1>6, <1>7, DataSize
<1> DEFINE x == IF framing = "chunked" THEN ChunksText(chunks, ext) ELSE body
<1>10. wire = Header \o x
  BY <1>1 DEF Encoded, Header, ChunksText, Texts
<1>11. x \in Seq(Byte)
  BY <1>7, <1>8, ChunksTyped
<1>12. wire \in Seq(Byte)
  <2> HIDE DEF x
  <2> QED
    BY <1>10, <1>11, HeaderIs, Joined
<1>13. Len(body) \in Nat /\ <<>> \in Seq(Byte)
  BY <1>8, LenProperties, EmptySeq
<1>14. Types
  <2>1. 0 \in 0 .. MaxChunkSize /\ 0 <= 2 + Len(body) /\ 0 \in Nat
    BY <1>13, Bounds
  <2> QED
    BY <1>2, <1>8, <1>9, <1>12, <1>13, <2>1 DEF Types
<1>15. BodyDelivered
  BY <1>2 DEF BodyDelivered
<1>16. Lost(<<>>)
  BY <1>2, <1>13 DEF Lost
<1>17. buffer \o (wire \o <<>>) = Header \o x
  <2>1. wire \o <<>> = wire /\ <<>> \o wire = wire
    BY <1>12, NothingJoined
  <2> QED
    BY <1>2, <1>10, <2>1
<1>18. HeaderAhead(buffer \o (wire \o <<>>))
  BY <1>1, <1>2, <1>7, <1>17 DEF HeaderAhead
<1>19. Ahead(buffer \o (wire \o <<>>))
  BY <1>2, <1>18 DEF Ahead
<1> QED
  BY <1>14, <1>15, <1>16, <1>19 DEF Inv

LEMMA Step ==
  ASSUME Inv, [Next]_vars
  PROVE  Inv'
<1>1. CASE Next
  BY <1>1, HeaderDoneStep, ContentDoneStep, LineDoneStep, DataDoneStep, ReceiveStep,
     EndOfStreamStep, PeerClosesStep DEF Next
<1>2. CASE UNCHANGED vars
  <2>1. UNCHANGED <<framing, body, wire, peer, phase, buffer, need, length, assembled>>
    BY <1>2 DEF vars
  <2>2. PICK lost : Lost(lost) /\ Ahead(buffer \o (wire \o lost))
    BY DEF Inv
  <2>3. Lost(lost)' /\ Ahead(buffer \o (wire \o lost))'
    BY <2>1, <2>2 DEF Lost, Ahead, HeaderAhead, ContentAhead, RestAhead, LineAhead, DataAhead
  <2>4. Types' /\ BodyDelivered'
    BY <2>1 DEF Inv, Types, BodyDelivered
  <2> QED
    BY <2>3, <2>4 DEF Inv
<1> QED
  BY <1>1, <1>2

(* What the reader has still to see of the response of request_read and    *)
(* request_read_chunked is in its stream buffer, on the way or lost.       *)
THEOREM Invariance == Spec => []Inv
<1>1. Init => Inv
  BY InitStep
<1>2. Inv /\ [Next]_vars => Inv'
  BY Step
<1> QED
  BY <1>1, <1>2, PTL DEF Spec

(* The lengths that request_read and request_read_chunked compute stay in  *)
(* their ranges: no chunk is longer than MaxChunkSize, and no more bytes   *)
(* are waited for than a body and the end of a line.                       *)
THEOREM TypeCorrect == Spec => []TypeOK
<1>1. Inv => TypeOK
  <2> SUFFICES ASSUME Inv PROVE TypeOK
    OBVIOUS
  <2>1. Types
    BY DEF Inv
  <2>2. need \in 0 .. 2 + MaxChunks * MaxChunkSize
    <3>1. need \in Nat /\ need <= 2 + Len(body) /\ Len(body) <= MaxChunks * MaxChunkSize /\ Len(body) \in Nat
      BY <2>1, LenProperties DEF Types
    <3> DEFINE z == MaxChunks * MaxChunkSize
    <3>2. z \in Int /\ Len(body) <= z
      BY <3>1, BoundFact
    <3> HIDE DEF z
    <3>3. need \in 0 .. 2 + z
      BY <3>1, <3>2
    <3> QED
      BY <3>3 DEF z
  <2>3. \A s \in Seq(Byte) : Range(s) \subseteq Byte
    BY RangeOfSeq
  <2>4. \A s \in {body, wire, buffer, assembled} : s \in Seq(Byte)
    BY <2>1, DataFacts DEF Types
  <2>5. \A s \in {body, wire, buffer, assembled} : Range(s) \subseteq Byte
    BY <2>3, <2>4
  <2> QED
    BY <2>1, <2>2, <2>5 DEF Types, TypeOK, Byte
<1> QED
  BY <1>1, Invariance, PTL

(* When request_read is done, its buffer holds the body and nothing else,  *)
(* for all framings, lengths and contents and however the bytes were cut.  *)
THEOREM BodyIsDelivered == Spec => []BodyDelivered
<1>1. Inv => BodyDelivered
  BY DEF Inv
<1> QED
  BY <1>1, Invariance, PTL

-----------------------------------------------------------------------------
(* Recursive functions that walk through a text and list what they find *)

\* From each of the m places, the walk ends (0) or goes on to a later one.
Onward(m, next) == \A c \in 1 .. m : next[c] = 0 \/ next[c] \in c + 1 .. m

Lists(m, next, item, f) ==
  /\ f = [c \in 1 .. m |-> f[c]]
  /\ \A c \in 1 .. m : f[c] = IF next[c] = 0 THEN <<>> ELSE <<item[c]>> \o f[next[c]]

LEMMA ListExists ==
  ASSUME NEW m \in Nat, NEW next, NEW item, Onward(m, next)
  PROVE  \E f : Lists(m, next, item, f)
<1> DEFINE Behind(n, g) ==
             \A c \in 1 .. m : m - c < n =>
               g[c] = IF next[c] = 0 THEN <<>> ELSE <<item[c]>> \o g[next[c]]
           N == {n \in Nat : \E g : Behind(n, g)}
<1>1. 0 \in N
  <2>1. Behind(0, <<>>)
    OBVIOUS
  <2> QED
    BY <2>1
<1>2. ASSUME NEW n \in Nat, n \in N PROVE n + 1 \in N
  <2>1. PICK g : Behind(n, g)
    BY <1>2
  <2> DEFINE New(c) == IF next[c] = 0 THEN <<>> ELSE <<item[c]>> \o g[next[c]]
             h == [c \in 1 .. m |-> IF m - c < n THEN g[c] ELSE New(c)]
  <2>2. \A c \in 1 .. m : h[c] = New(c) \/ (m - c < n /\ h[c] = g[c])
    OBVIOUS
  <2>3. \A c \in 1 .. m : m - c < n => g[c] = New(c)
    BY <2>1
  <2>4. ASSUME NEW c \in 1 .. m, m - c < n + 1, next[c] # 0 PROVE h[next[c]] = g[next[c]]
    <3>1. next[c] \in 1 .. m /\ m - next[c] < n
      BY <2>4 DEF Onward
    <3> QED
      BY <3>1
  <2> HIDE DEF h
  <2>5. ASSUME NEW c \in 1 .. m, m - c < n + 1
        PROVE  h[c] = IF next[c] = 0 THEN <<>> ELSE <<item[c]>> \o h[next[c]]
    <3>1. h[c] = New(c)
      BY <2>2, <2>3
    <3> QED
      BY <2>4, <2>5, <3>1
  <2>6. Behind(n + 1, h)
    BY <2>5
  <2> HIDE DEF Behind
  <2>7. n + 1 \in Nat /\ \E k : Behind(n + 1, k)
    BY <2>6
  <2> QED
    BY <2>7
<1>3. Nat \subseteq N
  <2> HIDE DEF N
  <2> QED
    BY <1>1, <1>2, Induction
<1>4. PICK g : Behind(m, g)
  BY <1>3
<1> DEFINE f == [c \in 1 .. m |-> g[c]]
<1>5. ASSUME NEW c \in 1 .. m
      PROVE  g[c] = IF next[c] = 0 THEN <<>> ELSE <<item[c]>> \o f[next[c]]
  <2>1. m - c < m
    OBVIOUS
  <2>2. next[c] # 0 => f[next[c]] = g[next[c]]
    BY DEF Onward
  <2> QED
    BY <1>4, <2>1, <2>2
<1>6. f = [c \in 1 .. m |-> f[c]] /\ \A c \in 1 .. m : f[c] = g[c]
  OBVIOUS
<1> HIDE DEF f
<1>7. Lists(m, next, item, f)
  BY <1>5, <1>6 DEF Lists
<1> QED
  BY <1>7

First(k, g) == [j \in 1 .. k |-> g[j]]

OneMoreOf(x, k, g) == [j \in 1 .. k + 1 |-> IF j = 1 THEN x ELSE g[j - 1]]

LEMMA OneMore == \A x, g : \A k \in Nat : <<x>> \o First(k, g) = OneMoreOf(x, k, g)
<1> SUFFICES ASSUME NEW x, NEW k \in Nat, NEW g PROVE <<x>> \o First(k, g) = OneMoreOf(x, k, g)
  OBVIOUS
<1> DEFINE S == {x} \cup {g[j] : j \in 1 .. k}
           s == [j \in 1 .. k |-> g[j]]
           t == [j \in 1 .. k + 1 |-> IF j = 1 THEN x ELSE g[j - 1]]
<1>1. s \in Seq(S) /\ Len(s) = k
  <2>1. s \in [1 .. k -> S]
    OBVIOUS
  <2> HIDE DEF s, S
  <2> QED
    BY <2>1, FunctionIsSeq
<1>2. t \in Seq(S) /\ Len(t) = k + 1
  <2>1. t \in [1 .. k + 1 -> S]
    <3>1. ASSUME NEW j \in 1 .. k + 1, j # 1 PROVE g[j - 1] \in S
      <4>1. j - 1 \in 1 .. k
        BY <3>1
      <4> QED
        BY <4>1
    <3> QED
      BY <3>1
  <2>2. k + 1 \in Nat
    OBVIOUS
  <2> HIDE DEF t, S
  <2> QED
    BY <2>1, <2>2, FunctionIsSeq
<1>3. \A j \in 1 .. k : s[j] = g[j]
  OBVIOUS
<1>4. \A j \in 1 .. k + 1 : t[j] = IF j = 1 THEN x ELSE g[j - 1]
  OBVIOUS
<1>5. x \in S
  OBVIOUS
<1> HIDE DEF s, t, S
<1>6. <<x>> \in Seq(S) /\ Len(<<x>>) = 1 /\ <<x>>[1] = x
  BY <1>5
<1>7. /\ <<x>> \o s \in Seq(S) /\ Len(<<x>> \o s) = 1 + k
      /\ \A i \in 1 .. 1 + k : (<<x>> \o s)[i] = IF i <= 1 THEN <<x>>[i] ELSE s[i - 1]
  BY <1>1, <1>6, ConcatProperties
<1>8. ASSUME NEW i \in 1 .. Len(<<x>> \o s) PROVE (<<x>> \o s)[i] = t[i]
  <2>1. i \in 1 .. 1 + k /\ i \in 1 .. k + 1
    BY <1>7
  <2>2. CASE i = 1
    BY <1>4, <1>6, <1>7, <2>1, <2>2
  <2>3. CASE i # 1
    <3>1. i - 1 \in 1 .. k /\ ~ i <= 1
      BY <2>1, <2>3
    <3> QED
      BY <1>3, <1>4, <1>7, <2>1, <2>3, <3>1
  <2> QED
    BY <2>2, <2>3
<1>9. <<x>> \o s = t
  <2>1. Len(<<x>> \o s) = Len(t)
    BY <1>2, <1>7
  <2> QED
    BY <1>2, <1>7, <1>8, <2>1, SeqEqual
<1> QED
  BY <1>9 DEF s, t, First, OneMoreOf

\* The places where the walk finds the n elements of val, and where it ends.
Walks(m, next, item, n, at, val) ==
  /\ \A j \in 1 .. n + 1 : at[j] \in 1 .. m
  /\ \A j \in 1 .. n : next[at[j]] = at[j + 1] /\ item[at[j]] = val[j]
  /\ next[at[n + 1]] = 0

LEMMA WalkLists ==
  ASSUME NEW m \in Nat, NEW next, NEW item, NEW f, Lists(m, next, item, f),
         NEW n \in Nat, NEW at, NEW val, Walks(m, next, item, n, at, val)
  PROVE  f[at[1]] = [j \in 1 .. n |-> val[j]]
<1> DEFINE Rest(k) == [j \in 1 .. k |-> val[n - k + j]]
           N == {k \in Nat : k <= n => f[at[n + 1 - k]] = Rest(k)}
<1>0. \A c \in 1 .. m : f[c] = IF next[c] = 0 THEN <<>> ELSE <<item[c]>> \o f[next[c]]
  BY DEF Lists
<1>1. 0 \in N
  <2>1. n + 1 - 0 = n + 1 /\ n + 1 \in 1 .. n + 1
    OBVIOUS
  <2>2. f[at[n + 1]] = <<>>
    BY <1>0, <2>1 DEF Walks
  <2>3. Rest(0) = <<>>
    OBVIOUS
  <2> QED
    BY <2>1, <2>2, <2>3
<1>2. ASSUME NEW k \in Nat, k \in N PROVE k + 1 \in N
  <2> SUFFICES ASSUME k + 1 <= n PROVE f[at[n + 1 - (k + 1)]] = Rest(k + 1)
    OBVIOUS
  <2> DEFINE j == n - k
  <2>1. /\ j \in 1 .. n /\ j \in 1 .. n + 1 /\ n + 1 - (k + 1) = j /\ n + 1 - k = j + 1
        /\ j + 1 \in 1 .. n + 1 /\ k <= n
    OBVIOUS
  <2>2. f[at[j + 1]] = Rest(k)
    BY <1>2, <2>1
  <2>3. next[at[j]] = at[j + 1] /\ item[at[j]] = val[j] /\ at[j] \in 1 .. m /\ at[j + 1] \in 1 .. m
    BY <2>1 DEF Walks
  <2>4. f[at[j]] = <<val[j]>> \o Rest(k)
    <3>1. at[j + 1] # 0
      BY <2>3
    <3>2. f[at[j]] = <<item[at[j]]>> \o f[at[j + 1]]
      BY <1>0, <2>3, <3>1
    <3> QED
      BY <2>2, <2>3, <3>2
  <2> DEFINE g == [i \in 1 .. k |-> val[n - k + i]]
  <2>5. Rest(k) = First(k, g)
    BY DEF First
  <2>6. <<val[j]>> \o Rest(k) = OneMoreOf(val[j], k, g)
    <3> HIDE DEF g, j, Rest
    <3>1. <<val[j]>> \o First(k, g) = OneMoreOf(val[j], k, g)
      BY OneMore
    <3> QED
      BY <2>5, <3>1
  <2>7. ASSUME NEW i \in 1 .. k + 1
        PROVE  (IF i = 1 THEN val[j] ELSE g[i - 1]) = val[n - (k + 1) + i]
    <3>1. CASE i = 1
      <4>1. n - (k + 1) + i = j
        BY <3>1
      <4> QED
        BY <3>1, <4>1
    <3>2. CASE i # 1
      <4>1. i - 1 \in 1 .. k /\ n - k + (i - 1) = n - (k + 1) + i
        BY <3>2
      <4> QED
        BY <3>2, <4>1
    <3> QED
      BY <3>1, <3>2
  <2>8. OneMoreOf(val[j], k, g) = Rest(k + 1)
    BY <2>7 DEF OneMoreOf
  <2> QED
    BY <2>1, <2>4, <2>6, <2>8
<1>3. n \in N
  <2>1. Nat \subseteq N
    <3> HIDE DEF N
    <3> QED
      BY <1>1, <1>2, Induction
  <2> QED
    BY <2>1
<1>4. f[at[n + 1 - n]] = Rest(n) /\ n + 1 - n = 1
  BY <1>3
<1>5. Rest(n) = [j \in 1 .. n |-> val[j]]
  OBVIOUS
<1> QED
  BY <1>4, <1>5

-----------------------------------------------------------------------------
(* Decode *)

Code == 32 .. 126

LEMMA HexDigitIs ==
  ASSUME NEW n \in 0 .. 15
  PROVE  HexDigit(n) \in HexDigits /\ HexValue(HexDigit(n)) = n /\ HexDigit(n) \in Nat /\ HexDigit(n) # Ampersand
<1>1. CASE n < 10
  <2>1. HexDigit(n) = 48 + n /\ 48 + n \in 48 .. 57 /\ (48 + n) - 48 = n
    BY <1>1 DEF HexDigit
  <2> QED
    BY <2>1 DEF HexValue, HexDigits, Digit09, Ampersand
<1>2. CASE ~ n < 10
  <2>1. HexDigit(n) = 55 + n /\ 55 + n \in 65 .. 70 /\ (55 + n) - 55 = n /\ 55 + n \notin 48 .. 57
    BY <1>2 DEF HexDigit
  <2> QED
    BY <2>1 DEF HexValue, HexDigits, Digit09, Ampersand
<1> QED
  BY <1>1, <1>2

LEMMA ChrIs ==
  ASSUME NEW a \in HexDigits, NEW b \in HexDigits
  PROVE  Chr(a, b) = 16 * HexValue(a) + HexValue(b)
<1>1. a # Space /\ a # Plus /\ a # Minus
  BY DEF HexDigits, Digit09, Space, Plus, Minus
<1>2. a \in HexDigits /\ b \in HexDigits /\ a \notin {Space, Plus}
  BY <1>1
<1> DEFINE x == 16 * HexValue(a) + HexValue(b)
<1> HIDE DEF x
<1> QED
  BY <1>1, <1>2, Zenon DEF Chr

\* The decoding computes the code that was escaped.
LEMMA EscapeIs ==
  ASSUME NEW c \in Code
  PROVE  /\ HexDigit(c \div 16) \in Nat /\ HexDigit(c \div 16) # Ampersand
         /\ HexDigit(c % 16) \in Nat /\ HexDigit(c % 16) # Ampersand
         /\ Chr(HexDigit(c \div 16), HexDigit(c % 16)) = c
<1> DEFINE a == c \div 16
           b == c % 16
<1>1. a \in 0 .. 15 /\ b \in 0 .. 15 /\ 16 * a + b = c
  BY DEF Code
<1> HIDE DEF a, b
<1>2. /\ HexDigit(a) \in HexDigits /\ HexValue(HexDigit(a)) = a /\ HexDigit(a) \in Nat /\ HexDigit(a) # Ampersand
      /\ HexDigit(b) \in HexDigits /\ HexValue(HexDigit(b)) = b /\ HexDigit(b) \in Nat /\ HexDigit(b) # Ampersand
  BY <1>1, HexDigitIs
<1>3. Chr(HexDigit(a), HexDigit(b)) = c
  BY <1>1, <1>2, ChrIs
<1> QED
  BY <1>2, <1>3 DEF a, b

\* Places p to e - 1 of v spell the character c.
SpeltAt(v, p, e, c) ==
  /\ p \in 1 .. Len(v)
  /\ \/ /\ e = p + 3 /\ p + 2 <= Len(v)
        /\ v[p] = Percent /\ v[p + 1] = HexDigit(c \div 16) /\ v[p + 2] = HexDigit(c % 16)
     \/ e = p + 1 /\ c = Space /\ v[p] = Plus
     \/ e = p + 1 /\ c \in WordCharacters \cup {Minus} /\ v[p] = c

\* v is a way to write val.
Spells(v, val, at) ==
  /\ \A j \in 1 .. Len(val) + 1 : at[j] \in 1 .. Len(v) + 1
  /\ at[1] = 1
  /\ at[Len(val) + 1] = Len(v) + 1
  /\ \A j \in 1 .. Len(val) : SpeltAt(v, at[j], at[j + 1], val[j])
Written(v, val) == \E at : Spells(v, val, at)

DecodeNext(v) ==
  [c \in 1 .. Len(v) + 1 |->
     CASE c > Len(v)                              -> 0
       [] c <= Len(v) /\ v[c] = Plus              -> c + 1
       [] c + 2 <= Len(v) /\ v[c] = Percent       -> c + 3
       [] OTHER                                   -> c + 1]
DecodeItem(v) ==
  [c \in 1 .. Len(v) + 1 |->
     CASE c <= Len(v) /\ v[c] = Plus              -> Space
       [] c + 2 <= Len(v) /\ v[c] = Percent       -> Chr(v[c + 1], v[c + 2])
       [] OTHER                                   -> v[c]]

Decodes(v, f) ==
  f = [c \in 1 .. Len(v) + 1 |->
        CASE c > Len(v)                              -> <<>>
          [] c <= Len(v) /\ v[c] = Plus              -> <<Space>> \o f[c + 1]
          [] c + 2 <= Len(v) /\ v[c] = Percent       -> <<Chr(v[c + 1], v[c + 2])>> \o f[c + 3]
          [] OTHER                                   -> <<v[c]>> \o f[c + 1]]

LEMMA DecodeStep ==
  ASSUME NEW v \in Seq(Nat), NEW f, NEW c \in 1 .. Len(v) + 1
  PROVE  (CASE c > Len(v)                              -> <<>>
            [] c <= Len(v) /\ v[c] = Plus              -> <<Space>> \o f[c + 1]
            [] c + 2 <= Len(v) /\ v[c] = Percent       -> <<Chr(v[c + 1], v[c + 2])>> \o f[c + 3]
            [] OTHER                                   -> <<v[c]>> \o f[c + 1])
         = IF DecodeNext(v)[c] = 0 THEN <<>> ELSE <<DecodeItem(v)[c]>> \o f[DecodeNext(v)[c]]
<1>1. Len(v) \in Nat /\ Plus # Percent
  BY LenProperties DEF Plus, Percent
<1>2. CASE c > Len(v)
  <2>1. DecodeNext(v)[c] = 0
    BY <1>1, <1>2 DEF DecodeNext
  <2> QED
    BY <1>1, <1>2, <2>1
<1>3. CASE c <= Len(v) /\ v[c] = Plus
  <2>1. DecodeNext(v)[c] = c + 1 /\ c + 1 # 0 /\ DecodeItem(v)[c] = Space
    BY <1>1, <1>3, SMTT(30) DEF DecodeNext, DecodeItem
  <2> QED
    BY <1>1, <1>3, <2>1, SMTT(30)
<1>4. CASE c + 2 <= Len(v) /\ v[c] = Percent
  <2>1. DecodeNext(v)[c] = c + 3 /\ c + 3 # 0 /\ DecodeItem(v)[c] = Chr(v[c + 1], v[c + 2])
    BY <1>1, <1>4 DEF DecodeNext, DecodeItem
  <2>2. ~ c > Len(v) /\ ~ (c <= Len(v) /\ v[c] = Plus)
    BY <1>1, <1>4
  <2> QED
    BY <1>4, <2>1, <2>2
<1>5. CASE c <= Len(v) /\ v[c] # Plus /\ ~ (c + 2 <= Len(v) /\ v[c] = Percent)
  <2>1. DecodeNext(v)[c] = c + 1 /\ c + 1 # 0 /\ DecodeItem(v)[c] = v[c] /\ ~ c > Len(v)
    BY <1>1, <1>5 DEF DecodeNext, DecodeItem
  <2> QED
    BY <1>5, <2>1
<1> QED
  BY <1>1, <1>2, <1>3, <1>4, <1>5

LEMMA DecodeOnward == ASSUME NEW v \in Seq(Nat) PROVE Onward(Len(v) + 1, DecodeNext(v))
<1>1. Len(v) \in Nat
  BY LenProperties
<1>2. ASSUME NEW c \in 1 .. Len(v) + 1
      PROVE  DecodeNext(v)[c] = 0 \/ DecodeNext(v)[c] \in c + 1 .. Len(v) + 1
  <2>1. CASE c > Len(v)
    BY <1>1, <2>1 DEF DecodeNext
  <2>2. CASE ~ c > Len(v)
    <3>1. DecodeNext(v)[c] = c + 1 \/ (c + 2 <= Len(v) /\ DecodeNext(v)[c] = c + 3)
      BY <1>1, <2>2 DEF DecodeNext
    <3> QED
      BY <1>1, <2>2, <3>1
  <2> QED
    BY <2>1, <2>2
<1> QED
  BY <1>2 DEF Onward

LEMMA DecodeIs ==
  ASSUME NEW v \in Seq(Nat)
  PROVE  \E f : Lists(Len(v) + 1, DecodeNext(v), DecodeItem(v), f) /\ Decode(v) = f[1]
<1>1. Len(v) + 1 \in Nat
  BY LenProperties
<1>2. \E f : Decodes(v, f)
  <2>1. PICK f : Lists(Len(v) + 1, DecodeNext(v), DecodeItem(v), f)
    BY <1>1, DecodeOnward, ListExists
  <2>2. ASSUME NEW c \in 1 .. Len(v) + 1
        PROVE  f[c] = CASE c > Len(v)                              -> <<>>
                        [] c <= Len(v) /\ v[c] = Plus              -> <<Space>> \o f[c + 1]
                        [] c + 2 <= Len(v) /\ v[c] = Percent       -> <<Chr(v[c + 1], v[c + 2])>> \o f[c + 3]
                        [] OTHER                                   -> <<v[c]>> \o f[c + 1]
    <3>1. f[c] = IF DecodeNext(v)[c] = 0 THEN <<>> ELSE <<DecodeItem(v)[c]>> \o f[DecodeNext(v)[c]]
      BY <2>1 DEF Lists
    <3> QED
      BY <3>1, DecodeStep
  <2>3. f = [c \in 1 .. Len(v) + 1 |-> f[c]]
    BY <2>1 DEF Lists
  <2>4. Decodes(v, f)
    BY <2>2, <2>3 DEF Decodes
  <2> QED
    BY <2>4
<1> DEFINE f == CHOOSE f : Decodes(v, f)
<1>3. Decodes(v, f)
  BY <1>2
<1>4. Decode(v) = f[1]
  BY DEF Decode, Decodes
<1> HIDE DEF f
<1>5. f = [c \in 1 .. Len(v) + 1 |-> f[c]]
  BY <1>3 DEF Decodes
<1>6. ASSUME NEW c \in 1 .. Len(v) + 1
      PROVE  f[c] = IF DecodeNext(v)[c] = 0 THEN <<>> ELSE <<DecodeItem(v)[c]>> \o f[DecodeNext(v)[c]]
  <2>1. f[c] = CASE c > Len(v)                              -> <<>>
                 [] c <= Len(v) /\ v[c] = Plus              -> <<Space>> \o f[c + 1]
                 [] c + 2 <= Len(v) /\ v[c] = Percent       -> <<Chr(v[c + 1], v[c + 2])>> \o f[c + 3]
                 [] OTHER                                   -> <<v[c]>> \o f[c + 1]
    BY <1>3 DEF Decodes
  <2> QED
    BY <2>1, DecodeStep
<1>7. Lists(Len(v) + 1, DecodeNext(v), DecodeItem(v), f)
  BY <1>5, <1>6 DEF Lists
<1> QED
  BY <1>4, <1>7

LEMMA SpeltIs ==
  ASSUME NEW v \in Seq(Nat), NEW p, NEW e, NEW c \in Code, SpeltAt(v, p, e, c)
  PROVE  p \in 1 .. Len(v) + 1 /\ DecodeNext(v)[p] = e /\ DecodeItem(v)[p] = c
<1>1. Len(v) \in Nat /\ p \in 1 .. Len(v) /\ p \in 1 .. Len(v) + 1 /\ ~ p > Len(v) /\ p <= Len(v)
  BY LenProperties DEF SpeltAt
<1>2. Plus # Percent
  BY DEF Plus, Percent
<1>3. CASE /\ e = p + 3 /\ p + 2 <= Len(v)
           /\ v[p] = Percent /\ v[p + 1] = HexDigit(c \div 16) /\ v[p + 2] = HexDigit(c % 16)
  <2>1. DecodeNext(v)[p] = p + 3
    BY <1>1, <1>2, <1>3 DEF DecodeNext
  <2>2. DecodeItem(v)[p] = Chr(v[p + 1], v[p + 2])
    BY <1>1, <1>2, <1>3 DEF DecodeItem
  <2>3. Chr(HexDigit(c \div 16), HexDigit(c % 16)) = c
    BY EscapeIs
  <2> QED
    BY <1>1, <1>3, <2>1, <2>2, <2>3
<1>4. CASE e = p + 1 /\ c = Space /\ v[p] = Plus
  <2>1. DecodeNext(v)[p] = p + 1
    BY <1>1, <1>2, <1>4 DEF DecodeNext
  <2>2. DecodeItem(v)[p] = Space
    BY <1>1, <1>2, <1>4 DEF DecodeItem
  <2> QED
    BY <1>1, <1>4, <2>1, <2>2
<1>5. CASE e = p + 1 /\ c \in WordCharacters \cup {Minus} /\ v[p] = c
  <2>1. v[p] # Plus /\ v[p] # Percent
    BY <1>5, SMTT(30) DEF WordCharacters, Digit09, Upper, Lower, Minus, Plus, Percent
  <2> QED
    BY <1>1, <1>5, <2>1 DEF DecodeNext, DecodeItem
<1> QED
  BY <1>3, <1>4, <1>5 DEF SpeltAt

LEMMA DecodesTo ==
  ASSUME NEW v \in Seq(Nat), NEW val \in Seq(Code), Written(v, val)
  PROVE  Decode(v) = val
<1>1. PICK at : Spells(v, val, at)
  BY DEF Written
<1>2. PICK f : Lists(Len(v) + 1, DecodeNext(v), DecodeItem(v), f) /\ Decode(v) = f[1]
  BY DecodeIs
<1>3. Len(v) \in Nat /\ Len(val) \in Nat /\ Len(v) + 1 \in Nat
  BY LenProperties
<1>4. Walks(Len(v) + 1, DecodeNext(v), DecodeItem(v), Len(val), at, val)
  <2>1. \A j \in 1 .. Len(val) + 1 : at[j] \in 1 .. Len(v) + 1
    BY <1>1 DEF Spells
  <2>2. ASSUME NEW j \in 1 .. Len(val)
        PROVE  DecodeNext(v)[at[j]] = at[j + 1] /\ DecodeItem(v)[at[j]] = val[j]
    <3>1. SpeltAt(v, at[j], at[j + 1], val[j])
      BY <1>1 DEF Spells
    <3>2. val[j] \in Code
      BY ElementOfSeq
    <3> QED
      BY <3>1, <3>2, SpeltIs
  <2>3. DecodeNext(v)[at[Len(val) + 1]] = 0
    <3>1. at[Len(val) + 1] = Len(v) + 1
      BY <1>1 DEF Spells
    <3>2. Len(v) + 1 \in 1 .. Len(v) + 1 /\ Len(v) + 1 > Len(v)
      BY <1>3
    <3>3. DecodeNext(v)[Len(v) + 1] = 0
      BY <1>3, <3>2 DEF DecodeNext
    <3> QED
      BY <3>1, <3>3
  <2> QED
    BY <2>1, <2>2, <2>3 DEF Walks
<1>5. f[at[1]] = [j \in 1 .. Len(val) |-> val[j]]
  BY <1>2, <1>3, <1>4, WalkLists
<1>6. at[1] = 1
  BY <1>1 DEF Spells
<1>7. val = [j \in 1 .. Len(val) |-> val[j]]
  BY <1>3, LenProperties
<1> QED
  BY <1>2, <1>5, <1>6, <1>7

LEMMA WrittenNothing == Written(<<>>, <<>>)
<1> DEFINE at == [j \in 1 .. 1 |-> 1]
<1>1. Len(<<>>) = 0 /\ at[1] = 1 /\ 0 + 1 = 1
  OBVIOUS
<1> HIDE DEF at
<1>2. /\ \A j \in 1 .. 0 + 1 : at[j] \in 1 .. 0 + 1
      /\ \A j \in 1 .. 0 : SpeltAt(<<>>, at[j], at[j + 1], <<>>[j])
  BY <1>1
<1>3. Spells(<<>>, <<>>, at)
  BY <1>1, <1>2 DEF Spells
<1> QED
  BY <1>3 DEF Written

LEMMA SpellingIs ==
  ASSUME NEW c \in Code, NEW w \in Spellings(c)
  PROVE  /\ w \in Seq(Nat)
         /\ \/ w = Escaped(c)
            \/ c = Space /\ w = <<Plus>>
            \/ c \in WordCharacters \cup {Minus} /\ w = <<c>>
<1>1. \/ w = Escaped(c)
      \/ c = Space /\ w = <<Plus>>
      \/ c \in WordCharacters \cup {Minus} /\ w = <<c>>
  <2>1. CASE c = Space
    BY <2>1 DEF Spellings
  <2>2. CASE c # Space /\ c \in WordCharacters \cup {Minus}
    BY <2>2 DEF Spellings
  <2>3. CASE c # Space /\ c \notin WordCharacters \cup {Minus}
    BY <2>3 DEF Spellings
  <2> QED
    BY <2>1, <2>2, <2>3
<1>2. Escaped(c) \in Seq(Nat)
  <2>1. HexDigit(c \div 16) \in Nat /\ HexDigit(c % 16) \in Nat
    BY EscapeIs
  <2> DEFINE x == HexDigit(c \div 16)
             y == HexDigit(c % 16)
  <2>2. x \in Nat /\ y \in Nat /\ Percent \in Nat
    BY <2>1 DEF Percent
  <2> HIDE DEF x, y
  <2>3. <<Percent, x, y>> \in Seq(Nat)
    BY <2>2
  <2> QED
    BY <2>3 DEF Escaped, x, y
<1>3. <<Plus>> \in Seq(Nat) /\ <<c>> \in Seq(Nat)
  BY DEF Plus, Code
<1> QED
  BY <1>1, <1>2, <1>3

\* What is appended leaves the places before it as they are.
LEMMA Appended ==
  ASSUME NEW v \in Seq(Nat), NEW w \in Seq(Nat)
  PROVE  /\ v \o w \in Seq(Nat) /\ Len(v) \in Nat /\ Len(w) \in Nat
         /\ Len(v \o w) = Len(v) + Len(w) /\ Len(v) <= Len(v \o w)
         /\ \A i \in 1 .. Len(v) : (v \o w)[i] = v[i]
         /\ \A i \in 1 .. Len(w) : (v \o w)[Len(v) + i] = w[i]
<1>1. Len(v) \in Nat /\ Len(w) \in Nat
  BY LenProperties
<1>2. /\ v \o w \in Seq(Nat) /\ Len(v \o w) = Len(v) + Len(w)
      /\ \A i \in 1 .. Len(v) + Len(w) : (v \o w)[i] = IF i <= Len(v) THEN v[i] ELSE w[i - Len(v)]
  BY ConcatProperties
<1>3. ASSUME NEW i \in 1 .. Len(v) PROVE (v \o w)[i] = v[i]
  BY <1>1, <1>2
<1>4. ASSUME NEW i \in 1 .. Len(w) PROVE (v \o w)[Len(v) + i] = w[i]
  <2>1. Len(v) + i \in 1 .. Len(v) + Len(w) /\ ~ Len(v) + i <= Len(v) /\ (Len(v) + i) - Len(v) = i
    BY <1>1
  <2> QED
    BY <1>2, <2>1
<1> QED
  BY <1>1, <1>2, <1>3, <1>4

LEMMA SpeltOn ==
  ASSUME NEW v \in Seq(Nat), NEW w \in Seq(Nat), NEW p, NEW e, NEW c, SpeltAt(v, p, e, c)
  PROVE  SpeltAt(v \o w, p, e, c)
<1>1. /\ Len(v) \in Nat /\ Len(w) \in Nat
      /\ Len(v \o w) = Len(v) + Len(w) /\ Len(v) <= Len(v \o w)
      /\ \A i \in 1 .. Len(v) : (v \o w)[i] = v[i]
  BY Appended
<1>2. p \in 1 .. Len(v) /\ p \in 1 .. Len(v \o w)
  BY <1>1 DEF SpeltAt
<1>3. p + 2 <= Len(v) => p + 1 \in 1 .. Len(v) /\ p + 2 \in 1 .. Len(v) /\ p + 2 <= Len(v \o w)
  BY <1>1, <1>2
<1> QED
  BY <1>1, <1>2, <1>3 DEF SpeltAt

LEMMA SpeltNew ==
  ASSUME NEW v \in Seq(Nat), NEW c \in Code, NEW w \in Spellings(c)
  PROVE  SpeltAt(v \o w, Len(v) + 1, Len(v \o w) + 1, c)
<1>0. w \in Seq(Nat)
  BY SpellingIs
<1>1. /\ Len(v) \in Nat /\ Len(w) \in Nat /\ Len(v \o w) = Len(v) + Len(w)
      /\ \A i \in 1 .. Len(w) : (v \o w)[Len(v) + i] = w[i]
  BY <1>0, Appended
<1>2. CASE w = Escaped(c)
  <2>1. Len(w) = 3 /\ w[1] = Percent /\ w[2] = HexDigit(c \div 16) /\ w[3] = HexDigit(c % 16)
    <3> DEFINE x == HexDigit(c \div 16)
               y == HexDigit(c % 16)
    <3>1. w = <<Percent, x, y>>
      BY <1>2 DEF Escaped
    <3> HIDE DEF x, y
    <3>2. Len(w) = 3 /\ w[1] = Percent /\ w[2] = x /\ w[3] = y
      BY <3>1
    <3> QED
      BY <3>2 DEF x, y
  <2> DEFINE p == Len(v) + 1
  <2>2. /\ p \in 1 .. Len(v \o w) /\ Len(v \o w) + 1 = p + 3 /\ p + 2 <= Len(v \o w)
        /\ p + 1 = Len(v) + 2 /\ p + 2 = Len(v) + 3
        /\ 1 \in 1 .. Len(w) /\ 2 \in 1 .. Len(w) /\ 3 \in 1 .. Len(w)
    BY <1>1, <2>1
  <2>3. /\ (v \o w)[p] = Percent /\ (v \o w)[p + 1] = HexDigit(c \div 16)
        /\ (v \o w)[p + 2] = HexDigit(c % 16)
    BY <1>1, <2>1, <2>2
  <2> HIDE DEF p
  <2>4. SpeltAt(v \o w, p, Len(v \o w) + 1, c)
    BY <2>2, <2>3 DEF SpeltAt
  <2> QED
    BY <2>4 DEF p
<1>3. ASSUME NEW x, w = <<x>>
      PROVE  /\ (v \o w)[Len(v) + 1] = x /\ Len(v \o w) + 1 = (Len(v) + 1) + 1
             /\ Len(v) + 1 \in 1 .. Len(v \o w)
  <2>1. Len(w) = 1 /\ w[1] = x
    BY <1>3
  <2>2. 1 \in 1 .. Len(w)
    BY <2>1
  <2> QED
    BY <1>1, <2>1, <2>2
<1>4. CASE c = Space /\ w = <<Plus>>
  BY <1>3, <1>4 DEF SpeltAt
<1>5. CASE c \in WordCharacters \cup {Minus} /\ w = <<c>>
  BY <1>3, <1>5 DEF SpeltAt
<1> QED
  BY <1>2, <1>4, <1>5, SpellingIs

LEMMA WrittenOn ==
  ASSUME NEW v \in Seq(Nat), NEW val \in Seq(Code), Written(v, val), NEW c \in Code, NEW w \in Spellings(c)
  PROVE  Written(v \o w, Append(val, c))
<1>0. w \in Seq(Nat)
  BY SpellingIs
<1>1. PICK at : Spells(v, val, at)
  BY DEF Written
<1> DEFINE n == Len(val)
           u == v \o w
           on == [j \in 1 .. n + 2 |-> IF j <= n + 1 THEN at[j] ELSE Len(u) + 1]
           more == Append(val, c)
<1>2. /\ Len(v) \in Nat /\ Len(w) \in Nat /\ Len(u) \in Nat /\ Len(u) = Len(v) + Len(w)
      /\ Len(v) <= Len(u) /\ u \in Seq(Nat)
  BY <1>0, Appended
<1>3. n \in Nat
  BY LenProperties
<1>4. /\ Len(more) = n + 1 /\ more[n + 1] = c
      /\ \A j \in 1 .. n : more[j] = val[j]
  BY AppendProperties
<1>5. /\ \A j \in 1 .. n + 1 : on[j] = at[j]
      /\ on[n + 2] = Len(u) + 1
  BY <1>3
<1>6. /\ \A j \in 1 .. n + 1 : at[j] \in 1 .. Len(v) + 1
      /\ at[1] = 1 /\ at[n + 1] = Len(v) + 1
      /\ \A j \in 1 .. n : SpeltAt(v, at[j], at[j + 1], val[j])
  BY <1>1 DEF Spells
<1>7. \A j \in 1 .. n : SpeltAt(u, at[j], at[j + 1], val[j])
  BY <1>0, <1>6, SpeltOn
<1>8. SpeltAt(u, Len(v) + 1, Len(u) + 1, c)
  BY SpeltNew
<1> HIDE DEF n, u, on, more
<1>9. ASSUME NEW j \in 1 .. n + 2 PROVE on[j] \in 1 .. Len(u) + 1
  <2>1. j \in 1 .. n + 1 \/ j = n + 2
    BY <1>3
  <2> QED
    BY <1>2, <1>5, <1>6, <2>1
<1>10. ASSUME NEW j \in 1 .. n + 1 PROVE SpeltAt(u, on[j], on[j + 1], more[j])
  <2>1. CASE j = n + 1
    <3>1. j + 1 = n + 2
      BY <1>3, <2>1
    <3> QED
      BY <1>4, <1>5, <1>6, <1>8, <2>1, <3>1
  <2>2. CASE j # n + 1
    <3>1. j \in 1 .. n /\ j + 1 \in 1 .. n + 1
      BY <1>3, <2>2
    <3> QED
      BY <1>4, <1>5, <1>7, <3>1
  <2> QED
    BY <2>1, <2>2
<1>11. Spells(u, more, on)
  <2>1. (n + 1) + 1 = n + 2 /\ 1 \in 1 .. n + 1
    BY <1>3
  <2>2. on[1] = 1 /\ on[(n + 1) + 1] = Len(u) + 1
    BY <1>5, <1>6, <2>1
  <2> QED
    BY <1>4, <1>9, <1>10, <2>1, <2>2 DEF Spells
<1> QED
  BY <1>11 DEF Written, u, more

LEMMA SpellingPlain ==
  ASSUME NEW c \in Code, NEW w \in Spellings(c)
  PROVE  \A i \in 1 .. Len(w) : w[i] # Ampersand
<1>1. CASE w = Escaped(c)
  <2> DEFINE x == HexDigit(c \div 16)
             y == HexDigit(c % 16)
  <2>1. x # Ampersand /\ y # Ampersand /\ Percent # Ampersand
    BY EscapeIs DEF Percent, Ampersand
  <2>2. w = <<Percent, x, y>>
    BY <1>1 DEF Escaped
  <2> HIDE DEF x, y
  <2>3. Len(w) = 3 /\ w[1] = Percent /\ w[2] = x /\ w[3] = y
    BY <2>2
  <2>4. \A i \in 1 .. 3 : i = 1 \/ i = 2 \/ i = 3
    OBVIOUS
  <2> QED
    BY <2>1, <2>3, <2>4
<1>2. ASSUME NEW x, w = <<x>>, x # Ampersand PROVE \A i \in 1 .. Len(w) : w[i] # Ampersand
  <2>1. Len(w) = 1 /\ w[1] = x
    BY <1>2
  <2>2. \A i \in 1 .. 1 : i = 1
    OBVIOUS
  <2> QED
    BY <1>2, <2>1, <2>2
<1>3. CASE c = Space /\ w = <<Plus>>
  <2>1. Plus # Ampersand
    BY DEF Plus, Ampersand
  <2> QED
    BY <1>2, <1>3, <2>1
<1>4. CASE c \in WordCharacters \cup {Minus} /\ w = <<c>>
  <2>1. c # Ampersand
    BY <1>4 DEF WordCharacters, Digit09, Upper, Lower, Minus, Ampersand
  <2> QED
    BY <1>2, <1>4, <2>1
<1> QED
  BY <1>1, <1>3, <1>4, SpellingIs

-----------------------------------------------------------------------------
(* Matches *)

\* The least of the places of T and the one behind the end.
LEMMA MinIs ==
  ASSUME NEW p \in Nat, NEW n \in Nat, p <= n, NEW T, T \subseteq p .. n - 1
  PROVE  /\ Min(T \cup {n}) \in p .. n
         /\ Min(T \cup {n}) # n => Min(T \cup {n}) \in T
         /\ \A i \in T : Min(T \cup {n}) <= i
<1> DEFINE U == T \cup {n}
<1>1. U \subseteq Nat /\ U # {} /\ U \subseteq p .. n
  OBVIOUS
<1>2. \E x \in U : \A y \in U : ~ y < x
  <2> HIDE DEF U
  <2> QED
    BY <1>1, LeastNatural
<1>3. \E x \in U : \A y \in U : x <= y
  BY <1>1, <1>2
<1>4. Min(U) \in U /\ \A y \in U : Min(U) <= y
  BY <1>3 DEF Min
<1> QED
  BY <1>1, <1>4

\* f is the first place of s from p on in C, or not in C; behind s if there is none.
FirstIs(s, p, f, C) ==
  /\ f \in p .. Len(s) + 1
  /\ f <= Len(s) => s[f] \in C
  /\ \A i \in p .. Len(s) : i < f => s[i] \notin C
FirstNotIs(s, p, f, C) ==
  /\ f \in p .. Len(s) + 1
  /\ f <= Len(s) => s[f] \notin C
  /\ \A i \in p .. Len(s) : i < f => s[i] \in C

LEMMA FirstOfFacts ==
  ASSUME NEW s \in Seq(Nat), NEW p \in 1 .. Len(s) + 1, NEW C
  PROVE  FirstIs(s, p, FirstOf(s, p, C), C)
<1> DEFINE T == {i \in p .. Len(s) : s[i] \in C}
           n == Len(s) + 1
<1>1. Len(s) \in Nat
  BY LenProperties
<1>2. p \in Nat /\ n \in Nat /\ p <= n /\ n - 1 = Len(s)
  BY <1>1
<1>3. T \subseteq p .. n - 1
  BY <1>2
<1>4. FirstOf(s, p, C) = Min(T \cup {n})
  BY DEF FirstOf
<1> DEFINE f == Min(T \cup {n})
<1>5. f \in p .. n /\ (f # n => f \in T) /\ \A i \in T : f <= i
  <2> HIDE DEF T, n
  <2> QED
    BY <1>2, <1>3, MinIs
<1> HIDE DEF f
<1>6. f <= Len(s) => s[f] \in C
  BY <1>1, <1>5
<1>7. ASSUME NEW i \in p .. Len(s), i < f PROVE s[i] \notin C
  BY <1>1, <1>5, <1>7
<1>8. FirstIs(s, p, f, C)
  BY <1>5, <1>6, <1>7 DEF FirstIs
<1> QED
  BY <1>4, <1>8 DEF f

LEMMA FirstNotOfFacts ==
  ASSUME NEW s \in Seq(Nat), NEW p \in 1 .. Len(s) + 1, NEW C
  PROVE  FirstNotIs(s, p, FirstNotOf(s, p, C), C)
<1> DEFINE T == {i \in p .. Len(s) : s[i] \notin C}
           n == Len(s) + 1
<1>1. Len(s) \in Nat
  BY LenProperties
<1>2. p \in Nat /\ n \in Nat /\ p <= n /\ n - 1 = Len(s)
  BY <1>1
<1>3. T \subseteq p .. n - 1
  BY <1>2
<1>4. FirstNotOf(s, p, C) = Min(T \cup {n})
  BY DEF FirstNotOf
<1> DEFINE f == Min(T \cup {n})
<1>5. f \in p .. n /\ (f # n => f \in T) /\ \A i \in T : f <= i
  <2> HIDE DEF T, n
  <2> QED
    BY <1>2, <1>3, MinIs
<1> HIDE DEF f
<1>6. f <= Len(s) => s[f] \notin C
  BY <1>1, <1>5
<1>7. ASSUME NEW i \in p .. Len(s), i < f PROVE s[i] \in C
  BY <1>1, <1>5, <1>7
<1>8. FirstNotIs(s, p, f, C)
  BY <1>5, <1>6, <1>7 DEF FirstNotIs
<1> QED
  BY <1>4, <1>8 DEF f

LEMMA FirstOfAt ==
  ASSUME NEW s \in Seq(Nat), NEW p \in 1 .. Len(s) + 1, NEW C, NEW f, FirstIs(s, p, f, C)
  PROVE  FirstOf(s, p, C) = f
<1> DEFINE g == FirstOf(s, p, C)
<1>1. FirstIs(s, p, g, C)
  BY FirstOfFacts
<1> HIDE DEF g
<1>2. Len(s) \in Nat
  BY LenProperties
<1>3. g = f
  BY <1>1, <1>2 DEF FirstIs
<1> QED
  BY <1>3 DEF g

LEMMA FirstNotOfAt ==
  ASSUME NEW s \in Seq(Nat), NEW p \in 1 .. Len(s) + 1, NEW C, NEW f, FirstNotIs(s, p, f, C)
  PROVE  FirstNotOf(s, p, C) = f
<1> DEFINE g == FirstNotOf(s, p, C)
<1>1. FirstNotIs(s, p, g, C)
  BY FirstNotOfFacts
<1> HIDE DEF g
<1>2. Len(s) \in Nat
  BY LenProperties
<1>3. g = f
  BY <1>1, <1>2 DEF FirstNotIs
<1> QED
  BY <1>3 DEF g

\* Where a match from a place on has its key and its value.
KeyFrom(q, p) == FirstOf(q, p, KeyClass)
KeyTo(q, p) == FirstNotOf(q, KeyFrom(q, p), KeyClass)
ValueFrom(q, p) ==
  IF KeyTo(q, p) <= Len(q) /\ q[KeyTo(q, p)] = Equals THEN KeyTo(q, p) + 1 ELSE KeyTo(q, p)
ValueTo(q, p) == FirstOf(q, ValueFrom(q, p), {Ampersand})

MatchNext(q) == [p \in 1 .. Len(q) + 1 |-> IF KeyFrom(q, p) > Len(q) THEN 0 ELSE ValueTo(q, p)]
MatchItem(q) ==
  [p \in 1 .. Len(q) + 1 |->
     <<SubSeq(q, KeyFrom(q, p), KeyTo(q, p) - 1), Decode(SubSeq(q, ValueFrom(q, p), ValueTo(q, p) - 1))>>]

LEMMA MatchOnward == ASSUME NEW q \in Seq(Nat) PROVE Onward(Len(q) + 1, MatchNext(q))
<1>1. Len(q) \in Nat
  BY LenProperties
<1>2. ASSUME NEW p \in 1 .. Len(q) + 1, ~ KeyFrom(q, p) > Len(q)
      PROVE  ValueTo(q, p) \in p + 1 .. Len(q) + 1
  <2>1. FirstIs(q, p, KeyFrom(q, p), KeyClass)
    BY FirstOfFacts DEF KeyFrom
  <2>2. /\ KeyFrom(q, p) \in p .. Len(q) + 1 /\ KeyFrom(q, p) \in 1 .. Len(q) + 1
        /\ KeyFrom(q, p) <= Len(q) /\ q[KeyFrom(q, p)] \in KeyClass
    BY <1>1, <1>2, <2>1 DEF FirstIs
  <2>3. FirstNotIs(q, KeyFrom(q, p), KeyTo(q, p), KeyClass)
    BY <2>2, FirstNotOfFacts DEF KeyTo
  <2>4. KeyTo(q, p) \in KeyFrom(q, p) + 1 .. Len(q) + 1
    BY <1>1, <2>2, <2>3 DEF FirstNotIs
  <2>5. ValueFrom(q, p) \in KeyTo(q, p) .. Len(q) + 1
    BY <1>1, <2>2, <2>4 DEF ValueFrom
  <2>6. ValueFrom(q, p) \in p + 1 .. Len(q) + 1 /\ ValueFrom(q, p) \in 1 .. Len(q) + 1
    BY <1>1, <2>2, <2>4, <2>5
  <2>7. FirstIs(q, ValueFrom(q, p), ValueTo(q, p), {Ampersand})
    BY <2>6, FirstOfFacts DEF ValueTo
  <2> QED
    BY <1>1, <2>6, <2>7 DEF FirstIs
<1>3. \A p \in 1 .. Len(q) + 1 : MatchNext(q)[p] = 0 \/ MatchNext(q)[p] \in p + 1 .. Len(q) + 1
  BY <1>2 DEF MatchNext
<1> QED
  BY <1>3 DEF Onward

MatchesAre(q, f) ==
  f = [p \in 1 .. Len(q) + 1 |->
        IF KeyFrom(q, p) > Len(q) THEN <<>>
        ELSE <<<<SubSeq(q, KeyFrom(q, p), KeyTo(q, p) - 1),
                 Decode(SubSeq(q, ValueFrom(q, p), ValueTo(q, p) - 1))>>>> \o f[ValueTo(q, p)]]

LEMMA MatchStep ==
  ASSUME NEW q \in Seq(Nat), NEW f, NEW p \in 1 .. Len(q) + 1
  PROVE  (IF KeyFrom(q, p) > Len(q) THEN <<>>
          ELSE <<<<SubSeq(q, KeyFrom(q, p), KeyTo(q, p) - 1),
                   Decode(SubSeq(q, ValueFrom(q, p), ValueTo(q, p) - 1))>>>> \o f[ValueTo(q, p)])
         = IF MatchNext(q)[p] = 0 THEN <<>> ELSE <<MatchItem(q)[p]>> \o f[MatchNext(q)[p]]
<1>1. Len(q) \in Nat
  BY LenProperties
<1>2. MatchItem(q)[p] = <<SubSeq(q, KeyFrom(q, p), KeyTo(q, p) - 1),
                          Decode(SubSeq(q, ValueFrom(q, p), ValueTo(q, p) - 1))>>
  BY DEF MatchItem
<1>3. MatchNext(q)[p] = IF KeyFrom(q, p) > Len(q) THEN 0 ELSE ValueTo(q, p)
  BY DEF MatchNext
<1>4. MatchNext(q)[p] = 0 \/ MatchNext(q)[p] \in p + 1 .. Len(q) + 1
  BY MatchOnward DEF Onward
<1>5. CASE KeyFrom(q, p) > Len(q)
  BY <1>3, <1>5
<1>6. CASE ~ KeyFrom(q, p) > Len(q)
  <2>1. MatchNext(q)[p] = ValueTo(q, p)
    BY <1>3, <1>6
  <2>2. ValueTo(q, p) # 0
    <3>1. FirstIs(q, p, KeyFrom(q, p), KeyClass)
      BY FirstOfFacts DEF KeyFrom
    <3>2. KeyFrom(q, p) \in 1 .. Len(q) + 1
      BY <1>1, <3>1 DEF FirstIs
    <3>3. FirstNotIs(q, KeyFrom(q, p), KeyTo(q, p), KeyClass)
      BY <3>2, FirstNotOfFacts DEF KeyTo
    <3>4. KeyTo(q, p) \in 1 .. Len(q) + 1
      BY <1>1, <3>2, <3>3 DEF FirstNotIs
    <3>5. ValueFrom(q, p) \in 1 .. Len(q) + 1
      BY <1>1, <3>4 DEF ValueFrom
    <3>6. FirstIs(q, ValueFrom(q, p), ValueTo(q, p), {Ampersand})
      BY <3>5, FirstOfFacts DEF ValueTo
    <3> QED
      BY <1>1, <3>5, <3>6 DEF FirstIs
  <2> QED
    BY <1>2, <1>6, <2>1, <2>2, Zenon
<1> QED
  BY <1>5, <1>6

LEMMA MatchesIs ==
  ASSUME NEW q \in Seq(Nat)
  PROVE  \E f : Lists(Len(q) + 1, MatchNext(q), MatchItem(q), f) /\ Matches(q) = f[1]
<1>1. Len(q) + 1 \in Nat
  BY LenProperties
<1>2. \E f : MatchesAre(q, f)
  <2>1. PICK f : Lists(Len(q) + 1, MatchNext(q), MatchItem(q), f)
    BY <1>1, MatchOnward, ListExists
  <2>2. ASSUME NEW p \in 1 .. Len(q) + 1
        PROVE  f[p] = IF KeyFrom(q, p) > Len(q) THEN <<>>
                      ELSE <<<<SubSeq(q, KeyFrom(q, p), KeyTo(q, p) - 1),
                               Decode(SubSeq(q, ValueFrom(q, p), ValueTo(q, p) - 1))>>>> \o f[ValueTo(q, p)]
    <3>1. f[p] = IF MatchNext(q)[p] = 0 THEN <<>> ELSE <<MatchItem(q)[p]>> \o f[MatchNext(q)[p]]
      BY <2>1 DEF Lists
    <3> QED
      BY <3>1, MatchStep
  <2>3. f = [p \in 1 .. Len(q) + 1 |-> f[p]]
    BY <2>1 DEF Lists
  <2>4. MatchesAre(q, f)
    BY <2>2, <2>3 DEF MatchesAre
  <2> QED
    BY <2>4
<1> DEFINE f == CHOOSE f : MatchesAre(q, f)
<1>3. MatchesAre(q, f)
  BY <1>2
<1>4. Matches(q) = f[1]
  BY DEF Matches, MatchesAre, KeyFrom, KeyTo, ValueFrom, ValueTo
<1> HIDE DEF f
<1>5. f = [p \in 1 .. Len(q) + 1 |-> f[p]]
  BY <1>3 DEF MatchesAre
<1>6. ASSUME NEW p \in 1 .. Len(q) + 1
      PROVE  f[p] = IF MatchNext(q)[p] = 0 THEN <<>> ELSE <<MatchItem(q)[p]>> \o f[MatchNext(q)[p]]
  <2>1. f[p] = IF KeyFrom(q, p) > Len(q) THEN <<>>
               ELSE <<<<SubSeq(q, KeyFrom(q, p), KeyTo(q, p) - 1),
                        Decode(SubSeq(q, ValueFrom(q, p), ValueTo(q, p) - 1))>>>> \o f[ValueTo(q, p)]
    BY <1>3 DEF MatchesAre
  <2> QED
    BY <2>1, MatchStep
<1>7. Lists(Len(q) + 1, MatchNext(q), MatchItem(q), f)
  BY <1>5, <1>6 DEF Lists
<1> QED
  BY <1>4, <1>7

-----------------------------------------------------------------------------
(* Queries *)

Key == {k \in Seq(WordCharacters) : k # <<>>}
Pair == Key \X Seq(Code)

\* Places p to e - 1 of q are a pair, from the '&' in front of it on.
PairAt(q, p, a, b, e, k, val) ==
  /\ p \in 1 .. Len(q)
  /\ a = p \/ (a = p + 1 /\ q[p] = Ampersand)
  /\ b = a + Len(k) /\ b <= Len(q)
  /\ \A j \in 1 .. Len(k) : q[a + j - 1] = k[j]
  /\ q[b] = Equals
  /\ e \in b + 1 .. Len(q) + 1
  /\ e <= Len(q) => q[e] = Ampersand
  /\ \A i \in b + 1 .. e - 1 : q[i] # Ampersand
  /\ Written(SubSeq(q, b + 1, e - 1), val)

IsPair(q, p, e, k, val) == \E a, b : PairAt(q, p, a, b, e, k, val)

LEMMA ClassFacts ==
  /\ WordCharacters \subseteq KeyClass /\ WordCharacters \subseteq Nat
  /\ Equals \notin KeyClass /\ Ampersand \notin KeyClass
BY DEF WordCharacters, KeyClass, Digit09, Upper, Lower, Equals, Ampersand, Plus, Percent

LEMMA KeyFacts ==
  ASSUME NEW k \in Key
  PROVE  /\ k \in Seq(WordCharacters) /\ k \in Seq(Nat) /\ Len(k) \in Nat \ {0}
         /\ \A j \in 1 .. Len(k) : k[j] \in WordCharacters
<1>1. k \in Seq(WordCharacters) /\ k # <<>>
  BY DEF Key
<1>2. Len(k) \in Nat \ {0}
  BY <1>1, EmptySeq
<1>3. \A j \in 1 .. Len(k) : k[j] \in WordCharacters
  BY <1>1, ElementOfSeq
<1>4. k \in [1 .. Len(k) -> Nat]
  BY <1>1, <1>3, ClassFacts, LenProperties
<1> QED
  BY <1>1, <1>2, <1>3, <1>4, FunctionIsSeq

\* The match from place p on, and where the next one begins.
IsMatch(q, p, e, k, val) ==
  p \in 1 .. Len(q) + 1 /\ MatchNext(q)[p] = e /\ MatchItem(q)[p] = <<k, val>>

\* A match finds the pair.
LEMMA PairIs ==
  ASSUME NEW q \in Seq(Nat), NEW p, NEW e, NEW k \in Key, NEW val \in Seq(Code), IsPair(q, p, e, k, val)
  PROVE  IsMatch(q, p, e, k, val)
<1>1. PICK a, b : PairAt(q, p, a, b, e, k, val)
  BY DEF IsPair
<1>2. Len(q) \in Nat /\ p \in 1 .. Len(q) + 1 /\ p \in 1 .. Len(q)
  BY <1>1, LenProperties DEF PairAt
<1>3. Len(k) \in Nat \ {0} /\ \A j \in 1 .. Len(k) : k[j] \in KeyClass
  BY KeyFacts, ClassFacts
<1>4. /\ a \in Nat /\ a \in p .. p + 1 /\ (a # p => q[p] = Ampersand)
      /\ b = a + Len(k) /\ b <= Len(q) /\ q[b] = Equals
      /\ b \in Nat /\ a < b
      /\ a \in 1 .. Len(q) + 1 /\ b \in 1 .. Len(q) /\ b + 1 \in 1 .. Len(q) + 1
      /\ e \in b + 1 .. Len(q) + 1
  <2>1. /\ a = p \/ (a = p + 1 /\ q[p] = Ampersand)
        /\ b = a + Len(k) /\ b <= Len(q) /\ q[b] = Equals
        /\ e \in b + 1 .. Len(q) + 1
    BY <1>1 DEF PairAt
  <2>2. a \in Nat /\ a \in p .. p + 1 /\ (a # p => q[p] = Ampersand)
    <3>1. CASE a = p
      BY <1>2, <3>1
    <3>2. CASE a = p + 1 /\ q[p] = Ampersand
      BY <1>2, <3>2
    <3> QED
      BY <2>1, <3>1, <3>2
  <2>3. b \in Nat /\ a < b
    BY <1>3, <2>1, <2>2
  <2>4. a \in 1 .. Len(q) + 1 /\ b \in 1 .. Len(q) /\ b + 1 \in 1 .. Len(q) + 1
    BY <1>2, <2>1, <2>2, <2>3
  <2> QED
    BY <2>1, <2>2, <2>3, <2>4
<1>5. ASSUME NEW i \in a .. b - 1 PROVE q[i] \in KeyClass
  <2>1. i - a + 1 \in 1 .. Len(k) /\ a + (i - a + 1) - 1 = i
    BY <1>3, <1>4
  <2>2. q[a + (i - a + 1) - 1] = k[i - a + 1]
    BY <1>1, <2>1 DEF PairAt
  <2> QED
    BY <1>3, <2>1, <2>2
<1>6. KeyFrom(q, p) = a
  <2>1. a \in p .. Len(q) + 1
    BY <1>2, <1>4
  <2>2. q[a] \in KeyClass
    <3>1. a \in a .. b - 1
      BY <1>4
    <3> QED
      BY <1>5, <3>1
  <2>3. ASSUME NEW i \in p .. Len(q), i < a PROVE q[i] \notin KeyClass
    <3>1. i = p /\ a # p
      BY <1>2, <1>4, <2>3, SMTT(30)
    <3> QED
      BY <1>4, <3>1, ClassFacts
  <2>4. FirstIs(q, p, a, KeyClass)
    BY <2>1, <2>2, <2>3 DEF FirstIs
  <2> QED
    BY <1>2, <2>4, FirstOfAt DEF KeyFrom
<1>7. KeyTo(q, p) = b
  <2>1. b \in a .. Len(q) + 1 /\ q[b] \notin KeyClass
    BY <1>2, <1>4, ClassFacts
  <2>2. ASSUME NEW i \in a .. Len(q), i < b PROVE q[i] \in KeyClass
    <3>1. i \in a .. b - 1
      BY <1>2, <1>4, <2>2
    <3> QED
      BY <1>5, <3>1
  <2>3. FirstNotIs(q, a, b, KeyClass)
    BY <2>1, <2>2 DEF FirstNotIs
  <2>4. FirstNotOf(q, a, KeyClass) = b
    BY <1>4, <2>3, FirstNotOfAt
  <2> QED
    BY <1>6, <2>4 DEF KeyTo
<1>8. ValueFrom(q, p) = b + 1
  BY <1>4, <1>7 DEF ValueFrom
<1>9. ValueTo(q, p) = e
  <2>1. e <= Len(q) => q[e] = Ampersand
    BY <1>1 DEF PairAt
  <2>2. ASSUME NEW i \in b + 1 .. Len(q), i < e PROVE q[i] \notin {Ampersand}
    <3>1. i \in b + 1 .. e - 1
      BY <1>2, <1>4, <2>2
    <3>2. q[i] # Ampersand
      BY <1>1, <3>1 DEF PairAt
    <3> QED
      BY <3>2
  <2>3. FirstIs(q, b + 1, e, {Ampersand})
    BY <1>4, <2>1, <2>2 DEF FirstIs
  <2>4. FirstOf(q, b + 1, {Ampersand}) = e
    BY <1>4, <2>3, FirstOfAt
  <2> QED
    BY <1>8, <2>4 DEF ValueTo
<1>10. MatchNext(q)[p] = e
  <2>1. ~ a > Len(q)
    BY <1>2, <1>4
  <2> QED
    BY <1>2, <1>6, <1>9, <2>1 DEF MatchNext
<1>11. SubSeq(q, a, b - 1) = k
  <2>1. a \in Int /\ b - 1 \in Int /\ a <= b - 1
    BY <1>4
  <2>2. ASSUME NEW i \in a .. b - 1 PROVE q[i] \in Nat
    <3>1. i \in 1 .. Len(q)
      BY <1>2, <1>4
    <3> QED
      BY <3>1, ElementOfSeq
  <2>3. /\ SubSeq(q, a, b - 1) \in Seq(Nat) /\ Len(SubSeq(q, a, b - 1)) = (b - 1) - a + 1
        /\ \A i \in 1 .. (b - 1) - a + 1 : SubSeq(q, a, b - 1)[i] = q[a + i - 1]
    BY <2>1, <2>2, SubSeqProperties
  <2>4. (b - 1) - a + 1 = Len(k) /\ k \in Seq(Nat)
    BY <1>3, <1>4, KeyFacts
  <2>5. \A i \in 1 .. Len(k) : q[a + i - 1] = k[i]
    BY <1>1 DEF PairAt
  <2> QED
    BY <2>3, <2>4, <2>5, SeqEqual
<1>12. Decode(SubSeq(q, b + 1, e - 1)) = val
  <2>1. Written(SubSeq(q, b + 1, e - 1), val)
    BY <1>1 DEF PairAt
  <2>2. SubSeq(q, b + 1, e - 1) \in Seq(Nat)
    <3>1. b + 1 \in Int /\ e - 1 \in Int
      BY <1>2, <1>4
    <3>2. ASSUME NEW i \in b + 1 .. e - 1 PROVE q[i] \in Nat
      <4>1. i \in 1 .. Len(q)
        BY <1>2, <1>4
      <4> QED
        BY <4>1, ElementOfSeq
    <3> QED
      BY <3>1, <3>2, SubSeqProperties
  <2> QED
    BY <2>1, <2>2, DecodesTo
<1>13. MatchItem(q)[p] = <<k, val>>
  <2>1. MatchItem(q)[p] = <<SubSeq(q, KeyFrom(q, p), KeyTo(q, p) - 1),
                            Decode(SubSeq(q, ValueFrom(q, p), ValueTo(q, p) - 1))>>
    BY <1>2 DEF MatchItem
  <2> QED
    BY <1>6, <1>7, <1>8, <1>9, <1>11, <1>12, <2>1
<1> QED
  BY <1>2, <1>10, <1>13 DEF IsMatch

\* q is a way to write the pairs that are meant.
LaidOut(q, meant, at) ==
  /\ \A j \in 1 .. Len(meant) + 1 : at[j] \in 1 .. Len(q) + 1
  /\ at[1] = 1
  /\ at[Len(meant) + 1] = Len(q) + 1
  /\ \A j \in 1 .. Len(meant) : IsPair(q, at[j], at[j + 1], meant[j][1], meant[j][2])

LEMMA NoKeyBehind ==
  ASSUME NEW q \in Seq(Nat)
  PROVE  MatchNext(q)[Len(q) + 1] = 0
<1>1. Len(q) \in Nat /\ Len(q) + 1 \in 1 .. Len(q) + 1 /\ Len(q) + 1 > Len(q)
  BY LenProperties
<1>2. FirstIs(q, Len(q) + 1, KeyFrom(q, Len(q) + 1), KeyClass)
  BY <1>1, FirstOfFacts DEF KeyFrom
<1>3. KeyFrom(q, Len(q) + 1) > Len(q)
  BY <1>1, <1>2 DEF FirstIs
<1> QED
  BY <1>1, <1>3 DEF MatchNext

LEMMA PairFacts ==
  ASSUME NEW meant \in Seq(Pair), NEW j \in 1 .. Len(meant)
  PROVE  /\ meant[j] \in Pair /\ meant[j][1] \in Key /\ meant[j][2] \in Seq(Code)
         /\ meant[j] = <<meant[j][1], meant[j][2]>>
<1>1. meant[j] \in Pair
  BY ElementOfSeq
<1> QED
  BY <1>1 DEF Pair

LEMMA MatchesTo ==
  ASSUME NEW q \in Seq(Nat), NEW meant \in Seq(Pair), NEW at, LaidOut(q, meant, at)
  PROVE  Matches(q) = meant
<1>1. PICK f : Lists(Len(q) + 1, MatchNext(q), MatchItem(q), f) /\ Matches(q) = f[1]
  BY MatchesIs
<1>2. Len(q) \in Nat /\ Len(meant) \in Nat /\ Len(q) + 1 \in Nat
  BY LenProperties
<1>3. Walks(Len(q) + 1, MatchNext(q), MatchItem(q), Len(meant), at, meant)
  <2>1. \A j \in 1 .. Len(meant) + 1 : at[j] \in 1 .. Len(q) + 1
    BY DEF LaidOut
  <2>2. ASSUME NEW j \in 1 .. Len(meant)
        PROVE  MatchNext(q)[at[j]] = at[j + 1] /\ MatchItem(q)[at[j]] = meant[j]
    <3>1. IsPair(q, at[j], at[j + 1], meant[j][1], meant[j][2])
      BY DEF LaidOut
    <3>2. meant[j][1] \in Key /\ meant[j][2] \in Seq(Code) /\ meant[j] = <<meant[j][1], meant[j][2]>>
      BY PairFacts
    <3>3. MatchNext(q)[at[j]] = at[j + 1] /\ MatchItem(q)[at[j]] = <<meant[j][1], meant[j][2]>>
      <4>1. IsMatch(q, at[j], at[j + 1], meant[j][1], meant[j][2])
        BY <3>1, <3>2, PairIs
      <4> QED
        BY <4>1 DEF IsMatch
    <3> QED
      BY <3>2, <3>3
  <2>3. MatchNext(q)[at[Len(meant) + 1]] = 0
    BY NoKeyBehind DEF LaidOut
  <2> QED
    BY <2>1, <2>2, <2>3 DEF Walks
<1>4. f[at[1]] = [j \in 1 .. Len(meant) |-> meant[j]]
  BY <1>1, <1>2, <1>3, WalkLists
<1>5. at[1] = 1
  BY DEF LaidOut
<1>6. meant = [j \in 1 .. Len(meant) |-> meant[j]]
  BY <1>2, LenProperties
<1> QED
  BY <1>1, <1>4, <1>5, <1>6

LEMMA Part ==
  ASSUME NEW s \in Seq(Nat), NEW m \in 1 .. Len(s) + 1, NEW n \in m - 1 .. Len(s)
  PROVE  /\ SubSeq(s, m, n) \in Seq(Nat) /\ Len(SubSeq(s, m, n)) = n - m + 1
         /\ \A i \in 1 .. n - m + 1 : SubSeq(s, m, n)[i] = s[m + i - 1]
<1>1. Len(s) \in Nat /\ m \in Int /\ n \in Int
  BY LenProperties
<1>2. ASSUME NEW i \in m .. n PROVE s[i] \in Nat
  <2>1. i \in 1 .. Len(s)
    BY <1>1
  <2> QED
    BY <2>1, ElementOfSeq
<1>3. /\ SubSeq(s, m, n) \in Seq(Nat) /\ Len(SubSeq(s, m, n)) = IF m <= n THEN n - m + 1 ELSE 0
      /\ \A i \in 1 .. n - m + 1 : SubSeq(s, m, n)[i] = s[m + i - 1]
  BY <1>1, <1>2, SubSeqProperties
<1> QED
  BY <1>1, <1>3

LEMMA PartSame ==
  ASSUME NEW s \in Seq(Nat), NEW w \in Seq(Nat), NEW m \in 1 .. Len(s) + 1, NEW n \in m - 1 .. Len(s)
  PROVE  SubSeq(s \o w, m, n) = SubSeq(s, m, n)
<1> DEFINE u == s \o w
<1>1. /\ u \in Seq(Nat) /\ Len(s) \in Nat /\ Len(w) \in Nat /\ Len(u) = Len(s) + Len(w)
      /\ \A i \in 1 .. Len(s) : u[i] = s[i]
  BY Appended
<1> HIDE DEF u
<1>2. m \in 1 .. Len(u) + 1 /\ n \in m - 1 .. Len(u)
  BY <1>1
<1>3. /\ SubSeq(u, m, n) \in Seq(Nat) /\ Len(SubSeq(u, m, n)) = n - m + 1
      /\ \A i \in 1 .. n - m + 1 : SubSeq(u, m, n)[i] = u[m + i - 1]
  BY <1>1, <1>2, Part
<1>4. /\ SubSeq(s, m, n) \in Seq(Nat) /\ Len(SubSeq(s, m, n)) = n - m + 1
      /\ \A i \in 1 .. n - m + 1 : SubSeq(s, m, n)[i] = s[m + i - 1]
  BY Part
<1>5. \A i \in 1 .. n - m + 1 : m + i - 1 \in 1 .. Len(s)
  BY <1>1
<1>6. \A i \in 1 .. n - m + 1 : SubSeq(u, m, n)[i] = SubSeq(s, m, n)[i]
  BY <1>1, <1>3, <1>4, <1>5
<1>7. SubSeq(u, m, n) = SubSeq(s, m, n)
  BY <1>3, <1>4, <1>6, SeqEqual
<1> QED
  BY <1>7 DEF u

LEMMA PartLonger ==
  ASSUME NEW s \in Seq(Nat), NEW w \in Seq(Nat), NEW m \in 1 .. Len(s) + 1
  PROVE  SubSeq(s \o w, m, Len(s \o w)) = SubSeq(s, m, Len(s)) \o w
<1> DEFINE u == s \o w
           n == Len(s)
           k == Len(u)
           t == SubSeq(s, m, n)
           x == SubSeq(u, m, k)
           y == t \o w
<1>1. /\ u \in Seq(Nat) /\ n \in Nat /\ Len(w) \in Nat /\ k = n + Len(w)
      /\ \A i \in 1 .. n : u[i] = s[i]
      /\ \A i \in 1 .. Len(w) : u[n + i] = w[i]
  BY Appended
<1>2. m \in 1 .. k + 1 /\ k \in m - 1 .. k /\ n \in m - 1 .. n
  BY <1>1
<1>3. t \in Seq(Nat) /\ Len(t) = n - m + 1 /\ \A i \in 1 .. n - m + 1 : t[i] = s[m + i - 1]
  BY <1>2, Part
<1>4. x \in Seq(Nat) /\ Len(x) = k - m + 1 /\ \A i \in 1 .. k - m + 1 : x[i] = u[m + i - 1]
  <2> HIDE DEF u
  <2> QED
    BY <1>1, <1>2, Part
<1> HIDE DEF t
<1>5. /\ y \in Seq(Nat) /\ Len(y) = Len(t) + Len(w)
      /\ \A i \in 1 .. Len(t) : y[i] = t[i]
      /\ \A i \in 1 .. Len(w) : y[Len(t) + i] = w[i]
  BY <1>3, Appended
<1> HIDE DEF u, n, k, x, y
<1>6. ASSUME NEW i \in 1 .. k - m + 1 PROVE x[i] = y[i]
  <2>1. CASE i <= n - m + 1
    <3>1. i \in 1 .. n - m + 1 /\ m + i - 1 \in 1 .. n
      BY <1>1, <2>1
    <3> QED
      BY <1>1, <1>3, <1>4, <1>5, <3>1
  <2>2. CASE ~ i <= n - m + 1
    <3> DEFINE j == i - (n - m + 1)
    <3>1. j \in 1 .. Len(w) /\ m + i - 1 = n + j /\ i = (n - m + 1) + j
      BY <1>1, <2>2
    <3> HIDE DEF j
    <3>2. x[i] = u[n + j] /\ y[i] = w[j]
      BY <1>3, <1>4, <1>5, <3>1
    <3> QED
      BY <1>1, <3>1, <3>2
  <2> QED
    BY <2>1, <2>2
<1>7. Len(x) = Len(y) /\ Len(x) = k - m + 1
  BY <1>1, <1>3, <1>4, <1>5
<1>8. x = y
  BY <1>4, <1>5, <1>6, <1>7, SeqEqual
<1> QED
  BY <1>8 DEF u, n, k, t, x, y

\* The '&' at the end of a pair is in q, or w begins with it.
Complete(q, w, e) == e <= Len(q) \/ (1 \in 1 .. Len(w) /\ w[1] = Ampersand)

\* What follows a pair does not change it, if it is complete or a '&' follows.
LEMMA PairOn ==
  ASSUME NEW q \in Seq(Nat), NEW w \in Seq(Nat), NEW p, NEW e \in Nat, NEW k \in Key, NEW val \in Seq(Code),
         IsPair(q, p, e, k, val),
         Complete(q, w, e)
  PROVE  IsPair(q \o w, p, e, k, val)
<1> DEFINE u == q \o w
<1>1. PICK a, b : PairAt(q, p, a, b, e, k, val)
  BY DEF IsPair
<1>2. /\ u \in Seq(Nat) /\ Len(q) \in Nat /\ Len(w) \in Nat /\ Len(u) = Len(q) + Len(w)
      /\ \A i \in 1 .. Len(q) : u[i] = q[i]
      /\ \A i \in 1 .. Len(w) : u[Len(q) + i] = w[i]
  BY Appended
<1>3. Len(k) \in Nat \ {0}
  BY KeyFacts
<1>4. p \in 1 .. Len(q) /\ p \in Nat
  BY <1>1, <1>2 DEF PairAt
<1>5. a \in Nat /\ a >= 1
  <2>1. CASE a = p
    BY <1>4, <2>1
  <2>2. CASE a = p + 1
    BY <1>4, <2>2
  <2> QED
    BY <1>1, <2>1, <2>2 DEF PairAt
<1>6. b = a + Len(k) /\ b <= Len(q) /\ b \in 1 .. Len(q) /\ b \in Nat /\ e \in b + 1 .. Len(q) + 1 /\ e \in Nat
  <2>1. b = a + Len(k) /\ b <= Len(q) /\ e \in b + 1 .. Len(q) + 1
    BY <1>1 DEF PairAt
  <2> QED
    BY <1>2, <1>3, <1>5, <2>1
<1>7. SubSeq(u, b + 1, e - 1) = SubSeq(q, b + 1, e - 1)
  <2>1. b + 1 \in 1 .. Len(q) + 1 /\ e - 1 \in (b + 1) - 1 .. Len(q)
    BY <1>2, <1>6
  <2> QED
    BY <2>1, PartSame
<1>8. p \in 1 .. Len(u) /\ b <= Len(u) /\ e \in b + 1 .. Len(u) + 1
  BY <1>2, <1>4, <1>6
<1>9. a = p \/ (a = p + 1 /\ u[p] = Ampersand)
  BY <1>1, <1>2, <1>4 DEF PairAt
<1>10. ASSUME NEW j \in 1 .. Len(k) PROVE u[a + j - 1] = k[j]
  <2>1. a + j - 1 \in 1 .. Len(q)
    BY <1>2, <1>3, <1>5, <1>6
  <2>2. q[a + j - 1] = k[j]
    BY <1>1 DEF PairAt
  <2> QED
    BY <1>2, <2>1, <2>2
<1>11. u[b] = Equals
  BY <1>1, <1>2, <1>6 DEF PairAt
<1>12. ASSUME e <= Len(u) PROVE u[e] = Ampersand
  <2>1. CASE e <= Len(q)
    <3>1. e \in 1 .. Len(q)
      BY <1>2, <1>6, <2>1
    <3> QED
      BY <1>1, <1>2, <2>1, <3>1 DEF PairAt
  <2>2. CASE ~ e <= Len(q)
    <3>1. 1 \in 1 .. Len(w) /\ w[1] = Ampersand
      BY <2>2 DEF Complete
    <3>2. e = Len(q) + 1
      <4>1. Len(q) \in Nat /\ e \in Nat /\ e <= Len(q) + 1
        BY <1>2, <1>6
      <4> QED
        BY <2>2, <4>1
    <3> QED
      BY <1>2, <3>1, <3>2
  <2> QED
    BY <2>1, <2>2
<1>13. ASSUME NEW i \in b + 1 .. e - 1 PROVE u[i] # Ampersand
  <2>1. i \in 1 .. Len(q)
    BY <1>2, <1>6
  <2>2. q[i] # Ampersand
    BY <1>1 DEF PairAt
  <2> QED
    BY <1>2, <2>1, <2>2
<1>14. Written(SubSeq(u, b + 1, e - 1), val)
  BY <1>1, <1>7 DEF PairAt
<1> HIDE DEF u
<1>15. PairAt(u, p, a, b, e, k, val)
  BY <1>6, <1>8, <1>9, <1>10, <1>11, <1>12, <1>13, <1>14 DEF PairAt
<1> QED
  BY <1>15 DEF IsPair, u

\* The value of the last pair grows.
LEMMA PairLonger ==
  ASSUME NEW q \in Seq(Nat), NEW p, NEW k \in Key, NEW val \in Seq(Code),
         IsPair(q, p, Len(q) + 1, k, val), NEW c \in Code, NEW w \in Spellings(c)
  PROVE  IsPair(q \o w, p, Len(q \o w) + 1, k, Append(val, c))
<1> DEFINE u == q \o w
           e == Len(u) + 1
<1>0. w \in Seq(Nat)
  BY SpellingIs
<1>1. PICK a, b : PairAt(q, p, a, b, Len(q) + 1, k, val)
  BY DEF IsPair
<1>2. /\ u \in Seq(Nat) /\ Len(q) \in Nat /\ Len(w) \in Nat /\ Len(u) = Len(q) + Len(w)
      /\ \A i \in 1 .. Len(q) : u[i] = q[i]
      /\ \A i \in 1 .. Len(w) : u[Len(q) + i] = w[i]
  BY <1>0, Appended
<1>3. Len(k) \in Nat \ {0}
  BY KeyFacts
<1>4. p \in 1 .. Len(q) /\ p \in Nat
  BY <1>1, <1>2 DEF PairAt
<1>5. a \in Nat /\ a >= 1
  <2>1. CASE a = p
    BY <1>4, <2>1
  <2>2. CASE a = p + 1
    BY <1>4, <2>2
  <2> QED
    BY <1>1, <2>1, <2>2 DEF PairAt
<1>6. b = a + Len(k) /\ b <= Len(q) /\ b \in 1 .. Len(q) /\ b \in Nat
  <2>1. b = a + Len(k) /\ b <= Len(q)
    BY <1>1 DEF PairAt
  <2> QED
    BY <1>2, <1>3, <1>5, <2>1
<1>7. SubSeq(u, b + 1, e - 1) = SubSeq(q, b + 1, Len(q)) \o w
  <2>1. b + 1 \in 1 .. Len(q) + 1 /\ e - 1 = Len(u)
    BY <1>2, <1>6
  <2>2. SubSeq(u, b + 1, Len(u)) = SubSeq(q, b + 1, Len(q)) \o w
    BY <1>0, <2>1, PartLonger
  <2> QED
    BY <2>1, <2>2
<1>8. p \in 1 .. Len(u) /\ b <= Len(u) /\ e \in b + 1 .. Len(u) + 1 /\ ~ e <= Len(u)
  BY <1>2, <1>4, <1>6
<1>9. a = p \/ (a = p + 1 /\ u[p] = Ampersand)
  BY <1>1, <1>2, <1>4 DEF PairAt
<1>10. ASSUME NEW j \in 1 .. Len(k) PROVE u[a + j - 1] = k[j]
  <2>1. a + j - 1 \in 1 .. Len(q)
    BY <1>2, <1>3, <1>5, <1>6
  <2>2. q[a + j - 1] = k[j]
    BY <1>1 DEF PairAt
  <2> QED
    BY <1>2, <2>1, <2>2
<1>11. u[b] = Equals
  BY <1>1, <1>2, <1>6 DEF PairAt
<1>12. ASSUME NEW i \in b + 1 .. e - 1 PROVE u[i] # Ampersand
  <2>1. CASE i <= Len(q)
    <3>1. i \in 1 .. Len(q) /\ i \in b + 1 .. (Len(q) + 1) - 1
      BY <1>2, <1>6, <2>1
    <3>2. q[i] # Ampersand
      BY <1>1, <3>1 DEF PairAt
    <3> QED
      BY <1>2, <3>1, <3>2
  <2>2. CASE ~ i <= Len(q)
    <3>1. i - Len(q) \in 1 .. Len(w) /\ Len(q) + (i - Len(q)) = i
      BY <1>2, <1>6, <2>2
    <3> QED
      BY <1>2, <3>1, SpellingPlain
  <2> QED
    BY <2>1, <2>2
<1>13. Written(SubSeq(u, b + 1, e - 1), Append(val, c))
  <2> DEFINE v == SubSeq(q, b + 1, Len(q))
  <2>1. (Len(q) + 1) - 1 = Len(q) /\ b + 1 \in 1 .. Len(q) + 1 /\ Len(q) \in (b + 1) - 1 .. Len(q)
    BY <1>2, <1>6
  <2>2. Written(v, val)
    BY <1>1, <2>1 DEF PairAt
  <2>3. v \in Seq(Nat)
    BY <2>1, Part
  <2> HIDE DEF v
  <2>4. Written(v \o w, Append(val, c))
    BY <2>2, <2>3, WrittenOn
  <2> QED
    BY <1>7, <2>4 DEF v
<1> HIDE DEF u, e
<1>14. PairAt(u, p, a, b, e, k, Append(val, c))
  BY <1>6, <1>8, <1>9, <1>10, <1>11, <1>12, <1>13 DEF PairAt
<1> QED
  BY <1>14 DEF IsPair, u, e

\* A key and a '=' at the end are a pair without a value.
LEMMA PairNew ==
  ASSUME NEW u \in Seq(Nat), NEW p \in 1 .. Len(u), NEW a \in Nat, NEW k \in Key,
         a = p \/ (a = p + 1 /\ u[p] = Ampersand),
         Len(u) = a + Len(k), \A j \in 1 .. Len(k) : u[a + j - 1] = k[j], u[Len(u)] = Equals
  PROVE  IsPair(u, p, Len(u) + 1, k, <<>>)
<1>1. Len(u) \in Nat
  BY LenProperties
<1> DEFINE n == Len(u)
<1>2. SubSeq(u, n + 1, (n + 1) - 1) = <<>>
  <2>1. n + 1 \in Int /\ (n + 1) - 1 \in Int /\ (n + 1) - 1 < n + 1
    BY <1>1
  <2> HIDE DEF n
  <2> QED
    BY <2>1, SubSeqEmpty
<1>3. Written(SubSeq(u, n + 1, (n + 1) - 1), <<>>)
  BY <1>2, WrittenNothing
<1>4. n + 1 \in n + 1 .. n + 1 /\ ~ n + 1 <= n /\ n <= n /\ \A i \in n + 1 .. (n + 1) - 1 : FALSE
  BY <1>1
<1>5. PairAt(u, p, a, n, n + 1, k, <<>>)
  BY <1>3, <1>4 DEF PairAt
<1> QED
  BY <1>5 DEF IsPair

LEMMA LayMore ==
  ASSUME NEW q \in Seq(Nat), NEW w \in Seq(Nat), NEW meant \in Seq(Pair), NEW at, LaidOut(q, meant, at),
         NEW k \in Key, IsPair(q \o w, Len(q) + 1, Len(q \o w) + 1, k, <<>>),
         meant = <<>> \/ (1 \in 1 .. Len(w) /\ w[1] = Ampersand)
  PROVE  \E on : LaidOut(q \o w, Append(meant, <<k, <<>>>>), on)
<1> DEFINE n == Len(meant)
           u == q \o w
           on == [j \in 1 .. n + 2 |-> IF j <= n + 1 THEN at[j] ELSE Len(u) + 1]
           pair == <<k, <<>>>>
           more == Append(meant, pair)
<1>1. /\ Len(q) \in Nat /\ Len(w) \in Nat /\ Len(u) \in Nat /\ Len(u) = Len(q) + Len(w)
      /\ Len(q) <= Len(u) /\ u \in Seq(Nat)
  BY Appended
<1>2. n \in Nat
  BY LenProperties
<1>3. pair \in Pair /\ pair[1] = k /\ pair[2] = <<>>
  <2>1. <<>> \in Seq(Code)
    OBVIOUS
  <2> QED
    BY <2>1 DEF Pair
<1> HIDE DEF pair
<1>4. /\ Len(more) = n + 1 /\ more[n + 1] = pair
      /\ \A j \in 1 .. n : more[j] = meant[j]
  BY <1>3, AppendProperties
<1>5. /\ \A j \in 1 .. n + 1 : on[j] = at[j]
      /\ on[n + 2] = Len(u) + 1
  BY <1>2
<1>6. /\ \A j \in 1 .. n + 1 : at[j] \in 1 .. Len(q) + 1
      /\ at[1] = 1 /\ at[n + 1] = Len(q) + 1
      /\ \A j \in 1 .. n : IsPair(q, at[j], at[j + 1], meant[j][1], meant[j][2])
  BY DEF LaidOut
<1>7. ASSUME NEW j \in 1 .. n PROVE IsPair(u, at[j], at[j + 1], meant[j][1], meant[j][2])
  <2>1. meant # <<>>
    BY <1>2
  <2>2. Complete(q, w, at[j + 1])
    BY <2>1 DEF Complete
  <2>3. at[j + 1] \in Nat
    <3>1. j + 1 \in 1 .. n + 1
      BY <1>2
    <3> QED
      BY <1>1, <1>6, <3>1
  <2>4. meant[j][1] \in Key /\ meant[j][2] \in Seq(Code)
    BY PairFacts
  <2>5. IsPair(q, at[j], at[j + 1], meant[j][1], meant[j][2])
    BY <1>6
  <2> QED
    BY <2>2, <2>3, <2>4, <2>5, PairOn
<1>8. IsPair(u, Len(q) + 1, Len(u) + 1, k, <<>>)
  OBVIOUS
<1> HIDE DEF n, u, on, more
<1>9. ASSUME NEW j \in 1 .. n + 2 PROVE on[j] \in 1 .. Len(u) + 1
  <2>1. j \in 1 .. n + 1 \/ j = n + 2
    BY <1>2
  <2>2. CASE j = n + 2
    BY <1>1, <1>5, <2>2
  <2>3. CASE j \in 1 .. n + 1
    <3>1. on[j] = at[j] /\ at[j] \in 1 .. Len(q) + 1
      BY <1>5, <1>6, <2>3
    <3>2. 1 .. Len(q) + 1 \subseteq 1 .. Len(u) + 1
      BY <1>1
    <3> QED
      BY <3>1, <3>2
  <2> QED
    BY <2>1, <2>2, <2>3
<1>10. ASSUME NEW j \in 1 .. n + 1 PROVE IsPair(u, on[j], on[j + 1], more[j][1], more[j][2])
  <2>1. CASE j = n + 1
    <3>1. j + 1 = n + 2
      BY <1>2, <2>1
    <3> QED
      BY <1>3, <1>4, <1>5, <1>6, <1>8, <2>1, <3>1
  <2>2. CASE j # n + 1
    <3>1. j \in 1 .. n /\ j + 1 \in 1 .. n + 1
      BY <1>2, <2>2
    <3> QED
      BY <1>4, <1>5, <1>7, <3>1
  <2> QED
    BY <2>1, <2>2
<1>11. LaidOut(u, more, on)
  <2>1. (n + 1) + 1 = n + 2 /\ 1 \in 1 .. n + 1
    BY <1>2
  <2>2. on[1] = 1 /\ on[(n + 1) + 1] = Len(u) + 1
    BY <1>5, <1>6, <2>1
  <2> QED
    BY <1>4, <1>9, <1>10, <2>1, <2>2 DEF LaidOut
<1> QED
  BY <1>11 DEF u, more, pair

Longer(meant, c) == [meant EXCEPT ![Len(meant)][2] = Append(@, c)]

LEMMA LongerIs ==
  ASSUME NEW meant \in Seq(Pair), meant # <<>>, NEW c \in Code
  PROVE  /\ Len(meant) \in Nat \ {0} /\ Longer(meant, c) \in Seq(Pair)
         /\ Len(Longer(meant, c)) = Len(meant)
         /\ \A j \in 1 .. Len(meant) : j # Len(meant) => Longer(meant, c)[j] = meant[j]
         /\ Longer(meant, c)[Len(meant)][1] = meant[Len(meant)][1]
         /\ Longer(meant, c)[Len(meant)][2] = Append(meant[Len(meant)][2], c)
<1> DEFINE n == Len(meant)
           last == [meant[n] EXCEPT ![2] = Append(@, c)]
           more == [meant EXCEPT ![n] = last]
<1>1. n \in Nat \ {0} /\ DOMAIN meant = 1 .. n /\ n \in 1 .. n
  BY EmptySeq, LenProperties
<1>2. /\ meant[n][1] \in Key /\ meant[n][2] \in Seq(Code)
      /\ meant[n] = <<meant[n][1], meant[n][2]>>
  BY <1>1, PairFacts
<1>3. last = <<meant[n][1], Append(meant[n][2], c)>>
  <2> DEFINE k == meant[n][1]
             v == meant[n][2]
  <2>1. meant[n] = <<k, v>>
    BY <1>2
  <2> HIDE DEF k, v
  <2>2. [<<k, v>> EXCEPT ![2] = Append(@, c)] = <<k, Append(v, c)>>
    OBVIOUS
  <2> QED
    BY <2>1, <2>2 DEF k, v
<1>4. Append(meant[n][2], c) \in Seq(Code)
  BY <1>2, AppendProperties
<1>5. last \in Pair /\ last[1] = meant[n][1] /\ last[2] = Append(meant[n][2], c)
  <2> DEFINE k == meant[n][1]
             v == Append(meant[n][2], c)
  <2>1. last = <<k, v>> /\ k \in Key /\ v \in Seq(Code)
    BY <1>2, <1>3, <1>4
  <2> HIDE DEF k, v, last
  <2>2. last \in Pair /\ last[1] = k /\ last[2] = v
    BY <2>1 DEF Pair
  <2> QED
    BY <2>2 DEF k, v
<1> HIDE DEF last
<1>6. \A j \in 1 .. n : more[j] = IF j = n THEN last ELSE meant[j]
  BY <1>1
<1>7. \A j \in 1 .. n : meant[j] \in Pair
  BY ElementOfSeq
<1>8. more \in [1 .. n -> Pair]
  BY <1>1, <1>5, <1>7
<1>9. more \in Seq(Pair) /\ Len(more) = n
  <2> HIDE DEF more, n
  <2> QED
    BY <1>1, <1>8, FunctionIsSeq
<1>10. Longer(meant, c) = more
  BY DEF Longer, last
<1> HIDE DEF more
<1> QED
  BY <1>1, <1>5, <1>6, <1>9, <1>10

LEMMA LayLonger ==
  ASSUME NEW q \in Seq(Nat), NEW meant \in Seq(Pair), meant # <<>>, NEW at, LaidOut(q, meant, at),
         NEW c \in Code, NEW w \in Spellings(c)
  PROVE  \E on : LaidOut(q \o w, Longer(meant, c), on)
<1> DEFINE n == Len(meant)
           u == q \o w
           on == [j \in 1 .. n + 1 |-> IF j <= n THEN at[j] ELSE Len(u) + 1]
           more == Longer(meant, c)
<1>0. w \in Seq(Nat)
  BY SpellingIs
<1>1. /\ Len(q) \in Nat /\ Len(w) \in Nat /\ Len(u) \in Nat /\ Len(u) = Len(q) + Len(w)
      /\ Len(q) <= Len(u) /\ u \in Seq(Nat)
  BY <1>0, Appended
<1>2. /\ n \in Nat \ {0} /\ Len(more) = n
      /\ \A j \in 1 .. n : j # n => more[j] = meant[j]
      /\ more[n][1] = meant[n][1] /\ more[n][2] = Append(meant[n][2], c)
  BY LongerIs
<1>3. /\ \A j \in 1 .. n : on[j] = at[j]
      /\ on[n + 1] = Len(u) + 1
  BY <1>2
<1>4. /\ \A j \in 1 .. n + 1 : at[j] \in 1 .. Len(q) + 1
      /\ at[1] = 1 /\ at[n + 1] = Len(q) + 1
      /\ \A j \in 1 .. n : IsPair(q, at[j], at[j + 1], meant[j][1], meant[j][2])
  BY DEF LaidOut
<1>5. \A j \in 1 .. n : at[j] \in 1 .. Len(q)
  BY <1>4 DEF IsPair, PairAt
<1>6. \A j \in 1 .. n : meant[j][1] \in Key /\ meant[j][2] \in Seq(Code)
  BY PairFacts
<1>7. ASSUME NEW j \in 1 .. n, j # n PROVE IsPair(u, at[j], at[j + 1], meant[j][1], meant[j][2])
  <2>1. j + 1 \in 1 .. n
    BY <1>2, <1>7
  <2>2. at[j + 1] \in Nat /\ Complete(q, w, at[j + 1])
    BY <1>1, <1>5, <2>1 DEF Complete
  <2>3. IsPair(q, at[j], at[j + 1], meant[j][1], meant[j][2]) /\ meant[j][1] \in Key /\ meant[j][2] \in Seq(Code)
    BY <1>4, <1>6
  <2> QED
    BY <1>0, <2>2, <2>3, PairOn
<1>8. IsPair(u, at[n], Len(u) + 1, meant[n][1], Append(meant[n][2], c))
  <2>1. n \in 1 .. n
    BY <1>2
  <2>2. IsPair(q, at[n], Len(q) + 1, meant[n][1], meant[n][2]) /\ meant[n][1] \in Key /\ meant[n][2] \in Seq(Code)
    BY <1>4, <1>6, <2>1
  <2> QED
    BY <2>2, PairLonger
<1> HIDE DEF n, u, on, more
<1>9. ASSUME NEW j \in 1 .. n + 1 PROVE on[j] \in 1 .. Len(u) + 1
  <2>1. CASE j = n + 1
    BY <1>1, <1>3, <2>1
  <2>2. CASE j # n + 1
    <3>1. j \in 1 .. n /\ at[j] \in 1 .. Len(q) + 1
      BY <1>2, <1>4, <2>2
    <3> QED
      BY <1>1, <1>3, <3>1
  <2> QED
    BY <2>1, <2>2
<1>10. ASSUME NEW j \in 1 .. n PROVE IsPair(u, on[j], on[j + 1], more[j][1], more[j][2])
  <2>1. CASE j = n
    BY <1>2, <1>3, <1>8, <2>1
  <2>2. CASE j # n
    <3>1. j + 1 \in 1 .. n
      BY <1>2, <2>2
    <3> QED
      BY <1>2, <1>3, <1>7, <2>2, <3>1
  <2> QED
    BY <2>1, <2>2
<1>11. LaidOut(u, more, on)
  <2>1. 1 \in 1 .. n
    BY <1>2
  <2> QED
    BY <1>2, <1>3, <1>4, <1>9, <1>10, <2>1 DEF LaidOut
<1> QED
  BY <1>11 DEF u, more

-----------------------------------------------------------------------------
(* The text of a query goes on with a key or with a character *)

\* What comes before a key.
Separator(t) == t = <<>> \/ t = <<Ampersand>>

KeyText(t, k) == (t \o k) \o <<Equals>>

LEMMA KeyWritten ==
  ASSUME NEW q \in Seq(Nat), NEW t \in Seq(Nat), Separator(t), NEW k \in Key
  PROVE  /\ KeyText(t, k) \in Seq(Nat)
         /\ t # <<>> => 1 \in 1 .. Len(KeyText(t, k)) /\ KeyText(t, k)[1] = Ampersand
         /\ IsPair(q \o KeyText(t, k), Len(q) + 1, Len(q \o KeyText(t, k)) + 1, k, <<>>)
<1> DEFINE x == t \o k
           w == KeyText(t, k)
           u == q \o w
           e == <<Equals>>
           n == Len(t)
           m == Len(k)
           p == Len(q) + 1
           a == Len(q) + 1 + n
<1>1. k \in Seq(Nat) /\ m \in Nat \ {0} /\ m \in Nat
  BY KeyFacts
<1>2. e \in Seq(Nat) /\ Len(e) = 1 /\ e[1] = Equals
  BY DEF Equals
<1>3. /\ x \in Seq(Nat) /\ n \in Nat /\ Len(x) = n + m
      /\ \A i \in 1 .. n : x[i] = t[i]
      /\ \A i \in 1 .. m : x[n + i] = k[i]
  BY <1>1, Appended
<1> HIDE DEF e, x
<1>4. /\ w \in Seq(Nat) /\ Len(w) = Len(x) + 1
      /\ \A i \in 1 .. Len(x) : w[i] = x[i]
      /\ w[Len(x) + 1] = Equals
  <2>1. w = x \o e
    BY DEF x, e, KeyText
  <2> HIDE DEF w
  <2>2. /\ w \in Seq(Nat) /\ Len(w) = Len(x) + Len(e)
        /\ \A i \in 1 .. Len(x) : w[i] = x[i]
        /\ \A i \in 1 .. Len(e) : w[Len(x) + i] = e[i]
    <3>1. /\ x \o e \in Seq(Nat) /\ Len(x \o e) = Len(x) + Len(e)
          /\ \A i \in 1 .. Len(x) : (x \o e)[i] = x[i]
          /\ \A i \in 1 .. Len(e) : (x \o e)[Len(x) + i] = e[i]
      BY <1>2, <1>3, Appended
    <3> QED
      BY <2>1, <3>1
  <2>3. 1 \in 1 .. Len(e)
    BY <1>2
  <2> QED
    BY <1>2, <2>2, <2>3
<1> HIDE DEF w
<1>5. /\ u \in Seq(Nat) /\ Len(q) \in Nat /\ Len(w) \in Nat /\ Len(u) = Len(q) + Len(w)
      /\ \A i \in 1 .. Len(w) : u[Len(q) + i] = w[i]
  BY <1>4, Appended
<1>6. n = 0 \/ (n = 1 /\ t[1] = Ampersand)
  <2>1. CASE t = <<>>
    BY <2>1
  <2>2. CASE t = <<Ampersand>>
    BY <2>2
  <2> QED
    BY <2>1, <2>2 DEF Separator
<1>7. ASSUME t # <<>> PROVE 1 \in 1 .. Len(w) /\ w[1] = Ampersand
  <2>1. n = 1 /\ t[1] = Ampersand
    BY <1>6, <1>7, EmptySeq
  <2>2. 1 \in 1 .. n /\ 1 \in 1 .. Len(x) /\ 1 \in 1 .. Len(w)
    BY <1>1, <1>3, <1>4, <2>1
  <2> QED
    BY <1>3, <1>4, <2>1, <2>2
<1> HIDE DEF u, n, m
<1>8. a \in Nat /\ p \in 1 .. Len(u) /\ Len(u) = a + m
  BY <1>1, <1>3, <1>4, <1>5, <1>6
<1>9. a = p \/ (a = p + 1 /\ u[p] = Ampersand)
  <2>1. CASE n = 0
    BY <1>5, <2>1
  <2>2. CASE n = 1 /\ t[1] = Ampersand
    <3>1. 1 \in 1 .. n /\ 1 \in 1 .. Len(x) /\ 1 \in 1 .. Len(w)
      BY <1>1, <1>3, <1>4, <2>2
    <3>2. u[Len(q) + 1] = Ampersand
      BY <1>3, <1>4, <1>5, <2>2, <3>1
    <3> QED
      BY <1>5, <2>2, <3>2
  <2> QED
    BY <1>6, <2>1, <2>2
<1>10. ASSUME NEW j \in 1 .. m PROVE u[a + j - 1] = k[j]
  <2>1. n + j \in 1 .. Len(x) /\ n + j \in 1 .. Len(w) /\ a + j - 1 = Len(q) + (n + j)
    <3>1. n \in Nat /\ m \in Nat /\ Len(x) = n + m /\ Len(w) = Len(x) + 1 /\ Len(q) \in Nat
      BY <1>1, <1>3, <1>4, <1>5
    <3>2. n + j \in 1 .. n + m /\ n + j \in 1 .. (n + m) + 1
      BY <3>1
    <3>3. a + j - 1 = Len(q) + (n + j)
      BY <3>1
    <3> QED
      BY <3>1, <3>2, <3>3
  <2> QED
    BY <1>3, <1>4, <1>5, <2>1
<1>11. u[Len(u)] = Equals
  <2>1. Len(w) \in 1 .. Len(w) /\ Len(w) = Len(x) + 1 /\ Len(u) = Len(q) + Len(w)
    BY <1>1, <1>3, <1>4, <1>5
  <2> QED
    BY <1>4, <1>5, <2>1
<1> HIDE DEF a, p
<1>12. IsPair(u, p, Len(u) + 1, k, <<>>)
  BY <1>5, <1>8, <1>9, <1>10, <1>11, PairNew DEF m
<1> QED
  BY <1>4, <1>7, <1>12 DEF u, p, w

PathFront == <<47, Question>>

LEMMA FrontIs == /\ PathFront \in Seq(Nat) /\ Len(PathFront) = 2 /\ PathFront[1] = 47 /\ PathFront[2] = Question
                 /\ <<47>> \o <<Question>> = PathFront
<1>1. Question \in Nat /\ 47 \in Nat
  BY DEF Question
<1> HIDE DEF Question
<1>2. PathFront \in Seq(Nat) /\ Len(PathFront) = 2 /\ PathFront[1] = 47 /\ PathFront[2] = Question
  BY <1>1 DEF PathFront
<1> DEFINE s == <<47>>
           t == <<Question>>
<1>3. s \in Seq(Nat) /\ t \in Seq(Nat) /\ Len(s) = 1 /\ Len(t) = 1 /\ s[1] = 47 /\ t[1] = Question
  BY <1>1
<1> HIDE DEF s, t
<1>4. /\ s \o t \in Seq(Nat) /\ Len(s \o t) = 1 + 1
      /\ \A i \in 1 .. 1 : (s \o t)[i] = s[i]
      /\ \A i \in 1 .. 1 : (s \o t)[1 + i] = t[i]
  <2>1. /\ s \o t \in Seq(Nat) /\ Len(s \o t) = Len(s) + Len(t)
        /\ \A i \in 1 .. Len(s) : (s \o t)[i] = s[i]
        /\ \A i \in 1 .. Len(t) : (s \o t)[Len(s) + i] = t[i]
    BY <1>3, Appended
  <2> QED
    BY <1>3, <2>1
<1>5. 1 \in 1 .. 1 /\ 1 + 1 = 2 /\ \A i \in 1 .. 2 : i = 1 \/ i = 2
  OBVIOUS
<1>6. (s \o t)[1] = 47 /\ (s \o t)[2] = Question
  BY <1>3, <1>4, <1>5
<1>7. \A i \in 1 .. Len(PathFront) : (s \o t)[i] = PathFront[i]
  BY <1>2, <1>5, <1>6
<1>8. s \o t = PathFront
  <2>1. Len(s \o t) = Len(PathFront)
    BY <1>2, <1>4, <1>5
  <2> QED
    BY <1>2, <1>4, <1>7, <2>1, SeqEqual
<1> QED
  BY <1>2, <1>8 DEF s, t

LEMMA NoQueryParsed == ParseQuery(<<47>>) = <<>>
<1> DEFINE s == <<47>>
<1>1. s \in Seq(Nat) /\ Len(s) = 1 /\ s[1] = 47
  OBVIOUS
<1> HIDE DEF s
<1>2. 47 # Question
  BY DEF Question
<1>3. FirstIs(s, 1, 2, {Question})
  <2>1. 2 \in 1 .. Len(s) + 1 /\ ~ 2 <= Len(s)
    BY <1>1
  <2>2. ASSUME NEW i \in 1 .. Len(s), i < 2 PROVE s[i] \notin {Question}
    <3>1. i = 1
      BY <2>2
    <3> QED
      BY <1>1, <1>2, <3>1
  <2> QED
    BY <2>1, <2>2 DEF FirstIs
<1>4. FirstOf(s, 1, {Question}) = 2
  <2>1. 1 \in 1 .. Len(s) + 1
    BY <1>1
  <2> QED
    BY <1>1, <1>3, <2>1, FirstOfAt
<1>5. ~ FirstOf(s, 1, {Question}) < Len(s)
  BY <1>1, <1>4
<1>6. ParseQuery(s) = <<>>
  BY <1>5 DEF ParseQuery
<1> QED
  BY <1>6 DEF s

LEMMA QueryParsed ==
  ASSUME NEW q \in Seq(Nat), q # <<>>
  PROVE  ParseQuery(PathFront \o q) = Matches(q)
<1> DEFINE s == PathFront \o q
<1>0. PathFront \in Seq(Nat) /\ Len(PathFront) = 2 /\ PathFront[1] = 47 /\ PathFront[2] = Question
  BY FrontIs
<1>1. /\ s \in Seq(Nat) /\ Len(q) \in Nat /\ Len(s) = 2 + Len(q)
      /\ \A i \in 1 .. 2 : s[i] = PathFront[i]
      /\ \A i \in 1 .. Len(q) : s[2 + i] = q[i]
  <2>1. /\ s \in Seq(Nat) /\ Len(q) \in Nat /\ Len(s) = Len(PathFront) + Len(q)
        /\ \A i \in 1 .. Len(PathFront) : s[i] = PathFront[i]
        /\ \A i \in 1 .. Len(q) : s[Len(PathFront) + i] = q[i]
    BY <1>0, Appended
  <2> QED
    BY <1>0, <2>1
<1>2. Len(q) # 0
  BY EmptySeq
<1> HIDE DEF s
<1>3. s[1] = 47 /\ s[2] = Question /\ 47 # Question
  <2>1. 1 \in 1 .. 2 /\ 2 \in 1 .. 2
    OBVIOUS
  <2>2. 47 # Question
    BY DEF Question
  <2> QED
    BY <1>0, <1>1, <2>1, <2>2
<1>4. FirstIs(s, 1, 2, {Question})
  <2>1. 2 \in 1 .. Len(s) + 1
    BY <1>1
  <2>2. ASSUME NEW i \in 1 .. Len(s), i < 2 PROVE s[i] \notin {Question}
    <3>1. i = 1
      BY <1>1, <2>2
    <3> QED
      BY <1>3, <3>1
  <2> QED
    BY <1>3, <2>1, <2>2 DEF FirstIs
<1>5. FirstOf(s, 1, {Question}) = 2
  <2>1. 1 \in 1 .. Len(s) + 1
    BY <1>1
  <2> QED
    BY <1>1, <1>4, <2>1, FirstOfAt
<1>6. 2 < Len(s) /\ 2 + 1 = 3
  BY <1>1, <1>2
<1>7. ParseQuery(s) = Matches(SubSeq(s, 3, Len(s)))
  BY <1>5, <1>6 DEF ParseQuery
<1>8. SubSeq(s, 3, Len(s)) = q
  <2>1. 3 \in 1 .. Len(s) + 1 /\ Len(s) \in 3 - 1 .. Len(s) /\ Len(s) - 3 + 1 = Len(q)
    BY <1>1, <1>2
  <2>2. /\ SubSeq(s, 3, Len(s)) \in Seq(Nat) /\ Len(SubSeq(s, 3, Len(s))) = Len(q)
        /\ \A i \in 1 .. Len(q) : SubSeq(s, 3, Len(s))[i] = s[3 + i - 1]
    BY <1>1, <2>1, Part
  <2>3. \A i \in 1 .. Len(q) : 3 + i - 1 = 2 + i
    BY <1>1
  <2>4. \A i \in 1 .. Len(q) : SubSeq(s, 3, Len(s))[i] = q[i]
    BY <1>1, <2>2, <2>3
  <2> QED
    BY <2>2, <2>4, SeqEqual
<1> QED
  BY <1>7, <1>8 DEF s

\* The path is a way to write the pairs that are meant.
Writes(path, meant) ==
  \/ path = <<47>> /\ meant = <<>>
  \/ \E q \in Seq(Nat) : \E at :
       path = PathFront \o q /\ meant \in Seq(Pair) /\ meant # <<>> /\ LaidOut(q, meant, at)

QueryInv == Writes(query.path, query.meant)

LEMMA WritesParsed ==
  ASSUME NEW path, NEW meant, Writes(path, meant)
  PROVE  ParseQuery(path) = meant
<1>1. CASE path = <<47>> /\ meant = <<>>
  BY <1>1, NoQueryParsed
<1>2. ASSUME NEW q \in Seq(Nat), NEW at, path = PathFront \o q, meant \in Seq(Pair), meant # <<>>,
             LaidOut(q, meant, at)
      PROVE  ParseQuery(path) = meant
  <2>1. q # <<>>
    <3>1. Len(meant) \in Nat \ {0} /\ 1 \in 1 .. Len(meant)
      BY <1>2, EmptySeq
    <3>2. IsPair(q, at[1], at[1 + 1], meant[1][1], meant[1][2])
      BY <1>2, <3>1 DEF LaidOut
    <3>3. at[1] \in 1 .. Len(q)
      BY <3>2 DEF IsPair, PairAt
    <3>4. Len(<<>>) = 0 /\ 1 .. 0 = {}
      OBVIOUS
    <3> QED
      BY <3>3, <3>4
  <2> QED
    BY <1>2, <2>1, QueryParsed, MatchesTo
<1> QED
  BY <1>1, <1>2 DEF Writes

LEMMA CatIs == \A x, y \in Seq(Nat) : Cat(x, y) \in Seq(Nat)
BY DEF Cat

LEMMA CatRegrouped ==
  \A x, y, z \in Seq(Nat) : Cat(Cat(x, y), z) = Cat(x, Cat(y, z))
<1> SUFFICES ASSUME NEW x \in Seq(Nat), NEW y \in Seq(Nat), NEW z \in Seq(Nat)
             PROVE  Cat(Cat(x, y), z) = Cat(x, Cat(y, z))
  OBVIOUS
<1> DEFINE A == Nat
<1>0. x \in Seq(A) /\ y \in Seq(A) /\ z \in Seq(A)
  OBVIOUS
<1> HIDE DEF A
<1>1. (x \o y) \o z = x \o (y \o z)
  BY <1>0, Regrouped, SMTT(30)
<1> QED
  BY <1>1, Zenon DEF Cat

LEMMA CatFive ==
  ASSUME NEW f \in Seq(Nat), NEW q \in Seq(Nat), NEW t \in Seq(Nat), NEW k \in Seq(Nat), NEW e \in Seq(Nat)
  PROVE  Cat(Cat(Cat(Cat(f, q), t), k), e) = Cat(f, Cat(q, Cat(Cat(t, k), e)))
<1>1. /\ Cat(f, q) \in Seq(Nat) /\ Cat(t, k) \in Seq(Nat)
      /\ Cat(Cat(t, k), e) \in Seq(Nat)
  BY CatIs
<1>2. Cat(Cat(Cat(f, q), t), k) = Cat(Cat(f, q), Cat(t, k))
  BY <1>1, CatRegrouped
<1>3. Cat(Cat(Cat(f, q), Cat(t, k)), e) = Cat(Cat(f, q), Cat(Cat(t, k), e))
  BY <1>1, CatRegrouped
<1>4. Cat(Cat(f, q), Cat(Cat(t, k), e)) = Cat(f, Cat(q, Cat(Cat(t, k), e)))
  BY <1>1, CatRegrouped
<1> QED
  BY <1>2, <1>3, <1>4

LEMMA Assoc ==
  ASSUME NEW x \in Seq(Nat), NEW y \in Seq(Nat), NEW z \in Seq(Nat)
  PROVE  (x \o y) \o z = x \o (y \o z)
<1>1. Cat(Cat(x, y), z) = Cat(x, Cat(y, z))
  BY CatRegrouped
<1> QED
  BY <1>1, Zenon DEF Cat

LEMMA KeyKept ==
  ASSUME NEW path, NEW meant, Writes(path, meant), NEW k \in Key
  PROVE  Writes(path \o <<IF meant = <<>> THEN Question ELSE Ampersand>> \o k \o <<Equals>>,
                Append(meant, <<k, <<>>>>))
<1> DEFINE e == <<Equals>>
           pair == <<k, <<>>>>
<1>0. k \in Seq(Nat) /\ e \in Seq(Nat) /\ PathFront \in Seq(Nat)
  BY KeyFacts, FrontIs DEF Equals
<1>1. pair \in Pair
  <2>1. <<>> \in Seq(Code)
    OBVIOUS
  <2> QED
    BY <2>1 DEF Pair
<1> HIDE DEF e, pair
<1>2. CASE path = <<47>> /\ meant = <<>>
  <2> DEFINE none == <<>>
             w == (none \o k) \o e
  <2>1. none \in Seq(Nat) /\ none \in Seq(Pair)
    OBVIOUS
  <2>2. none \o k = k
    BY <1>0, ConcatEmptySeq
  <2>3. w \in Seq(Nat) /\ IsPair(none \o w, Len(none) + 1, Len(none \o w) + 1, k, <<>>)
    <3>1. w = KeyText(none, k) /\ Separator(none)
      BY DEF KeyText, Separator, e
    <3> HIDE DEF w, none
    <3> QED
      BY <2>1, <3>1, KeyWritten
  <2>4. none \o w = w
    BY <2>3, ConcatEmptySeq
  <2> HIDE DEF none
  <2> DEFINE at == [j \in 1 .. 1 |-> 1]
  <2>5. LaidOut(none, none, at)
    <3>1. Len(none) = 0 /\ at[1] = 1 /\ 0 + 1 = 1
      BY DEF none
    <3> HIDE DEF at
    <3>2. \A j \in 1 .. 0 + 1 : at[j] \in 1 .. 0 + 1
      BY <3>1
    <3>3. 1 .. 0 = {}
      OBVIOUS
    <3> QED
      BY <3>1, <3>2, <3>3 DEF LaidOut
  <2> HIDE DEF at, w
  <2>6. PICK on : LaidOut(none \o w, Append(none, <<k, <<>>>>), on)
    BY <2>1, <2>3, <2>5, LayMore DEF none
  <2>7. LaidOut(w, Append(meant, pair), on)
    BY <1>2, <2>4, <2>6 DEF none, pair
  <2>8. Append(meant, pair) \in Seq(Pair) /\ Append(meant, pair) # <<>>
    BY <1>1, <1>2, <2>1, AppendProperties, EmptySeq DEF none
  <2>9. path \o <<Question>> \o k \o e = PathFront \o w
    <3>1. (PathFront \o k) \o e = PathFront \o (k \o e)
      BY <1>0, Assoc
    <3>2. path \o <<Question>> = PathFront
      BY <1>2, FrontIs
    <3>3. w = k \o e
      BY <2>2 DEF w
    <3> QED
      BY <3>1, <3>2, <3>3
  <2>10. Writes(path \o <<Question>> \o k \o e, Append(meant, pair))
    BY <2>3, <2>7, <2>8, <2>9 DEF Writes
  <2> QED
    BY <1>2, <2>10 DEF e, pair
<1>3. ASSUME NEW q \in Seq(Nat), NEW at, path = PathFront \o q, meant \in Seq(Pair), meant # <<>>,
             LaidOut(q, meant, at)
      PROVE  Writes(path \o <<Ampersand>> \o k \o e, Append(meant, pair))
  <2> DEFINE t == <<Ampersand>>
             w == (t \o k) \o e
  <2>1. t \in Seq(Nat) /\ t # <<>>
    BY DEF Ampersand
  <2>2. /\ w \in Seq(Nat) /\ 1 \in 1 .. Len(w) /\ w[1] = Ampersand
        /\ IsPair(q \o w, Len(q) + 1, Len(q \o w) + 1, k, <<>>)
    <3>1. w = KeyText(t, k) /\ Separator(t)
      BY DEF KeyText, Separator, e
    <3> HIDE DEF w, t
    <3> QED
      BY <2>1, <3>1, KeyWritten
  <2>3. t \o k \in Seq(Nat) /\ PathFront \o q \in Seq(Nat) /\ q \o w \in Seq(Nat)
    BY <1>0, <2>1, <2>2, ConcatProperties
  <2> HIDE DEF t
  <2>7. path \o t \o k \o e = PathFront \o (q \o w)
    <3>1. path = Cat(PathFront, q)
      BY <1>3 DEF Cat
    <3> HIDE DEF w
    <3>2. Cat(Cat(Cat(path, t), k), e) = Cat(PathFront, Cat(q, Cat(Cat(t, k), e)))
      BY <1>0, <1>3, <2>1, <3>1, CatFive
    <3> QED
      BY <3>2, Zenon DEF w, Cat
  <2> HIDE DEF w
  <2>8. PICK on : LaidOut(q \o w, Append(meant, <<k, <<>>>>), on)
    BY <1>3, <2>2, LayMore
  <2>9. Append(meant, pair) \in Seq(Pair) /\ Append(meant, pair) # <<>>
    BY <1>1, <1>3, AppendProperties, EmptySeq
  <2> QED
    BY <2>3, <2>7, <2>8, <2>9 DEF Writes, pair, t
<1> QED
  BY <1>2, <1>3 DEF Writes, e, pair

LEMMA CharacterKept ==
  ASSUME NEW path, NEW meant, Writes(path, meant), meant # <<>>, NEW c \in Code, NEW w \in Spellings(c)
  PROVE  Writes(path \o w, Longer(meant, c))
<1>0. PICK q \in Seq(Nat) :
        \E at : path = PathFront \o q /\ meant \in Seq(Pair) /\ LaidOut(q, meant, at)
  BY DEF Writes
<1>1. PICK at : path = PathFront \o q /\ meant \in Seq(Pair) /\ LaidOut(q, meant, at)
  BY <1>0
<1>2. w \in Seq(Nat) /\ PathFront \in Seq(Nat)
  BY SpellingIs, FrontIs
<1>3. path \o w = PathFront \o (q \o w) /\ q \o w \in Seq(Nat)
  BY <1>1, <1>2, Assoc, ConcatProperties
<1>4. PICK on : LaidOut(q \o w, Longer(meant, c), on)
  BY <1>1, LayLonger
<1>5. Longer(meant, c) \in Seq(Pair) /\ Longer(meant, c) # <<>>
  BY <1>1, LongerIs, EmptySeq
<1> QED
  BY <1>3, <1>4, <1>5 DEF Writes

(* Request::parse_query_string gives back the keys and values that were    *)
(* meant, for any keys of word characters, any values, any number of them  *)
(* and any way to write each character.                                    *)
THEOREM QueryIsDecoded == QuerySpec => []QueryDecoded
<1>1. QueryInit => QueryInv
  BY DEF QueryInit, NoQuery, QueryInv, Writes
<1>2. ASSUME QueryInv, WriteKey PROVE QueryInv'
  <2>1. PICK k \in Keys :
          query' = [path  |-> query.path \o <<IF query.meant = <<>> THEN Question ELSE Ampersand>>
                                \o k \o <<Equals>>,
                    meant |-> Append(query.meant, <<k, <<>>>>)]
    BY <1>2 DEF WriteKey
  <2>2. k \in Key
    BY CharactersAssumption DEF Key
  <2>3. Writes(query.path, query.meant)
    BY <1>2 DEF QueryInv
  <2>4. Writes(query.path \o <<IF query.meant = <<>> THEN Question ELSE Ampersand>> \o k \o <<Equals>>,
               Append(query.meant, <<k, <<>>>>))
    BY <2>2, <2>3, KeyKept
  <2> QED
    BY <2>1, <2>4 DEF QueryInv
<1>3. ASSUME QueryInv, WriteCharacter PROVE QueryInv'
  <2>1. query.meant # <<>>
    BY <1>3 DEF WriteCharacter
  <2>2. PICK c \in ValueCharacters : \E w \in Spellings(c) :
          query' = [path  |-> query.path \o w,
                    meant |-> [query.meant EXCEPT ![Len(query.meant)][2] = Append(@, c)]]
    BY <1>3 DEF WriteCharacter
  <2>3. PICK w \in Spellings(c) :
          query' = [path |-> query.path \o w, meant |-> Longer(query.meant, c)]
    BY <2>2 DEF Longer
  <2>4. c \in Code
    BY CharactersAssumption DEF Code
  <2>5. Writes(query.path, query.meant)
    BY <1>3 DEF QueryInv
  <2>6. Writes(query.path \o w, Longer(query.meant, c))
    BY <2>1, <2>4, <2>5, CharacterKept
  <2> QED
    BY <2>3, <2>6 DEF QueryInv
<1>4. ASSUME NewPath PROVE QueryInv'
  BY <1>4 DEF NewPath, NoQuery, QueryInv, Writes
<1>5. QueryInv /\ [WriteKey \/ WriteCharacter \/ NewPath]_query => QueryInv'
  BY <1>2, <1>3, <1>4 DEF QueryInv
<1>6. QueryInv => QueryDecoded
  BY WritesParsed DEF QueryInv, QueryDecoded
<1> QED
  BY <1>1, <1>5, <1>6, PTL DEF QuerySpec
=============================================================================
