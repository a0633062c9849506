-------------------------------- MODULE Base64 --------------------------------
(***************************************************************************)
(* Crypto::Base64 (crypto.hpp): encode and decode let OpenSSL write into   *)
(* the memory of a std::string whose size they compute before.  Only the   *)
(* sizes are the code's own; the encoding is OpenSSL's.                    *)
(*                                                                         *)
(* The sizes are below 2^31, as they are cast to int, and so far below     *)
(* 2^53 that ceil(size / 3.0) in double is the exact one.                  *)
(***************************************************************************)
EXTENDS Integers, TLAPS

\* ceil(n / 3.0), for a natural number.
Ceil3(n) == IF n % 3 = 0 THEN n \div 3 ELSE n \div 3 + 1

\* base64_length in encode: what the string is resized to.
Base64Length(n) == 4 * Ceil3(n)

\* bptr->max in encode: what the memory BIO may use of the string, whose
\* terminating null counts.
BufferMax(n) == Base64Length(n) + 1

\* What BIO_write and BIO_flush put there for n bytes, without line ends: four
\* characters for every three bytes, and four for a rest.
Written(n) == LET rest == n % 3 IN  4 * ((n - rest) \div 3) + (IF rest = 0 THEN 0 ELSE 4)

\* What decode resizes its string to before BIO_read, for m characters.
DecodeBuffer(m) == (6 * m) \div 8

-----------------------------------------------------------------------------

(* encode: OpenSSL fills the string exactly, so that no character of it is *)
(* left unwritten, and never needs more than the BIO may use (it would     *)
(* reallocate the string's memory).                                        *)
THEOREM EncodeFits ==
  \A n \in Nat : Written(n) = Base64Length(n) /\ Written(n) < BufferMax(n)
<1> SUFFICES ASSUME NEW n \in Nat
             PROVE  Written(n) = Base64Length(n) /\ Written(n) < BufferMax(n)
  OBVIOUS
<1>1. PICK k \in Nat, r \in 0 .. 2 : n = 3 * k + r
  <2>1. n = 3 * (n \div 3) + (n % 3)
    BY SMT
  <2>2. n \div 3 \in Nat /\ n % 3 \in 0 .. 2
    BY SMT
  <2> QED  BY <2>1, <2>2
<1>2. n % 3 = r /\ n \div 3 = k /\ (n - r) \div 3 = k
  BY <1>1, SMT
<1> QED  BY <1>1, <1>2, SMT DEF Written, Base64Length, BufferMax, Ceil3

(* decode: "the size is a up to two bytes too large" (crypto.hpp:65): what *)
(* encode made of n bytes is decoded into at least n and at most n + 2     *)
(* bytes.                                                                  *)
THEOREM DecodeFits ==
  \A n \in Nat : DecodeBuffer(Base64Length(n)) \in n .. n + 2
<1> SUFFICES ASSUME NEW n \in Nat
             PROVE  DecodeBuffer(Base64Length(n)) \in n .. n + 2
  OBVIOUS
<1>1. PICK k \in Nat, r \in 0 .. 2 : n = 3 * k + r
  <2>1. n = 3 * (n \div 3) + (n % 3)
    BY SMT
  <2>2. n \div 3 \in Nat /\ n % 3 \in 0 .. 2
    BY SMT
  <2> QED  BY <2>1, <2>2
<1>2. Ceil3(n) = IF r = 0 THEN k ELSE k + 1
  BY <1>1, SMT DEF Ceil3
<1>3. (24 * Ceil3(n)) \div 8 = 3 * Ceil3(n)
  BY <1>2, SMT
<1>4. DecodeBuffer(Base64Length(n)) = 3 * Ceil3(n)
  BY <1>2, <1>3, SMT DEF DecodeBuffer, Base64Length
<1> QED  BY <1>1, <1>2, <1>4, SMT
=============================================================================
