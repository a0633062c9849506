----------------------------- MODULE QueryString -----------------------------
(***************************************************************************)
(* Request::parse_query_string (server_http.hpp): behind the first '?' of  *)
(* a path, a regular expression finds a key, which is one or more of       *)
(* [\w+%], at most one '=', and a value, which is all up to the next '&';  *)
(* then the next key.  Each value is decoded in place.                     *)
(*                                                                         *)
(* A character is its code, as the decoding computes with it.              *)
(***************************************************************************)
EXTENDS Integers, Sequences, SequencesExt, FiniteSetsExt

CONSTANTS
  Keys,             \* keys as they are meant
  ValueCharacters,  \* of values as they are meant
  MaxPairs,         \* bound: pairs of a query
  MaxCharacters     \* bound: characters of the values of a query

Space == 32
Percent == 37
Ampersand == 38
Plus == 43
Minus == 45
Equals == 61
Question == 63

Digit09 == 48 .. 57
Upper == 65 .. 90
Lower == 97 .. 122

\* What \w matches, and the two characters beside it in the expression.
WordCharacters == Digit09 \cup Upper \cup Lower \cup {95}
KeyClass == WordCharacters \cup {Plus, Percent}

ASSUME CharactersAssumption ==
  /\ \A k \in Keys : k # <<>> /\ k \in Seq(WordCharacters)
  /\ ValueCharacters \subseteq 32 .. 126
  /\ MaxPairs \in Nat
  /\ MaxCharacters \in Nat

VARIABLE query  \* the path of a request as it is written, and the pairs that it means

-----------------------------------------------------------------------------
(* The code *)

\* The first place from p on where s has a character of C; Len(s) + 1 if none.
FirstOf(s, p, C) == Min({i \in p .. Len(s) : s[i] \in C} \cup {Len(s) + 1})

FirstNotOf(s, p, C) == Min({i \in p .. Len(s) : s[i] \notin C} \cup {Len(s) + 1})

HexDigits == Digit09 \cup 65 .. 70 \cup 97 .. 102

HexValue(c) ==
  CASE c \in Digit09   -> c - 48
    [] c \in 65 .. 70  -> c - 55
    [] c \in 97 .. 102 -> c - 87

\* strtol of two characters to base 16, as a char.  A sign or a space may
\* come first; it stops at what is not a digit.
Chr(a, b) ==
  CASE a \in HexDigits /\ b \in HexDigits         -> 16 * HexValue(a) + HexValue(b)
    [] a \in HexDigits /\ b \notin HexDigits      -> HexValue(a)
    [] a \in {Space, Plus} /\ b \in HexDigits     -> HexValue(b)
    [] a = Minus /\ b \in HexDigits               -> (256 - HexValue(b)) % 256
    [] OTHER                                      -> 0

\* A mistake: an escape at the very end of the value is left as it is.
DecodeShort(v) ==
  LET D[c \in 1 .. Len(v) + 1] ==
        CASE c > Len(v)                              -> <<>>
          [] c <= Len(v) /\ v[c] = Plus              -> <<Space>> \o D[c + 1]
          [] c + 2 < Len(v) /\ v[c] = Percent        -> <<Chr(v[c + 1], v[c + 2])>> \o D[c + 3]
          [] OTHER                                   -> <<v[c]>> \o D[c + 1]
  IN  D[1]

\* The loop over the value; a decoded character is not looked at again.
Decode(v) ==
  LET D[c \in 1 .. Len(v) + 1] ==
        CASE c > Len(v)                              -> <<>>
          [] c <= Len(v) /\ v[c] = Plus              -> <<Space>> \o D[c + 1]
          [] c + 2 <= Len(v) /\ v[c] = Percent       -> <<Chr(v[c + 1], v[c + 2])>> \o D[c + 3]
          [] OTHER                                   -> <<v[c]>> \o D[c + 1]
  IN  D[1]

(* The matches from a place on: a key as long as possible, at most one     *)
(* '=', and everything up to the next '&'.                                 *)
Matches(q) ==
  LET M[p \in 1 .. Len(q) + 1] ==
        LET key   == FirstOf(q, p, KeyClass)
            keyTo == FirstNotOf(q, key, KeyClass)
            value == IF keyTo <= Len(q) /\ q[keyTo] = Equals THEN keyTo + 1 ELSE keyTo
            end   == FirstOf(q, value, {Ampersand})
        IN  IF key > Len(q) THEN <<>>
            ELSE <<<<SubSeq(q, key, keyTo - 1), Decode(SubSeq(q, value, end - 1))>>>> \o M[end]
  IN  M[1]

ParseQuery(path) ==
  LET question == FirstOf(path, 1, {Question})
  IN  IF question < Len(path) THEN Matches(SubSeq(path, question + 1, Len(path))) ELSE <<>>

-----------------------------------------------------------------------------
(* The promise: what a form or encodeURIComponent makes of keys and values *)
(* is taken apart again.                                                   *)

HexDigit(n) == IF n < 10 THEN 48 + n ELSE 55 + n

Escaped(c) == <<Percent, HexDigit(c \div 16), HexDigit(c % 16)>>

\* The ways to write a character of a value.
Spellings(c) ==
  {Escaped(c)} \cup
    CASE c = Space -> {<<Plus>>}
      [] c \in WordCharacters \cup {Minus} -> {<<c>>}
      [] OTHER -> {}

NoQuery == [path |-> <<47>>, meant |-> <<>>]

QueryInit == query = NoQuery

\* The sender goes on with a key.
WriteKey ==
  /\ Len(query.meant) < MaxPairs
  /\ \E k \in Keys :
       query' = [path  |-> query.path \o <<IF query.meant = <<>> THEN Question ELSE Ampersand>>
                             \o k \o <<Equals>>,
                 meant |-> Append(query.meant, <<k, <<>>>>)]

\* The sender goes on with a character of the value, in any spelling.
WriteCharacter ==
  /\ query.meant # <<>>
  /\ FoldSeq(LAMBDA pair, n : Len(pair[2]) + n, 0, query.meant) < MaxCharacters
  /\ \E c \in ValueCharacters : \E w \in Spellings(c) :
       query' = [path  |-> query.path \o w,
                 meant |-> [query.meant EXCEPT ![Len(query.meant)][2] = Append(@, c)]]

\* The sender begins another path.
NewPath == query' = NoQuery

QuerySpec == QueryInit /\ [][WriteKey \/ WriteCharacter \/ NewPath]_query

(* "Returns query keys with percent-decoded values": every way to write    *)
(* keys of word characters and any values gives them back, with escapes at *)
(* any place of a value, and escapes that decode to '%', '+', '&' or '='.  *)
(* A key with other characters, such as a dash, does not: the expression   *)
(* ends the key there.                                                     *)
QueryDecoded == ParseQuery(query.path) = query.meant
=============================================================================
