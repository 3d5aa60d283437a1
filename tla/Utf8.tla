--------------------------------- MODULE Utf8 ---------------------------------
(***************************************************************************)
(* bson-utf8.c: UTF-8 as libbson reads, checks, writes and escapes it.     *)
(* Text is the sequence of its bytes, a character its code point; the      *)
(* masks of the code are remainders of powers of two, its shifts products. *)
(* An offset counts from 1 here.                                           *)
(***************************************************************************)
EXTENDS Integers, Sequences

\* Length and mask (as a modulus) that the first byte c of a character announces;
\* length 0 for a byte that begins none.
Sequence(c) ==
  CASE c < 128 -> [length |-> 1, modulus |-> 128]
    [] c \in 192 .. 223 -> [length |-> 2, modulus |-> 32]
    [] c \in 224 .. 239 -> [length |-> 3, modulus |-> 16]
    [] c \in 240 .. 247 -> [length |-> 4, modulus |-> 8]
    [] c \in 248 .. 251 -> [length |-> 5, modulus |-> 4]
    [] c \in 252 .. 253 -> [length |-> 6, modulus |-> 2]
    [] OTHER -> [length |-> 0, modulus |-> 1]

\* A text is followed by a zero; a character cut short takes it for a byte of its own.
ByteAt(s, i) == IF i <= Len(s) THEN s[i] ELSE 0

\* The code point of the n bytes at i, the first of which is taken modulo m.
Gathered(s, i, n, m) ==
  LET c[j \in 1 .. n] == IF j = 1 THEN s[i] % m ELSE 64 * c[j - 1] + (ByteAt(s, i + j - 1) % 64)
  IN  IF n = 0 THEN 0 ELSE c[n]

bson_utf8_get_char(s, i) == Gathered(s, i, Sequence(s[i]).length, Sequence(s[i]).modulus)

bson_utf8_next_char(s, i) == i + Sequence(s[i]).length

\* Slip: a character may be written in more bytes than it needs.
InItsRangeLax(c, n) == n \in 1 .. 4

\* The code points that are written in n bytes; in two bytes also zero.
InItsRange(c, n) ==
  \/ n = 1 /\ c <= 127
  \/ n = 2 /\ (c \in 128 .. 2047 \/ c = 0)
  \/ n = 3 /\ c \in 2048 .. 65535
  \/ n = 4 /\ c \in 65536 .. 1114111

\* The n bytes at i are one character.
ValidCharacter(s, i, n, allow_null) ==
  LET c == bson_utf8_get_char(s, i)
  IN  /\ n # 0 /\ i + n - 1 <= Len(s)
      /\ \A j \in i + 1 .. i + n - 1 : s[j] \in 128 .. 191
      /\ allow_null \/ \A j \in i .. i + n - 1 : s[j] # 0
      /\ c <= 1114111
      /\ c \notin 55296 .. 57343
      /\ InItsRange(c, n)

bson_utf8_validate(s, allow_null) ==
  LET valid[i \in 1 .. Len(s) + 6] ==
        i <= Len(s) =>
          /\ ValidCharacter(s, i, Sequence(s[i]).length, allow_null)
          /\ valid[bson_utf8_next_char(s, i)]
  IN  valid[1]

\* A six-byte form is not shifted by multiples of six bits, and nothing is written
\* from 2^31 on; no character is that long.
bson_utf8_from_unichar(c) ==
  LET Six(k) == (c \div (2 ^ k)) % 64
  IN  CASE c <= 127 -> <<c>>
        [] c \in 128 .. 2047 -> <<192 + Six(6), 128 + Six(0)>>
        [] c \in 2048 .. 65535 -> <<224 + (Six(12) % 16), 128 + Six(6), 128 + Six(0)>>
        [] c \in 65536 .. 2097151 ->
             <<240 + (Six(18) % 8), 128 + Six(12), 128 + Six(6), 128 + Six(0)>>
        [] c \in 2097152 .. 67108863 ->
             <<248 + (Six(24) % 4), 128 + Six(18), 128 + Six(12), 128 + Six(6), 128 + Six(0)>>
        [] OTHER ->
             <<252, 128 + Six(25), 128 + Six(19), 128 + Six(13), 128 + Six(7), 128 + (c % 2)>>

-----------------------------------------------------------------------------

BACKSLASH == 92
QUOTE == 34
SLASH == 47
SPACE == 32

Digit(n) == 48 + n

\* Slip: a quotation mark is left as it is.
EscapedNoQuote(c) ==
  CASE c \in {BACKSLASH, SLASH} -> <<BACKSLASH, c>>
    [] c < SPACE -> <<BACKSLASH, 117, 48, 48, Digit(c \div 10), Digit(c % 10)>>
    [] OTHER -> bson_utf8_from_unichar(c)

\* What is written for the character c: the number after \u is a decimal one.
Escaped(c) ==
  CASE c \in {BACKSLASH, QUOTE, SLASH} -> <<BACKSLASH>> \o bson_utf8_from_unichar(c)
    [] c = 8 -> <<BACKSLASH, 98>>
    [] c = 12 -> <<BACKSLASH, 102>>
    [] c = 10 -> <<BACKSLASH, 110>>
    [] c = 13 -> <<BACKSLASH, 114>>
    [] c = 9 -> <<BACKSLASH, 116>>
    [] c < SPACE /\ c \notin {8, 9, 10, 12, 13} ->
         <<BACKSLASH, 117, 48, 48, Digit(c \div 10), Digit(c % 10)>>
    [] OTHER -> bson_utf8_from_unichar(c)

\* The JSON text of s, without its quotation marks.  It is there (ok) unless a zero is met
\* that is written in two bytes or that the caller gave no length to count.
bson_utf8_escape_for_json(s, length_provided) ==
  LET rest[i \in 1 .. Len(s) + 6] ==
        IF i > Len(s) THEN [ok |-> TRUE, text |-> <<>>]
        ELSE LET c == bson_utf8_get_char(s, i) IN
          IF c # 0 THEN [rest[bson_utf8_next_char(s, i)] EXCEPT !.text = Escaped(c) \o @]
          ELSE IF length_provided /\ s[i] = 0
               THEN [rest[i + 1] EXCEPT !.text = Escaped(c) \o @]
          ELSE [ok |-> FALSE, text |-> <<>>]
  IN  rest[1]
=============================================================================
