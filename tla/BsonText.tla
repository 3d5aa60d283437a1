------------------------------- MODULE BsonText -------------------------------
(***************************************************************************)
(* What libbson reads out of the text of a value: numbers (bson-string.c),  *)
(* object ids (bson-oid.h) and base 64 (b64_pton.h, b64_ntop.h).            *)
(***************************************************************************)
EXTENDS Yajl

isspace(c) == c \in (9 .. 13) \cup {32}

\* Signed integers wrap around (the overflow of the C code is undefined; the builds wrap).
Wrapped(n, max) == ((n + max + 1) % (2 * (max + 1))) - max - 1

-----------------------------------------------------------------------------
(* bson_ascii_strtoll.                                                     *)

\* l and u after a number are read with it.
SuffixCodes == {76, 85, 108, 117}

\* The end of the run of codes that begins at i.
AfterAll(s, i, codes) == Min({j \in i .. Len(s) : s[j] \notin codes} \cup {Len(s) + 1})

\* base 10: the number that the text s begins with, and the place behind it; s is
\* taken with what follows it in the buffer.  The first character of the number is
\* not looked at when it comes after a sign.  A zero may only stand at the very end: what
\* begins with one is octal or hexadecimal.
bson_ascii_strtoll(s) ==
  LET first == AfterAll(s, 1, {c \in 9 .. 32 : isspace(c)})
      minus == IF s[first] = 45 THEN first + 1 ELSE first
      plus == IF minus <= Len(s) /\ s[minus] = 43 THEN minus + 1 ELSE minus
      end == AfterDigits(s, plus + 1)
      number[i \in plus - 1 .. end - 1] ==
        IF i < plus THEN 0 ELSE Wrapped(number[i - 1] * 10 + s[i] - 48, INT64_MAX)
      rejected == [value |-> 0, end |-> 1]
  IN  IF s[first] \notin DigitCodes \cup {43, 45} THEN [rejected EXCEPT !.end = first - 1]
      ELSE IF s[plus] = 48 /\ s[plus + 1] # 0 THEN rejected
      ELSE [value |-> IF minus = first THEN number[end - 1] ELSE -number[end - 1],
            end |-> AfterAll(s, end, SuffixCodes)]

-----------------------------------------------------------------------------
(* Object ids.                                                             *)

bson_oid_parse_hex_char(c) ==
  IF c \in HexCodes THEN hexToDigit(c) ELSE 0

bson_oid_init_from_string(s) ==
  [i \in 1 .. 12 |-> 16 * bson_oid_parse_hex_char(s[2 * i - 1]) + bson_oid_parse_hex_char(s[2 * i])]

\* sscanf (s, "%02x"): one or two digits after any space; -1 when there is none.
Subtype(s) ==
  LET first == AfterAll(s, 1, {c \in 9 .. 32 : isspace(c)}) IN
  IF first > Len(s) \/ s[Min({first, Len(s)})] \notin HexCodes THEN -1
  ELSE IF first = Len(s) \/ s[Min({first + 1, Len(s)})] \notin HexCodes THEN hexToDigit(s[first])
  ELSE 16 * hexToDigit(s[first]) + hexToDigit(s[first + 1])

-----------------------------------------------------------------------------
(* Base 64.                                                                *)

Pad64 == 61
Base64 == [i \in 1 .. 26 |-> 64 + i] \o [i \in 1 .. 26 |-> 96 + i] \o [i \in 1 .. 10 |-> 47 + i] \o <<43, 47>>
b64rmap(c) == (CHOOSE i \in DOMAIN Base64 : Base64[i] = c) - 1

\* The digits of s, up to the first padding.
Sextets(s) ==
  LET seen == SelectSeq(s, LAMBDA c : ~isspace(c))
      end == Min({i \in DOMAIN seen : seen[i] = Pad64} \cup {Len(seen) + 1})
  IN  [digits |-> SubSeq(seen, 1, end - 1), padding |-> SubSeq(seen, end, Len(seen))]

\* b64_pton without a target: how many bytes s stands for, -1 when it is no base 64.
b64_pton_len(s) ==
  LET t == Sextets(s)
      padding == CASE (Len(t.digits) % 4) = 0 -> <<>>
                   [] (Len(t.digits) % 4) = 2 -> <<Pad64, Pad64>>
                   [] OTHER -> <<Pad64>>
  IN  IF (\E i \in DOMAIN t.digits : t.digits[i] \notin {Base64[j] : j \in DOMAIN Base64})
           \/ (Len(t.digits) % 4) = 1 \/ t.padding # padding
      THEN -1 ELSE (Len(t.digits) * 3) \div 4

\* b64_pton with a target: the bytes s stands for.
b64_pton(s) ==
  LET digit(i) == b64rmap(Sextets(s).digits[i + 1])
      byte(k) == CASE (k % 3) = 0 -> digit((k \div 3) * 4) * 4 + digit((k \div 3) * 4 + 1) \div 16
                   [] (k % 3) = 1 -> (digit((k \div 3) * 4 + 1) % 16) * 16 + digit((k \div 3) * 4 + 2) \div 4
                   [] OTHER -> (digit((k \div 3) * 4 + 2) % 4) * 64 + digit((k \div 3) * 4 + 3)
  IN  [k \in 1 .. b64_pton_len(s) |-> byte(k - 1)]

\* Three bytes are four digits; what is missing in the last three is padding.
b64_ntop(bytes) ==
  LET at(k) == IF k <= Len(bytes) THEN bytes[k] ELSE 0
      sextet(g, j) == CASE j = 1 -> at(3 * g + 1) \div 4
                        [] j = 2 -> (at(3 * g + 1) % 4) * 16 + at(3 * g + 2) \div 16
                        [] j = 3 -> (at(3 * g + 2) % 16) * 4 + at(3 * g + 3) \div 64
                        [] OTHER -> at(3 * g + 3) % 64
      used(g, j) == j <= 2 \/ 3 * g + j - 1 <= Len(bytes)
      char(i) == LET g == i \div 4  j == (i % 4) + 1
                 IN  IF used(g, j) THEN Base64[sextet(g, j) + 1] ELSE Pad64
  IN  [i \in 1 .. 4 * ((Len(bytes) + 2) \div 3) |-> char(i - 1)]

=============================================================================
