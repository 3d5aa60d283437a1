--------------------------------- MODULE Yajl ---------------------------------
(***************************************************************************)
(* The lexer of yajl (yajl_lex.c), as libbson sets it up: comments are not  *)
(* allowed, and UTF-8 is not checked.  The text comes in pieces.  A token   *)
(* that a piece leaves unfinished is kept, and read again from its          *)
(* beginning when there is more, so the lexer is a function of what is kept *)
(* and what has arrived.  Text is the sequence of its bytes.                *)
(***************************************************************************)
EXTENDS Integers, Sequences, FiniteSetsExt

CONSTANTS
  INT64_MAX,     \* the largest int64_t
  HugeDoubles    \* the numbers strtod overflows at

Quote == 34
Backslash == 92
Whitespace == {9, 10, 11, 12, 13, 32}
DigitCodes == 48 .. 57
HexCodes == DigitCodes \cup (65 .. 70) \cup (97 .. 102)

\* charLookupTable: what may follow a backslash, apart from u.
EscapeCodes == {Quote, Backslash, 47, 98, 102, 110, 114, 116}

\* What was found at the beginning of a text: the kind of token, and the bytes it
\* takes.  An unfinished token takes all of them.
Lexed(kind, used) == [kind |-> kind, used |-> used]
Unfinished(s) == Lexed("eof", Len(s))

\* A token that is always spelled the same.
Word(s, want, kind) ==
  LET differ == {i \in 1 .. Min({Len(s), Len(want)}) : s[i] # want[i]}
  IN  IF differ # {} THEN Lexed("error", Min(differ) - 1)
      ELSE IF Len(s) < Len(want) THEN Unfinished(s) ELSE Lexed(kind, Len(want))

\* The first byte from i on that is no digit, or the end.
AfterDigits(s, i) == Min({j \in i .. Len(s) : s[j] \notin DigitCodes} \cup {Len(s) + 1})

\* The exponent of a number that goes on at i, if it has one.
Exponent(s, i, kind) ==
  LET sign == IF i < Len(s) /\ s[i + 1] \in {43, 45} THEN 1 ELSE 0
      first == i + 1 + sign
      end == AfterDigits(s, first)
  IN  IF s[i] \notin {69, 101} THEN Lexed(kind, i - 1)
      ELSE IF first > Len(s) THEN Unfinished(s)
      ELSE IF end = first THEN Lexed("error", first - 1)
      ELSE IF end > Len(s) THEN Unfinished(s) ELSE Lexed("double", end - 1)

\* A number is finished only by what follows it.
yajl_lex_number(s) ==
  LET first == IF s[1] = 45 THEN 2 ELSE 1
      whole == IF first <= Len(s) /\ s[first] = 48 THEN first + 1 ELSE AfterDigits(s, first)
      fraction == AfterDigits(s, whole + 1)
  IN  IF first > Len(s) THEN Unfinished(s)
      ELSE IF whole = first THEN Lexed("error", first - 1)
      ELSE IF whole > Len(s) THEN Unfinished(s)
      ELSE IF s[whole] # 46 THEN Exponent(s, whole, "integer")
      ELSE IF whole = Len(s) \/ fraction > Len(s) THEN Unfinished(s)
      ELSE IF fraction = whole + 1 THEN Lexed("error", whole)
      ELSE Exponent(s, fraction, "double")

\* \u is followed by four hexadecimal digits.
HexError(s, i) == {j \in i + 2 .. Min({i + 5, Len(s)}) : s[j] \notin HexCodes}

\* A string with its quotes.
yajl_lex_string(s) ==
  LET rest[i \in 2 .. Len(s) + 6] ==
        IF i > Len(s) THEN Unfinished(s)
        ELSE IF s[i] = Quote THEN Lexed("string", i)
        ELSE IF s[i] < 32 THEN Lexed("error", i - 1)
        ELSE IF s[i] # Backslash THEN rest[i + 1]
        ELSE IF i = Len(s) THEN Unfinished(s)
        ELSE IF s[i + 1] = 117
        THEN IF HexError(s, i) # {} THEN Lexed("error", Min(HexError(s, i)) - 1) ELSE rest[i + 6]
        ELSE IF s[i + 1] \in EscapeCodes THEN rest[i + 2] ELSE Lexed("error", i)
  IN  rest[2]

\* The token at the beginning of s, which is not empty and does not begin with space.
TokenOf(s) ==
  CASE s[1] = 123 -> Lexed("{", 1)
    [] s[1] = 125 -> Lexed("}", 1)
    [] s[1] = 91 -> Lexed("[", 1)
    [] s[1] = 93 -> Lexed("]", 1)
    [] s[1] = 44 -> Lexed(",", 1)
    [] s[1] = 58 -> Lexed(":", 1)
    [] s[1] = 116 -> Word(s, <<116, 114, 117, 101>>, "bool")
    [] s[1] = 102 -> Word(s, <<102, 97, 108, 115, 101>>, "bool")
    [] s[1] = 110 -> Word(s, <<110, 117, 108, 108>>, "null")
    [] s[1] = Quote -> yajl_lex_string(s)
    [] s[1] \in {45} \cup DigitCodes -> yajl_lex_number(s)
    [] s[1] = 47 -> Lexed("error", 0)
    [] OTHER -> Lexed("error", 1)

\* The spaces at the beginning of s.
Spaces(s) == Min({i \in DOMAIN s : s[i] \notin Whitespace} \cup {Len(s) + 1}) - 1

\* yajl_lex_lex: the next token of text from offset on, when kept is what was kept of
\* the text before it: its kind, its bytes, the offset after it, and what is kept now.
yajl_lex_lex(kept, text, offset) ==
  LET from == IF kept = <<>> THEN offset + Spaces(SubSeq(text, offset + 1, Len(text))) ELSE offset
      s == kept \o SubSeq(text, from + 1, Len(text))
      tok == IF from = Len(text) THEN Unfinished(s) ELSE TokenOf(s)
      after == IF tok.used < Len(kept) THEN from ELSE from + tok.used - Len(kept)
  IN  [kind |-> tok.kind, bytes |-> SubSeq(s, 1, tok.used), offset |-> after,
       kept |-> IF tok.kind = "eof" THEN s ELSE <<>>]

-----------------------------------------------------------------------------
(* Strings and numbers (yajl_encode.c, yajl_parser.c).                     *)

hexToDigit(c) == IF c \in DigitCodes THEN c - 48 ELSE IF c < 97 THEN c - 55 ELSE c - 87

\* The number the four digits at i spell.
CodeAt(s, i) ==
  4096 * hexToDigit(s[i]) + 256 * hexToDigit(s[i + 1]) + 16 * hexToDigit(s[i + 2]) + hexToDigit(s[i + 3])

Utf32toUtf8(c) ==
  CASE c < 128 -> <<c>>
    [] c \in 128 .. 2047 -> <<192 + c \div 64, 128 + (c % 64)>>
    [] c \in 2048 .. 65535 -> <<224 + c \div 4096, 128 + ((c \div 64) % 64), 128 + (c % 64)>>
    [] OTHER -> <<240 + c \div 262144, 128 + ((c \div 4096) % 64), 128 + ((c \div 64) % 64), 128 + (c % 64)>>

\* The character of a high surrogate and of the one after it, whatever it is.
Surrogates(high, low) == 65536 + (high % 1024) * 1024 + (low % 1024)

\* What the escape at i stands for, and how long it is.  A high surrogate alone is
\* read as a question mark, and takes the character after it along.
Unescaped(s, i) ==
  LET one(c) == [bytes |-> <<c>>, used |-> 2]
  IN  CASE s[i + 1] = 114 -> one(13)
        [] s[i + 1] = 110 -> one(10)
        [] s[i + 1] = 102 -> one(12)
        [] s[i + 1] = 98 -> one(8)
        [] s[i + 1] = 116 -> one(9)
        [] s[i + 1] \in {Quote, Backslash, 47} -> one(s[i + 1])
        [] OTHER ->
             IF CodeAt(s, i + 2) \notin 55296 .. 56319
             THEN [bytes |-> Utf32toUtf8(CodeAt(s, i + 2)), used |-> 6]
             ELSE IF i + 7 <= Len(s) /\ s[i + 6] = Backslash /\ s[i + 7] = 117
             THEN [bytes |-> Utf32toUtf8(Surrogates(CodeAt(s, i + 2), CodeAt(s, i + 8))), used |-> 12]
             ELSE [bytes |-> <<63>>, used |-> 7]

\* A string without its quotes, its escapes replaced.
yajl_string_decode(s) ==
  LET rest[i \in 1 .. Len(s) + 8] ==
        IF i > Len(s) THEN <<>>
        ELSE IF s[i] # Backslash THEN <<s[i]>> \o rest[i + 1]
        ELSE Unescaped(s, i).bytes \o rest[i + Unescaped(s, i).used]
  IN  rest[1]

Unquoted(token) == SubSeq(token, 2, Len(token) - 1)

\* The number a token of digits spells, and whether it overflows an int64_t; the
\* smallest one does, because its digits are collected without the sign.
yajl_parse_integer(s) ==
  LET first == IF s[1] = 45 THEN 2 ELSE 1
      value[i \in first - 1 .. Len(s)] ==
        IF i < first THEN 0
        ELSE LET before == value[i - 1]
                 digit == s[i] - 48
             IN  IF before < 0 \/ before > (INT64_MAX - digit) \div 10 THEN -1 ELSE before * 10 + digit
      ret == value[Len(s)]
  IN  [overflow |-> ret < 0, value |-> IF first = 2 THEN -ret ELSE ret]

=============================================================================
