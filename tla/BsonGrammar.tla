------------------------------ MODULE BsonGrammar ------------------------------
(***************************************************************************)
(* What the code of libbson is measured against: BSON and UTF-8 as their   *)
(* specifications define them, over sequences of bytes, and the JSON that  *)
(* stands for a document.  None of the functions of libbson is used to say *)
(* which documents there are.                                              *)
(***************************************************************************)
EXTENDS BsonIter, Utf8

Tail8 == 128 .. 191

\* Table 3-7 of the Unicode standard.
IsCharacter(s) ==
  \/ Len(s) = 1 /\ s[1] \in 0 .. 127
  \/ Len(s) = 2 /\ s[1] \in 194 .. 223 /\ s[2] \in Tail8
  \/ Len(s) = 3 /\ s[3] \in Tail8 /\
       \/ s[1] = 224 /\ s[2] \in 160 .. 191
       \/ s[1] \in 225 .. 239 \ {237} /\ s[2] \in Tail8
       \/ s[1] = 237 /\ s[2] \in 128 .. 159
  \/ Len(s) = 4 /\ s[3] \in Tail8 /\ s[4] \in Tail8 /\
       \/ s[1] = 240 /\ s[2] \in 144 .. 191
       \/ s[1] \in 241 .. 243 /\ s[2] \in Tail8
       \/ s[1] = 244 /\ s[2] \in 128 .. 143

\* libbson also reads the zero that Java writes in two bytes.
IsLibbsonCharacter(s) == IsCharacter(s) \/ s = <<192, 128>>

RECURSIVE IsText(_)
IsText(s) ==
  \/ s = <<>>
  \/ \E n \in 1 .. Len(s) :
       IsLibbsonCharacter(SubSeq(s, 1, n)) /\ IsText(SubSeq(s, n + 1, Len(s)))

-----------------------------------------------------------------------------

CStringBytes(s) == s # <<>> /\ \A i \in DOMAIN s : (s[i] = 0) <=> (i = Len(s))

\* l, then l bytes of which the last is zero.
StringBytes(s) == Len(s) > 4 /\ U32At(s, 0) = Len(s) - 4 /\ s[Len(s)] = 0

Inner(s, first, last) == SubSeq(s, first, last)

RECURSIVE IsDocument(_), ArePairs(_), IsValue(_, _)

\* The bytes v are a value of type t.
IsValue(t, v) ==
  CASE t \in EightBytes -> Len(v) = 8
    [] t \in LengthPrefixed -> StringBytes(v)
    [] t \in Containers -> IsDocument(v)
    [] t = BSON_TYPE_BINARY ->
         /\ Len(v) >= 5 /\ U32At(v, 0) = Len(v) - 5
         /\ v[5] = BSON_SUBTYPE_BINARY_DEPRECATED => Len(v) >= 9 /\ U32At(v, 5) = Len(v) - 9
    [] t \in Valueless -> v = <<>>
    [] t = BSON_TYPE_OID -> Len(v) = 12
    [] t = BSON_TYPE_BOOL -> v \in {<<0>>, <<1>>}
    [] t = BSON_TYPE_REGEX ->
         \E k \in 1 .. Len(v) - 1 : CStringBytes(Inner(v, 1, k)) /\ CStringBytes(Inner(v, k + 1, Len(v)))
    [] t = BSON_TYPE_DBPOINTER -> Len(v) >= 17 /\ StringBytes(Inner(v, 1, Len(v) - 12))
    [] t = BSON_TYPE_CODEWSCOPE ->
         /\ Len(v) >= 14 /\ U32At(v, 0) = Len(v)
         /\ \E k \in 9 .. Len(v) - 5 : StringBytes(Inner(v, 5, k)) /\ IsDocument(Inner(v, k + 1, Len(v)))
    [] t = BSON_TYPE_INT32 -> Len(v) = 4
    [] OTHER -> FALSE

\* s is a type, a key and a value: k is where the key ends.
IsPair(s, k) == CStringBytes(Inner(s, 2, k)) /\ IsValue(s[1], Inner(s, k + 1, Len(s)))

ArePairs(s) ==
  \/ s = <<>>
  \/ \E k \in 2 .. Len(s) : \E n \in k .. Len(s) :
       IsPair(Inner(s, 1, n), k) /\ ArePairs(Inner(s, n + 1, Len(s)))

IsDocument(s) ==
  /\ Len(s) >= 5 /\ U32At(s, 0) = Len(s) /\ s[Len(s)] = 0
  /\ ArePairs(Inner(s, 5, Len(s) - 1))

\* The pairs of a document, in order.
RECURSIVE PairsOf(_)
PairsOf(s) ==
  IF s = <<>> THEN <<>>
  ELSE LET k == CHOOSE k \in 2 .. Len(s) : CStringBytes(Inner(s, 2, k))
           n == CHOOSE n \in k .. Len(s) :
                  IsPair(Inner(s, 1, n), k) /\ ArePairs(Inner(s, n + 1, Len(s)))
       IN  <<[type |-> s[1], key |-> Inner(s, 2, k - 1), value |-> Inner(s, k + 1, n)]>>
             \o PairsOf(Inner(s, n + 1, Len(s)))

Pairs(m) == PairsOf(Inner(m, 5, Len(m) - 1))

ScopeOf(v) ==
  Inner(v, 1 + CHOOSE k \in 9 .. Len(v) - 5 :
                 StringBytes(Inner(v, 5, k)) /\ IsDocument(Inner(v, k + 1, Len(v))), Len(v))

\* All keys and strings of the document are UTF-8, and those of what it holds.
RECURSIVE AllText(_)
AllText(m) ==
  \A i \in DOMAIN Pairs(m) :
    LET p == Pairs(m)[i]
    IN  /\ IsText(p.key)
        /\ p.type = BSON_TYPE_UTF8 => IsText(Inner(p.value, 5, Len(p.value) - 1))
        /\ p.type \in Containers => AllText(p.value)
        /\ p.type = BSON_TYPE_CODEWSCOPE => AllText(ScopeOf(p.value))
=============================================================================
