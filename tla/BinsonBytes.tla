----------------------------- MODULE BinsonBytes -----------------------------
(***************************************************************************)
(* The pointer functions of binson.c as operators on a buffer.             *)
(*                                                                         *)
(* A buffer m is the sequence of the bytes the caller loaded; a pointer    *)
(* into it is the index of the byte it points to, so content is 1 and C's  *)
(* null pointer is 0.  A pointer may point anywhere: only a read needs it  *)
(* to be in DOMAIN m.  A call that would read a byte outside of m has no   *)
(* defined result in C; here it returns WILD.                              *)
(*                                                                         *)
(* Here and in the other modules, a definition marked as a slip is a       *)
(* faulty variant of the one that follows it: the runs must reject it.     *)
(***************************************************************************)
EXTENDS Integers, Sequences

NULL == 0
WILD == -1

ERR_BADSIZEORENDING == 2
ERR_INVALIDBUFFER == 5

BT_FLOP64BIT == 1
BT_UTF8STRING == 2
BT_EMBEDEDDOC == 3
BT_ARRAY == 4
BT_BINARYDATA == 5
BT_UNDEFINED == 6
BT_OBJECTID == 7
BT_BOOLFALSETRUE == 8
BT_UTCDATETIME == 9
BT_NULLVALUE == 10
BT_JSCODE == 13
BT_SYMBOL == 14
BT_INT32BIT == 16
BT_TIMESTAMP == 17
BT_INT64BIT == 18

Containers == {BT_EMBEDEDDOC, BT_ARRAY}
Strings == {BT_JSCODE, BT_SYMBOL, BT_UTF8STRING}
EightBytes == {BT_FLOP64BIT, BT_UTCDATETIME, BT_TIMESTAMP, BT_INT64BIT}
LengthPrefixed == Strings \cup Containers \cup {BT_BINARYDATA}

Byte == 0 .. 255

\* The n bytes from p on can be read.
Readable(m, p, n) == 1 <= p /\ p + n - 1 <= Len(m)

\* *(int32_t *) p: four bytes, little endian, two's complement.
Int32At(m, p) ==
  LET high == IF m[p + 3] < 128 THEN m[p + 3] ELSE m[p + 3] - 256
  IN  m[p] + 256 * m[p + 1] + 65536 * m[p + 2] + 16777216 * high

\* k is the first zero byte from p on: where while (*(p++)) stops.
IsNulFrom(m, p, k) ==
  /\ k \in DOMAIN m
  /\ p <= k /\ m[k] = 0
  /\ \A j \in p .. k - 1 : m[j] # 0

HasNul(m, p) == 1 <= p /\ \E k \in DOMAIN m : IsNulFrom(m, p, k)
NulFrom(m, p) == CHOOSE k \in DOMAIN m : IsNulFrom(m, p, k)

gettype(m, p) == m[p]
getkey(p) == p + 1
getdoclen(m, p) == Int32At(m, p)
asint(m, v) == Int32At(m, v)

\* Slip: the subtype byte of binary data is forgotten.
ValueSizeNoSubtype(m, p, t) ==
  CASE t \in EightBytes -> 8
    [] t \in Strings \cup {BT_BINARYDATA} -> 4 + Int32At(m, p)
    [] t \in Containers -> Int32At(m, p)
    [] t = BT_OBJECTID -> 12
    [] t = BT_BOOLFALSETRUE -> 1
    [] t = BT_INT32BIT -> 4
    [] OTHER -> 0

\* What next_element adds to the pointer, by the type of the value at p.
ValueSize(m, p, t) ==
  CASE t \in EightBytes -> 8
    [] t \in Strings -> 4 + Int32At(m, p)
    [] t = BT_BINARYDATA -> 4 + Int32At(m, p) + 1
    [] t \in Containers -> Int32At(m, p)
    [] t = BT_OBJECTID -> 12
    [] t = BT_BOOLFALSETRUE -> 1
    [] t = BT_INT32BIT -> 4
    [] OTHER -> 0

next_element(m, p, t) ==
  IF t \in LengthPrefixed /\ ~Readable(m, p, 4) THEN WILD ELSE p + ValueSize(m, p, t)

\* The byte after the type and the key of the pair at p.
AfterKey(m, p) ==
  IF p \in DOMAIN m /\ HasNul(m, getkey(p)) THEN NulFrom(m, getkey(p)) + 1 ELSE WILD

nextitem(m, p) ==
  IF AfterKey(m, p) = WILD THEN WILD ELSE next_element(m, AfterKey(m, p), gettype(m, p))

getvalue(m, p) ==
  IF p \in DOMAIN m /\ gettype(m, p) = 0 THEN NULL ELSE AfterKey(m, p)

\* Address of the byte opendoc tests, for the length len it is given.
LastByte(m, p, len) == p + (IF len = 0 THEN getdoclen(m, p) ELSE len) - 1

opendoc(m, p, len) ==
  IF (len = 0 /\ ~Readable(m, p, 4)) \/ LastByte(m, p, len) \notin DOMAIN m THEN WILD
  ELSE IF m[LastByte(m, p, len)] # 0 THEN NULL
  ELSE p + 4

\* Slip: the error of a damaged document is not set.
NoErrorSet(m, p, len) == 0

\* errorno after the call.
opendoc_errorno(m, p, len) ==
  IF opendoc(m, p, len) = NULL THEN ERR_BADSIZEORENDING ELSE 0

getvalue_errorno(m, p, errorno) ==
  IF getvalue(m, p) = NULL THEN ERR_INVALIDBUFFER ELSE errorno

\* Slip: one character less is compared.
PrefixButLast(m, p, s) ==
  \A i \in 1 .. Len(s) - 1 : p + i \in DOMAIN m /\ m[p + i] = s[i]

\* strncmp(getkey(p), s, Len(s)) = 0, and the case in which strncmp leaves m.
KeyHasPrefix(m, p, s) ==
  \A i \in 1 .. Len(s) : p + i \in DOMAIN m /\ m[p + i] = s[i]

KeyRunsOut(m, p, s) ==
  \/ p = NULL /\ s # <<>>
  \/ \E i \in 1 .. Len(s) :
       p + i \notin DOMAIN m /\ KeyHasPrefix(m, p, SubSeq(s, 1, i - 1))
=============================================================================
