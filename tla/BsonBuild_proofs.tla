---------------------------- MODULE BsonBuild_proofs ----------------------------
(***************************************************************************)
(* Theorems about BsonBuild: for every set of documents, keys, values and  *)
(* buffers, and for every size a bson_t holds in itself that is no power   *)
(* of two, as the sizes of the blocks are.  The lemmas about the iterator   *)
(* and the append functions come first, for every sequence of bytes: an     *)
(* iterator that stands on a pair has all parts of its value inside of the  *)
(* document, and what is appended is no longer than what is counted for it. *)
(* Then, that nothing leaks; then, that every write stays inside of the     *)
(* memory of its document.                                                  *)
(***************************************************************************)
EXTENDS BsonBuild, Induction

-----------------------------------------------------------------------------
(* Sequences.                                                              *)

LEMMA SliceIs ==
  ASSUME NEW S, NEW m \in Seq(S), NEW o \in Nat, NEW n \in Nat, o + n <= Len(m)
  PROVE  Slice(m, o, n) \in Seq(S) /\ Len(Slice(m, o, n)) = n
  BY DEF Slice

LEMMA SliceOfBytes ==
  ASSUME NEW m \in Seq(Byte), NEW o \in Nat, NEW n \in Nat, o + n <= Len(m)
  PROVE  Slice(m, o, n) \in Seq(Byte) /\ Len(Slice(m, o, n)) = n
  BY SliceIs

\* Nothing is in a slice of no length, wherever it is.
LEMMA NoSlice ==
  ASSUME NEW S, NEW m \in Seq(S), NEW o \in Int, NEW n \in Int, n <= 0
  PROVE  Slice(m, o, n) \in Seq(S) /\ Len(Slice(m, o, n)) = 0
  BY DEF Slice

LEMMA MinIs ==
  ASSUME NEW T \in SUBSET Nat, T # {}
  PROVE  Min(T) \in T /\ \A x \in T : Min(T) <= x
  <1>1. \E x \in T : \A y \in T : x <= y
    BY LeastOf
  <1> QED  BY <1>1 DEF Min

\* The zero that is searched is found from o on, or n is reached.
LEMMA ZeroFromIs ==
  ASSUME NEW m, NEW o \in Nat, NEW n \in Nat
  PROVE  /\ ZeroFrom(m, o, n) \in Nat /\ ZeroFrom(m, o, n) <= n
         /\ o <= n => o <= ZeroFrom(m, o, n)
  <1> DEFINE T == {z \in o .. n - 1 : At(m, z) = 0} \cup {n}
  <1>1. T \in SUBSET Nat /\ T # {} /\ n \in T /\ (o <= n => \A x \in T : o <= x)
    OBVIOUS
  <1>2. Min(T) \in T /\ \A x \in T : Min(T) <= x
    <2> HIDE DEF T
    <2> QED  BY <1>1, MinIs
  <1>3. ZeroFrom(m, o, n) = Min(T)
    BY DEF ZeroFrom
  <1> HIDE DEF T
  <1> QED  BY <1>1, <1>2, <1>3

LEMMA CStringAtIs ==
  ASSUME NEW m \in Seq(Byte), NEW o \in Nat, o <= Len(m)
  PROVE  CStringAt(m, o) \in Seq(Byte)
  <1>1. PICK n \in Nat : n = Len(m)
    OBVIOUS
  <1>2. PICK z \in Nat : z = ZeroFrom(m, o, n) /\ o <= z /\ z <= n
    BY <1>1, ZeroFromIs
  <1>3. z - o \in Nat /\ o + (z - o) <= Len(m)
    BY <1>1, <1>2
  <1>4. Slice(m, o, z - o) \in Seq(Byte)
    BY <1>3, SliceIs
  <1> QED  BY <1>1, <1>2, <1>4 DEF CStringAt

LEMMA CStringIs ==
  ASSUME NEW m \in Seq(Byte)
  PROVE  CString(m) \in Seq(Byte)
  BY CStringAtIs DEF CString

LEMMA ByteIs ==
  ASSUME NEW x \in Byte
  PROVE  x \in Nat /\ x <= 255
  BY DEF Byte

LEMMA AtIs ==
  ASSUME NEW m \in Seq(Byte), NEW o \in Nat, o < Len(m)
  PROVE  At(m, o) \in Byte /\ At(m, o) \in Nat
  <1>1. o + 1 \in 1 .. Len(m)
    OBVIOUS
  <1>2. m[o + 1] \in Byte
    BY <1>1
  <1>3. m[o + 1] \in Nat
    BY <1>2, ByteIs
  <1> QED  BY <1>2, <1>3 DEF At

LEMMA U32AtIs ==
  ASSUME NEW m \in Seq(Byte), NEW o \in Nat, o + 4 <= Len(m)
  PROVE  U32At(m, o) \in Nat
  <1>1. /\ At(m, o) \in Nat /\ At(m, o + 1) \in Nat
        /\ At(m, o + 2) \in Nat /\ At(m, o + 3) \in Nat
    BY AtIs
  <1>2. PICK a, b, c, d : a = At(m, o) /\ b = At(m, o + 1) /\ c = At(m, o + 2) /\ d = At(m, o + 3)
    OBVIOUS
  <1>3. a \in Nat /\ b \in Nat /\ c \in Nat /\ d \in Nat
    BY <1>1, <1>2
  <1>4. a + 256 * b + 65536 * c + 16777216 * d \in Nat
    BY <1>3, SMT
  <1>5. Huge \in Nat
    BY SMT DEF Huge
  <1>6. U32At(m, o) = IF d > 127 THEN Huge ELSE a + 256 * b + 65536 * c + 16777216 * d
    BY <1>2, SMT DEF U32At
  <1> QED  BY <1>4, <1>5, <1>6, SMT

LEMMA FunctionIsSeq ==
  ASSUME NEW S, NEW n \in Nat, NEW f \in [1 .. n -> S]
  PROVE  f \in Seq(S) /\ Len(f) = n
  OBVIOUS

LEMMA LEIs ==
  ASSUME NEW n \in Nat
  PROVE  LE(n, 4) \in Seq(Byte) /\ Len(LE(n, 4)) = 4
  <1> DEFINE digit == <<1, 256, 65536, 16777216>>
             d(i) == IF i <= 4 THEN (n \div digit[i]) % 256 ELSE IF n < 0 THEN 255 ELSE 0
  <1>1. \A i \in 1 .. 4 : digit[i] \in Nat \ {0}
    BY SMT
  <1>2. \A i \in 1 .. 4 : d(i) \in Byte
    <2> SUFFICES ASSUME NEW i \in 1 .. 4
                 PROVE  d(i) \in Byte
      OBVIOUS
    <2>1. PICK k \in Nat \ {0} : k = digit[i]
      BY <1>1
    <2>2. PICK q \in Nat : q = n \div k
      BY <2>1, SMT
    <2>3. q % 256 \in Byte
      BY SMT DEF Byte
    <2>4. d(i) = q % 256
      BY <2>1, <2>2, SMT
    <2> QED  BY <2>3, <2>4
  <1>3. LE(n, 4) = [i \in 1 .. 4 |-> d(i)]
    BY DEF LE
  <1> HIDE DEF d
  <1>4. LE(n, 4) \in [1 .. 4 -> Byte]
    BY <1>2, <1>3
  <1> QED  BY <1>4, FunctionIsSeq
-----------------------------------------------------------------------------
(* The iterator.                                                           *)

\* The value of type t at o, with the offsets a span gives it, ends at next.
ValueAt(m, o, t, d2, d3, d4, next) ==
  /\ next \in Nat /\ o <= next
  /\ t \in EightBytes => next = o + 8
  /\ t = BSON_TYPE_INT32 => next = o + 4
  /\ t = BSON_TYPE_OID => next = o + 12
  /\ t \in LengthPrefixed =>
       /\ U32At(m, o) \in Nat /\ U32At(m, o) > 0
       /\ d2 = o + 4 /\ next = o + 4 + U32At(m, o)
  /\ t = BSON_TYPE_BINARY =>
       /\ U32At(m, o) \in Nat /\ d2 = o + 4 /\ d3 = o + 5 /\ next = o + 5 + U32At(m, o)
       /\ At(m, o + 4) = BSON_SUBTYPE_BINARY_DEPRECATED => U32At(m, o) >= 4
  /\ t \in Containers => U32At(m, o) \in Nat /\ next = o + U32At(m, o)
  /\ t = BSON_TYPE_REGEX => d2 \in Nat /\ d2 <= next
  /\ t = BSON_TYPE_DBPOINTER =>
       /\ U32At(m, o) \in Nat /\ d2 = o + 4 /\ d3 = o + 4 + U32At(m, o)
       /\ next = o + 4 + U32At(m, o) + 12
  /\ t = BSON_TYPE_CODEWSCOPE =>
       /\ U32At(m, o + 4) \in Nat /\ d2 = o + 4 /\ d3 = o + 8 /\ d4 = o + 8 + U32At(m, o + 4)
       /\ d4 + 4 < next /\ U32At(m, d4) = next - d4

\* An offset where damage was found is not 0.
LEMMA BadIs ==
  ASSUME NEW o, o # 0
  PROVE  BadAt(o).err # 0
  BY DEF BadAt, Span

LEMMA StringSpanIs ==
  ASSUME NEW m \in Seq(Byte), NEW n \in Nat, n = Len(m), NEW o \in Nat, o # 0,
         NEW s, s = StringSpan(m, n, o), s.err = 0
  PROVE  /\ U32At(m, o) \in Nat /\ U32At(m, o) > 0
         /\ s.d2 = o + 4 /\ s.next = o + 4 + U32At(m, o)
  <1>1. o + 4 < n
    BY BadIs DEF StringSpan
  <1>2. PICK l \in Nat : l = U32At(m, o)
    BY <1>1, U32AtIs
  <1>3. ~(l > n - (o + 4)) /\ l > 0 /\ ~(o + 4 + l >= n)
    BY <1>1, <1>2, BadIs DEF StringSpan
  <1>4. o + 4 + l - 1 # 0
    BY <1>2
  <1>5. At(m, o + 4 + l - 1) = 0
    BY <1>1, <1>2, <1>3, <1>4, BadIs DEF StringSpan
  <1>6. s = [Span(o + 4 + l) EXCEPT !.d2 = o + 4]
    BY <1>1, <1>2, <1>3, <1>5 DEF StringSpan
  <1> QED  BY <1>2, <1>3, <1>6 DEF Span

LEMMA BinarySpanIs ==
  ASSUME NEW m \in Seq(Byte), NEW n \in Nat, n = Len(m), NEW o \in Nat, o # 0,
         NEW s, s = BinarySpan(m, n, o), s.err = 0
  PROVE  /\ U32At(m, o) \in Nat
         /\ s.d2 = o + 4 /\ s.d3 = o + 5 /\ s.next = o + 5 + U32At(m, o)
         /\ At(m, o + 4) = BSON_SUBTYPE_BINARY_DEPRECATED => U32At(m, o) >= 4
  <1>1. o + 4 < n
    BY BadIs DEF BinarySpan
  <1>2. PICK l \in Nat : l = U32At(m, o)
    BY <1>1, U32AtIs
  <1>3. /\ ~(l >= n - o)
        /\ ~(At(m, o + 4) = BSON_SUBTYPE_BINARY_DEPRECATED /\ l < 4)
    BY <1>1, <1>2, BadIs DEF BinarySpan
  <1>4. s = [Span(o + 5 + l) EXCEPT !.d2 = o + 4, !.d3 = o + 5]
    BY <1>1, <1>2, <1>3 DEF BinarySpan
  <1> QED  BY <1>2, <1>3, <1>4 DEF Span

LEMMA ContainerSpanIs ==
  ASSUME NEW m \in Seq(Byte), NEW n \in Nat, n = Len(m), NEW o \in Nat, o # 0,
         NEW s, s = ContainerSpan(m, n, o), s.err = 0
  PROVE  U32At(m, o) \in Nat /\ s.next = o + U32At(m, o)
  <1>1. o + 4 < n
    BY BadIs DEF ContainerSpan
  <1>2. PICK l \in Nat : l = U32At(m, o)
    BY <1>1, U32AtIs
  <1>3. s = Span(o + l)
    BY <1>1, <1>2, BadIs DEF ContainerSpan
  <1> QED  BY <1>2, <1>3 DEF Span

LEMMA RegexSpanIs ==
  ASSUME NEW m \in Seq(Byte), NEW n \in Nat, n = Len(m), NEW o \in Nat, NEW at \in Nat, at # 0,
         NEW s, s = RegexSpan(m, n, o, at), s.err = 0, o <= n
  PROVE  s.d2 \in Nat /\ s.next \in Nat /\ o <= s.d2 /\ s.d2 <= s.next
  <1>1. PICK z \in Nat : z = ZeroFrom(m, o, n) /\ o <= z
    BY ZeroFromIs
  <1>2. z + 1 <= n
    BY <1>1, BadIs DEF RegexSpan
  <1>3. PICK y \in Nat : y = ZeroFrom(m, z + 1, n) /\ z + 1 <= y
    BY <1>1, <1>2, ZeroFromIs
  <1>4. s = [Span(y + 1) EXCEPT !.d2 = z + 1]
    BY <1>1, <1>2, <1>3, BadIs DEF RegexSpan
  <1> QED  BY <1>1, <1>3, <1>4 DEF Span

\* The name and the ObjectID of a pointer end where the value does, at the latest.
LEMMA PointerFits ==
  ASSUME NEW o \in Nat, NEW l \in Nat, NEW k \in Nat, NEW x, x = o + 4 + l + 12, k <= l
  PROVE  o + 4 \in Nat /\ o + 4 + k <= x /\ o + 4 + l \in Nat /\ o + 4 + l + 12 <= x
  OBVIOUS

LEMMA DbpointerSpanIs ==
  ASSUME NEW m \in Seq(Byte), NEW n \in Nat, n = Len(m), NEW o \in Nat, o # 0,
         NEW s, s = DbpointerSpan(m, n, o), s.err = 0
  PROVE  /\ U32At(m, o) \in Nat /\ s.d2 = o + 4 /\ s.d3 = o + 4 + U32At(m, o)
         /\ s.next = o + 4 + U32At(m, o) + 12
  <1>1. o + 4 < n
    BY BadIs DEF DbpointerSpan
  <1>2. PICK l \in Nat : l = U32At(m, o)
    BY <1>1, U32AtIs
  <1>3. s = [Span(o + 4 + l + 12) EXCEPT !.d2 = o + 4, !.d3 = o + 4 + l]
    BY <1>1, <1>2, BadIs DEF DbpointerSpan
  <1> QED  BY <1>2, <1>3 DEF Span

LEMMA CodewscopeSpanIs ==
  ASSUME NEW m \in Seq(Byte), NEW n \in Nat, n = Len(m), NEW o \in Nat, o # 0,
         NEW s, s = CodewscopeSpan(m, n, o), s.err = 0
  PROVE  /\ s.next \in Nat /\ o <= s.next
         /\ U32At(m, o + 4) \in Nat /\ s.d2 = o + 4 /\ s.d3 = o + 8
         /\ s.d4 = o + 8 + U32At(m, o + 4)
         /\ s.d4 + 4 < s.next /\ U32At(m, s.d4) = s.next - s.d4
  <1>1. o + 14 < n
    BY BadIs DEF CodewscopeSpan
  <1>2. PICK l \in Nat : l = U32At(m, o)
    BY <1>1, U32AtIs
  <1>3. PICK j \in Nat : j = U32At(m, o + 4)
    BY <1>1, U32AtIs
  <1>4. l < n - o /\ j < n - o - 4 - 4
    BY <1>1, <1>2, <1>3, BadIs, SMTT(30) DEF CodewscopeSpan
  <1>5. o + 4 + 4 + j + 4 < o + l
    BY <1>1, <1>2, <1>3, <1>4, BadIs, SMTT(30) DEF CodewscopeSpan
  <1>6. PICK k : k = U32At(m, o + 4 + 4 + j)
    OBVIOUS
  <1>7. s = IF o + l - (o + 4 + 4 + j) # k THEN BadAt(o + 4 + 4 + j)
            ELSE [Span(o + l) EXCEPT !.d2 = o + 4, !.d3 = o + 8, !.d4 = o + 4 + 4 + j]
    BY <1>1, <1>2, <1>3, <1>4, <1>5, <1>6, BadIs, SMTT(30) DEF CodewscopeSpan
  <1>8. o + l - (o + 4 + 4 + j) = k
    <2>1. o + 4 + 4 + j # 0
      BY <1>3
    <2> QED  BY <1>7, <2>1, BadIs
  <1>9. s = [Span(o + l) EXCEPT !.d2 = o + 4, !.d3 = o + 8, !.d4 = o + 4 + 4 + j]
    BY <1>6, <1>7, <1>8
  <1>10. s.next = o + l /\ s.d2 = o + 4 /\ s.d3 = o + 8 /\ s.d4 = o + 4 + 4 + j
    BY <1>9 DEF Span
  <1>11. PICK e \in Nat : e = o + 4 + 4 + j
    BY <1>3
  <1>12. e = o + 8 + j
    BY <1>11
  <1>13. PICK x \in Nat : x = o + l /\ o <= x /\ e + 4 < x
    BY <1>2, <1>5, <1>11
  <1>14. U32At(m, e) = x - e
    BY <1>6, <1>8, <1>11, <1>13
  <1>15. s.next = x /\ s.d4 = e /\ s.d2 = o + 4 /\ s.d3 = o + 8
    BY <1>10, <1>11, <1>13
  <1> QED  BY <1>3, <1>12, <1>13, <1>14, <1>15
\* One name for the types, so that they are told apart as numbers are.
LEMMA ValueSpanIs ==
  ASSUME NEW m \in Seq(Byte), NEW n \in Nat, n = Len(m), NEW o \in Nat, o # 0, o <= n,
         NEW at \in Nat, at # 0, NEW t \in Nat, NEW s, s = ValueSpan(m, n, o, at, t), s.err = 0
  PROVE  ValueAt(m, o, t, s.d2, s.d3, s.d4, s.next)
  <1> USE DEF EightBytes, LengthPrefixed, Containers, Valueless, BSON_TYPE_DOUBLE, BSON_TYPE_UTF8,
          BSON_TYPE_DOCUMENT, BSON_TYPE_ARRAY, BSON_TYPE_BINARY, BSON_TYPE_UNDEFINED,
          BSON_TYPE_OID, BSON_TYPE_BOOL, BSON_TYPE_DATE_TIME, BSON_TYPE_NULL, BSON_TYPE_REGEX,
          BSON_TYPE_DBPOINTER, BSON_TYPE_CODE, BSON_TYPE_SYMBOL, BSON_TYPE_CODEWSCOPE,
          BSON_TYPE_INT32, BSON_TYPE_TIMESTAMP, BSON_TYPE_INT64, BSON_TYPE_MAXKEY,
          BSON_TYPE_MINKEY
  <1>1. CASE t \in EightBytes
    <2>1. s = Span(o + 8)
      <3>1. CASE t = BSON_TYPE_DOUBLE
        BY <3>1 DEF ValueSpan
      <3>2. CASE t = BSON_TYPE_DATE_TIME
        BY <3>2 DEF ValueSpan
      <3>3. CASE t = BSON_TYPE_TIMESTAMP
        BY <3>3 DEF ValueSpan
      <3>4. CASE t = BSON_TYPE_INT64
        BY <3>4 DEF ValueSpan
      <3> QED  BY <1>1, <3>1, <3>2, <3>3, <3>4
    <2>2. s.next = o + 8
      BY <2>1 DEF Span
    <2> QED  BY <1>1, <2>2 DEF ValueAt
  <1>2. CASE t \in LengthPrefixed
    <2>1. s = StringSpan(m, n, o)
      <3>1. CASE t = BSON_TYPE_UTF8
        BY <3>1 DEF ValueSpan
      <3>2. CASE t = BSON_TYPE_CODE
        BY <3>2 DEF ValueSpan
      <3>3. CASE t = BSON_TYPE_SYMBOL
        BY <3>3 DEF ValueSpan
      <3> QED  BY <1>2, <3>1, <3>2, <3>3
    <2>2. PICK l \in Nat : l = U32At(m, o) /\ l > 0 /\ s.d2 = o + 4 /\ s.next = o + 4 + l
      BY <2>1, StringSpanIs
    <2> QED  BY <1>2, <2>2 DEF ValueAt
  <1>3. CASE t = BSON_TYPE_BINARY
    <2>1. s = BinarySpan(m, n, o)
      BY <1>3 DEF ValueSpan
    <2>2. PICK l \in Nat :
            /\ l = U32At(m, o) /\ s.d2 = o + 4 /\ s.d3 = o + 5 /\ s.next = o + 5 + l
            /\ At(m, o + 4) = BSON_SUBTYPE_BINARY_DEPRECATED => l >= 4
      BY <2>1, BinarySpanIs
    <2> QED  BY <1>3, <2>2 DEF ValueAt
  <1>4. CASE t \in Containers
    <2>1. s = ContainerSpan(m, n, o)
      BY <1>4 DEF ValueSpan
    <2>2. PICK l \in Nat : l = U32At(m, o) /\ s.next = o + l
      BY <2>1, ContainerSpanIs
    <2> QED  BY <1>4, <2>2 DEF ValueAt
  <1>5. CASE t = BSON_TYPE_OID
    <2>1. s.next = o + 12
      BY <1>5 DEF ValueSpan, Span
    <2> QED  BY <1>5, <2>1 DEF ValueAt
  <1>6. CASE t = BSON_TYPE_BOOL
    <2>1. s.next = o + 1
      BY <1>6 DEF ValueSpan, Span
    <2> QED  BY <1>6, <2>1 DEF ValueAt
  <1>7. CASE t = BSON_TYPE_REGEX
    <2>1. s = RegexSpan(m, n, o, at)
      BY <1>7 DEF ValueSpan
    <2>2. s.d2 \in Nat /\ s.next \in Nat /\ o <= s.d2 /\ s.d2 <= s.next
      BY <2>1, RegexSpanIs
    <2> QED  BY <1>7, <2>2 DEF ValueAt
  <1>8. CASE t = BSON_TYPE_DBPOINTER
    <2>1. s = DbpointerSpan(m, n, o)
      BY <1>8 DEF ValueSpan
    <2>2. PICK l \in Nat :
            /\ l = U32At(m, o) /\ s.d2 = o + 4 /\ s.d3 = o + 4 + l
            /\ s.next = o + 4 + l + 12
      BY <2>1, DbpointerSpanIs
    <2> QED  BY <1>8, <2>2 DEF ValueAt
  <1>9. CASE t = BSON_TYPE_CODEWSCOPE
    <2>1. s = CodewscopeSpan(m, n, o)
      BY <1>9 DEF ValueSpan
    <2> QED  BY <1>9, <2>1, CodewscopeSpanIs DEF ValueAt
  <1>10. CASE t = BSON_TYPE_INT32
    <2>1. s.next = o + 4
      BY <1>10 DEF ValueSpan, Span
    <2> QED  BY <1>10, <2>1 DEF ValueAt
  <1>11. CASE t \in Valueless
    <2>1. s.next = o
      BY <1>11 DEF ValueSpan, Span
    <2> QED  BY <1>11, <2>1 DEF ValueAt
  <1>12. CASE ~(\/ t \in EightBytes \/ t \in LengthPrefixed \/ t = BSON_TYPE_BINARY
                \/ t \in Containers \/ t = BSON_TYPE_OID \/ t = BSON_TYPE_BOOL
                \/ t = BSON_TYPE_REGEX \/ t = BSON_TYPE_DBPOINTER
                \/ t = BSON_TYPE_CODEWSCOPE \/ t = BSON_TYPE_INT32 \/ t \in Valueless)
    <2>1. s = BadAt(o)
      BY <1>12 DEF ValueSpan
    <2> QED  BY <2>1, BadIs
  <1> QED  BY <1>1, <1>2, <1>3, <1>4, <1>5, <1>6, <1>7, <1>8, <1>9, <1>10, <1>11, <1>12
IsIter(it) ==
  it = [raw |-> it.raw, len |-> it.len, off |-> it.off, d1 |-> it.d1, d2 |-> it.d2,
        d3 |-> it.d3, d4 |-> it.d4, next_off |-> it.next_off, err_off |-> it.err_off]

\* An iterator that may be moved on: it has a document and stands before its last byte.
CanMove(it) ==
  /\ IsIter(it) /\ it.raw \in Seq(Byte) /\ it.len = Len(it.raw)
  /\ it.next_off \in Nat /\ it.next_off # 0 /\ it.next_off < Len(it.raw)

\* An iterator that stands on a pair.
OnPair(it) ==
  /\ CanMove(it)
  /\ it.off \in Nat /\ it.d1 \in Nat /\ it.off < it.d1
  /\ ValueAt(it.raw, it.d1, bson_iter_type(it), it.d2, it.d3, it.d4, it.next_off)

\* The iterator over m at the pair at at, whose value of type t is at o.
Standing(m, at, o, t) ==
  LET s == ValueSpan(m, Len(m), o, at, t)
  IN  [raw |-> m, len |-> Len(m), off |-> at, d1 |-> o, d2 |-> s.d2, d3 |-> s.d3, d4 |-> s.d4,
       next_off |-> s.next, err_off |-> 0]

Found(m) == {Standing(m, at, o, t) : at, o, t \in Nat}

PairsOf(m) == {it \in Found(m) : OnPair(it) /\ it.raw = m}

LEMMA EndedIs ==
  ASSUME NEW it, IsIter(it), NEW err
  PROVE  Ended(it, err).raw = <<>>
  BY DEF Ended, IsIter

LEMMA OffIs ==
  ASSUME NEW it, IsIter(it), NEW at
  PROVE  IsIter([it EXCEPT !.off = at])
  BY DEF IsIter

\* bson_iter_next finds a pair, all of which lies in the document, or ends.
LEMMA NextIs ==
  ASSUME NEW it, CanMove(it)
  PROVE  bson_iter_next(it).raw = <<>> \/ bson_iter_next(it) \in PairsOf(it.raw)
  <1>1. PICK m \in Seq(Byte) : m = it.raw
    BY DEF CanMove
  <1>2. PICK n \in Nat : n = Len(m)
    OBVIOUS
  <1>3. PICK at \in Nat : at = it.next_off /\ at # 0 /\ at < n
    BY <1>1, <1>2 DEF CanMove
  <1>4. it.len = n
    BY <1>1, <1>2 DEF CanMove
  <1>5. PICK z \in Nat : z = ZeroFrom(m, at + 1, n) /\ at + 1 <= z
    BY <1>2, <1>3, ZeroFromIs
  <1>6. PICK o \in Nat : o = z + 1 /\ at < o
    BY <1>5
  <1>7. PICK t \in Nat : t = At(m, at)
    BY <1>2, <1>3, AtIs
  <1>8. PICK s : s = ValueSpan(m, n, o, at, t)
    OBVIOUS
  <1>9. PICK x : x = bson_iter_next(it)
    OBVIOUS
  <1>10. m # <<>>
    BY <1>2, <1>3
  <1>11. x = IF o > n THEN Ended([it EXCEPT !.off = at], it.err_off) ELSE MovedTo(it, at, o, s)
    BY <1>1, <1>3, <1>4, <1>5, <1>6, <1>7, <1>8, <1>9, <1>10 DEF bson_iter_next
  <1>12. IsIter(it) /\ IsIter([it EXCEPT !.off = at])
    BY OffIs DEF CanMove
  <1>13. CASE o > n \/ s.err # 0 \/ s.next >= n
    BY <1>4, <1>9, <1>11, <1>12, <1>13, EndedIs DEF MovedTo
  <1>14. CASE ~(o > n) /\ s.err = 0 /\ ~(s.next >= n)
    <2>1. o # 0 /\ o <= n
      BY <1>2, <1>6, <1>14
    <2>2. ValueAt(m, o, t, s.d2, s.d3, s.d4, s.next)
      BY <1>2, <1>3, <1>7, <1>8, <1>14, <2>1, ValueSpanIs
    <2>3. s.next \in Nat /\ o <= s.next
      BY <2>2 DEF ValueAt
    <2>4. x = [it EXCEPT !.off = at, !.d1 = o, !.d2 = s.d2, !.d3 = s.d3, !.d4 = s.d4,
                         !.next_off = s.next, !.err_off = 0]
      BY <1>4, <1>11, <1>14 DEF MovedTo
    <2>5. /\ IsIter(x) /\ x.raw = m /\ x.len = n /\ x.off = at /\ x.d1 = o /\ x.d2 = s.d2
          /\ x.d3 = s.d3 /\ x.d4 = s.d4 /\ x.next_off = s.next /\ x.err_off = 0
      BY <1>1, <1>4, <1>12, <2>4 DEF IsIter
    <2>6. CanMove(x)
      <3>1. s.next # 0 /\ s.next < n
        BY <1>2, <1>14, <2>1, <2>3
      <3> QED  BY <1>2, <2>3, <2>5, <3>1 DEF CanMove
    <2>7. bson_iter_type(x) = t
      BY <1>7, <2>5 DEF bson_iter_type
    <2>8. x \in Found(m)
      <3>1. x = [raw |-> m, len |-> n, off |-> at, d1 |-> o, d2 |-> s.d2, d3 |-> s.d3,
                 d4 |-> s.d4, next_off |-> s.next, err_off |-> 0]
        BY <2>5 DEF IsIter
      <3>2. x = Standing(m, at, o, t)
        BY <1>2, <1>8, <3>1 DEF Standing
      <3> QED  BY <3>2 DEF Found
    <2>9. OnPair(x)
      BY <1>6, <2>2, <2>5, <2>6, <2>7 DEF OnPair
    <2> QED  BY <1>1, <1>9, <2>5, <2>8, <2>9 DEF PairsOf
  <1> QED  BY <1>13, <1>14
-----------------------------------------------------------------------------
(* Values.                                                                 *)

\* The members of a value are bytes, as many as its type takes.
ValueInOrder(v) ==
  /\ v.first \in Seq(Byte) /\ v.second \in Seq(Byte)
  /\ v.value_type \in {BSON_TYPE_DOUBLE, BSON_TYPE_DATE_TIME, BSON_TYPE_INT64} => Len(v.first) = 8
  /\ v.value_type = BSON_TYPE_INT32 => Len(v.first) = 4
  /\ v.value_type = BSON_TYPE_OID => Len(v.first) = 12
  /\ v.value_type = BSON_TYPE_TIMESTAMP => Len(v.first) = 4 /\ Len(v.second) = 4
  /\ v.value_type = BSON_TYPE_DBPOINTER => Len(v.second) = 12
  /\ v.value_type = BSON_TYPE_BINARY => Len(v.second) = 1

\* The part of a document from o on, if it ends in it.
LEMMA PartIs ==
  ASSUME NEW it, OnPair(it), NEW o \in Nat, NEW n \in Nat, o + n <= it.next_off
  PROVE  Slice(it.raw, o, n) \in Seq(Byte) /\ Len(Slice(it.raw, o, n)) = n
  <1>1. PICK m \in Seq(Byte) : m = it.raw
    BY DEF OnPair, CanMove
  <1>2. PICK x \in Nat : x = it.next_off /\ x < Len(m)
    BY <1>1 DEF OnPair, CanMove
  <1>3. o + n <= Len(m)
    BY <1>2
  <1>4. Slice(m, o, n) \in Seq(Byte) /\ Len(Slice(m, o, n)) = n
    BY <1>3, SliceIs
  <1> QED  BY <1>1, <1>4

\* A part that is one byte shorter than what is counted, which may be nothing.
LEMMA ShorterIs ==
  ASSUME NEW it, OnPair(it), NEW o \in Nat, NEW n \in Nat, o + n <= it.next_off
  PROVE  Slice(it.raw, o, n - 1) \in Seq(Byte)
  <1>1. CASE n = 0
    <2>1. it.raw \in Seq(Byte)
      BY DEF OnPair, CanMove
    <2>2. n - 1 \in Int /\ n - 1 <= 0 /\ o \in Int
      BY <1>1
    <2> QED  BY <2>1, <2>2, NoSlice
  <1>2. CASE n # 0
    <2>1. n - 1 \in Nat /\ o + (n - 1) <= it.next_off
      <3>1. PICK x \in Nat : x = it.next_off
        BY DEF OnPair, CanMove
      <3> QED  BY <1>2, <3>1
    <2> QED  BY <2>1, PartIs
  <1> QED  BY <1>1, <1>2

LEMMA EmptyIs == <<>> \in Seq(Byte) /\ Len(<<>>) = 0
  OBVIOUS

LEMMA OneByteIs ==
  ASSUME NEW x \in Byte
  PROVE  <<x>> \in Seq(Byte) /\ Len(<<x>>) = 1
  OBVIOUS

LEMMA BytesAre == 0 \in Byte /\ 1 \in Byte
  BY DEF Byte

\* What an iterator that stands on a pair gives lies in the document.
LEMMA IterValueIs ==
  ASSUME NEW it, OnPair(it)
  PROVE  ValueInOrder(bson_iter_value(it))
  <1> USE DEF EightBytes, LengthPrefixed, Containers, BSON_TYPE_DOUBLE, BSON_TYPE_UTF8,
              BSON_TYPE_DOCUMENT, BSON_TYPE_ARRAY, BSON_TYPE_BINARY, BSON_TYPE_UNDEFINED,
              BSON_TYPE_OID, BSON_TYPE_BOOL, BSON_TYPE_DATE_TIME, BSON_TYPE_NULL,
              BSON_TYPE_REGEX, BSON_TYPE_DBPOINTER, BSON_TYPE_CODE, BSON_TYPE_SYMBOL,
              BSON_TYPE_CODEWSCOPE, BSON_TYPE_INT32, BSON_TYPE_TIMESTAMP, BSON_TYPE_INT64,
              BSON_TYPE_MAXKEY, BSON_TYPE_MINKEY
  <1>1. PICK m \in Seq(Byte) : m = it.raw
    BY DEF OnPair, CanMove
  <1>2. PICK o \in Nat : o = it.d1
    BY DEF OnPair
  <1>3. PICK x \in Nat : x = it.next_off /\ x < Len(m)
    BY <1>1 DEF OnPair, CanMove
  <1>4. PICK t \in Nat : t = bson_iter_type(it)
    <2>1. it.off \in Nat /\ it.off < Len(m)
      <3>1. ValueAt(it.raw, it.d1, bson_iter_type(it), it.d2, it.d3, it.d4, it.next_off)
        BY DEF OnPair
      <3>2. it.off \in Nat /\ it.off < o /\ o <= x
        BY <1>2, <1>3, <3>1 DEF OnPair, ValueAt
      <3> QED  BY <1>3, <3>2
    <2> QED  BY <1>1, <2>1, AtIs DEF bson_iter_type
  <1>5. ValueAt(m, o, t, it.d2, it.d3, it.d4, x)
    BY <1>1, <1>2, <1>3, <1>4 DEF OnPair
  <1>6. PICK v : v = bson_iter_value(it)
    OBVIOUS
  <1>7. SUFFICES ValueInOrder(v)
    BY <1>6
  <1>8. CASE t = BSON_TYPE_DOUBLE
    <2>1. v = Value(t, Slice(m, o, 8), <<>>)
      BY <1>1, <1>2, <1>4, <1>6, <1>8 DEF bson_iter_value, bson_iter_double, Fixed, Holds
    <2>2. o + 8 <= x
      BY <1>5, <1>8 DEF ValueAt
    <2>3. Slice(m, o, 8) \in Seq(Byte) /\ Len(Slice(m, o, 8)) = 8
      BY <1>1, <1>3, <2>2, PartIs
    <2> QED  BY <2>1, <2>3, <1>8, EmptyIs DEF ValueInOrder, Value
  <1>9. CASE t = BSON_TYPE_DATE_TIME
    <2>1. v = Value(t, Slice(m, o, 8), <<>>)
      BY <1>1, <1>2, <1>4, <1>6, <1>9 DEF bson_iter_value, bson_iter_date_time, Fixed, Holds
    <2>2. o + 8 <= x
      BY <1>5, <1>9 DEF ValueAt
    <2>3. Slice(m, o, 8) \in Seq(Byte) /\ Len(Slice(m, o, 8)) = 8
      BY <1>1, <1>3, <2>2, PartIs
    <2> QED  BY <2>1, <2>3, <1>9, EmptyIs DEF ValueInOrder, Value
  <1>10. CASE t = BSON_TYPE_INT64
    <2>1. v = Value(t, Slice(m, o, 8), <<>>)
      BY <1>1, <1>2, <1>4, <1>6, <1>10 DEF bson_iter_value, bson_iter_int64, Fixed, Holds
    <2>2. o + 8 <= x
      BY <1>5, <1>10 DEF ValueAt
    <2>3. Slice(m, o, 8) \in Seq(Byte) /\ Len(Slice(m, o, 8)) = 8
      BY <1>1, <1>3, <2>2, PartIs
    <2> QED  BY <2>1, <2>3, <1>10, EmptyIs DEF ValueInOrder, Value
  <1>11. CASE t = BSON_TYPE_INT32
    <2>1. v = Value(t, Slice(m, o, 4), <<>>)
      BY <1>1, <1>2, <1>4, <1>6, <1>11 DEF bson_iter_value, bson_iter_int32, Fixed, Holds
    <2>2. o + 4 <= x
      BY <1>5, <1>11 DEF ValueAt
    <2>3. Slice(m, o, 4) \in Seq(Byte) /\ Len(Slice(m, o, 4)) = 4
      BY <1>1, <1>3, <2>2, PartIs
    <2> QED  BY <2>1, <2>3, <1>11, EmptyIs DEF ValueInOrder, Value
  <1>12. CASE t = BSON_TYPE_OID
    <2>1. v = Value(t, Slice(m, o, 12), <<>>)
      BY <1>1, <1>2, <1>4, <1>6, <1>12 DEF bson_iter_value, bson_iter_oid, Fixed, Holds
    <2>2. o + 12 <= x
      BY <1>5, <1>12 DEF ValueAt
    <2>3. Slice(m, o, 12) \in Seq(Byte) /\ Len(Slice(m, o, 12)) = 12
      BY <1>1, <1>3, <2>2, PartIs
    <2> QED  BY <2>1, <2>3, <1>12, EmptyIs DEF ValueInOrder, Value
  <1>13. CASE t = BSON_TYPE_UTF8
    <2>1. PICK l \in Nat : l = U32At(m, o) /\ it.d2 = o + 4 /\ x = o + 4 + l
      BY <1>5, <1>13 DEF ValueAt
    <2>2. v = Value(t, Slice(m, o + 4, l - 1), <<>>)
      BY <1>1, <1>2, <1>4, <1>6, <2>1, <1>13 DEF bson_iter_value, bson_iter_utf8, Counted, Holds
    <2>3. Slice(m, o + 4, l - 1) \in Seq(Byte)
      <3>1. o + 4 \in Nat /\ o + 4 + l <= x
        BY <2>1
      <3> QED  BY <1>1, <1>3, <3>1, ShorterIs
    <2> QED  BY <2>2, <2>3, <1>13, EmptyIs DEF ValueInOrder, Value
  <1>14. CASE t = BSON_TYPE_CODE
    <2>1. PICK l \in Nat : l = U32At(m, o) /\ it.d2 = o + 4 /\ x = o + 4 + l
      BY <1>5, <1>14 DEF ValueAt
    <2>2. v = Value(t, Slice(m, o + 4, l - 1), <<>>)
      BY <1>1, <1>2, <1>4, <1>6, <2>1, <1>14 DEF bson_iter_value, bson_iter_code, Counted, Holds
    <2>3. Slice(m, o + 4, l - 1) \in Seq(Byte)
      <3>1. o + 4 \in Nat /\ o + 4 + l <= x
        BY <2>1
      <3> QED  BY <1>1, <1>3, <3>1, ShorterIs
    <2> QED  BY <2>2, <2>3, <1>14, EmptyIs DEF ValueInOrder, Value
  <1>15. CASE t = BSON_TYPE_SYMBOL
    <2>1. PICK l \in Nat : l = U32At(m, o) /\ it.d2 = o + 4 /\ x = o + 4 + l
      BY <1>5, <1>15 DEF ValueAt
    <2>2. v = Value(t, Slice(m, o + 4, l - 1), <<>>)
      BY <1>1, <1>2, <1>4, <1>6, <2>1, <1>15 DEF bson_iter_value, bson_iter_symbol, Counted, Holds
    <2>3. Slice(m, o + 4, l - 1) \in Seq(Byte)
      <3>1. o + 4 \in Nat /\ o + 4 + l <= x
        BY <2>1
      <3> QED  BY <1>1, <1>3, <3>1, ShorterIs
    <2> QED  BY <2>2, <2>3, <1>15, EmptyIs DEF ValueInOrder, Value
  <1>16. CASE t = BSON_TYPE_DOCUMENT
    <2>1. PICK l \in Nat : l = U32At(m, o) /\ x = o + l
      BY <1>5, <1>16 DEF ValueAt
    <2>2. v = Value(t, Slice(m, o, l), <<>>)
      BY <1>1, <1>2, <1>4, <1>6, <2>1, <1>16 DEF bson_iter_value, bson_iter_document, Embedded, Holds
    <2>3. Slice(m, o, l) \in Seq(Byte)
      <3>1. o + l <= x
        BY <2>1
      <3> QED  BY <1>1, <1>3, <3>1, PartIs
    <2> QED  BY <2>2, <2>3, <1>16, EmptyIs DEF ValueInOrder, Value
  <1>17. CASE t = BSON_TYPE_ARRAY
    <2>1. PICK l \in Nat : l = U32At(m, o) /\ x = o + l
      BY <1>5, <1>17 DEF ValueAt
    <2>2. v = Value(t, Slice(m, o, l), <<>>)
      BY <1>1, <1>2, <1>4, <1>6, <2>1, <1>17 DEF bson_iter_value, bson_iter_array, Embedded, Holds
    <2>3. Slice(m, o, l) \in Seq(Byte)
      <3>1. o + l <= x
        BY <2>1
      <3> QED  BY <1>1, <1>3, <3>1, PartIs
    <2> QED  BY <2>2, <2>3, <1>17, EmptyIs DEF ValueInOrder, Value
  <1>18. CASE t = BSON_TYPE_BINARY
    <2>1. PICK l \in Nat :
            /\ l = U32At(m, o) /\ it.d2 = o + 4 /\ it.d3 = o + 5 /\ x = o + 5 + l
            /\ At(m, o + 4) = BSON_SUBTYPE_BINARY_DEPRECATED => l >= 4
      BY <1>5, <1>18 DEF ValueAt
    <2>2. PICK y \in Byte : y = At(m, o + 4)
      BY <1>3, <2>1, AtIs
    <2>3. PICK k \in Nat : k = IF y = BSON_SUBTYPE_BINARY_DEPRECATED THEN 4 ELSE 0
      OBVIOUS
    <2>4. k <= l
      BY <2>1, <2>2, <2>3
    <2>5. v = Value(t, Slice(m, o + 5 + k, l - k), <<y>>)
      BY <1>1, <1>2, <1>4, <1>6, <2>1, <2>2, <2>3, <1>18 DEF bson_iter_value, bson_iter_binary
    <2>6. o + 5 + k \in Nat /\ l - k \in Nat /\ o + 5 + k + (l - k) <= x
      BY <2>1, <2>4
    <2>7. Slice(m, o + 5 + k, l - k) \in Seq(Byte)
      BY <1>1, <1>3, <2>6, PartIs
    <2> QED  BY <2>2, <2>5, <2>7, <1>18, OneByteIs DEF ValueInOrder, Value
  <1>19. CASE t = BSON_TYPE_BOOL
    <2>1. v = Value(t, IF bson_iter_bool(it) THEN <<1>> ELSE <<0>>, <<>>)
      BY <1>4, <1>6, <1>19 DEF bson_iter_value
    <2>2. PICK y \in {<<0>>, <<1>>} : v = Value(t, y, <<>>)
      BY <2>1
    <2>3. y \in Seq(Byte)
      BY <2>2, OneByteIs, BytesAre
    <2> QED  BY <2>2, <2>3, <1>19, EmptyIs DEF ValueInOrder, Value
  <1>20. CASE t = BSON_TYPE_REGEX
    <2>1. it.d2 \in Nat /\ it.d2 <= x
      BY <1>5, <1>20 DEF ValueAt
    <2>2. v = Value(t, CStringAt(m, o), CStringAt(m, it.d2))
      BY <1>1, <1>2, <1>4, <1>6, <1>20 DEF bson_iter_value, bson_iter_regex, Holds
    <2>3. o <= Len(m) /\ it.d2 <= Len(m)
      BY <1>3, <1>5, <2>1 DEF ValueAt
    <2>4. CStringAt(m, o) \in Seq(Byte) /\ CStringAt(m, it.d2) \in Seq(Byte)
      BY <2>1, <2>3, CStringAtIs
    <2> QED  BY <2>2, <2>4, <1>20 DEF ValueInOrder, Value
  <1>21. CASE t = BSON_TYPE_DBPOINTER
    <2>1. PICK l \in Nat : /\ l = U32At(m, o) /\ it.d2 = o + 4 /\ it.d3 = o + 4 + l
                           /\ x = o + 4 + l + 12
      BY <1>5, <1>21 DEF ValueAt
    <2>2. PICK k \in Nat : k = (IF l > 0 THEN l - 1 ELSE 0) /\ k <= l
      OBVIOUS
    <2>3. v = Value(t, Slice(m, o + 4, k), Slice(m, o + 4 + l, 12))
      BY <1>1, <1>2, <1>4, <1>6, <2>1, <2>2, <1>21 DEF bson_iter_value, bson_iter_dbpointer
    <2>4. o + 4 \in Nat /\ o + 4 + k <= x /\ o + 4 + l \in Nat /\ o + 4 + l + 12 <= x
      <3>1. x = o + 4 + l + 12 /\ k <= l
        BY <2>1, <2>2
      <3> QED  BY <3>1, PointerFits, Zenon
    <2>5. Slice(m, o + 4, k) \in Seq(Byte)
      BY <1>1, <1>3, <2>4, PartIs
    <2>6. Slice(m, o + 4 + l, 12) \in Seq(Byte) /\ Len(Slice(m, o + 4 + l, 12)) = 12
      BY <1>1, <1>3, <2>4, PartIs
    <2> QED  BY <2>3, <2>5, <2>6, <1>21 DEF ValueInOrder, Value
  <1>22. CASE t = BSON_TYPE_CODEWSCOPE
    <2>1. PICK j \in Nat : j = U32At(m, o + 4) /\ it.d2 = o + 4 /\ it.d3 = o + 8 /\ it.d4 = o + 8 + j
      BY <1>5, <1>22 DEF ValueAt
    <2>2. PICK e \in Nat : e = o + 8 + j /\ e = it.d4
      BY <2>1
    <2>3. e + 4 < x /\ U32At(m, e) = x - e
      BY <1>5, <2>2, <1>22 DEF ValueAt
    <2>4. v = Value(t, Slice(m, o + 8, j - 1), Slice(m, e, x - e))
      BY <1>1, <1>2, <1>4, <1>6, <2>1, <2>2, <2>3, <1>22 DEF bson_iter_value, bson_iter_codewscope
    <2>5. o + 8 \in Nat /\ o + 8 + j <= x /\ x - e \in Nat /\ e + (x - e) <= x
      BY <2>2, <2>3
    <2>6. Slice(m, o + 8, j - 1) \in Seq(Byte)
      BY <1>1, <1>3, <2>5, ShorterIs
    <2>7. Slice(m, e, x - e) \in Seq(Byte)
      BY <1>1, <1>3, <2>5, PartIs
    <2> QED  BY <2>4, <2>6, <2>7, <1>22 DEF ValueInOrder, Value
  <1>23. CASE t = BSON_TYPE_TIMESTAMP
    <2>1. v = Value(t, Slice(m, o + 4, 4), Slice(m, o, 4))
      BY <1>1, <1>2, <1>4, <1>6, <1>23 DEF bson_iter_value, bson_iter_timestamp
    <2>2. o + 4 \in Nat /\ o + 4 + 4 <= x /\ o + 4 <= x
      <3>1. x = o + 8
        BY <1>5, <1>23 DEF ValueAt
      <3> QED  BY <3>1
    <2>3. Slice(m, o + 4, 4) \in Seq(Byte) /\ Len(Slice(m, o + 4, 4)) = 4
      BY <1>1, <1>3, <2>2, PartIs
    <2>4. Slice(m, o, 4) \in Seq(Byte) /\ Len(Slice(m, o, 4)) = 4
      BY <1>1, <1>3, <2>2, PartIs
    <2> QED  BY <2>1, <2>3, <2>4, <1>23 DEF ValueInOrder, Value
  <1>24. CASE t \notin {BSON_TYPE_DOUBLE, BSON_TYPE_UTF8, BSON_TYPE_DOCUMENT, BSON_TYPE_ARRAY,
                       BSON_TYPE_BINARY, BSON_TYPE_OID, BSON_TYPE_BOOL, BSON_TYPE_DATE_TIME,
                       BSON_TYPE_REGEX, BSON_TYPE_DBPOINTER, BSON_TYPE_CODE, BSON_TYPE_SYMBOL,
                       BSON_TYPE_CODEWSCOPE, BSON_TYPE_INT32, BSON_TYPE_TIMESTAMP, BSON_TYPE_INT64}
    <2>1. v = Value(t, <<>>, <<>>)
      BY <1>4, <1>6, <1>24 DEF bson_iter_value
    <2> QED  BY <2>1, <1>24, EmptyIs DEF ValueInOrder, Value
  <1> QED  BY <1>4, <1>8, <1>9, <1>10, <1>11, <1>12, <1>13, <1>14, <1>15, <1>16, <1>17,
              <1>18, <1>19, <1>20, <1>21, <1>22, <1>23, <1>24
-----------------------------------------------------------------------------
(* What is appended.                                                       *)

\* No more is written than room is asked for.
AppendInOrder(a) == a.bytes \in Seq(Byte) /\ a.n_bytes \in Nat /\ Len(a.bytes) <= a.n_bytes

Sized(bytes, n) == bytes \in Seq(Byte) /\ n \in Nat /\ Len(bytes) = n

LEMMA JoinedIs ==
  ASSUME NEW a, NEW i, Sized(a, i), NEW b, NEW j, Sized(b, j)
  PROVE  Sized(a \o b, i + j)
  <1>1. a \in Seq(Byte) /\ b \in Seq(Byte) /\ i \in Nat /\ j \in Nat /\ Len(a) = i /\ Len(b) = j
    BY DEF Sized
  <1>2. a \o b \in Seq(Byte)
    BY <1>1
  <1>3. Len(a \o b) = Len(a) + Len(b)
    BY <1>1
  <1>4. i + j \in Nat /\ Len(a \o b) = i + j
    BY <1>1, <1>3
  <1> QED  BY <1>2, <1>4 DEF Sized

LEMMA ZeroIs == Sized(gZero, 1) /\ Sized(<<0>>, 1)
  BY BytesAre, OneByteIs DEF Sized, gZero

\* The type, the key and its end.
LEMMA HeadIs ==
  ASSUME NEW t \in Byte, NEW key \in Seq(Byte)
  PROVE  Sized(<<t>> \o key \o gZero, 1 + Len(key) + 1)
  <1>1. Sized(<<t>>, 1)
    BY OneByteIs DEF Sized
  <1>2. Sized(key, Len(key))
    BY DEF Sized
  <1>3. Sized(<<t>> \o key, 1 + Len(key))
    BY <1>1, <1>2, JoinedIs
  <1> QED  BY <1>3, ZeroIs, JoinedIs

LEMMA WithNone ==
  ASSUME NEW h, NEW i, Sized(h, i)
  PROVE  AppendInOrder(Appending(i, h))
  BY DEF AppendInOrder, Appending, Sized

LEMMA WithOne ==
  ASSUME NEW h, NEW i, Sized(h, i), NEW a, NEW j, Sized(a, j)
  PROVE  AppendInOrder(Appending(i + j, h \o a))
  BY JoinedIs, WithNone

LEMMA WithTwo ==
  ASSUME NEW h, NEW i, Sized(h, i), NEW a, NEW j, Sized(a, j), NEW b, NEW k, Sized(b, k)
  PROVE  AppendInOrder(Appending(i + j + k, h \o a \o b))
  BY JoinedIs, WithOne

LEMMA WithThree ==
  ASSUME NEW h, NEW i, Sized(h, i), NEW a, NEW j, Sized(a, j), NEW b, NEW k, Sized(b, k),
         NEW c, NEW l, Sized(c, l)
  PROVE  AppendInOrder(Appending(i + j + k + l, h \o a \o b \o c))
  BY JoinedIs, WithTwo

LEMMA WithFour ==
  ASSUME NEW h, NEW i, Sized(h, i), NEW a, NEW j, Sized(a, j), NEW b, NEW k, Sized(b, k),
         NEW c, NEW l, Sized(c, l), NEW d, NEW n, Sized(d, n)
  PROVE  AppendInOrder(Appending(i + j + k + l + n, h \o a \o b \o c \o d))
  BY JoinedIs, WithThree

LEMMA NumberIs ==
  ASSUME NEW n \in Nat
  PROVE  Sized(LE(n, 4), 4)
  BY LEIs DEF Sized

\* A string with the zero that ends it.
LEMMA EndedStringIs ==
  ASSUME NEW s \in Seq(Byte)
  PROVE  LET js == CString(s) \o <<0>> IN Sized(js, Len(js))
  <1>1. CString(s) \in Seq(Byte)
    BY CStringIs
  <1>2. Sized(CString(s), Len(CString(s)))
    BY <1>1 DEF Sized
  <1>3. PICK n : Sized(CString(s) \o <<0>>, n)
    BY <1>2, ZeroIs, JoinedIs
  <1> QED  BY <1>3 DEF Sized

LEMMA TypesAreBytes ==
  /\ BSON_TYPE_DOUBLE \in Byte /\ BSON_TYPE_UTF8 \in Byte /\ BSON_TYPE_DOCUMENT \in Byte
  /\ BSON_TYPE_ARRAY \in Byte /\ BSON_TYPE_BINARY \in Byte /\ BSON_TYPE_UNDEFINED \in Byte
  /\ BSON_TYPE_OID \in Byte /\ BSON_TYPE_BOOL \in Byte /\ BSON_TYPE_DATE_TIME \in Byte
  /\ BSON_TYPE_NULL \in Byte /\ BSON_TYPE_REGEX \in Byte /\ BSON_TYPE_DBPOINTER \in Byte
  /\ BSON_TYPE_CODE \in Byte /\ BSON_TYPE_SYMBOL \in Byte /\ BSON_TYPE_CODEWSCOPE \in Byte
  /\ BSON_TYPE_INT32 \in Byte /\ BSON_TYPE_TIMESTAMP \in Byte /\ BSON_TYPE_INT64 \in Byte
  /\ BSON_TYPE_MAXKEY \in Byte /\ BSON_TYPE_MINKEY \in Byte
  BY SMT DEF Byte, BSON_TYPE_DOUBLE, BSON_TYPE_UTF8, BSON_TYPE_DOCUMENT, BSON_TYPE_ARRAY,
             BSON_TYPE_BINARY, BSON_TYPE_UNDEFINED, BSON_TYPE_OID, BSON_TYPE_BOOL,
             BSON_TYPE_DATE_TIME, BSON_TYPE_NULL, BSON_TYPE_REGEX, BSON_TYPE_DBPOINTER,
             BSON_TYPE_CODE, BSON_TYPE_SYMBOL, BSON_TYPE_CODEWSCOPE, BSON_TYPE_INT32,
             BSON_TYPE_TIMESTAMP, BSON_TYPE_INT64, BSON_TYPE_MAXKEY, BSON_TYPE_MINKEY
(* The append functions, for any key and any bytes.                        *)

LEMMA NumbersAppend ==
  ASSUME NEW key \in Seq(Byte), NEW value
  PROVE  /\ Sized(value, 8) => AppendInOrder(bson_append_double(key, value))
         /\ Sized(value, 4) => AppendInOrder(bson_append_int32(key, value))
         /\ Sized(value, 8) => AppendInOrder(bson_append_int64(key, value))
         /\ Sized(value, 12) => AppendInOrder(bson_append_oid(key, value))
         /\ Sized(value, 8) => AppendInOrder(bson_append_date_time(key, value))
  <1>1. ASSUME NEW t \in Byte, NEW n, Sized(value, n)
        PROVE  AppendInOrder(Appending(1 + Len(key) + 1 + n, <<t>> \o key \o gZero \o value))
    BY <1>1, HeadIs, WithOne
  <1> QED  BY <1>1, TypesAreBytes DEF bson_append_double, bson_append_int32,
                                      bson_append_int64, bson_append_oid,
                                      bson_append_date_time

LEMMA NothingAppends ==
  ASSUME NEW key \in Seq(Byte)
  PROVE  /\ AppendInOrder(bson_append_maxkey(key)) /\ AppendInOrder(bson_append_minkey(key))
         /\ AppendInOrder(bson_append_null(key)) /\ AppendInOrder(bson_append_undefined(key))
         /\ AppendInOrder(NotAppended)
         /\ \A value : AppendInOrder(bson_append_bool(key, value))
  <1>1. ASSUME NEW t \in Byte
        PROVE  AppendInOrder(Appending(1 + Len(key) + 1, <<t>> \o key \o gZero))
    BY <1>1, HeadIs, WithNone
  <1>2. AppendInOrder(NotAppended)
    BY EmptyIs DEF AppendInOrder, NotAppended
  <1>3. ASSUME NEW value PROVE AppendInOrder(bson_append_bool(key, value))
    <2>1. PICK y : y = (IF value THEN <<1>> ELSE <<0>>)
      OBVIOUS
    <2>2. Sized(y, 1)
      BY <2>1, OneByteIs, BytesAre DEF Sized
    <2> QED  BY <2>1, <2>2, HeadIs, WithOne, TypesAreBytes DEF bson_append_bool
  <1> QED  BY <1>1, <1>2, <1>3, TypesAreBytes
           DEF bson_append_maxkey, bson_append_minkey, bson_append_null, bson_append_undefined

\* A document or an array, whose bytes are those of a value.
LEMMA ContainersAppend ==
  ASSUME NEW key \in Seq(Byte), NEW value \in Seq(Byte)
  PROVE  /\ AppendInOrder(bson_append_document(key, value))
         /\ AppendInOrder(bson_append_array(key, value))
  <1>1. Sized(value, Len(value))
    BY DEF Sized
  <1> QED  BY <1>1, HeadIs, WithOne, TypesAreBytes DEF bson_append_document, bson_append_array

LEMMA TextsAppend ==
  ASSUME NEW key \in Seq(Byte), NEW value \in Seq(Byte)
  PROVE  /\ AppendInOrder(bson_append_utf8(key, value))
         /\ AppendInOrder(bson_append_symbol(key, value))
  <1>1. Sized(value, Len(value))
    BY DEF Sized
  <1>2. Sized(LE(Len(value) + 1, 4), 4)
    BY NumberIs
  <1>3. ASSUME NEW t \in Byte
        PROVE  AppendInOrder(Appending(1 + Len(key) + 1 + 4 + Len(value) + 1,
                 <<t>> \o key \o gZero \o LE(Len(value) + 1, 4) \o value \o gZero))
    BY <1>1, <1>2, HeadIs, ZeroIs, WithThree
  <1> QED  BY <1>3, NothingAppends, TypesAreBytes DEF bson_append_utf8, bson_append_symbol

LEMMA CodeAppends ==
  ASSUME NEW key \in Seq(Byte), NEW code \in Seq(Byte)
  PROVE  AppendInOrder(bson_append_code(key, code))
  <1>1. PICK js : js = CString(code) \o <<0>> /\ Sized(js, Len(js))
    BY EndedStringIs
  <1>2. Sized(LE(Len(js), 4), 4)
    BY <1>1, NumberIs DEF Sized
  <1> QED  BY <1>1, <1>2, HeadIs, WithTwo, TypesAreBytes DEF bson_append_code

LEMMA CodewscopeAppends ==
  ASSUME NEW key \in Seq(Byte), NEW code \in Seq(Byte), NEW scope \in Seq(Byte)
  PROVE  AppendInOrder(bson_append_code_with_scope(key, code, scope))
  <1>1. PICK js : js = CString(code) \o <<0>> /\ Sized(js, Len(js))
    BY EndedStringIs
  <1>2. Sized(scope, Len(scope))
    BY DEF Sized
  <1>3. Sized(LE(Len(js), 4), 4) /\ Sized(LE(4 + 4 + Len(js) + Len(scope), 4), 4)
    <2>1. Len(js) \in Nat /\ 4 + 4 + Len(js) + Len(scope) \in Nat
      BY <1>1, <1>2 DEF Sized
    <2> QED  BY <2>1, NumberIs
  <1>4. AppendInOrder(Appending(1 + Len(key) + 1 + 4 + 4 + Len(js) + Len(scope),
          <<BSON_TYPE_CODEWSCOPE>> \o key \o gZero \o LE(4 + 4 + Len(js) + Len(scope), 4) \o
            LE(Len(js), 4) \o js \o scope))
    <2>1. Sized(<<BSON_TYPE_CODEWSCOPE>> \o key \o gZero, 1 + Len(key) + 1)
      BY HeadIs, TypesAreBytes
    <2>2. PICK h, i, a, b : /\ h = <<BSON_TYPE_CODEWSCOPE>> \o key \o gZero
                            /\ i = 1 + Len(key) + 1 /\ b = LE(Len(js), 4)
                            /\ a = LE(4 + 4 + Len(js) + Len(scope), 4)
      OBVIOUS
    <2>3. Sized(h, i) /\ Sized(a, 4) /\ Sized(b, 4) /\ Sized(js, Len(js))
      BY <1>1, <1>3, <2>1, <2>2
    <2>4. AppendInOrder(Appending(i + 4 + 4 + Len(js) + Len(scope), h \o a \o b \o js \o scope))
      BY <1>2, <2>3, WithFour, Zenon
    <2> QED  BY <2>2, <2>4
  <1> QED  BY <1>1, <1>4, CodeAppends DEF bson_append_code_with_scope

LEMMA RegexAppends ==
  ASSUME NEW key \in Seq(Byte), NEW regex \in Seq(Byte), NEW options \in Seq(Byte)
  PROVE  AppendInOrder(bson_append_regex(key, regex, options))
  <1>1. PICK r : r = (IF regex = NullString THEN <<>> ELSE CString(regex)) \o <<0>>
    OBVIOUS
  <1>2. PICK o : o = (IF options = NullString THEN <<>> ELSE CString(options)) \o <<0>>
    OBVIOUS
  <1>3. Sized(<<0>>, Len(<<0>>)) /\ Sized(<<>> \o <<0>>, Len(<<>> \o <<0>>))
    <2>1. Sized(<<>>, 0)
      BY EmptyIs DEF Sized
    <2>2. Sized(<<>> \o <<0>>, 0 + 1)
      BY <2>1, ZeroIs, JoinedIs
    <2> QED  BY <2>2, ZeroIs DEF Sized
  <1>4. Sized(r, Len(r)) /\ Sized(o, Len(o))
    BY <1>1, <1>2, <1>3, EndedStringIs
  <1> QED  BY <1>1, <1>2, <1>4, HeadIs, WithTwo, TypesAreBytes DEF bson_append_regex

LEMMA DbpointerAppends ==
  ASSUME NEW key \in Seq(Byte), NEW collection \in Seq(Byte), NEW oid, Sized(oid, 12)
  PROVE  AppendInOrder(bson_append_dbpointer(key, collection, oid))
  <1>1. PICK c : c = CString(collection) \o <<0>> /\ Sized(c, Len(c))
    BY EndedStringIs
  <1>2. Sized(LE(Len(c), 4), 4)
    BY <1>1, NumberIs DEF Sized
  <1> QED  BY <1>1, <1>2, HeadIs, WithThree, TypesAreBytes DEF bson_append_dbpointer

LEMMA TimestampAppends ==
  ASSUME NEW key \in Seq(Byte), NEW timestamp, Sized(timestamp, 4),
         NEW increment, Sized(increment, 4)
  PROVE  AppendInOrder(bson_append_timestamp(key, timestamp, increment))
  <1>1. PICK h : h = <<BSON_TYPE_TIMESTAMP>> \o key \o gZero
    OBVIOUS
  <1>2. PICK i \in Nat : i = 1 + Len(key) + 1 /\ Sized(h, i)
    BY <1>1, HeadIs, TypesAreBytes DEF Sized
  <1>3. AppendInOrder(Appending(i + 4 + 4, h \o increment \o timestamp))
    BY <1>2, WithTwo
  <1>4. i + 4 + 4 = i + 8
    BY <1>2
  <1> QED  BY <1>1, <1>2, <1>3, <1>4 DEF bson_append_timestamp

LEMMA BinaryAppends ==
  ASSUME NEW key \in Seq(Byte), NEW subtype \in Byte, NEW binary \in Seq(Byte)
  PROVE  AppendInOrder(bson_append_binary(key, subtype, binary))
  <1>1. PICK l : l = Len(binary) /\ Sized(binary, l)
    BY DEF Sized
  <1>2. Sized(<<subtype>>, 1)
    BY OneByteIs DEF Sized
  <1>3. Sized(LE(l, 4), 4) /\ Sized(LE(l + 4, 4), 4)
    <2>1. l \in Nat /\ l + 4 \in Nat
      BY <1>1
    <2> QED  BY <2>1, NumberIs
  <1>4. AppendInOrder(Appending(1 + Len(key) + 1 + 4 + 1 + 4 + l,
          <<BSON_TYPE_BINARY>> \o key \o gZero \o LE(l + 4, 4) \o <<subtype>> \o LE(l, 4) \o binary))
    BY <1>1, <1>2, <1>3, HeadIs, WithFour, TypesAreBytes
  <1>5. AppendInOrder(Appending(1 + Len(key) + 1 + 4 + 1 + l,
          <<BSON_TYPE_BINARY>> \o key \o gZero \o LE(l, 4) \o <<subtype>> \o binary))
    BY <1>1, <1>2, <1>3, HeadIs, WithThree, TypesAreBytes
  <1> QED  BY <1>1, <1>4, <1>5 DEF bson_append_binary
\* A value may be appended whatever it is; if no function appends its type, nothing is.
LEMMA AppendValueIs ==
  ASSUME NEW key \in Seq(Byte), NEW v, ValueInOrder(v), v.value_type \in Nat
  PROVE  AppendInOrder(bson_append_value(key, v))
  <1> USE DEF BSON_TYPE_DOUBLE, BSON_TYPE_UTF8, BSON_TYPE_DOCUMENT, BSON_TYPE_ARRAY,
              BSON_TYPE_BINARY, BSON_TYPE_UNDEFINED, BSON_TYPE_OID, BSON_TYPE_BOOL,
              BSON_TYPE_DATE_TIME, BSON_TYPE_NULL, BSON_TYPE_REGEX, BSON_TYPE_DBPOINTER,
              BSON_TYPE_CODE, BSON_TYPE_SYMBOL, BSON_TYPE_CODEWSCOPE, BSON_TYPE_INT32,
              BSON_TYPE_TIMESTAMP, BSON_TYPE_INT64, BSON_TYPE_MAXKEY, BSON_TYPE_MINKEY
  <1>1. PICK t \in Nat : t = v.value_type
    OBVIOUS
  <1>2. v.first \in Seq(Byte) /\ v.second \in Seq(Byte)
    BY DEF ValueInOrder
  <1>3. PICK a : a = bson_append_value(key, v)
    OBVIOUS
  <1>4. SUFFICES AppendInOrder(a)
    BY <1>3
  <1>5. CASE t \in {BSON_TYPE_DOUBLE, BSON_TYPE_DATE_TIME, BSON_TYPE_INT64}
    <2>1. Sized(v.first, 8)
      BY <1>1, <1>2, <1>5 DEF ValueInOrder, Sized
    <2>2. CASE t = BSON_TYPE_DOUBLE
      BY <1>1, <1>3, <2>1, <2>2, NumbersAppend DEF bson_append_value
    <2>3. CASE t = BSON_TYPE_DATE_TIME
      BY <1>1, <1>3, <2>1, <2>3, NumbersAppend DEF bson_append_value
    <2>4. CASE t = BSON_TYPE_INT64
      BY <1>1, <1>3, <2>1, <2>4, NumbersAppend DEF bson_append_value
    <2> QED  BY <1>5, <2>2, <2>3, <2>4
  <1>6. CASE t = BSON_TYPE_INT32
    <2>1. Sized(v.first, 4)
      BY <1>1, <1>2, <1>6 DEF ValueInOrder, Sized
    <2> QED  BY <1>1, <1>3, <1>6, <2>1, NumbersAppend DEF bson_append_value
  <1>7. CASE t = BSON_TYPE_OID
    <2>1. Sized(v.first, 12)
      BY <1>1, <1>2, <1>7 DEF ValueInOrder, Sized
    <2> QED  BY <1>1, <1>3, <1>7, <2>1, NumbersAppend DEF bson_append_value
  <1>8. CASE t = BSON_TYPE_UTF8
    BY <1>1, <1>2, <1>3, <1>8, TextsAppend DEF bson_append_value
  <1>9. CASE t = BSON_TYPE_SYMBOL
    BY <1>1, <1>2, <1>3, <1>9, TextsAppend DEF bson_append_value
  <1>10. CASE t = BSON_TYPE_DOCUMENT
    <2>1. a \in {bson_append_document(key, v.first), NotAppended}
      BY <1>1, <1>3, <1>10 DEF bson_append_value
    <2> QED  BY <1>2, <2>1, ContainersAppend, NothingAppends
  <1>11. CASE t = BSON_TYPE_ARRAY
    <2>1. a \in {bson_append_array(key, v.first), NotAppended}
      BY <1>1, <1>3, <1>11 DEF bson_append_value
    <2> QED  BY <1>2, <2>1, ContainersAppend, NothingAppends
  <1>12. CASE t = BSON_TYPE_BINARY
    <2>1. v.second[1] \in Byte
      BY <1>1, <1>2, <1>12 DEF ValueInOrder
    <2>2. a = bson_append_binary(key, v.second[1], v.first)
      BY <1>1, <1>3, <1>12 DEF bson_append_value
    <2> QED  BY <1>2, <2>1, <2>2, BinaryAppends
  <1>13. CASE t = BSON_TYPE_REGEX
    BY <1>1, <1>2, <1>3, <1>13, RegexAppends DEF bson_append_value
  <1>14. CASE t = BSON_TYPE_DBPOINTER
    <2>1. Sized(v.second, 12)
      BY <1>1, <1>2, <1>14 DEF ValueInOrder, Sized
    <2> QED  BY <1>1, <1>2, <1>3, <1>14, <2>1, DbpointerAppends DEF bson_append_value
  <1>15. CASE t = BSON_TYPE_CODE
    BY <1>1, <1>2, <1>3, <1>15, CodeAppends DEF bson_append_value
  <1>16. CASE t = BSON_TYPE_CODEWSCOPE
    <2>1. a \in {bson_append_code_with_scope(key, v.first, v.second), NotAppended}
      BY <1>1, <1>3, <1>16 DEF bson_append_value
    <2> QED  BY <1>2, <2>1, CodewscopeAppends, NothingAppends
  <1>17. CASE t = BSON_TYPE_TIMESTAMP
    <2>1. Sized(v.first, 4) /\ Sized(v.second, 4)
      BY <1>1, <1>2, <1>17 DEF ValueInOrder, Sized
    <2> QED  BY <1>1, <1>3, <1>17, <2>1, TimestampAppends DEF bson_append_value
  <1>18. CASE t \in {BSON_TYPE_UNDEFINED, BSON_TYPE_NULL, BSON_TYPE_MAXKEY, BSON_TYPE_MINKEY}
    <2>1. a \in {bson_append_undefined(key), bson_append_null(key), bson_append_maxkey(key),
                 bson_append_minkey(key)}
      BY <1>1, <1>3, <1>18 DEF bson_append_value
    <2> QED  BY <2>1, NothingAppends
  <1>19. CASE t = BSON_TYPE_BOOL
    BY <1>1, <1>3, <1>19, NothingAppends DEF bson_append_value
  <1>20. CASE t \notin {BSON_TYPE_DOUBLE, BSON_TYPE_UTF8, BSON_TYPE_DOCUMENT, BSON_TYPE_ARRAY,
                        BSON_TYPE_BINARY, BSON_TYPE_UNDEFINED, BSON_TYPE_OID, BSON_TYPE_BOOL,
                        BSON_TYPE_DATE_TIME, BSON_TYPE_NULL, BSON_TYPE_REGEX,
                        BSON_TYPE_DBPOINTER, BSON_TYPE_CODE, BSON_TYPE_SYMBOL,
                        BSON_TYPE_CODEWSCOPE, BSON_TYPE_INT32, BSON_TYPE_TIMESTAMP,
                        BSON_TYPE_INT64, BSON_TYPE_MAXKEY, BSON_TYPE_MINKEY}
    <2>1. a = NotAppended
      BY <1>1, <1>3, <1>20 DEF bson_append_value
    <2> QED  BY <2>1, NothingAppends
  <1> QED  BY <1>5, <1>6, <1>7, <1>8, <1>9, <1>10, <1>11, <1>12, <1>13, <1>14, <1>15, <1>16,
              <1>17, <1>18, <1>19, <1>20

\* The type of the value is the byte the iterator stands on.
LEMMA TypeOfValueIs ==
  ASSUME NEW it, OnPair(it)
  PROVE  bson_iter_value(it).value_type \in Nat
  <1>1. bson_iter_value(it).value_type = bson_iter_type(it)
    BY DEF bson_iter_value, Value
  <1>2. ValueAt(it.raw, it.d1, bson_iter_type(it), it.d2, it.d3, it.d4, it.next_off)
    BY DEF OnPair
  <1>3. it.raw \in Seq(Byte) /\ it.off \in Nat /\ it.off < Len(it.raw)
    BY <1>2 DEF OnPair, CanMove, ValueAt
  <1> QED  BY <1>1, <1>3, AtIs DEF bson_iter_type

\* A pair may be appended to another document.
LEMMA AppendIterIs ==
  ASSUME NEW key \in Seq(Byte), NEW it, OnPair(it)
  PROVE  AppendInOrder(bson_append_iter(key, it))
  BY IterValueIs, TypeOfValueIs, AppendValueIs DEF bson_append_iter

LEMMA KeyIs ==
  ASSUME NEW it, OnPair(it)
  PROVE  bson_iter_key(it) \in Seq(Byte)
  <1>1. ValueAt(it.raw, it.d1, bson_iter_type(it), it.d2, it.d3, it.d4, it.next_off)
    BY DEF OnPair
  <1>2. it.raw \in Seq(Byte) /\ it.off + 1 \in Nat /\ it.off + 1 <= Len(it.raw)
    BY <1>1 DEF OnPair, CanMove, ValueAt
  <1> QED  BY <1>2, CStringAtIs DEF bson_iter_key
-----------------------------------------------------------------------------
(* Walking a document.                                                     *)

\* The pairs of a walk, one more if there is one.
WalkStep(w) ==
  LET next == bson_iter_next(w[Len(w)])
  IN  IF next.raw = <<>> THEN w ELSE Append(w, next)

\* Where a walk over m can be: before the first pair, then on one pair after the other.
WalksOf(m) ==
  {w \in Seq({bson_iter_init(m)} \cup PairsOf(m)) :
     w # <<>> /\ \A i \in 2 .. Len(w) : w[i] \in PairsOf(m)}

LEMMA InitIs ==
  ASSUME NEW m \in Seq(Byte)
  PROVE  LET it == bson_iter_init(m)
         IN  it.raw \in {<<>>, m} /\ (it.raw = <<>> \/ CanMove(it))
  <1>1. CASE Len(m) < 5
    BY <1>1 DEF bson_iter_init, Null, Fresh
  <1>2. CASE Len(m) >= 5
    <2>1. PICK it : it = [raw |-> m, len |-> Len(m), off |-> 0, d1 |-> 0, d2 |-> 0, d3 |-> 0,
                          d4 |-> 0, next_off |-> 4, err_off |-> 0]
      OBVIOUS
    <2>2. bson_iter_init(m) = it
      BY <1>2, <2>1 DEF bson_iter_init, Fresh
    <2>3. it.raw = m /\ CanMove(it)
      BY <1>2, <2>1 DEF CanMove, IsIter
    <2> QED  BY <2>2, <2>3
  <1> QED  BY <1>1, <1>2

LEMMA WalkStepIs ==
  ASSUME NEW m \in Seq(Byte), NEW w \in WalksOf(m)
  PROVE  WalkStep(w) \in WalksOf(m)
  <1> DEFINE it0 == bson_iter_init(m)  P == PairsOf(m)
  <1>1. w \in Seq({it0} \cup P) /\ w # <<>> /\ \A i \in 2 .. Len(w) : w[i] \in P
    BY DEF WalksOf
  <1>2. PICK n \in Nat : n = Len(w) /\ n > 0
    BY <1>1
  <1>3. PICK x : x = w[n] /\ x \in {it0} \cup P
    BY <1>1, <1>2
  <1>4. x.raw \in {<<>>, m} /\ (x.raw = <<>> \/ CanMove(x))
    BY <1>3, InitIs DEF PairsOf, OnPair
  <1>5. PICK y : y = bson_iter_next(x)
    OBVIOUS
  <1>6. y.raw = <<>> \/ y \in P
    <2>1. CASE x.raw = <<>>
      BY <1>5, <2>1 DEF bson_iter_next
    <2>2. CASE x.raw = m /\ CanMove(x)
      BY <1>5, <2>2, NextIs
    <2> QED  BY <1>4, <2>1, <2>2
  <1>7. CASE y.raw = <<>>
    BY <1>2, <1>3, <1>5, <1>7 DEF WalkStep
  <1>8. CASE y.raw # <<>>
    <2>1. y \in P
      BY <1>6, <1>8
    <2>2. WalkStep(w) = Append(w, y)
      BY <1>2, <1>3, <1>5, <1>8 DEF WalkStep
    <2> HIDE DEF it0, P
    <2>3. PICK v : v = Append(w, y)
      OBVIOUS
    <2>4. /\ v \in Seq({it0} \cup P) /\ Len(v) = n + 1 /\ v[n + 1] = y
          /\ \A i \in 1 .. n : v[i] = w[i]
      BY <1>1, <1>2, <2>1, <2>3
    <2>5. v # <<>>
      BY <1>2, <2>4
    <2>6. ASSUME NEW i \in 2 .. Len(v) PROVE v[i] \in P
      <3>1. CASE i = n + 1
        BY <2>1, <2>4, <3>1
      <3>2. CASE i # n + 1
        <4>1. i \in 2 .. Len(w) /\ i \in 1 .. n
          BY <1>2, <2>4, <3>2
        <4> QED  BY <1>1, <2>4, <4>1
      <3> QED  BY <3>1, <3>2
    <2> QED  BY <2>2, <2>3, <2>4, <2>5, <2>6 DEF WalksOf, it0, P
  <1> QED  BY <1>7, <1>8

\* A walk over a document stands on a pair of it each time.
LEMMA WalkIs ==
  ASSUME NEW m \in Seq(Byte)
  PROVE  Walk(bson_iter_init(m)) \in Seq(PairsOf(m))
  <1> DEFINE it == bson_iter_init(m)
             n == Len(it.raw)
             S == WalksOf(m)
             Steps(r) == [i \in 0 .. n |-> IF i = 0 THEN <<it>> ELSE WalkStep(r[i - 1])]
             to == CHOOSE r : r = Steps(r)
             step == [i \in 1 .. n |-> [w \in S |-> WalkStep(w)]]
  <1>1. step \in StepsOn(S, n)
    BY WalkStepIs DEF StepsOn
  <1>2. n \in Nat /\ <<it>> \in S
    <2>1. it.raw \in Seq(Byte)
      BY InitIs, EmptyIs
    <2>2. PICK T : T = {it} \cup PairsOf(m) /\ it \in T
      OBVIOUS
    <2> HIDE DEF it
    <2>3. <<it>> \in Seq(T) /\ Len(<<it>>) = 1 /\ <<it>> # <<>>
      BY <2>2
    <2> QED  BY <2>1, <2>2, <2>3 DEF WalksOf, it
  <1>3. PICK r \in [0 .. n -> S] : r[0] = <<it>> /\ \A i \in 1 .. n : r[i] = step[i][r[i - 1]]
    <2> HIDE DEF step, n, S, it
    <2>1. Walks(S, n, <<it>>, step) # {}
      BY <1>1, <1>2, StepByStep
    <2> QED  BY <2>1 DEF Walks
  <1>4. r = Steps(r)
    <2> HIDE DEF S, it
    <2>1. ASSUME NEW i \in 1 .. n
          PROVE  r[i] = WalkStep(r[i - 1])
      <3>1. r[i - 1] \in S
        BY <1>2, <1>3
      <3>2. step[i] = [w \in S |-> WalkStep(w)]
        OBVIOUS
      <3>3. r[i] = step[i][r[i - 1]]
        BY <1>3
      <3> QED  BY <3>1, <3>2, <3>3
    <2>2. \A i \in 0 .. n : r[i] = Steps(r)[i]
      BY <1>2, <1>3, <2>1
    <2> QED  BY <2>2
  <1>5. to = Steps(to)
    <2> HIDE DEF Steps
    <2> QED  BY <1>4
  <1>6. Walk(it) = Tail(to[n \div 2])
    BY DEF Walk, WalkStep
  <1>7. to[0] = <<it>> /\ \A i \in 1 .. n : to[i] = WalkStep(to[i - 1])
    <2> HIDE DEF to, it, n
    <2> QED  BY <1>2, <1>5
  <1>8. 0 .. n \subseteq {i \in 0 .. n : to[i] \in S}
    <2> DEFINE T == {i \in 0 .. n : to[i] \in S}
    <2> HIDE DEF to, it, n, S
    <2>1. 0 \in T
      <3>1. to[0] = <<it>> /\ <<it>> \in S
        BY <1>2, <1>7, Zenon
      <3>2. to[0] \in S
        BY <3>1, Zenon
      <3>3. 0 \in 0 .. n
        BY <1>2
      <3> QED  BY <3>2, <3>3, Zenon
    <2>2. ASSUME NEW i \in 0 .. n - 1, i \in T PROVE i + 1 \in T
      <3>1. i + 1 \in 1 .. n /\ (i + 1) - 1 = i /\ i + 1 \in 0 .. n
        BY <1>2
      <3>2. to[i + 1] = WalkStep(to[i])
        BY <1>7, <3>1
      <3>3. WalkStep(to[i]) \in S
        BY <2>2, WalkStepIs DEF S
      <3> QED  BY <3>1, <3>2, <3>3
    <2> HIDE DEF T
    <2>3. 0 .. n \subseteq T
      BY <1>2, <2>1, <2>2, UpTo
    <2> QED  BY <2>3 DEF T
  <1>9. PICK w : w = to[n \div 2] /\ w \in S
    <2> HIDE DEF to, n, S
    <2>1. n \div 2 \in 0 .. n
      BY <1>2
    <2> QED  BY <1>8, <2>1
  <1>10. Tail(w) \in Seq(PairsOf(m))
    <2>1. PICK T : T = {it} \cup PairsOf(m)
      OBVIOUS
    <2>2. w \in Seq(T) /\ w # <<>> /\ \A i \in 2 .. Len(w) : w[i] \in PairsOf(m)
      BY <1>9, <2>1 DEF WalksOf
    <2> HIDE DEF it
    <2>3. PICK k \in Nat : k = Len(w) /\ k > 0
      BY <2>2
    <2>4. PICK v : v = Tail(w)
      OBVIOUS
    <2>5. v \in Seq(T) /\ Len(v) = k - 1 /\ \A i \in 1 .. k - 1 : v[i] = w[i + 1]
      BY <2>2, <2>3, <2>4
    <2>6. \A i \in 1 .. k - 1 : v[i] \in PairsOf(m)
      <3>1. \A i \in 1 .. k - 1 : i + 1 \in 2 .. Len(w)
        BY <2>3
      <3> QED  BY <2>2, <2>5, <3>1
    <2>7. v \in [1 .. k - 1 -> PairsOf(m)]
      BY <2>5, <2>6
    <2>8. k - 1 \in Nat
      BY <2>3
    <2> QED  BY <2>4, <2>7, <2>8, FunctionIsSeq
  <1> QED  BY <1>6, <1>9, <1>10

-----------------------------------------------------------------------------
(* Sequences of whatever kind.                                             *)

IsStack(s) == \E S : s \in Seq(S)

LEMMA WiderSeq ==
  ASSUME NEW S, NEW T, S \subseteq T, NEW s \in Seq(S)
  PROVE  s \in Seq(T)
  OBVIOUS

\* The last of a stack is replaced.
LEMMA Replaced ==
  ASSUME NEW s, IsStack(s), s # <<>>, NEW b
  PROVE  LET t == [s EXCEPT ![Len(s)] = b]
         IN  /\ IsStack(t) /\ Len(t) = Len(s) /\ t # <<>> /\ t[Len(s)] = b
             /\ \A i \in 1 .. Len(s) - 1 : t[i] = s[i]
  <1>1. PICK S : s \in Seq(S)
    BY DEF IsStack
  <1>2. PICK T : T = S \cup {b}
    OBVIOUS
  <1>3. s \in Seq(T)
    BY <1>1, <1>2, WiderSeq
  <1>4. PICK n \in Nat : n = Len(s) /\ n > 0
    BY <1>3
  <1>5. PICK t : t = [s EXCEPT ![n] = b]
    OBVIOUS
  <1>6. t \in Seq(T) /\ Len(t) = n /\ t[n] = b /\ \A i \in 1 .. n - 1 : t[i] = s[i]
    BY <1>2, <1>3, <1>4, <1>5
  <1>7. t # <<>>
    BY <1>4, <1>6
  <1> QED  BY <1>4, <1>5, <1>6, <1>7 DEF IsStack

\* The last of a stack is replaced, and one more is put on it.
PushedOn(s, b, c) == Append(SubSeq(s, 1, Len(s) - 1), b) \o <<c>>

LEMMA Pushed ==
  ASSUME NEW s, IsStack(s), s # <<>>, NEW b, NEW c
  PROVE  /\ IsStack(PushedOn(s, b, c)) /\ Len(PushedOn(s, b, c)) = Len(s) + 1
         /\ PushedOn(s, b, c) # <<>>
         /\ PushedOn(s, b, c)[Len(s)] = b /\ PushedOn(s, b, c)[Len(s) + 1] = c
         /\ \A i \in 1 .. Len(s) - 1 : PushedOn(s, b, c)[i] = s[i]
  <1>1. PICK S : s \in Seq(S)
    BY DEF IsStack
  <1>2. PICK T : T = S \cup {b, c}
    OBVIOUS
  <1>3. s \in Seq(T) /\ b \in T /\ c \in T
    BY <1>1, <1>2, WiderSeq
  <1>4. PICK n \in Nat : n = Len(s) /\ n > 0
    BY <1>3
  <1>5. PICK u : u = SubSeq(s, 1, n - 1)
    OBVIOUS
  <1>6. u \in Seq(T) /\ Len(u) = n - 1 /\ \A i \in 1 .. n - 1 : u[i] = s[i]
    BY <1>3, <1>4, <1>5
  <1>7. PICK v : v = Append(u, b)
    OBVIOUS
  <1>8. v \in Seq(T) /\ Len(v) = n /\ v[n] = b /\ \A i \in 1 .. n - 1 : v[i] = s[i]
    BY <1>3, <1>4, <1>6, <1>7
  <1>9. PICK t : t = v \o <<c>>
    OBVIOUS
  <1>10. <<c>> \in Seq(T) /\ Len(<<c>>) = 1
    BY <1>3
  <1>11. /\ t \in Seq(T) /\ Len(t) = n + 1 /\ t[n + 1] = c
         /\ \A i \in 1 .. n : t[i] = v[i]
    BY <1>8, <1>9, <1>10
  <1>12. n \in 1 .. n
    BY <1>4
  <1>13. t # <<>> /\ t[n] = b /\ \A i \in 1 .. n - 1 : t[i] = s[i]
    BY <1>8, <1>11, <1>12
  <1>14. t = PushedOn(s, b, c)
    BY <1>4, <1>5, <1>7, <1>9 DEF PushedOn
  <1> QED  BY <1>4, <1>11, <1>13, <1>14 DEF IsStack

\* The last of a stack is taken away, and the next one replaced.
\* A child ends in its parent, which becomes b.
PoppedOff(s, b) == Append(SubSeq(s, 1, Len(s) - 2), b)

LEMMA Popped ==
  ASSUME NEW s, IsStack(s), s # <<>>, Len(s) # 1, NEW b
  PROVE  /\ IsStack(PoppedOff(s, b)) /\ Len(PoppedOff(s, b)) = Len(s) - 1
         /\ PoppedOff(s, b) # <<>> /\ PoppedOff(s, b)[Len(s) - 1] = b
         /\ \A i \in 1 .. Len(s) - 2 : PoppedOff(s, b)[i] = s[i]
  <1>1. PICK S : s \in Seq(S)
    BY DEF IsStack
  <1>2. PICK T : T = S \cup {b}
    OBVIOUS
  <1>3. s \in Seq(T) /\ b \in T
    BY <1>1, <1>2, WiderSeq
  <1>4. PICK n \in Nat : n = Len(s) /\ n > 1
    <2>1. PICK n \in Nat : n = Len(s) /\ n > 0
      BY <1>3
    <2> QED  BY <2>1
  <1>5. PICK u : u = SubSeq(s, 1, n - 2)
    OBVIOUS
  <1>6. u \in Seq(T) /\ Len(u) = n - 2 /\ \A i \in 1 .. n - 2 : u[i] = s[i]
    BY <1>3, <1>4, <1>5
  <1>7. PICK t : t = Append(u, b)
    OBVIOUS
  <1>8. t \in Seq(T) /\ Len(t) = n - 1 /\ t[n - 1] = b /\ \A i \in 1 .. n - 2 : t[i] = s[i]
    BY <1>3, <1>4, <1>6, <1>7
  <1>9. t # <<>>
    BY <1>4, <1>8
  <1>10. t = PoppedOff(s, b)
    BY <1>4, <1>5, <1>7 DEF PoppedOff
  <1> QED  BY <1>4, <1>8, <1>9, <1>10 DEF IsStack

\* The length of a sequence is where its domain ends.
LEMMA LenIs ==
  ASSUME NEW n \in Nat, NEW f, f = [i \in 1 .. n |-> f[i]]
  PROVE  Len(f) = n
  <1>1. PICK S : S = {f[i] : i \in 1 .. n}
    OBVIOUS
  <1>2. f \in [1 .. n -> S]
    BY <1>1
  <1>3. f \in Seq(S)
    BY <1>2
  <1> QED  BY <1>2, <1>3
-----------------------------------------------------------------------------
(* The inductive invariant.                                                *)

\* A bson_t has the members of its structure.
IsBson(b) == b = [flags |-> b.flags, len |-> b.len, offset |-> b.offset, depth |-> b.depth]

\* A bson_t and the children that are open in it: a child is never INLINE.
StackInOrder(o) ==
  /\ IsStack(o)
  /\ \A i \in 1 .. Len(o) : IsBson(o[i]) /\ (i > 1 => INLINE \notin o[i].flags)

OfSize(m, n) == m = [i \in 1 .. n |-> m[i]]

\* A bson_t that is INLINE has no child, holds its bytes, and owns them.
InlineInOrder(o, m) ==
  o # <<>> /\ INLINE \in o[1].flags =>
    Len(o) = 1 /\ OfSize(m, InlineCap) /\ {RDONLY, NO_FREE} \cap o[1].flags = {}

\* The flags of the root say which blocks there are.
BlocksInOrder(o, h, d) ==
  /\ <<d, "struct">> \in h <=> o # <<>> /\ STATIC \notin o[1].flags
  /\ <<d, "block">> \in h <=> o # <<>> /\ {INLINE, RDONLY, NO_FREE} \cap o[1].flags = {}
  /\ o # <<>> => (<<d, "caller">> \in h <=> NO_FREE \in o[1].flags)

BlocksOf(d) == {<<d, "struct">>, <<d, "block">>, <<d, "caller">>}
KeptBlocks == {<<"kept", "first">>, <<"kept", "second">>}

KeptInOrder(h, k) ==
  \A f \in {"first", "second"} : <<"kept", f>> \in h <=> f \in CopiedMembers(k.value_type)

DocInOrder(o, m, h, d) == StackInOrder(o) /\ InlineInOrder(o, m) /\ BlocksInOrder(o, h, d)

HInv ==
  /\ open = [d \in Docs |-> open[d]] /\ mem = [d \in Docs |-> mem[d]]
  /\ \A d \in Docs : DocInOrder(open[d], mem[d], heap, d)
  /\ KeptInOrder(heap, kept)
  /\ \A x \in heap : x \in KeptBlocks \/ \E d \in Docs : x \in BlocksOf(d)

\* What a step does to one document leaves the others, and the value that is kept.
LEMMA OneDoc ==
  ASSUME HInv, NEW d \in Docs, NEW o, NEW m,
         open' = [open EXCEPT ![d] = o], mem' = [mem EXCEPT ![d] = m], kept' = kept,
         \A x : x \notin BlocksOf(d) => (x \in heap' <=> x \in heap),
         DocInOrder(o, m, heap', d)
  PROVE  HInv'
  <1>1. open' = [e \in Docs |-> open'[e]] /\ mem' = [e \in Docs |-> mem'[e]]
    BY DEF HInv
  <1>2. ASSUME NEW e \in Docs PROVE DocInOrder(open'[e], mem'[e], heap', e)
    <2>1. CASE e = d
      BY <2>1 DEF HInv
    <2>2. CASE e # d
      <3>1. open'[e] = open[e] /\ mem'[e] = mem[e]
        BY <2>2 DEF HInv
      <3>2. \A f : <<e, f>> \notin BlocksOf(d)
        BY <2>2 DEF BlocksOf
      <3>3. \A f : <<e, f>> \in heap' <=> <<e, f>> \in heap
        BY <3>2
      <3>4. DocInOrder(open[e], mem[e], heap, e)
        BY DEF HInv
      <3> QED  BY <3>1, <3>3, <3>4 DEF DocInOrder, BlocksInOrder
    <2> QED  BY <2>1, <2>2
  <1>3. KeptInOrder(heap', kept')
    <2>1. \A f \in {"first", "second"} : <<"kept", f>> \notin BlocksOf(d)
      BY DEF BlocksOf
    <2> QED  BY <2>1 DEF HInv, KeptInOrder
  <1>4. \A x \in heap' : x \in KeptBlocks \/ \E e \in Docs : x \in BlocksOf(e)
    BY DEF HInv
  <1> QED  BY <1>1, <1>2, <1>3, <1>4 DEF HInv

LEMMA OneOnStack ==
  ASSUME NEW b
  PROVE  IsStack(<<b>>) /\ Len(<<b>>) = 1 /\ <<b>> # <<>> /\ <<b>>[1] = b
  <1>1. PICK S : S = {b}
    OBVIOUS
  <1>2. <<b>> \in Seq(S)
    BY <1>1
  <1> QED  BY <1>2 DEF IsStack

\* A document begins with the blocks its flags say.
LEMMA BecomesKeeps ==
  ASSUME HInv, NEW d \in Docs, NEW b, NEW m, NEW bytes, NEW new,
         Becomes(d, b, m, bytes, new), IsBson(b),
         INLINE \in b.flags => OfSize(m, InlineCap) /\ {RDONLY, NO_FREE} \cap b.flags = {},
         new \subseteq BlocksOf(d),
         <<d, "struct">> \in new <=> STATIC \notin b.flags,
         <<d, "block">> \in new <=> {INLINE, RDONLY, NO_FREE} \cap b.flags = {},
         <<d, "caller">> \in new <=> NO_FREE \in b.flags
  PROVE  HInv'
  <1>1. PICK w : w = Written(m, 0, bytes)
    OBVIOUS
  <1>2. open' = [open EXCEPT ![d] = <<b>>] /\ mem' = [mem EXCEPT ![d] = w] /\ kept' = kept
    BY <1>1 DEF Becomes
  <1>3. open[d] = <<>> /\ <<d, "caller">> \notin heap /\ heap' = heap \cup new
    BY DEF Becomes, Live
  <1>4. <<d, "struct">> \notin heap /\ <<d, "block">> \notin heap
    BY <1>3 DEF HInv, DocInOrder, BlocksInOrder
  <1>5. \A x : x \notin BlocksOf(d) => (x \in heap' <=> x \in heap)
    BY <1>3
  <1>6. INLINE \in b.flags => OfSize(w, InlineCap)
    BY <1>1, Zenon DEF Written, OfSize
  <1>7. StackInOrder(<<b>>)
    BY OneOnStack DEF StackInOrder
  <1>8. InlineInOrder(<<b>>, w)
    BY <1>6, OneOnStack DEF InlineInOrder
  <1>9. BlocksInOrder(<<b>>, heap', d)
    BY <1>3, <1>4, OneOnStack DEF BlocksInOrder
  <1> QED  BY <1>2, <1>5, <1>7, <1>8, <1>9, OneDoc DEF DocInOrder
\* The innermost document is written to, and has the flags it had, or has moved out
\* of its bson_t into a block.
LEMMA WrittenKeeps ==
  ASSUME HInv, NEW d \in Docs, Live(d), NEW b, IsBson(b), NEW m,
         open' = [open EXCEPT ![d] = [open[d] EXCEPT ![Len(open[d])] = b]],
         mem' = [mem EXCEPT ![d] = m], kept' = kept,
         \/ /\ b.flags = Innermost(d).flags /\ heap' = heap
            /\ INLINE \in b.flags => OfSize(m, InlineCap)
         \/ /\ INLINE \in Innermost(d).flags /\ b.flags = Innermost(d).flags \ {INLINE}
            /\ heap' = heap \cup {<<d, "block">>}
  PROVE  HInv'
  <1>1. DocInOrder(open[d], mem[d], heap, d)
    BY DEF HInv
  <1>2. PICK s : s = open[d]
    OBVIOUS
  <1>3. IsStack(s) /\ s # <<>>
    BY <1>1, <1>2 DEF Live, DocInOrder, StackInOrder
  <1>4. PICK n \in Nat : n = Len(s) /\ n > 0
    <2>1. PICK S : s \in Seq(S)
      BY <1>3 DEF IsStack
    <2> QED  BY <1>3, <2>1
  <1>5. PICK t : t = [s EXCEPT ![Len(s)] = b]
    OBVIOUS
  <1>6. /\ IsStack(t) /\ Len(t) = n /\ t # <<>> /\ t[n] = b
        /\ \A i \in 1 .. n - 1 : t[i] = s[i]
    <2>1. LET u == [s EXCEPT ![Len(s)] = b]
          IN  /\ IsStack(u) /\ Len(u) = Len(s) /\ u # <<>> /\ u[Len(s)] = b
              /\ \A i \in 1 .. Len(s) - 1 : u[i] = s[i]
      BY <1>3, Replaced, Zenon
    <2> QED  BY <1>4, <1>5, <2>1
  <1>7. \A i \in 1 .. n : IsBson(s[i]) /\ (i > 1 => INLINE \notin s[i].flags)
    BY <1>1, <1>2, <1>4 DEF DocInOrder, StackInOrder
  <1>8. s[n] = Innermost(d)
    BY <1>2, <1>4 DEF Innermost
  <1>9. INLINE \in b.flags => INLINE \in s[n].flags
    BY <1>8
  <1>10. StackInOrder(t)
    <2>1. ASSUME NEW i \in 1 .. n PROVE IsBson(t[i]) /\ (i > 1 => INLINE \notin t[i].flags)
      <3>1. CASE i = n
        BY <1>6, <1>7, <1>9, <3>1
      <3>2. CASE i # n
        <4>1. i \in 1 .. n - 1
          BY <1>4, <3>2
        <4> QED  BY <1>6, <1>7, <4>1
      <3> QED  BY <3>1, <3>2
    <2> QED  BY <1>6, <2>1 DEF StackInOrder
  <1>11. n # 1 => t[1] = s[1] /\ INLINE \notin s[n].flags
    <2>1. n # 1 => 1 \in 1 .. n - 1 /\ n \in 1 .. n /\ n > 1
      BY <1>4
    <2> QED  BY <1>6, <1>7, <2>1
  <1>12. InlineInOrder(s, mem[d]) /\ BlocksInOrder(s, heap, d)
    BY <1>1, <1>2 DEF DocInOrder
  <1>13. InlineInOrder(t, m)
    <2>1. CASE n = 1
      BY <1>3, <1>4, <1>6, <1>8, <1>12, <2>1 DEF InlineInOrder
    <2>2. CASE n # 1
      <3>1. INLINE \notin t[1].flags
        BY <1>3, <1>4, <1>11, <1>12, <2>2 DEF InlineInOrder
      <3> QED  BY <3>1 DEF InlineInOrder
    <2> QED  BY <2>1, <2>2
  <1>14. BlocksInOrder(t, heap', d)
    <2>1. CASE n = 1 /\ b.flags = s[n].flags /\ heap' = heap
      BY <1>3, <1>6, <1>12, <2>1 DEF BlocksInOrder
    <2>2. CASE n = 1 /\ INLINE \in s[n].flags /\ b.flags = s[n].flags \ {INLINE}
                /\ heap' = heap \cup {<<d, "block">>}
      <3>1. {RDONLY, NO_FREE} \cap s[1].flags = {}
        BY <1>3, <1>12, <2>2 DEF InlineInOrder
      <3>2. {INLINE, RDONLY, NO_FREE} \cap t[1].flags = {}
        BY <1>6, <2>2, <3>1
      <3>3. STATIC \in t[1].flags <=> STATIC \in s[1].flags
        BY <1>6, <2>2 DEF STATIC, INLINE
      <3>4. NO_FREE \in t[1].flags <=> NO_FREE \in s[1].flags
        BY <1>6, <2>2 DEF NO_FREE, INLINE
      <3> QED  BY <1>3, <1>6, <1>12, <2>2, <3>2, <3>3, <3>4 DEF BlocksInOrder
    <2>3. CASE n # 1
      <3>1. heap' = heap /\ t[1] = s[1]
        BY <1>8, <1>11, <2>3
      <3> QED  BY <1>3, <1>6, <1>12, <3>1 DEF BlocksInOrder
    <2> QED  BY <1>8, <2>1, <2>2, <2>3
  <1>15. \A x : x \notin BlocksOf(d) => (x \in heap' <=> x \in heap)
    BY DEF BlocksOf
  <1>16. open' = [open EXCEPT ![d] = t]
    BY <1>2, <1>5
  <1> QED  BY <1>10, <1>13, <1>14, <1>15, <1>16, OneDoc DEF DocInOrder

\* What a document that grows has afterwards: it is as it was or has moved out.
GrownTo(d, b, m, b2, new) ==
  /\ IsBson(b2)
  /\ \/ /\ b2.flags = b.flags /\ new = {}
        /\ INLINE \in b.flags => OfSize(m, InlineCap)
     \/ INLINE \in b.flags /\ b2.flags = b.flags \ {INLINE} /\ new = {<<d, "block">>}

LEMMA OutgrownKeeps ==
  ASSUME SizesAssumption, NEW d, NEW b, IsBson(b), NEW m0, NEW n, NEW m,
         INLINE \in b.flags => OfSize(m0, InlineCap) /\ m \in inline_grow(m0, b, n)
  PROVE  GrownTo(d, b, m, Outgrown(b, m), NewBlock(d, b, m))
  <1>1. CASE INLINE \notin b.flags
    BY <1>1 DEF GrownTo, Outgrown, NewBlock
  <1>2. CASE INLINE \in b.flags /\ m = m0
    <2>1. Len(m) = InlineCap
      BY <1>2, LenIs, SizesAssumption DEF OfSize
    <2> QED  BY <1>2, <2>1 DEF GrownTo, Outgrown, NewBlock
  <1>3. CASE INLINE \in b.flags /\ m # m0
    <2>1. PICK p \in BlockFor(b.len + n) : m = Written(Malloc(p), 0, Slice(m0, 0, b.len))
      BY <1>3 DEF inline_grow
    <2>2. p \in Powers
      BY DEF BlockFor, bson_next_power_of_two
    <2>3. p \in Nat /\ p # InlineCap
      BY <2>2, SizesAssumption DEF Powers
    <2>4. OfSize(m, p)
      BY <2>1, Zenon DEF OfSize, Written, Malloc
    <2>5. Len(m) = p
      BY <2>3, <2>4, LenIs DEF OfSize
    <2>6. Outgrown(b, m) = [b EXCEPT !.flags = b.flags \ {INLINE}]
      BY <1>3, <2>3, <2>5 DEF Outgrown
    <2>7. NewBlock(d, b, m) = {<<d, "block">>}
      BY <1>3, <2>3, <2>5 DEF NewBlock
    <2>8. PICK f : f = b.flags \ {INLINE}
      OBVIOUS
    <2>9. PICK c : c = [b EXCEPT !.flags = f]
      OBVIOUS
    <2>10. IsBson(c) /\ c.flags = f
      BY <2>9 DEF IsBson
    <2> QED  BY <1>3, <2>6, <2>7, <2>8, <2>9, <2>10 DEF GrownTo
  <1> QED  BY <1>1, <1>2, <1>3

\* Writing leaves a memory its size.
LEMMA SizeStays ==
  ASSUME NEW n, NEW m, OfSize(m, n), NEW o, NEW bytes
  PROVE  OfSize(Written(m, o, bytes), n)
  BY Zenon DEF OfSize, Written
LEMMA InnermostIs ==
  ASSUME HInv, NEW d \in Docs, Live(d)
  PROVE  /\ IsBson(Innermost(d))
         /\ INLINE \in Innermost(d).flags => OfSize(mem[d], InlineCap)
  <1>1. PICK s : s = open[d]
    OBVIOUS
  <1>2. StackInOrder(s) /\ InlineInOrder(s, mem[d]) /\ s # <<>>
    BY <1>1 DEF HInv, DocInOrder, Live
  <1>3. PICK n \in Nat : n = Len(s) /\ n > 0
    <2>1. PICK S : s \in Seq(S)
      BY <1>2 DEF StackInOrder, IsStack
    <2> QED  BY <1>2, <2>1
  <1>4. n \in 1 .. n /\ s[n] = Innermost(d)
    BY <1>1, <1>3 DEF Innermost
  <1>5. IsBson(s[n]) /\ (n > 1 => INLINE \notin s[n].flags)
    BY <1>2, <1>3, <1>4 DEF StackInOrder
  <1>6. INLINE \in s[n].flags => n = 1
    BY <1>3, <1>5
  <1>7. INLINE \in s[n].flags => OfSize(mem[d], InlineCap)
    BY <1>2, <1>6 DEF InlineInOrder
  <1> QED  BY <1>4, <1>5, <1>7

LEMMA GrownKeeps ==
  ASSUME HInv, NEW d \in Docs, Live(d), NEW b, NEW m, NEW new,
         open' = [open EXCEPT ![d] = [open[d] EXCEPT ![Len(open[d])] = b]],
         mem' = [mem EXCEPT ![d] = m], kept' = kept, heap' = heap \cup new,
         GrownTo(d, Innermost(d), m, b, new)
  PROVE  HInv'
  <1>1. IsBson(b)
    BY DEF GrownTo
  <1>2. \/ /\ b.flags = Innermost(d).flags /\ heap' = heap
           /\ INLINE \in b.flags => OfSize(m, InlineCap)
        \/ /\ INLINE \in Innermost(d).flags /\ b.flags = Innermost(d).flags \ {INLINE}
           /\ heap' = heap \cup {<<d, "block">>}
    BY DEF GrownTo
  <1> QED  BY <1>1, <1>2, WrittenKeeps

\* The flags do not depend on the length.
LEMMA OtherLength ==
  ASSUME NEW d, NEW b, NEW m, NEW b2, NEW new, GrownTo(d, b, m, b2, new),
         NEW l, NEW m2, \A n : OfSize(m, n) => OfSize(m2, n)
  PROVE  GrownTo(d, b, m2, [b2 EXCEPT !.len = l], new)
  <1>1. PICK c : c = [b2 EXCEPT !.len = l]
    OBVIOUS
  <1>2. IsBson(c) /\ c.flags = b2.flags
    BY <1>1 DEF GrownTo, IsBson
  <1>3. GrownTo(d, b, m2, c, new)
    BY <1>2 DEF GrownTo
  <1> QED  BY <1>1, <1>3

LEMMA TakesKeeps ==
  ASSUME SizesAssumption, HInv, NEW d \in Docs, NEW n, NEW bytes, Takes(d, n, bytes)
  PROVE  HInv'
  <1>1. PICK b : b = Innermost(d)
    OBVIOUS
  <1>2. Live(d)
    BY DEF Takes, IsWritable
  <1>3. PICK m \in bson_grow(mem[d], b, n) :
          /\ open' = ReplaceInnermost(d, [Outgrown(b, m) EXCEPT !.len = @ + Len(bytes)])
          /\ mem' = [mem EXCEPT ![d] = Appended(m, b, bytes)]
          /\ heap' = heap \cup NewBlock(d, b, m)
    BY <1>1 DEF Takes
  <1>4. IsBson(b) /\ (INLINE \in b.flags => OfSize(mem[d], InlineCap))
    BY <1>1, <1>2, InnermostIs
  <1>5. GrownTo(d, b, m, Outgrown(b, m), NewBlock(d, b, m))
    BY <1>3, <1>4, OutgrownKeeps DEF bson_grow
  <1>6. \A k : OfSize(m, k) => OfSize(Appended(m, b, bytes), k)
    BY SizeStays, Zenon DEF Appended
  <1>7. PICK b2 : b2 = [Outgrown(b, m) EXCEPT !.len = @ + Len(bytes)]
    OBVIOUS
  <1>8. PICK m2 : m2 = Appended(m, b, bytes)
    OBVIOUS
  <1>9. GrownTo(d, b, m2, b2, NewBlock(d, b, m))
    BY <1>5, <1>6, <1>7, <1>8, OtherLength
  <1>10. open' = [open EXCEPT ![d] = [open[d] EXCEPT ![Len(open[d])] = b2]]
    BY <1>3, <1>7 DEF ReplaceInnermost
  <1>11. kept' = kept
    BY DEF Takes
  <1> QED  BY <1>1, <1>2, <1>3, <1>8, <1>9, <1>10, <1>11, GrownKeeps

LEMMA BeginFailsKeeps ==
  ASSUME SizesAssumption, HInv, NEW d \in Docs, NEW key, bson_append_begin_fails(d, key)
  PROVE  HInv'
  <1>1. PICK b : b = Innermost(d)
    OBVIOUS
  <1>2. Live(d)
    BY DEF bson_append_begin_fails, IsWritable
  <1>3. PICK m \in MovedOut(d) :
          /\ open' = ReplaceInnermost(d, Outgrown(b, m))
          /\ mem' = [mem EXCEPT ![d] = m]
          /\ heap' = heap \cup NewBlock(d, b, m)
    BY <1>1 DEF bson_append_begin_fails
  <1>4. IsBson(b) /\ (INLINE \in b.flags => OfSize(mem[d], InlineCap))
    BY <1>1, <1>2, InnermostIs
  <1>5. INLINE \in b.flags => m \in inline_grow(mem[d], b, StructSize - b.len)
    BY <1>1, <1>3 DEF MovedOut
  <1>6. GrownTo(d, b, m, Outgrown(b, m), NewBlock(d, b, m))
    BY <1>4, <1>5, OutgrownKeeps
  <1>7. PICK b2 : b2 = Outgrown(b, m)
    OBVIOUS
  <1>8. open' = [open EXCEPT ![d] = [open[d] EXCEPT ![Len(open[d])] = b2]]
    BY <1>3, <1>7 DEF ReplaceInnermost
  <1>9. kept' = kept
    BY DEF bson_append_begin_fails
  <1> QED  BY <1>1, <1>2, <1>3, <1>6, <1>7, <1>8, <1>9, GrownKeeps

LEMMA ReinitKeeps ==
  ASSUME HInv, NEW d \in Docs, bson_reinit(d)
  PROVE  HInv'
  <1>1. PICK b : b = Innermost(d)
    OBVIOUS
  <1>2. PICK m : m = Written(Malloc(Len(mem[d])), 0, Slice(mem[d], 0, Innermost(d).offset) \o Five)
    OBVIOUS
  <1>3. Live(d) /\ kept' = kept /\ heap' = heap
    BY DEF bson_reinit, IsWritable
  <1>4. IsBson(b) /\ (INLINE \in b.flags => OfSize(mem[d], InlineCap))
    BY <1>1, <1>3, InnermostIs
  <1>5. mem' = [mem EXCEPT ![d] = m]
    BY <1>2 DEF bson_reinit
  <1>6. PICK b2 : b2 = [b EXCEPT !.len = 5]
    OBVIOUS
  <1>7. open' = [open EXCEPT ![d] = [open[d] EXCEPT ![Len(open[d])] = b2]]
    BY <1>1, <1>6 DEF bson_reinit, ReplaceInnermost
  <1>8. IsBson(b2) /\ b2.flags = b.flags
    BY <1>4, <1>6 DEF IsBson
  <1>9. OfSize(m, Len(mem[d]))
    BY <1>2, Zenon DEF OfSize, Written, Malloc
  <1>10. ASSUME INLINE \in b2.flags PROVE OfSize(m, InlineCap)
    <2>1. OfSize(mem[d], InlineCap) /\ InlineCap \in Nat
      BY <1>4, <1>8, <1>10, SizesAssumption
    <2>2. Len(mem[d]) = InlineCap
      BY <2>1, LenIs DEF OfSize
    <2> QED  BY <1>9, <2>2
  <1> QED  BY <1>1, <1>3, <1>5, <1>7, <1>8, <1>10, WrittenKeeps
\* The blocks depend on four flags of the root only.
LEMMA RootBlocks ==
  ASSUME NEW s, s # <<>>, NEW m, InlineInOrder(s, m),
         NEW h, NEW d, BlocksInOrder(s, h, d), NEW t, t # <<>>, NEW new,
         \A f \in {STATIC, RDONLY, NO_FREE} : f \in t[1].flags <=> f \in s[1].flags,
         \/ new = {} /\ (INLINE \in t[1].flags <=> INLINE \in s[1].flags)
         \/ new = {<<d, "block">>} /\ INLINE \in s[1].flags /\ INLINE \notin t[1].flags
  PROVE  BlocksInOrder(t, h \cup new, d)
  <1>1. CASE new = {} /\ (INLINE \in t[1].flags <=> INLINE \in s[1].flags)
    <2>1. {INLINE, RDONLY, NO_FREE} \cap t[1].flags = {} <=>
            {INLINE, RDONLY, NO_FREE} \cap s[1].flags = {}
      BY <1>1
    <2> QED  BY <1>1, <2>1 DEF BlocksInOrder
  <1>2. CASE new = {<<d, "block">>} /\ INLINE \in s[1].flags /\ INLINE \notin t[1].flags
    <2>1. {RDONLY, NO_FREE} \cap s[1].flags = {}
      BY <1>2 DEF InlineInOrder
    <2>2. {INLINE, RDONLY, NO_FREE} \cap t[1].flags = {}
      BY <1>2, <2>1
    <2> QED  BY <1>2, <2>2 DEF BlocksInOrder
  <1> QED  BY <1>1, <1>2

LEMMA MovedOutIsNotInline ==
  ASSUME HInv, NEW d \in Docs, Live(d), NEW b, b = Innermost(d), NEW m \in MovedOut(d)
  PROVE  INLINE \notin Outgrown(b, m).flags
  <1>1. IsBson(b)
    BY InnermostIs
  <1>2. CASE INLINE \in b.flags
    <2>1. Len(m) # InlineCap
      BY <1>2 DEF MovedOut
    <2>2. Outgrown(b, m) = [b EXCEPT !.flags = b.flags \ {INLINE}]
      BY <1>2, <2>1 DEF Outgrown
    <2>3. PICK f : f = b.flags \ {INLINE}
      OBVIOUS
    <2>4. [b EXCEPT !.flags = f].flags = f
      BY <1>1 DEF IsBson
    <2> QED  BY <2>2, <2>3, <2>4
  <1>3. CASE INLINE \notin b.flags
    BY <1>3 DEF Outgrown
  <1> QED  BY <1>2, <1>3

LEMMA BeginKeeps ==
  ASSUME SizesAssumption, HInv, NEW d \in Docs, NEW t, NEW key, bson_append_begin(d, t, key)
  PROVE  HInv'
  <1> DEFINE n == 1 + Len(key) + 1 + 5
  <1>1. PICK b : b = Innermost(d)
    OBVIOUS
  <1>2. Live(d) /\ kept' = kept
    BY DEF bson_append_begin, IsWritable
  <1>3. PICK m0 \in MovedOut(d) : \E m \in alloc_grow(m0, Outgrown(b, m0), n) :
          LET parent == [Outgrown(b, m0) EXCEPT !.len = @ + n, !.flags = @ \cup {IN_CHILD}]
          IN  /\ open' = [open EXCEPT ![d] =
                   Append(SubSeq(@, 1, Len(@) - 1), parent) \o <<ChildOf(parent)>>]
              /\ mem' = [mem EXCEPT ![d] = Appended(m, Outgrown(b, m0), BeginBytes(t, key))]
              /\ heap' = heap \cup NewBlock(d, b, m0)
    BY <1>1 DEF bson_append_begin
  <1>4. PICK b0 : b0 = Outgrown(b, m0)
    OBVIOUS
  <1>5. PICK p : p = [b0 EXCEPT !.len = @ + n, !.flags = @ \cup {IN_CHILD}]
    OBVIOUS
  <1>6. PICK m : /\ open' = [open EXCEPT ![d] =
                      Append(SubSeq(open[d], 1, Len(open[d]) - 1), p) \o <<ChildOf(p)>>]
                 /\ mem' = [mem EXCEPT ![d] = m]
                 /\ heap' = heap \cup NewBlock(d, b, m0)
    BY <1>3, <1>4, <1>5
  <1>7. IsBson(b) /\ (INLINE \in b.flags => OfSize(mem[d], InlineCap))
    BY <1>1, <1>2, InnermostIs
  <1>8. INLINE \in b.flags => m0 \in inline_grow(mem[d], b, StructSize - b.len)
    BY <1>1, <1>3 DEF MovedOut
  <1>9. GrownTo(d, b, m0, b0, NewBlock(d, b, m0))
    BY <1>4, <1>7, <1>8, OutgrownKeeps
  <1>10. INLINE \notin b0.flags
    BY <1>1, <1>2, <1>3, <1>4, MovedOutIsNotInline
  <1>11. PICK c : c = ChildOf(p)
    OBVIOUS
  <1>12. IsBson(p) /\ p.flags = b0.flags \cup {IN_CHILD}
    BY <1>5, <1>9 DEF GrownTo, IsBson
  <1>13. IsBson(c) /\ INLINE \notin c.flags
    BY <1>11 DEF IsBson, ChildOf, INLINE, CHILD, NO_FREE, STATIC
  <1>14. INLINE \notin p.flags
    BY <1>10, <1>12 DEF INLINE, IN_CHILD
  <1>15. PICK s : s = open[d]
    OBVIOUS
  <1>16. StackInOrder(s) /\ InlineInOrder(s, mem[d]) /\ BlocksInOrder(s, heap, d) /\ s # <<>>
    BY <1>2, <1>15 DEF HInv, DocInOrder, Live
  <1>17. PICK k \in Nat : k = Len(s) /\ k > 0
    <2>1. PICK S : s \in Seq(S)
      BY <1>16 DEF StackInOrder, IsStack
    <2> QED  BY <1>16, <2>1
  <1>18. PICK u : u = Append(SubSeq(s, 1, Len(s) - 1), p) \o <<c>>
    OBVIOUS
  <1>19. /\ IsStack(u) /\ Len(u) = Len(s) + 1 /\ u # <<>>
         /\ u[Len(s)] = p /\ u[Len(s) + 1] = c
         /\ \A i \in 1 .. Len(s) - 1 : u[i] = s[i]
    <2>1. IsStack(s) /\ s # <<>>
      BY <1>16 DEF StackInOrder
    <2>2. u = PushedOn(s, p, c)
      BY <1>18 DEF PushedOn
    <2> QED  BY <2>1, <2>2, Pushed
  <1>20. /\ Len(u) = k + 1 /\ u[k] = p /\ u[k + 1] = c
         /\ \A i \in 1 .. k - 1 : u[i] = s[i]
    BY <1>17, <1>19
  <1>21. \A i \in 1 .. k : IsBson(s[i]) /\ (i > 1 => INLINE \notin s[i].flags)
    BY <1>16, <1>17 DEF StackInOrder
  <1>22. StackInOrder(u)
    <2>1. ASSUME NEW i \in 1 .. k + 1 PROVE IsBson(u[i]) /\ (i > 1 => INLINE \notin u[i].flags)
      <3>1. CASE i = k + 1
        BY <1>13, <1>20, <3>1
      <3>2. CASE i = k
        BY <1>12, <1>14, <1>20, <3>2
      <3>3. CASE i # k /\ i # k + 1
        <4>1. i \in 1 .. k - 1 /\ i \in 1 .. k
          BY <1>17, <3>3
        <4> QED  BY <1>20, <1>21, <4>1
      <3> QED  BY <3>1, <3>2, <3>3
    <2> QED  BY <1>19, <1>20, <2>1 DEF StackInOrder
  <1>23. s[k] = b
    BY <1>1, <1>15, <1>17 DEF Innermost
  <1>24. CASE k = 1
    <2>1. u[1] = p /\ s[1] = b
      BY <1>20, <1>23, <1>24
    <2>2. \A f \in {STATIC, RDONLY, NO_FREE} : f \in p.flags <=> f \in b.flags
      BY <1>9, <1>12 DEF GrownTo, STATIC, RDONLY, NO_FREE, INLINE, IN_CHILD
    <2>3. \/ NewBlock(d, b, m0) = {} /\ (INLINE \in p.flags <=> INLINE \in b.flags)
          \/ /\ NewBlock(d, b, m0) = {<<d, "block">>}
             /\ INLINE \in b.flags /\ INLINE \notin p.flags
      BY <1>9, <1>10, <1>14 DEF GrownTo
    <2>4. BlocksInOrder(u, heap \cup NewBlock(d, b, m0), d)
      <3>1. PICK new : new = NewBlock(d, b, m0)
        OBVIOUS
      <3>2. \A f \in {STATIC, RDONLY, NO_FREE} : f \in u[1].flags <=> f \in s[1].flags
        BY <2>1, <2>2
      <3>3. \/ new = {} /\ (INLINE \in u[1].flags <=> INLINE \in s[1].flags)
            \/ new = {<<d, "block">>} /\ INLINE \in s[1].flags /\ INLINE \notin u[1].flags
        BY <2>1, <2>3, <3>1
      <3>4. BlocksInOrder(u, heap \cup new, d)
        BY <1>16, <1>19, <3>2, <3>3, RootBlocks, Zenon
      <3> QED  BY <3>1, <3>4
    <2>5. InlineInOrder(u, m)
      BY <1>14, <2>1 DEF InlineInOrder
    <2>6. \A x : x \notin BlocksOf(d) => (x \in heap' <=> x \in heap)
      BY <1>6, <2>3 DEF BlocksOf
    <2> QED  BY <1>2, <1>6, <1>11, <1>15, <1>18, <1>22, <2>4, <2>5, <2>6, OneDoc DEF DocInOrder
  <1>25. CASE k # 1
    <2>1. 1 \in 1 .. k - 1 /\ k > 1 /\ k \in 1 .. k
      BY <1>17, <1>25
    <2>2. u[1] = s[1] /\ INLINE \notin b.flags
      BY <1>20, <1>21, <1>23, <2>1
    <2>3. INLINE \notin s[1].flags
      BY <1>16, <1>17, <2>1 DEF InlineInOrder
    <2>4. NewBlock(d, b, m0) = {}
      BY <2>2 DEF NewBlock
    <2>5. heap' = heap
      BY <1>6, <2>4
    <2>6. BlocksInOrder(u, heap', d)
      BY <1>16, <1>19, <2>2, <2>5 DEF BlocksInOrder
    <2>7. InlineInOrder(u, m)
      BY <2>2, <2>3 DEF InlineInOrder
    <2> QED  BY <1>2, <1>6, <1>11, <1>15, <1>18, <1>22, <2>5, <2>6, <2>7, OneDoc DEF DocInOrder
  <1> QED  BY <1>24, <1>25

LEMMA EndKeeps ==
  ASSUME HInv, NEW d \in Docs, bson_append_end(d)
  PROVE  HInv'
  <1>1. PICK s : s = open[d]
    OBVIOUS
  <1>2. Live(d) /\ Len(s) # 1 /\ kept' = kept /\ heap' = heap
    BY <1>1 DEF bson_append_end, Closed
  <1>3. StackInOrder(s) /\ InlineInOrder(s, mem[d]) /\ BlocksInOrder(s, heap, d) /\ s # <<>>
    BY <1>1, <1>2 DEF HInv, DocInOrder, Live
  <1>4. PICK k \in Nat : k = Len(s) /\ k > 1
    <2>1. PICK S : s \in Seq(S)
      BY <1>3 DEF StackInOrder, IsStack
    <2>2. PICK k \in Nat : k = Len(s) /\ k > 0
      BY <1>3, <2>1
    <2> QED  BY <1>2, <2>2
  <1>5. PICK a : a = s[k - 1]
    OBVIOUS
  <1>6. PICK l : l = LenWithChild(a, Innermost(d))
    OBVIOUS
  <1>7. PICK p : p = [a EXCEPT !.flags = @ \ {IN_CHILD}, !.len = l]
    OBVIOUS
  <1>8. PICK m : m = Written(Written(mem[d], a.offset + l - 1, <<0>>), a.offset, LE(l, 4))
    OBVIOUS
  <1>9. /\ open' = [open EXCEPT ![d] = Append(SubSeq(s, 1, Len(s) - 2), p)]
        /\ mem' = [mem EXCEPT ![d] = m]
    BY <1>1, <1>4, <1>5, <1>6, <1>7, <1>8 DEF bson_append_end
  <1>10. PICK u : u = Append(SubSeq(s, 1, Len(s) - 2), p)
    OBVIOUS
  <1>11. /\ IsStack(u) /\ Len(u) = Len(s) - 1 /\ u # <<>> /\ u[Len(s) - 1] = p
         /\ \A i \in 1 .. Len(s) - 2 : u[i] = s[i]
    <2>1. IsStack(s)
      BY <1>3 DEF StackInOrder
    <2>2. s # <<>> /\ Len(s) # 1
      BY <1>2, <1>3
    <2>3. u = PoppedOff(s, p)
      BY <1>10 DEF PoppedOff
    <2> QED  BY <2>1, <2>2, <2>3, Popped
  <1>12. Len(u) = k - 1 /\ u[k - 1] = p /\ \A i \in 1 .. k - 2 : u[i] = s[i]
    BY <1>4, <1>11
  <1>13. \A i \in 1 .. k : IsBson(s[i]) /\ (i > 1 => INLINE \notin s[i].flags)
    BY <1>3, <1>4 DEF StackInOrder
  <1>14. INLINE \notin s[1].flags
    <2>1. Len(s) # 1
      BY <1>2
    <2> QED  BY <1>3, <2>1 DEF InlineInOrder
  <1>15. k - 1 \in 1 .. k
    BY <1>4
  <1>16. IsBson(a) /\ INLINE \notin a.flags
    <2>1. IsBson(a) /\ (k - 1 > 1 => INLINE \notin a.flags)
      BY <1>5, <1>13, <1>15
    <2>2. CASE k - 1 = 1
      BY <1>5, <1>14, <2>1, <2>2
    <2>3. CASE k - 1 # 1
      BY <1>4, <2>1, <2>3
    <2> QED  BY <2>2, <2>3
  <1>17. IsBson(p) /\ p.flags = a.flags \ {IN_CHILD}
    BY <1>7, <1>16 DEF IsBson
  <1>18. StackInOrder(u)
    <2>1. ASSUME NEW i \in 1 .. k - 1 PROVE IsBson(u[i]) /\ (i > 1 => INLINE \notin u[i].flags)
      <3>1. CASE i = k - 1
        BY <1>12, <1>16, <1>17, <3>1
      <3>2. CASE i # k - 1
        <4>1. i \in 1 .. k - 2 /\ i \in 1 .. k
          BY <1>4, <3>2
        <4> QED  BY <1>12, <1>13, <4>1
      <3> QED  BY <3>1, <3>2
    <2> QED  BY <1>11, <1>12, <2>1 DEF StackInOrder
  <1>19. \A f \in {STATIC, RDONLY, NO_FREE, INLINE} : f \in u[1].flags <=> f \in s[1].flags
    <2>1. CASE k = 2
      <3>1. u[1] = p /\ s[1] = a
        BY <1>5, <1>12, <2>1
      <3> QED  BY <1>17, <3>1 DEF STATIC, RDONLY, NO_FREE, INLINE, IN_CHILD
    <2>2. CASE k # 2
      <3>1. 1 \in 1 .. k - 2
        BY <1>4, <2>2
      <3> QED  BY <1>12, <3>1
    <2> QED  BY <2>1, <2>2
  <1>20. BlocksInOrder(u, heap \cup {}, d)
    BY <1>3, <1>11, <1>19, RootBlocks
  <1>21. InlineInOrder(u, m)
    BY <1>14, <1>19 DEF InlineInOrder
  <1>22. heap' = heap \cup {}
    BY <1>2
  <1> QED  BY <1>1, <1>2, <1>9, <1>10, <1>18, <1>20, <1>21, <1>22, OneDoc DEF DocInOrder
LEMMA OverwriteKeeps ==
  ASSUME HInv, NEW d \in Docs, NEW it, NEW t, NEW value, bson_iter_overwrite(d, it, t, value)
  PROVE  HInv'
  <1>1. PICK o : o = open[d]
    OBVIOUS
  <1>2. PICK m : m = Written(mem[d], it.d1, value)
    OBVIOUS
  <1>3. open' = open /\ heap' = heap /\ kept' = kept /\ mem' = [mem EXCEPT ![d] = m]
    BY <1>2 DEF bson_iter_overwrite
  <1>4. open' = [open EXCEPT ![d] = o]
    BY <1>1, <1>3 DEF HInv
  <1>5. StackInOrder(o) /\ InlineInOrder(o, mem[d]) /\ BlocksInOrder(o, heap, d)
    BY <1>1 DEF HInv, DocInOrder
  <1>6. InlineInOrder(o, m)
    BY <1>2, <1>5, SizeStays DEF InlineInOrder
  <1>7. BlocksInOrder(o, heap', d)
    BY <1>3, <1>5
  <1>8. \A x : x \notin BlocksOf(d) => (x \in heap' <=> x \in heap)
    BY <1>3
  <1> QED  BY <1>3, <1>4, <1>5, <1>6, <1>7, <1>8, OneDoc DEF DocInOrder

\* A value has members of its own just if its type says so.
LEMMA MembersAre ==
  ASSUME NEW t
  PROVE  CopiedMembers(t) \subseteq {"first", "second"} /\ FreedMembers(t) = CopiedMembers(t)
  BY DEF CopiedMembers, FreedMembers

LEMMA TypeOfValue ==
  ASSUME NEW it
  PROVE  bson_iter_value(it).value_type = bson_iter_type(it)
  BY DEF bson_iter_value, Value

\* A step that changes only the kept value and its blocks leaves the documents.
LEMMA OnlyKept ==
  ASSUME HInv, open' = open, mem' = mem,
         \A x : x \notin KeptBlocks => (x \in heap' <=> x \in heap),
         KeptInOrder(heap', kept')
  PROVE  HInv'
  <1>1. ASSUME NEW d \in Docs PROVE DocInOrder(open'[d], mem'[d], heap', d)
    <2>1. DocInOrder(open[d], mem[d], heap, d)
      BY DEF HInv
    <2>2. \A f \in {"struct", "block", "caller"} : <<d, f>> \notin KeptBlocks
      BY DEF KeptBlocks
    <2>3. \A f \in {"struct", "block", "caller"} : <<d, f>> \in heap' <=> <<d, f>> \in heap
      BY <2>2
    <2> QED  BY <2>1, <2>3 DEF DocInOrder, BlocksInOrder
  <1>2. \A x \in heap' : x \in KeptBlocks \/ \E d \in Docs : x \in BlocksOf(d)
    BY DEF HInv
  <1>3. open' = [d \in Docs |-> open'[d]] /\ mem' = [d \in Docs |-> mem'[d]]
    BY DEF HInv
  <1> QED  BY <1>1, <1>2, <1>3 DEF HInv

LEMMA CopyValueKeeps ==
  ASSUME HInv, NEW it, bson_value_copy(it)
  PROVE  HInv'
  <1>1. PICK C : C = CopiedMembers(bson_iter_type(it))
    OBVIOUS
  <1>2. heap' = heap \cup {<<"kept", f>> : f \in C} /\ C \subseteq {"first", "second"}
    BY <1>1, MembersAre DEF bson_value_copy
  <1>3. \A f \in {"first", "second"} : <<"kept", f>> \notin heap
    <2>1. CopiedMembers(kept.value_type) = {}
      BY DEF bson_value_copy, NoValue, Value, CopiedMembers, BSON_TYPE_EOD, BSON_TYPE_UTF8,
             BSON_TYPE_DOCUMENT, BSON_TYPE_ARRAY, BSON_TYPE_BINARY, BSON_TYPE_DBPOINTER,
             BSON_TYPE_CODE, BSON_TYPE_SYMBOL, BSON_TYPE_REGEX, BSON_TYPE_CODEWSCOPE
    <2> QED  BY <2>1 DEF HInv, KeptInOrder
  <1>4. kept'.value_type = bson_iter_type(it)
    BY TypeOfValue DEF bson_value_copy
  <1>5. KeptInOrder(heap', kept')
    BY <1>1, <1>2, <1>3, <1>4 DEF KeptInOrder
  <1>6. \A x : x \notin KeptBlocks => (x \in heap' <=> x \in heap)
    BY <1>2 DEF KeptBlocks
  <1> QED  BY <1>5, <1>6, OnlyKept DEF bson_value_copy

LEMMA DestroyValueKeeps ==
  ASSUME HInv, bson_value_destroy
  PROVE  HInv'
  <1>1. PICK C : C = CopiedMembers(kept.value_type)
    OBVIOUS
  <1>2. heap' = heap \ {<<"kept", f>> : f \in C} /\ C \subseteq {"first", "second"}
    BY <1>1, MembersAre DEF bson_value_destroy
  <1>3. \A f \in {"first", "second"} : <<"kept", f>> \notin heap'
    BY <1>1, <1>2 DEF HInv, KeptInOrder
  <1>4. CopiedMembers(kept'.value_type) = {}
    BY DEF bson_value_destroy, NoValue, Value, CopiedMembers, BSON_TYPE_EOD, BSON_TYPE_UTF8,
           BSON_TYPE_DOCUMENT, BSON_TYPE_ARRAY, BSON_TYPE_BINARY, BSON_TYPE_DBPOINTER,
           BSON_TYPE_CODE, BSON_TYPE_SYMBOL, BSON_TYPE_REGEX, BSON_TYPE_CODEWSCOPE
  <1>5. KeptInOrder(heap', kept')
    BY <1>3, <1>4 DEF KeptInOrder
  <1>6. \A x : x \notin KeptBlocks => (x \in heap' <=> x \in heap)
    BY <1>2 DEF KeptBlocks
  <1> QED  BY <1>5, <1>6, OnlyKept DEF bson_value_destroy

\* A document that is gone has no blocks but what the caller was given.
LEMMA GoneKeeps ==
  ASSUME HInv, NEW d \in Docs, Gone(d), <<d, "struct">> \notin heap', <<d, "block">> \notin heap',
         \A x : x \notin BlocksOf(d) => (x \in heap' <=> x \in heap)
  PROVE  HInv'
  <1>1. PICK o : o = <<>>
    OBVIOUS
  <1>2. open' = [open EXCEPT ![d] = o] /\ mem' = [mem EXCEPT ![d] = <<>>] /\ kept' = kept
    BY <1>1 DEF Gone
  <1>3. StackInOrder(o)
    <2>1. PICK S : S = {d}
      OBVIOUS
    <2>2. o \in Seq(S) /\ Len(o) = 0
      BY <1>1
    <2> QED  BY <2>2 DEF StackInOrder, IsStack
  <1>4. InlineInOrder(o, <<>>) /\ BlocksInOrder(o, heap', d)
    BY <1>1 DEF InlineInOrder, BlocksInOrder
  <1> QED  BY <1>2, <1>3, <1>4, OneDoc DEF DocInOrder

LEMMA FreedIs ==
  ASSUME HInv, NEW d \in Docs, Live(d)
  PROVE  /\ <<d, "struct">> \notin heap \ Freed(d) /\ <<d, "block">> \notin heap \ Freed(d)
         /\ \A x : x \notin BlocksOf(d) => x \notin Freed(d)
  <1>1. PICK r : r = Root(d).flags
    OBVIOUS
  <1>2. /\ <<d, "struct">> \in heap <=> STATIC \notin r
        /\ <<d, "block">> \in heap <=> {INLINE, RDONLY, NO_FREE} \cap r = {}
    BY <1>1 DEF HInv, DocInOrder, BlocksInOrder, Live, Root
  <1>3. Freed(d) = (IF {INLINE, RDONLY, NO_FREE} \cap r = {} THEN {<<d, "block">>} ELSE {})
                     \cup (IF STATIC \in r THEN {} ELSE {<<d, "struct">>})
    <2>1. {RDONLY, INLINE, NO_FREE} = {INLINE, RDONLY, NO_FREE}
      OBVIOUS
    <2> QED  BY <1>1, <2>1 DEF Freed
  <1>4. <<d, "struct">> \notin heap \ Freed(d)
    BY <1>2, <1>3
  <1>5. <<d, "block">> \notin heap \ Freed(d)
    BY <1>2, <1>3
  <1>6. \A x : x \notin BlocksOf(d) => x \notin Freed(d)
    BY <1>3 DEF BlocksOf
  <1> QED  BY <1>4, <1>5, <1>6

LEMMA DestroyKeeps ==
  ASSUME HInv, NEW d \in Docs, bson_destroy(d)
  PROVE  HInv'
  <1>1. Live(d) /\ Gone(d) /\ heap' = heap \ Freed(d)
    BY DEF bson_destroy
  <1> QED  BY <1>1, FreedIs, GoneKeeps

LEMMA StealKeeps ==
  ASSUME HInv, NEW d \in Docs, bson_destroy_with_steal(d)
  PROVE  HInv'
  <1>1. Live(d) /\ Gone(d)
    BY DEF bson_destroy_with_steal
  <1>2. CASE heap' = heap \ Freed(d)
    BY <1>1, <1>2, FreedIs, GoneKeeps
  <1>3. CASE heap' = (heap \ (Freed(d) \cup {<<d, "block">>})) \cup {<<d, "caller">>}
    <2>1. <<d, "struct">> \notin heap' /\ <<d, "block">> \notin heap'
      BY <1>1, <1>3, FreedIs
    <2>2. \A x : x \notin BlocksOf(d) => x \notin Freed(d)
      BY <1>1, FreedIs
    <2>3. \A x : x \notin BlocksOf(d) => (x \in heap' <=> x \in heap)
      BY <1>3, <2>2 DEF BlocksOf
    <2> QED  BY <1>1, <2>1, <2>3, GoneKeeps
  <1> QED  BY <1>2, <1>3 DEF bson_destroy_with_steal

LEMMA FreeKeeps ==
  ASSUME HInv, NEW d \in Docs, bson_free(d)
  PROVE  HInv'
  <1>1. PICK o : o = open[d]
    OBVIOUS
  <1>2. PICK m : m = mem[d]
    OBVIOUS
  <1>3. open' = open /\ mem' = mem /\ kept' = kept /\ heap' = heap \ {<<d, "caller">>}
    BY DEF bson_free
  <1>4. open' = [open EXCEPT ![d] = o] /\ mem' = [mem EXCEPT ![d] = m]
    BY <1>1, <1>2, <1>3 DEF HInv
  <1>5. DocInOrder(o, m, heap, d)
    BY <1>1, <1>2 DEF HInv
  <1>6. o = <<>>
    BY <1>1 DEF bson_free, Live
  <1>7. BlocksInOrder(o, heap', d)
    BY <1>3, <1>5, <1>6 DEF DocInOrder, BlocksInOrder
  <1>8. \A x : x \notin BlocksOf(d) => (x \in heap' <=> x \in heap)
    BY <1>3 DEF BlocksOf
  <1> QED  BY <1>3, <1>4, <1>5, <1>7, <1>8, OneDoc DEF DocInOrder
\* The bson_t as the code begins them.
LEMMA BsonIs ==
  ASSUME NEW flags, NEW len
  PROVE  IsBson(Bson(flags, len)) /\ Bson(flags, len).flags = flags
  BY DEF IsBson, Bson

LEMMA MallocIs ==
  ASSUME NEW n
  PROVE  OfSize(Malloc(n), n)
  BY Zenon DEF OfSize, Malloc

LEMMA SizedKeeps ==
  ASSUME HInv, NEW d \in Docs, NEW size, NEW bytes, SizedNew(d, size, bytes)
  PROVE  HInv'
  <1>1. CASE Becomes(d, Bson({INLINE}, Len(bytes)), Malloc(InlineCap), bytes, {<<d, "struct">>})
    <2>1. PICK b : b = Bson({INLINE}, Len(bytes))
      OBVIOUS
    <2>2. IsBson(b) /\ b.flags = {INLINE}
      BY <2>1, BsonIs
    <2>3. OfSize(Malloc(InlineCap), InlineCap)
      BY MallocIs
    <2>4. PICK new : new = {<<d, "struct">>}
      OBVIOUS
    <2>5. /\ new \subseteq BlocksOf(d)
          /\ <<d, "struct">> \in new <=> STATIC \notin b.flags
          /\ <<d, "block">> \in new <=> {INLINE, RDONLY, NO_FREE} \cap b.flags = {}
          /\ <<d, "caller">> \in new <=> NO_FREE \in b.flags
          /\ {RDONLY, NO_FREE} \cap b.flags = {}
      BY <2>2, <2>4 DEF BlocksOf, INLINE, STATIC, RDONLY, NO_FREE
    <2> QED  BY <1>1, <2>1, <2>2, <2>3, <2>4, <2>5, BecomesKeeps
  <1>2. CASE Becomes(d, Bson({}, Len(bytes)), Malloc(size), bytes,
                     {<<d, "struct">>, <<d, "block">>})
    <2>1. PICK b : b = Bson({}, Len(bytes))
      OBVIOUS
    <2>2. IsBson(b) /\ b.flags = {}
      BY <2>1, BsonIs
    <2>3. PICK new : new = {<<d, "struct">>, <<d, "block">>}
      OBVIOUS
    <2>4. /\ new \subseteq BlocksOf(d)
          /\ <<d, "struct">> \in new <=> STATIC \notin b.flags
          /\ <<d, "block">> \in new <=> {INLINE, RDONLY, NO_FREE} \cap b.flags = {}
          /\ <<d, "caller">> \in new <=> NO_FREE \in b.flags
          /\ INLINE \notin b.flags
      BY <2>2, <2>3 DEF BlocksOf, INLINE, STATIC, RDONLY, NO_FREE
    <2> QED  BY <1>2, <2>1, <2>2, <2>3, <2>4, BecomesKeeps
  <1> QED  BY <1>1, <1>2 DEF SizedNew

\* The other ways a document begins: by its flags, with the blocks they say.
LEMMA FlagsKeep ==
  ASSUME HInv, NEW d \in Docs, NEW flags, NEW len, NEW m, NEW bytes, NEW new,
         Becomes(d, Bson(flags, len), m, bytes, new),
         INLINE \in flags => OfSize(m, InlineCap),
         \/ /\ flags = {INLINE, STATIC} \/ flags = {STATIC, RDONLY}
            /\ new = {}
         \/ flags = {STATIC} /\ new = {<<d, "block">>}
         \/ flags = {INLINE} /\ new = {<<d, "struct">>}
         \/ flags = {NO_FREE} /\ new = {<<d, "struct">>, <<d, "caller">>}
  PROVE  HInv'
  <1>1. PICK b : b = Bson(flags, len)
    OBVIOUS
  <1>2. IsBson(b) /\ b.flags = flags
    BY <1>1, BsonIs
  <1>3. /\ new \subseteq BlocksOf(d)
        /\ <<d, "struct">> \in new <=> STATIC \notin flags
        /\ <<d, "block">> \in new <=> {INLINE, RDONLY, NO_FREE} \cap flags = {}
        /\ <<d, "caller">> \in new <=> NO_FREE \in flags
        /\ INLINE \in flags => {RDONLY, NO_FREE} \cap flags = {}
    BY DEF BlocksOf, INLINE, STATIC, RDONLY, NO_FREE
  <1> QED  BY <1>1, <1>2, <1>3, BecomesKeeps

LEMMA BeginsKeeps ==
  ASSUME HInv, NEW d \in Docs, Begins(d)
  PROVE  HInv'
  <1>1. OfSize(Malloc(InlineCap), InlineCap)
    BY MallocIs
  <1>2. CASE bson_init(d)
    BY <1>1, <1>2, FlagsKeep DEF bson_init
  <1>3. CASE bson_new(d)
    BY <1>1, <1>3, FlagsKeep DEF bson_new
  <1>4. CASE \E size \in Sizes : bson_sized_new(d, size)
    BY <1>4, SizedKeeps DEF bson_sized_new
  <1>5. ASSUME NEW m \in Buffers, bson_init_static_of(d, m) PROVE HInv'
    <2>1. Becomes(d, Bson({STATIC, RDONLY}, Len(m)), m, <<>>, {})
      BY <1>5 DEF bson_init_static_of
    <2>2. INLINE \notin {STATIC, RDONLY}
      BY DEF INLINE, STATIC, RDONLY
    <2> QED  BY <2>1, <2>2, FlagsKeep
  <1>6. ASSUME NEW m \in Buffers, bson_new_from_buffer(d, m) PROVE HInv'
    <2>1. INLINE \notin {NO_FREE}
      BY DEF INLINE, NO_FREE
    <2> QED  BY <1>6, <2>1, FlagsKeep DEF bson_new_from_buffer
  <1> QED  BY <1>2, <1>3, <1>4, <1>5, <1>6 DEF Begins

LEMMA CopiesKeeps ==
  ASSUME HInv, NEW d \in Docs, NEW s \in Docs, Copies(d, s)
  PROVE  HInv'
  <1>1. OfSize(Malloc(InlineCap), InlineCap)
    BY MallocIs
  <1>2. INLINE \notin {STATIC} /\ {STATIC, INLINE} = {INLINE, STATIC}
    BY DEF INLINE, STATIC
  <1>3. CASE bson_copy(d, s)
    BY <1>3, SizedKeeps DEF bson_copy, bson_new_from_data
  <1>4. CASE bson_copy_to(d, s)
    <2>1. CASE INLINE \in Root(s).flags
      <3>1. OfSize(mem[s], InlineCap)
        BY <1>4, <2>1 DEF bson_copy_to, HInv, DocInOrder, InlineInOrder, Live, Root
      <3>2. Becomes(d, Bson({INLINE, STATIC}, Root(s).len), mem[s], <<>>, {})
        BY <1>2, <1>4, <2>1 DEF bson_copy_to
      <3> QED  BY <3>1, <3>2, FlagsKeep
    <2>2. CASE INLINE \notin Root(s).flags
      <3>1. PICK p : Becomes(d, Bson({STATIC}, Root(s).len), Malloc(p), Data(s), {<<d, "block">>})
        BY <1>4, <2>2 DEF bson_copy_to
      <3> QED  BY <1>2, <3>1, FlagsKeep
    <2> QED  BY <2>1, <2>2
  <1>5. ASSUME NEW k \in Keys, bson_copy_to_excluding(d, s, k) PROVE HInv'
    <2>1. PICK bytes : Filled(d, bytes)
      BY <1>5 DEF bson_copy_to_excluding
    <2> QED  BY <1>1, <1>2, <2>1, FlagsKeep DEF Filled
  <1> QED  BY <1>3, <1>4, <1>5 DEF Copies

LEMMA AppendKeeps ==
  ASSUME SizesAssumption, HInv, NEW d \in Docs, NEW a, bson_append(d, a)
  PROVE  HInv'
  BY TakesKeeps DEF bson_append

LEMMA Unchanged ==
  ASSUME HInv, UNCHANGED vars
  PROVE  HInv'
  BY DEF vars, HInv, DocInOrder, StackInOrder, InlineInOrder, BlocksInOrder, KeptInOrder

LEMMA WritesKeeps ==
  ASSUME SizesAssumption, HInv, NEW d \in Docs, Writes(d)
  PROVE  HInv'
  <1>1. CASE \E a \in Appends : bson_append(d, a)
    BY <1>1, AppendKeeps
  <1>2. CASE \E a \in Appends : bson_append_fails(d, a)
    BY <1>2, Unchanged DEF bson_append_fails
  <1>3. CASE \E s \in Docs : bson_concat(d, s)
    BY <1>3, TakesKeeps, Unchanged DEF bson_concat
  <1>4. CASE \E s \in Docs, k \in Keys, t \in Nested : bson_append_container(d, k, t, s)
    BY <1>4, AppendKeeps DEF bson_append_container
  <1>5. CASE bson_reinit(d)
    BY <1>5, ReinitKeeps
  <1>6. CASE \E k \in Keys : bson_append(d, bson_append_value(k, kept))
    BY <1>6, AppendKeeps
  <1> QED  BY <1>1, <1>2, <1>3, <1>4, <1>5, <1>6 DEF Writes

\* The blocks that are allocated are just those that are in use or the caller's: in
\* every run, of whatever length, with whatever documents, nothing leaks and nothing
\* is freed that is in use.
THEOREM NothingLeaks == Spec => []HeapMatches
  <1>1. Init => HInv
    <2> SUFFICES ASSUME Init PROVE HInv
      OBVIOUS
    <2>1. PICK o : o = <<>>
      OBVIOUS
    <2>2. StackInOrder(o)
      <3>1. PICK S : S = {heap}
        OBVIOUS
      <3>2. o \in Seq(S) /\ Len(o) = 0
        BY <2>1
      <3> QED  BY <3>2 DEF StackInOrder, IsStack
    <2>3. InlineInOrder(o, o)
      BY <2>1 DEF InlineInOrder
    <2>4. ASSUME NEW d \in Docs PROVE DocInOrder(open[d], mem[d], heap, d)
      <3>1. open[d] = o /\ mem[d] = o /\ heap = {}
        BY <2>1 DEF Init
      <3>2. BlocksInOrder(o, heap, d)
        BY <2>1, <3>1 DEF BlocksInOrder
      <3> QED  BY <2>2, <2>3, <3>1, <3>2 DEF DocInOrder
    <2>5. CopiedMembers(kept.value_type) = {}
      BY DEF Init, NoValue, Value, CopiedMembers, BSON_TYPE_EOD, BSON_TYPE_UTF8,
             BSON_TYPE_DOCUMENT, BSON_TYPE_ARRAY, BSON_TYPE_BINARY, BSON_TYPE_DBPOINTER,
             BSON_TYPE_CODE, BSON_TYPE_SYMBOL, BSON_TYPE_REGEX, BSON_TYPE_CODEWSCOPE
    <2>6. KeptInOrder(heap, kept)
      BY <2>5 DEF Init, KeptInOrder
    <2>7. open = [d \in Docs |-> open[d]] /\ mem = [d \in Docs |-> mem[d]] /\ heap = {}
      BY DEF Init
    <2> QED  BY <2>4, <2>6, <2>7 DEF HInv
  <1>2. HInv /\ [Next]_vars => HInv'
    <2> SUFFICES ASSUME HInv, [Next]_vars PROVE HInv'
      OBVIOUS
    <2> USE SizesAssumption
    <2>1. CASE UNCHANGED vars
      BY <2>1, Unchanged
    <2>2. ASSUME NEW d \in Builders,
                 Begins(d) \/ Writes(d) \/ Nests(d) \/ AtPairs(d) \/ GivenAway(d)
          PROVE  HInv'
      <3>1. d \in Docs
        BY DEF SizesAssumption
      <3>2. CASE Begins(d)
        BY <3>1, <3>2, BeginsKeeps
      <3>3. CASE Writes(d)
        BY <3>1, <3>3, WritesKeeps
      <3>4. CASE Nests(d)
        BY <3>1, <3>4, BeginKeeps, BeginFailsKeeps, EndKeeps DEF Nests
      <3>5. CASE AtPairs(d)
        BY <3>1, <3>5, OverwriteKeeps, CopyValueKeeps DEF AtPairs
      <3>6. CASE GivenAway(d)
        BY <3>1, <3>6, StealKeeps, FreeKeeps DEF GivenAway
      <3> QED  BY <2>2, <3>2, <3>3, <3>4, <3>5, <3>6
    <2>3. CASE \E d \in Docs : bson_destroy(d)
      BY <2>3, DestroyKeeps
    <2>4. CASE \E d, s \in Docs : Copies(d, s)
      BY <2>4, CopiesKeeps
    <2>5. CASE bson_value_destroy
      BY <2>5, DestroyValueKeeps
    <2> QED  BY <2>1, <2>2, <2>3, <2>4, <2>5 DEF Next
  <1>3. HInv => HeapMatches
    <2> SUFFICES ASSUME HInv PROVE HeapMatches
      OBVIOUS
    <2> DEFINE Structs == {<<d, "struct">> : d \in {e \in Docs : Live(e) /\ STATIC \notin Root(e).flags}}
               Blocks == {<<d, "block">> : d \in {e \in Docs :
                            Live(e) /\ {INLINE, RDONLY, NO_FREE} \cap Root(e).flags = {}}}
               Members == {<<"kept", f>> : f \in CopiedMembers(kept.value_type)}
               Callers == {<<d, "caller">> : d \in {e \in Docs : Live(e) /\ NO_FREE \in Root(e).flags}}
               Given == {x \in heap : x[2] = "caller" /\ ~Live(x[1])}
    <2>1. \A d \in Docs : BlocksInOrder(open[d], heap, d)
      BY DEF HInv, DocInOrder
    <2>2. Structs \subseteq heap /\ Blocks \subseteq heap /\ Callers \subseteq heap
      BY <2>1 DEF BlocksInOrder, Live, Root
    <2>3. Members \subseteq heap
      BY MembersAre DEF HInv, KeptInOrder
    <2>4. ASSUME NEW x \in heap
          PROVE  x \in Structs \/ x \in Blocks \/ x \in Members \/ x \in Callers \/ x \in Given
      <3>1. CASE x \in KeptBlocks
        BY <3>1 DEF HInv, KeptInOrder, KeptBlocks
      <3>2. ASSUME NEW d \in Docs, x \in BlocksOf(d)
            PROVE  x \in Structs \/ x \in Blocks \/ x \in Callers \/ x \in Given
        <4>1. CASE x = <<d, "struct">>
          BY <2>1, <4>1 DEF BlocksInOrder, Live, Root
        <4>2. CASE x = <<d, "block">>
          BY <2>1, <4>2 DEF BlocksInOrder, Live, Root
        <4>3. CASE x = <<d, "caller">>
          BY <2>1, <4>3 DEF BlocksInOrder, Live, Root
        <4> QED  BY <3>2, <4>1, <4>2, <4>3 DEF BlocksOf
      <3> QED  BY <3>1, <3>2 DEF HInv
    <2>5. heap = Structs \cup Blocks \cup Members \cup Callers \cup Given
      BY <2>2, <2>3, <2>4
    <2> QED  BY <2>5 DEF HeapMatches
  <1> QED  BY <1>1, <1>2, <1>3, PTL DEF Spec
-----------------------------------------------------------------------------
(* Room.                                                                   *)

BsonT == [flags : SUBSET Flags, len : Nat, offset : Nat, depth : Nat]

\* The flags of the bson_t at i say where it is; n is the size of the memory.
FlagsInOrder(o, i, n) ==
  /\ INLINE \in o[i].flags => i = 1 /\ Len(o) = 1 /\ n = InlineCap
  /\ CHILD \in o[i].flags <=> i > 1
  /\ IN_CHILD \in o[i].flags <=> i < Len(o)

\* It begins where its parent's last five bytes were, and ends with room for the ends
\* of all that are around it.
PlaceInOrder(o, i, n) ==
  /\ o[i].depth = i - 1
  /\ o[i].len >= 5
  /\ o[i].offset + o[i].len + o[i].depth <= n
  /\ i = 1 => o[i].offset = 0
  /\ i > 1 => o[i].offset = o[i - 1].offset + o[i - 1].len - 1 - 5

RoomInOrder(o, m) ==
  /\ o \in Seq(BsonT) /\ m \in Seq(Byte)
  /\ \A i \in 1 .. Len(o) : FlagsInOrder(o, i, Len(m)) /\ PlaceInOrder(o, i, Len(m))

RInv ==
  /\ open = [d \in Docs |-> open[d]] /\ mem = [d \in Docs |-> mem[d]]
  /\ \A d \in Docs : RoomInOrder(open[d], mem[d])
  /\ ValueInOrder(kept) /\ kept.value_type \in Nat

\* A step changes one document.
LEMMA OneRoom ==
  ASSUME RInv, NEW d \in Docs, NEW o, NEW m,
         open' = [open EXCEPT ![d] = o], mem' = [mem EXCEPT ![d] = m], kept' = kept,
         RoomInOrder(o, m)
  PROVE  RInv'
  <1>1. open' = [e \in Docs |-> open'[e]] /\ mem' = [e \in Docs |-> mem'[e]]
    BY DEF RInv
  <1>2. ASSUME NEW e \in Docs PROVE RoomInOrder(open'[e], mem'[e])
    BY DEF RInv
  <1>3. ValueInOrder(kept') /\ kept'.value_type \in Nat
    BY DEF RInv
  <1> QED  BY <1>1, <1>2, <1>3 DEF RInv

(* Memory.                                                                 *)

\* Writing leaves a memory its size, and bytes.
LEMMA WrittenIs ==
  ASSUME NEW m \in Seq(Byte), NEW o \in Int, NEW bytes \in Seq(Byte)
  PROVE  Written(m, o, bytes) \in Seq(Byte) /\ Len(Written(m, o, bytes)) = Len(m)
  <1>1. PICK n \in Nat : n = Len(m)
    OBVIOUS
  <1>2. PICK w : w = Written(m, o, bytes)
    OBVIOUS
  <1>3. w = [i \in 1 .. n |-> IF i - o \in DOMAIN bytes THEN bytes[i - o] ELSE m[i]]
    BY <1>1, <1>2 DEF Written
  <1>4. \A i \in 1 .. n : m[i] \in Byte
    BY <1>1
  <1>5. \A i \in DOMAIN bytes : bytes[i] \in Byte
    OBVIOUS
  <1>6. w \in [1 .. n -> Byte]
    BY <1>3, <1>4, <1>5
  <1> QED  BY <1>1, <1>2, <1>6, FunctionIsSeq

LEMMA MallocBytes ==
  ASSUME NEW n \in Nat
  PROVE  Malloc(n) \in Seq(Byte) /\ Len(Malloc(n)) = n
  <1>1. Garbage \in Byte
    BY DEF Garbage, Byte
  <1>2. Malloc(n) \in [1 .. n -> Byte]
    BY <1>1 DEF Malloc
  <1> QED  BY <1>2, FunctionIsSeq

LEMMA FiveIs == Five \in Seq(Byte) /\ Len(Five) = 5
  <1>1. 5 \in Byte /\ 0 \in Byte
    BY DEF Byte
  <1> QED  BY <1>1 DEF Five

LEMMA AppendedIs ==
  ASSUME NEW m \in Seq(Byte), NEW b \in BsonT, NEW bytes \in Seq(Byte)
  PROVE  Appended(m, b, bytes) \in Seq(Byte) /\ Len(Appended(m, b, bytes)) = Len(m)
  <1>1. b.offset \in Nat /\ b.len \in Nat /\ b.offset \in Int
    BY DEF BsonT
  <1>2. PICK o \in Int : o = b.offset + b.len - 1
    BY <1>1
  <1>3. PICK e : e = bytes \o <<0>> /\ e \in Seq(Byte)
    <2>1. PICK z : z = <<0>> /\ z \in Seq(Byte)
      BY BytesAre, OneByteIs
    <2>2. bytes \o z \in Seq(Byte)
      BY <2>1
    <2> QED  BY <2>1, <2>2
  <1>4. PICK l : l = LE(b.len + Len(bytes), 4) /\ l \in Seq(Byte)
    <2>1. b.len + Len(bytes) \in Nat
      BY <1>1
    <2> QED  BY <2>1, LEIs
  <1>5. PICK w : w = Written(m, o, e) /\ w \in Seq(Byte) /\ Len(w) = Len(m)
    BY <1>3, WrittenIs
  <1>6. Written(w, b.offset, l) \in Seq(Byte) /\ Len(Written(w, b.offset, l)) = Len(m)
    BY <1>1, <1>4, <1>5, WrittenIs
  <1> QED  BY <1>2, <1>3, <1>4, <1>5, <1>6 DEF Appended

\* A block that is asked for is large enough.
LEMMA BlockIs ==
  ASSUME NEW n \in Int, NEW p \in BlockFor(n)
  PROVE  p \in Nat /\ n <= p
  BY DEF BlockFor, bson_next_power_of_two, Powers

\* The memory of a document that has left its bson_t or was never in it: it has room for
\* n more bytes, and for the ends of the documents around it.
LEMMA AllocGrowIs ==
  ASSUME NEW m \in Seq(Byte), NEW b \in BsonT, NEW n \in Nat, NEW w \in alloc_grow(m, b, n)
  PROVE  w \in Seq(Byte) /\ Len(m) <= Len(w) /\ b.offset + b.len + n + b.depth <= Len(w)
  <1>1. PICK r \in Nat : r = b.offset + b.len + n + b.depth /\ r = Required(b, n)
    BY DEF Required, BsonT
  <1>2. CASE r <= Len(m)
    BY <1>1, <1>2 DEF alloc_grow
  <1>3. CASE ~(r <= Len(m))
    <2>1. PICK p \in BlockFor(r) : w = Written(Malloc(p), 0, m)
      BY <1>1, <1>3 DEF alloc_grow
    <2>2. p \in Nat /\ r <= p
      BY <2>1, BlockIs
    <2>3. w \in Seq(Byte) /\ Len(w) = p
      BY <2>1, <2>2, MallocBytes, WrittenIs
    <2> QED  BY <1>1, <1>3, <2>2, <2>3
  <1> QED  BY <1>2, <1>3

\* The memory of a document that is in its bson_t.
LEMMA InlineGrowIs ==
  ASSUME NEW m \in Seq(Byte), NEW b \in BsonT, NEW n \in Int,
         Len(m) = InlineCap, InlineCap \in Nat, b.len <= Len(m), NEW w \in inline_grow(m, b, n)
  PROVE  /\ w \in Seq(Byte) /\ Len(m) <= Len(w) /\ b.len + n <= Len(w)
         /\ b.len + n > InlineCap => Len(w) # InlineCap
  <1>1. b.len \in Nat
    BY DEF BsonT
  <1>2. CASE b.len + n <= InlineCap
    BY <1>1, <1>2 DEF inline_grow
  <1>3. CASE ~(b.len + n <= InlineCap)
    <2>1. PICK p \in BlockFor(b.len + n) : w = Written(Malloc(p), 0, Slice(m, 0, b.len))
      BY <1>3 DEF inline_grow
    <2>2. p \in Nat /\ b.len + n <= p
      <3>1. b.len + n \in Int
        BY <1>1
      <3> QED  BY <2>1, <3>1, BlockIs
    <2>3. Slice(m, 0, b.len) \in Seq(Byte)
      <3>1. 0 + b.len <= Len(m)
        BY <1>1
      <3> QED  BY <1>1, <3>1, SliceIs
    <2>4. w \in Seq(Byte) /\ Len(w) = p
      BY <2>1, <2>2, <2>3, MallocBytes, WrittenIs
    <2> QED  BY <1>1, <1>3, <2>2, <2>4
  <1> QED  BY <1>2, <1>3

(* The stack of a bson_t and its children.                                 *)

\* The bson_t that is written to: it lies in the memory.
LEMMA TopIs ==
  ASSUME RInv, NEW d \in Docs, Live(d)
  PROVE  LET b == Innermost(d)
         IN  /\ RoomInOrder(open[d], mem[d]) /\ open[d] # <<>>
             /\ Len(open[d]) \in Nat /\ Len(open[d]) > 0
             /\ b \in BsonT /\ b = open[d][Len(open[d])]
             /\ FlagsInOrder(open[d], Len(open[d]), Len(mem[d]))
             /\ PlaceInOrder(open[d], Len(open[d]), Len(mem[d]))
             /\ mem[d] \in Seq(Byte)
             /\ INLINE \in b.flags => Len(mem[d]) = InlineCap /\ b.offset = 0 /\ b.depth = 0
  <1>1. PICK o : o = open[d] /\ o # <<>> /\ RoomInOrder(o, mem[d])
    BY DEF RInv, Live
  <1>2. o \in Seq(BsonT) /\ mem[d] \in Seq(Byte)
    BY <1>1 DEF RoomInOrder
  <1>3. PICK k \in Nat : k = Len(o) /\ k > 0
    BY <1>1, <1>2
  <1>4. PICK b \in BsonT : b = o[k] /\ b = Innermost(d)
    BY <1>1, <1>2, <1>3 DEF Innermost
  <1>5. FlagsInOrder(o, k, Len(mem[d])) /\ PlaceInOrder(o, k, Len(mem[d]))
    BY <1>1, <1>3 DEF RoomInOrder
  <1>6. INLINE \in b.flags => Len(mem[d]) = InlineCap /\ b.offset = 0 /\ b.depth = 0
    BY <1>4, <1>5 DEF FlagsInOrder, PlaceInOrder
  <1> QED  BY <1>1, <1>2, <1>3, <1>4, <1>5, <1>6

\* What ends before the end of the old memory ends before that of the new.
LEMMA EndsBefore ==
  ASSUME NEW x \in BsonT, NEW l \in Nat, NEW n \in Nat, l <= n,
         x.offset + x.len + x.depth <= l
  PROVE  x.offset + x.len + x.depth <= n
  <1>1. x.offset \in Nat /\ x.len \in Nat /\ x.depth \in Nat
    BY DEF BsonT
  <1> QED  BY <1>1

\* The innermost gets longer or shorter, in the memory or in a larger one.
LEMMA ReplacedRoom ==
  ASSUME NEW o, NEW m, RoomInOrder(o, m), o # <<>>, NEW a, a = o[Len(o)],
         NEW b \in BsonT, NEW w \in Seq(Byte), Len(m) <= Len(w),
         b.offset = a.offset, b.depth = a.depth, b.len >= 5,
         b.offset + b.len + b.depth <= Len(w),
         b.flags = a.flags \/ b.flags = a.flags \ {INLINE},
         INLINE \in b.flags => Len(w) = InlineCap
  PROVE  RoomInOrder([o EXCEPT ![Len(o)] = b], w)
  <1>1. o \in Seq(BsonT)
    BY DEF RoomInOrder
  <1>2. PICK k \in Nat : k = Len(o) /\ k > 0
    BY <1>1
  <1>3. PICK t : t = [o EXCEPT ![k] = b]
    OBVIOUS
  <1>4. t \in Seq(BsonT) /\ Len(t) = k /\ t[k] = b /\ \A i \in 1 .. k - 1 : t[i] = o[i]
    BY <1>1, <1>2, <1>3
  <1>5. ASSUME NEW i \in 1 .. k PROVE FlagsInOrder(o, i, Len(m)) /\ PlaceInOrder(o, i, Len(m))
    BY <1>2 DEF RoomInOrder
  <1>6. PICK n \in Nat : n = Len(w)
    OBVIOUS
  <1>7. PICK l \in Nat : l = Len(m) /\ l <= n
    <2>1. m \in Seq(Byte)
      BY DEF RoomInOrder
    <2> QED  BY <1>6, <2>1
  <1>8. a = o[k] /\ k \in 1 .. k
    BY <1>2
  <1>9. FlagsInOrder(t, k, n) /\ PlaceInOrder(t, k, n)
    <2>1. FlagsInOrder(o, k, l) /\ PlaceInOrder(o, k, l)
      BY <1>5, <1>7, <1>8
    <2>2. FlagsInOrder(t, k, n)
      BY <1>2, <1>4, <1>6, <1>8, <2>1 DEF FlagsInOrder, INLINE, CHILD, IN_CHILD
    <2>3. PlaceInOrder(t, k, n)
      <3>1. k > 1 => t[k - 1] = o[k - 1]
        BY <1>4
      <3> QED  BY <1>4, <1>6, <1>8, <2>1, <3>1 DEF PlaceInOrder
    <2> QED  BY <2>2, <2>3
  <1>10. ASSUME NEW i \in 1 .. k - 1 PROVE FlagsInOrder(t, i, n) /\ PlaceInOrder(t, i, n)
    <2>1. FlagsInOrder(o, i, l) /\ PlaceInOrder(o, i, l) /\ t[i] = o[i]
      <3>1. i \in 1 .. k
        OBVIOUS
      <3> QED  BY <1>4, <1>5, <1>7, <3>1, Zenon
    <2>2. FlagsInOrder(t, i, n)
      BY <1>2, <1>4, <2>1 DEF FlagsInOrder
    <2>3. o[i] \in BsonT
      BY <1>1, <1>2
    <2>4. i > 1 => t[i - 1] = o[i - 1]
      BY <1>4
    <2>5. o[i].offset + o[i].len + o[i].depth <= n
      <3>1. o[i].offset + o[i].len + o[i].depth <= l
        BY <2>1 DEF PlaceInOrder
      <3>2. PICK x \in BsonT : x = o[i]
        BY <2>3
      <3> QED  BY <1>6, <1>7, <3>1, <3>2, EndsBefore, Zenon
    <2> QED  BY <2>1, <2>2, <2>4, <2>5 DEF PlaceInOrder
  <1>11. \A i \in 1 .. k : i = k \/ i \in 1 .. k - 1
    OBVIOUS
  <1>12. RoomInOrder(t, w)
    BY <1>4, <1>6, <1>9, <1>10, <1>11 DEF RoomInOrder
  <1> QED  BY <1>2, <1>3, <1>12

LEMMA OutgrownIs ==
  ASSUME NEW b \in BsonT, NEW w
  PROVE  LET c == Outgrown(b, w)
         IN  /\ c \in BsonT /\ c.len = b.len /\ c.offset = b.offset /\ c.depth = b.depth
             /\ c.flags = b.flags \/ c.flags = b.flags \ {INLINE}
             /\ INLINE \in c.flags => INLINE \in b.flags /\ Len(w) = InlineCap
  <1>1. PICK f : f = b.flags \ {INLINE} /\ f \in SUBSET Flags
    BY DEF BsonT
  <1>2. PICK c : c = [b EXCEPT !.flags = f]
    OBVIOUS
  <1>3. c \in BsonT /\ c.flags = f /\ c.len = b.len /\ c.offset = b.offset /\ c.depth = b.depth
    BY <1>1, <1>2 DEF BsonT
  <1>4. Outgrown(b, w) = IF INLINE \in b.flags /\ Len(w) # InlineCap THEN c ELSE b
    BY <1>1, <1>2 DEF Outgrown
  <1> QED  BY <1>1, <1>3, <1>4

(* Beginning and copying.                                                  *)

LEMMA BsonTIs ==
  ASSUME NEW flags \in SUBSET Flags, NEW len \in Nat
  PROVE  LET b == Bson(flags, len)
         IN  b \in BsonT /\ b.flags = flags /\ b.len = len /\ b.offset = 0 /\ b.depth = 0
  BY DEF Bson, BsonT

\* One document, in which nothing is open.
LEMMA OneInOrder ==
  ASSUME NEW b \in BsonT, NEW w \in Seq(Byte), CHILD \notin b.flags, IN_CHILD \notin b.flags,
         b.offset = 0, b.depth = 0, b.len >= 5, b.len <= Len(w),
         INLINE \in b.flags => Len(w) = InlineCap
  PROVE  RoomInOrder(<<b>>, w)
  <1>1. PICK o : o = <<b>>
    OBVIOUS
  <1>2. o \in Seq(BsonT) /\ Len(o) = 1 /\ o[1] = b
    BY <1>1
  <1>3. b.len \in Nat /\ Len(w) \in Nat
    BY DEF BsonT
  <1>4. FlagsInOrder(o, 1, Len(w))
    BY <1>2 DEF FlagsInOrder
  <1>5. PlaceInOrder(o, 1, Len(w))
    BY <1>2, <1>3 DEF PlaceInOrder
  <1>6. \A i \in 1 .. Len(o) : i = 1
    BY <1>2
  <1>7. RoomInOrder(o, w)
    BY <1>2, <1>4, <1>5, <1>6 DEF RoomInOrder
  <1> QED  BY <1>1, <1>7

LEMMA BecomesRoom ==
  ASSUME RInv, NEW d \in Docs, NEW flags \in SUBSET {INLINE, STATIC, RDONLY, NO_FREE},
         NEW len \in Nat, NEW m \in Seq(Byte), NEW bytes \in Seq(Byte), NEW new,
         Becomes(d, Bson(flags, len), m, bytes, new), len >= 5, len <= Len(m),
         INLINE \in flags => Len(m) = InlineCap
  PROVE  RInv'
  <1>1. PICK w : w = Written(m, 0, bytes) /\ w \in Seq(Byte) /\ Len(w) = Len(m)
    BY WrittenIs
  <1>2. flags \in SUBSET Flags /\ CHILD \notin flags /\ IN_CHILD \notin flags
    BY DEF Flags, INLINE, STATIC, RDONLY, NO_FREE, CHILD, IN_CHILD
  <1>3. PICK b \in BsonT : /\ b = Bson(flags, len) /\ b.flags = flags /\ b.len = len
                           /\ b.offset = 0 /\ b.depth = 0
    BY <1>2, BsonTIs
  <1>4. RoomInOrder(<<b>>, w)
    BY <1>1, <1>2, <1>3, OneInOrder
  <1>5. open' = [open EXCEPT ![d] = <<b>>] /\ mem' = [mem EXCEPT ![d] = w] /\ kept' = kept
    BY <1>1, <1>3 DEF Becomes
  <1> QED  BY <1>4, <1>5, OneRoom

\* A document begins in memory of its own.
LEMMA BecomesMalloc ==
  ASSUME RInv, NEW d \in Docs, NEW flags \in SUBSET {INLINE, STATIC, RDONLY, NO_FREE},
         NEW len \in Nat, NEW n \in Nat, NEW bytes \in Seq(Byte), NEW new,
         Becomes(d, Bson(flags, len), Malloc(n), bytes, new), len >= 5, len <= n,
         INLINE \in flags => n = InlineCap
  PROVE  RInv'
  <1>1. PICK m \in Seq(Byte) : m = Malloc(n) /\ Len(m) = n
    BY MallocBytes
  <1> QED  BY <1>1, BecomesRoom

\* A document in which nothing is open, and its bytes.
LEMMA DataIs ==
  ASSUME RInv, NEW s \in Docs, Live(s), Closed(s)
  PROVE  /\ Root(s).len \in Nat /\ Root(s).len >= 5 /\ Root(s).len <= Len(mem[s])
         /\ mem[s] \in Seq(Byte) /\ Data(s) \in Seq(Byte) /\ Len(Data(s)) = Root(s).len
         /\ INLINE \in Root(s).flags => Len(mem[s]) = InlineCap
  <1>1. RoomInOrder(open[s], mem[s]) /\ Len(open[s]) = 1 /\ mem[s] \in Seq(Byte)
    BY DEF RInv, Closed, RoomInOrder
  <1>2. PICK b \in BsonT : b = open[s][1]
    BY <1>1 DEF RoomInOrder
  <1>3. FlagsInOrder(open[s], 1, Len(mem[s])) /\ PlaceInOrder(open[s], 1, Len(mem[s]))
    BY <1>1 DEF RoomInOrder
  <1>4. b.len \in Nat /\ b.len >= 5 /\ b.len <= Len(mem[s]) /\ b.offset = 0
    BY <1>2, <1>3 DEF PlaceInOrder, BsonT
  <1>5. INLINE \in b.flags => Len(mem[s]) = InlineCap
    BY <1>2, <1>3 DEF FlagsInOrder
  <1>6. Slice(mem[s], 0, b.len) \in Seq(Byte) /\ Len(Slice(mem[s], 0, b.len)) = b.len
    BY <1>1, <1>4, SliceIs
  <1> QED  BY <1>1, <1>2, <1>4, <1>5, <1>6 DEF Root, Data, bson_get_data

\* A document of the size that is asked for, or an empty one, fits.
LEMMA InlineFits ==
  ASSUME NEW l \in Nat, NEW size \in Nat, NEW cap \in Nat,
         cap >= 5, size <= cap, l <= size \/ l = 5
  PROVE  l <= cap
  OBVIOUS

LEMMA SizedRoom ==
  ASSUME SizesAssumption, RInv, NEW d \in Docs, NEW bytes \in Seq(Byte), NEW size \in Nat,
         SizedNew(d, size, bytes), NEW l \in Nat, l = Len(bytes), l >= 5, l <= size \/ l = 5
  PROVE  RInv'
  <1>1. InlineCap \in Nat /\ InlineCap >= 5
    BY DEF SizesAssumption
  <1>2. CASE size <= InlineCap
    <2>1. l <= InlineCap
      BY <1>1, <1>2, InlineFits, Zenon
    <2>2. Becomes(d, Bson({INLINE}, l), Malloc(InlineCap), bytes, {<<d, "struct">>})
      BY <1>2 DEF SizedNew
    <2> QED  BY <1>1, <2>1, <2>2, BecomesMalloc
  <1>3. CASE ~(size <= InlineCap)
    <2>1. l <= size
      BY <1>1, <1>3
    <2>2. Becomes(d, Bson({}, l), Malloc(size), bytes, {<<d, "struct">>, <<d, "block">>})
      BY <1>3 DEF SizedNew
    <2>3. INLINE \notin {}
      OBVIOUS
    <2> QED  BY <2>1, <2>2, <2>3, BecomesMalloc
  <1> QED  BY <1>2, <1>3

LEMMA BeginsRoom ==
  ASSUME SizesAssumption, ContentsAssumption, RInv, NEW d \in Docs, Begins(d)
  PROVE  RInv'
  <1>1. InlineCap \in Nat /\ InlineCap >= 5 /\ Sizes \subseteq Nat
    BY DEF SizesAssumption
  <1>2. PICK five \in Seq(Byte) : five = Five /\ Len(five) = 5
    BY FiveIs
  <1>3. PICK l5 \in Nat : l5 = 5 /\ l5 >= 5 /\ l5 <= InlineCap
    BY <1>1
  <1>4. CASE bson_init(d)
    <2>1. Becomes(d, Bson({INLINE, STATIC}, l5), Malloc(InlineCap), five, {})
      BY <1>2, <1>4, <1>3 DEF bson_init
    <2> QED  BY <1>1, <1>3, <2>1, BecomesMalloc
  <1>5. CASE bson_new(d)
    <2>1. Becomes(d, Bson({INLINE}, l5), Malloc(InlineCap), five, {<<d, "struct">>})
      BY <1>2, <1>5, <1>3 DEF bson_new
    <2> QED  BY <1>1, <1>3, <2>1, BecomesMalloc
  <1>6. ASSUME NEW size \in Sizes, bson_sized_new(d, size) PROVE RInv'
    <2>1. SizedNew(d, size, five) /\ size \in Nat
      BY <1>1, <1>2, <1>6 DEF bson_sized_new
    <2> QED  BY <1>2, <1>3, <2>1, SizedRoom
  <1>7. ASSUME NEW m \in Buffers, bson_init_static_of(d, m) PROVE RInv'
    <2>1. m \in Seq(Byte)
      BY DEF ContentsAssumption
    <2>2. PICK l \in Nat : l = Len(m) /\ l >= 5
      <3>1. Len(m) >= 5
        BY <1>7, Zenon DEF bson_init_static_of, bson_init_static
      <3> QED  BY <2>1, <3>1
    <2>3. Becomes(d, Bson({STATIC, RDONLY}, l), m, <<>>, {})
      BY <1>7, <2>2 DEF bson_init_static_of
    <2>4. PICK f \in SUBSET {INLINE, STATIC, RDONLY, NO_FREE} :
            f = {STATIC, RDONLY} /\ INLINE \notin f
      <3>1. {STATIC, RDONLY} \subseteq {INLINE, STATIC, RDONLY, NO_FREE}
        OBVIOUS
      <3>2. INLINE \notin {STATIC, RDONLY}
        BY DEF INLINE, STATIC, RDONLY
      <3> QED  BY <3>1, <3>2
    <2>5. PICK e \in Seq(Byte) : e = <<>>
      BY EmptyIs
    <2>6. Becomes(d, Bson(f, l), m, e, {})
      BY <2>3, <2>4, <2>5
    <2>7. l <= Len(m)
      BY <2>2
    <2> QED  BY <2>1, <2>2, <2>4, <2>6, <2>7, BecomesRoom
  <1>8. ASSUME NEW m \in Buffers, bson_new_from_buffer(d, m) PROVE RInv'
    <2>1. INLINE \notin {NO_FREE}
      BY DEF INLINE, NO_FREE
    <2>2. m \in Seq(Byte) /\ (Len(m) >= 5 => U32At(m, 0) \in 5 .. Len(m))
      BY DEF ContentsAssumption
    <2>3. CASE m = <<>>
      <3>1. Becomes(d, Bson({NO_FREE}, l5), Malloc(l5), five, {<<d, "struct">>, <<d, "caller">>})
        BY <1>2, <1>8, <1>3, <2>3 DEF bson_new_from_buffer
      <3>2. l5 <= l5
        OBVIOUS
      <3> QED  BY <1>2, <1>3, <2>1, <3>1, <3>2, BecomesMalloc
    <2>4. CASE m # <<>>
      <3>1. /\ Len(m) >= 5
            /\ Becomes(d, Bson({NO_FREE}, U32At(m, 0)), m, <<>>, {<<d, "struct">>, <<d, "caller">>})
        BY <1>8, <2>4 DEF bson_new_from_buffer
      <3>2. PICK l \in Nat : l = U32At(m, 0) /\ l >= 5 /\ l <= Len(m)
        BY <2>2, <3>1
      <3> QED  BY <2>1, <2>2, <3>1, <3>2, EmptyIs, BecomesRoom
    <2> QED  BY <2>3, <2>4
  <1> QED  BY <1>4, <1>5, <1>6, <1>7, <1>8 DEF Begins

\* The pairs that are copied are bytes.
LEMMA AllPairsAre ==
  ASSUME NEW m \in Seq(Byte), NEW its \in Seq(PairsOf(m)), NEW exclude
  PROVE  AllPairs(its, exclude) \in Seq(Byte)
  <1> DEFINE n == Len(its)
             S == Seq(Byte)
             Join(w, i) == w \o CopiedUnless(its[i], exclude)
             Joins(r) == [i \in 0 .. n |->
                           IF i = 0 THEN <<>> ELSE Join(r[i - 1], i)]
             joined == CHOOSE r : r = Joins(r)
             step == [i \in 1 .. n |-> [w \in S |-> Join(w, i)]]
  <1>1. ASSUME NEW i \in 1 .. n PROVE CopiedUnless(its[i], exclude) \in S
    <2>1. OnPair(its[i])
      BY DEF PairsOf
    <2>2. AppendInOrder(CopyOf(its[i]))
      BY <2>1, KeyIs, AppendIterIs DEF CopyOf
    <2> QED  BY <2>2, EmptyIs DEF CopiedUnless, AppendInOrder
  <1>2. n \in Nat /\ <<>> \in S
    OBVIOUS
  <1> HIDE DEF n, S
  <1>3. ASSUME NEW i \in 1 .. n, NEW w \in S PROVE Join(w, i) \in S
    BY <1>1 DEF S
  <1>4. step \in StepsOn(S, n)
    BY <1>3 DEF StepsOn
  <1>5. PICK r \in [0 .. n -> S] : r[0] = <<>> /\ \A i \in 1 .. n : r[i] = step[i][r[i - 1]]
    <2> HIDE DEF step
    <2>1. Walks(S, n, <<>>, step) # {}
      BY <1>2, <1>4, StepByStep
    <2> QED  BY <2>1 DEF Walks
  <1>6. r = Joins(r)
    <2> HIDE DEF Join
    <2>1. ASSUME NEW i \in 1 .. n
          PROVE  r[i] = Join(r[i - 1], i)
      <3>1. r[i - 1] \in S
        BY <1>2, <1>5
      <3>2. step[i] = [w \in S |-> Join(w, i)]
        OBVIOUS
      <3>3. r[i] = step[i][r[i - 1]]
        BY <1>5
      <3> QED  BY <3>1, <3>2, <3>3
    <2>2. \A i \in 0 .. n : r[i] = Joins(r)[i]
      BY <1>2, <1>5, <2>1
    <2> QED  BY <2>2
  <1>7. joined = Joins(joined)
    <2> HIDE DEF Joins
    <2> QED  BY <1>6
  <1>8. AllPairs(its, exclude) = joined[n]
    BY DEF AllPairs, n
  <1>9. joined[0] = <<>> /\ \A i \in 1 .. n : joined[i] = Join(joined[i - 1], i)
    <2> HIDE DEF joined, Join
    <2> QED  BY <1>2, <1>7
  <1>10. 0 .. n \subseteq {i \in 0 .. n : joined[i] \in S}
    <2> DEFINE T == {i \in 0 .. n : joined[i] \in S}
    <2> HIDE DEF joined, Join
    <2>1. 0 \in T
      BY <1>2, <1>9
    <2>2. ASSUME NEW i \in 0 .. n - 1, i \in T PROVE i + 1 \in T
      <3>1. i + 1 \in 1 .. n /\ (i + 1) - 1 = i /\ i + 1 \in 0 .. n
        BY <1>2
      <3>2. joined[i + 1] = Join(joined[i], i + 1)
        BY <1>9, <3>1
      <3>3. Join(joined[i], i + 1) \in S
        BY <1>3, <2>2, <3>1
      <3> QED  BY <3>1, <3>2, <3>3
    <2> HIDE DEF T
    <2>3. 0 .. n \subseteq T
      BY <1>2, <2>1, <2>2, UpTo
    <2> QED  BY <2>3 DEF T
  <1> HIDE DEF joined
  <1>11. joined[n] \in S
    BY <1>2, <1>10
  <1> QED  BY <1>8, <1>11 DEF S

LEMMA FilledRoom ==
  ASSUME SizesAssumption, RInv, NEW d \in Docs, NEW bytes \in Seq(Byte), Filled(d, bytes)
  PROVE  RInv'
  <1>1. InlineCap \in Nat
    BY DEF SizesAssumption
  <1>2. PICK l \in Nat : l = 5 + Len(bytes) /\ l >= 5
    OBVIOUS
  <1>3. PICK all : all = LE(l, 4) \o bytes \o <<0>> /\ all \in Seq(Byte)
    <2>1. PICK a : a = LE(l, 4) /\ a \in Seq(Byte)
      BY LEIs
    <2>2. PICK z : z = <<0>> /\ z \in Seq(Byte)
      BY BytesAre, OneByteIs
    <2>3. a \o bytes \in Seq(Byte)
      BY <2>1
    <2>4. (a \o bytes) \o z \in Seq(Byte)
      BY <2>2, <2>3
    <2> QED  BY <2>1, <2>2, <2>4
  <1>4. CASE l <= InlineCap
    <2>1. Becomes(d, Bson({INLINE, STATIC}, l), Malloc(InlineCap), all, {})
      BY <1>2, <1>3, <1>4 DEF Filled
    <2> QED  BY <1>1, <1>2, <1>3, <1>4, <2>1, BecomesMalloc
  <1>5. CASE ~(l <= InlineCap)
    <2>1. PICK p \in BlockFor(l) : Becomes(d, Bson({STATIC}, l), Malloc(p), all, {<<d, "block">>})
      BY <1>2, <1>3, <1>5 DEF Filled
    <2>2. p \in Nat /\ l <= p
      BY <2>1, BlockIs
    <2>3. INLINE \notin {STATIC}
      BY DEF INLINE, STATIC
    <2> QED  BY <1>2, <1>3, <2>1, <2>2, <2>3, BecomesMalloc
  <1> QED  BY <1>4, <1>5

LEMMA CopiesRoom ==
  ASSUME SizesAssumption, RInv, NEW d \in Docs, NEW s \in Docs, Copies(d, s)
  PROVE  RInv'
  <1>1. Closed(s) /\ Live(s)
    BY DEF Copies, bson_copy, bson_copy_to, bson_copy_to_excluding
  <1>2. PICK l \in Nat : l = Root(s).len /\ l >= 5 /\ l <= Len(mem[s])
    BY <1>1, DataIs
  <1>3. /\ mem[s] \in Seq(Byte) /\ Data(s) \in Seq(Byte) /\ Len(Data(s)) = l
        /\ INLINE \in Root(s).flags => Len(mem[s]) = InlineCap
    BY <1>1, <1>2, DataIs
  <1>4. CASE bson_copy(d, s)
    BY <1>2, <1>3, <1>4, SizedRoom DEF bson_copy, bson_new_from_data
  <1>5. CASE bson_copy_to(d, s)
    <2>1. CASE INLINE \in Root(s).flags
      <3>1. Becomes(d, Bson({STATIC, INLINE}, l), mem[s], <<>>, {})
        BY <1>2, <1>5, <2>1 DEF bson_copy_to
      <3> QED  BY <1>2, <1>3, <2>1, <3>1, EmptyIs, BecomesRoom
    <2>2. CASE INLINE \notin Root(s).flags
      <3>1. PICK p \in bson_next_power_of_two(l) :
              Becomes(d, Bson({STATIC}, l), Malloc(p), Data(s), {<<d, "block">>})
        BY <1>2, <1>5, <2>2 DEF bson_copy_to
      <3>2. p \in Nat /\ l <= p
        BY <3>1 DEF bson_next_power_of_two, Powers
      <3>3. INLINE \notin {STATIC}
        BY DEF INLINE, STATIC
      <3> QED  BY <1>2, <1>3, <3>1, <3>2, <3>3, BecomesMalloc
    <2> QED  BY <2>1, <2>2
  <1>6. ASSUME NEW k \in Keys, bson_copy_to_excluding(d, s, k) PROVE RInv'
    <2>1. PairsIn(s) \in Seq(PairsOf(Data(s)))
      BY <1>3, WalkIs DEF PairsIn
    <2>2. AllPairs(PairsIn(s), k) \in Seq(Byte)
      BY <1>3, <2>1, AllPairsAre
    <2>3. Filled(d, AllPairs(PairsIn(s), k))
      BY <1>6 DEF bson_copy_to_excluding
    <2> QED  BY <2>2, <2>3, FilledRoom
  <1> QED  BY <1>4, <1>5, <1>6 DEF Copies

(* Writing.                                                                *)

LEMMA FitsIn ==
  ASSUME NEW at \in Nat, NEW len \in Nat, NEW depth \in Nat, NEW n \in Nat, NEW k \in Nat,
         NEW r \in Nat, len >= 5, k <= n, at + len + n + depth <= r
  PROVE  len + k \in Nat /\ len + k >= 5 /\ at + (len + k) + depth <= r
  OBVIOUS

\* The innermost document takes bytes, for which no less room is asked for.
LEMMA TakesRoom ==
  ASSUME SizesAssumption, RInv, NEW d \in Docs, NEW n \in Nat, NEW bytes \in Seq(Byte),
         Len(bytes) <= n, Takes(d, n, bytes)
  PROVE  RInv'
  <1>1. Live(d)
    BY DEF Takes, IsWritable
  <1>2. PICK b \in BsonT : b = Innermost(d)
    BY <1>1, TopIs
  <1>3. /\ RoomInOrder(open[d], mem[d]) /\ open[d] # <<>> /\ b = open[d][Len(open[d])]
        /\ PlaceInOrder(open[d], Len(open[d]), Len(mem[d]))
        /\ mem[d] \in Seq(Byte)
        /\ INLINE \in b.flags => Len(mem[d]) = InlineCap /\ b.offset = 0 /\ b.depth = 0
    BY <1>1, <1>2, TopIs
  <1>4. /\ b.len \in Nat /\ b.offset \in Nat /\ b.depth \in Nat /\ b.len >= 5
        /\ b.offset + b.len + b.depth <= Len(mem[d])
    BY <1>2, <1>3 DEF PlaceInOrder, BsonT
  <1>5. PICK m \in bson_grow(mem[d], b, n) :
          /\ open' = ReplaceInnermost(d, [Outgrown(b, m) EXCEPT !.len = @ + Len(bytes)])
          /\ mem' = [mem EXCEPT ![d] = Appended(m, b, bytes)]
          /\ kept' = kept
    BY <1>2 DEF Takes
  <1>6. /\ m \in Seq(Byte) /\ Len(mem[d]) <= Len(m)
        /\ b.offset + b.len + n + b.depth <= Len(m)
    <2>1. CASE INLINE \in b.flags
      <3>1. m \in inline_grow(mem[d], b, n)
        BY <1>5, <2>1 DEF bson_grow
      <3>2. InlineCap \in Nat /\ b.len <= Len(mem[d]) /\ n \in Int
        BY <1>3, <1>4, <2>1 DEF SizesAssumption
      <3>3. m \in Seq(Byte) /\ Len(mem[d]) <= Len(m) /\ b.len + n <= Len(m)
        BY <1>3, <2>1, <3>1, <3>2, InlineGrowIs
      <3> QED  BY <1>3, <1>4, <2>1, <3>3
    <2>2. CASE INLINE \notin b.flags
      <3>1. m \in alloc_grow(mem[d], b, n)
        BY <1>5, <2>2 DEF bson_grow
      <3> QED  BY <1>3, <3>1, AllocGrowIs
    <2> QED  BY <2>1, <2>2
  <1>7. PICK c \in BsonT : /\ c = Outgrown(b, m)
                           /\ c.len = b.len /\ c.offset = b.offset /\ c.depth = b.depth
                           /\ c.flags = b.flags \/ c.flags = b.flags \ {INLINE}
                           /\ INLINE \in c.flags => Len(m) = InlineCap
    BY OutgrownIs
  <1>8. PICK l \in Nat : l = b.len + Len(bytes) /\ l >= 5 /\ b.offset + l + b.depth <= Len(m)
    <2>1. PICK k \in Nat : k = Len(bytes) /\ k <= n
      OBVIOUS
    <2>2. PICK r \in Nat : r = Len(m) /\ b.offset + b.len + n + b.depth <= r
      BY <1>6
    <2>3. PICK bl \in Nat, bo \in Nat, bd \in Nat :
            bl = b.len /\ bo = b.offset /\ bd = b.depth /\ bl >= 5 /\ bo + bl + n + bd <= r
      BY <1>4, <2>2
    <2>4. PICK l \in Nat : l = bl + k /\ l >= 5 /\ bo + l + bd <= r
      <3>1. bl + k \in Nat /\ bl + k >= 5 /\ bo + (bl + k) + bd <= r
        BY <2>1, <2>3, FitsIn, Zenon
      <3> QED  BY <3>1, Zenon
    <2> QED  BY <2>1, <2>2, <2>3, <2>4
  <1>9. PICK x : x = [c EXCEPT !.len = l]
    OBVIOUS
  <1>10. /\ x \in BsonT /\ x.len = l /\ x.offset = b.offset /\ x.depth = b.depth
         /\ x.flags = c.flags
    BY <1>7, <1>9 DEF BsonT
  <1>11. PICK w \in Seq(Byte) : w = Appended(m, b, bytes) /\ Len(w) = Len(m)
    BY <1>6, AppendedIs
  <1>12. RoomInOrder([open[d] EXCEPT ![Len(open[d])] = x], w)
    <2>1. INLINE \in x.flags => Len(w) = InlineCap
      BY <1>7, <1>10, <1>11
    <2>2. x.flags = b.flags \/ x.flags = b.flags \ {INLINE}
      BY <1>7, <1>10
    <2>3. Len(mem[d]) <= Len(w) /\ x.len >= 5 /\ x.offset + x.len + x.depth <= Len(w)
      BY <1>6, <1>8, <1>10, <1>11
    <2> QED  BY <1>3, <1>10, <2>1, <2>2, <2>3, ReplacedRoom
  <1>13. open' = [open EXCEPT ![d] = [open[d] EXCEPT ![Len(open[d])] = x]]
    BY <1>5, <1>7, <1>8, <1>9 DEF ReplaceInnermost
  <1> QED  BY <1>5, <1>11, <1>12, <1>13, OneRoom

LEMMA AppendRoom ==
  ASSUME SizesAssumption, RInv, NEW d \in Docs, NEW a, AppendInOrder(a), bson_append(d, a)
  PROVE  RInv'
  <1>1. a.bytes \in Seq(Byte) /\ a.n_bytes \in Nat /\ Len(a.bytes) <= a.n_bytes
    BY DEF AppendInOrder
  <1> QED  BY <1>1, TakesRoom DEF bson_append

LEMMA RoomStays ==
  ASSUME RInv, open' = open, mem' = mem, kept' = kept
  PROVE  RInv'
  BY DEF RInv

LEMMA ConcatRoom ==
  ASSUME SizesAssumption, RInv, NEW d \in Docs, NEW s \in Docs, bson_concat(d, s)
  PROVE  RInv'
  <1>1. Live(s) /\ Closed(s)
    BY DEF bson_concat
  <1>2. CASE bson_empty(Data(s))
    BY <1>2, RoomStays DEF bson_concat, vars
  <1>3. CASE ~bson_empty(Data(s))
    <2>1. PICK l \in Nat : l = Root(s).len /\ l >= 5 /\ l <= Len(mem[s]) /\ mem[s] \in Seq(Byte)
      BY <1>1, DataIs
    <2>2. l # 5
      BY <1>1, <1>3, <2>1, DataIs DEF bson_empty
    <2>3. PICK n \in Nat : n = l - 5 /\ 4 + n <= Len(mem[s])
      BY <2>1, <2>2
    <2>4. PICK bytes \in Seq(Byte) : bytes = Slice(mem[s], 4, n) /\ Len(bytes) = n
      <3>1. PICK q \in Nat : q = 4 /\ q + n <= Len(mem[s])
        BY <2>3
      <3>2. Slice(mem[s], q, n) \in Seq(Byte) /\ Len(Slice(mem[s], q, n)) = n
        BY <2>1, <3>1, SliceOfBytes, Zenon
      <3> QED  BY <3>1, <3>2
    <2>5. Takes(d, n, bytes)
      <3>1. Takes(d, Root(s).len - 5, Slice(mem[s], 4, Root(s).len - 5))
        BY <1>3, Zenon DEF bson_concat
      <3> QED  BY <2>1, <2>3, <2>4, <3>1, Zenon
    <2>6. Len(bytes) <= n
      BY <2>4
    <2> QED  BY <2>4, <2>5, <2>6, TakesRoom
  <1> QED  BY <1>2, <1>3

LEMMA ReinitRoom ==
  ASSUME RInv, NEW d \in Docs, bson_reinit(d)
  PROVE  RInv'
  <1>1. Live(d)
    BY DEF bson_reinit, IsWritable
  <1>2. PICK b \in BsonT : b = Innermost(d)
    BY <1>1, TopIs
  <1>3. /\ RoomInOrder(open[d], mem[d]) /\ open[d] # <<>> /\ b = open[d][Len(open[d])]
        /\ PlaceInOrder(open[d], Len(open[d]), Len(mem[d]))
        /\ mem[d] \in Seq(Byte)
        /\ INLINE \in b.flags => Len(mem[d]) = InlineCap
    BY <1>1, <1>2, TopIs
  <1>4. PICK n \in Nat : n = Len(mem[d])
    BY <1>3
  <1>5. /\ b.len \in Nat /\ b.offset \in Nat /\ b.depth \in Nat /\ b.len >= 5
        /\ b.offset + b.len + b.depth <= n
    BY <1>2, <1>3, <1>4 DEF PlaceInOrder, BsonT
  <1>6. PICK x : x = [b EXCEPT !.len = 5]
    OBVIOUS
  <1>7. /\ x \in BsonT /\ x.len = 5 /\ x.offset = b.offset /\ x.depth = b.depth
        /\ x.flags = b.flags
    BY <1>6 DEF BsonT
  <1>8. PICK bytes \in Seq(Byte) : bytes = Slice(mem[d], 0, b.offset) \o Five
    <2>1. 0 + b.offset <= Len(mem[d])
      BY <1>4, <1>5
    <2>2. PICK a \in Seq(Byte) : a = Slice(mem[d], 0, b.offset)
      BY <1>3, <1>5, <2>1, SliceIs
    <2>3. PICK f \in Seq(Byte) : f = Five
      BY FiveIs
    <2>4. a \o f \in Seq(Byte)
      OBVIOUS
    <2> QED  BY <2>2, <2>3, <2>4
  <1>9. PICK w \in Seq(Byte) : w = Written(Malloc(n), 0, bytes) /\ Len(w) = n
    BY MallocBytes, WrittenIs
  <1>10. RoomInOrder([open[d] EXCEPT ![Len(open[d])] = x], w)
    <2>1. Len(mem[d]) <= Len(w) /\ x.len >= 5 /\ x.offset + x.len + x.depth <= Len(w)
      BY <1>4, <1>5, <1>7, <1>9
    <2>2. INLINE \in x.flags => Len(w) = InlineCap
      BY <1>3, <1>4, <1>7, <1>9
    <2> QED  BY <1>3, <1>7, <2>1, <2>2, ReplacedRoom
  <1>11. /\ open' = [open EXCEPT ![d] = [open[d] EXCEPT ![Len(open[d])] = x]]
         /\ mem' = [mem EXCEPT ![d] = w] /\ kept' = kept
    BY <1>2, <1>4, <1>6, <1>8, <1>9 DEF bson_reinit, ReplaceInnermost
  <1> QED  BY <1>10, <1>11, OneRoom

LEMMA WritesRoom ==
  ASSUME SizesAssumption, ContentsAssumption, RInv, NEW d \in Docs, Writes(d)
  PROVE  RInv'
  <1>1. ASSUME NEW a \in Appends, bson_append(d, a) PROVE RInv'
    <2>1. AppendInOrder(a)
      BY DEF ContentsAssumption, AppendInOrder
    <2> QED  BY <1>1, <2>1, AppendRoom
  <1>2. CASE \E a \in Appends : bson_append_fails(d, a)
    BY <1>2, RoomStays DEF bson_append_fails, vars
  <1>3. CASE \E s \in Docs : bson_concat(d, s)
    BY <1>3, ConcatRoom
  <1>4. ASSUME NEW s \in Docs, NEW k \in Keys, NEW t \in Nested,
               bson_append_container(d, k, t, s)
        PROVE  RInv'
    <2>1. Live(s) /\ Closed(s)
      BY <1>4 DEF bson_append_container
    <2>2. Data(s) \in Seq(Byte) /\ k \in Seq(Byte)
      BY <2>1, DataIs DEF ContentsAssumption
    <2>3. /\ AppendInOrder(bson_append_document(k, Data(s)))
          /\ AppendInOrder(bson_append_array(k, Data(s)))
      BY <2>2, ContainersAppend
    <2>4. \/ bson_append(d, bson_append_document(k, Data(s)))
          \/ bson_append(d, bson_append_array(k, Data(s)))
      BY <1>4 DEF bson_append_container
    <2> QED  BY <2>3, <2>4, AppendRoom
  <1>5. CASE bson_reinit(d)
    BY <1>5, ReinitRoom
  <1>6. ASSUME NEW k \in Keys, bson_append(d, bson_append_value(k, kept)) PROVE RInv'
    <2>1. k \in Seq(Byte) /\ ValueInOrder(kept) /\ kept.value_type \in Nat
      BY DEF ContentsAssumption, RInv
    <2>2. AppendInOrder(bson_append_value(k, kept))
      BY <2>1, AppendValueIs
    <2> QED  BY <1>6, <2>2, AppendRoom
  <1> QED  BY <1>1, <1>2, <1>3, <1>4, <1>5, <1>6 DEF Writes

(* Documents inside documents.                                             *)

\* The last of a stack is replaced, and one more put on it.
LEMMA PushedIs ==
  ASSUME NEW S, NEW o \in Seq(S), o # <<>>, NEW b \in S, NEW c \in S
  PROVE  PushedOn(o, b, c) \in Seq(S)
  <1>1. PICK n \in Nat : n = Len(o) /\ n > 0
    OBVIOUS
  <1>2. PICK u : u = SubSeq(o, 1, n - 1)
    OBVIOUS
  <1>3. u \in Seq(S)
    BY <1>1, <1>2
  <1>4. Append(u, b) \o <<c>> \in Seq(S)
    BY <1>3
  <1> QED  BY <1>1, <1>2, <1>4 DEF PushedOn

\* The empty child ends where its parent did.
LEMMA ChildFits ==
  ASSUME NEW at \in Nat, NEW len \in Nat, NEW depth \in Nat, NEW n \in Nat,
         at + len + depth <= n
  PROVE  (at + len - 1 - 5) + 5 + (depth + 1) <= n
  OBVIOUS

\* A child begins in the innermost document.
LEMMA PushedRoom ==
  ASSUME NEW o, NEW m, RoomInOrder(o, m), o # <<>>, NEW a, a = o[Len(o)],
         NEW b \in BsonT, NEW c \in BsonT, NEW w \in Seq(Byte), Len(m) <= Len(w),
         b.offset = a.offset, b.depth = a.depth, b.len >= 5,
         b.offset + b.len + b.depth <= Len(w),
         INLINE \notin b.flags, IN_CHILD \in b.flags, CHILD \in b.flags <=> CHILD \in a.flags,
         c.offset = b.offset + b.len - 1 - 5, c.depth = b.depth + 1, c.len = 5,
         c.flags = {CHILD, NO_FREE, STATIC}
  PROVE  RoomInOrder(PushedOn(o, b, c), w)
  <1>1. o \in Seq(BsonT) /\ m \in Seq(Byte)
    BY DEF RoomInOrder
  <1>2. PICK k \in Nat : k = Len(o) /\ k > 0
    BY <1>1
  <1>3. PICK t : t = PushedOn(o, b, c)
    OBVIOUS
  <1>4. t \in Seq(BsonT)
    BY <1>1, <1>3, PushedIs
  <1>5. /\ Len(t) = k + 1 /\ t[k] = b /\ t[k + 1] = c
        /\ \A i \in 1 .. k - 1 : t[i] = o[i]
    BY <1>1, <1>2, <1>3, Pushed DEF IsStack
  <1>6. PICK l \in Nat, n \in Nat : l = Len(m) /\ n = Len(w) /\ l <= n
    BY <1>1
  <1>7. ASSUME NEW i \in 1 .. k PROVE FlagsInOrder(o, i, l) /\ PlaceInOrder(o, i, l)
    BY <1>2, <1>6 DEF RoomInOrder
  <1>8. FlagsInOrder(o, k, l) /\ PlaceInOrder(o, k, l) /\ a = o[k]
    BY <1>2, <1>7
  <1>9. FlagsInOrder(t, k, n) /\ PlaceInOrder(t, k, n)
    <2>1. FlagsInOrder(t, k, n)
      BY <1>2, <1>5, <1>8 DEF FlagsInOrder
    <2>2. k > 1 => t[k - 1] = o[k - 1]
      <3>1. k > 1 => k - 1 \in 1 .. k - 1
        OBVIOUS
      <3> QED  BY <1>5, <3>1
    <2>3. PlaceInOrder(t, k, n)
      BY <1>5, <1>6, <1>8, <2>2 DEF PlaceInOrder
    <2> QED  BY <2>1, <2>3
  <1>10. FlagsInOrder(t, k + 1, n) /\ PlaceInOrder(t, k + 1, n)
    <2>1. INLINE \notin c.flags /\ CHILD \in c.flags /\ IN_CHILD \notin c.flags
      BY DEF INLINE, CHILD, IN_CHILD, NO_FREE, STATIC
    <2>2. FlagsInOrder(t, k + 1, n)
      BY <1>2, <1>5, <2>1 DEF FlagsInOrder
    <2>3. PICK bl \in Nat, bo \in Nat, bd \in Nat :
            bl = b.len /\ bo = b.offset /\ bd = b.depth /\ bo + bl + bd <= n
      BY <1>6 DEF BsonT
    <2>4. bd = k - 1
      BY <1>8, <2>3 DEF PlaceInOrder
    <2>5. c.depth = (k + 1) - 1 /\ c.len >= 5 /\ c.offset + c.len + c.depth <= n
      <3>1. c.offset = bo + bl - 1 - 5 /\ c.len = 5 /\ c.depth = bd + 1
        BY <2>3
      <3>2. (bo + bl - 1 - 5) + 5 + (bd + 1) <= n
        BY <2>3, ChildFits
      <3>3. c.depth = (k + 1) - 1
        BY <2>4, <3>1
      <3> QED  BY <3>1, <3>2, <3>3
    <2>6. k + 1 > 1 /\ (k + 1) - 1 = k /\ k + 1 # 1
      BY <1>2
    <2>7. c.offset = t[k].offset + t[k].len - 1 - 5
      BY <1>5
    <2> QED  BY <1>5, <2>2, <2>5, <2>6, <2>7 DEF PlaceInOrder
  <1>11. ASSUME NEW i \in 1 .. k - 1 PROVE FlagsInOrder(t, i, n) /\ PlaceInOrder(t, i, n)
    <2>1. FlagsInOrder(o, i, l) /\ PlaceInOrder(o, i, l) /\ t[i] = o[i]
      <3>1. i \in 1 .. k
        OBVIOUS
      <3> QED  BY <1>5, <1>7, <3>1, Zenon
    <2>2. FlagsInOrder(t, i, n)
      BY <1>2, <1>5, <2>1 DEF FlagsInOrder
    <2>3. o[i] \in BsonT
      BY <1>1, <1>2
    <2>4. i > 1 => t[i - 1] = o[i - 1]
      BY <1>5
    <2>5. o[i].offset + o[i].len + o[i].depth <= n
      <3>1. o[i].offset + o[i].len + o[i].depth <= l
        BY <2>1 DEF PlaceInOrder
      <3>2. PICK x \in BsonT : x = o[i]
        BY <2>3
      <3> QED  BY <1>6, <3>1, <3>2, EndsBefore, Zenon
    <2> QED  BY <2>1, <2>2, <2>4, <2>5 DEF PlaceInOrder
  <1>12. \A i \in 1 .. k + 1 : i = k + 1 \/ i = k \/ i \in 1 .. k - 1
    OBVIOUS
  <1>13. RoomInOrder(t, w)
    BY <1>4, <1>5, <1>6, <1>9, <1>10, <1>11, <1>12 DEF RoomInOrder
  <1> QED  BY <1>3, <1>13

\* A bson_t that moves out of itself.
LEMMA MovedOutIs ==
  ASSUME SizesAssumption, RInv, NEW d \in Docs, Live(d), NEW m \in MovedOut(d)
  PROVE  LET b == Innermost(d)
             c == Outgrown(b, m)
         IN  /\ m \in Seq(Byte) /\ Len(mem[d]) <= Len(m)
             /\ c \in BsonT /\ c.len = b.len /\ c.offset = b.offset /\ c.depth = b.depth
             /\ c.flags = b.flags \/ c.flags = b.flags \ {INLINE}
             /\ INLINE \notin c.flags
  <1>1. PICK b \in BsonT : b = Innermost(d)
    BY TopIs
  <1>2. /\ mem[d] \in Seq(Byte)
        /\ INLINE \in b.flags => Len(mem[d]) = InlineCap
        /\ PlaceInOrder(open[d], Len(open[d]), Len(mem[d])) /\ b = open[d][Len(open[d])]
    BY <1>1, TopIs
  <1>3. b.len \in Nat /\ b.len <= Len(mem[d])
    BY <1>1, <1>2 DEF PlaceInOrder, BsonT
  <1>4. InlineCap \in Nat /\ StructSize \in Nat
    BY DEF SizesAssumption
  <1>5. /\ m \in Seq(Byte) /\ Len(mem[d]) <= Len(m)
        /\ INLINE \in b.flags => Len(m) # InlineCap
    <2>1. CASE INLINE \in b.flags
      <3>1. PICK n \in Int : n = StructSize - b.len
        BY <1>3, <1>4
      <3>2. m \in inline_grow(mem[d], b, n) /\ Len(m) # InlineCap
        BY <1>1, <2>1, <3>1 DEF MovedOut
      <3>3. m \in Seq(Byte) /\ Len(mem[d]) <= Len(m)
        BY <1>2, <1>3, <1>4, <2>1, <3>2, InlineGrowIs
      <3> QED  BY <3>2, <3>3
    <2>2. CASE INLINE \notin b.flags
      BY <1>1, <1>2, <2>2 DEF MovedOut
    <2> QED  BY <2>1, <2>2
  <1>6. PICK c : c = Outgrown(b, m)
    OBVIOUS
  <1>7. /\ c \in BsonT /\ c.len = b.len /\ c.offset = b.offset /\ c.depth = b.depth
        /\ c.flags = b.flags \/ c.flags = b.flags \ {INLINE}
        /\ INLINE \in c.flags => INLINE \in b.flags /\ Len(m) = InlineCap
    BY <1>6, OutgrownIs
  <1> QED  BY <1>1, <1>5, <1>6, <1>7

LEMMA BeginFailsRoom ==
  ASSUME SizesAssumption, RInv, NEW d \in Docs, NEW key, bson_append_begin_fails(d, key)
  PROVE  RInv'
  <1>1. Live(d)
    BY DEF bson_append_begin_fails, IsWritable
  <1>2. PICK b \in BsonT : b = Innermost(d)
    BY <1>1, TopIs
  <1>3. /\ RoomInOrder(open[d], mem[d]) /\ open[d] # <<>> /\ b = open[d][Len(open[d])]
        /\ PlaceInOrder(open[d], Len(open[d]), Len(mem[d])) /\ mem[d] \in Seq(Byte)
    BY <1>1, <1>2, TopIs
  <1>4. PICK m \in MovedOut(d) :
          /\ open' = ReplaceInnermost(d, Outgrown(b, m))
          /\ mem' = [mem EXCEPT ![d] = m] /\ kept' = kept
    BY <1>2 DEF bson_append_begin_fails
  <1>5. PICK c : c = Outgrown(b, m)
    OBVIOUS
  <1>6. /\ m \in Seq(Byte) /\ Len(mem[d]) <= Len(m)
        /\ c \in BsonT /\ c.len = b.len /\ c.offset = b.offset /\ c.depth = b.depth
        /\ c.flags = b.flags \/ c.flags = b.flags \ {INLINE}
        /\ INLINE \notin c.flags
    BY <1>1, <1>2, <1>4, <1>5, MovedOutIs
  <1>7. c.len >= 5 /\ c.offset + c.len + c.depth <= Len(m)
    BY <1>2, <1>3, <1>6 DEF PlaceInOrder, BsonT
  <1>8. RoomInOrder([open[d] EXCEPT ![Len(open[d])] = c], m)
    BY <1>3, <1>6, <1>7, ReplacedRoom
  <1>9. open' = [open EXCEPT ![d] = [open[d] EXCEPT ![Len(open[d])] = c]]
    BY <1>4, <1>5 DEF ReplaceInnermost
  <1> QED  BY <1>4, <1>8, <1>9, OneRoom

LEMMA BeginBytesAre ==
  ASSUME NEW t \in Containers, NEW key \in Seq(Byte)
  PROVE  BeginBytes(t, key) \in Seq(Byte)
  <1>1. t \in Byte
    BY TypesAreBytes DEF Containers
  <1>2. PICK a \in Seq(Byte), z \in Seq(Byte), f \in Seq(Byte) : a = <<t>> /\ z = <<0>> /\ f = Five
    BY <1>1, BytesAre, OneByteIs, FiveIs
  <1>3. a \o key \in Seq(Byte)
    OBVIOUS
  <1>4. (a \o key) \o z \in Seq(Byte)
    BY <1>3
  <1>5. ((a \o key) \o z) \o f \in Seq(Byte)
    BY <1>4
  <1> QED  BY <1>2, <1>5 DEF BeginBytes

LEMMA NestedIs ==
  ASSUME NEW at \in Nat, NEW len \in Nat, NEW n \in Nat, len >= 5, n >= 7
  PROVE  len + n \in Nat /\ len + n >= 12 /\ at + (len + n) - 1 - 5 \in Nat
  OBVIOUS

LEMMA BeginRoom ==
  ASSUME SizesAssumption, RInv, NEW d \in Docs, NEW t \in Containers, NEW key \in Seq(Byte),
         bson_append_begin(d, t, key)
  PROVE  RInv'
  <1>1. Live(d)
    BY DEF bson_append_begin, IsWritable
  <1>2. PICK b \in BsonT : b = Innermost(d)
    BY <1>1, TopIs
  <1>3. /\ RoomInOrder(open[d], mem[d]) /\ open[d] # <<>> /\ b = open[d][Len(open[d])]
        /\ PlaceInOrder(open[d], Len(open[d]), Len(mem[d])) /\ mem[d] \in Seq(Byte)
    BY <1>1, <1>2, TopIs
  <1>4. PICK n \in Nat : n = 1 + Len(key) + 1 + 5 /\ n >= 7
    OBVIOUS
  <1>5. PICK m0 \in MovedOut(d) : \E m \in alloc_grow(m0, Outgrown(b, m0), n) :
          LET b0 == Outgrown(b, m0)
              parent == [b0 EXCEPT !.len = @ + n, !.flags = @ \cup {IN_CHILD}]
          IN  /\ open' = [open EXCEPT ![d] =
                   Append(SubSeq(@, 1, Len(@) - 1), parent) \o <<ChildOf(parent)>>]
              /\ mem' = [mem EXCEPT ![d] = Appended(m, b0, BeginBytes(t, key))]
    BY <1>2, <1>4 DEF bson_append_begin
  <1>6. PICK b0 : b0 = Outgrown(b, m0)
    OBVIOUS
  <1>7. PICK m \in alloc_grow(m0, b0, n) :
          LET parent == [b0 EXCEPT !.len = @ + n, !.flags = @ \cup {IN_CHILD}]
          IN  /\ open' = [open EXCEPT ![d] =
                   Append(SubSeq(@, 1, Len(@) - 1), parent) \o <<ChildOf(parent)>>]
              /\ mem' = [mem EXCEPT ![d] = Appended(m, b0, BeginBytes(t, key))]
    BY <1>5, <1>6
  <1>8. /\ m0 \in Seq(Byte) /\ Len(mem[d]) <= Len(m0)
        /\ b0 \in BsonT /\ b0.len = b.len /\ b0.offset = b.offset /\ b0.depth = b.depth
        /\ b0.flags = b.flags \/ b0.flags = b.flags \ {INLINE}
        /\ INLINE \notin b0.flags
    BY <1>1, <1>2, <1>5, <1>6, MovedOutIs
  <1>9. m \in Seq(Byte) /\ Len(m0) <= Len(m) /\ b0.offset + b0.len + n + b0.depth <= Len(m)
    BY <1>8, <1>7, AllocGrowIs
  <1>10. PICK bo \in Nat, bl \in Nat, bd \in Nat :
          bo = b.offset /\ bl = b.len /\ bd = b.depth /\ bl >= 5
    BY <1>2, <1>3 DEF PlaceInOrder, BsonT
  <1>11. PICK l \in Nat, o \in Nat : l = bl + n /\ l >= 12 /\ o = bo + l - 1 - 5
    <2>1. bl + n \in Nat /\ bl + n >= 12 /\ bo + (bl + n) - 1 - 5 \in Nat
      <3>1. bl >= 5 /\ n >= 7
        BY <1>4, <1>10
      <3> QED  BY <3>1, NestedIs
    <2> QED  BY <2>1
  <1>12. PICK f : f = b0.flags \cup {IN_CHILD}
    OBVIOUS
  <1>13. /\ f \in SUBSET Flags /\ INLINE \notin f /\ IN_CHILD \in f
         /\ CHILD \in f <=> CHILD \in b.flags
    <2>1. b0.flags \in SUBSET Flags /\ IN_CHILD \in Flags
      BY <1>8 DEF BsonT, Flags
    <2> QED  BY <1>8, <1>12, <2>1 DEF INLINE, IN_CHILD, CHILD
  <1>14. PICK p : p = [b0 EXCEPT !.len = l, !.flags = f]
    OBVIOUS
  <1>15. p \in BsonT /\ p.flags = f /\ p.len = l /\ p.offset = bo /\ p.depth = bd
    BY <1>8, <1>10, <1>13, <1>14 DEF BsonT
  <1>16. PICK c : c = ChildOf(p)
    OBVIOUS
  <1>17. c \in BsonT /\ c.flags = {CHILD, NO_FREE, STATIC} /\ c.len = 5 /\ c.offset = o /\ c.depth = bd + 1
    <2>1. {CHILD, NO_FREE, STATIC} \in SUBSET Flags
      BY DEF Flags
    <2>2. c = [flags |-> {CHILD, NO_FREE, STATIC}, len |-> 5, offset |-> o, depth |-> bd + 1]
      BY <1>11, <1>15, <1>16 DEF ChildOf
    <2> QED  BY <2>1, <2>2 DEF BsonT
  <1>18. PICK bytes \in Seq(Byte) : bytes = BeginBytes(t, key)
    BY BeginBytesAre
  <1>19. PICK w \in Seq(Byte) : w = Appended(m, b0, bytes) /\ Len(w) = Len(m)
    BY <1>8, <1>9, AppendedIs
  <1>20. PICK r0 \in Nat, r \in Nat : r0 = Len(mem[d]) /\ r = Len(w) /\ r0 <= r /\ bo + l + bd <= r
    <2>1. PICK r0 \in Nat, r1 \in Nat, r \in Nat :
            r0 = Len(mem[d]) /\ r1 = Len(m0) /\ r = Len(m) /\ r0 <= r1 /\ r1 <= r
      BY <1>3, <1>8, <1>9
    <2>2. bo + bl + n + bd <= r
      BY <1>8, <1>9, <1>10, <2>1
    <2>3. bo + l + bd <= r
      BY <1>11, <2>2
    <2> QED  BY <1>19, <2>1, <2>3
  <1>21. RoomInOrder(PushedOn(open[d], p, c), w)
    <2>1. Len(mem[d]) <= Len(w) /\ p.offset + p.len + p.depth <= Len(w) /\ p.len >= 5
      BY <1>11, <1>15, <1>20
    <2>2. p.offset = b.offset /\ p.depth = b.depth /\ (CHILD \in p.flags <=> CHILD \in b.flags)
          /\ INLINE \notin p.flags /\ IN_CHILD \in p.flags
      BY <1>10, <1>13, <1>15
    <2>3. c.offset = p.offset + p.len - 1 - 5 /\ c.depth = p.depth + 1
      BY <1>11, <1>15, <1>17
    <2> QED  BY <1>3, <1>15, <1>17, <2>1, <2>2, <2>3, PushedRoom
  <1>22. open' = [open EXCEPT ![d] = PushedOn(open[d], p, c)]
    <2>1. p = [b0 EXCEPT !.len = @ + n, !.flags = @ \cup {IN_CHILD}]
      BY <1>8, <1>10, <1>11, <1>12, <1>14
    <2> QED  BY <1>16, <1>7, <2>1 DEF PushedOn
  <1>23. mem' = [mem EXCEPT ![d] = w] /\ kept' = kept
    BY <1>18, <1>19, <1>7 DEF bson_append_begin
  <1> QED  BY <1>21, <1>22, <1>23, OneRoom

\* The last of a stack is taken away, and the next one replaced.
LEMMA PoppedIs ==
  ASSUME NEW S, NEW o \in Seq(S), NEW k \in Nat, k = Len(o), k > 1, NEW b \in S
  PROVE  LET t == Append(SubSeq(o, 1, k - 2), b)
         IN  /\ t \in Seq(S) /\ Len(t) = k - 1 /\ t[k - 1] = b
             /\ \A i \in 1 .. k - 2 : t[i] = o[i]
  <1>1. PICK u : u = SubSeq(o, 1, k - 2)
    OBVIOUS
  <1>2. u \in Seq(S) /\ Len(u) = k - 2 /\ \A i \in 1 .. k - 2 : u[i] = o[i]
    BY <1>1
  <1>3. PICK t : t = Append(u, b)
    OBVIOUS
  <1>4. t \in Seq(S) /\ Len(t) = k - 1 /\ t[k - 1] = b /\ \A i \in 1 .. k - 2 : t[i] = o[i]
    BY <1>2, <1>3
  <1> QED  BY <1>1, <1>3, <1>4

\* The parent had room for the child, and a byte to end it.
LEMMA EndedFits ==
  ASSUME NEW at \in Nat, NEW len \in Nat, NEW depth \in Nat, NEW l \in Nat, NEW n \in Nat,
         len >= 5, l >= 5, (at + len - 1 - 5) + l + (depth + 1) <= n
  PROVE  /\ len + l - 5 \in Nat /\ len + l - 5 >= 5 /\ at + (len + l - 5) + depth <= n
         /\ at + (len + l - 5) - 1 \in Int
  OBVIOUS

\* The innermost child ends.
LEMMA PoppedRoom ==
  ASSUME NEW o, NEW m, RoomInOrder(o, m), NEW k \in Nat, k = Len(o), k > 1,
         NEW b \in BsonT, NEW w \in Seq(Byte), Len(w) = Len(m),
         b.offset = o[k - 1].offset, b.depth = o[k - 1].depth, b.len >= 5,
         b.offset + b.len + b.depth <= Len(w),
         b.flags = o[k - 1].flags \ {IN_CHILD}
  PROVE  RoomInOrder(Append(SubSeq(o, 1, k - 2), b), w)
  <1>1. o \in Seq(BsonT)
    BY DEF RoomInOrder
  <1>2. PICK t : t = Append(SubSeq(o, 1, k - 2), b)
    OBVIOUS
  <1>3. t \in Seq(BsonT)
    BY <1>1, <1>2, PoppedIs
  <1>4. o # <<>> /\ Len(o) # 1
    BY <1>1
  <1>5. Len(t) = k - 1 /\ t[k - 1] = b /\ \A i \in 1 .. k - 2 : t[i] = o[i]
    BY <1>1, <1>2, PoppedIs
  <1>6. PICK n \in Nat : n = Len(w) /\ n = Len(m)
    OBVIOUS
  <1>7. ASSUME NEW i \in 1 .. k PROVE FlagsInOrder(o, i, n) /\ PlaceInOrder(o, i, n)
    BY <1>6 DEF RoomInOrder
  <1>8. FlagsInOrder(t, k - 1, n) /\ PlaceInOrder(t, k - 1, n)
    <2>1. FlagsInOrder(o, k - 1, n) /\ PlaceInOrder(o, k - 1, n)
      BY <1>7
    <2>2. INLINE \notin b.flags /\ IN_CHILD \notin b.flags /\ (CHILD \in b.flags <=> k - 1 > 1)
      BY <2>1 DEF FlagsInOrder, INLINE, IN_CHILD, CHILD
    <2>3. FlagsInOrder(t, k - 1, n)
      BY <1>5, <2>2 DEF FlagsInOrder
    <2>4. k - 1 > 1 => t[(k - 1) - 1] = o[(k - 1) - 1]
      BY <1>5
    <2>5. PlaceInOrder(t, k - 1, n)
      BY <1>5, <1>6, <2>1, <2>4 DEF PlaceInOrder
    <2> QED  BY <2>3, <2>5
  <1>9. ASSUME NEW i \in 1 .. k - 2 PROVE FlagsInOrder(t, i, n) /\ PlaceInOrder(t, i, n)
    <2>1. FlagsInOrder(o, i, n) /\ PlaceInOrder(o, i, n) /\ t[i] = o[i]
      <3>1. i \in 1 .. k
        OBVIOUS
      <3> QED  BY <1>5, <1>7, <3>1, Zenon
    <2>2. FlagsInOrder(t, i, n)
      BY <1>5, <2>1 DEF FlagsInOrder
    <2>3. i > 1 => t[i - 1] = o[i - 1]
      <3>1. i > 1 => i - 1 \in 1 .. k - 2
        OBVIOUS
      <3> QED  BY <1>5, <3>1
    <2> QED  BY <2>1, <2>2, <2>3 DEF PlaceInOrder
  <1>10. \A i \in 1 .. k - 1 : i = k - 1 \/ i \in 1 .. k - 2
    OBVIOUS
  <1>11. RoomInOrder(t, w)
    BY <1>3, <1>5, <1>6, <1>8, <1>9, <1>10 DEF RoomInOrder
  <1> QED  BY <1>2, <1>11

LEMMA EndRoom ==
  ASSUME RInv, NEW d \in Docs, bson_append_end(d)
  PROVE  RInv'
  <1>1. Live(d) /\ ~Closed(d)
    BY DEF bson_append_end
  <1>2. PICK o : o = open[d]
    OBVIOUS
  <1>3. RoomInOrder(o, mem[d]) /\ o \in Seq(BsonT) /\ mem[d] \in Seq(Byte)
    BY <1>2 DEF RInv, RoomInOrder
  <1>4. PICK k \in Nat : k = Len(o) /\ k > 1
    <2>1. o # <<>> /\ Len(o) # 1
      BY <1>1, <1>2 DEF Live, Closed
    <2>2. PICK k \in Nat : k = Len(o) /\ k > 0
      BY <1>3, <2>1
    <2>3. k > 1
      BY <2>1, <2>2
    <2> QED  BY <2>2, <2>3
  <1>5. PICK c \in BsonT, p \in BsonT : c = o[k] /\ p = o[k - 1]
    BY <1>3, <1>4
  <1>6. PICK n \in Nat : n = Len(mem[d])
    BY <1>3
  <1>7. FlagsInOrder(o, k, n) /\ PlaceInOrder(o, k, n) /\ PlaceInOrder(o, k - 1, n)
    BY <1>3, <1>4, <1>6 DEF RoomInOrder
  <1>8. PICK po \in Nat, pl \in Nat, pd \in Nat, l \in Nat :
          po = p.offset /\ pl = p.len /\ pd = p.depth /\ l = c.len
    BY <1>5 DEF BsonT
  <1>9. pl >= 5 /\ l >= 5 /\ (po + pl - 1 - 5) + l + (pd + 1) <= n
    <2>1. c.depth = k - 1 /\ p.depth = (k - 1) - 1 /\ c.offset = p.offset + p.len - 1 - 5
      BY <1>4, <1>5, <1>7 DEF PlaceInOrder
    <2>2. c.depth = pd + 1 /\ c.offset = po + pl - 1 - 5
      BY <1>8, <2>1
    <2> QED  BY <1>5, <1>7, <1>8, <2>2 DEF PlaceInOrder
  <1>10. PICK e \in Nat : e = pl + l - 5 /\ e >= 5 /\ po + e + pd <= n /\ po + e - 1 \in Int
    <2>1. /\ pl + l - 5 \in Nat /\ pl + l - 5 >= 5 /\ po + (pl + l - 5) + pd <= n
          /\ po + (pl + l - 5) - 1 \in Int
      BY <1>9, EndedFits
    <2> QED  BY <2>1
  <1>11. PICK f : f = p.flags \ {IN_CHILD} /\ f \in SUBSET Flags
    BY <1>5 DEF BsonT
  <1>12. PICK b : b = [p EXCEPT !.flags = f, !.len = e]
    OBVIOUS
  <1>13. b \in BsonT /\ b.flags = f /\ b.len = e /\ b.offset = po /\ b.depth = pd
    BY <1>5, <1>8, <1>11, <1>12 DEF BsonT
  <1>14. PICK w : /\ w = Written(Written(mem[d], po + e - 1, <<0>>), po, LE(e, 4))
                  /\ w \in Seq(Byte) /\ Len(w) = n
    <2>1. PICK z \in Seq(Byte) : z = <<0>>
      BY BytesAre, OneByteIs
    <2>2. PICK v \in Seq(Byte) : v = Written(mem[d], po + e - 1, z) /\ Len(v) = n
      BY <1>3, <1>6, <1>10, WrittenIs
    <2>3. PICK x \in Seq(Byte) : x = LE(e, 4)
      BY LEIs
    <2>4. po \in Int
      OBVIOUS
    <2>5. Written(v, po, x) \in Seq(Byte) /\ Len(Written(v, po, x)) = n
      BY <2>2, <2>4, WrittenIs
    <2> QED  BY <2>1, <2>2, <2>3, <2>5
  <1>15. PICK t : t = Append(SubSeq(o, 1, k - 2), b)
    OBVIOUS
  <1>16. RoomInOrder(t, w)
    <2>1. b.offset = o[k - 1].offset /\ b.depth = o[k - 1].depth /\ b.flags = o[k - 1].flags \ {IN_CHILD}
      BY <1>5, <1>8, <1>11, <1>13
    <2>2. b.len >= 5 /\ b.offset + b.len + b.depth <= Len(w) /\ Len(w) = Len(mem[d])
      BY <1>6, <1>10, <1>13, <1>14
    <2> QED  BY <1>3, <1>4, <1>13, <1>14, <1>15, <2>1, <2>2, PoppedRoom
  <1>17. Innermost(d) = c /\ open[d][Len(open[d]) - 1] = p
    BY <1>2, <1>4, <1>5 DEF Innermost
  <1>18. LenWithChild(p, c) = e
    BY <1>8, <1>10 DEF LenWithChild
  <1>19. open' = [open EXCEPT ![d] = t]
    <2>1. open' = [open EXCEPT ![d] = Append(SubSeq(o, 1, Len(o) - 2),
                     [p EXCEPT !.flags = @ \ {IN_CHILD}, !.len = e])]
      BY <1>2, <1>17, <1>18 DEF bson_append_end
    <2>2. b = [p EXCEPT !.flags = @ \ {IN_CHILD}, !.len = e]
      BY <1>11, <1>12
    <2> QED  BY <1>4, <1>15, <2>1, <2>2
  <1>20. mem' = [mem EXCEPT ![d] = w] /\ kept' = kept
    BY <1>8, <1>14, <1>17, <1>18 DEF bson_append_end
  <1> QED  BY <1>16, <1>19, <1>20, OneRoom

(* Changing and ending.                                                    *)

LEMMA PairIs ==
  ASSUME RInv, NEW d \in Docs, Live(d), Closed(d), NEW i \in DOMAIN PairsIn(d)
  PROVE  OnPair(PairsIn(d)[i])
  <1>1. PICK its : its = PairsIn(d)
    OBVIOUS
  <1>2. its \in Seq(PairsOf(Data(d)))
    BY <1>1, DataIs, WalkIs DEF PairsIn
  <1>3. its[i] \in PairsOf(Data(d))
    BY <1>1, <1>2
  <1> QED  BY <1>1, <1>3 DEF PairsOf

LEMMA OverwriteRoom ==
  ASSUME RInv, NEW d \in Docs, NEW it, OnPair(it), NEW t, NEW value \in Seq(Byte),
         bson_iter_overwrite(d, it, t, value)
  PROVE  RInv'
  <1>1. it.d1 \in Int
    BY DEF OnPair
  <1>2. RoomInOrder(open[d], mem[d]) /\ mem[d] \in Seq(Byte)
    BY DEF RInv, RoomInOrder
  <1>3. PICK w \in Seq(Byte) : w = Written(mem[d], it.d1, value) /\ Len(w) = Len(mem[d])
    BY <1>1, <1>2, WrittenIs
  <1>4. RoomInOrder(open[d], w)
    BY <1>2, <1>3 DEF RoomInOrder
  <1>5. open' = [open EXCEPT ![d] = open[d]] /\ mem' = [mem EXCEPT ![d] = w] /\ kept' = kept
    BY <1>3 DEF bson_iter_overwrite, RInv
  <1> QED  BY <1>4, <1>5, OneRoom

LEMMA AtPairsRoom ==
  ASSUME ContentsAssumption, RInv, NEW d \in Docs, AtPairs(d)
  PROVE  RInv'
  <1>1. Live(d) /\ Closed(d)
    BY DEF AtPairs
  <1>2. PICK i \in DOMAIN PairsIn(d) :
          \/ \E v \in Numbers : bson_iter_overwrite(d, PairsIn(d)[i], v[1], v[2])
          \/ bson_value_copy(PairsIn(d)[i])
    BY DEF AtPairs
  <1>3. PICK it : it = PairsIn(d)[i] /\ OnPair(it)
    BY <1>1, PairIs
  <1>4. ASSUME NEW v \in Numbers, bson_iter_overwrite(d, it, v[1], v[2]) PROVE RInv'
    BY <1>3, <1>4, OverwriteRoom DEF ContentsAssumption
  <1>5. CASE bson_value_copy(it)
    <2>1. ValueInOrder(kept') /\ kept'.value_type \in Nat
      BY <1>3, <1>5, IterValueIs, TypeOfValueIs DEF bson_value_copy
    <2> QED  BY <1>5, <2>1 DEF bson_value_copy, RInv
  <1> QED  BY <1>2, <1>3, <1>4, <1>5

LEMMA NoValueIs == ValueInOrder(NoValue) /\ NoValue.value_type \in Nat
  BY EmptyIs DEF ValueInOrder, NoValue, Value, BSON_TYPE_EOD, BSON_TYPE_DOUBLE,
     BSON_TYPE_DATE_TIME, BSON_TYPE_INT64, BSON_TYPE_INT32, BSON_TYPE_OID, BSON_TYPE_TIMESTAMP,
     BSON_TYPE_DBPOINTER, BSON_TYPE_BINARY

LEMMA EmptyRoom == RoomInOrder(<<>>, <<>>)
  <1>1. <<>> \in Seq(BsonT) /\ <<>> \in Seq(Byte) /\ Len(<<>>) = 0
    OBVIOUS
  <1> QED  BY <1>1 DEF RoomInOrder

LEMMA GoneRoom ==
  ASSUME RInv, NEW d \in Docs, Gone(d)
  PROVE  RInv'
  BY EmptyRoom, OneRoom DEF Gone

\* Every write stays inside of the memory of its document, and the flags say where each
\* document is: whatever is begun, copied, nested, grown and given away, with whatever
\* keys and values, in documents of any size.
THEOREM WritesStayInside == Spec => []MemoryInOrder
  <1>1. Init => RInv
    <2> SUFFICES ASSUME Init PROVE RInv
      OBVIOUS
    <2>1. \A d \in Docs : RoomInOrder(open[d], mem[d])
      BY EmptyRoom DEF Init
    <2>2. open = [d \in Docs |-> open[d]] /\ mem = [d \in Docs |-> mem[d]]
      BY DEF Init
    <2>3. ValueInOrder(kept) /\ kept.value_type \in Nat
      BY NoValueIs DEF Init
    <2> QED  BY <2>1, <2>2, <2>3 DEF RInv
  <1>2. RInv /\ [Next]_vars => RInv'
    <2> SUFFICES ASSUME RInv, [Next]_vars PROVE RInv'
      OBVIOUS
    <2> USE SizesAssumption, ContentsAssumption
    <2>1. CASE UNCHANGED vars
      BY <2>1, RoomStays DEF vars
    <2>2. ASSUME NEW d \in Builders,
                 Begins(d) \/ Writes(d) \/ Nests(d) \/ AtPairs(d) \/ GivenAway(d)
          PROVE  RInv'
      <3>1. d \in Docs
        BY DEF SizesAssumption
      <3>2. CASE Begins(d)
        BY <3>1, <3>2, BeginsRoom
      <3>3. CASE Writes(d)
        BY <3>1, <3>3, WritesRoom
      <3>4. CASE Nests(d)
        <4>1. Nested \subseteq Containers /\ Keys \subseteq Seq(Byte)
          BY DEF ContentsAssumption
        <4>2. CASE \E t \in Nested, k \in Keys : bson_append_begin(d, t, k)
          BY <3>1, <4>1, <4>2, BeginRoom
        <4>3. CASE \E k \in Keys : bson_append_begin_fails(d, k)
          BY <3>1, <4>3, BeginFailsRoom
        <4>4. CASE bson_append_end(d)
          BY <3>1, <4>4, EndRoom
        <4> QED  BY <3>4, <4>2, <4>3, <4>4 DEF Nests
      <3>5. CASE AtPairs(d)
        BY <3>1, <3>5, AtPairsRoom
      <3>6. CASE GivenAway(d)
        <4>1. CASE bson_destroy_with_steal(d)
          BY <3>1, <4>1, GoneRoom DEF bson_destroy_with_steal
        <4>2. CASE bson_free(d)
          BY <4>2, RoomStays DEF bson_free
        <4> QED  BY <3>6, <4>1, <4>2 DEF GivenAway
      <3> QED  BY <2>2, <3>2, <3>3, <3>4, <3>5, <3>6
    <2>3. CASE \E d \in Docs : bson_destroy(d)
      BY <2>3, GoneRoom DEF bson_destroy
    <2>4. CASE \E d, s \in Docs : Copies(d, s)
      BY <2>4, CopiesRoom
    <2>5. CASE bson_value_destroy
      BY <2>5, NoValueIs DEF bson_value_destroy, RInv
    <2> QED  BY <2>1, <2>2, <2>3, <2>4, <2>5 DEF Next
  <1>3. RInv => MemoryInOrder
    <2> SUFFICES ASSUME RInv PROVE MemoryInOrder
      OBVIOUS
    <2>1. ASSUME NEW d \in Docs, NEW i \in DOMAIN open[d]
          PROVE  /\ FlagsInOrder(open[d], i, Len(mem[d])) /\ PlaceInOrder(open[d], i, Len(mem[d]))
                 /\ i \in Nat
      <3>1. RoomInOrder(open[d], mem[d]) /\ open[d] \in Seq(BsonT)
        BY DEF RInv, RoomInOrder
      <3>2. i \in 1 .. Len(open[d])
        BY <3>1
      <3> QED  BY <3>1, <3>2 DEF RoomInOrder
    <2>2. ASSUME NEW d \in Docs, NEW i \in DOMAIN mem[d] PROVE mem[d][i] \in 0 .. 255
      <3>1. mem[d] \in Seq(Byte)
        BY DEF RInv, RoomInOrder
      <3>2. mem[d][i] \in Byte
        BY <3>1
      <3> QED  BY <3>2 DEF Byte
    <2>3. open \in [Docs -> Seq(BsonT)]
      BY DEF RInv, RoomInOrder
    <2>4. DOMAIN mem = Docs
      BY DEF RInv
    <2>5. ASSUME NEW d \in Docs, NEW i \in DOMAIN open[d]
          PROVE  LET flags == open[d][i].flags IN
                 /\ INLINE \in flags => i = 1 /\ Len(mem[d]) = InlineCap
                 /\ CHILD \in flags <=> i > 1
                 /\ IN_CHILD \in flags <=> i < Len(open[d])
      BY <2>1 DEF FlagsInOrder
    <2>6. TypeOK
      BY <2>2, <2>3, <2>4, <2>5 DEF TypeOK, BsonT
    <2>7. Room
      BY <2>1 DEF Room, PlaceInOrder
    <2> QED  BY <2>6, <2>7 DEF MemoryInOrder
  <1> QED  BY <1>1, <1>2, <1>3, PTL DEF Spec
================================================================================
