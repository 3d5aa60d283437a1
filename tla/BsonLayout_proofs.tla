--------------------------- MODULE BsonLayout_proofs ---------------------------
(***************************************************************************)
(* What the pointer functions of binson.c return on a well-formed image:   *)
(* the addresses its parse has.                                            *)
(***************************************************************************)
EXTENDS BsonLayout, Induction, SequenceTheorems

Buffer == Seq(Byte)

LEMMA ByteOfBuffer ==
  ASSUME NEW mm \in Buffer, NEW i \in DOMAIN mm
  PROVE  mm[i] \in Int
  <1>1. mm[i] \in Byte
    BY DEF Buffer
  <1> QED  BY <1>1 DEF Byte

\* A length field that can be read is an integer.
LEMMA Int32AtType ==
  ASSUME NEW mm \in Buffer, NEW p \in Int, Readable(mm, p, 4)
  PROVE  Int32At(mm, p) \in Int
  <1>1. {p, p + 1, p + 2, p + 3} \subseteq DOMAIN mm
    BY DEF Readable, Buffer
  <1>2. mm[p] \in Int /\ mm[p + 1] \in Int /\ mm[p + 2] \in Int /\ mm[p + 3] \in Int
    BY <1>1, ByteOfBuffer
  <1> QED  BY <1>2 DEF Int32At

\* The first zero byte is the only one.
LEMMA NulIsFirst ==
  ASSUME NEW mm \in Buffer, NEW p \in Int, NEW k, IsNulFrom(mm, p, k)
  PROVE  NulFrom(mm, p) = k
  <1>1. IsNulFrom(mm, p, NulFrom(mm, p))
    BY DEF NulFrom, IsNulFrom
  <1> QED  BY <1>1 DEF IsNulFrom, Buffer

\* Where a zero byte lies ahead, a string ends.
LEMMA NulAhead ==
  ASSUME NEW mm \in Buffer, NEW p \in Int, 1 <= p, NEW k \in DOMAIN mm, p <= k, mm[k] = 0
  PROVE  HasNul(mm, p)
  <1> DEFINE Z == {i \in DOMAIN mm : p <= i /\ mm[i] = 0}
  <1>1. Z \in SUBSET Nat /\ Z # {}
    BY DEF Buffer
  <1>2. PICK x \in Z : \A y \in Z : x <= y
    BY <1>1, LeastOf
  <1>3. \A j \in p .. x - 1 : mm[j] # 0
    <2>1. SUFFICES ASSUME NEW j \in p .. x - 1, mm[j] = 0
                   PROVE  FALSE
      OBVIOUS
    <2>2. x \in DOMAIN mm /\ x \in Int
      BY <1>1
    <2>3. j \in DOMAIN mm
      BY <2>2 DEF Buffer
    <2>4. j \in Z
      BY <2>1, <2>3
    <2> QED  BY <1>2, <2>2, <2>4
  <1> QED  BY <1>2, <1>3 DEF HasNul, IsNulFrom

LEMMA AfterKeyType ==
  ASSUME NEW mm \in Buffer, NEW p \in Int
  PROVE  AfterKey(mm, p) \in Int
  <1>1. CASE HasNul(mm, getkey(p))
    <2>1. PICK k \in DOMAIN mm : IsNulFrom(mm, getkey(p), k)
      BY <1>1 DEF HasNul
    <2>2. NulFrom(mm, getkey(p)) = k
      BY <2>1, NulIsFirst DEF getkey
    <2> QED  BY <2>1, <2>2 DEF AfterKey, WILD, Buffer
  <1>2. CASE ~HasNul(mm, getkey(p))
    BY <1>2 DEF AfterKey, WILD
  <1> QED  BY <1>1, <1>2

\* No function takes a pointer anywhere that is not an address.
LEMMA NextElementType ==
  ASSUME NEW mm \in Buffer, NEW p \in Int, NEW t
  PROVE  next_element(mm, p, t) \in Int
  <1>1. CASE t \in LengthPrefixed /\ ~Readable(mm, p, 4)
    BY <1>1 DEF next_element, WILD
  <1>2. CASE t \in LengthPrefixed /\ Readable(mm, p, 4)
    <2>1. Int32At(mm, p) \in Int
      BY <1>2, Int32AtType
    <2>2. ValueSize(mm, p, t) \in Int
      BY <2>1 DEF ValueSize
    <2> QED  BY <1>2, <2>2 DEF next_element
  <1>3. CASE t \notin LengthPrefixed
    <2>1. ValueSize(mm, p, t) \in Int
      BY <1>3 DEF ValueSize, LengthPrefixed
    <2> QED  BY <1>3, <2>1 DEF next_element
  <1> QED  BY <1>1, <1>2, <1>3

LEMMA NextitemType ==
  ASSUME NEW mm \in Buffer, NEW p \in Int
  PROVE  nextitem(mm, p) \in Int
  BY AfterKeyType, NextElementType DEF nextitem, WILD

LEMMA GetvalueType ==
  ASSUME NEW mm \in Buffer, NEW p \in Int
  PROVE  getvalue(mm, p) \in Int
  BY AfterKeyType DEF getvalue, NULL

LEMMA OpendocType ==
  ASSUME NEW mm \in Buffer, NEW p \in Int, NEW len
  PROVE  opendoc(mm, p, len) \in Int
  BY DEF opendoc, NULL, WILD

-----------------------------------------------------------------------------
(* Well-formed images.                                                     *)

Codes == {BT_FLOP64BIT, BT_UTF8STRING, BT_EMBEDEDDOC, BT_ARRAY, BT_BINARYDATA, BT_UNDEFINED,
          BT_OBJECTID, BT_BOOLFALSETRUE, BT_UTCDATETIME, BT_NULLVALUE, BT_JSCODE, BT_SYMBOL,
          BT_INT32BIT, BT_TIMESTAMP, BT_INT64BIT}

USE DEF BT_FLOP64BIT, BT_UTF8STRING, BT_EMBEDEDDOC, BT_ARRAY, BT_BINARYDATA, BT_UNDEFINED,
        BT_OBJECTID, BT_BOOLFALSETRUE, BT_UTCDATETIME, BT_NULLVALUE, BT_JSCODE, BT_SYMBOL,
        BT_INT32BIT, BT_TIMESTAMP, BT_INT64BIT

LEMMA WidthIsNat == \A t \in DOMAIN Width : t \in Int /\ t # 0 /\ Width[t] \in Nat
  BY DEF Width

LEMMA UncountedIsNat == \A t \in DOMAIN Uncounted : t \in Int /\ t # 0 /\ Uncounted[t] \in Nat
  BY DEF Uncounted

\* next_element moves past a value as the format says, for every declared type.
LEMMA ValueSizeIsFormat ==
  ASSUME NEW mm, NEW p, NEW t
  PROVE  /\ t \in DOMAIN Width => ValueSize(mm, p, t) = Width[t] /\ t \notin LengthPrefixed
         /\ t \in DOMAIN Uncounted =>
              /\ t \in LengthPrefixed
              /\ Int32At(mm, p) \in Int => ValueSize(mm, p, t) = Uncounted[t] + Int32At(mm, p)
  <1>1. ASSUME t \in DOMAIN Width
        PROVE  ValueSize(mm, p, t) = Width[t] /\ t \notin LengthPrefixed
    BY <1>1 DEF Width, ValueSize, LengthPrefixed, Containers, Strings, EightBytes
  <1>2. ASSUME t \in DOMAIN Uncounted
        PROVE  /\ t \in LengthPrefixed
               /\ Int32At(mm, p) \in Int => ValueSize(mm, p, t) = Uncounted[t] + Int32At(mm, p)
    BY <1>2 DEF Uncounted, ValueSize, LengthPrefixed, Containers, Strings, EightBytes
  <1> QED  BY <1>1, <1>2

-----------------------------------------------------------------------------
(* The pairs of a well-formed image.                                       *)

\* Where a pair of a document that opens lies.
LEMMA PairShape ==
  ASSUME NEW img, WellFormed(img), img.bytes \in Buffer,
         NEW d \in SealedDocs(img), NEW e \in img.elems[d]
  PROVE  /\ d \in img.docs /\ d \in Int /\ EndOf(img, d) \in Int
         /\ {e, img.val[e], img.next[e]} \subseteq DOMAIN img.bytes
         /\ e \in Int /\ img.val[e] \in Int /\ img.next[e] \in Int
         /\ d < First(d) /\ First(d) <= e /\ e + 2 <= img.val[e]
         /\ img.val[e] <= img.next[e] /\ img.next[e] <= EndOf(img, d)
         /\ img.bytes[e] \in Int /\ img.bytes[e] # 0
         /\ img.next[e] \in img.elems[d] \cup {EndOf(img, d)}
         /\ IsNulFrom(img.bytes, e + 1, img.val[e] - 1)
  <1>1. WellFormedElement(img, d, e) /\ d \in img.docs /\ d \in DOMAIN img.bytes
    BY DEF WellFormed, SealedDocs
  <1>2. d \in Int /\ EndOf(img, d) \in Int /\ d < First(d)
    BY <1>1 DEF WellFormed, First, Buffer
  <1>3. /\ {e, img.val[e], img.next[e]} \subseteq DOMAIN img.bytes
        /\ e \in Int /\ img.val[e] \in Int /\ img.next[e] \in Int
    BY <1>1 DEF WellFormedElement, Buffer
  <1>4. IsNulFrom(img.bytes, e + 1, img.val[e] - 1) /\ e + 2 <= img.val[e]
    BY <1>1, <1>3 DEF WellFormedElement, IsNulFrom
  <1>5. /\ img.bytes[e] \in Int /\ img.bytes[e] # 0
        /\ img.val[e] <= img.next[e]
    <2>1. WellFormedValue(img, e)
      BY <1>1 DEF WellFormedElement
    <2>2. CASE img.bytes[e] \in DOMAIN Width /\ img.next[e] = img.val[e] + Width[img.bytes[e]]
      BY <2>2, <1>3, WidthIsNat
    <2>3. CASE img.bytes[e] \in DOMAIN Uncounted /\ img.val[e] + 4 <= img.next[e]
      BY <2>3, <1>3, UncountedIsNat
    <2> QED  BY <2>1, <2>2, <2>3 DEF WellFormedValue
  <1> QED  BY <1>1, <1>2, <1>3, <1>4, <1>5 DEF WellFormedElement

\* The length field of a document can be read.
LEMMA DocShape ==
  ASSUME NEW img, WellFormed(img), img.bytes \in Buffer, NEW d \in img.docs
  PROVE  /\ d \in Int /\ 1 <= d /\ Readable(img.bytes, d, 4)
         /\ EndOf(img, d) \in DOMAIN img.bytes /\ EndOf(img, d) \in Int
  BY DEF WellFormed, Readable, Buffer

\* getvalue and nextitem return what the parse has.
LEMMA PairParsed ==
  ASSUME NEW img, WellFormed(img), img.bytes \in Buffer,
         NEW d \in SealedDocs(img), NEW e \in img.elems[d]
  PROVE  /\ AfterKey(img.bytes, e) = img.val[e]
         /\ getvalue(img.bytes, e) = img.val[e]
         /\ nextitem(img.bytes, e) = img.next[e]
  <1> DEFINE mm == img.bytes  v == img.val[e]  n == img.next[e]  t == mm[e]
  <1>1. /\ e \in DOMAIN mm /\ e \in Int /\ v \in Int /\ n \in Int
        /\ v \in DOMAIN mm /\ n \in DOMAIN mm
        /\ IsNulFrom(mm, e + 1, v - 1) /\ t # 0 /\ e + 2 <= v
    BY PairShape
  <1> HIDE DEF mm, v, n, t
  <1>2. mm \in Buffer
    BY DEF mm
  <1>3. NulFrom(mm, e + 1) = v - 1
    BY <1>1, <1>2, NulIsFirst
  <1>4. 1 <= e /\ v >= 1
    BY <1>1, <1>2 DEF Buffer
  <1>5. HasNul(mm, e + 1)
    BY <1>1, <1>4 DEF HasNul, IsNulFrom
  <1>6. AfterKey(mm, e) = v
    BY <1>1, <1>3, <1>5 DEF AfterKey, getkey
  <1>7. getvalue(mm, e) = v
    BY <1>1, <1>6 DEF getvalue, gettype, t
  <1>8. next_element(mm, v, t) = n
    <2>1. WellFormedElement(img, d, e)
      BY DEF WellFormed
    <2>2. \/ t \in DOMAIN Width /\ n = v + Width[t]
          \/ t \in DOMAIN Uncounted /\ v + 4 <= n /\ n = v + Uncounted[t] + Int32At(mm, v)
      BY <2>1 DEF WellFormedElement, WellFormedValue, mm, v, n, t
    <2>3. CASE t \in DOMAIN Width /\ n = v + Width[t]
      BY <2>3, ValueSizeIsFormat DEF next_element
    <2>4. CASE t \in DOMAIN Uncounted /\ v + 4 <= n /\ n = v + Uncounted[t] + Int32At(mm, v)
      <3>1. Readable(mm, v, 4)
        BY <2>4, <1>1, <1>2, <1>4 DEF Readable, Buffer
      <3>2. Int32At(mm, v) \in Int
        BY <3>1, <1>1, <1>2, Int32AtType
      <3>3. ValueSize(mm, v, t) = Uncounted[t] + Int32At(mm, v)
        BY <2>4, <3>2, ValueSizeIsFormat
      <3>4. Uncounted[t] \in Nat
        BY <2>4, UncountedIsNat
      <3> QED  BY <2>4, <3>1, <3>2, <3>3, <3>4, <1>1 DEF next_element
    <2> QED  BY <2>2, <2>3, <2>4
  <1>9. nextitem(mm, e) = n
    BY <1>6, <1>8, <1>4, <1>1 DEF nextitem, WILD, gettype, t
  <1> QED  BY <1>6, <1>7, <1>9 DEF mm, v, n

\* The value of a pair that is a document or an array is a document of the image.
LEMMA NestedDoc ==
  ASSUME NEW img, WellFormed(img), NEW d \in SealedDocs(img), NEW e \in img.elems[d],
         img.bytes[e] \in Containers
  PROVE  img.val[e] \in img.docs
  <1>1. WellFormedValue(img, e)
    BY DEF WellFormed, WellFormedElement
  <1>2. img.bytes[e] \notin DOMAIN Width
    BY DEF Containers, Width
  <1> QED  BY <1>1, <1>2 DEF WellFormedValue

\* opendoc accepts the documents that are sealed, and no other.
LEMMA OpendocOfDoc ==
  ASSUME NEW img, WellFormed(img), img.bytes \in Buffer, NEW d \in img.docs
  PROVE  opendoc(img.bytes, d, 0) = IF d \in SealedDocs(img) THEN First(d) ELSE NULL
  <1>1. LastByte(img.bytes, d, 0) = EndOf(img, d)
    <2>1. Int32At(img.bytes, d) \in Int /\ d \in Int
      BY DocShape, Int32AtType
    <2> QED  BY <2>1 DEF LastByte, EndOf, getdoclen
  <1> QED  BY <1>1, DocShape DEF opendoc, SealedDocs, First

\* With the length of the buffer it tests the same byte of the outermost document.
LEMMA OpendocOfContent ==
  ASSUME NEW img, WellFormed(img), img.bytes \in Buffer, NEW len \in {0, Len(img.bytes)}
  PROVE  opendoc(img.bytes, 1, len) = IF 1 \in SealedDocs(img) THEN First(1) ELSE NULL
  <1>1. 1 \in img.docs /\ EndOf(img, 1) = Len(img.bytes)
    BY DEF WellFormed
  <1>2. CASE len = 0
    BY <1>1, <1>2, OpendocOfDoc
  <1>3. CASE len = Len(img.bytes) /\ len # 0
    <2>1. LastByte(img.bytes, 1, len) = Len(img.bytes)
      BY <1>3 DEF LastByte, Buffer
    <2> QED  BY <1>1, <1>3, <2>1, DocShape DEF opendoc, SealedDocs, First
  <1> QED  BY <1>2, <1>3

\* A key is compared without leaving the buffer: its zero byte ends every comparison
\* with a string that has none.
LEMMA KeyEnds ==
  ASSUME NEW img, WellFormed(img), img.bytes \in Buffer,
         NEW d \in SealedDocs(img), NEW e \in img.elems[d],
         NEW s \in Seq(Byte \ {0})
  PROVE  ~KeyRunsOut(img.bytes, e, s)
  <1> DEFINE mm == img.bytes  k == img.val[e] - 1
  <1>1. /\ e \in DOMAIN mm /\ e \in Int /\ k \in Int /\ e + 1 <= k
        /\ k \in DOMAIN mm /\ mm[k] = 0
    BY PairShape DEF IsNulFrom
  <1>2. SUFFICES ASSUME NEW i \in 1 .. Len(s), e + i \notin DOMAIN mm,
                        KeyHasPrefix(mm, e, SubSeq(s, 1, i - 1))
                 PROVE  FALSE
    BY <1>1 DEF KeyRunsOut, NULL, Buffer
  <1> HIDE DEF mm, k
  <1>3. mm \in Buffer
    BY DEF mm
  <1>4. k < e + i
    BY <1>1, <1>2, <1>3 DEF Buffer
  <1>5. k - e \in 1 .. i - 1
    BY <1>1, <1>4
  <1>6. k - e \in 1 .. Len(s) /\ SubSeq(s, 1, i - 1)[k - e] = s[k - e] /\ Len(SubSeq(s, 1, i - 1)) = i - 1
    BY <1>5
  <1>7. mm[e + (k - e)] = s[k - e]
    BY <1>2, <1>5, <1>6 DEF KeyHasPrefix
  <1>8. s[k - e] # 0
    BY <1>6
  <1> QED  BY <1>1, <1>7, <1>8

-----------------------------------------------------------------------------
(* The same of the pairs and the ends of the whole image, as its users know *)
(* them: by their address and not by their document.                        *)

\* No step from a pair leaves the parse, and a zero byte tells where it ends.
LEMMA ElemStep ==
  ASSUME NEW img, WellFormed(img), img.bytes \in Buffer, NEW e \in Elems(img)
  PROVE  /\ e \in DOMAIN img.bytes /\ e \in Int /\ 1 <= e /\ img.bytes[e] # 0
         /\ img.val[e] \in Int /\ e < img.val[e]
         /\ getvalue(img.bytes, e) = img.val[e] /\ img.val[e] \notin {NULL, WILD}
         /\ nextitem(img.bytes, e) = img.next[e]
         /\ img.next[e] \in Elems(img) \cup Ends(img)
         /\ img.next[e] \in DOMAIN img.bytes /\ img.next[e] \in Int /\ e < img.next[e]
  <1>1. PICK d \in SealedDocs(img) : e \in img.elems[d]
    BY DEF Elems
  <1>2. e \in DOMAIN img.bytes /\ img.next[e] \in DOMAIN img.bytes
    BY <1>1, PairShape
  <1>3. img.next[e] \in Elems(img) \cup Ends(img)
    BY <1>1, PairShape DEF Elems, Ends
  <1>4. 1 <= e
    BY <1>2 DEF Buffer
  <1> QED  BY <1>1, <1>2, <1>3, <1>4, PairShape, PairParsed DEF NULL, WILD

LEMMA EndIsZero ==
  ASSUME NEW img, WellFormed(img), img.bytes \in Buffer, NEW p \in Ends(img)
  PROVE  p \in DOMAIN img.bytes /\ p \in Int /\ 1 <= p /\ img.bytes[p] = 0
  <1>1. PICK d \in SealedDocs(img) : p = EndOf(img, d)
    BY DEF Ends
  <1>2. p \in DOMAIN img.bytes /\ img.bytes[p] = 0
    BY <1>1, DocShape DEF SealedDocs
  <1> QED  BY <1>2 DEF Buffer

\* Where there are no empty documents, one that opens begins with a pair.
LEMMA FirstIsElem ==
  ASSUME NEW img, WellFormed(img), NoneEmpty(img), img.bytes \in Buffer,
         NEW d \in SealedDocs(img)
  PROVE  First(d) \in img.elems[d]
  <1>1. PICK e : e \in img.elems[d]
    BY DEF NoneEmpty
  <1>2. First(d) # EndOf(img, d)
    <2>1. First(d) \in Int
      BY <1>1, PairShape DEF First
    <2> QED  BY <1>1, <2>1, PairShape
  <1> QED  BY <1>2 DEF WellFormed

LEMMA FirstsAreElems ==
  ASSUME NEW img, WellFormed(img), NoneEmpty(img), img.bytes \in Buffer
  PROVE  Firsts(img) \subseteq Elems(img)
  BY FirstIsElem DEF Firsts, Elems

\* Opening the value of a pair leads to the first pair of its document, or nowhere.
LEMMA ElemOpens ==
  ASSUME NEW img, WellFormed(img), img.bytes \in Buffer, NEW e \in Elems(img),
         img.bytes[e] \in Containers
  PROVE  /\ img.val[e] \in img.docs
         /\ opendoc(img.bytes, getvalue(img.bytes, e), 0) =
              IF img.val[e] \in SealedDocs(img) THEN First(img.val[e]) ELSE NULL
  <1>1. PICK d \in SealedDocs(img) : e \in img.elems[d]
    BY DEF Elems
  <1>2. img.val[e] \in img.docs
    BY <1>1, NestedDoc
  <1> QED  BY <1>2, ElemStep, OpendocOfDoc

LEMMA ElemKeyEnds ==
  ASSUME NEW img, WellFormed(img), img.bytes \in Buffer, NEW e \in Elems(img),
         NEW s \in Seq(Byte \ {0})
  PROVE  ~KeyRunsOut(img.bytes, e, s)
  BY KeyEnds DEF Elems
-----------------------------------------------------------------------------
(* Searching the parse.                                                    *)

\* A comparison of bytes finds the prefixes of the key, and no more.
LEMMA KeyPrefix ==
  ASSUME NEW img, WellFormed(img), img.bytes \in Buffer,
         NEW e \in Elems(img), NEW s \in Seq(Byte \ {0})
  PROVE  KeyHasPrefix(img.bytes, e, s) <=> IsPrefix(s, KeyOf(img, e))
  <1> DEFINE mm == img.bytes  v == img.val[e]  k == KeyOf(img, e)
  <1>1. PICK d \in SealedDocs(img) : e \in img.elems[d]
    BY DEF Elems
  <1>2. /\ e \in DOMAIN mm /\ e \in Int /\ v \in Int /\ v \in DOMAIN mm
        /\ IsNulFrom(mm, e + 1, v - 1) /\ e + 2 <= v
    BY <1>1, PairShape
  <1>3. k = SubSeq(mm, e + 1, v - 2)
    BY DEF KeyOf
  <1>4. mm \in Buffer
    OBVIOUS
  <1> HIDE DEF mm, v, k
  <1>5. 1 <= e /\ v <= Len(mm) /\ Len(mm) \in Nat /\ DOMAIN mm = 1 .. Len(mm)
    BY <1>2, <1>4 DEF Buffer
  <1>6. k \in Seq(Byte) /\ Len(k) = v - 2 - e /\ \A i \in 1 .. v - 2 - e : k[i] = mm[e + i]
    <2>1. \A i \in e + 1 .. v - 2 : mm[i] \in Byte
      BY <1>2, <1>4, <1>5 DEF Buffer
    <2>2. /\ k \in Seq(Byte) /\ Len(k) = IF e + 1 <= v - 2 THEN v - 2 - (e + 1) + 1 ELSE 0
          /\ \A i \in 1 .. v - 2 - (e + 1) + 1 : k[i] = mm[e + 1 + i - 1]
      BY <1>2, <1>3, <2>1, SubSeqProperties
    <2> QED  BY <1>2, <2>2, SMTT(30)
  <1>7. mm[v - 1] = 0 /\ Len(s) \in Nat /\ \A i \in 1 .. Len(s) : s[i] # 0
    BY <1>2 DEF IsNulFrom
  <1>8. ASSUME KeyHasPrefix(mm, e, s)
        PROVE  IsPrefix(s, k)
    <2>1. \A i \in 1 .. Len(s) : mm[e + i] = s[i]
      BY <1>8 DEF KeyHasPrefix
    <2>2. Len(s) <= v - 2 - e
      <3>1. SUFFICES ASSUME Len(s) > v - 2 - e
                     PROVE  FALSE
        BY <1>2, <1>7
      <3>2. v - 1 - e \in 1 .. Len(s) /\ e + (v - 1 - e) = v - 1
        BY <1>2, <1>7, <3>1
      <3> QED  BY <1>7, <2>1, <3>2
    <2>3. \A i \in 1 .. Len(s) : s[i] = k[i]
      BY <1>6, <1>7, <2>1, <2>2, <1>2, SMTT(30)
    <2>4. SubSeq(s, 1, Len(s)) = SubSeq(k, 1, Len(s))
      BY <1>6, <1>7, <2>2, <2>3, <1>2
    <2> QED  BY <1>6, <2>2, <2>4 DEF IsPrefix
  <1>9. ASSUME IsPrefix(s, k)
        PROVE  KeyHasPrefix(mm, e, s)
    <2>1. Len(s) <= v - 2 - e /\ SubSeq(s, 1, Len(s)) = SubSeq(k, 1, Len(s))
      BY <1>6, <1>9 DEF IsPrefix
    <2>2. SUFFICES ASSUME NEW i \in 1 .. Len(s)
                   PROVE  e + i \in DOMAIN mm /\ mm[e + i] = s[i]
      BY DEF KeyHasPrefix
    <2>3. s[i] = SubSeq(s, 1, Len(s))[i] /\ k[i] = SubSeq(k, 1, Len(s))[i]
      BY <1>6, <1>7, <2>1, <1>2
    <2> QED  BY <1>2, <1>5, <1>6, <1>7, <2>1, <2>3
  <1> QED  BY <1>8, <1>9 DEF mm, k

\* The least of a set of addresses, and null of none.
LEMMA LeastIs ==
  ASSUME NEW A \in SUBSET (Nat \ {0})
  PROVE  /\ A = {} => Least(A) = NULL
         /\ A # {} => Least(A) \in A /\ \A x \in A : Least(A) <= x
         /\ Least(A) = NULL => A = {}
  <1>1. ASSUME A # {}
        PROVE  Least(A) \in A /\ \A x \in A : Least(A) <= x
    <2>1. \E x \in A : \A y \in A : x <= y
      BY <1>1, LeastOf
    <2> QED  BY <1>1, <2>1 DEF Least, Min
  <1> QED  BY <1>1 DEF Least, NULL

LEMMA ElemsAreAddresses ==
  ASSUME NEW img, WellFormed(img), img.bytes \in Buffer
  PROVE  Elems(img) \in SUBSET (Nat \ {0})
  BY ElemStep DEF Buffer

\* The pairs from p on are those of the documents that hold p.
LEMMA FromIs ==
  ASSUME NEW img, WellFormed(img), img.bytes \in Buffer, NEW p
  PROVE  /\ From(img, p) \subseteq Elems(img)
         /\ \A f : f \in From(img, p) <=>
              \E d \in SealedDocs(img) : p \in img.elems[d] /\ f \in img.elems[d] /\ p <= f
         /\ p = NULL => From(img, p) = {}
  <1>1. From(img, p) \subseteq Elems(img)
    BY DEF From, Elems
  <1>2. \A f : f \in From(img, p) <=>
          \E d \in SealedDocs(img) : p \in img.elems[d] /\ f \in img.elems[d] /\ p <= f
    BY DEF From
  <1>3. NULL \notin Elems(img)
    BY ElemStep DEF NULL
  <1> QED  BY <1>1, <1>2, <1>3 DEF Elems

\* What a search for a prefix finds: the first match, or null if there is none.
LEMMA FirstPrefixedIs ==
  ASSUME NEW img, WellFormed(img), img.bytes \in Buffer, NEW p, NEW s
  PROVE  LET e == FirstPrefixed(img, p, s)
         IN  /\ e \in {NULL} \cup Elems(img)
             /\ e # NULL => /\ e \in From(img, p) /\ IsPrefix(s, KeyOf(img, e))
                            /\ \A f \in From(img, p) : IsPrefix(s, KeyOf(img, f)) => e <= f
             /\ e = NULL <=> \A f \in From(img, p) : ~ IsPrefix(s, KeyOf(img, f))
  <1> DEFINE A == {f \in From(img, p) : IsPrefix(s, KeyOf(img, f))}
  <1>1. A \in SUBSET (Nat \ {0}) /\ A \subseteq Elems(img)
    BY FromIs, ElemsAreAddresses
  <1>2. FirstPrefixed(img, p, s) = Least(A)
    BY DEF FirstPrefixed
  <1>3. A = {} <=> \A f \in From(img, p) : ~ IsPrefix(s, KeyOf(img, f))
    OBVIOUS
  <1>4. \A f : f \in A <=> f \in From(img, p) /\ IsPrefix(s, KeyOf(img, f))
    OBVIOUS
  <1>5. /\ A = {} => Least(A) = NULL
        /\ A # {} => Least(A) \in A /\ \A x \in A : Least(A) <= x
        /\ Least(A) = NULL => A = {}
    BY <1>1, LeastIs
  <1> HIDE DEF A
  <1>6. CASE A = {}
    BY <1>2, <1>3, <1>5, <1>6
  <1>7. CASE A # {}
    <2>1. FirstPrefixed(img, p, s) \in A /\ FirstPrefixed(img, p, s) # NULL
      BY <1>2, <1>5, <1>7
    <2> QED  BY <1>1, <1>2, <1>3, <1>4, <1>5, <1>7, <2>1
  <1> QED  BY <1>6, <1>7

\* Of two matches from p on, the one nothing precedes is the one that is found.
LEMMA FoundFirst ==
  ASSUME NEW img, WellFormed(img), img.bytes \in Buffer, NEW p, NEW s,
         NEW e \in From(img, p), IsPrefix(s, KeyOf(img, e)),
         \A f \in From(img, p) : f < e => ~ IsPrefix(s, KeyOf(img, f))
  PROVE  FirstPrefixed(img, p, s) = e
  <1> DEFINE g == FirstPrefixed(img, p, s)
  <1>1. g # NULL /\ g \in From(img, p) /\ IsPrefix(s, KeyOf(img, g)) /\ g <= e
    BY FirstPrefixedIs
  <1>2. g \in Int /\ e \in Int
    BY <1>1, FromIs, ElemStep
  <1> HIDE DEF g
  <1>3. ~ (g < e)
    BY <1>1
  <1>4. g = e
    BY <1>1, <1>2, <1>3
  <1> QED  BY <1>4 DEF g

\* nextitem skips no pair: none lies between one and the next of its document.
LEMMA NextOf ==
  ASSUME NEW img, WellFormed(img), img.bytes \in Buffer,
         NEW d \in SealedDocs(img), NEW e \in img.elems[d]
  PROVE  /\ img.bytes[img.next[e]] # 0 => img.next[e] \in img.elems[d]
         /\ \A f \in img.elems[d] : e < f => img.next[e] <= f
         /\ img.bytes[img.next[e]] = 0 => \A f \in img.elems[d] : f <= e
  <1>1. \A f \in img.elems[d] : f \in Int /\ f < EndOf(img, d) /\ img.bytes[f] # 0
    <2>1. SUFFICES ASSUME NEW f \in img.elems[d]
                   PROVE  f \in Int /\ f < EndOf(img, d) /\ img.bytes[f] # 0
      OBVIOUS
    <2> QED  BY PairShape
  <1>2. WellFormedElement(img, d, e)
    BY DEF WellFormed
  <1>3. \A f \in img.elems[d] : e < f => img.next[e] <= f
    BY <1>2 DEF WellFormedElement
  <1>4. img.next[e] \in img.elems[d] \cup {EndOf(img, d)} /\ img.bytes[EndOf(img, d)] = 0
    BY PairShape DEF SealedDocs
  <1>5. ASSUME img.bytes[img.next[e]] = 0, NEW f \in img.elems[d]
        PROVE  f <= e
    <2>1. img.next[e] = EndOf(img, d)
      BY <1>1, <1>4, <1>5
    <2>2. ~ (e < f)
      BY <1>1, <1>3, <2>1, PairShape
    <2> QED  BY <1>1, <2>2
  <1> QED  BY <1>3, <1>4, <1>5
=============================================================================
