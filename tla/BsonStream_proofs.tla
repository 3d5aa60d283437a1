--------------------------- MODULE BsonStream_proofs ---------------------------
(***************************************************************************)
(* Theorems about BsonStream: for every size of the buffers, every file,   *)
(* every limit of the writer and every way the bytes of a connection come  *)
(* in pieces.                                                              *)
(***************************************************************************)
EXTENDS BsonStream, Induction, SequenceTheorems

(* Bytes and pieces of bytes.                                              *)

LEMMA SliceIs ==
  ASSUME NEW s \in Seq(Byte), NEW o \in Nat, NEW n \in Nat, o + n <= Len(s)
  PROVE  /\ Slice(s, o, n) \in Seq(Byte) /\ Len(Slice(s, o, n)) = n
         /\ \A i \in 1 .. n : Slice(s, o, n)[i] = s[o + i]
  <1>1. \A i \in o + 1 .. o + n : s[i] \in Byte
    BY ElementOfSeq
  <1>2. /\ SubSeq(s, o + 1, o + n) \in Seq(Byte)
        /\ Len(SubSeq(s, o + 1, o + n)) = IF o + 1 <= o + n THEN (o + n) - (o + 1) + 1 ELSE 0
        /\ \A i \in 1 .. (o + n) - (o + 1) + 1 : SubSeq(s, o + 1, o + n)[i] = s[(o + 1) + i - 1]
    <2>1. o + 1 \in Int /\ o + n \in Int
      OBVIOUS
    <2> QED  BY <1>1, <2>1, SubSeqProperties
  <1> QED  BY <1>2 DEF Slice

\* A sequence with the bytes of a piece is that piece.
LEMMA SliceMet ==
  ASSUME NEW s \in Seq(Byte), NEW o \in Nat, NEW t \in Seq(Byte), o + Len(t) <= Len(s),
         \A i \in 1 .. Len(t) : t[i] = s[o + i]
  PROVE  t = Slice(s, o, Len(t))
  <1>1. Len(t) \in Nat
    OBVIOUS
  <1>2. /\ Slice(s, o, Len(t)) \in Seq(Byte) /\ Len(Slice(s, o, Len(t))) = Len(t)
        /\ \A i \in 1 .. Len(t) : Slice(s, o, Len(t))[i] = s[o + i]
    BY <1>1, SliceIs
  <1> QED  BY <1>2, SeqEqual

LEMMA BytesAreNumbers ==
  ASSUME NEW s \in Seq(Byte), NEW i \in 1 .. Len(s)
  PROVE  s[i] \in Nat /\ s[i] <= 255
  <1>1. s[i] \in Byte
    BY ElementOfSeq
  <1>2. \A b \in Byte : b \in Nat /\ b <= 255
    BY DEF Byte
  <1> QED  BY <1>1, <1>2

LEMMA U32Is ==
  ASSUME NEW s \in Seq(Byte), NEW o \in Nat, o + 4 <= Len(s)
  PROVE  U32At(s, o) \in Nat
  <1>1. s[o + 1] \in Nat /\ s[o + 2] \in Nat /\ s[o + 3] \in Nat /\ s[o + 4] \in Nat
    <2>1. {o + 1, o + 2, o + 3, o + 4} \subseteq 1 .. Len(s)
      OBVIOUS
    <2> QED  BY <2>1, BytesAreNumbers
  <1>2. At(s, o) \in Nat /\ At(s, o + 1) \in Nat /\ At(s, o + 2) \in Nat /\ At(s, o + 3) \in Nat
    <2>1. o + 0 + 1 = o + 1 /\ o + 1 + 1 = o + 2 /\ o + 2 + 1 = o + 3 /\ o + 3 + 1 = o + 4
      OBVIOUS
    <2> QED  BY <1>1, <2>1 DEF At
  <1>3. PICK a \in Nat, b \in Nat, c \in Nat, d \in Nat :
          a = At(s, o) /\ b = At(s, o + 1) /\ c = At(s, o + 2) /\ d = At(s, o + 3)
    BY <1>2
  <1>4. Huge \in Nat
    BY SMT DEF Huge
  <1> HIDE DEF Huge
  <1>5. U32At(s, o) \in {Huge, a + 256 * b + 65536 * c + 16777216 * d}
    BY <1>3, SMT DEF U32At
  <1>6. a + 256 * b + 65536 * c + 16777216 * d \in Nat
    BY SMT
  <1> QED  BY <1>4, <1>5, <1>6, SMT

LEMMA SameU32 ==
  ASSUME NEW s, NEW o \in Nat, NEW t, NEW p \in Nat,
         \A i \in 1 .. 4 : s[o + i] = t[p + i]
  PROVE  U32At(s, o) = U32At(t, p)
  <1>1. /\ s[o + 0 + 1] = t[p + 0 + 1] /\ s[o + 1 + 1] = t[p + 1 + 1]
        /\ s[o + 2 + 1] = t[p + 2 + 1] /\ s[o + 3 + 1] = t[p + 3 + 1]
    OBVIOUS
  <1>2. At(s, o) = At(t, p) /\ At(s, o + 1) = At(t, p + 1)
        /\ At(s, o + 2) = At(t, p + 2) /\ At(s, o + 3) = At(t, p + 3)
    BY <1>1 DEF At
  <1> QED  BY <1>2, SMT DEF U32At

-----------------------------------------------------------------------------
(* Documents in a stream.                                                  *)

\* s, longer.
Begins(s, t) == Len(s) <= Len(t) /\ \A i \in 1 .. Len(s) : t[i] = s[i]

LEMMA WholeIs ==
  ASSUME NEW s \in Seq(Byte), NEW p \in Nat, WholeAt(s, p) # <<>>
  PROVE  /\ p + 5 <= Len(s) /\ s[p + 4] <= 127
         /\ U32At(s, p) \in Nat /\ U32At(s, p) >= 5 /\ p + U32At(s, p) <= Len(s)
         /\ s[p + U32At(s, p)] = 0
         /\ WholeAt(s, p) = Slice(s, p, U32At(s, p))
         /\ WholeAt(s, p) \in Seq(Byte) /\ Len(WholeAt(s, p)) = U32At(s, p)
  <1>1. p + 5 <= Len(s) /\ ~ (s[p + 4] > 127)
    BY DEF WholeAt
  <1>2. U32At(s, p) \in Nat /\ s[p + 4] \in Nat
    BY <1>1, U32Is, BytesAreNumbers
  <1>3. U32At(s, p) >= 5 /\ p + U32At(s, p) <= Len(s) /\ s[p + U32At(s, p)] = 0
        /\ WholeAt(s, p) = Slice(s, p, U32At(s, p))
    BY <1>1, <1>2 DEF WholeAt
  <1>4. Slice(s, p, U32At(s, p)) \in Seq(Byte) /\ Len(Slice(s, p, U32At(s, p))) = U32At(s, p)
    BY <1>2, <1>3, SliceIs
  <1> QED  BY <1>1, <1>2, <1>3, <1>4

LEMMA WholeThere ==
  ASSUME NEW s \in Seq(Byte), NEW p \in Nat, p + 5 <= Len(s), s[p + 4] <= 127,
         U32At(s, p) >= 5, p + U32At(s, p) <= Len(s), s[p + U32At(s, p)] = 0
  PROVE  /\ WholeAt(s, p) = Slice(s, p, U32At(s, p))
         /\ Len(WholeAt(s, p)) = U32At(s, p) /\ WholeAt(s, p) # <<>>
  <1>1. U32At(s, p) \in Nat /\ s[p + 4] \in Nat
    BY U32Is, BytesAreNumbers
  <1>2. WholeAt(s, p) = Slice(s, p, U32At(s, p))
    BY <1>1 DEF WholeAt
  <1>3. Len(WholeAt(s, p)) = U32At(s, p)
    BY <1>1, <1>2, SliceIs
  <1> QED  BY <1>1, <1>2, <1>3

LEMMA WholeType ==
  ASSUME NEW s \in Seq(Byte), NEW p \in Nat
  PROVE  /\ WholeAt(s, p) \in Seq(Byte)
         /\ WholeAt(s, p) # <<>> => Len(WholeAt(s, p)) >= 5 /\ p + Len(WholeAt(s, p)) <= Len(s)
  <1>1. CASE WholeAt(s, p) = <<>>
    BY <1>1
  <1>2. CASE WholeAt(s, p) # <<>>
    BY <1>2, WholeIs
  <1> QED  BY <1>1, <1>2

\* A document in a stream stays where it is when more bytes come.
LEMMA WholeStays ==
  ASSUME NEW s \in Seq(Byte), NEW t \in Seq(Byte), Begins(s, t), NEW p \in Nat,
         WholeAt(s, p) # <<>>
  PROVE  WholeAt(t, p) = WholeAt(s, p)
  <1>1. PICK n : n = U32At(s, p)
    OBVIOUS
  <1>2. /\ p + 5 <= Len(s) /\ s[p + 4] <= 127 /\ n \in Nat /\ n >= 5 /\ p + n <= Len(s)
        /\ s[p + n] = 0 /\ WholeAt(s, p) = Slice(s, p, n)
    BY <1>1, WholeIs
  <1>3. Len(s) <= Len(t) /\ \A i \in 1 .. n : t[p + i] = s[p + i]
    BY <1>2 DEF Begins
  <1>4. U32At(t, p) = n
    <2>1. \A i \in 1 .. 4 : s[p + i] = t[p + i]
      <3> TAKE i \in 1 .. 4
      <3>1. i \in 1 .. n
        BY <1>2
      <3> QED  BY <1>3, <3>1
    <2> QED  BY <1>1, <2>1, SameU32
  <1>5. t[p + 4] = s[p + 4] /\ t[p + n] = s[p + n]
    <2>1. 4 \in 1 .. n /\ n \in 1 .. n
      BY <1>2
    <2> QED  BY <1>3, <2>1
  <1>6. WholeAt(t, p) = Slice(t, p, n)
    BY <1>2, <1>3, <1>4, <1>5, WholeThere
  <1>7. PICK d : d = Slice(s, p, n)
    OBVIOUS
  <1>8. d \in Seq(Byte) /\ Len(d) = n /\ \A i \in 1 .. n : d[i] = s[p + i]
    BY <1>2, <1>7, SliceIs
  <1>9. p + Len(d) <= Len(t) /\ \A i \in 1 .. Len(d) : d[i] = t[p + i]
    <2>1. p + Len(d) <= Len(t)
      BY <1>2, <1>3, <1>8
    <2>2. ASSUME NEW i \in 1 .. n  PROVE  d[i] = t[p + i]
      BY <1>3, <1>8
    <2> QED  BY <1>8, <2>1, <2>2
  <1>10. d = Slice(t, p, n)
    BY <1>8, <1>9, SliceMet
  <1> QED  BY <1>2, <1>6, <1>7, <1>10

\* Where there can be no document there is none when more bytes have come.
LEMMA BrokenStays ==
  ASSUME NEW s \in Seq(Byte), NEW t \in Seq(Byte), Begins(s, t), NEW p \in Nat, Broken(s, p)
  PROVE  Broken(t, p)
  <1>1. p + 4 <= Len(s) /\ Len(s) <= Len(t) /\ WholeAt(s, p) = <<>>
    BY DEF Broken, Begins
  <1>2. \A i \in 1 .. 4 : t[p + i] = s[p + i]
    BY <1>1 DEF Begins
  <1>3. U32At(t, p) = U32At(s, p) /\ U32At(s, p) \in Nat /\ t[p + 4] = s[p + 4]
    BY <1>1, <1>2, SameU32, U32Is
  <1>4. s[p + 4] > 127 \/ U32At(s, p) < 5 \/ p + U32At(s, p) <= Len(s)
    BY DEF Broken
  <1>5. WholeAt(t, p) = <<>>
    <2> SUFFICES ASSUME WholeAt(t, p) # <<>>
                 PROVE  FALSE
      OBVIOUS
    <2>1. /\ t[p + 4] <= 127 /\ U32At(t, p) >= 5 /\ t[p + U32At(t, p)] = 0
      BY WholeIs
    <2>2. t[p + 4] \in Nat
      BY <1>1, BytesAreNumbers
    <2>3. p + U32At(s, p) <= Len(s) /\ p + U32At(s, p) \in 1 .. Len(s)
      BY <1>3, <1>4, <2>1, <2>2
    <2>4. s[p + U32At(s, p)] = 0
      BY <1>3, <2>1, <2>3 DEF Begins
    <2>5. p + 5 <= Len(s) /\ s[p + 4] <= 127 /\ U32At(s, p) >= 5
      BY <1>3, <2>1, <2>3
    <2> QED  BY <1>1, <2>3, <2>4, <2>5, WholeThere
  <1> QED  BY <1>1, <1>3, <1>4, <1>5 DEF Broken
-----------------------------------------------------------------------------
(* Documents one behind the other.                                         *)

LEMMA EndFromIs ==
  ASSUME NEW s \in Seq(Byte), NEW p \in 0 .. Len(s)
  PROVE  /\ EndFrom(s, p) \in 0 .. Len(s)
         /\ WholeAt(s, p) = <<>> => EndFrom(s, p) = p
         /\ WholeAt(s, p) # <<>> => EndFrom(s, p) = EndFrom(s, p + Len(WholeAt(s, p)))
  <1>1. PICK n \in Nat : n = Len(s)
    OBVIOUS
  <1> DEFINE Ends_(f) == [q \in 0 .. n |-> IF WholeAt(s, q) = <<>> THEN q
                                            ELSE f[q + Len(WholeAt(s, q))]]
             end == CHOOSE f : f = Ends_(f)
             stop == {q \in 0 .. n : WholeAt(s, q) = <<>>}
             base == [q \in 0 .. n |-> q]
             next == [q \in 0 .. n |-> IF WholeAt(s, q) = <<>> THEN q ELSE q + Len(WholeAt(s, q))]
  <1>2. \A q \in 0 .. n :
          WholeAt(s, q) # <<>> => /\ Len(WholeAt(s, q)) \in Nat /\ Len(WholeAt(s, q)) >= 5
                                  /\ q + Len(WholeAt(s, q)) <= n
    <2> TAKE q \in 0 .. n
    <2>1. q \in Nat
      OBVIOUS
    <2> QED  BY <1>1, <2>1, WholeType
  <1>3. stop \in SUBSET (0 .. n) /\ base \in [0 .. n -> 0 .. n]
    OBVIOUS
  <1>4. next \in [0 .. n -> 0 .. n] /\ \A i \in 0 .. n : i \in stop \/ next[i] > i
    BY <1>2
  <1>5. PICK f \in [0 .. n -> 0 .. n] :
          \A i \in 0 .. n : f[i] = IF i \in stop THEN base[i] ELSE f[next[i]]
    <2>1. PICK S : S = 0 .. n
      OBVIOUS
    <2> HIDE DEF stop, base, next
    <2>2. base \in [0 .. n -> S]
      BY <1>3, <2>1
    <2>3. Ahead(n, stop, next)
      BY <1>4 DEF Ahead
    <2>4. Lookers(S, n, stop, base, next) # {}
      BY <1>3, <2>2, <2>3, LookingAhead
    <2> QED  BY <2>1, <2>4 DEF Lookers
  <1>6. f = Ends_(f)
    BY <1>5
  <1>7. end = Ends_(end)
    <2> HIDE DEF Ends_
    <2> QED  BY <1>6
  <1>8. \A q \in 0 .. n : EndFrom(s, q) = end[q]
    BY <1>1 DEF EndFrom
  <1> HIDE DEF end
  <1>9. \A q \in 0 .. n : end[q] = IF WholeAt(s, q) = <<>> THEN q ELSE end[q + Len(WholeAt(s, q))]
    BY <1>7
  <1> DEFINE T == {k \in 0 .. n + 1 : \A i \in k .. n : end[i] \in 0 .. n}
  <1>10. 0 \in T
    <2>1. n + 1 \in T
      OBVIOUS
    <2>2. \A k \in 0 .. (n + 1) - 1 : k + 1 \in T => k \in T
      <3> SUFFICES ASSUME NEW k \in 0 .. n, k + 1 \in T
                   PROVE  k \in T
        BY (n + 1) - 1 = n
      <3>1. end[k] \in 0 .. n
        <4>1. WholeAt(s, k) # <<>> => k + Len(WholeAt(s, k)) \in k + 1 .. n
          <5> SUFFICES ASSUME WholeAt(s, k) # <<>>
                       PROVE  k + Len(WholeAt(s, k)) \in k + 1 .. n
            OBVIOUS
          <5>1. Len(WholeAt(s, k)) \in Nat /\ Len(WholeAt(s, k)) >= 5 /\ k + Len(WholeAt(s, k)) <= n
            BY <1>2
          <5> QED  BY <5>1
        <4>2. WholeAt(s, k) # <<>> => end[k + Len(WholeAt(s, k))] \in 0 .. n
          BY <4>1
        <4> QED  BY <1>9, <4>2
      <3>2. \A i \in k .. n : end[i] \in 0 .. n
        <4> TAKE i \in k .. n
        <4>1. i = k \/ i \in k + 1 .. n
          OBVIOUS
        <4> QED  BY <3>1, <4>1
      <3> QED  BY <3>2
    <2>3. 0 .. n + 1 \subseteq T
      <3>1. n + 1 \in Int /\ 0 \in Int
        OBVIOUS
      <3> HIDE DEF T
      <3> QED  BY <2>1, <2>2, <3>1, DownFrom
    <2>4. 0 \in 0 .. n + 1
      OBVIOUS
    <2> HIDE DEF T
    <2> QED  BY <2>3, <2>4
  <1>11. end[p] \in 0 .. n /\ p \in 0 .. n
    BY <1>1, <1>10
  <1>12. WholeAt(s, p) # <<>> => p + Len(WholeAt(s, p)) \in 0 .. n
    <2> SUFFICES ASSUME WholeAt(s, p) # <<>>
                 PROVE  p + Len(WholeAt(s, p)) \in 0 .. n
      OBVIOUS
    <2>1. Len(WholeAt(s, p)) \in Nat /\ Len(WholeAt(s, p)) >= 5 /\ p + Len(WholeAt(s, p)) <= n
      BY <1>2, <1>11
    <2> QED  BY <1>11, <2>1
  <1>13. WholeAt(s, p) # <<>> => EndFrom(s, p + Len(WholeAt(s, p))) = end[p + Len(WholeAt(s, p))]
    BY <1>8, <1>12
  <1>14. /\ EndFrom(s, p) = end[p]
         /\ end[p] = IF WholeAt(s, p) = <<>> THEN p ELSE end[p + Len(WholeAt(s, p))]
    BY <1>8, <1>9, <1>11
  <1> QED  BY <1>1, <1>11, <1>13, <1>14

\* When another document is put behind documents, the end of it is theirs.
LEMMA EndFromGrows ==
  ASSUME NEW s \in Seq(Byte), NEW t \in Seq(Byte), Begins(s, t),
         WholeAt(t, Len(s)) # <<>>, Len(s) + Len(WholeAt(t, Len(s))) = Len(t),
         NEW p \in 0 .. Len(s), EndFrom(s, p) = Len(s)
  PROVE  EndFrom(t, p) = Len(t)
  <1>1. PICK n \in Nat, m \in Nat : n = Len(s) /\ m = Len(t)
    OBVIOUS
  <1>2. n <= m
    BY <1>1 DEF Begins
  <1>3. EndFrom(t, n) = m
    <2>1. WholeAt(t, m) = <<>>
      <3>1. WholeAt(t, m) # <<>> => m + 5 <= m
        BY <1>1, WholeIs
      <3> QED  BY <3>1
    <2>2. EndFrom(t, m) = m
      BY <1>1, <2>1, EndFromIs
    <2>3. EndFrom(t, n) = EndFrom(t, n + Len(WholeAt(t, n)))
      <3>1. WholeAt(t, n) # <<>> /\ n \in 0 .. Len(t)
        BY <1>1, <1>2
      <3> QED  BY <3>1, EndFromIs
    <2> QED  BY <1>1, <2>2, <2>3
  <1> DEFINE Good(i) == EndFrom(s, i) = n => EndFrom(t, i) = m
             T == {k \in 0 .. n : \A i \in k .. n : Good(i)}
  <1>4. n \in T
    BY <1>3
  <1>5. \A k \in 0 .. n - 1 : k + 1 \in T => k \in T
    <2> SUFFICES ASSUME NEW k \in 0 .. n - 1, k + 1 \in T, EndFrom(s, k) = n
                 PROVE  EndFrom(t, k) = m
      <3>1. \A k \in 0 .. n - 1 : \A i \in k .. n : i = k \/ i \in k + 1 .. n
        OBVIOUS
      <3> HIDE DEF Good
      <3>2. \A k \in 0 .. n - 1 : k + 1 \in T => Good(k)
        BY DEF Good
      <3> QED  BY <3>1, <3>2
    <2>1. k \in 0 .. Len(s) /\ k \in 0 .. Len(t) /\ k \in Nat
      BY <1>1, <1>2
    <2>2. WholeAt(s, k) # <<>>
      BY <2>1, EndFromIs
    <2>3. PICK l : l = Len(WholeAt(s, k))
      OBVIOUS
    <2>4. l \in Nat /\ l >= 5 /\ k + l <= n
      BY <1>1, <2>1, <2>2, <2>3, WholeType
    <2>5. WholeAt(t, k) = WholeAt(s, k)
      BY <2>1, <2>2, WholeStays
    <2>6. EndFrom(s, k) = EndFrom(s, k + l) /\ EndFrom(t, k) = EndFrom(t, k + l)
      BY <2>1, <2>2, <2>3, <2>5, EndFromIs
    <2>7. k + l \in k + 1 .. n
      BY <2>4
    <2>8. Good(k + l)
      BY <2>7
    <2> QED  BY <2>6, <2>8
  <1>6. 0 .. n \subseteq T
    <2>1. n \in Int /\ 0 \in Int
      OBVIOUS
    <2> HIDE DEF T
    <2> QED  BY <1>4, <1>5, <2>1, DownFrom
  <1>7. p \in T
    BY <1>1, <1>6
  <1> QED  BY <1>1, <1>7

LEMMA NothingBehind ==
  ASSUME NEW s \in Seq(Byte)
  PROVE  WholeAt(s, Len(s)) = <<>> /\ EndFrom(s, Len(s)) = Len(s)
  <1>1. PICK n \in Nat : n = Len(s)
    OBVIOUS
  <1>2. WholeAt(s, n) # <<>> => n + 5 <= n
    BY <1>1, WholeIs
  <1> QED  BY <1>1, <1>2, EndFromIs

\* The positions behind documents.
LEMMA BehindIs ==
  ASSUME NEW docs \in Seq(Seq(Byte)), NEW n \in 0 .. Len(docs)
  PROVE  /\ Behind(docs, n) \in Nat
         /\ n = 0 => Behind(docs, n) = 0
         /\ n > 0 => Behind(docs, n) = Behind(docs, n - 1) + Len(docs[n])
  <1>1. \A i \in 1 .. Len(docs) : Len(docs[i]) \in Nat
    <2> TAKE i \in 1 .. Len(docs)
    <2>1. docs[i] \in Seq(Byte)
      BY ElementOfSeq
    <2> QED  BY <2>1
  <1> DEFINE Steps(k, f) == [i \in 0 .. k |-> IF i = 0 THEN 0 ELSE f[i - 1] + Len(docs[i])]
             B(k) == CHOOSE f : f = Steps(k, f)
  <1>2. ASSUME NEW k \in 0 .. Len(docs)
        PROVE  /\ \A i \in 1 .. k : B(k)[i] = B(k)[i - 1] + Len(docs[i])
               /\ B(k)[0] = 0
    <2> DEFINE step == [i \in 1 .. k |-> [e \in Nat |-> e + Len(docs[i])]]
               b == B(k)
    <2>1. step \in StepsOn(Nat, k)
      BY <1>1 DEF StepsOn
    <2>2. PICK r \in [0 .. k -> Nat] : r[0] = 0 /\ \A i \in 1 .. k : r[i] = step[i][r[i - 1]]
      <3>1. k \in Nat /\ 0 \in Nat
        OBVIOUS
      <3> HIDE DEF step
      <3>2. Walks(Nat, k, 0, step) # {}
        BY <2>1, <3>1, StepByStep
      <3> QED  BY <3>2 DEF Walks
    <2>3. r = Steps(k, r)
      <3>1. ASSUME NEW i \in 1 .. k
            PROVE  r[i] = r[i - 1] + Len(docs[i])
        <4>1. r[i - 1] \in Nat
          BY <2>2
        <4>2. r[i] = step[i][r[i - 1]]
          BY <2>2
        <4> QED  BY <4>1, <4>2
      <3>2. \A i \in 0 .. k : r[i] = Steps(k, r)[i]
        BY <2>2, <3>1
      <3> QED  BY <3>2
    <2>4. b = Steps(k, b)
      <3> HIDE DEF Steps
      <3> QED  BY <2>3
    <2> HIDE DEF b
    <2>5. (\A i \in 1 .. k : b[i] = b[i - 1] + Len(docs[i])) /\ b[0] = 0
      BY <2>4, SMTT(30)
    <2> QED  BY <2>5 DEF b
  <1>3. \A k \in 0 .. Len(docs) : Behind(docs, k) = B(k)[k]
    BY DEF Behind
  <1> HIDE DEF B
  <1> DEFINE T(k) == {i \in 0 .. k : B(k)[i] \in Nat}
  <1>4. ASSUME NEW k \in 0 .. Len(docs)
        PROVE  \A i \in 0 .. k : B(k)[i] \in Nat
    <2> DEFINE t == T(k)
    <2>1. 0 \in t
      BY <1>2
    <2>2. \A i \in 0 .. k - 1 : i \in t => i + 1 \in t
      <3> SUFFICES ASSUME NEW i \in 0 .. k - 1, i \in t
                   PROVE  i + 1 \in t
        OBVIOUS
      <3>1. i + 1 \in 1 .. k /\ i + 1 \in 1 .. Len(docs) /\ (i + 1) - 1 = i /\ i + 1 \in 0 .. k
        OBVIOUS
      <3>2. B(k)[i + 1] = B(k)[i] + Len(docs[i + 1])
        BY <1>2, <3>1
      <3>3. B(k)[i] \in Nat /\ Len(docs[i + 1]) \in Nat
        BY <1>1, <3>1
      <3> QED  BY <3>1, <3>2, <3>3
    <2>3. 0 .. k \subseteq t
      <3>1. k \in Nat
        OBVIOUS
      <3> HIDE DEF t
      <3> QED  BY <2>1, <2>2, <3>1, UpTo
    <2> QED  BY <2>3
  <1>5. ASSUME NEW k \in 1 .. Len(docs)
        PROVE  \A i \in 0 .. k - 1 : B(k)[i] = B(k - 1)[i]
    <2> DEFINE t == {i \in 0 .. k - 1 : B(k)[i] = B(k - 1)[i]}
    <2>0. k \in 0 .. Len(docs) /\ k - 1 \in 0 .. Len(docs)
      OBVIOUS
    <2>1. 0 \in t
      BY <1>2, <2>0
    <2>2. \A i \in 0 .. (k - 1) - 1 : i \in t => i + 1 \in t
      <3> SUFFICES ASSUME NEW i \in 0 .. (k - 1) - 1, i \in t
                   PROVE  i + 1 \in t
        OBVIOUS
      <3>1. i + 1 \in 1 .. k /\ i + 1 \in 1 .. k - 1 /\ (i + 1) - 1 = i /\ i + 1 \in 0 .. k - 1
        OBVIOUS
      <3>2. B(k)[i + 1] = B(k)[i] + Len(docs[i + 1])
        BY <1>2, <2>0, <3>1
      <3>3. B(k - 1)[i + 1] = B(k - 1)[i] + Len(docs[i + 1])
        BY <1>2, <2>0, <3>1
      <3> QED  BY <3>1, <3>2, <3>3
    <2>3. 0 .. k - 1 \subseteq t
      <3>1. k - 1 \in Nat
        OBVIOUS
      <3> HIDE DEF t
      <3> QED  BY <2>1, <2>2, <3>1, UpTo
    <2> QED  BY <2>3
  <1>6. Behind(docs, n) \in Nat
    BY <1>3, <1>4
  <1>7. n = 0 => Behind(docs, n) = 0
    BY <1>2, <1>3
  <1>8. ASSUME n > 0
        PROVE  Behind(docs, n) = Behind(docs, n - 1) + Len(docs[n])
    <2>1. n \in 1 .. Len(docs) /\ n \in 1 .. n /\ n - 1 \in 0 .. n - 1 /\ n - 1 \in 0 .. Len(docs)
      BY <1>8
    <2>2. B(n)[n] = B(n)[n - 1] + Len(docs[n])
      BY <1>2, <2>1
    <2>3. B(n)[n - 1] = B(n - 1)[n - 1]
      BY <1>5, <2>1
    <2> QED  BY <1>3, <2>1, <2>2, <2>3
  <1> QED  BY <1>6, <1>7, <1>8

\* Documents put behind others do not move those.
LEMMA BehindSame ==
  ASSUME NEW docs \in Seq(Seq(Byte)), NEW doc \in Seq(Byte)
  PROVE  \A n \in 0 .. Len(docs) : Behind(Append(docs, doc), n) = Behind(docs, n)
  <1>1. PICK more : more = Append(docs, doc)
    OBVIOUS
  <1>2. /\ more \in Seq(Seq(Byte)) /\ Len(more) = Len(docs) + 1
        /\ \A i \in 1 .. Len(docs) : more[i] = docs[i]
    BY <1>1, AppendProperties
  <1>3. PICK l \in Nat : l = Len(docs)
    OBVIOUS
  <1> DEFINE T == {n \in 0 .. l : Behind(more, n) = Behind(docs, n)}
  <1>4. 0 \in T
    <2>1. 0 \in 0 .. Len(more) /\ 0 \in 0 .. Len(docs)
      BY <1>2, <1>3
    <2> QED  BY <1>2, <1>3, <2>1, BehindIs
  <1>5. \A n \in 0 .. l - 1 : n \in T => n + 1 \in T
    <2> SUFFICES ASSUME NEW n \in 0 .. l - 1, n \in T
                 PROVE  n + 1 \in T
      OBVIOUS
    <2>1. n + 1 \in 0 .. Len(more) /\ n + 1 \in 0 .. Len(docs) /\ n + 1 \in 1 .. Len(docs)
          /\ (n + 1) - 1 = n /\ n + 1 > 0
      BY <1>2, <1>3
    <2>2. Behind(more, n + 1) = Behind(more, n) + Len(more[n + 1])
      BY <1>2, <2>1, BehindIs
    <2>3. Behind(docs, n + 1) = Behind(docs, n) + Len(docs[n + 1])
      BY <2>1, BehindIs
    <2> QED  BY <1>2, <1>3, <2>1, <2>2, <2>3
  <1>6. 0 .. l \subseteq T
    <2> HIDE DEF T
    <2> QED  BY <1>4, <1>5, UpTo
  <1> QED  BY <1>1, <1>3, <1>6
-----------------------------------------------------------------------------
(* The writer.                                                             *)

LEMMA PutIs ==
  ASSUME NEW m \in Seq(Byte), NEW o \in Int, NEW bytes \in Seq(Byte)
  PROVE  /\ Put(m, o, bytes) \in Seq(Byte) /\ Len(Put(m, o, bytes)) = Len(m)
         /\ \A i \in 1 .. Len(m) :
              Put(m, o, bytes)[i] = IF i - o \in 1 .. Len(bytes) THEN bytes[i - o] ELSE m[i]
  <1>1. PICK n \in Nat, l \in Nat : n = Len(m) /\ DOMAIN m = 1 .. n /\ l = Len(bytes)
                                    /\ DOMAIN bytes = 1 .. l
    BY LenProperties
  <1>2. \A i \in 1 .. n : m[i] \in Byte
    BY <1>1, ElementOfSeq
  <1>3. \A i \in 1 .. l : bytes[i] \in Byte
    BY <1>1, ElementOfSeq
  <1> DEFINE b(i) == IF i - o \in 1 .. l THEN bytes[i - o] ELSE m[i]
             f == [i \in 1 .. n |-> b(i)]
  <1>4. Put(m, o, bytes) = f
    BY <1>1 DEF Put
  <1>5. \A i \in 1 .. n : b(i) \in Byte
    BY <1>2, <1>3
  <1>6. f \in [1 .. n -> Byte]
    BY <1>5
  <1>7. f \in Seq(Byte) /\ Len(f) = n
    <2> HIDE DEF f
    <2> QED  BY <1>6
  <1>8. \A i \in 1 .. n : f[i] = b(i)
    OBVIOUS
  <1> HIDE DEF f
  <1> QED  BY <1>1, <1>4, <1>7, <1>8

LEMMA NewIs ==
  ASSUME NEW n \in Nat
  PROVE  New(n) \in Seq(Byte) /\ Len(New(n)) = n
  <1>1. Unwritten \in Byte
    BY SMT DEF Unwritten, Byte
  <1>2. New(n) \in [1 .. n -> Byte]
    BY <1>1 DEF New
  <1> QED  BY <1>2

LEMMA DoubledIs ==
  ASSUME NEW n \in Nat \ {0}, NEW need \in Nat
  PROVE  Doubled(n, need) \in Nat /\ Doubled(n, need) >= need /\ Doubled(n, need) >= n
  <1>1. CASE n >= need
    BY <1>1 DEF Doubled
  <1>2. CASE n < need
    <2> DEFINE Twice(f) == [m \in 1 .. need - 1 |-> IF 2 * m >= need THEN 2 * m ELSE f[2 * m]]
               twice == CHOOSE f : f = Twice(f)
    <2>1. PICK k \in Nat : k = need - 1 /\ need = k + 1
      BY <1>2
    <2> DEFINE stop == {m \in 0 .. k : m = 0 \/ 2 * m >= need}
               base == [m \in 0 .. k |-> IF m = 0 THEN need ELSE 2 * m]
               next == [m \in 0 .. k |-> IF m \in stop THEN 0 ELSE 2 * m]
    <2>2. stop \in SUBSET (0 .. k) /\ base \in [0 .. k -> Nat]
      OBVIOUS
    <2>3. Ahead(k, stop, next)
      <3>1. \A m \in 0 .. k : next[m] \in 0 .. k /\ (m \in stop \/ next[m] > m)
        BY <2>1
      <3>2. next \in [0 .. k -> 0 .. k]
        BY <3>1
      <3> HIDE DEF stop, next
      <3> QED  BY <3>1, <3>2 DEF Ahead
    <2>4. PICK g \in [0 .. k -> Nat] :
            \A i \in 0 .. k : g[i] = IF i \in stop THEN base[i] ELSE g[next[i]]
      <3> HIDE DEF stop, base, next
      <3>1. Lookers(Nat, k, stop, base, next) # {}
        BY <2>2, <2>3, LookingAhead
      <3> QED  BY <3>1 DEF Lookers
    <2> DEFINE h == [m \in 1 .. need - 1 |-> g[m]]
    <2>5. h = Twice(h)
      <3>1. ASSUME NEW m \in 1 .. need - 1
            PROVE  g[m] = IF 2 * m >= need THEN 2 * m ELSE h[2 * m]
        <4>1. m \in 0 .. k /\ m # 0
          BY <2>1
        <4>2. g[m] = IF m \in stop THEN base[m] ELSE g[next[m]]
          BY <2>4, <4>1
        <4>3. CASE 2 * m >= need
          BY <4>1, <4>2, <4>3
        <4>4. CASE ~ (2 * m >= need)
          <5>1. 2 * m \in 1 .. need - 1
            BY <4>1, <4>4, <2>1
          <5>2. next[m] = 2 * m /\ m \notin stop
            BY <4>1, <4>4
          <5> QED  BY <4>2, <4>4, <5>1, <5>2
        <4> QED  BY <4>3, <4>4
      <3> QED  BY <3>1
    <2>6. twice = Twice(twice)
      <3> HIDE DEF Twice
      <3> QED  BY <2>5
    <2>7. Doubled(n, need) = twice[n]
      BY <1>2 DEF Doubled
    <2> HIDE DEF twice
    <2> DEFINE T == {j \in 1 .. need :
                       \A m \in j .. need - 1 : twice[m] \in Nat /\ twice[m] >= need}
    <2>8. need \in T
      BY <1>2
    <2>9. \A j \in 1 .. need - 1 : j + 1 \in T => j \in T
      <3> SUFFICES ASSUME NEW j \in 1 .. need - 1, j + 1 \in T
                   PROVE  j \in T
        OBVIOUS
      <3>1. twice[j] = IF 2 * j >= need THEN 2 * j ELSE twice[2 * j]
        BY <2>6
      <3>2. ~ (2 * j >= need) => 2 * j \in j + 1 .. need - 1
        OBVIOUS
      <3>3. twice[j] \in Nat /\ twice[j] >= need
        BY <3>1, <3>2
      <3>4. ASSUME NEW m \in j .. need - 1  PROVE  twice[m] \in Nat /\ twice[m] >= need
        <4>1. m = j \/ m \in j + 1 .. need - 1
          OBVIOUS
        <4> QED  BY <3>3, <4>1
      <3> QED  BY <3>4
    <2>10. 1 .. need \subseteq T
      <3>1. need \in Int /\ 1 \in Int
        OBVIOUS
      <3> HIDE DEF T
      <3> QED  BY <2>8, <2>9, <3>1, DownFrom
    <2>11. n \in T /\ n \in n .. need - 1
      BY <1>2, <2>10
    <2> QED  BY <1>2, <2>7, <2>11
  <1> QED  BY <1>1, <1>2

LEMMA DigitsOf ==
  ASSUME NEW n \in Nat, n < 2147483647
  PROVE  /\ (n \div 16777216) % 256 <= 127
         /\ ((n \div 1) % 256) + 256 * ((n \div 256) % 256) + 65536 * ((n \div 65536) % 256)
              + 16777216 * ((n \div 16777216) % 256) = n
  <1>1. PICK a \in Nat, b \in Nat : a = n \div 256 /\ b = n % 256 /\ n = 256 * a + b /\ b <= 255
    BY SMT
  <1>2. PICK c \in Nat, d \in Nat : c = a \div 256 /\ d = a % 256 /\ a = 256 * c + d /\ d <= 255
    BY SMT
  <1>3. PICK e \in Nat, f \in Nat : e = c \div 256 /\ f = c % 256 /\ c = 256 * e + f /\ f <= 255
    BY SMT
  <1>4. n \div 65536 = c /\ n \div 16777216 = e /\ n \div 1 = n
    BY <1>1, <1>2, <1>3, SMT
  <1>5. e <= 127
    BY <1>1, <1>2, <1>3, SMT
  <1>6. e % 256 = e
    BY <1>5, SMT
  <1> QED  BY <1>1, <1>2, <1>3, <1>4, <1>5, <1>6, SMT

LEMMA HugeIs == Huge \in Nat
  BY SMT DEF Huge

LEMMA LEIs ==
  ASSUME NEW n \in Nat
  PROVE  /\ LE(n, 4) \in Seq(Byte) /\ Len(LE(n, 4)) = 4
         /\ n < Huge => /\ LE(n, 4)[4] <= 127
                        /\ U32At(LE(n, 4), 0) = n
  <1> DEFINE digit == <<1, 256, 65536, 16777216>>
  <1>2. /\ digit[1] = 1 /\ digit[2] = 256 /\ digit[3] = 65536 /\ digit[4] = 16777216
        /\ \A i \in 1 .. 4 : digit[i] \in Nat \ {0}
    BY SMT
  <1>3. LE(n, 4) = [i \in 1 .. 4 |-> (n \div digit[i]) % 256]
    <2>1. LE(n, 4) = [i \in 1 .. 4 |-> IF i <= 4 THEN (n \div digit[i]) % 256
                                       ELSE IF n < 0 THEN 255 ELSE 0]
      BY DEF LE
    <2>2. \A i \in 1 .. 4 : i <= 4
      OBVIOUS
    <2> HIDE DEF digit
    <2> QED  BY <2>1, <2>2
  <1> HIDE DEF digit
  <1> DEFINE le == LE(n, 4)
  <1>4. \A i \in 1 .. 4 : le[i] = (n \div digit[i]) % 256
    BY <1>3
  <1>5. \A i \in 1 .. 4 : (n \div digit[i]) % 256 \in Byte
    <2> TAKE i \in 1 .. 4
    <2>1. PICK d \in Nat \ {0} : d = digit[i]
      BY <1>2
    <2>2. PICK q \in Nat : q = n \div d
      OBVIOUS
    <2> QED  BY <2>1, <2>2 DEF Byte
  <1>6. le \in [1 .. 4 -> Byte]
    BY <1>3, <1>5
  <1>7. le \in Seq(Byte) /\ Len(le) = 4
    <2>1. \A k \in Nat : \A f \in [1 .. k -> Byte] : f \in Seq(Byte) /\ Len(f) = k
      OBVIOUS
    <2> HIDE DEF le
    <2> QED  BY <1>6, <2>1
  <1>8. /\ le[0 + 1] = (n \div 1) % 256 /\ le[1 + 1] = (n \div 256) % 256
        /\ le[2 + 1] = (n \div 65536) % 256 /\ le[3 + 1] = (n \div 16777216) % 256
        /\ le[4] = (n \div 16777216) % 256
    <2> HIDE DEF le
    <2>1. /\ le[1] = (n \div digit[1]) % 256 /\ le[2] = (n \div digit[2]) % 256
          /\ le[3] = (n \div digit[3]) % 256 /\ le[4] = (n \div digit[4]) % 256
      BY <1>4
    <2>2. le[0 + 1] = le[1] /\ le[1 + 1] = le[2] /\ le[2 + 1] = le[3] /\ le[3 + 1] = le[4]
      OBVIOUS
    <2> QED  BY <1>2, <2>1, <2>2, SMT
  <1> HIDE DEF le
  <1>9. ASSUME n < Huge
        PROVE  le[4] <= 127 /\ U32At(le, 0) = n
    <2>1. PICK a, b, c, d : a = (n \div 1) % 256 /\ b = (n \div 256) % 256
                            /\ c = (n \div 65536) % 256 /\ d = (n \div 16777216) % 256
      OBVIOUS
    <2>2. d <= 127 /\ a + 256 * b + 65536 * c + 16777216 * d = n
      BY <1>9, <2>1, DigitsOf, SMT DEF Huge
    <2>3. d \in Nat
      BY <2>1, SMT
    <2>4. At(le, 0) = a /\ At(le, 0 + 1) = b /\ At(le, 0 + 2) = c /\ At(le, 0 + 3) = d
      <3>1. le[0 + 1] = a /\ le[0 + 1 + 1] = b /\ le[0 + 2 + 1] = c /\ le[0 + 3 + 1] = d
        <4>1. 0 + 1 + 1 = 1 + 1 /\ 0 + 2 + 1 = 2 + 1 /\ 0 + 3 + 1 = 3 + 1
          OBVIOUS
        <4> QED  BY <1>8, <2>1, <4>1
      <3> QED  BY <3>1 DEF At
    <2>5. ~ (d > 127)
      BY <2>2, <2>3, SMT
    <2>6. U32At(le, 0) = a + 256 * b + 65536 * c + 16777216 * d
      BY <2>4, <2>5, SMT DEF U32At
    <2> QED  BY <1>8, <2>1, <2>2, <2>6, SMT
  <1> QED  BY <1>7, <1>9 DEF le
Writer == [ready : BOOLEAN, offset : Nat, b_len : Nat, realloc : BOOLEAN]

\* There are n bytes of a document at o that ends, and says its length while it keeps to
\* the limit.
Begun(m, o, n) ==
  n >= 5 /\ m[o + n] = 0 /\ (n <= Limit => m[o + 4] <= 127 /\ U32At(m, o) = n)

FinishedIn(m, w) == Slice(m, 0, w.offset)

\* The writer w and its buffer m: documents, and the one that is being written.
WriterInOrder(m, w) ==
  /\ m \in Seq(Byte) /\ w \in Writer
  /\ w.offset + w.b_len <= Len(m)
  /\ w.b_len = 0 <=> w.ready
  /\ ~w.ready => Begun(m, w.offset, w.b_len)
  /\ EndFrom(FinishedIn(m, w), 0) = Len(FinishedIn(m, w)) /\ w.offset <= Limit

\* What a step of the writer leaves of the documents that have ended.
Kept(m, w, mm, ww) ==
  /\ ww.offset >= w.offset
  /\ \A i \in 1 .. w.offset : mm[i] = m[i]
  /\ \A q \in 0 .. w.offset :
       EndFrom(FinishedIn(m, w), q) = w.offset => EndFrom(FinishedIn(mm, ww), q) = ww.offset

LEMMA FinishedIs ==
  ASSUME NEW m \in Seq(Byte), NEW w \in Writer, w.offset <= Len(m)
  PROVE  /\ FinishedIn(m, w) \in Seq(Byte) /\ Len(FinishedIn(m, w)) = w.offset
         /\ \A i \in 1 .. w.offset : FinishedIn(m, w)[i] = m[i]
  <1>1. PICK n \in Nat : n = w.offset
    BY DEF Writer
  <1>2. PICK d : d = Slice(m, 0, n)
    OBVIOUS
  <1>3. d \in Seq(Byte) /\ Len(d) = n /\ \A i \in 1 .. n : d[i] = m[0 + i]
    <2>1. 0 \in Nat /\ 0 + n <= Len(m)
      BY <1>1
    <2> QED  BY <1>2, <2>1, SliceIs
  <1>4. \A i \in 1 .. n : d[i] = m[i]
    BY <1>3
  <1> QED  BY <1>1, <1>2, <1>3, <1>4 DEF FinishedIn

\* Where a step keeps the offset and the bytes before it, everything that has ended stays.
LEMMA KeptWhere ==
  ASSUME NEW m \in Seq(Byte), NEW w \in Writer, w.offset <= Len(m),
         NEW mm \in Seq(Byte), NEW ww \in Writer, ww.offset <= Len(mm),
         ww.offset = w.offset, \A i \in 1 .. w.offset : mm[i] = m[i]
  PROVE  Kept(m, w, mm, ww) /\ FinishedIn(mm, ww) = FinishedIn(m, w)
  <1>1. PICK a, b : a = FinishedIn(m, w) /\ b = FinishedIn(mm, ww)
    OBVIOUS
  <1>2. a \in Seq(Byte) /\ Len(a) = w.offset /\ \A i \in 1 .. w.offset : a[i] = m[i]
    BY <1>1, FinishedIs
  <1>3. b \in Seq(Byte) /\ Len(b) = w.offset /\ \A i \in 1 .. w.offset : b[i] = mm[i]
    BY <1>1, FinishedIs
  <1>4. a = b
    <2>1. \A i \in 1 .. Len(a) : a[i] = b[i]
      BY <1>2, <1>3
    <2> QED  BY <1>2, <1>3, <2>1, SeqEqual
  <1>5. w.offset \in Nat
    BY DEF Writer
  <1> QED  BY <1>1, <1>4, <1>5 DEF Kept

\* A document is begun.
LEMMA BeginKeeps ==
  ASSUME WriterInOrder(buf, writer), bson_writer_begin
  PROVE  WriterInOrder(buf', writer') /\ Kept(buf, writer, buf', writer')
  <1>1. PICK o \in Nat, n \in Nat : o = writer.offset /\ n = Len(buf) /\ o <= n
    <2>1. writer.offset \in Nat /\ writer.b_len \in Nat /\ Len(buf) \in Nat
      BY DEF WriterInOrder, Writer
    <2> QED  BY <2>1 DEF WriterInOrder
  <1>2. PICK size : size = Doubled(IF buf = <<>> THEN FirstBuffer ELSE Len(buf), o + 5)
    OBVIOUS
  <1>3. size \in Nat /\ size >= o + 5
    <2>1. PICK k : k = IF buf = <<>> THEN FirstBuffer ELSE Len(buf)
      OBVIOUS
    <2>2. k \in Nat \ {0}
      BY <1>1, <2>1, WriterAssumption, EmptySeq DEF WriterInOrder
    <2>3. PICK need \in Nat : need = o + 5
      OBVIOUS
    <2>4. size = Doubled(k, need)
      BY <1>2, <2>1, <2>3
    <2> QED  BY <2>2, <2>3, <2>4, DoubledIs
  <1>4. PICK e : e = <<5, 0, 0, 0, 0, 0>>
    OBVIOUS
  <1>5. /\ e \in Seq(Byte) /\ Len(e) = 6 /\ e[1] = 5 /\ e[2] = 0 /\ e[3] = 0 /\ e[4] = 0
        /\ e[5] = 0
    BY <1>4 DEF Byte
  <1>6. buf \in Seq(Byte) /\ writer \in Writer
    BY DEF WriterInOrder
  <1>7. PICK m : m = Put(New(size), 0, buf)
    OBVIOUS
  <1>8. /\ m \in Seq(Byte) /\ Len(m) = size
        /\ \A i \in 1 .. o : m[i] = buf[i]
    <2>1. New(size) \in Seq(Byte) /\ Len(New(size)) = size
      BY <1>3, NewIs
    <2>2. /\ m \in Seq(Byte) /\ Len(m) = size
          /\ \A i \in 1 .. size : m[i] = IF i - 0 \in 1 .. n THEN buf[i - 0] ELSE New(size)[i]
      BY <1>1, <1>6, <1>7, <2>1, PutIs
    <2>3. \A i \in 1 .. o : i \in 1 .. size /\ i - 0 = i /\ i \in 1 .. n
      BY <1>1, <1>3
    <2> QED  BY <2>2, <2>3
  <1>9. buf' = Put(m, o, e)
    BY <1>1, <1>2, <1>4, <1>7 DEF bson_writer_begin
  <1>10. /\ buf' \in Seq(Byte) /\ Len(buf') = size
         /\ \A i \in 1 .. size : buf'[i] = IF i - o \in 1 .. 6 THEN e[i - o] ELSE m[i]
    <2>1. m \in Seq(Byte) /\ e \in Seq(Byte) /\ o \in Int
      BY <1>5, <1>8
    <2>2. /\ Put(m, o, e) \in Seq(Byte) /\ Len(Put(m, o, e)) = Len(m)
          /\ \A i \in 1 .. Len(m) :
               Put(m, o, e)[i] = IF i - o \in 1 .. Len(e) THEN e[i - o] ELSE m[i]
      BY <2>1, PutIs
    <2> QED  BY <1>5, <1>8, <1>9, <2>2
  <1>11. \A i \in 1 .. o : buf'[i] = buf[i]
    <2> TAKE i \in 1 .. o
    <2>1. i \in 1 .. size /\ i - o \notin 1 .. 6
      BY <1>3
    <2> QED  BY <1>8, <1>10, <2>1
  <1>12. /\ buf'[o + 1] = 5 /\ buf'[o + 2] = 0 /\ buf'[o + 3] = 0 /\ buf'[o + 4] = 0
         /\ buf'[o + 5] = 0
    <2>1. ASSUME NEW i \in 1 .. 5
          PROVE  buf'[o + i] = e[i]
      <3>1. o + i \in 1 .. size /\ (o + i) - o = i /\ i \in 1 .. 6
        BY <1>3
      <3> QED  BY <1>10, <3>1
    <2> QED  BY <1>5, <2>1
  <1>13. /\ writer' \in Writer /\ writer'.offset = o /\ writer'.b_len = 5
         /\ writer'.ready = FALSE
    BY <1>1, <1>6 DEF bson_writer_begin, Writer
  <1>14. Begun(buf', o, 5)
    <2>1. At(buf', o) = 5 /\ At(buf', o + 1) = 0 /\ At(buf', o + 2) = 0 /\ At(buf', o + 3) = 0
      <3>1. o + 1 + 1 = o + 2 /\ o + 2 + 1 = o + 3 /\ o + 3 + 1 = o + 4
        OBVIOUS
      <3> QED  BY <1>12, <3>1 DEF At
    <2>2. U32At(buf', o) = 5
      BY <2>1, SMT DEF U32At
    <2> QED  BY <1>12, <2>2 DEF Begun
  <1>15. Kept(buf, writer, buf', writer')
         /\ FinishedIn(buf', writer') = FinishedIn(buf, writer)
    <2>1. writer.offset <= Len(buf) /\ writer'.offset <= Len(buf')
          /\ writer'.offset = writer.offset /\ \A i \in 1 .. writer.offset : buf'[i] = buf[i]
      BY <1>1, <1>3, <1>10, <1>11, <1>13
    <2> QED  BY <1>6, <1>10, <1>13, <2>1, KeptWhere
  <1> QED  BY <1>1, <1>3, <1>10, <1>13, <1>14, <1>15 DEF WriterInOrder

\* What is written before a document is inside the buffer, and inside a larger one.
LEMMA BeginFits ==
  ASSUME NEW o \in Nat, NEW l \in Nat, NEW k \in Nat, NEW size \in Nat, NEW len \in Nat,
         size >= o + l + k, o + l <= len
  PROVE  o <= size /\ o <= len
  OBVIOUS

\* A pair is appended.
LEMMA AppendKeeps ==
  ASSUME WriterInOrder(buf, writer), NEW a \in Appended, WriterAppends(a)
  PROVE  WriterInOrder(buf', writer') /\ Kept(buf, writer, buf', writer')
  <1>1. buf \in Seq(Byte) /\ writer \in Writer /\ ~writer.ready /\ a.bytes \in Seq(Byte)
        /\ a.n_bytes = Len(a.bytes)
    BY WriterAssumption DEF WriterInOrder, WriterAppends
  <1>2. PICK o \in Nat, l \in Nat, k \in Nat :
          /\ o = writer.offset /\ l = writer.b_len /\ k = Len(a.bytes)
          /\ l >= 5 /\ o + l <= Len(buf)
    <2>1. writer.offset \in Nat /\ writer.b_len \in Nat /\ Len(a.bytes) \in Nat
      BY <1>1 DEF Writer
    <2> QED  BY <1>1, <2>1 DEF WriterInOrder, Begun
  <1>3. PICK m \in Grown(k) :
          buf' = Put(Put(m, o + l - 1, a.bytes \o <<0>>), o, LE(l + k, 4))
    BY <1>1, <1>2 DEF WriterAppends
  <1>4. m \in Seq(Byte) /\ Len(m) >= o + l + k /\ \A i \in 1 .. o : m[i] = buf[i]
    <2>1. PICK req \in Nat : req = o + l + k
      OBVIOUS
    <2>2. (m = buf /\ req <= Len(buf)) \/ m = Put(New(Doubled(1, req)), 0, buf)
      BY <1>2, <1>3, <2>1 DEF Grown
    <2>3. CASE m = buf /\ req <= Len(buf)
      BY <1>1, <2>1, <2>3
    <2>4. CASE m = Put(New(Doubled(1, req)), 0, buf)
      <3>1. PICK size \in Nat : size = Doubled(1, req) /\ size >= req
        BY DoubledIs
      <3>2. New(size) \in Seq(Byte) /\ Len(New(size)) = size
        BY NewIs
      <3>3. /\ m \in Seq(Byte) /\ Len(m) = size
            /\ \A i \in 1 .. size :
                 m[i] = IF i - 0 \in 1 .. Len(buf) THEN buf[i - 0] ELSE New(size)[i]
        BY <1>1, <2>4, <3>1, <3>2, PutIs
      <3>4. o <= size /\ o <= Len(buf)
        <4>1. Len(buf) \in Nat
          BY <1>1
        <4>2. size >= o + l + k
          BY <2>1, <3>1
        <4> QED  BY <1>2, <4>1, <4>2, BeginFits, Zenon
      <3>5. \A i \in 1 .. o : i \in 1 .. size /\ i - 0 = i /\ i \in 1 .. Len(buf)
        BY <1>1, <3>1, <3>4
      <3> QED  BY <2>1, <3>1, <3>3, <3>5
    <2> QED  BY <2>2, <2>3, <2>4
  <1>5. PICK p : p = Put(m, o + l - 1, a.bytes \o <<0>>)
    OBVIOUS
  <1>6. /\ p \in Seq(Byte) /\ Len(p) = Len(m) /\ p[o + l + k] = 0
        /\ \A i \in 1 .. o : p[i] = buf[i]
    <2>1. PICK b : b = a.bytes \o <<0>>
      OBVIOUS
    <2>2. b \in Seq(Byte) /\ Len(b) = k + 1 /\ b[k + 1] = 0
      <3>1. PICK z : z = <<0>>
        OBVIOUS
      <3>2. z \in Seq(Byte) /\ Len(z) = 1 /\ z[1] = 0
        BY <3>1 DEF Byte
      <3>3. /\ b \in Seq(Byte) /\ Len(b) = k + Len(z)
            /\ \A i \in 1 .. k + Len(z) : b[i] = IF i <= k THEN a.bytes[i] ELSE z[i - k]
        BY <1>1, <1>2, <2>1, <3>1, <3>2, ConcatProperties
      <3>4. k + 1 \in 1 .. k + 1 /\ ~ (k + 1 <= k) /\ (k + 1) - k = 1
        OBVIOUS
      <3> QED  BY <3>2, <3>3, <3>4
    <2>3. PICK e \in Int : e = o + l - 1 /\ e >= o /\ o + l + k = e + k + 1
      <3>1. l >= 5
        BY <1>2
      <3> QED  BY <3>1
    <2>4. /\ p \in Seq(Byte) /\ Len(p) = Len(m)
          /\ \A i \in 1 .. Len(m) : p[i] = IF i - e \in 1 .. k + 1 THEN b[i - e] ELSE m[i]
      <3>1. p = Put(m, e, b) /\ m \in Seq(Byte) /\ b \in Seq(Byte)
        BY <1>4, <1>5, <2>1, <2>2, <2>3
      <3>2. /\ p \in Seq(Byte) /\ Len(p) = Len(m)
            /\ \A i \in 1 .. Len(m) : p[i] = IF i - e \in 1 .. Len(b) THEN b[i - e] ELSE m[i]
        BY <3>1, PutIs
      <3> QED  BY <2>2, <3>2
    <2>5. PICK len \in Nat : len = Len(m) /\ len >= e + k + 1
      <3>1. m \in Seq(Byte) /\ Len(m) >= o + l + k
        BY <1>4
      <3>2. Len(m) \in Nat
        BY <3>1
      <3> QED  BY <2>3, <3>1, <3>2
    <2>6. p[o + l + k] = 0
      <3>1. e + k + 1 >= 1 /\ e + k + 1 <= len
        BY <2>3, <2>5
      <3>2. e + k + 1 \in 1 .. len /\ (e + k + 1) - e = k + 1 /\ k + 1 \in 1 .. k + 1
        BY <3>1
      <3> QED  BY <2>2, <2>3, <2>4, <2>5, <3>2
    <2>7. \A i \in 1 .. o : p[i] = buf[i]
      <3> TAKE i \in 1 .. o
      <3>1. i <= e /\ i <= len
        BY <2>3, <2>5
      <3>2. i \in 1 .. len /\ i - e \notin 1 .. k + 1
        BY <3>1
      <3> QED  BY <1>4, <2>4, <2>5, <3>2
    <2> QED  BY <2>4, <2>6, <2>7
  <1>7. PICK n \in Nat : n = l + k
    OBVIOUS
  <1>16. PICK le : le = LE(n, 4)
    OBVIOUS
  <1>8. /\ le \in Seq(Byte) /\ Len(le) = 4
        /\ n < Huge => le[4] <= 127 /\ U32At(le, 0) = n
    BY <1>16, LEIs
  <1>9. PICK len \in Nat : len = Len(m) /\ len >= o + n /\ n >= 5
    <2>1. m \in Seq(Byte) /\ Len(m) >= o + l + k
      BY <1>4
    <2>2. Len(m) \in Nat /\ l >= 5
      BY <1>2, <2>1
    <2> QED  BY <1>7, <2>1, <2>2
  <1>10. /\ buf' \in Seq(Byte) /\ Len(buf') = len
         /\ \A i \in 1 .. len : buf'[i] = IF i - o \in 1 .. 4 THEN le[i - o] ELSE p[i]
    <2>1. buf' = Put(p, o, le) /\ p \in Seq(Byte) /\ le \in Seq(Byte) /\ o \in Int
      BY <1>3, <1>5, <1>6, <1>7, <1>16, <1>8
    <2>2. /\ buf' \in Seq(Byte) /\ Len(buf') = Len(p)
          /\ \A i \in 1 .. Len(p) :
               buf'[i] = IF i - o \in 1 .. Len(le) THEN le[i - o] ELSE p[i]
      BY <2>1, PutIs
    <2> QED  BY <1>6, <1>8, <1>9, <2>2
  <1>11. \A i \in 1 .. o : buf'[i] = buf[i]
    <2> TAKE i \in 1 .. o
    <2>1. i \in 1 .. len /\ i - o \notin 1 .. 4
      BY <1>9
    <2> QED  BY <1>6, <1>10, <2>1
  <1>12. \A i \in 1 .. 4 : buf'[o + i] = le[i]
    <2> TAKE i \in 1 .. 4
    <2>1. o + i \in 1 .. len /\ (o + i) - o = i
      BY <1>9
    <2> QED  BY <1>10, <2>1
  <1>13. Begun(buf', o, n)
    <2>1. buf'[o + n] = 0
      <3>1. o + n \in 1 .. len /\ (o + n) - o \notin 1 .. 4 /\ o + n = o + l + k
        BY <1>7, <1>9
      <3> QED  BY <1>6, <1>10, <3>1
    <2>2. ASSUME n <= Limit
          PROVE  buf'[o + 4] <= 127 /\ U32At(buf', o) = n
      <3>1. n < Huge
        BY <2>2, LimitAssumption, HugeIs
      <3>2. \A i \in 1 .. 4 : buf'[o + i] = le[0 + i]
        BY <1>12
      <3>3. U32At(buf', o) = U32At(le, 0)
        BY <3>2, SameU32
      <3>4. buf'[o + 4] = le[4]
        BY <1>12
      <3> QED  BY <1>8, <3>1, <3>3, <3>4
    <2> QED  BY <1>9, <2>1, <2>2 DEF Begun
  <1>14. /\ writer' \in Writer /\ writer'.offset = o /\ writer'.b_len = n
         /\ writer'.ready = writer.ready
    BY <1>1, <1>2, <1>7 DEF WriterAppends, Writer
  <1>15. Kept(buf, writer, buf', writer')
         /\ FinishedIn(buf', writer') = FinishedIn(buf, writer)
    <2>1. writer.offset <= Len(buf) /\ writer'.offset <= Len(buf')
          /\ writer'.offset = writer.offset /\ \A i \in 1 .. writer.offset : buf'[i] = buf[i]
      <3>1. o <= Len(buf)
        <4>1. PICK bl \in Nat : bl = Len(buf)
          BY <1>1
        <4>2. o + l <= bl
          BY <1>2, <4>1
        <4> QED  BY <4>1, <4>2
      <3>2. o <= len
        BY <1>9
      <3> QED  BY <1>2, <1>10, <1>11, <1>14, <3>1, <3>2
    <2> QED  BY <1>1, <1>10, <1>14, <2>1, KeptWhere
  <1> QED  BY <1>1, <1>2, <1>9, <1>10, <1>13, <1>14, <1>15 DEF WriterInOrder

\* A document ends, and is one behind the others.
LEMMA EndKeeps ==
  ASSUME WriterInOrder(buf, writer), bson_writer_get_length(writer) <= Limit, bson_writer_end
  PROVE  WriterInOrder(buf', writer') /\ Kept(buf, writer, buf', writer')
  <1>1. buf \in Seq(Byte) /\ writer \in Writer /\ ~writer.ready /\ buf' = buf
    BY DEF WriterInOrder, bson_writer_end
  <1>2. PICK o \in Nat, l \in Nat, k \in Nat :
          o = writer.offset /\ l = writer.b_len /\ k = Len(buf) /\ o + l <= k /\ o + l <= Limit
    <2>1. writer.offset \in Nat /\ writer.b_len \in Nat /\ Len(buf) \in Nat
      BY <1>1 DEF Writer
    <2> QED  BY <2>1 DEF WriterInOrder, bson_writer_get_length
  <1>3. Begun(buf, o, l)
    BY <1>1, <1>2 DEF WriterInOrder
  <1>4. l >= 5 /\ l <= Limit /\ buf[o + l] = 0 /\ buf[o + 4] <= 127 /\ U32At(buf, o) = l
    <2>1. l <= Limit
      BY <1>2, LimitAssumption
    <2> QED  BY <1>3, <2>1 DEF Begun
  <1>5. /\ writer' \in Writer /\ writer'.offset = o + l /\ writer'.b_len = 0
        /\ writer'.ready = TRUE
    <2>1. writer' = [writer EXCEPT !.offset = writer.offset + writer.b_len, !.b_len = 0,
                                   !.ready = TRUE]
      BY <1>1 DEF bson_writer_end, Writer
    <2>2. o + l \in Nat /\ o + l = writer.offset + writer.b_len
      BY <1>2
    <2>3. PICK e \in Nat : e = o + l
      BY <2>2
    <2>4. writer' = [writer EXCEPT !.offset = e, !.b_len = 0, !.ready = TRUE]
      BY <2>1, <2>2, <2>3
    <2> QED  BY <1>1, <2>3, <2>4 DEF Writer
  <1>6. PICK a, b : a = FinishedIn(buf, writer) /\ b = FinishedIn(buf', writer')
    OBVIOUS
  <1>7. a \in Seq(Byte) /\ Len(a) = o /\ \A i \in 1 .. o : a[i] = buf[i]
    <2>1. writer.offset <= Len(buf)
      BY <1>2
    <2> QED  BY <1>1, <1>2, <1>6, <2>1, FinishedIs
  <1>8. b \in Seq(Byte) /\ Len(b) = o + l /\ \A i \in 1 .. o + l : b[i] = buf[i]
    <2>1. writer'.offset <= Len(buf')
      BY <1>1, <1>2, <1>5
    <2>2. /\ b \in Seq(Byte) /\ Len(b) = writer'.offset
          /\ \A i \in 1 .. writer'.offset : b[i] = buf'[i]
      BY <1>1, <1>5, <1>6, <2>1, FinishedIs
    <2> QED  BY <1>1, <1>5, <2>2
  <1>9. Begins(a, b)
    BY <1>7, <1>8 DEF Begins
  <1>10. WholeAt(b, o) # <<>> /\ Len(WholeAt(b, o)) = l
    <2>1. \A i \in 1 .. l : b[o + i] = buf[o + i]
      BY <1>8
    <2>2. \A i \in 1 .. 4 : b[o + i] = buf[o + i]
      BY <1>4, <2>1
    <2>3. U32At(b, o) = l
      BY <1>4, <2>2, SameU32
    <2>4. b[o + l] = 0 /\ b[o + 4] <= 127
      BY <1>4, <2>1
    <2>5. o + 5 <= Len(b) /\ U32At(b, o) >= 5 /\ o + U32At(b, o) <= Len(b)
          /\ b[o + U32At(b, o)] = 0
      BY <1>4, <1>8, <2>3, <2>4
    <2> QED  BY <1>8, <2>3, <2>4, <2>5, WholeThere
  <1>11. ASSUME NEW q \in 0 .. o, EndFrom(a, q) = o
         PROVE  EndFrom(b, q) = o + l
    BY <1>7, <1>8, <1>9, <1>10, <1>11, EndFromGrows
  <1>12. Kept(buf, writer, buf', writer')
    <2>1. writer'.offset >= writer.offset
      BY <1>2, <1>5
    <2> QED  BY <1>1, <1>2, <1>5, <1>6, <1>11, <2>1 DEF Kept
  <1>13. EndFrom(b, 0) = o + l
    <2>1. EndFrom(a, 0) = o
      BY <1>6, <1>7 DEF WriterInOrder
    <2> QED  BY <1>11, <2>1
  <1> QED  BY <1>1, <1>2, <1>5, <1>6, <1>8, <1>12, <1>13 DEF WriterInOrder

\* A document is rolled back.
LEMMA RollbackLeaves ==
  ASSUME WriterInOrder(buf, writer), bson_writer_rollback
  PROVE  /\ WriterInOrder(buf', writer') /\ Kept(buf, writer, buf', writer')
  <1>1. buf \in Seq(Byte) /\ writer \in Writer /\ buf' = buf
    BY DEF WriterInOrder, bson_writer_rollback
  <1>2. PICK o \in Nat : o = writer.offset /\ o <= Len(buf)
    <2>1. writer.offset \in Nat /\ writer.b_len \in Nat /\ Len(buf) \in Nat
      BY <1>1 DEF Writer
    <2> QED  BY <2>1 DEF WriterInOrder
  <1>3. /\ writer' \in Writer /\ writer'.offset = o /\ writer'.b_len = 0
        /\ writer'.ready = TRUE
    BY <1>1, <1>2 DEF bson_writer_rollback, RolledBack, Writer
  <1>4. Kept(buf, writer, buf', writer')
        /\ FinishedIn(buf', writer') = FinishedIn(buf, writer)
    BY <1>1, <1>2, <1>3, KeptWhere
  <1> QED  BY <1>1, <1>2, <1>3, <1>4 DEF WriterInOrder

LEMMA NothingKept ==
  ASSUME WriterInOrder(buf, writer), UNCHANGED writerVars
  PROVE  /\ WriterInOrder(buf', writer') /\ Kept(buf, writer, buf', writer')
  <1>1. buf' = buf /\ writer' = writer
    BY DEF writerVars
  <1>2. PICK o \in Nat : o = writer.offset
    BY DEF WriterInOrder, Writer
  <1> QED  BY <1>1, <1>2 DEF WriterInOrder, Kept

\* Every step of the writing program keeps the documents that have ended.
LEMMA WritingKeeps ==
  ASSUME WriterInOrder(buf, writer), Write
  PROVE  /\ WriterInOrder(buf', writer') /\ Kept(buf, writer, buf', writer')
         /\ UNCHANGED toolVars /\ peer = "write" /\ peer' \in {"write", "stop"}
  <1>1. UNCHANGED toolVars /\ peer = "write"
    BY DEF Write
  <1>2. CASE WriteBegin
    BY <1>1, <1>2, BeginKeeps DEF WriteBegin
  <1>3. CASE WriteBeginFails
    BY <1>1, <1>3, NothingKept DEF WriteBeginFails, bson_writer_begin_fails
  <1>4. CASE WriteAppend
    <2>1. PICK a \in Appended : WriterAppends(a)
      BY <1>4 DEF WriteAppend
    <2> QED  BY <1>1, <1>4, <2>1, AppendKeeps DEF WriteAppend
  <1>5. CASE WriteEnd
    BY <1>1, <1>5, EndKeeps DEF WriteEnd
  <1>6. CASE WriteRollback
    BY <1>1, <1>6, RollbackLeaves DEF WriteRollback
  <1> QED  BY <1>2, <1>3, <1>4, <1>5, <1>6 DEF Write

LEMMA WriterStarts == Init => WriterInOrder(buf, writer)
  <1> SUFFICES ASSUME Init
               PROVE  WriterInOrder(buf, writer)
    OBVIOUS
  <1>1. PICK memory \in Initial, realloc \in Reallocs : bson_writer_new(memory, 0, realloc)
    BY DEF Init
  <1>2. buf \in Seq(Byte) /\ realloc \in BOOLEAN
    BY <1>1, WriterAssumption DEF bson_writer_new
  <1>3. /\ writer \in Writer /\ writer.offset = 0 /\ writer.b_len = 0 /\ writer.ready = TRUE
    BY <1>1, <1>2 DEF bson_writer_new, Writer
  <1>4. PICK k \in Nat : k = Len(buf)
    BY <1>2
  <1>5. PICK a : a = FinishedIn(buf, writer)
    OBVIOUS
  <1>6. a \in Seq(Byte) /\ Len(a) = 0
    BY <1>2, <1>3, <1>4, <1>5, FinishedIs
  <1>7. EndFrom(a, 0) = Len(a)
    BY <1>6, NothingBehind
  <1>8. 0 <= Limit
    BY LimitAssumption
  <1> QED  BY <1>2, <1>3, <1>4, <1>5, <1>6, <1>7, <1>8 DEF WriterInOrder

\* Where a byte has gone past the buffer, an empty document fills it up: it is begun, or
\* rolled back, or it has ended.
StrayInOrder ==
  /\ stray \subseteq {Len(buf) + 1}
  /\ stray # {} =>
       \/ writer.offset + 5 = Len(buf) /\ writer.b_len \in {0, 5}
       \/ writer.offset = Len(buf) /\ writer.b_len = 0

LEMMA BeginStrays ==
  ASSUME WriterInOrder(buf, writer), StrayInOrder, bson_writer_begin
  PROVE  StrayInOrder'
  <1>1. PICK o \in Nat, n \in Nat : o = writer.offset /\ n = Len(buf) /\ writer \in Writer
    <2>1. writer.offset \in Nat /\ Len(buf) \in Nat /\ writer \in Writer
      BY DEF WriterInOrder, Writer
    <2> QED  BY <2>1
  <1>2. PICK size : size = Doubled(IF buf = <<>> THEN FirstBuffer ELSE Len(buf), o + 5)
    OBVIOUS
  <1>3. size \in Nat /\ size >= o + 5
    <2>1. PICK k : k = IF buf = <<>> THEN FirstBuffer ELSE Len(buf)
      OBVIOUS
    <2>2. k \in Nat \ {0}
      BY <1>1, <2>1, WriterAssumption, EmptySeq DEF WriterInOrder
    <2>3. PICK need \in Nat : need = o + 5
      OBVIOUS
    <2>4. size = Doubled(k, need)
      BY <1>2, <2>1, <2>3
    <2> QED  BY <2>2, <2>3, <2>4, DoubledIs
  <1>4. Len(buf') = size
    <2>1. PICK m : m = Put(New(size), 0, buf)
      OBVIOUS
    <2>2. m \in Seq(Byte) /\ Len(m) = size
      <3>1. New(size) \in Seq(Byte) /\ Len(New(size)) = size /\ buf \in Seq(Byte)
        BY <1>3, NewIs DEF WriterInOrder
      <3> QED  BY <2>1, <3>1, PutIs
    <2>3. PICK e : e = <<5, 0, 0, 0, 0, 0>>
      OBVIOUS
    <2>4. e \in Seq(Byte)
      BY <2>3 DEF Byte
    <2>5. buf' = Put(m, o, e)
      BY <1>1, <1>2, <2>1, <2>3 DEF bson_writer_begin
    <2> QED  BY <1>1, <2>2, <2>4, <2>5, PutIs
  <1>5. stray' = {i \in o + 1 .. o + 6 : i > size} \cup (IF size = n THEN stray ELSE {})
    <2>1. stray' = Strayed(size, o, 6)
      BY <1>1, <1>2 DEF bson_writer_begin
    <2> QED  BY <1>1, <2>1 DEF Strayed
  <1>6. writer'.offset = o /\ writer'.b_len = 5
    BY <1>1 DEF bson_writer_begin, Writer
  <1>7. {i \in o + 1 .. o + 6 : i > size} \subseteq {size + 1}
        /\ ({i \in o + 1 .. o + 6 : i > size} # {} => o + 5 = size)
    BY <1>3
  <1>8. CASE size = n
    <2>1. stray \subseteq {size + 1} /\ (stray # {} => o + 5 = size)
      BY <1>1, <1>3, <1>8 DEF StrayInOrder
    <2> QED  BY <1>4, <1>5, <1>6, <1>7, <1>8, <2>1 DEF StrayInOrder
  <1>9. CASE size # n
    BY <1>4, <1>5, <1>6, <1>7, <1>9 DEF StrayInOrder
  <1> QED  BY <1>8, <1>9

\* What a pair needs is in the buffer, or the buffer is new.
LEMMA AppendStrays ==
  ASSUME WriterInOrder(buf, writer), StrayInOrder, NEW a \in Appended, WriterAppends(a)
  PROVE  StrayInOrder'
  <1>1. buf \in Seq(Byte) /\ writer \in Writer /\ ~writer.ready /\ a.bytes \in Seq(Byte)
        /\ a.n_bytes = Len(a.bytes)
    BY WriterAssumption DEF WriterInOrder, WriterAppends
  <1>2. PICK o \in Nat, l \in Nat, k \in Nat, n \in Nat :
          o = writer.offset /\ l = writer.b_len /\ k = Len(a.bytes) /\ n = Len(buf) /\ l >= 5
    <2>1. writer.offset \in Nat /\ writer.b_len \in Nat /\ Len(a.bytes) \in Nat
          /\ Len(buf) \in Nat
      BY <1>1 DEF Writer
    <2> QED  BY <1>1, <2>1 DEF WriterInOrder, Begun
  <1>3. PICK m \in Grown(k) :
          /\ buf' = Put(Put(m, o + l - 1, a.bytes \o <<0>>), o, LE(l + k, 4))
          /\ stray' = Strayed(Len(m), o + l - 1, k + 1)
    BY <1>1, <1>2 DEF WriterAppends
  <1>4. PICK size \in Nat :
          /\ size = Len(m) /\ m \in Seq(Byte) /\ size >= o + l + k
          /\ size = n \/ (size # n /\ o + l + k > n)
          /\ size = n => o + l + k <= n
    <2>1. PICK req \in Nat : req = o + l + k
      OBVIOUS
    <2>2. (m = buf /\ req <= n) \/ (m = Put(New(Doubled(1, req)), 0, buf) /\ req > n)
      BY <1>2, <1>3, <2>1 DEF Grown
    <2>3. CASE m = buf /\ req <= n
      BY <1>1, <1>2, <2>1, <2>3
    <2>4. CASE m = Put(New(Doubled(1, req)), 0, buf) /\ req > n
      <3>1. PICK twice \in Nat : twice = Doubled(1, req) /\ twice >= req
        BY DoubledIs
      <3>2. New(twice) \in Seq(Byte) /\ Len(New(twice)) = twice
        BY NewIs
      <3>3. m \in Seq(Byte) /\ Len(m) = twice
        BY <1>1, <2>4, <3>1, <3>2, PutIs
      <3> QED  BY <2>1, <2>4, <3>1, <3>3
    <2> QED  BY <2>2, <2>3, <2>4
  <1>5. Len(buf') = size
    <2>1. PICK d : d = a.bytes \o <<0>>
      OBVIOUS
    <2>2. d \in Seq(Byte)
      <3>1. <<0>> \in Seq(Byte)
        BY DEF Byte
      <3> QED  BY <1>1, <2>1, <3>1
    <2>3. PICK le : le = LE(l + k, 4)
      OBVIOUS
    <2>4. le \in Seq(Byte)
      BY <2>3, LEIs
    <2>5. PICK mm : mm = Put(m, o + l - 1, d)
      OBVIOUS
    <2>6. mm \in Seq(Byte) /\ Len(mm) = size
      BY <1>2, <1>4, <2>2, <2>5, PutIs
    <2>7. buf' = Put(mm, o, le)
      BY <1>3, <2>1, <2>3, <2>5
    <2> QED  BY <2>4, <2>6, <2>7, PutIs
  <1>6. stray' = IF size = n THEN stray ELSE {}
    <2>1. {i \in (o + l - 1) + 1 .. (o + l - 1) + (k + 1) : i > size} = {}
      BY <1>4
    <2>2. stray' = {i \in (o + l - 1) + 1 .. (o + l - 1) + (k + 1) : i > size}
                     \cup (IF size = n THEN stray ELSE {})
      BY <1>2, <1>3, <1>4 DEF Strayed
    <2> QED  BY <2>1, <2>2
  <1>7. writer'.offset = o /\ writer'.b_len = l + k
    BY <1>1, <1>2 DEF WriterAppends, Writer
  <1>8. CASE size = n
    <2>1. stray' \subseteq {size + 1} /\ (stray' # {} => o + 5 = n /\ l = 5)
      BY <1>2, <1>6, <1>8 DEF StrayInOrder
    <2>2. stray' # {} => k = 0
      BY <1>4, <1>8, <2>1
    <2> QED  BY <1>5, <1>7, <1>8, <2>1, <2>2 DEF StrayInOrder
  <1>9. CASE size # n
    BY <1>6, <1>9 DEF StrayInOrder
  <1> QED  BY <1>8, <1>9

\* The other steps leave the buffer as it is.
LEMMA EndStrays ==
  ASSUME WriterInOrder(buf, writer), StrayInOrder, bson_writer_end
  PROVE  StrayInOrder'
  <1>1. buf' = buf /\ stray' = stray
    BY DEF bson_writer_end
  <1>2. PICK o \in Nat, l \in Nat, n \in Nat :
          /\ o = writer.offset /\ l = writer.b_len /\ n = Len(buf)
          /\ l >= 5 /\ writer \in Writer
    <2>1. writer.offset \in Nat /\ writer.b_len \in Nat /\ Len(buf) \in Nat /\ ~writer.ready
      BY DEF WriterInOrder, Writer, bson_writer_end
    <2> QED  BY <2>1 DEF WriterInOrder, Begun
  <1>3. writer'.offset = o + l /\ writer'.b_len = 0
    BY <1>2 DEF bson_writer_end, Writer
  <1>4. stray \subseteq {n + 1} /\ (stray # {} => o + l = n)
    BY <1>2 DEF StrayInOrder
  <1> QED  BY <1>1, <1>2, <1>3, <1>4 DEF StrayInOrder

LEMMA RollbackStrays ==
  ASSUME WriterInOrder(buf, writer), StrayInOrder, bson_writer_rollback
  PROVE  StrayInOrder'
  <1>1. buf' = buf /\ stray' = stray
    BY DEF bson_writer_rollback
  <1>2. writer'.offset = writer.offset /\ writer'.b_len = 0
    BY DEF bson_writer_rollback, RolledBack, WriterInOrder, Writer
  <1> QED  BY <1>1, <1>2 DEF StrayInOrder

LEMMA RestStrays ==
  ASSUME StrayInOrder, UNCHANGED writerVars
  PROVE  StrayInOrder'
  BY DEF StrayInOrder, writerVars

LEMMA StepStrays == WriterInOrder(buf, writer) /\ StrayInOrder /\ [Next]_vars => StrayInOrder'
  <1> SUFFICES ASSUME WriterInOrder(buf, writer), StrayInOrder, [Next]_vars
               PROVE  StrayInOrder'
    OBVIOUS
  <1>1. CASE Write
    <2>1. CASE WriteBegin
      BY <2>1, BeginStrays DEF WriteBegin
    <2>2. CASE WriteBeginFails
      BY <2>2, RestStrays DEF WriteBeginFails, bson_writer_begin_fails
    <2>3. CASE WriteAppend
      <3>1. PICK a \in Appended : WriterAppends(a)
        BY <2>3 DEF WriteAppend
      <3> QED  BY <3>1, AppendStrays
    <2>4. CASE WriteEnd
      BY <2>4, EndStrays DEF WriteEnd
    <2>5. CASE WriteRollback
      BY <2>5, RollbackStrays DEF WriteRollback
    <2> QED  BY <1>1, <2>1, <2>2, <2>3, <2>4, <2>5 DEF Write
  <1>2. CASE Send \/ HangUp \/ ToolStep \/ UNCHANGED vars
    <2>1. UNCHANGED writerVars
      BY <1>2 DEF Send, HangUp, ToolStep, vars
    <2> QED  BY <2>1, RestStrays
  <1> QED  BY <1>1, <1>2 DEF Next

LEMMA StartStrays == Init => StrayInOrder
  BY DEF Init, bson_writer_new, StrayInOrder
-----------------------------------------------------------------------------
(* The reader.                                                             *)

ReaderType ==
  [type : {"NONE", "HANDLE", "DATA"}, done : BOOLEAN, failed : BOOLEAN, data : Seq(Byte),
   len : Nat, offset : Nat, bytes_read : Nat, reading : BOOLEAN]

\* The buffer of r is a window on s.
Shows(s, r) ==
  /\ r.offset <= Len(r.data) /\ Len(r.data) <= r.len
  /\ Len(r.data) <= r.bytes_read /\ r.bytes_read <= Len(s)
  /\ \A i \in 1 .. Len(r.data) : r.data[i] = s[r.bytes_read - Len(r.data) + i]

\* The stream has ended, and where r stands no document is left.
AtEnd(s, c, r) == c /\ r.bytes_read = Len(s) /\ WholeAt(s, bson_reader_tell(r)) = <<>>

\* A descriptor's reader r has come to an end only where reading failed or s has ended.
EndInOrder(s, c, r) ==
  /\ r.failed => r.done
  /\ ~r.done /\ r.bytes_read > 0 => r.data # <<>>
  /\ r.done /\ ~r.failed /\ r.bytes_read > 0 => AtEnd(s, c, r)

AllThere(s, c, r) == c /\ r.bytes_read = Len(s) /\ Len(r.data) = Len(s)

\* A reader r of the stream s, which has ended if c says so.
ReaderInOrder(s, c, r) ==
  /\ s \in Seq(Byte) /\ c \in BOOLEAN /\ r \in ReaderType /\ Shows(s, r)
  /\ r.type = "NONE" => r = NoReader
  /\ r.type = "DATA" => AllThere(s, c, r)
  /\ r.type = "HANDLE" => r.len >= 4 /\ EndInOrder(s, c, r)

\* A reader that may still read from its descriptor.
MayFill(r) == r.type = "HANDLE" /\ ~r.done

LEMMA NewReaderIs ==
  ASSUME NEW s \in Seq(Byte), NEW c \in BOOLEAN, NEW l \in Nat, l >= 4
  PROVE  /\ ReaderInOrder(s, c, Reader("HANDLE", l)) /\ ReaderInOrder(s, c, NoReader)
         /\ bson_reader_tell(Reader("HANDLE", l)) = 0 /\ bson_reader_tell(NoReader) = 0
  <1> DEFINE r == Reader("HANDLE", l)
  <1>1. PICK e : e = <<>>
    OBVIOUS
  <1>2. e \in Seq(Byte) /\ Len(e) = 0 /\ 0 <= Len(s)
    BY <1>1
  <1>3. /\ r.type = "HANDLE" /\ r.data = e /\ r.done = FALSE /\ r.failed = FALSE
        /\ r.len = l /\ r.offset = 0 /\ r.bytes_read = 0 /\ r \in ReaderType
    BY <1>1, <1>2 DEF Reader, ReaderType
  <1>4. /\ NoReader.type = "NONE" /\ NoReader.data = e /\ NoReader.len = 0
        /\ NoReader.offset = 0 /\ NoReader.bytes_read = 0 /\ NoReader \in ReaderType
    BY <1>1, <1>2 DEF NoReader, Reader, ReaderType
  <1> HIDE DEF r
  <1>5. ReaderInOrder(s, c, r)
    <2>1. EndInOrder(s, c, r)
      BY <1>3 DEF EndInOrder
    <2> QED  BY <1>2, <1>3, <2>1 DEF ReaderInOrder, Shows
  <1>6. ReaderInOrder(s, c, NoReader)
    BY <1>2, <1>4 DEF ReaderInOrder, Shows
  <1>7. bson_reader_tell(r) = 0 /\ bson_reader_tell(NoReader) = 0
    <2>1. bson_reader_tell(r) = 0 - Len(e) + 0
      BY <1>3 DEF bson_reader_tell
    <2>2. bson_reader_tell(NoReader) = 0 - Len(e) + 0
      BY <1>4 DEF bson_reader_tell
    <2>3. 0 - Len(e) + 0 = 0
      BY <1>2
    <2> QED  BY <2>1, <2>2, <2>3
  <1> QED  BY <1>5, <1>6, <1>7 DEF r

\* What is in the buffer lies in the stream where the reader stands.
LEMMA BufferIs ==
  ASSUME NEW s, NEW c, NEW r, ReaderInOrder(s, c, r)
  PROVE  /\ bson_reader_tell(r) \in Nat /\ InBuffer(r) \in Nat
         /\ bson_reader_tell(r) + InBuffer(r) = r.bytes_read
         /\ r.bytes_read \in Nat /\ r.bytes_read <= Len(s) /\ s \in Seq(Byte)
         /\ r.data \in Seq(Byte) /\ r.offset \in Nat /\ Len(r.data) = r.offset + InBuffer(r)
         /\ InBuffer(r) <= r.len /\ r.len \in Nat
         /\ \A i \in 1 .. InBuffer(r) : r.data[r.offset + i] = s[bson_reader_tell(r) + i]
  <1>1. /\ r \in ReaderType /\ Shows(s, r) /\ s \in Seq(Byte)
    BY DEF ReaderInOrder
  <1>2. PICK b \in Nat, o \in Nat, l \in Nat, n \in Nat, k \in Nat :
          b = r.bytes_read /\ o = r.offset /\ l = r.len /\ n = Len(r.data) /\ k = Len(s)
    BY <1>1 DEF ReaderType
  <1>3. o <= n /\ n <= l /\ n <= b /\ b <= k
        /\ \A i \in 1 .. n : r.data[i] = s[b - n + i]
    BY <1>1, <1>2 DEF Shows
  <1>4. bson_reader_tell(r) = b - n + o /\ InBuffer(r) = n - o
    BY <1>2 DEF bson_reader_tell, InBuffer
  <1>5. \A i \in 1 .. n - o : r.data[o + i] = s[(b - n + o) + i]
    <2> TAKE i \in 1 .. n - o
    <2>1. o + i \in 1 .. n /\ b - n + (o + i) = (b - n + o) + i
      BY <1>3
    <2> QED  BY <1>3, <2>1
  <1>6. b - n + o \in Nat /\ n - o \in Nat /\ (b - n + o) + (n - o) = b /\ n = o + (n - o)
        /\ n - o <= l
    BY <1>3
  <1>7. r.data \in Seq(Byte)
    BY <1>1 DEF ReaderType
  <1> QED  BY <1>1, <1>2, <1>3, <1>4, <1>5, <1>6, <1>7

LEMMA BlenIs ==
  ASSUME NEW s, NEW c, NEW r, ReaderInOrder(s, c, r), InBuffer(r) >= 4
  PROVE  /\ Blen(r) = IF s[bson_reader_tell(r) + 4] > 127 THEN -1
                      ELSE U32At(s, bson_reader_tell(r))
         /\ s[bson_reader_tell(r) + 4] \in Nat /\ U32At(s, bson_reader_tell(r)) \in Nat
  <1>1. PICK p \in Nat, o \in Nat, n \in Nat :
          p = bson_reader_tell(r) /\ o = r.offset /\ n = InBuffer(r) /\ n >= 4
    BY BufferIs
  <1>2. p + n <= Len(s) /\ s \in Seq(Byte)
    <2>1. p + n = r.bytes_read /\ r.bytes_read <= Len(s) /\ s \in Seq(Byte)
      BY <1>1, BufferIs
    <2> QED  BY <2>1
  <1>3. \A i \in 1 .. n : r.data[o + i] = s[p + i]
    BY <1>1, BufferIs
  <1>4. \A i \in 1 .. 4 : r.data[o + i] = s[p + i]
    <2> TAKE i \in 1 .. 4
    <2>1. i \in 1 .. n
      BY <1>1
    <2> QED  BY <1>3, <2>1
  <1>5. U32At(r.data, o) = U32At(s, p)
    BY <1>4, SameU32
  <1>6. At(r.data, o + 3) = s[p + 4]
    <2>1. r.data[o + 4] = s[p + 4] /\ o + 3 + 1 = o + 4
      BY <1>4
    <2> QED  BY <2>1 DEF At
  <1>7. p + 4 <= Len(s)
    <2>1. PICK k \in Nat : k = Len(s)
      BY <1>2
    <2> QED  BY <1>1, <1>2, <2>1
  <1>8. s[p + 4] \in Nat /\ U32At(s, p) \in Nat
    <2>1. p + 4 \in 1 .. Len(s)
      BY <1>7
    <2> QED  BY <1>2, <1>7, <2>1, BytesAreNumbers, U32Is
  <1> QED  BY <1>1, <1>5, <1>6, <1>8 DEF Blen

\* The bytes of the next document.
LEMMA NextIs ==
  ASSUME NEW s, NEW c, NEW r, ReaderInOrder(s, c, r), Blen(r) \in 5 .. InBuffer(r)
  PROVE  LET p == bson_reader_tell(r)
             n == Blen(r)
         IN  /\ n = U32At(s, p) /\ s[p + 4] <= 127 /\ p + n <= Len(s) /\ p + 5 <= Len(s)
             /\ NextDocument(r) = Slice(s, p, n) /\ Len(NextDocument(r)) = n
             /\ bson_init_static(NextDocument(r)) <=> s[p + n] = 0
  <1>1. PICK p \in Nat, o \in Nat, m \in Nat, n \in Nat :
          p = bson_reader_tell(r) /\ o = r.offset /\ m = InBuffer(r) /\ n = Blen(r)
          /\ n >= 5 /\ n <= m
    BY BufferIs
  <1>2. s \in Seq(Byte) /\ r.data \in Seq(Byte) /\ Len(r.data) = o + m /\ p + m <= Len(s)
    <2>1. /\ p + m = r.bytes_read /\ r.bytes_read <= Len(s) /\ s \in Seq(Byte)
          /\ r.data \in Seq(Byte) /\ Len(r.data) = o + m
      BY <1>1, BufferIs
    <2> QED  BY <2>1
  <1>3. n = U32At(s, p) /\ s[p + 4] <= 127
    <2>1. /\ n = IF s[p + 4] > 127 THEN -1 ELSE U32At(s, p)
          /\ s[p + 4] \in Nat
      BY <1>1, BlenIs
    <2> QED  BY <1>1, <2>1
  <1>4. PICK d : d = NextDocument(r)
    OBVIOUS
  <1>5. d \in Seq(Byte) /\ Len(d) = n /\ \A i \in 1 .. n : d[i] = r.data[o + i]
    <2>1. d = Slice(r.data, o, n)
      BY <1>1, <1>4 DEF NextDocument
    <2>2. o + n <= Len(r.data)
      BY <1>1, <1>2
    <2>3. PICK z \in Seq(Byte) : z = r.data
      BY <1>2
    <2>4. o + n <= Len(z)
      BY <2>2, <2>3
    <2>5. /\ Slice(z, o, n) \in Seq(Byte) /\ Len(Slice(z, o, n)) = n
          /\ \A i \in 1 .. n : Slice(z, o, n)[i] = z[o + i]
      BY <2>4, SliceIs, Zenon
    <2> QED  BY <2>1, <2>3, <2>5
  <1>6. \A i \in 1 .. n : d[i] = s[p + i]
    <2> TAKE i \in 1 .. n
    <2>1. i \in 1 .. m
      BY <1>1
    <2>2. r.data[o + i] = s[p + i]
      BY <1>1, <2>1, BufferIs
    <2> QED  BY <1>5, <2>2
  <1>7. p + n <= Len(s) /\ p + 5 <= Len(s)
    <2>1. PICK k \in Nat : k = Len(s)
      BY <1>2
    <2> QED  BY <1>1, <1>2, <2>1
  <1>8. d = Slice(s, p, n)
    <2>1. p + Len(d) <= Len(s) /\ \A i \in 1 .. Len(d) : d[i] = s[p + i]
      BY <1>5, <1>6, <1>7
    <2> QED  BY <1>2, <1>5, <2>1, SliceMet
  <1>9. U32At(d, 0) = n
    <2>1. \A i \in 1 .. 4 : d[0 + i] = s[p + i]
      <3> TAKE i \in 1 .. 4
      <3>1. i \in 1 .. n /\ 0 + i = i
        BY <1>1
      <3> QED  BY <1>6, <3>1
    <2> QED  BY <1>3, <2>1, SameU32
  <1>10. d[n] = s[p + n]
    BY <1>1, <1>6
  <1>11. bson_init_static(d) <=> s[p + n] = 0
    BY <1>1, <1>5, <1>9, <1>10 DEF bson_init_static
  <1> QED  BY <1>1, <1>3, <1>4, <1>5, <1>7, <1>8, <1>11

\* What a reader takes from its buffer is the document of the stream there.
LEMMA TakesWhole ==
  ASSUME NEW s, NEW c, NEW r, ReaderInOrder(s, c, r), Blen(r) \in 5 .. InBuffer(r),
         bson_init_static(NextDocument(r))
  PROVE  /\ NextDocument(r) = WholeAt(s, bson_reader_tell(r)) /\ NextDocument(r) # <<>>
         /\ NextDocument(r) \in Seq(Byte) /\ Len(NextDocument(r)) \in 5 .. InBuffer(r)
  <1>1. PICK p \in Nat, n \in Nat : p = bson_reader_tell(r) /\ n = Blen(r) /\ n >= 5
    BY BufferIs
  <1>2. /\ n = U32At(s, p) /\ s[p + 4] <= 127 /\ p + n <= Len(s) /\ p + 5 <= Len(s)
        /\ NextDocument(r) = Slice(s, p, n) /\ Len(NextDocument(r)) = n
        /\ s[p + n] = 0
    BY <1>1, NextIs
  <1>3. s \in Seq(Byte)
    BY BufferIs
  <1>4. WholeAt(s, p) = Slice(s, p, n) /\ WholeAt(s, p) # <<>>
    BY <1>1, <1>2, <1>3, WholeThere
  <1>5. WholeAt(s, p) \in Seq(Byte)
    BY <1>3, WholeType
  <1> QED  BY <1>1, <1>2, <1>4, <1>5

\* Where a reader rejects what it sees, the stream is broken.
LEMMA RejectsBroken ==
  ASSUME NEW s, NEW c, NEW r, ReaderInOrder(s, c, r), InBuffer(r) >= 4, Rejects(r)
  PROVE  Broken(s, bson_reader_tell(r))
  <1>1. PICK p \in Nat, m \in Nat : p = bson_reader_tell(r) /\ m = InBuffer(r) /\ m >= 4
    BY BufferIs
  <1>2. PICK k \in Nat : k = Len(s) /\ p + m <= k /\ p + 4 <= k /\ s \in Seq(Byte)
    <2>1. p + m = r.bytes_read /\ r.bytes_read <= Len(s) /\ s \in Seq(Byte)
      BY <1>1, BufferIs
    <2>2. Len(s) \in Nat
      BY <2>1
    <2> QED  BY <1>1, <2>1, <2>2
  <1>3. PICK n \in Nat : n = U32At(s, p)
    BY <1>1, BlenIs
  <1>4. s[p + 4] \in Nat /\ Blen(r) = IF s[p + 4] > 127 THEN -1 ELSE n
    BY <1>1, <1>3, BlenIs
  <1>5. \/ s[p + 4] > 127
        \/ n < 5
        \/ p + n <= k /\ n >= 5 /\ s[p + n] # 0
    <2> SUFFICES ASSUME ~ (s[p + 4] > 127), ~ (n < 5)
                 PROVE  p + n <= k /\ n >= 5 /\ s[p + n] # 0
      BY <1>3
    <2>1. Blen(r) = n /\ n >= 5
      BY <1>4
    <2>2. n <= m /\ ~bson_init_static(NextDocument(r))
      BY <1>1, <2>1 DEF Rejects
    <2>3. Blen(r) \in 5 .. InBuffer(r)
      BY <1>1, <2>1, <2>2
    <2>4. bson_init_static(NextDocument(r)) <=> s[p + n] = 0
      BY <1>1, <2>1, <2>3, NextIs
    <2> QED  BY <1>2, <2>1, <2>2, <2>4
  <1>6. WholeAt(s, p) = <<>>
    <2> SUFFICES ASSUME WholeAt(s, p) # <<>>
                 PROVE  FALSE
      OBVIOUS
    <2>1. s[p + 4] <= 127 /\ n >= 5 /\ s[p + n] = 0
      BY <1>2, <1>3, WholeIs
    <2> QED  BY <1>3, <1>4, <1>5, <2>1
  <1> QED  BY <1>1, <1>2, <1>3, <1>5, <1>6 DEF Broken

\* Nothing but the buffer and the position of the stream behind it is changed.
SameReader(r, rr) ==
  rr.type = r.type /\ rr.reading = r.reading /\ bson_reader_tell(rr) = bson_reader_tell(r)

\* rr is r with its buffer moved to the start.
IsMoved(s, r, rr) ==
  /\ rr \in ReaderType /\ rr.type = r.type /\ rr.reading = r.reading /\ rr.len = r.len
  /\ rr.done = r.done /\ rr.failed = r.failed /\ rr.bytes_read = r.bytes_read
  /\ rr.data \in Seq(Byte) /\ Len(rr.data) = InBuffer(r) /\ rr.offset = 0
  /\ \A i \in 1 .. InBuffer(r) : rr.data[i] = s[bson_reader_tell(r) + i]

LEMMA MovedKeeps ==
  ASSUME NEW s, NEW c, NEW r, ReaderInOrder(s, c, r)
  PROVE  IsMoved(s, r, MovedToStart(r))
  <1>1. PICK p \in Nat, o \in Nat, n \in Nat :
          p = bson_reader_tell(r) /\ o = r.offset /\ n = InBuffer(r)
    BY BufferIs
  <1>2. r.data \in Seq(Byte) /\ Len(r.data) = o + n
        /\ \A i \in 1 .. n : r.data[o + i] = s[p + i]
    <2>1. /\ r.data \in Seq(Byte) /\ Len(r.data) = r.offset + InBuffer(r)
          /\ \A i \in 1 .. InBuffer(r) : r.data[r.offset + i] = s[bson_reader_tell(r) + i]
      BY BufferIs
    <2> QED  BY <1>1, <2>1
  <1>3. PICK d : d = Slice(r.data, o, n)
    OBVIOUS
  <1>4. d \in Seq(Byte) /\ Len(d) = n /\ \A i \in 1 .. n : d[i] = r.data[o + i]
    <2>1. o + n <= Len(r.data)
      BY <1>2
    <2> QED  BY <1>2, <1>3, <2>1, SliceIs
  <1>5. MovedToStart(r) = [r EXCEPT !.data = d, !.offset = 0]
    BY <1>1, <1>3 DEF MovedToStart
  <1>6. PICK q : q = MovedToStart(r)
    OBVIOUS
  <1>7. /\ q \in ReaderType /\ q.data = d /\ q.offset = 0
        /\ q.type = r.type /\ q.reading = r.reading /\ q.len = r.len /\ q.done = r.done
        /\ q.failed = r.failed /\ q.bytes_read = r.bytes_read
    <2>1. r \in ReaderType
      BY DEF ReaderInOrder
    <2>2. d \in Seq(Byte) /\ q = [r EXCEPT !.data = d, !.offset = 0]
      BY <1>4, <1>5, <1>6
    <2> QED  BY <2>1, <2>2 DEF ReaderType
  <1>8. \A i \in 1 .. n : d[i] = s[p + i]
    BY <1>2, <1>4
  <1>10. q.data \in Seq(Byte) /\ Len(q.data) = n /\ \A i \in 1 .. n : q.data[i] = s[p + i]
    BY <1>4, <1>7, <1>8
  <1> QED  BY <1>1, <1>6, <1>7, <1>10 DEF IsMoved

\* What is left of the stream, and of the buffer, has room for the bytes taken.
LEMMA FillFits ==
  ASSUME NEW n \in Nat, NEW b \in Nat, NEW k \in Nat, n <= k - b
  PROVE  b + n <= k
  OBVIOUS

\* The buffer takes bytes of the stream.
LEMMA FilledMore ==
  ASSUME NEW s, NEW c, NEW r, ReaderInOrder(s, c, r), MayFill(r),
         NEW n \in Nat, n > 0, n <= r.len - InBuffer(r), n <= Len(s) - r.bytes_read
  PROVE  LET rr == Filled(r, Got(Slice(s, r.bytes_read, n)))
         IN  ReaderInOrder(s, c, rr) /\ SameReader(r, rr)
  <1>1. PICK p \in Nat, b \in Nat, m \in Nat, l \in Nat, k \in Nat :
          /\ p = bson_reader_tell(r) /\ b = r.bytes_read /\ m = InBuffer(r) /\ l = r.len
          /\ k = Len(s) /\ b <= k
    <2>1. Len(s) \in Nat
      BY BufferIs
    <2> QED  BY <2>1, BufferIs
  <1>2. b + n <= k /\ m + n <= l
    <2>1. n <= k - b /\ n <= l - m
      BY <1>1
    <2> QED  BY <1>1, <2>1, FillFits, Zenon
  <1>20. p + m = b
    BY <1>1, BufferIs
  <1>3. r \in ReaderType /\ s \in Seq(Byte) /\ c \in BOOLEAN /\ r.len >= 4
        /\ EndInOrder(s, c, r) /\ r.type = "HANDLE"
    BY DEF ReaderInOrder, MayFill
  <1>4. PICK g : g = Slice(s, b, n)
    OBVIOUS
  <1>5. g \in Seq(Byte) /\ Len(g) = n /\ \A i \in 1 .. n : g[i] = s[b + i]
    <2>1. b + n <= Len(s)
      BY <1>1, <1>2
    <2> QED  BY <1>3, <1>4, <2>1, SliceIs
  <1>6. PICK q : q = MovedToStart(r)
    OBVIOUS
  <1>7. /\ q \in ReaderType /\ q.data \in Seq(Byte) /\ Len(q.data) = m /\ q.offset = 0
        /\ \A i \in 1 .. m : q.data[i] = s[p + i]
        /\ q.type = r.type /\ q.reading = r.reading /\ q.len = l /\ q.done = r.done
        /\ q.failed = r.failed /\ q.bytes_read = b
    <2>1. IsMoved(s, r, q)
      BY <1>6, MovedKeeps
    <2> QED  BY <1>1, <2>1 DEF IsMoved
  <1>8. PICK d : d = q.data \o g
    OBVIOUS
  <1>9. /\ d \in Seq(Byte) /\ Len(d) = m + n
        /\ \A i \in 1 .. m + n : d[i] = s[p + i]
    <2>1. /\ d \in Seq(Byte) /\ Len(d) = Len(q.data) + Len(g)
          /\ \A i \in 1 .. Len(q.data) + Len(g) :
               d[i] = IF i <= Len(q.data) THEN q.data[i] ELSE g[i - Len(q.data)]
      <3>1. q.data \in Seq(Byte) /\ g \in Seq(Byte)
        BY <1>5, <1>7
      <3> QED  BY <1>8, <3>1, ConcatProperties
    <2>2. /\ d \in Seq(Byte) /\ Len(d) = m + n
          /\ \A i \in 1 .. m + n : d[i] = IF i <= m THEN q.data[i] ELSE g[i - m]
      BY <1>5, <1>7, <2>1
    <2>3. ASSUME NEW i \in 1 .. m + n
          PROVE  d[i] = s[p + i]
      <3>1. CASE i <= m
        <4>1. i \in 1 .. m
          BY <3>1
        <4> QED  BY <1>7, <2>2, <3>1, <4>1
      <3>2. CASE ~ (i <= m)
        <4>1. i - m \in 1 .. n /\ b + (i - m) = p + i
          BY <1>20, <3>2
        <4> QED  BY <1>5, <2>2, <3>2, <4>1
      <3> QED  BY <3>1, <3>2
    <2> QED  BY <2>2, <2>3
  <1>10. PICK rr : rr = Filled(r, Got(Slice(s, r.bytes_read, n)))
    OBVIOUS
  <1>11. rr = [q EXCEPT !.data = d, !.bytes_read = b + n]
    <2>1. Got(Slice(s, r.bytes_read, n)) = [ret |-> n, bytes |-> g]
      BY <1>1, <1>4, <1>5 DEF Got
    <2>2. PICK got : got = Got(Slice(s, r.bytes_read, n)) /\ got.ret = n /\ got.bytes = g
      BY <2>1
    <2>3. rr = [q EXCEPT !.data = @ \o got.bytes, !.bytes_read = @ + got.ret]
      <3>1. rr = Filled(r, got) /\ ~ (got.ret <= 0)
        BY <1>10, <2>2
      <3> QED  BY <1>6, <3>1 DEF Filled
    <2>4. rr = [q EXCEPT !.data = q.data \o g, !.bytes_read = q.bytes_read + n]
      BY <1>7, <2>2, <2>3 DEF ReaderType
    <2> QED  BY <1>7, <1>8, <2>4
  <1>12. b + n \in Nat
    OBVIOUS
  <1>13. /\ rr \in ReaderType /\ rr.data = d /\ rr.offset = 0 /\ rr.bytes_read = b + n
         /\ rr.len = l /\ rr.type = r.type /\ rr.reading = r.reading /\ rr.done = r.done
         /\ rr.failed = r.failed
    BY <1>7, <1>9, <1>11, <1>12 DEF ReaderType
  <1>14. bson_reader_tell(rr) = p
    <2>1. bson_reader_tell(rr) = (b + n) - (m + n) + 0
      BY <1>9, <1>13 DEF bson_reader_tell
    <2>2. (b + n) - (m + n) + 0 = p
      BY <1>20
    <2> QED  BY <2>1, <2>2
  <1>15. Shows(s, rr)
    <2>1. \A i \in 1 .. m + n : d[i] = s[(b + n) - (m + n) + i]
      <3>1. (b + n) - (m + n) = p
        BY <1>20
      <3> QED  BY <1>9, <3>1
    <2>2. 0 <= m + n /\ m + n <= l /\ m + n <= b + n /\ b + n <= Len(s)
      <3>1. 0 <= m + n /\ m + n <= b + n
        BY <1>20
      <3> QED  BY <1>1, <1>2, <3>1
    <2> QED  BY <1>9, <1>13, <2>1, <2>2 DEF Shows
  <1>16. d # <<>>
    <2>1. Len(d) > 0
      BY <1>9
    <2> QED  BY <2>1
  <1>17. SameReader(r, rr)
    BY <1>1, <1>13, <1>14 DEF SameReader
  <1>18. EndInOrder(s, c, rr)
    BY <1>3, <1>13, <1>16 DEF EndInOrder, MayFill
  <1>19. ReaderInOrder(s, c, rr)
    BY <1>1, <1>3, <1>13, <1>15, <1>18 DEF ReaderInOrder
  <1> QED  BY <1>10, <1>17, <1>19

\* Reading finds the end of the stream, where there is no document, or fails.
LEMMA FilledNoMore ==
  ASSUME NEW s, NEW c, NEW r, ReaderInOrder(s, c, r), MayFill(r),
         NEW got, got.ret \in Int, got.ret <= 0, got.ret = 0 => AtEnd(s, c, r)
  PROVE  LET rr == Filled(r, got)
         IN  ReaderInOrder(s, c, rr) /\ SameReader(r, rr)
  <1>1. r \in ReaderType /\ s \in Seq(Byte) /\ c \in BOOLEAN /\ r.len >= 4
        /\ EndInOrder(s, c, r) /\ Shows(s, r) /\ r.type = "HANDLE"
    BY DEF ReaderInOrder, MayFill
  <1>2. PICK rr : rr = Filled(r, got)
    OBVIOUS
  <1>3. rr = EndedBy(r, got)
    BY <1>2 DEF Filled
  <1>4. CASE r.offset = 0 /\ r.data = <<>>
    <2>1. rr = [r EXCEPT !.done = TRUE]
      BY <1>3, <1>4 DEF EndedBy
    <2>2. /\ rr \in ReaderType /\ rr.type = "HANDLE" /\ rr.len = r.len /\ rr.failed = r.failed
          /\ rr.data = r.data /\ rr.offset = r.offset /\ rr.bytes_read = r.bytes_read
          /\ rr.reading = r.reading /\ rr.done = TRUE
      BY <1>1, <2>1 DEF ReaderType
    <2>3. EndInOrder(s, c, rr)
      BY <1>1, <1>4, <2>2 DEF EndInOrder, MayFill
    <2>4. Shows(s, rr) /\ bson_reader_tell(rr) = bson_reader_tell(r)
      BY <1>1, <2>2 DEF Shows, bson_reader_tell
    <2>5. ReaderInOrder(s, c, rr)
      BY <1>1, <2>2, <2>3, <2>4 DEF ReaderInOrder
    <2>6. SameReader(r, rr)
      BY <1>1, <2>2, <2>4 DEF SameReader
    <2> QED  BY <1>2, <2>5, <2>6
  <1>5. CASE ~ (r.offset = 0 /\ r.data = <<>>)
    <2>1. PICK q : q = MovedToStart(r)
      OBVIOUS
    <2>2. rr = [q EXCEPT !.done = TRUE, !.failed = got.ret < 0]
      BY <1>3, <1>5, <2>1 DEF EndedBy
    <2>3. PICK p \in Nat, b \in Nat, m \in Nat :
            /\ p = bson_reader_tell(r) /\ b = r.bytes_read /\ m = InBuffer(r)
            /\ b <= Len(s) /\ m <= r.len
      BY BufferIs
    <2>20. p + m = b
      BY <2>3, BufferIs
    <2>4. /\ q \in ReaderType /\ q.data \in Seq(Byte) /\ Len(q.data) = m /\ q.offset = 0
          /\ \A i \in 1 .. m : q.data[i] = s[p + i]
          /\ q.type = r.type /\ q.reading = r.reading /\ q.len = r.len
          /\ q.bytes_read = r.bytes_read
      <3>1. IsMoved(s, r, q)
        BY <2>1, MovedKeeps
      <3> QED  BY <2>3, <3>1 DEF IsMoved
    <2>6. PICK f \in BOOLEAN : f = (got.ret < 0) /\ (f = TRUE \/ got.ret = 0)
      <3>1. CASE got.ret < 0
        BY <3>1
      <3>2. CASE ~ (got.ret < 0)
        <4>1. got.ret = 0
          BY <3>2
        <4>2. FALSE = (got.ret < 0)
          BY <3>2
        <4> QED  BY <4>1, <4>2
      <3> QED  BY <3>1, <3>2
    <2>7. /\ rr \in ReaderType /\ rr.type = "HANDLE" /\ rr.len = r.len
          /\ rr.data = q.data /\ rr.offset = 0 /\ rr.bytes_read = b
          /\ rr.reading = r.reading /\ rr.done = TRUE /\ rr.failed = f
      <3>1. rr = [q EXCEPT !.done = TRUE, !.failed = f]
        BY <2>2, <2>6
      <3> QED  BY <1>1, <2>3, <2>4, <2>6, <3>1 DEF ReaderType
    <2>8. bson_reader_tell(rr) = p
      <3>1. bson_reader_tell(rr) = b - m + 0
        BY <2>4, <2>7 DEF bson_reader_tell
      <3>2. b - m + 0 = p
        BY <2>20
      <3> QED  BY <3>1, <3>2
    <2>9. Shows(s, rr)
      <3>1. \A i \in 1 .. m : q.data[i] = s[b - m + i]
        <4>1. b - m = p
          BY <2>20
        <4> QED  BY <2>4, <4>1
      <3>2. 0 <= m /\ m <= b
        BY <2>20
      <3> QED  BY <2>3, <2>4, <2>7, <3>1, <3>2 DEF Shows
    <2>10. EndInOrder(s, c, rr)
      <3>1. AtEnd(s, c, r) => AtEnd(s, c, rr)
        BY <2>3, <2>7, <2>8 DEF AtEnd
      <3>2. f = TRUE \/ AtEnd(s, c, rr)
        BY <2>6, <3>1
      <3>3. rr.done = TRUE /\ rr.failed = f
        BY <2>7
      <3> QED  BY <3>2, <3>3 DEF EndInOrder
    <2>11. ReaderInOrder(s, c, rr)
      BY <1>1, <2>7, <2>9, <2>10 DEF ReaderInOrder
    <2>12. SameReader(r, rr)
      BY <1>1, <2>3, <2>7, <2>8 DEF SameReader
    <2> QED  BY <1>2, <2>11, <2>12
  <1> QED  BY <1>4, <1>5

LEMMA MinOfTwo ==
  ASSUME NEW a \in Int, NEW b \in Int
  PROVE  Min({a, b}) \in {a, b} /\ Min({a, b}) <= a /\ Min({a, b}) <= b
  <1>1. \E x \in {a, b} : \A y \in {a, b} : x <= y
    OBVIOUS
  <1> QED  BY <1>1 DEF Min

\* A larger buffer holds what the buffer held.
LEMMA GrownKeeps ==
  ASSUME NEW s, NEW c, NEW r, ReaderInOrder(s, c, r), r.type = "HANDLE"
  PROVE  /\ ReaderInOrder(s, c, grow_buffer(r)) /\ SameReader(r, grow_buffer(r))
         /\ grow_buffer(r).len = 2 * r.len /\ InBuffer(grow_buffer(r)) = InBuffer(r)
         /\ grow_buffer(r).bytes_read = r.bytes_read /\ grow_buffer(r).done = r.done
  <1>1. PICK l \in Nat : l = r.len /\ l >= 4 /\ 2 * l \in Nat /\ l <= 2 * l
    BY DEF ReaderInOrder, ReaderType
  <1>2. PICK q : q = grow_buffer(r)
    OBVIOUS
  <1>3. r \in ReaderType /\ q = [r EXCEPT !.len = 2 * l]
    BY <1>1, <1>2 DEF ReaderInOrder, grow_buffer, ReaderType
  <1>4. /\ q \in ReaderType /\ q.len = 2 * l /\ q.type = r.type /\ q.reading = r.reading
        /\ q.data = r.data /\ q.offset = r.offset /\ q.bytes_read = r.bytes_read
        /\ q.done = r.done /\ q.failed = r.failed
    BY <1>1, <1>3 DEF ReaderType
  <1>5. bson_reader_tell(q) = bson_reader_tell(r) /\ InBuffer(q) = InBuffer(r)
    BY <1>4 DEF bson_reader_tell, InBuffer
  <1>6. Shows(s, q)
    <2>1. Len(r.data) <= 2 * l
      <3>1. Len(r.data) \in Nat /\ Len(r.data) <= l
        BY <1>1, <1>3 DEF ReaderInOrder, Shows, ReaderType
      <3> QED  BY <1>1, <3>1
    <2>2. Shows(s, r)
      BY DEF ReaderInOrder
    <2> QED  BY <1>4, <2>1, <2>2 DEF Shows
  <1>7. EndInOrder(s, c, q)
    <2>1. AtEnd(s, c, r) => AtEnd(s, c, q)
      BY <1>4, <1>5 DEF AtEnd
    <2> QED  BY <1>4, <2>1 DEF EndInOrder, ReaderInOrder
  <1>8. 2 * l >= 4
    BY <1>1
  <1>9. ReaderInOrder(s, c, q)
    BY <1>4, <1>6, <1>7, <1>8 DEF ReaderInOrder
  <1> QED  BY <1>1, <1>2, <1>4, <1>5, <1>9 DEF SameReader
\* Reading from the descriptor, whatever it brings, keeps the buffer in order.
LEMMA FillsInOrder ==
  ASSUME NEW r, ReaderInOrder(stream, closed, r), MayFill(r), InBuffer(r) < r.len,
         closed /\ r.bytes_read = Len(stream) => WholeAt(stream, bson_reader_tell(r)) = <<>>,
         NEW got, got \in read_func(r, r.len - InBuffer(r))
  PROVE  ReaderInOrder(stream, closed, Filled(r, got)) /\ SameReader(r, Filled(r, got))
  <1>1. PICK room \in Nat, there \in Nat :
          room = r.len - InBuffer(r) /\ there = Len(stream) - r.bytes_read /\ room > 0
    <2>1. Len(stream) \in Nat /\ InBuffer(r) \in Nat /\ r.len \in Nat /\ r.bytes_read \in Nat
          /\ r.bytes_read <= Len(stream)
      BY BufferIs
    <2> QED  BY <2>1
  <1>2. \/ got \in {Got(Slice(stream, r.bytes_read, n)) : n \in 1 .. Min({room, there})}
        \/ closed /\ there = 0 /\ got = Got(<<>>)
        \/ got = Failure
    <2>1. room # 0
      BY <1>1
    <2> QED  BY <1>1, <2>1 DEF read_func
  <1>3. CASE got \in {Got(Slice(stream, r.bytes_read, n)) : n \in 1 .. Min({room, there})}
    <2>0. room \in Int /\ there \in Int
      OBVIOUS
    <2>1. Min({room, there}) \in {room, there}
          /\ Min({room, there}) <= room /\ Min({room, there}) <= there
      BY <2>0, MinOfTwo
    <2>2. PICK n \in 1 .. Min({room, there}) : got = Got(Slice(stream, r.bytes_read, n))
      BY <1>3
    <2>3. n \in Nat /\ n > 0 /\ n <= room /\ n <= there
      BY <2>1, <2>2
    <2>4. n <= r.len - InBuffer(r) /\ n <= Len(stream) - r.bytes_read
      BY <1>1, <2>3
    <2> QED  BY <2>2, <2>3, <2>4, FilledMore
  <1>4. CASE closed /\ there = 0 /\ got = Got(<<>>)
    <2>1. got.ret = 0
      BY <1>4 DEF Got
    <2>2. r.bytes_read = Len(stream)
      <3>1. r.bytes_read \in Nat /\ Len(stream) \in Nat
        BY BufferIs
      <3> QED  BY <1>1, <1>4, <3>1
    <2>3. AtEnd(stream, closed, r)
      BY <1>4, <2>2 DEF AtEnd
    <2>4. got.ret \in Int /\ got.ret <= 0
      BY <2>1
    <2> QED  BY <2>3, <2>4, FilledNoMore
  <1>5. CASE got = Failure
    <2>1. got.ret = -1
      BY <1>5 DEF Failure
    <2>2. got.ret \in Int /\ got.ret <= 0 /\ got.ret # 0
      BY <2>1
    <2> QED  BY <2>2, FilledNoMore
  <1> QED  BY <1>2, <1>3, <1>4, <1>5

\* A reader is made from a descriptor.
LEMMA OpensInOrder ==
  ASSUME NEW s \in Seq(Byte), NEW c \in BOOLEAN, bson_reader_new_from_fd(s, c)
  PROVE  /\ ReaderInOrder(stream', closed', reader') /\ stream' = s /\ closed' = c
         /\ bson_reader_tell(reader') = 0 /\ reader'.type = "HANDLE" /\ reader'.reading = FALSE
         /\ answer' = NoAnswer /\ reader.type = "NONE"
  <1>1. PICK l \in Nat : l = InitialLen /\ l >= 4
    BY ReaderAssumption
  <1>2. PICK r : r = Reader("HANDLE", l)
    OBVIOUS
  <1>3. /\ ReaderInOrder(s, c, r) /\ bson_reader_tell(r) = 0 /\ MayFill(r)
        /\ r.type = "HANDLE" /\ r.reading = FALSE /\ r.len = l /\ r.bytes_read = 0
        /\ InBuffer(r) = 0
    BY <1>1, <1>2, NewReaderIs DEF Reader, MayFill, InBuffer
  <1>4. /\ reader.type = "NONE" /\ stream' = s /\ closed' = c /\ answer' = NoAnswer
        /\ \/ \E n \in 1 .. Min({l, Len(s)}) : reader' = Filled(r, Got(Slice(s, 0, n)))
           \/ s = <<>> /\ c /\ reader' = Filled(r, Got(<<>>))
           \/ reader' = Filled(r, Failure)
    BY <1>1, <1>2, <1>3 DEF bson_reader_new_from_fd
  <1>5. ReaderInOrder(s, c, reader') /\ SameReader(r, reader')
    <2>1. CASE \E n \in 1 .. Min({l, Len(s)}) : reader' = Filled(r, Got(Slice(s, 0, n)))
      <3>1. PICK k \in Nat : k = Len(s)
        OBVIOUS
      <3>0. l \in Int /\ k \in Int
        OBVIOUS
      <3>2. Min({l, k}) \in {l, k} /\ Min({l, k}) <= l /\ Min({l, k}) <= k
        BY <3>0, MinOfTwo
      <3>3. PICK n \in 1 .. Min({l, k}) : reader' = Filled(r, Got(Slice(s, 0, n)))
        BY <2>1, <3>1
      <3>4. n \in Nat /\ n > 0 /\ n <= l /\ n <= k
        BY <3>2, <3>3
      <3>5. n <= r.len - InBuffer(r) /\ n <= Len(s) - r.bytes_read
        BY <1>3, <3>1, <3>4
      <3>6. reader' = Filled(r, Got(Slice(s, r.bytes_read, n)))
        BY <1>3, <3>3
      <3> QED  BY <1>3, <3>4, <3>5, <3>6, FilledMore
    <2>2. CASE s = <<>> /\ c /\ reader' = Filled(r, Got(<<>>))
      <3>1. WholeAt(s, 0) = <<>> /\ Len(s) = 0
        BY <2>2, NothingBehind
      <3>2. AtEnd(s, c, r)
        BY <1>3, <2>2, <3>1 DEF AtEnd
      <3>3. PICK got : got = Got(<<>>)
        OBVIOUS
      <3>4. got.ret = 0
        BY <3>3 DEF Got
      <3>5. got.ret \in Int /\ got.ret <= 0
        BY <3>4
      <3> QED  BY <1>3, <2>2, <3>2, <3>3, <3>5, FilledNoMore
    <2>3. CASE reader' = Filled(r, Failure)
      <3>1. PICK got : got = Failure
        OBVIOUS
      <3>2. got.ret = -1
        BY <3>1 DEF Failure
      <3>3. got.ret \in Int /\ got.ret <= 0 /\ got.ret # 0
        BY <3>2
      <3> QED  BY <1>3, <2>3, <3>1, <3>3, FilledNoMore
    <2> QED  BY <1>4, <2>1, <2>2, <2>3
  <1> QED  BY <1>3, <1>4, <1>5 DEF SameReader

\* A reader is made from memory.
LEMMA DataInOrder ==
  ASSUME NEW s \in Seq(Byte), bson_reader_new_from_data(s)
  PROVE  /\ ReaderInOrder(stream', closed', reader')
         /\ bson_reader_tell(reader') = 0 /\ reader'.type = "DATA" /\ reader'.reading = FALSE
         /\ answer' = NoAnswer /\ reader.type = "NONE"
  <1>1. PICK n \in Nat : n = Len(s)
    OBVIOUS
  <1>2. PICK r : r = [Reader("DATA", n) EXCEPT !.data = s, !.bytes_read = n]
    OBVIOUS
  <1>3. /\ r \in ReaderType /\ r.type = "DATA" /\ r.reading = FALSE /\ r.data = s
        /\ r.bytes_read = n /\ r.offset = 0 /\ r.len = n
    BY <1>1, <1>2 DEF Reader, ReaderType
  <1>4. /\ reader.type = "NONE" /\ stream' = s /\ closed' = TRUE /\ answer' = NoAnswer
        /\ reader' = r
    BY <1>1, <1>2 DEF bson_reader_new_from_data
  <1>5. Shows(s, r)
    <2>1. \A i \in 1 .. n : s[i] = s[n - n + i]
      <3> TAKE i \in 1 .. n
      <3>1. n - n + i = i
        OBVIOUS
      <3> QED  BY <3>1
    <2> QED  BY <1>1, <1>3, <2>1 DEF Shows
  <1>6. AllThere(s, TRUE, r)
    BY <1>1, <1>3 DEF AllThere
  <1>7. bson_reader_tell(r) = 0
    BY <1>1, <1>3 DEF bson_reader_tell
  <1>8. ReaderInOrder(s, TRUE, r)
    BY <1>3, <1>5, <1>6 DEF ReaderInOrder
  <1> QED  BY <1>3, <1>4, <1>7, <1>8
LEMMA WholeFits ==
  ASSUME NEW p \in Nat, NEW m \in Nat, NEW k \in Nat, NEW n \in Nat,
         p + m = k, n >= 5, p + n <= k
  PROVE  m >= 5 /\ m >= n
  OBVIOUS

\* Where less than a document is left in a stream that has ended, no document is left.
LEMMA LessThanWhole ==
  ASSUME NEW s, NEW c, NEW r, ReaderInOrder(s, c, r), r.bytes_read = Len(s),
         InBuffer(r) < 4 \/ Blen(r) > InBuffer(r)
  PROVE  WholeAt(s, bson_reader_tell(r)) = <<>>
  <1>1. PICK p \in Nat, m \in Nat, k \in Nat :
          p = bson_reader_tell(r) /\ m = InBuffer(r) /\ k = Len(s) /\ p + m = k
    <2>1. Len(s) \in Nat
      BY BufferIs
    <2> QED  BY <2>1, BufferIs
  <1>2. SUFFICES ASSUME WholeAt(s, p) # <<>>
                 PROVE  FALSE
    BY <1>1
  <1>3. s \in Seq(Byte)
    BY BufferIs
  <1>4. PICK n \in Nat : n = U32At(s, p) /\ n >= 5 /\ p + n <= k /\ s[p + 4] <= 127
    <2>1. /\ s[p + 4] <= 127 /\ U32At(s, p) \in Nat /\ U32At(s, p) >= 5
          /\ p + U32At(s, p) <= Len(s)
      BY <1>2, <1>3, WholeIs, Zenon
    <2> QED  BY <1>1, <2>1
  <1>5. m >= 5 /\ m >= n
    BY <1>1, <1>4, WholeFits, Zenon
  <1>6. Blen(r) = IF s[p + 4] > 127 THEN -1 ELSE n
    <2>1. InBuffer(r) >= 4
      BY <1>1, <1>5
    <2> QED  BY <1>1, <1>4, <2>1, BlenIs
  <1>7. s[p + 4] \in Nat
    <2>1. InBuffer(r) >= 4
      BY <1>1, <1>5
    <2> QED  BY <1>1, <2>1, BlenIs
  <1>8. Blen(r) = n
    BY <1>4, <1>6, <1>7
  <1> QED  BY <1>1, <1>5, <1>8

\* Reading on: the buffer is filled, grown before if the document does not fit.
LEMMA ReadingOn ==
  ASSUME ReaderInOrder(stream, closed, reader), WithoutLength \/ Incomplete
  PROVE  /\ ReaderInOrder(stream, closed, reader') /\ SameReader(reader, reader')
         /\ UNCHANGED <<stream, closed, answer>>
  <1>1. MayFill(reader) /\ reader.type = "HANDLE"
    BY DEF WithoutLength, Incomplete, HandleReads, HasLength, MayFill
  <1>2. PICK m \in Nat, l \in Nat : m = InBuffer(reader) /\ l = reader.len /\ m <= l /\ l >= 4
    <2>1. InBuffer(reader) \in Nat /\ reader.len \in Nat /\ InBuffer(reader) <= reader.len
      BY BufferIs
    <2>2. reader.len >= 4
      BY <1>1 DEF ReaderInOrder
    <2> QED  BY <2>1, <2>2
  <1>3. \/ m < 4 /\ fill_buffer(reader)
        \/ /\ Blen(reader) > m
           /\ fill_buffer(IF Blen(reader) > l THEN grow_buffer(reader) ELSE reader)
    BY <1>2 DEF WithoutLength, Incomplete
  <1>4. closed /\ reader.bytes_read = Len(stream) =>
          WholeAt(stream, bson_reader_tell(reader)) = <<>>
    BY <1>2, <1>3, LessThanWhole
  <1>5. PICK r : /\ fill_buffer(r) /\ ReaderInOrder(stream, closed, r) /\ SameReader(reader, r)
                 /\ MayFill(r) /\ InBuffer(r) < r.len /\ r.bytes_read = reader.bytes_read
    <2>1. SameReader(reader, reader)
      BY DEF SameReader
    <2>2. CASE fill_buffer(reader) /\ m < l
      BY <1>1, <1>2, <2>1, <2>2
    <2>3. CASE fill_buffer(grow_buffer(reader))
      <3>1. PICK r : r = grow_buffer(reader)
        OBVIOUS
      <3>2. /\ ReaderInOrder(stream, closed, r) /\ SameReader(reader, r)
            /\ r.len = 2 * l /\ InBuffer(r) = m
            /\ r.bytes_read = reader.bytes_read /\ r.done = reader.done
        BY <1>1, <1>2, <3>1, GrownKeeps
      <3>3. m < 2 * l
        BY <1>2
      <3>4. InBuffer(r) < r.len
        BY <3>2, <3>3
      <3>5. MayFill(r)
        BY <1>1, <3>2 DEF MayFill, SameReader
      <3> QED  BY <2>3, <3>1, <3>2, <3>4, <3>5
    <2>4. CASE ~fill_buffer(grow_buffer(reader))
      <3>1. fill_buffer(reader) /\ (m < 4 \/ (Blen(reader) > m /\ ~ (Blen(reader) > l)))
        BY <1>3, <2>4
      <3>2. Blen(reader) > m /\ ~ (Blen(reader) > l) => m < l
        <4>1. m >= 4 => Blen(reader) \in Int
          <5> SUFFICES ASSUME m >= 4
                       PROVE  Blen(reader) \in Int
            OBVIOUS
          <5>1. PICK u \in Nat : u = U32At(stream, bson_reader_tell(reader))
            BY <1>2, BlenIs
          <5> QED  BY <1>2, <5>1, BlenIs
        <4> QED  BY <1>2, <4>1
      <3>3. m < l
        BY <1>2, <3>1, <3>2
      <3> QED  BY <2>2, <3>1, <3>3
    <2> QED  BY <2>3, <2>4
  <1>6. closed /\ r.bytes_read = Len(stream) => WholeAt(stream, bson_reader_tell(r)) = <<>>
    BY <1>4, <1>5 DEF SameReader
  <1>7. PICK got \in read_func(r, r.len - InBuffer(r)) : reader' = Filled(r, got)
    BY <1>5 DEF fill_buffer
  <1>8. ReaderInOrder(stream, closed, reader') /\ SameReader(r, reader')
    BY <1>5, <1>6, <1>7, FillsInOrder
  <1> QED  BY <1>5, <1>8 DEF fill_buffer, SameReader
AnswerType == [doc : Seq(Byte), reached_eof : BOOLEAN]

\* What the answer a of the reader r says.
Answered(s, c, r, a) ==
  LET pos == bson_reader_tell(r) IN
  /\ a.doc # <<>> =>
       /\ ~a.reached_eof /\ Len(a.doc) <= pos
       /\ a.doc = WholeAt(s, pos - Len(a.doc))
  /\ a.doc = <<>> /\ a.reached_eof /\ r.bytes_read > 0 => AtEnd(s, c, r)
  /\ a.doc = <<>> /\ ~a.reached_eof =>
       r.failed \/ Broken(s, pos) \/ (r.type = "DATA" /\ pos < Len(s))

\* The reader returns: it moves behind what it returns.
LEMMA ReturnMoves ==
  ASSUME ReaderInOrder(stream, closed, reader), reader.type # "NONE",
         NEW doc \in Seq(Byte), Len(doc) <= InBuffer(reader), NEW e, Answers(doc, e),
         reader.type = "HANDLE" /\ reader.done => doc = <<>>
  PROVE  /\ ReaderInOrder(stream, closed, reader') /\ UNCHANGED <<stream, closed>>
         /\ reader'.type = reader.type /\ reader'.reading = FALSE
         /\ reader'.failed = reader.failed /\ reader'.bytes_read = reader.bytes_read
         /\ bson_reader_tell(reader') = bson_reader_tell(reader) + Len(doc)
         /\ answer' = Returns(doc, e)
  <1>1. PICK p \in Nat, o \in Nat, m \in Nat, b \in Nat, k \in Nat, n \in Nat :
          /\ p = bson_reader_tell(reader) /\ o = reader.offset /\ m = InBuffer(reader)
          /\ b = reader.bytes_read /\ k = Len(reader.data) /\ n = Len(doc) /\ n <= m
    <2>1. /\ bson_reader_tell(reader) \in Nat /\ reader.offset \in Nat
          /\ InBuffer(reader) \in Nat /\ reader.bytes_read \in Nat
          /\ Len(reader.data) \in Nat
      BY BufferIs
    <2>2. Len(doc) \in Nat
      OBVIOUS
    <2> QED  BY <2>1, <2>2, Zenon
  <1>2. k = o + m
    BY <1>1, BufferIs
  <1>3. p + m = b
    BY <1>1, BufferIs
  <1>4. PICK r : r = reader'
    OBVIOUS
  <1>5. r = [reader EXCEPT !.reading = FALSE, !.offset = o + n]
    BY <1>1, <1>4 DEF Answers
  <1>6. reader \in ReaderType /\ o + n \in Nat
    BY <1>1 DEF ReaderInOrder
  <1>7. /\ r \in ReaderType /\ r.type = reader.type /\ r.done = reader.done
        /\ r.failed = reader.failed /\ r.data = reader.data /\ r.len = reader.len
        /\ r.offset = o + n /\ r.bytes_read = b /\ r.reading = FALSE
    BY <1>1, <1>5, <1>6 DEF ReaderType
  <1>8. bson_reader_tell(r) = p + n
    <2>1. bson_reader_tell(r) = b - k + (o + n)
      BY <1>1, <1>7 DEF bson_reader_tell
    <2>2. b - k + (o + n) = p + n
      BY <1>2, <1>3
    <2> QED  BY <2>1, <2>2
  <1>9. Shows(stream, r)
    <2>1. o + n <= k
      BY <1>1, <1>2
    <2>2. Shows(stream, reader)
      BY DEF ReaderInOrder
    <2> QED  BY <1>1, <1>7, <2>1, <2>2 DEF Shows
  <1>10. reader.type = "DATA" => AllThere(stream, closed, r)
    BY <1>1, <1>7 DEF ReaderInOrder, AllThere
  <1>11. reader.type = "HANDLE" => EndInOrder(stream, closed, r)
    <2> SUFFICES ASSUME reader.type = "HANDLE"
                 PROVE  EndInOrder(stream, closed, r)
      OBVIOUS
    <2>1. EndInOrder(stream, closed, reader)
      BY DEF ReaderInOrder
    <2>2. CASE reader.done
      <3>1. bson_reader_tell(r) = bson_reader_tell(reader)
        <4>1. n = 0
          BY <1>1, <2>2
        <4> QED  BY <1>1, <1>8, <4>1
      <3>2. AtEnd(stream, closed, reader) => AtEnd(stream, closed, r)
        BY <1>1, <1>7, <3>1 DEF AtEnd
      <3> QED  BY <1>1, <1>7, <2>1, <3>2 DEF EndInOrder
    <2>3. CASE ~reader.done
      BY <1>1, <1>7, <2>1, <2>3 DEF EndInOrder
    <2> QED  BY <2>2, <2>3
  <1>12. ReaderInOrder(stream, closed, r)
    BY <1>7, <1>9, <1>10, <1>11 DEF ReaderInOrder
  <1> QED  BY <1>1, <1>4, <1>7, <1>8, <1>12 DEF Answers

\* bson_reader_read returns what is there.
LEMMA Returning ==
  ASSUME ReaderInOrder(stream, closed, reader),
         HandleReturns \/ HandleRejects \/ HandleEnds \/ DataReads
  PROVE  /\ ReaderInOrder(stream, closed, reader') /\ UNCHANGED <<stream, closed>>
         /\ reader'.type = reader.type /\ reader'.reading = FALSE
         /\ answer' \in AnswerType /\ Answered(stream, closed, reader', answer')
         /\ bson_reader_tell(reader') = bson_reader_tell(reader) + Len(answer'.doc)
         /\ answer'.doc # <<>> => answer'.doc = WholeAt(stream, bson_reader_tell(reader))
  <1>1. PICK p \in Nat, m \in Nat : p = bson_reader_tell(reader) /\ m = InBuffer(reader)
    BY BufferIs
  <1>2. <<>> \in Seq(Byte) /\ Len(<<>>) = 0 /\ Len(<<>>) <= InBuffer(reader)
    BY <1>1
  <1>3. reader.type # "NONE"
    BY DEF HandleReturns, HandleRejects, HandleEnds, DataReads, HandleReads
  <1>4. \* a document
        ASSUME Answers(NextDocument(reader), FALSE), Blen(reader) \in 5 .. InBuffer(reader),
               bson_init_static(NextDocument(reader)),
               reader.type = "HANDLE" => ~reader.done
        PROVE  /\ ReaderInOrder(stream, closed, reader') /\ UNCHANGED <<stream, closed>>
               /\ reader'.type = reader.type /\ reader'.reading = FALSE
               /\ answer' \in AnswerType /\ Answered(stream, closed, reader', answer')
               /\ bson_reader_tell(reader') = bson_reader_tell(reader) + Len(answer'.doc)
               /\ answer'.doc # <<>> => answer'.doc = WholeAt(stream, bson_reader_tell(reader))
    <2>1. PICK d : d = NextDocument(reader)
      OBVIOUS
    <2>2. /\ d = WholeAt(stream, p) /\ d # <<>> /\ d \in Seq(Byte)
          /\ Len(d) \in 5 .. m /\ Len(d) <= InBuffer(reader)
      BY <1>1, <1>4, <2>1, TakesWhole
    <2>3. /\ ReaderInOrder(stream, closed, reader') /\ UNCHANGED <<stream, closed>>
          /\ reader'.type = reader.type /\ reader'.reading = FALSE
          /\ bson_reader_tell(reader') = bson_reader_tell(reader) + Len(d)
          /\ answer' = Returns(d, FALSE)
      BY <1>3, <1>4, <2>1, <2>2, ReturnMoves
    <2>4. answer' \in AnswerType /\ answer'.doc = d /\ answer'.reached_eof = FALSE
      BY <2>2, <2>3 DEF Returns, AnswerType
    <2>5. PICK n \in Nat : n = Len(d)
      BY <2>2
    <2>6. bson_reader_tell(reader') = p + n /\ p + n - n = p /\ n <= p + n
      BY <1>1, <2>3, <2>5
    <2>7. Answered(stream, closed, reader', answer')
      BY <2>2, <2>4, <2>5, <2>6 DEF Answered
    <2> QED  BY <1>1, <2>2, <2>3, <2>4, <2>7
  <1>5. \* no document
        ASSUME NEW e \in BOOLEAN, Answers(<<>>, e),
               e /\ reader.bytes_read > 0 => AtEnd(stream, closed, reader),
               ~e => \/ reader.failed \/ Broken(stream, bson_reader_tell(reader))
                     \/ reader.type = "DATA" /\ bson_reader_tell(reader) < Len(stream)
        PROVE  /\ ReaderInOrder(stream, closed, reader') /\ UNCHANGED <<stream, closed>>
               /\ reader'.type = reader.type /\ reader'.reading = FALSE
               /\ answer' \in AnswerType /\ Answered(stream, closed, reader', answer')
               /\ bson_reader_tell(reader') = bson_reader_tell(reader) + Len(answer'.doc)
               /\ answer'.doc # <<>> => answer'.doc = WholeAt(stream, bson_reader_tell(reader))
    <2>1. PICK d : d = <<>>
      OBVIOUS
    <2>2. /\ ReaderInOrder(stream, closed, reader') /\ UNCHANGED <<stream, closed>>
          /\ reader'.type = reader.type /\ reader'.reading = FALSE
          /\ reader'.failed = reader.failed /\ reader'.bytes_read = reader.bytes_read
          /\ bson_reader_tell(reader') = bson_reader_tell(reader) + Len(d)
          /\ answer' = Returns(d, e)
      BY <1>2, <1>3, <1>5, <2>1, ReturnMoves
    <2>3. answer' \in AnswerType /\ answer'.doc = <<>> /\ answer'.reached_eof = e
      BY <1>2, <2>1, <2>2 DEF Returns, AnswerType
    <2>4. bson_reader_tell(reader') = bson_reader_tell(reader)
      BY <1>1, <1>2, <2>1, <2>2
    <2>5. AtEnd(stream, closed, reader) => AtEnd(stream, closed, reader')
      BY <2>2, <2>4 DEF AtEnd
    <2>6. Answered(stream, closed, reader', answer')
      BY <1>5, <2>2, <2>3, <2>4, <2>5 DEF Answered
    <2> QED  BY <2>1, <2>2, <2>3, <2>6
  <1>6. CASE HandleReturns
    BY <1>4, <1>6 DEF HandleReturns, HasLength
  <1>7. CASE HandleRejects
    <2>1. Broken(stream, bson_reader_tell(reader))
      BY <1>7, RejectsBroken DEF HandleRejects, HasLength
    <2> QED  BY <1>5, <1>7, <2>1 DEF HandleRejects
  <1>8. CASE HandleEnds
    <2>1. PICK e \in BOOLEAN : e = ~reader.failed
      OBVIOUS
    <2>2. EndInOrder(stream, closed, reader) /\ reader.done
      BY <1>8 DEF HandleEnds, HandleReads, ReaderInOrder
    <2>3. /\ e /\ reader.bytes_read > 0 => AtEnd(stream, closed, reader)
          /\ ~e => reader.failed
      BY <2>1, <2>2 DEF EndInOrder
    <2>4. Answers(<<>>, e)
      BY <1>8, <2>1 DEF HandleEnds
    <2> QED  BY <1>5, <2>3, <2>4
  <1>9. CASE DataReads
    <2>1. reader.type = "DATA" /\ AllThere(stream, closed, reader)
      BY <1>9 DEF DataReads, ReaderInOrder
    <2>2. PICK k \in Nat, o \in Nat :
            k = Len(reader.data) /\ k = Len(stream) /\ o = reader.offset /\ k = o + m
      <3>1. Len(stream) \in Nat /\ reader.offset \in Nat
            /\ Len(reader.data) = reader.offset + InBuffer(reader)
        BY BufferIs
      <3> QED  BY <1>1, <2>1, <3>1 DEF AllThere
    <2>3. p = o
      <3>1. reader.bytes_read = k /\ p + m = reader.bytes_read
        BY <1>1, <2>1, <2>2, BufferIs DEF AllThere
      <3> QED  BY <2>2, <3>1
    <2>4. \/ /\ o + 4 < k /\ Blen(reader) \in 5 .. InBuffer(reader)
             /\ bson_init_static(NextDocument(reader)) /\ Answers(NextDocument(reader), FALSE)
          \/ o + 4 < k /\ Answers(<<>>, FALSE)
          \/ Answers(<<>>, o = k)
      BY <1>9, <2>2 DEF DataReads
    <2>5. CASE /\ Blen(reader) \in 5 .. InBuffer(reader)
               /\ bson_init_static(NextDocument(reader)) /\ Answers(NextDocument(reader), FALSE)
      BY <1>4, <2>1, <2>5
    <2>6. CASE o + 4 < k /\ Answers(<<>>, FALSE)
      <3>1. bson_reader_tell(reader) < Len(stream)
        BY <1>1, <2>2, <2>3, <2>6
      <3> QED  BY <1>5, <2>1, <2>6, <3>1
    <2>7. CASE Answers(<<>>, o = k)
      <3>1. PICK e \in BOOLEAN : e = (o = k)
        OBVIOUS
      <3>2. e => AtEnd(stream, closed, reader)
        <4> SUFFICES ASSUME e
                     PROVE  AtEnd(stream, closed, reader)
          OBVIOUS
        <4>1. WholeAt(stream, Len(stream)) = <<>>
          BY BufferIs, NothingBehind
        <4>2. p = Len(stream)
          BY <2>2, <2>3, <3>1
        <4> QED  BY <1>1, <2>1, <4>1, <4>2 DEF AtEnd, AllThere
      <3>3. ~e => bson_reader_tell(reader) < Len(stream)
        <4>1. ~e => o # k
          BY <3>1
        <4>2. o # k => o < k
          BY <2>2
        <4>3. o < k => bson_reader_tell(reader) < Len(stream)
          BY <1>1, <2>2, <2>3
        <4> QED  BY <4>1, <4>2, <4>3
      <3>4. Answers(<<>>, e)
        BY <2>7, <3>1
      <3> QED  BY <1>5, <2>1, <3>2, <3>3, <3>4
    <2> QED  BY <2>4, <2>5, <2>6, <2>7
  <1> QED  BY <1>6, <1>7, <1>8, <1>9
-----------------------------------------------------------------------------
(* The programs.                                                           *)

ToolType ==
  [name : {"to_json", "validate", "metrics", "streaming", "data"},
   args : Seq({NoFile} \cup Seq(Byte)), pc : {"open", "read", "wait", "done"}, i : Nat \ {0},
   out : Seq(Seq(Byte)), docnum : Nat, mark : Nat, doc_size_max : Nat, exit : {0, 1}]

\* The document the program has been given and has not looked at.
Pending == IF tool.pc = "wait" THEN answer.doc ELSE <<>>

\* The position behind the documents the program has looked at.
Seen == bson_reader_tell(reader) - Len(Pending)

ToolInOrder ==
  /\ tool \in ToolType /\ answer \in AnswerType
  /\ reader.type = "NONE" <=> tool.pc \in {"open", "done"}
  /\ reader.reading => tool.pc = "wait" /\ answer = NoAnswer
  /\ HasAnswer => Answered(stream, closed, reader, answer)

\* n is the largest size of the last k of docs.
Largest(docs, k, n) ==
  /\ k <= Len(docs)
  /\ k = 0 => n = 0
  /\ k > 0 => \E i \in Len(docs) - k + 1 .. Len(docs) : n = Len(docs[i])
  /\ \A i \in Len(docs) - k + 1 .. Len(docs) : Len(docs[i]) <= n

MeasuresInOrder ==
  (tool.name = "metrics" /\ tool.pc \in {"read", "wait"}) =>
    tool.mark = Seen /\ Largest(tool.out, tool.docnum, tool.doc_size_max)

\* docs are the first documents of s.
FirstOnes(s, docs) ==
  \A i \in 1 .. Len(docs) : docs[i] # <<>> /\ docs[i] = WholeAt(s, Behind(docs, i - 1))

ConnectionInOrder ==
  /\ peer \in {"write", "stop", "absent"} /\ (tool.name = "streaming" <=> peer # "absent")
  /\ tool.name = "streaming" =>
       /\ reader.type # "DATA"
       /\ Len(stream) <= writer.offset /\ \A i \in 1 .. Len(stream) : buf[i] = stream[i]
       /\ closed => peer = "stop" /\ Len(stream) = writer.offset
       /\ FirstOnes(FinishedIn(buf, writer), tool.out)
       /\ tool.pc = "open" => tool.out = <<>>
       /\ tool.pc \in {"read", "wait"} =>
            /\ Behind(tool.out, Len(tool.out)) = Seen
            /\ EndFrom(FinishedIn(buf, writer), bson_reader_tell(reader)) = writer.offset

SInv ==
  /\ WriterInOrder(buf, writer) /\ ReaderInOrder(stream, closed, reader)
  /\ ToolInOrder /\ MeasuresInOrder /\ ConnectionInOrder

LEMMA InitInOrder == Init => SInv
  <1> SUFFICES ASSUME Init
               PROVE  SInv
    OBVIOUS
  <1>1. WriterInOrder(buf, writer)
    BY WriterStarts
  <1>2. /\ reader = NoReader /\ answer = NoAnswer /\ stream = <<>> /\ closed = FALSE
        /\ peer = IF tool.name = "streaming" THEN "write" ELSE "absent"
    BY DEF Init, ToolInit
  <1>3. PICK n \in Tools, a \in Args \cup {<<>>} : tool = Tool(n, a)
    BY DEF Init, ToolInit
  <1>4. a \in Seq({NoFile} \cup Seq(Byte))
        /\ n \in {"to_json", "validate", "metrics", "streaming", "data"}
    <2>1. PICK S : S = {NoFile} \cup Seq(Byte)
      OBVIOUS
    <2>2. <<>> \in Seq(S) /\ Args \subseteq Seq(S)
      BY <2>1, ToolsAssumption
    <2>3. a \in Seq(S)
      BY <2>2
    <2> QED  BY <2>1, <2>3, ToolsAssumption
  <1>5. /\ tool.name = n /\ tool.args = a /\ tool.pc = "open" /\ tool.out = <<>>
        /\ tool \in ToolType
    BY <1>3, <1>4 DEF Tool, ToolType
  <1>6. ReaderInOrder(stream, closed, reader)
    <2>1. stream \in Seq(Byte) /\ closed \in BOOLEAN
      <3>1. <<>> \in Seq(Byte)
        OBVIOUS
      <3> QED  BY <1>2, <3>1
    <2>2. InitialLen \in Nat /\ InitialLen >= 4
      BY ReaderAssumption
    <2> QED  BY <1>2, <2>1, <2>2, NewReaderIs
  <1>7. ToolInOrder
    <2>1. answer \in AnswerType /\ reader.type = "NONE" /\ reader.reading = FALSE
      BY <1>2 DEF NoAnswer, Returns, AnswerType, NoReader, Reader
    <2> QED  BY <1>5, <2>1 DEF ToolInOrder, HasAnswer
  <1>8. MeasuresInOrder
    BY <1>5 DEF MeasuresInOrder
  <1>9. ConnectionInOrder
    <2>1. peer \in {"write", "stop", "absent"} /\ (tool.name = "streaming" <=> peer # "absent")
      BY <1>2
    <2>2. reader.type # "DATA"
      BY <1>2 DEF NoReader, Reader
    <2>3. Len(stream) = 0 /\ writer.offset \in Nat
      BY <1>1, <1>2 DEF WriterInOrder, Writer
    <2>4. Len(stream) <= writer.offset /\ \A i \in 1 .. Len(stream) : buf[i] = stream[i]
      BY <2>3
    <2>5. FirstOnes(FinishedIn(buf, writer), tool.out)
      BY <1>5 DEF FirstOnes
    <2> QED  BY <1>2, <1>5, <2>1, <2>2, <2>4, <2>5 DEF ConnectionInOrder
  <1> QED  BY <1>1, <1>6, <1>7, <1>8, <1>9 DEF SInv

\* The streaming reader stands in the stream, and the stream is what has been written.
LEMMA StreamIsWritten ==
  ASSUME SInv, tool.name = "streaming"
  PROVE  /\ FinishedIn(buf, writer) \in Seq(Byte)
         /\ Len(FinishedIn(buf, writer)) = writer.offset
         /\ Begins(stream, FinishedIn(buf, writer)) /\ stream \in Seq(Byte)
         /\ bson_reader_tell(reader) \in 0 .. Len(stream)
         /\ bson_reader_tell(reader) \in 0 .. writer.offset
         /\ writer.offset \in Nat
  <1>1. PICK f : f = FinishedIn(buf, writer)
    OBVIOUS
  <1>2. PICK o \in Nat : o = writer.offset
    BY DEF SInv, WriterInOrder, Writer
  <1>3. f \in Seq(Byte) /\ Len(f) = o /\ \A i \in 1 .. o : f[i] = buf[i]
    <2>1. buf \in Seq(Byte) /\ writer \in Writer /\ writer.offset <= Len(buf)
      <3>1. buf \in Seq(Byte) /\ writer \in Writer /\ o + writer.b_len <= Len(buf)
            /\ writer.b_len \in Nat
        BY <1>2 DEF SInv, WriterInOrder, Writer
      <3>2. Len(buf) \in Nat
        BY <3>1
      <3>3. o <= Len(buf)
        BY <3>1, <3>2
      <3> QED  BY <1>2, <3>1, <3>3
    <2> QED  BY <1>1, <1>2, <2>1, FinishedIs
  <1>4. stream \in Seq(Byte) /\ Len(stream) <= o
        /\ \A i \in 1 .. Len(stream) : buf[i] = stream[i]
    BY <1>2 DEF SInv, ConnectionInOrder, ReaderInOrder
  <1>5. PICK k \in Nat : k = Len(stream) /\ k <= o
    BY <1>4
  <1>6. Begins(stream, f)
    BY <1>3, <1>4, <1>5 DEF Begins
  <1>7. bson_reader_tell(reader) \in 0 .. k
    <2>1. PICK p \in Nat, m \in Nat : p = bson_reader_tell(reader) /\ m = InBuffer(reader)
      BY BufferIs DEF SInv
    <2>2. p + m = reader.bytes_read /\ reader.bytes_read <= Len(stream)
      BY <2>1, BufferIs DEF SInv
    <2> QED  BY <1>5, <2>1, <2>2
  <1>8. bson_reader_tell(reader) \in 0 .. o
    BY <1>5, <1>7
  <1> QED  BY <1>1, <1>2, <1>3, <1>4, <1>5, <1>6, <1>7, <1>8

\* The first documents of a stream are those of the stream when it is longer.
LEMMA FirstOnesStay ==
  ASSUME NEW s \in Seq(Byte), NEW t \in Seq(Byte), Begins(s, t),
         NEW docs \in Seq(Seq(Byte)), FirstOnes(s, docs)
  PROVE  FirstOnes(t, docs)
  <1> SUFFICES ASSUME NEW i \in 1 .. Len(docs)
               PROVE  docs[i] # <<>> /\ docs[i] = WholeAt(t, Behind(docs, i - 1))
    BY DEF FirstOnes
  <1>1. docs[i] # <<>> /\ docs[i] = WholeAt(s, Behind(docs, i - 1))
    BY DEF FirstOnes
  <1>2. i - 1 \in 0 .. Len(docs)
    OBVIOUS
  <1>3. Behind(docs, i - 1) \in Nat
    BY <1>2, BehindIs
  <1> QED  BY <1>1, <1>3, WholeStays

LEMMA WriteInOrder == SInv /\ Write => SInv'
  <1> SUFFICES ASSUME SInv, Write
               PROVE  SInv'
    OBVIOUS
  <1>1. /\ WriterInOrder(buf', writer') /\ Kept(buf, writer, buf', writer')
        /\ UNCHANGED toolVars /\ peer = "write" /\ peer' \in {"write", "stop"}
    BY WritingKeeps DEF SInv
  <1>2. UNCHANGED <<stream, closed, reader, answer, tool>>
    BY <1>1 DEF toolVars, readerVars
  <1>3. tool.name = "streaming"
    BY <1>1 DEF SInv, ConnectionInOrder
  <1>4. PICK f, ff : f = FinishedIn(buf, writer) /\ ff = FinishedIn(buf', writer')
    OBVIOUS
  <1>5. PICK o \in Nat, oo \in Nat : o = writer.offset /\ oo = writer'.offset /\ o <= oo
    BY <1>1 DEF SInv, WriterInOrder, Writer, Kept
  <1>6. f \in Seq(Byte) /\ Len(f) = o
    BY <1>3, <1>4, <1>5, StreamIsWritten
  <1>7. buf \in Seq(Byte) /\ writer \in Writer /\ buf' \in Seq(Byte) /\ writer' \in Writer
        /\ o <= Len(buf) /\ oo <= Len(buf')
    <2>1. buf \in Seq(Byte) /\ writer \in Writer /\ o + writer.b_len <= Len(buf)
          /\ writer.b_len \in Nat
      BY <1>5 DEF SInv, WriterInOrder, Writer
    <2>2. buf' \in Seq(Byte) /\ writer' \in Writer /\ oo + writer'.b_len <= Len(buf')
          /\ writer'.b_len \in Nat
      BY <1>1, <1>5 DEF WriterInOrder, Writer
    <2>3. Len(buf) \in Nat /\ Len(buf') \in Nat
      BY <2>1, <2>2
    <2> QED  BY <2>1, <2>2, <2>3
  <1>8. ff \in Seq(Byte) /\ Len(ff) = oo /\ (\A i \in 1 .. oo : ff[i] = buf'[i])
        /\ \A i \in 1 .. o : f[i] = buf[i]
    BY <1>4, <1>5, <1>7, FinishedIs
  <1>9. \A i \in 1 .. o : buf'[i] = buf[i]
    BY <1>1, <1>5 DEF Kept
  <1>10. Begins(f, ff)
    <2>1. \A i \in 1 .. o : ff[i] = f[i]
      BY <1>5, <1>8, <1>9
    <2> QED  BY <1>5, <1>6, <1>8, <2>1 DEF Begins
  <1>11. FirstOnes(ff, tool.out)
    <2>1. FirstOnes(f, tool.out) /\ tool.out \in Seq(Seq(Byte))
      BY <1>3, <1>4 DEF SInv, ConnectionInOrder, ToolInOrder, ToolType
    <2> QED  BY <1>6, <1>8, <1>10, <2>1, FirstOnesStay
  <1>12. EndFrom(f, bson_reader_tell(reader)) = o => EndFrom(ff, bson_reader_tell(reader)) = oo
    <2>1. bson_reader_tell(reader) \in 0 .. writer.offset
      BY <1>3, StreamIsWritten
    <2> QED  BY <1>1, <1>4, <1>5, <2>1 DEF Kept
  <1>13. Len(stream) <= oo /\ \A i \in 1 .. Len(stream) : buf'[i] = stream[i]
    <2>1. PICK k \in Nat : k = Len(stream)
      BY DEF SInv, ReaderInOrder
    <2>2. k <= o /\ \A i \in 1 .. k : buf[i] = stream[i]
      BY <1>3, <1>5, <2>1 DEF SInv, ConnectionInOrder
    <2>3. \A i \in 1 .. k : buf'[i] = stream[i]
      <3> TAKE i \in 1 .. k
      <3>1. i \in 1 .. o
        BY <2>2
      <3> QED  BY <1>9, <2>2, <3>1
    <2>4. k <= oo
      BY <1>5, <2>2
    <2> QED  BY <2>1, <2>3, <2>4
  <1>14. ConnectionInOrder'
    <2>1. ~closed
      BY <1>1, <1>3 DEF SInv, ConnectionInOrder
    <2>2. /\ reader.type # "DATA" /\ (tool.pc = "open" => tool.out = <<>>)
          /\ tool.pc \in {"read", "wait"} =>
               /\ Behind(tool.out, Len(tool.out)) = Seen
               /\ EndFrom(f, bson_reader_tell(reader)) = o
      BY <1>3, <1>4, <1>5 DEF SInv, ConnectionInOrder
    <2>3. tool.pc \in {"read", "wait"} => EndFrom(ff, bson_reader_tell(reader)) = oo
      BY <1>12, <2>2
    <2>4. Seen' = Seen
      BY <1>2 DEF Seen, Pending
    <2> QED  BY <1>1, <1>2, <1>3, <1>4, <1>5, <1>11, <1>13, <2>1, <2>2, <2>3, <2>4
             DEF ConnectionInOrder
  <1>15. (ToolInOrder /\ MeasuresInOrder)'
    <2>1. ToolInOrder /\ MeasuresInOrder
      BY DEF SInv
    <2> QED  BY <1>2, <2>1 DEF ToolInOrder, MeasuresInOrder, HasAnswer, Seen, Pending
  <1>16. ReaderInOrder(stream', closed', reader')
    BY <1>2 DEF SInv
  <1> QED  BY <1>1, <1>14, <1>15, <1>16 DEF SInv
\* Bytes arrive behind a descriptor: the reader and its last answer stay in order.
LEMMA ArrivesInOrder ==
  ASSUME NEW s \in Seq(Byte), NEW t \in Seq(Byte), NEW r, NEW a \in AnswerType, Begins(s, t),
         ReaderInOrder(s, FALSE, r), r.type # "DATA"
  PROVE  /\ ReaderInOrder(t, FALSE, r)
         /\ Answered(s, FALSE, r, a) => Answered(t, FALSE, r, a)
  <1>1. PICK k \in Nat, l \in Nat, b \in Nat, n \in Nat, p \in Nat, m \in Nat :
          /\ k = Len(s) /\ l = Len(t) /\ b = r.bytes_read /\ n = Len(r.data)
          /\ p = bson_reader_tell(r) /\ m = InBuffer(r)
    <2>1. /\ r.bytes_read \in Nat /\ Len(r.data) \in Nat /\ bson_reader_tell(r) \in Nat
          /\ InBuffer(r) \in Nat
      <3>1. PICK c : ReaderInOrder(s, c, r)
        OBVIOUS
      <3> QED  BY <3>1, BufferIs
    <2>2. Len(s) \in Nat /\ Len(t) \in Nat
      OBVIOUS
    <2> QED  BY <2>1, <2>2, Zenon
  <1>2. k <= l /\ \A i \in 1 .. k : t[i] = s[i]
    BY <1>1 DEF Begins
  <1>3. b <= k /\ n <= b /\ \A i \in 1 .. n : r.data[i] = s[b - n + i]
    BY <1>1 DEF ReaderInOrder, Shows
  <1>4. Shows(t, r)
    <2>1. \A i \in 1 .. n : r.data[i] = t[b - n + i]
      <3> TAKE i \in 1 .. n
      <3>1. b - n + i \in 1 .. k
        BY <1>3
      <3> QED  BY <1>2, <1>3, <3>1
    <2>2. b <= l
      BY <1>2, <1>3
    <2>3. Shows(s, r)
      BY DEF ReaderInOrder
    <2> QED  BY <1>1, <2>1, <2>2, <2>3 DEF Shows
  <1>5. EndInOrder(s, FALSE, r) => EndInOrder(t, FALSE, r)
    BY DEF EndInOrder, AtEnd
  <1>6. ReaderInOrder(t, FALSE, r)
    BY <1>4, <1>5 DEF ReaderInOrder
  <1>7. ASSUME Answered(s, FALSE, r, a)
        PROVE  Answered(t, FALSE, r, a)
    <2>1. a.doc # <<>> =>
            ~a.reached_eof /\ Len(a.doc) <= p /\ a.doc = WholeAt(t, p - Len(a.doc))
      <3> SUFFICES ASSUME a.doc # <<>>
                   PROVE  ~a.reached_eof /\ Len(a.doc) <= p /\ a.doc = WholeAt(t, p - Len(a.doc))
        OBVIOUS
      <3>1. ~a.reached_eof /\ Len(a.doc) <= p /\ a.doc = WholeAt(s, p - Len(a.doc))
        BY <1>1, <1>7 DEF Answered
      <3>2. p - Len(a.doc) \in Nat
        <4>1. Len(a.doc) \in Nat
          BY DEF AnswerType
        <4> QED  BY <3>1, <4>1
      <3> QED  BY <3>1, <3>2, WholeStays
    <2>2. Broken(s, p) => Broken(t, p)
      BY BrokenStays
    <2> QED  BY <1>1, <1>7, <2>1, <2>2 DEF Answered, AtEnd
  <1> QED  BY <1>6, <1>7

LEMMA SendInOrder == SInv /\ Send => SInv'
  <1> SUFFICES ASSUME SInv, Send
               PROVE  SInv'
    OBVIOUS
  <1>1. /\ UNCHANGED <<closed, reader, answer, tool, buf, writer, peer>>
        /\ stream' = FinishedIn(buf, writer) /\ peer # "absent"
        /\ Len(stream) < writer.offset
    BY DEF Send, Finished, FinishedIn, writerVars
  <1>2. tool.name = "streaming"
    BY <1>1 DEF SInv, ConnectionInOrder
  <1>3. /\ stream \in Seq(Byte) /\ stream' \in Seq(Byte) /\ Begins(stream, stream')
        /\ Len(stream') = writer.offset /\ writer.offset \in Nat
    BY <1>1, <1>2, StreamIsWritten
  <1>4. closed = FALSE
    <2>1. Len(stream) # writer.offset
      BY <1>1, <1>3
    <2> QED  BY <1>2, <2>1 DEF SInv, ConnectionInOrder, ReaderInOrder
  <1>5. reader.type # "DATA" /\ answer \in AnswerType
    BY <1>2 DEF SInv, ConnectionInOrder, ToolInOrder
  <1>6. ReaderInOrder(stream', FALSE, reader)
        /\ (Answered(stream, FALSE, reader, answer) => Answered(stream', FALSE, reader, answer))
    BY <1>3, <1>4, <1>5, ArrivesInOrder DEF SInv
  <1>7. ReaderInOrder(stream', closed', reader')
    BY <1>1, <1>4, <1>6
  <1>8. ToolInOrder'
    <2>1. ToolInOrder
      BY DEF SInv
    <2> QED  BY <1>1, <1>4, <1>6, <2>1 DEF ToolInOrder, HasAnswer
  <1>9. MeasuresInOrder'
    <2>1. MeasuresInOrder
      BY DEF SInv
    <2> QED  BY <1>1, <2>1 DEF MeasuresInOrder, Seen, Pending
  <1>10. \A i \in 1 .. Len(stream') : buf[i] = stream'[i]
    <2>1. buf \in Seq(Byte) /\ writer \in Writer /\ writer.offset <= Len(buf)
      <3>1. buf \in Seq(Byte) /\ writer \in Writer /\ writer.offset + writer.b_len <= Len(buf)
            /\ writer.b_len \in Nat
        BY DEF SInv, WriterInOrder, Writer
      <3>2. Len(buf) \in Nat
        BY <3>1
      <3> QED  BY <1>3, <3>1, <3>2
    <2> QED  BY <1>1, <1>3, <2>1, FinishedIs
  <1>11. ConnectionInOrder'
    <2>1. ConnectionInOrder
      BY DEF SInv
    <2>2. writer.offset <= writer.offset
      BY <1>3
    <2>3. Seen' = Seen
      BY <1>1 DEF Seen, Pending
    <2> QED  BY <1>1, <1>2, <1>3, <1>4, <1>10, <2>1, <2>2, <2>3 DEF ConnectionInOrder
  <1>12. WriterInOrder(buf', writer')
    BY <1>1 DEF SInv
  <1> QED  BY <1>7, <1>8, <1>9, <1>11, <1>12 DEF SInv

LEMMA HangUpInOrder == SInv /\ HangUp => SInv'
  <1> SUFFICES ASSUME SInv, HangUp
               PROVE  SInv'
    OBVIOUS
  <1>1. /\ UNCHANGED <<stream, reader, answer, tool, buf, writer, peer>>
        /\ stream = FinishedIn(buf, writer) /\ peer = "stop" /\ closed = FALSE /\ closed' = TRUE
    BY DEF HangUp, Finished, FinishedIn, writerVars, SInv, ReaderInOrder
  <1>2. tool.name = "streaming" /\ reader.type # "DATA"
    BY <1>1 DEF SInv, ConnectionInOrder
  <1>3. Len(stream) = writer.offset
    BY <1>1, <1>2, StreamIsWritten
  <1>4. ReaderInOrder(stream', closed', reader')
    <2>1. ReaderInOrder(stream, FALSE, reader)
      BY <1>1 DEF SInv
    <2>2. EndInOrder(stream, FALSE, reader) => EndInOrder(stream, TRUE, reader)
      BY DEF EndInOrder, AtEnd
    <2> QED  BY <1>1, <1>2, <2>1, <2>2 DEF ReaderInOrder
  <1>5. ToolInOrder'
    <2>1. ToolInOrder
      BY DEF SInv
    <2>2. Answered(stream, FALSE, reader, answer) => Answered(stream, TRUE, reader, answer)
      BY DEF Answered, AtEnd
    <2> QED  BY <1>1, <2>1, <2>2 DEF ToolInOrder, HasAnswer
  <1>6. MeasuresInOrder'
    <2>1. MeasuresInOrder
      BY DEF SInv
    <2> QED  BY <1>1, <2>1 DEF MeasuresInOrder, Seen, Pending
  <1>7. ConnectionInOrder'
    <2>1. ConnectionInOrder
      BY DEF SInv
    <2>2. Seen' = Seen
      BY <1>1 DEF Seen, Pending
    <2> QED  BY <1>1, <1>2, <1>3, <2>1, <2>2 DEF ConnectionInOrder
  <1>8. WriterInOrder(buf', writer')
    BY <1>1 DEF SInv
  <1> QED  BY <1>4, <1>5, <1>6, <1>7, <1>8 DEF SInv
\* Programs without a connection have nothing to do with the writer.
LEMMA NotConnected ==
  ASSUME ConnectionInOrder, tool.name # "streaming", tool'.name = tool.name, peer' = peer
  PROVE  ConnectionInOrder'
  BY DEF ConnectionInOrder

\* What stays when a program takes a step.
LEMMA WriterRests ==
  ASSUME SInv, UNCHANGED <<writerVars, peer>>
  PROVE  WriterInOrder(buf', writer') /\ buf' = buf /\ writer' = writer /\ peer' = peer
  BY DEF SInv, writerVars

LEMMA OpenFileInOrder == SInv /\ OpenFile /\ UNCHANGED <<writerVars, peer>> => SInv'
  <1> SUFFICES ASSUME SInv, OpenFile, UNCHANGED <<writerVars, peer>>
               PROVE  SInv'
    OBVIOUS
  <1>1. WriterInOrder(buf', writer') /\ peer' = peer
    BY WriterRests
  <1>2. /\ ToolInOrder /\ ReaderInOrder(stream, closed, reader) /\ ConnectionInOrder
        /\ tool \in ToolType
    BY DEF SInv, ToolInOrder
  <1>3. tool.pc = "open" /\ tool.name # "streaming" /\ tool.i \in Nat /\ tool.i <= Len(tool.args)
        /\ tool.i > 0
    BY <1>2 DEF OpenFile, HasMore, ToolType
  <1>4. CASE File = NoFile
    <2>1. tool' = [tool EXCEPT !.i = tool.i + 1]
          /\ UNCHANGED <<stream, closed, reader, answer>>
      BY <1>4 DEF OpenFile, Skip, readerVars
    <2>2. tool.i + 1 \in Nat \ {0}
      BY <1>3
    <2>3. tool' \in ToolType /\ tool'.pc = "open" /\ tool'.name = tool.name
      BY <1>2, <1>3, <2>1, <2>2 DEF ToolType
    <2>4. ToolInOrder'
      BY <1>2, <1>3, <2>1, <2>3 DEF ToolInOrder, HasAnswer
    <2>5. MeasuresInOrder'
      BY <2>3 DEF MeasuresInOrder
    <2>6. ConnectionInOrder'
      BY <1>1, <1>2, <1>3, <2>3, NotConnected
    <2> QED  BY <1>1, <1>2, <2>1, <2>4, <2>5, <2>6 DEF SInv
  <1>5. CASE File # NoFile
    <2>1. File \in Seq(Byte)
      <3>1. PICK S : S = {NoFile} \cup Seq(Byte)
        OBVIOUS
      <3>2. tool.args \in Seq(S)
        BY <1>2, <3>1 DEF ToolType
      <3>3. tool.i \in 1 .. Len(tool.args)
        <4>1. Len(tool.args) \in Nat
          BY <3>2
        <4> QED  BY <1>3, <4>1
      <3>4. File \in S
        BY <3>2, <3>3 DEF File
      <3> QED  BY <1>5, <3>1, <3>4
    <2>2. tool' = [tool EXCEPT !.pc = "read", !.docnum = 0, !.mark = 0, !.doc_size_max = 0]
      BY <1>5 DEF OpenFile
    <2>3. /\ ReaderInOrder(stream', closed', reader') /\ bson_reader_tell(reader') = 0
          /\ reader'.type # "NONE" /\ reader'.reading = FALSE /\ answer' = NoAnswer
      <3>1. CASE tool.name = "data"
        <4>1. bson_reader_new_from_data(File)
          BY <1>5, <3>1 DEF OpenFile
        <4> QED  BY <2>1, <4>1, DataInOrder
      <3>2. CASE tool.name # "data"
        <4>1. bson_reader_new_from_fd(File, TRUE)
          BY <1>5, <3>2 DEF OpenFile
        <4>2. PICK c \in BOOLEAN : bson_reader_new_from_fd(File, c)
          BY <4>1
        <4> QED  BY <2>1, <4>2, OpensInOrder
      <3> QED  BY <3>1, <3>2
    <2>4. /\ tool' \in ToolType /\ tool'.pc = "read" /\ tool'.name = tool.name
          /\ tool'.docnum = 0 /\ tool'.mark = 0 /\ tool'.doc_size_max = 0
          /\ tool'.out = tool.out /\ tool'.out \in Seq(Seq(Byte))
      <3>1. 0 \in Nat
        OBVIOUS
      <3> QED  BY <1>2, <2>2, <3>1 DEF ToolType
    <2>5. answer' \in AnswerType
      <3>1. <<>> \in Seq(Byte)
        OBVIOUS
      <3> QED  BY <2>3, <3>1 DEF NoAnswer, Returns, AnswerType
    <2>6. ToolInOrder'
      BY <2>3, <2>4, <2>5 DEF ToolInOrder, HasAnswer
    <2>7. Seen' = 0
      <3>1. Pending' = <<>>
        BY <2>4 DEF Pending
      <3>2. Len(<<>>) = 0
        OBVIOUS
      <3>3. Seen' = bson_reader_tell(reader') - Len(Pending')
        BY DEF Seen
      <3>4. Seen' = 0 - 0
        BY <2>3, <3>1, <3>2, <3>3
      <3> QED  BY <3>4
    <2>8. Largest(tool'.out, 0, 0)
      <3>1. Len(tool'.out) \in Nat
        BY <2>4
      <3>2. Len(tool'.out) - 0 + 1 .. Len(tool'.out) = {}
        BY <3>1
      <3> QED  BY <3>1, <3>2 DEF Largest
    <2>9. MeasuresInOrder'
      BY <2>4, <2>7, <2>8 DEF MeasuresInOrder
    <2>10. ConnectionInOrder'
      BY <1>1, <1>2, <1>3, <2>4, NotConnected
    <2> QED  BY <1>1, <2>3, <2>6, <2>9, <2>10 DEF SInv
  <1> QED  BY <1>4, <1>5

LEMMA ConnectInOrder == SInv /\ Connect /\ UNCHANGED <<writerVars, peer>> => SInv'
  <1> SUFFICES ASSUME SInv, Connect, UNCHANGED <<writerVars, peer>>
               PROVE  SInv'
    OBVIOUS
  <1>1. WriterInOrder(buf', writer') /\ buf' = buf /\ writer' = writer /\ peer' = peer
    BY WriterRests
  <1>2. /\ ToolInOrder /\ ReaderInOrder(stream, closed, reader) /\ ConnectionInOrder
        /\ tool \in ToolType /\ tool.pc = "open" /\ tool.name = "streaming"
        /\ stream \in Seq(Byte) /\ closed \in BOOLEAN
    BY DEF SInv, ToolInOrder, Connect, ReaderInOrder
  <1>3. tool.out = <<>> /\ tool.out \in Seq(Seq(Byte))
    BY <1>2 DEF ConnectionInOrder, ToolType
  <1>4. CASE bson_reader_new_from_fd(stream, closed) /\ tool' = [tool EXCEPT !.pc = "read"]
    <2>1. /\ ReaderInOrder(stream', closed', reader') /\ stream' = stream /\ closed' = closed
          /\ bson_reader_tell(reader') = 0 /\ reader'.type = "HANDLE" /\ reader'.reading = FALSE
          /\ answer' = NoAnswer
      BY <1>2, <1>4, OpensInOrder
    <2>2. tool' \in ToolType /\ tool'.pc = "read" /\ tool'.name = "streaming" /\ tool'.out = <<>>
      BY <1>2, <1>3, <1>4 DEF ToolType
    <2>3. answer' \in AnswerType
      <3>1. <<>> \in Seq(Byte)
        OBVIOUS
      <3> QED  BY <2>1, <3>1 DEF NoAnswer, Returns, AnswerType
    <2>4. ToolInOrder'
      BY <2>1, <2>2, <2>3 DEF ToolInOrder, HasAnswer
    <2>5. MeasuresInOrder'
      BY <2>2 DEF MeasuresInOrder
    <2>6. Seen' = 0
      <3>1. Pending' = <<>>
        BY <2>2 DEF Pending
      <3>2. Len(<<>>) = 0
        OBVIOUS
      <3>3. Seen' = bson_reader_tell(reader') - Len(Pending')
        BY DEF Seen
      <3>4. Seen' = 0 - 0
        BY <2>1, <3>1, <3>2, <3>3
      <3> QED  BY <3>4
    <2>7. Behind(tool'.out, Len(tool'.out)) = 0
      <3>1. Len(tool.out) = 0 /\ 0 \in 0 .. Len(tool.out)
        BY <1>3
      <3>2. Behind(tool.out, 0) = 0
        BY <1>3, <3>1, BehindIs
      <3> QED  BY <1>3, <2>2, <3>1, <3>2
    <2>8. EndFrom(FinishedIn(buf', writer'), bson_reader_tell(reader')) = writer'.offset
      <3>1. EndFrom(FinishedIn(buf, writer), 0) = Len(FinishedIn(buf, writer))
        BY DEF SInv, WriterInOrder
      <3>2. Len(FinishedIn(buf, writer)) = writer.offset
        BY <1>2, StreamIsWritten
      <3> QED  BY <1>1, <2>1, <3>1, <3>2
    <2>9. ConnectionInOrder'
      BY <1>1, <1>2, <1>3, <2>1, <2>2, <2>6, <2>7, <2>8 DEF ConnectionInOrder
    <2> QED  BY <1>1, <2>1, <2>4, <2>5, <2>9 DEF SInv
  <1>5. CASE tool' = [tool EXCEPT !.pc = "done", !.exit = 1] /\ UNCHANGED readerVars
    <2>1. UNCHANGED <<stream, closed, reader, answer>>
      BY <1>5 DEF readerVars
    <2>2. tool' \in ToolType /\ tool'.pc = "done" /\ tool'.name = "streaming"
          /\ tool'.out = tool.out
      BY <1>2, <1>5 DEF ToolType
    <2>3. ToolInOrder'
      BY <1>2, <2>1, <2>2 DEF ToolInOrder, HasAnswer
    <2>4. MeasuresInOrder'
      BY <2>2 DEF MeasuresInOrder
    <2>5. ConnectionInOrder'
      BY <1>1, <1>2, <2>1, <2>2 DEF ConnectionInOrder
    <2> QED  BY <1>1, <1>2, <2>1, <2>3, <2>4, <2>5 DEF SInv
  <1> QED  BY <1>4, <1>5 DEF Connect

LEMMA CallReadInOrder == SInv /\ CallRead /\ UNCHANGED <<writerVars, peer>> => SInv'
  <1> SUFFICES ASSUME SInv, CallRead, UNCHANGED <<writerVars, peer>>
               PROVE  SInv'
    OBVIOUS
  <1>1. WriterInOrder(buf', writer') /\ buf' = buf /\ writer' = writer /\ peer' = peer
    BY WriterRests
  <1>2. /\ ToolInOrder /\ ReaderInOrder(stream, closed, reader) /\ ConnectionInOrder
        /\ MeasuresInOrder /\ tool \in ToolType /\ tool.pc = "read"
        /\ tool' = [tool EXCEPT !.pc = "wait"] /\ reader.type # "NONE"
        /\ reader' = [reader EXCEPT !.reading = TRUE] /\ answer' = NoAnswer
        /\ stream' = stream /\ closed' = closed
    BY DEF SInv, ToolInOrder, CallRead, bson_reader_read
  <1>3. /\ reader' \in ReaderType /\ reader'.type = reader.type /\ reader'.done = reader.done
        /\ reader'.failed = reader.failed /\ reader'.data = reader.data
        /\ reader'.len = reader.len /\ reader'.offset = reader.offset
        /\ reader'.bytes_read = reader.bytes_read /\ reader'.reading = TRUE
    BY <1>2 DEF ReaderInOrder, ReaderType
  <1>4. bson_reader_tell(reader') = bson_reader_tell(reader)
    BY <1>3 DEF bson_reader_tell
  <1>5. ReaderInOrder(stream', closed', reader')
    <2>1. Shows(stream, reader) => Shows(stream, reader')
      BY <1>3 DEF Shows
    <2>2. EndInOrder(stream, closed, reader) => EndInOrder(stream, closed, reader')
      BY <1>3, <1>4 DEF EndInOrder, AtEnd
    <2> QED  BY <1>2, <1>3, <2>1, <2>2 DEF ReaderInOrder, AllThere
  <1>6. tool' \in ToolType /\ tool'.pc = "wait" /\ tool'.name = tool.name /\ tool'.out = tool.out
        /\ tool'.mark = tool.mark /\ tool'.docnum = tool.docnum
        /\ tool'.doc_size_max = tool.doc_size_max
    BY <1>2 DEF ToolType
  <1>7. answer' \in AnswerType /\ answer'.doc = <<>>
    <2>1. <<>> \in Seq(Byte)
      OBVIOUS
    <2> QED  BY <1>2, <2>1 DEF NoAnswer, Returns, AnswerType
  <1>8. ToolInOrder'
    BY <1>2, <1>3, <1>6, <1>7 DEF ToolInOrder, HasAnswer
  <1>9. Seen' = Seen
    <2>1. Pending' = <<>> /\ Pending = <<>>
      BY <1>2, <1>6, <1>7 DEF Pending
    <2> QED  BY <1>4, <2>1 DEF Seen
  <1>10. MeasuresInOrder'
    BY <1>2, <1>6, <1>9 DEF MeasuresInOrder
  <1>11. ConnectionInOrder'
    BY <1>1, <1>2, <1>3, <1>4, <1>6, <1>9 DEF ConnectionInOrder
  <1> QED  BY <1>1, <1>5, <1>8, <1>10, <1>11 DEF SInv
LEMMA ReadingInOrder == SInv /\ Reading /\ UNCHANGED <<writerVars, peer>> => SInv'
  <1> SUFFICES ASSUME SInv, Reading, UNCHANGED <<writerVars, peer>>
               PROVE  SInv'
    OBVIOUS
  <1>1. WriterInOrder(buf', writer') /\ buf' = buf /\ writer' = writer /\ peer' = peer
    BY WriterRests
  <1>2. /\ ToolInOrder /\ ReaderInOrder(stream, closed, reader) /\ ConnectionInOrder
        /\ MeasuresInOrder /\ tool \in ToolType /\ tool.pc = "wait" /\ tool' = tool
    BY DEF SInv, ToolInOrder, Reading
  <1>3. reader.reading /\ answer = NoAnswer /\ answer \in AnswerType
    BY <1>2 DEF ToolInOrder, Reading, ReaderStep, WithoutLength, Incomplete, HandleReturns,
                HandleRejects, HandleEnds, DataReads, HandleReads
  <1>4. PICK p \in Nat : p = bson_reader_tell(reader)
    BY <1>2, BufferIs
  <1>5. Seen = p
    <2>1. Pending = <<>>
      BY <1>2, <1>3 DEF Pending, NoAnswer, Returns
    <2>2. Seen = bson_reader_tell(reader) - Len(Pending)
      BY DEF Seen
    <2>3. Len(Pending) = 0
      BY <2>1
    <2>4. Seen = p - 0
      BY <1>4, <2>2, <2>3
    <2> QED  BY <2>4
  <1>6. CASE WithoutLength \/ Incomplete
    <2>1. /\ ReaderInOrder(stream, closed, reader') /\ SameReader(reader, reader')
          /\ UNCHANGED <<stream, closed, answer>>
      BY <1>2, <1>6, ReadingOn
    <2>2. /\ reader'.type = reader.type /\ reader'.reading = reader.reading
          /\ bson_reader_tell(reader') = bson_reader_tell(reader)
      BY <2>1 DEF SameReader
    <2>3. ToolInOrder'
      BY <1>2, <1>3, <2>1, <2>2 DEF ToolInOrder, HasAnswer
    <2>4. Seen' = Seen
      BY <1>2, <2>1, <2>2 DEF Seen, Pending
    <2>5. MeasuresInOrder'
      BY <1>2, <2>4 DEF MeasuresInOrder
    <2>6. ConnectionInOrder'
      BY <1>1, <1>2, <2>1, <2>2, <2>4 DEF ConnectionInOrder
    <2> QED  BY <1>1, <2>1, <2>3, <2>5, <2>6 DEF SInv
  <1>7. CASE HandleReturns \/ HandleRejects \/ HandleEnds \/ DataReads
    <2>1. /\ ReaderInOrder(stream, closed, reader') /\ UNCHANGED <<stream, closed>>
          /\ reader'.type = reader.type /\ reader'.reading = FALSE
          /\ answer' \in AnswerType /\ Answered(stream, closed, reader', answer')
          /\ bson_reader_tell(reader') = p + Len(answer'.doc)
          /\ answer'.doc # <<>> => answer'.doc = WholeAt(stream, p)
      BY <1>2, <1>4, <1>7, Returning
    <2>2. ToolInOrder'
      BY <1>2, <2>1 DEF ToolInOrder, HasAnswer
    <2>3. PICK d \in Seq(Byte), n \in Nat : d = answer'.doc /\ n = Len(d)
      BY <2>1 DEF AnswerType
    <2>4. Seen' = Seen
      <3>1. Seen' = bson_reader_tell(reader') - Len(Pending') /\ Pending' = d
        BY <1>2, <2>3 DEF Seen, Pending
      <3>2. Seen' = (p + n) - n
        BY <2>1, <2>3, <3>1
      <3> QED  BY <1>5, <3>2
    <2>5. MeasuresInOrder'
      BY <1>2, <2>4 DEF MeasuresInOrder
    <2>6. ASSUME tool.name = "streaming"
          PROVE  EndFrom(FinishedIn(buf, writer), p + n) = writer.offset
      <3>1. EndFrom(FinishedIn(buf, writer), p) = writer.offset
        BY <1>2, <1>4, <2>6 DEF ConnectionInOrder
      <3>2. CASE d = <<>>
        <4>1. p + n = p
          BY <2>3, <3>2
        <4> QED  BY <3>1, <4>1
      <3>3. CASE d # <<>>
        <4>1. PICK f \in Seq(Byte) : f = FinishedIn(buf, writer)
          BY <2>6, StreamIsWritten
        <4>2. /\ stream \in Seq(Byte) /\ Begins(stream, f)
              /\ p \in 0 .. writer.offset /\ Len(f) = writer.offset
          BY <1>4, <2>6, <4>1, StreamIsWritten
        <4>3. WholeAt(stream, p) = d /\ WholeAt(stream, p) # <<>>
          BY <2>1, <2>3, <3>3
        <4>4. WholeAt(f, p) = d
          BY <4>2, <4>3, WholeStays
        <4>5. p \in 0 .. Len(f)
          BY <4>2
        <4>6. EndFrom(f, p) = EndFrom(f, p + n)
          BY <2>3, <3>3, <4>4, <4>5, EndFromIs
        <4> QED  BY <3>1, <4>1, <4>6
      <3> QED  BY <3>2, <3>3
    <2>7. bson_reader_tell(reader') = p + n
      BY <2>1, <2>3
    <2>8. ConnectionInOrder'
      BY <1>1, <1>2, <2>1, <2>4, <2>6, <2>7 DEF ConnectionInOrder
    <2> QED  BY <1>1, <2>1, <2>2, <2>5, <2>8 DEF SInv
  <1> QED  BY <1>6, <1>7 DEF Reading, ReaderStep

LEMMA MaxOfTwo ==
  ASSUME NEW a \in Int, NEW b \in Int
  PROVE  Max({a, b}) \in {a, b} /\ Max({a, b}) >= a /\ Max({a, b}) >= b
  <1>1. \E x \in {a, b} : \A y \in {a, b} : x >= y
    OBVIOUS
  <1> QED  BY <1>1 DEF Max

\* One more document is measured.
LEMMA LargestGrows ==
  ASSUME NEW docs \in Seq(Seq(Byte)), NEW k \in Nat, NEW n \in Nat, Largest(docs, k, n),
         NEW doc \in Seq(Byte)
  PROVE  Largest(Append(docs, doc), k + 1, Max({n, Len(doc)}))
  <1>1. PICK l \in Nat, m \in Nat : l = Len(docs) /\ m = Len(doc) /\ k <= l
    <2>1. Len(docs) \in Nat /\ Len(doc) \in Nat
      OBVIOUS
    <2> QED  BY <2>1 DEF Largest
  <1>2. PICK x \in Int : x = Max({n, m}) /\ x \in {n, m} /\ x >= n /\ x >= m
    <2>1. n \in Int /\ m \in Int
      OBVIOUS
    <2>2. Max({n, m}) \in {n, m} /\ Max({n, m}) >= n /\ Max({n, m}) >= m
      BY <2>1, MaxOfTwo
    <2> QED  BY <2>1, <2>2
  <1>3. PICK more : more = Append(docs, doc)
    OBVIOUS
  <1>4. Len(more) = l + 1 /\ more[l + 1] = doc /\ \A i \in 1 .. l : more[i] = docs[i]
    BY <1>1, <1>3
  <1>5. /\ k = 0 => n = 0
        /\ k > 0 => \E i \in l - k + 1 .. l : n = Len(docs[i])
        /\ \A i \in l - k + 1 .. l : Len(docs[i]) <= n
    BY <1>1 DEF Largest
  <1>6. \E i \in (l + 1) - (k + 1) + 1 .. l + 1 : x = Len(more[i])
    <2>1. CASE x = m
      <3>1. l + 1 \in (l + 1) - (k + 1) + 1 .. l + 1
        OBVIOUS
      <3>2. Len(more[l + 1]) = m
        BY <1>1, <1>4
      <3> QED  BY <2>1, <3>1, <3>2
    <2>2. CASE x # m
      <3>1. x = n /\ n > m
        BY <1>2, <2>2
      <3>2. k > 0
        BY <1>5, <3>1
      <3>3. PICK i \in l - k + 1 .. l : n = Len(docs[i])
        BY <1>5, <3>2
      <3>4. i \in 1 .. l /\ i \in (l + 1) - (k + 1) + 1 .. l + 1
        BY <1>1
      <3>5. Len(more[i]) = n
        BY <1>4, <3>3, <3>4
      <3> QED  BY <3>1, <3>4, <3>5
    <2> QED  BY <2>1, <2>2
  <1>7. ASSUME NEW i \in (l + 1) - (k + 1) + 1 .. l + 1
        PROVE  Len(more[i]) <= x
    <2>1. CASE i = l + 1
      BY <1>1, <1>2, <1>4, <2>1
    <2>2. CASE i # l + 1
      <3>0. k <= l /\ i \in Int
        BY <1>1
      <3>1. i \in 1 .. l /\ i \in l - k + 1 .. l
        BY <2>2, <3>0
      <3>2. Len(more[i]) <= n
        BY <1>4, <1>5, <3>1
      <3>3. docs[i] \in Seq(Byte)
        BY <1>1, <3>1
      <3>4. Len(more[i]) \in Nat
        BY <1>4, <3>1, <3>3
      <3> QED  BY <1>2, <3>2, <3>4
    <2> QED  BY <2>1, <2>2
  <1>8. k + 1 <= l + 1 /\ k + 1 # 0
    BY <1>1
  <1>9. Largest(more, k + 1, x)
    BY <1>4, <1>6, <1>7, <1>8 DEF Largest
  <1> QED  BY <1>1, <1>2, <1>3, <1>9
\* A document that has been given is the next one of what was written.
LEMMA GivenIsNext ==
  ASSUME SInv, HasAnswer, answer.doc # <<>>, tool.name = "streaming"
  PROVE  /\ answer.doc = WholeAt(FinishedIn(buf, writer), Behind(tool.out, Len(tool.out)))
         /\ Behind(tool.out, Len(tool.out)) + Len(answer.doc) = bson_reader_tell(reader)
  <1>1. /\ answer \in AnswerType /\ Answered(stream, closed, reader, answer)
        /\ tool.pc = "wait" /\ Behind(tool.out, Len(tool.out)) = Seen
    BY DEF SInv, ToolInOrder, HasAnswer, ConnectionInOrder
  <1>2. PICK d \in Seq(Byte), n \in Nat : d = answer.doc /\ n = Len(d)
    BY <1>1 DEF AnswerType
  <1>3. PICK p \in Nat : p = bson_reader_tell(reader)
    BY BufferIs DEF SInv
  <1>4. d # <<>> /\ n <= p /\ d = WholeAt(stream, p - n)
    BY <1>1, <1>2, <1>3 DEF Answered
  <1>5. Seen = p - n
    <2>1. Pending = d
      BY <1>1, <1>2 DEF Pending
    <2> QED  BY <1>2, <1>3, <2>1 DEF Seen
  <1>6. PICK f \in Seq(Byte) : f = FinishedIn(buf, writer) /\ Begins(stream, f)
        /\ stream \in Seq(Byte)
    BY StreamIsWritten
  <1>7. p - n \in Nat
    BY <1>4
  <1>8. WholeAt(f, p - n) = d
    BY <1>4, <1>6, <1>7, WholeStays
  <1>9. (p - n) + n = p
    OBVIOUS
  <1> QED  BY <1>1, <1>2, <1>3, <1>5, <1>6, <1>8, <1>9

LEMMA HandleDocumentInOrder == SInv /\ HandleDocument /\ UNCHANGED <<writerVars, peer>> => SInv'
  <1> SUFFICES ASSUME SInv, HandleDocument, UNCHANGED <<writerVars, peer>>
               PROVE  SInv'
    OBVIOUS
  <1>1. WriterInOrder(buf', writer') /\ buf' = buf /\ writer' = writer /\ peer' = peer
    BY WriterRests
  <1>2. /\ ToolInOrder /\ ReaderInOrder(stream, closed, reader) /\ ConnectionInOrder
        /\ MeasuresInOrder /\ tool \in ToolType /\ tool.pc = "wait" /\ HasAnswer
        /\ tool' = Handled(answer.doc) /\ UNCHANGED <<stream, closed, reader, answer>>
        /\ answer \in AnswerType
    BY DEF SInv, ToolInOrder, HandleDocument, HasAnswer, readerVars
  <1>3. Answered(stream, closed, reader, answer) /\ reader.type # "NONE"
        /\ reader.reading = FALSE
    BY <1>2 DEF ToolInOrder, HasAnswer, ReaderInOrder, ReaderType
  <1>4. PICK d \in Seq(Byte), n \in Nat : d = answer.doc /\ n = Len(d) /\ d # <<>>
    BY <1>2 DEF AnswerType, HandleDocument
  <1>5. PICK p \in Nat : p = bson_reader_tell(reader) /\ n <= p
    <2>1. bson_reader_tell(reader) \in Nat
      BY <1>2, BufferIs
    <2> QED  BY <1>3, <1>4, <2>1 DEF Answered
  <1>6. Seen = p - n
    <2>1. Pending = d
      BY <1>2, <1>4 DEF Pending
    <2> QED  BY <1>4, <1>5, <2>1 DEF Seen
  <1>7. PICK t : /\ t \in ToolType /\ t.name = tool.name /\ t.out = tool.out
                 /\ t.docnum = tool.docnum
                 /\ tool' = [t EXCEPT !.docnum = @ + 1, !.out = Append(@, d), !.pc = "read"]
                 /\ tool.name = "metrics" =>
                      t.mark = p /\ t.doc_size_max = Max({tool.doc_size_max, n})
    <2>1. CASE tool.name = "metrics"
      <3>1. tool.mark = p - n /\ tool.doc_size_max \in Nat
        BY <1>2, <1>6, <2>1 DEF MeasuresInOrder, ToolType
      <3>2. PICK m \in Nat : m = Max({tool.doc_size_max, n})
        <4>1. tool.doc_size_max \in Int /\ n \in Int
          BY <3>1
        <4>2. Max({tool.doc_size_max, n}) \in {tool.doc_size_max, n}
          BY <4>1, MaxOfTwo
        <4> QED  BY <3>1, <4>2
      <3>3. PICK t : t = Measured(tool, p)
        OBVIOUS
      <3>4. p - tool.mark = n
        BY <3>1
      <3>5. t = [tool EXCEPT !.doc_size_max = m, !.mark = p]
        BY <1>2, <3>2, <3>3, <3>4 DEF Measured, ToolType
      <3>6. t \in ToolType /\ t.name = tool.name /\ t.out = tool.out /\ t.docnum = tool.docnum
            /\ t.mark = p /\ t.doc_size_max = m
        BY <1>2, <3>5 DEF ToolType
      <3>7. tool' = [t EXCEPT !.docnum = @ + 1, !.out = Append(@, d), !.pc = "read"]
        BY <1>2, <1>4, <1>5, <2>1, <3>3 DEF Handled
      <3> QED  BY <3>2, <3>6, <3>7
    <2>2. CASE tool.name # "metrics"
      BY <1>2, <1>4, <2>2 DEF Handled
    <2> QED  BY <2>1, <2>2
  <1>8. PICK k \in Nat, more \in Seq(Seq(Byte)) :
          k = tool.docnum /\ more = Append(tool.out, d) /\ k + 1 \in Nat
    <2>1. tool.docnum \in Nat /\ tool.out \in Seq(Seq(Byte))
      BY <1>2 DEF ToolType
    <2>2. Append(tool.out, d) \in Seq(Seq(Byte)) /\ tool.docnum + 1 \in Nat
      BY <2>1
    <2> QED  BY <2>1, <2>2
  <1>9. /\ tool' \in ToolType /\ tool'.pc = "read" /\ tool'.name = tool.name
        /\ tool'.out = more /\ tool'.docnum = k + 1 /\ tool'.mark = t.mark
        /\ tool'.doc_size_max = t.doc_size_max
    <2>1. tool' = [t EXCEPT !.docnum = k + 1, !.out = more, !.pc = "read"]
      BY <1>7, <1>8 DEF ToolType
    <2> QED  BY <1>7, <1>8, <2>1 DEF ToolType
  <1>10. ToolInOrder'
    BY <1>2, <1>3, <1>9 DEF ToolInOrder, HasAnswer
  <1>11. Seen' = p
    <2>1. Pending' = <<>> /\ Len(<<>>) = 0
      BY <1>9 DEF Pending
    <2>2. Seen' = bson_reader_tell(reader') - Len(Pending')
      BY DEF Seen
    <2>3. Seen' = p - 0
      BY <1>2, <1>5, <2>1, <2>2
    <2> QED  BY <2>3
  <1>12. MeasuresInOrder'
    <2> SUFFICES ASSUME tool.name = "metrics"
                 PROVE  tool'.mark = Seen' /\ Largest(tool'.out, tool'.docnum, tool'.doc_size_max)
      BY <1>9 DEF MeasuresInOrder
    <2>1. Largest(tool.out, k, tool.doc_size_max)
      BY <1>2, <1>8 DEF MeasuresInOrder
    <2>2. tool.out \in Seq(Seq(Byte)) /\ tool.doc_size_max \in Nat
      BY <1>2 DEF ToolType
    <2>3. Largest(more, k + 1, Max({tool.doc_size_max, n}))
      BY <1>4, <1>8, <2>1, <2>2, LargestGrows
    <2> QED  BY <1>7, <1>9, <1>11, <2>3
  <1>13. ConnectionInOrder'
    <2>1. CASE tool.name # "streaming"
      BY <1>1, <1>2, <1>9, <2>1, NotConnected
    <2>2. CASE tool.name = "streaming"
      <3>1. PICK f : f = FinishedIn(buf, writer)
        OBVIOUS
      <3>2. PICK l \in Nat : l = Len(tool.out) /\ tool.out \in Seq(Seq(Byte))
        BY <1>2 DEF ToolType
      <3>3. d = WholeAt(f, Behind(tool.out, l)) /\ Behind(tool.out, l) + n = p
        BY <1>2, <1>4, <1>5, <2>2, <3>1, <3>2, GivenIsNext
      <3>4. Len(more) = l + 1 /\ more[l + 1] = d /\ \A i \in 1 .. l : more[i] = tool.out[i]
        BY <1>8, <3>2
      <3>5. \A i \in 0 .. l : Behind(more, i) = Behind(tool.out, i)
        BY <1>8, <3>2, BehindSame
      <3>6. FirstOnes(f, more)
        <4> SUFFICES ASSUME NEW i \in 1 .. l + 1
                     PROVE  more[i] # <<>> /\ more[i] = WholeAt(f, Behind(more, i - 1))
          BY <3>4 DEF FirstOnes
        <4>1. Behind(more, i - 1) = Behind(tool.out, i - 1)
          <5>1. i - 1 \in 0 .. l
            OBVIOUS
          <5> QED  BY <3>5, <5>1
        <4>2. CASE i = l + 1
          <5>1. i - 1 = l
            BY <4>2
          <5> QED  BY <1>4, <3>3, <3>4, <4>1, <4>2, <5>1
        <4>3. CASE i # l + 1
          <5>1. i \in 1 .. l
            BY <4>3
          <5>2. tool.out[i] # <<>> /\ tool.out[i] = WholeAt(f, Behind(tool.out, i - 1))
            BY <1>2, <2>2, <3>1, <3>2, <5>1 DEF ConnectionInOrder, FirstOnes
          <5> QED  BY <3>4, <4>1, <5>1, <5>2
        <4> QED  BY <4>2, <4>3
      <3>7. Behind(more, l + 1) = p
        <4>1. l + 1 \in 0 .. Len(more) /\ l + 1 > 0 /\ (l + 1) - 1 = l
          BY <3>4
        <4>2. Behind(more, l + 1) = Behind(more, (l + 1) - 1) + Len(more[l + 1])
          BY <1>8, <4>1, BehindIs
        <4>3. l \in 0 .. l
          OBVIOUS
        <4>4. Behind(more, l + 1) = Behind(tool.out, l) + n
          BY <1>4, <3>4, <3>5, <4>1, <4>2, <4>3
        <4> QED  BY <3>3, <4>4
      <3>8. Behind(tool'.out, Len(tool'.out)) = Seen'
        BY <1>9, <1>11, <3>4, <3>7
      <3> QED  BY <1>1, <1>2, <1>9, <2>2, <3>1, <3>6, <3>8 DEF ConnectionInOrder
    <2> QED  BY <2>1, <2>2
  <1> QED  BY <1>1, <1>2, <1>10, <1>12, <1>13 DEF SInv
\* A program that destroys its reader stays in order.
LEMMA DestroyInOrder ==
  ASSUME SInv, UNCHANGED <<writerVars, peer>>, bson_reader_destroy, tool.pc = "wait",
         tool' \in ToolType, tool'.pc \in {"open", "done"}, tool'.name = tool.name,
         tool'.out = tool.out, tool.name = "streaming" => tool'.pc = "done"
  PROVE  SInv'
  <1>1. WriterInOrder(buf', writer') /\ buf' = buf /\ writer' = writer /\ peer' = peer
    BY WriterRests
  <1>2. /\ ToolInOrder /\ ReaderInOrder(stream, closed, reader) /\ ConnectionInOrder
        /\ reader' = NoReader /\ UNCHANGED <<stream, closed, answer>>
        /\ stream \in Seq(Byte) /\ closed \in BOOLEAN
    BY DEF SInv, bson_reader_destroy, ReaderInOrder
  <1>3. ReaderInOrder(stream', closed', reader')
    <2>1. InitialLen \in Nat /\ InitialLen >= 4
      BY ReaderAssumption
    <2> QED  BY <1>2, <2>1, NewReaderIs
  <1>4. reader'.type = "NONE" /\ reader'.reading = FALSE
    BY <1>2 DEF NoReader, Reader
  <1>5. ToolInOrder'
    BY <1>2, <1>4 DEF ToolInOrder, HasAnswer
  <1>6. MeasuresInOrder'
    BY DEF MeasuresInOrder
  <1>7. ConnectionInOrder'
    BY <1>1, <1>2, <1>4 DEF ConnectionInOrder
  <1> QED  BY <1>1, <1>3, <1>5, <1>6, <1>7 DEF SInv

LEMMA HandleInvalidInOrder == SInv /\ HandleInvalid /\ UNCHANGED <<writerVars, peer>> => SInv'
  <1> SUFFICES ASSUME SInv, HandleInvalid, UNCHANGED <<writerVars, peer>>
               PROVE  SInv'
    OBVIOUS
  <1>1. /\ tool \in ToolType /\ tool.pc = "wait" /\ tool.name = "validate"
        /\ tool.docnum + 1 \in Nat /\ bson_reader_destroy
        /\ tool' = [tool EXCEPT !.docnum = tool.docnum + 1, !.pc = "done", !.exit = 1]
    BY DEF SInv, ToolInOrder, HandleInvalid, HasAnswer, ToolType
  <1>2. tool' \in ToolType /\ tool'.pc = "done" /\ tool'.name = tool.name /\ tool'.out = tool.out
    BY <1>1 DEF ToolType
  <1> QED  BY <1>1, <1>2, DestroyInOrder

LEMMA HandleEndInOrder == SInv /\ HandleEnd /\ UNCHANGED <<writerVars, peer>> => SInv'
  <1> SUFFICES ASSUME SInv, HandleEnd, UNCHANGED <<writerVars, peer>>
               PROVE  SInv'
    OBVIOUS
  <1>1. PICK pc \in {"open", "done"}, i \in Nat \ {0} :
          /\ tool' = [tool EXCEPT !.pc = pc, !.i = i]
          /\ tool.name = "streaming" => pc = "done"
    <2>1. tool.i + 1 \in Nat \ {0}
      BY DEF SInv, ToolInOrder, ToolType
    <2> QED  BY <2>1 DEF HandleEnd
  <1>2. tool \in ToolType /\ tool.pc = "wait" /\ bson_reader_destroy
    BY DEF SInv, ToolInOrder, HandleEnd, HasAnswer
  <1>3. /\ tool' \in ToolType /\ tool'.pc = pc /\ tool'.name = tool.name
        /\ tool'.out = tool.out
    BY <1>1, <1>2 DEF ToolType
  <1> QED  BY <1>1, <1>2, <1>3, DestroyInOrder

LEMMA FinishInOrder == SInv /\ Finish /\ UNCHANGED <<writerVars, peer>> => SInv'
  <1> SUFFICES ASSUME SInv, Finish, UNCHANGED <<writerVars, peer>>
               PROVE  SInv'
    OBVIOUS
  <1>1. WriterInOrder(buf', writer') /\ peer' = peer
    BY WriterRests
  <1>2. /\ ToolInOrder /\ ReaderInOrder(stream, closed, reader) /\ ConnectionInOrder
        /\ tool \in ToolType /\ tool.pc = "open" /\ tool.name # "streaming"
        /\ tool' = [tool EXCEPT !.pc = "done"] /\ UNCHANGED <<stream, closed, reader, answer>>
    BY DEF SInv, ToolInOrder, Finish, readerVars
  <1>3. tool' \in ToolType /\ tool'.pc = "done" /\ tool'.name = tool.name
    BY <1>2 DEF ToolType
  <1>4. ToolInOrder'
    BY <1>2, <1>3 DEF ToolInOrder, HasAnswer
  <1>5. MeasuresInOrder'
    BY <1>3 DEF MeasuresInOrder
  <1>6. ConnectionInOrder'
    BY <1>1, <1>2, <1>3, NotConnected
  <1> QED  BY <1>1, <1>2, <1>4, <1>5, <1>6 DEF SInv

LEMMA RestInOrder == SInv /\ UNCHANGED vars => SInv'
  <1> SUFFICES ASSUME SInv, UNCHANGED vars
               PROVE  SInv'
    OBVIOUS
  <1>1. UNCHANGED <<stream, closed, reader, answer, tool, buf, writer, peer>>
    BY DEF vars, toolVars, readerVars, writerVars
  <1>2. Seen' = Seen
    BY <1>1 DEF Seen, Pending
  <1>3. (WriterInOrder(buf, writer) /\ ReaderInOrder(stream, closed, reader))'
    BY <1>1 DEF SInv
  <1>4. ToolInOrder'
    BY <1>1 DEF SInv, ToolInOrder, HasAnswer
  <1>5. MeasuresInOrder'
    BY <1>1, <1>2 DEF SInv, MeasuresInOrder
  <1>6. ConnectionInOrder'
    BY <1>1, <1>2 DEF SInv, ConnectionInOrder
  <1> QED  BY <1>3, <1>4, <1>5, <1>6 DEF SInv

\* SInv is an inductive invariant.
LEMMA StepInOrder == SInv /\ [Next]_vars => SInv'
  <1> SUFFICES ASSUME SInv, [Next]_vars
               PROVE  SInv'
    OBVIOUS
  <1>1. CASE Write
    BY <1>1, WriteInOrder
  <1>2. CASE Send
    BY <1>2, SendInOrder
  <1>3. CASE HangUp
    BY <1>3, HangUpInOrder
  <1>4. CASE ToolStep
    <2>1. ToolNext /\ UNCHANGED <<writerVars, peer>>
      BY <1>4 DEF ToolStep
    <2> QED  BY <2>1, OpenFileInOrder, ConnectInOrder, CallReadInOrder, ReadingInOrder,
                HandleDocumentInOrder, HandleInvalidInOrder, HandleEndInOrder, FinishInOrder
             DEF ToolNext
  <1>5. CASE UNCHANGED vars
    BY <1>5, RestInOrder
  <1> QED  BY <1>1, <1>2, <1>3, <1>4, <1>5 DEF Next

LEMMA AlwaysInOrder == Spec => []SInv
  BY InitInOrder, StepInOrder, PTL DEF Spec
-----------------------------------------------------------------------------
(* The properties of the runs.                                             *)

\* For every size of the buffers and every way the bytes come in pieces, the reader's
\* buffer is a window on the stream, no index leaves its buffer, the bytes the writer has
\* ended are whole documents and keep to the limit, and nothing behind the writer's buffer
\* is written to but the one byte of bson_writer_begin.
THEOREM BuffersStayInOrder == Spec => []BuffersInOrder
  <1>1. ASSUME SInv, StrayInOrder
        PROVE  BuffersInOrder
    <2>1. /\ reader \in ReaderType /\ Shows(stream, reader) /\ stream \in Seq(Byte)
          /\ closed \in BOOLEAN /\ buf \in Seq(Byte) /\ writer \in Writer
          /\ writer.offset + writer.b_len <= Len(buf) /\ tool \in ToolType
          /\ peer \in {"write", "stop", "absent"}
      BY <1>1 DEF SInv, ReaderInOrder, WriterInOrder, ToolInOrder, ConnectionInOrder
    <2>2. TypeOK
      BY <2>1 DEF TypeOK, ReaderType, ToolType, Shows
    <2>3. Window
      <3>1. PICK n \in Nat, b \in Nat :
              n = Len(reader.data) /\ b = reader.bytes_read /\ reader.data \in Seq(Byte)
        BY <2>1 DEF ReaderType
      <3>2. PICK k \in Nat : k = Len(stream)
        BY <2>1
      <3>3. n <= b /\ b <= k /\ \A i \in 1 .. n : reader.data[i] = stream[b - n + i]
        BY <2>1, <3>1, <3>2 DEF Shows
      <3>4. b - n \in Nat /\ (b - n) + n <= k
        BY <3>3
      <3>5. reader.data = Slice(stream, b - n, Len(reader.data))
        BY <2>1, <3>1, <3>2, <3>3, <3>4, SliceMet
      <3> QED  BY <3>1, <3>3, <3>5 DEF Window
    <2>4. FinishedAreWhole
      BY <1>1 DEF SInv, WriterInOrder, FinishedIn, FinishedAreWhole, Finished
    <2>5. StraysByOne
      <3>1. PICK o \in Nat, n \in Nat : o = writer.offset /\ n = Len(buf)
        BY <2>1 DEF Writer
      <3>2. stray # {} => o = n - 5 \/ o = n
        BY <1>1, <3>1 DEF StrayInOrder
      <3> QED  BY <1>1, <3>1, <3>2 DEF StraysByOne, StrayInOrder
    <2> QED  BY <2>2, <2>3, <2>4, <2>5 DEF BuffersInOrder
  <1>2. SInv => WriterInOrder(buf, writer)
    BY DEF SInv
  <1>3. WriterInOrder(buf, writer) /\ StrayInOrder /\ [Next]_vars => StrayInOrder'
    BY StepStrays
  <1> QED  BY <1>1, <1>2, <1>3, StartStrays, AlwaysInOrder, PTL DEF Spec

\* Once a byte was read, reached_eof tells the end of the stream from an error, however the
\* bytes came in and whether a read failed (_bson_reader_handle_fill_buffer,
\* _bson_reader_data_read).  A first read that fails is told as the end (bson-reader.c:104).
THEOREM NullIsToldApart == Spec => []NullIsEndOrError
  <1>1. ASSUME SInv
        PROVE  NullIsEndOrError
    <2> SUFFICES ASSUME HasAnswer
                 PROVE  NullIsEndOrError
      BY DEF NullIsEndOrError, EofIsTheEnd, NotEofIsAnError
    <2>1. Answered(stream, closed, reader, answer)
      BY <1>1 DEF SInv, ToolInOrder
    <2>2. EofIsTheEnd
      BY <2>1 DEF EofIsTheEnd, Answered, AtEnd
    <2>3. NotEofIsAnError
      <3>1. answer = NoAnswer => answer.doc = <<>> /\ answer.reached_eof = FALSE
        BY DEF NoAnswer, Returns
      <3> QED  BY <2>1, <3>1 DEF NotEofIsAnError, Answered
    <2> QED  BY <2>2, <2>3 DEF NullIsEndOrError
  <1> QED  BY <1>1, AlwaysInOrder, PTL

\* The largest of some sizes is their maximum.
LEMMA LargestIsMax ==
  ASSUME NEW docs \in Seq(Seq(Byte)), NEW k \in Nat, k > 0, NEW n \in Nat, Largest(docs, k, n)
  PROVE  n = Max({Len(docs[i]) : i \in Len(docs) - k + 1 .. Len(docs)})
  <1>1. PICK l \in Nat : l = Len(docs) /\ k <= l
    BY DEF Largest
  <1>2. PICK S : S = {Len(docs[i]) : i \in l - k + 1 .. l}
    OBVIOUS
  <1>3. n \in S
    <2>1. \E i \in l - k + 1 .. l : n = Len(docs[i])
      BY <1>1 DEF Largest
    <2> QED  BY <1>2, <2>1
  <1>4. \A x \in S : x \in Int /\ x <= n
    <2> TAKE x \in S
    <2>1. PICK i \in l - k + 1 .. l : x = Len(docs[i])
      BY <1>2
    <2>2. x <= n
      BY <1>1, <2>1 DEF Largest
    <2>3. i \in 1 .. l
      <3>1. k <= l
        BY <1>1
      <3> QED  BY <3>1
    <2>4. docs[i] \in Seq(Byte)
      BY <1>1, <2>3
    <2> QED  BY <2>1, <2>2, <2>4
  <1>5. PICK m : m = Max(S) /\ m \in S /\ \A x \in S : m >= x
    <2>1. \E m \in S : \A x \in S : m >= x
      BY <1>3, <1>4
    <2> QED  BY <2>1 DEF Max
  <1>6. m = n
    BY <1>3, <1>4, <1>5
  <1> QED  BY <1>1, <1>2, <1>5, <1>6

\* doc_size_max is the size of the largest document, and what the streaming reader puts
\* out is the beginning of what was written, all of it when it is told the end.
THEOREM ToolsStayTrue == Spec => []ToolsTellTheStream
  <1>1. ASSUME SInv
        PROVE  ToolsTellTheStream
    <2>1. tool \in ToolType /\ tool.out \in Seq(Seq(Byte)) /\ tool.docnum \in Nat
          /\ tool.doc_size_max \in Nat
      BY <1>1 DEF SInv, ToolInOrder, ToolType
    <2>2. MaxIsTheLargest
      <3> SUFFICES ASSUME tool.name = "metrics", tool.pc \in {"read", "wait"}, tool.docnum > 0
                   PROVE  tool.doc_size_max =
                            Max({Len(tool.out[i]) :
                                   i \in Len(tool.out) - tool.docnum + 1 .. Len(tool.out)})
        BY DEF MaxIsTheLargest
      <3>1. Largest(tool.out, tool.docnum, tool.doc_size_max)
        BY <1>1 DEF SInv, MeasuresInOrder
      <3> QED  BY <2>1, <3>1, LargestIsMax
    <2>3. ASSUME tool.name = "streaming"
          PROVE  \A i \in DOMAIN tool.out :
                   tool.out[i] # <<>> /\ tool.out[i] = WholeAt(Finished, Behind(tool.out, i - 1))
      <3>1. FirstOnes(Finished, tool.out)
        BY <1>1, <2>3 DEF SInv, ConnectionInOrder, FinishedIn, Finished
      <3>2. DOMAIN tool.out = 1 .. Len(tool.out)
        BY <2>1
      <3> QED  BY <3>1, <3>2 DEF FirstOnes
    <2>4. ASSUME tool.name = "streaming", HasAnswer, answer.reached_eof, reader.bytes_read > 0
          PROVE  Behind(tool.out, Len(tool.out)) = Len(Finished)
      <3>1. /\ Answered(stream, closed, reader, answer) /\ ConnectionInOrder /\ tool.pc = "wait"
            /\ stream \in Seq(Byte)
        BY <1>1, <2>4 DEF SInv, ToolInOrder, HasAnswer, ReaderInOrder
      <3>2. answer.doc = <<>>
        BY <2>4, <3>1 DEF Answered
      <3>3. AtEnd(stream, closed, reader)
        BY <2>4, <3>1, <3>2 DEF Answered
      <3>4. PICK f \in Seq(Byte) : f = Finished
        BY <1>1, <2>4, StreamIsWritten DEF FinishedIn, Finished
      <3>5. PICK p \in Nat : p = bson_reader_tell(reader) /\ p \in 0 .. Len(stream)
        BY <1>1, <2>4, StreamIsWritten
      <3>6. Len(f) = writer.offset /\ Begins(stream, f)
        BY <1>1, <2>4, <3>4, StreamIsWritten DEF FinishedIn, Finished
      <3>7. Len(stream) = Len(f)
        BY <2>4, <3>1, <3>3, <3>6 DEF AtEnd, ConnectionInOrder
      <3>8. stream = f
        BY <3>1, <3>6, <3>7 DEF Begins
      <3>9. WholeAt(f, p) = <<>> /\ p \in 0 .. Len(f)
        BY <3>3, <3>5, <3>8 DEF AtEnd
      <3>10. EndFrom(f, p) = p
        BY <3>9, EndFromIs
      <3>11. EndFrom(f, p) = Len(f) /\ Behind(tool.out, Len(tool.out)) = Seen
        BY <2>4, <3>1, <3>4, <3>5, <3>6 DEF ConnectionInOrder, FinishedIn, Finished
      <3>12. Seen = p
        <4>1. Pending = <<>> /\ Len(<<>>) = 0
          BY <3>1, <3>2 DEF Pending
        <4>2. Seen = bson_reader_tell(reader) - Len(Pending)
          BY DEF Seen
        <4>3. Seen = p - 0
          BY <3>5, <4>1, <4>2
        <4> QED  BY <4>3
      <3> QED  BY <3>4, <3>10, <3>11, <3>12
    <2>5. AllArrives
      BY <2>3, <2>4 DEF AllArrives
    <2> QED  BY <2>2, <2>5 DEF ToolsTellTheStream
  <1> QED  BY <1>1, AlwaysInOrder, PTL
\* No step of either end changes a document that has ended, whether the next one is
\* begun, grown into a larger buffer, written or rolled back.
THEOREM FinishedDocumentsStay == Spec => FinishedStay
  <1> DEFINE Stays == writer'.offset >= writer.offset /\ Slice(buf', 0, writer.offset) = Finished
  <1>1. ASSUME SInv, [Next]_vars
        PROVE  [Stays]_vars
    <2>1. PICK o \in Nat : o = writer.offset /\ buf \in Seq(Byte) /\ writer \in Writer
      BY <1>1 DEF SInv, WriterInOrder, Writer
    <2>2. o <= Len(buf)
      <3>1. writer.b_len \in Nat /\ o + writer.b_len <= Len(buf) /\ Len(buf) \in Nat
        BY <1>1, <2>1 DEF SInv, WriterInOrder, Writer
      <3> QED  BY <3>1
    <2>3. CASE Write
      <3>1. WriterInOrder(buf', writer') /\ Kept(buf, writer, buf', writer')
        BY <1>1, <2>3, WritingKeeps DEF SInv
      <3>2. PICK oo \in Nat : oo = writer'.offset /\ o <= oo /\ buf' \in Seq(Byte)
        BY <2>1, <3>1 DEF Kept, WriterInOrder, Writer
      <3>3. oo <= Len(buf')
        <4>1. writer'.b_len \in Nat /\ oo + writer'.b_len <= Len(buf') /\ Len(buf') \in Nat
          BY <3>1, <3>2 DEF WriterInOrder, Writer
        <4> QED  BY <3>2, <4>1
      <3>4. PICK f \in Seq(Byte) : f = Finished /\ Len(f) = o /\ \A i \in 1 .. o : f[i] = buf[i]
        BY <2>1, <2>2, FinishedIs DEF FinishedIn, Finished
      <3>5. \A i \in 1 .. o : f[i] = buf'[0 + i]
        <4> TAKE i \in 1 .. o
        <4>1. buf'[i] = buf[i]
          BY <2>1, <3>1 DEF Kept
        <4>2. 0 + i = i
          OBVIOUS
        <4> QED  BY <3>4, <4>1, <4>2
      <3>6. 0 + o <= Len(buf')
        BY <3>2, <3>3
      <3>7. f = Slice(buf', 0, Len(f))
        BY <3>2, <3>4, <3>5, <3>6, SliceMet
      <3>8. oo >= o
        BY <3>2
      <3> QED  BY <2>1, <3>2, <3>4, <3>7, <3>8
    <2>4. CASE ~Write
      <3>1. UNCHANGED <<buf, writer>>
        BY <1>1, <2>4 DEF Next, Send, HangUp, ToolStep, vars, writerVars
      <3>2. o >= o
        OBVIOUS
      <3> QED  BY <2>1, <3>1, <3>2 DEF Finished
    <2> QED  BY <2>3, <2>4
  <1>2. [][Stays]_vars => FinishedStay
    BY PTL DEF FinishedStay
  <1> HIDE DEF Stays
  <1> QED  BY <1>1, <1>2, AlwaysInOrder, PTL DEF Spec

\* Every step of the readers and the writer is a step of BsonSource: a reader with its
\* buffer does what a position in the stream does.
LEMMA StepsAsTheSource ==
  ASSUME SInv, [Next]_vars
  PROVE  [Source!Next]_(Source!vars)
  <1> USE DEF Source!vars
  <1>1. ReaderInOrder(stream, closed, reader) /\ ToolInOrder /\ ConnectionInOrder
    BY DEF SInv
  <1>2. CASE UNCHANGED <<stream, reader, answer>>
    <2>1. bson_reader_tell(reader') = bson_reader_tell(reader)
      BY <1>2
    <2> QED  BY <1>2, <2>1
  <1>3. CASE Send
    <2>1. /\ UNCHANGED <<reader, answer>> /\ stream' = FinishedIn(buf, writer)
          /\ tool.name = "streaming"
      BY <1>1, <1>3 DEF Send, Finished, FinishedIn, ConnectionInOrder
    <2>2. PICK s \in Seq(Byte), t \in Seq(Byte) : s = stream /\ t = stream' /\ Begins(s, t)
      BY <2>1, StreamIsWritten
    <2>3. PICK k \in Nat, l \in Nat : k = Len(s) /\ l = Len(t)
      OBVIOUS
    <2>4. k <= l /\ \A i \in 1 .. k : t[i] = s[i]
      BY <2>2, <2>3 DEF Begins
    <2>5. l >= k /\ 0 + k <= l
      BY <2>4
    <2>6. \A i \in 1 .. k : s[i] = t[0 + i]
      <3> TAKE i \in 1 .. k
      <3>1. 0 + i = i
        OBVIOUS
      <3> QED  BY <2>4, <3>1
    <2>7. s = Slice(t, 0, Len(s))
      BY <2>3, <2>5, <2>6, SliceMet
    <2>8. Slice(t, 0, Len(s)) = SubSeq(t, 1, Len(s))
      <3>1. 0 + 1 = 1 /\ 0 + k = k
        OBVIOUS
      <3> QED  BY <2>3, <3>1 DEF Slice
    <2>9. bson_reader_tell(reader') = bson_reader_tell(reader)
      BY <2>1
    <2>10. Source!Arrive
      BY <2>1, <2>2, <2>3, <2>5, <2>7, <2>8, <2>9 DEF Source!Arrive
    <2> QED  BY <2>10 DEF Source!Next
  <1>4. ASSUME reader.type = "NONE", reader'.type # "NONE", bson_reader_tell(reader') = 0,
               answer' = NoAnswer
        PROVE  [Source!Next]_(Source!vars)
    <2>1. answer'.doc = <<>>
      BY <1>4 DEF NoAnswer, Returns
    <2>2. Source!Begin
      BY <1>4, <2>1 DEF Source!Begin
    <2> QED  BY <2>2 DEF Source!Next
  <1>5. CASE OpenFile \/ Connect
    <2>1. CASE UNCHANGED readerVars
      BY <1>2, <2>1 DEF readerVars
    <2>2. CASE bson_reader_new_from_fd(stream, closed)
      <3>1. stream \in Seq(Byte) /\ closed \in BOOLEAN
        BY <1>1 DEF ReaderInOrder
      <3> QED  BY <1>4, <2>2, <3>1, OpensInOrder
    <2>3. CASE OpenFile /\ File # NoFile
      <3>1. File \in Seq(Byte)
        <4>1. PICK S : S = {NoFile} \cup Seq(Byte)
          OBVIOUS
        <4>2. tool.args \in Seq(S) /\ tool.i \in Nat \ {0} /\ tool.i <= Len(tool.args)
          BY <1>1, <2>3, <4>1 DEF ToolInOrder, ToolType, OpenFile, HasMore
        <4>3. tool.i \in 1 .. Len(tool.args)
          <5>1. Len(tool.args) \in Nat
            BY <4>2
          <5> QED  BY <4>2, <5>1
        <4>4. File \in S
          BY <4>2, <4>3 DEF File
        <4> QED  BY <2>3, <4>1, <4>4
      <3>2. CASE bson_reader_new_from_data(File)
        BY <1>4, <3>1, <3>2, DataInOrder
      <3>3. CASE bson_reader_new_from_fd(File, TRUE)
        <4>1. PICK c \in BOOLEAN : bson_reader_new_from_fd(File, c)
          BY <3>3
        <4> QED  BY <1>4, <3>1, <4>1, OpensInOrder
      <3> QED  BY <2>3, <3>2, <3>3 DEF OpenFile
    <2> QED  BY <1>5, <2>1, <2>2, <2>3 DEF OpenFile, Connect
  <1>6. CASE CallRead
    <2>1. /\ reader' = [reader EXCEPT !.reading = TRUE] /\ answer' = NoAnswer
          /\ stream' = stream /\ reader \in ReaderType
      BY <1>1, <1>6 DEF CallRead, bson_reader_read, ReaderInOrder
    <2>2. /\ reader'.type = reader.type /\ reader'.bytes_read = reader.bytes_read
          /\ reader'.data = reader.data /\ reader'.offset = reader.offset
      BY <2>1 DEF ReaderType
    <2>3. bson_reader_tell(reader') = bson_reader_tell(reader) /\ answer'.doc = <<>>
      BY <2>1, <2>2 DEF bson_reader_tell, NoAnswer, Returns
    <2>4. Source!Forget
      BY <2>1, <2>2, <2>3 DEF Source!Forget
    <2> QED  BY <2>4 DEF Source!Next
  <1>7. CASE WithoutLength \/ Incomplete
    <2>1. SameReader(reader, reader') /\ UNCHANGED <<stream, answer>>
      BY <1>1, <1>7, ReadingOn
    <2> QED  BY <2>1 DEF SameReader
  <1>8. CASE HandleReturns \/ HandleRejects \/ HandleEnds \/ DataReads
    <2>1. /\ stream' = stream /\ reader'.type = reader.type /\ answer' \in AnswerType
          /\ bson_reader_tell(reader') = bson_reader_tell(reader) + Len(answer'.doc)
          /\ answer'.doc # <<>> => answer'.doc = WholeAt(stream, bson_reader_tell(reader))
      BY <1>1, <1>8, Returning
    <2>2. CASE answer'.doc # <<>>
      <3>1. reader.type # "NONE"
        BY <1>8 DEF HandleReturns, HandleRejects, HandleEnds, DataReads, HandleReads
      <3>2. Source!Read
        BY <2>1, <2>2, <3>1 DEF Source!Read
      <3> QED  BY <3>2 DEF Source!Next
    <2>3. CASE answer'.doc = <<>>
      <3>1. PICK p \in Nat : p = bson_reader_tell(reader)
        BY <1>1, BufferIs
      <3>2. bson_reader_tell(reader') = p
        <4>1. Len(answer'.doc) = 0 /\ p + 0 = p
          BY <2>3
        <4> QED  BY <2>1, <3>1, <4>1
      <3>3. Source!Forget
        BY <2>1, <2>3, <3>1, <3>2 DEF Source!Forget
      <3> QED  BY <3>3 DEF Source!Next
    <2> QED  BY <2>2, <2>3
  <1>9. CASE bson_reader_destroy
    <2>1. InitialLen \in Nat /\ InitialLen >= 4 /\ stream \in Seq(Byte) /\ closed \in BOOLEAN
      BY <1>1, ReaderAssumption DEF ReaderInOrder
    <2>2. reader' = NoReader /\ UNCHANGED <<stream, answer>> /\ bson_reader_tell(NoReader) = 0
      BY <1>9, <2>1, NewReaderIs DEF bson_reader_destroy
    <2>3. reader'.type = "NONE"
      BY <2>2 DEF NoReader, Reader
    <2>4. Source!End
      BY <2>2, <2>3 DEF Source!End
    <2> QED  BY <2>4 DEF Source!Next
  <1>10. CASE ToolNext
    <2>1. CASE Reading
      BY <1>7, <1>8, <2>1 DEF Reading, ReaderStep
    <2>2. CASE HandleDocument \/ Finish
      BY <1>2, <2>2 DEF HandleDocument, Finish, readerVars
    <2>3. CASE HandleInvalid \/ HandleEnd
      BY <1>9, <2>3 DEF HandleInvalid, HandleEnd
    <2> QED  BY <1>5, <1>6, <1>10, <2>1, <2>2, <2>3 DEF ToolNext
  <1>11. CASE Write \/ HangUp \/ UNCHANGED vars
    BY <1>2, <1>11 DEF Write, HangUp, vars, toolVars, readerVars
  <1> QED  BY <1>3, <1>10, <1>11 DEF Next, ToolStep

\* However the bytes come in and whatever the writer does meanwhile, the reader gives the
\* documents of the stream, whole and in their order: BsonStream implements BsonSource.
THEOREM ReadersReadTheSource == Spec => ReadsTheStream
  <1>1. Init => Source!Init
    <2> SUFFICES ASSUME Init
                 PROVE  Source!Init
      OBVIOUS
    <2>1. stream = <<>> /\ closed = FALSE /\ reader = NoReader /\ answer = NoAnswer
      BY DEF Init, ToolInit
    <2>2. bson_reader_tell(NoReader) = 0
      <3>1. InitialLen \in Nat /\ InitialLen >= 4 /\ <<>> \in Seq(Byte) /\ FALSE \in BOOLEAN
        BY ReaderAssumption
      <3> QED  BY <3>1, NewReaderIs
    <2> QED  BY <2>1, <2>2 DEF Source!Init, NoReader, Reader, NoAnswer, Returns
  <1>2. SInv /\ [Next]_vars => [Source!Next]_(Source!vars)
    BY StepsAsTheSource
  <1> QED  BY <1>1, <1>2, AlwaysInOrder, PTL DEF Spec, ReadsTheStream, Source!Spec
================================================================================
