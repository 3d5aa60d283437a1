----------------------------- MODULE Tojson_proofs -----------------------------
(***************************************************************************)
(* Theorems about Tojson, for every set of files.                          *)
(***************************************************************************)
EXTENDS Tojson, BsonLayout_proofs

LEMMA LoadedFile ==
  ASSUME file \in DOMAIN Images
  PROVE  m \in Buffer
  BY ImagesAssumption DEF m, im, Buffer

\* A text is a sequence of tokens, whatever these are.
Text(s) == \E S : s \in Seq(S)

LEMMA TextOf ==
  ASSUME NEW S, NEW s \in Seq(S)
  PROVE  Text(s)
  BY DEF Text

LEMMA TextsAppended ==
  ASSUME NEW s, NEW t, Text(s), Text(t)
  PROVE  Text(s \o t) /\ Len(s \o t) \in Nat
  <1>1. PICK S : s \in Seq(S)
    BY DEF Text
  <1>2. PICK T : t \in Seq(T)
    BY DEF Text
  <1>3. s \in Seq(S \cup T) /\ t \in Seq(S \cup T)
    BY <1>1, <1>2, SeqMonotonic
  <1>4. s \o t \in Seq(S \cup T)
    BY <1>3, ConcatProperties
  <1> QED  BY <1>4, TextOf, LenProperties

\* What is kept of a text is its first tokens.
LEMMA KeptExactly ==
  ASSUME NEW S, NEW s \in Seq(S)
  PROVE  /\ Kept(s) \in Seq(S) /\ Len(s) \in Nat
         /\ Len(Kept(s)) = IF Len(s) < MaxOut THEN Len(s) ELSE MaxOut
         /\ \A i \in 1 .. Len(Kept(s)) : Kept(s)[i] = s[i]
  <1>1. PICK n \in Nat : n = Len(s) /\ \A i \in 1 .. n : s[i] \in S
    BY LenProperties, ElementOfSeq
  <1> DEFINE k == IF n < MaxOut THEN n ELSE MaxOut
  <1>2. k \in Nat /\ k <= n
    BY MaxOutAssumption
  <1>3. Kept(s) = SubSeq(s, 1, k) /\ k = IF Len(s) < MaxOut THEN Len(s) ELSE MaxOut
    BY <1>1 DEF Kept
  <1> HIDE DEF k
  <1>4. \A i \in 1 .. k : s[i] \in S
    BY <1>1, <1>2
  <1>5. /\ Kept(s) \in Seq(S) /\ Len(Kept(s)) = IF 1 <= k THEN k - 1 + 1 ELSE 0
        /\ \A i \in 1 .. k - 1 + 1 : Kept(s)[i] = s[1 + i - 1]
    BY <1>2, <1>3, <1>4, SubSeqProperties
  <1>6. Len(Kept(s)) = k
    BY <1>2, <1>5
  <1>7. \A i \in 1 .. k : Kept(s)[i] = s[i]
    BY <1>2, <1>5
  <1> QED  BY <1>1, <1>3, <1>5, <1>6, <1>7

LEMMA KeptIs ==
  ASSUME NEW s, Text(s)
  PROVE  Text(Kept(s)) /\ Len(Kept(s)) <= MaxOut
  <1>1. PICK S : s \in Seq(S)
    BY DEF Text
  <1>2. /\ Kept(s) \in Seq(S) /\ Len(s) \in Nat
        /\ Len(Kept(s)) = IF Len(s) < MaxOut THEN Len(s) ELSE MaxOut
    BY <1>1, KeptExactly
  <1>3. Len(Kept(s)) <= MaxOut
    BY <1>2, MaxOutAssumption
  <1> QED  BY <1>2, <1>3, TextOf

-----------------------------------------------------------------------------
(* The stack of activations.                                               *)

Activation == [buffer : Int, more : BOOLEAN, isarray : BOOLEAN]

\* What a call and a return do to it.
LEMMA Pushed ==
  ASSUME NEW S, NEW s \in Seq(S), NEW f \in S
  PROVE  /\ <<f>> \o s \in Seq(S) /\ <<f>> \o s # <<>>
         /\ Len(<<f>> \o s) = Len(s) + 1
         /\ (<<f>> \o s)[1] = f /\ Head(<<f>> \o s) = f
         /\ \A k \in 2 .. Len(s) + 1 : (<<f>> \o s)[k] = s[k - 1]
  <1>1. <<f>> \in Seq(S) /\ Len(<<f>>) = 1 /\ <<f>>[1] = f
    OBVIOUS
  <1>2. Len(s) \in Nat
    BY LenProperties
  <1>3. /\ <<f>> \o s \in Seq(S)
        /\ Len(<<f>> \o s) = 1 + Len(s)
        /\ \A i \in 1 .. 1 + Len(s) : (<<f>> \o s)[i] = IF i <= 1 THEN <<f>>[i] ELSE s[i - 1]
    BY <1>1, ConcatProperties
  <1>4. <<f>> \o s # <<>>
    <2>1. Len(<<f>> \o s) # 0
      BY <1>2, <1>3
    <2> QED  BY <1>3, <2>1, EmptySeq
  <1>5. (<<f>> \o s)[1] = f
    BY <1>1, <1>2, <1>3
  <1>6. Head(<<f>> \o s) = f
    BY <1>3, <1>4, <1>5
  <1>7. \A k \in 2 .. Len(s) + 1 : (<<f>> \o s)[k] = s[k - 1]
    BY <1>2, <1>3
  <1> QED  BY <1>2, <1>3, <1>4, <1>5, <1>6, <1>7

LEMMA Popped ==
  ASSUME NEW S, NEW s \in Seq(S), s # <<>>
  PROVE  /\ Head(s) = s[1] /\ Head(s) \in S /\ Tail(s) \in Seq(S)
         /\ Len(s) \in Nat /\ Len(s) >= 1
         /\ Len(Tail(s)) = Len(s) - 1
         /\ \A k \in 1 .. Len(s) - 1 : Tail(s)[k] = s[k + 1]
  <1>1. Len(s) \in Nat /\ Len(s) # 0
    BY EmptySeq, LenProperties
  <1>2. Head(s) = s[1]
    OBVIOUS
  <1> QED  BY <1>1, <1>2, HeadTailProperties

-----------------------------------------------------------------------------
(* Types.                                                                  *)

TInv == TypeOK /\ Text(out)

LEMMA Prints ==
  ASSUME TInv, NEW t, Text(t), Printf(t)
  PROVE  Len(out)' <= MaxOut /\ Text(out)'
  BY TextsAppended, KeptIs DEF Printf, TInv

LEMMA ShortTexts ==
  /\ Text(<<>>)
  /\ \A x : Text(<<x>>)
  /\ \A x, y : Text(<<x, y>>)
  <1>1. ASSUME NEW x, NEW y
        PROVE  Text(<<>>) /\ Text(<<x>>) /\ Text(<<x, y>>)
    <2>1. <<>> \in Seq({x}) /\ <<x>> \in Seq({x}) /\ <<x, y>> \in Seq({x, y})
      OBVIOUS
    <2> QED  BY <2>1, TextOf
  <1> QED  BY <1>1

LEMMA TInit == Init => TInv
  BY ShortTexts, MaxOutAssumption DEF Init, TInv, TypeOK

LEMMA TNext == TInv /\ [Next]_vars => TInv'
  <1> SUFFICES ASSUME TInv, [Next]_vars
               PROVE  TInv'
    OBVIOUS
  <1>0. /\ m \in Buffer /\ TypeOK /\ Text(out)
        /\ stack \in Seq(Activation)
        /\ stack # <<>> => Top \in Activation /\ here \in Int /\ Tail(stack) \in Seq(Activation)
    <2>1. stack \in Seq(Activation) /\ m \in Buffer
      BY LoadedFile DEF TInv, TypeOK, Activation
    <2>2. ASSUME stack # <<>>
          PROVE  Top \in Activation /\ here \in Int /\ Tail(stack) \in Seq(Activation)
      <3>1. Top \in Activation /\ Tail(stack) \in Seq(Activation)
        BY <2>1, <2>2, HeadTailProperties DEF Top
      <3> QED  BY <3>1 DEF here, Activation
    <2> QED  BY <2>1, <2>2 DEF TInv
  <1>1. CASE Main
    <2>1. opendoc(m, 1, 0) \in Int /\ opendoc_errorno(m, 1, 0) \in {0, ERR_BADSIZEORENDING}
      BY <1>0, OpendocType DEF opendoc_errorno
    <2>2. <<Frame(opendoc(m, 1, 0), FALSE)>> \in Seq(Activation)
          /\ <<Frame(opendoc(m, 1, 0), FALSE)>> # <<>>
      BY <2>1 DEF Frame, Activation
    <2> QED  BY <1>0, <1>1, <2>1, <2>2 DEF Main, TInv, TypeOK, Activation
  <1>2. CASE Enter
    <2>1. Len(out)' <= MaxOut /\ Text(out)'
      BY <1>2, Prints, ShortTexts DEF Enter
    <2> QED  BY <1>0, <1>2, <2>1 DEF Enter, TInv, TypeOK
  <1>3. CASE PrintKey
    <2>1. Text(Separator)
      BY ShortTexts DEF Separator
    <2>2. \A x : Text(Separator \o <<x>>)
      BY <2>1, ShortTexts, TextsAppended
    <2>3. Len(out)' <= MaxOut /\ Text(out)'
      BY <1>0, <1>3, <2>1, <2>2, Prints DEF PrintKey, TypeOK
    <2> QED  BY <1>0, <1>3, <2>3 DEF PrintKey, TInv, TypeOK
  <1>4. CASE PrintValue
    <2>1. Len(out)' <= MaxOut /\ Text(out)'
      BY <1>0, <1>4, Prints, ShortTexts DEF PrintValue, TypeOK
    <2> QED  BY <1>0, <1>4, <2>1 DEF PrintValue, TInv, TypeOK
  <1>5. CASE PrintNested
    <2>1. Inside \in Int /\ opendoc_errorno(m, getvalue(m, here), 0) \in {0, ERR_BADSIZEORENDING}
      BY <1>0, <1>5, GetvalueType, OpendocType DEF opendoc_errorno, Inside, PrintNested, TypeOK
    <2>2. Frame(Inside, gettype(m, here) = BT_ARRAY) \in Activation
      BY <2>1 DEF Frame, Activation
    <2>3. /\ <<Frame(Inside, gettype(m, here) = BT_ARRAY)>> \o stack \in Seq(Activation)
          /\ <<Frame(Inside, gettype(m, here) = BT_ARRAY)>> \o stack # <<>>
      BY <1>0, <2>2, Pushed
    <2> QED  BY <1>0, <1>5, <2>1, <2>3 DEF PrintNested, TInv, TypeOK, Activation
  <1>6. CASE Advance
    <2> DEFINE f == [Top EXCEPT !.buffer = NextPair, !.more = TRUE]
    <2>1. NextPair \in Int /\ stack # <<>>
      BY <1>0, <1>6, NextitemType DEF Advance, TypeOK, NextPair
    <2>2. f \in Activation
      BY <1>0, <2>1 DEF Activation
    <2> HIDE DEF f
    <2>3. <<f>> \o Tail(stack) \in Seq(Activation) /\ <<f>> \o Tail(stack) # <<>>
      BY <1>0, <2>1, <2>2, Pushed
    <2> QED  BY <1>0, <1>6, <2>3 DEF Advance, AfterPair, TInv, TypeOK, Activation, f
  <1>7. CASE Leave
    <2>1. Text(<<Close(Top.isarray)>> \o IF errorno # 0 THEN <<Error(errorno)>> ELSE <<>>)
      BY ShortTexts, TextsAppended
    <2>2. Len(out)' <= MaxOut /\ Text(out)'
      BY <1>7, <2>1, Prints DEF Leave
    <2> QED  BY <1>0, <1>7, <2>2 DEF Leave, ReturnTo, TInv, TypeOK, Activation
  <1>8. CASE UNCHANGED vars
    BY <1>8 DEF vars, TInv, TypeOK
  <1> QED
    BY <1>1, <1>2, <1>3, <1>4, <1>5, <1>6, <1>7, <1>8 DEF Next
-----------------------------------------------------------------------------
(* Where the activations are.  OnTrack is not inductive: it says nothing of  *)
(* the pointer a document is entered with, which is null only if errorno     *)
(* says so, nor of the outermost document, which no pair holds.              *)

\* Whatever the file holds: an error is followed by no token.
Errors == errorno # 0 => pc \in {"exit", "fault"} \/ (pc = "enter" /\ here = NULL)

\* The calls of tojson, as they are nested in one another, in the outermost document.
Nested(img, s) ==
  /\ s # <<>> =>
       /\ 1 \in SealedDocs(img)
       /\ s[Len(s)].buffer \in img.elems[1] \cup {EndOf(img, 1)}
  /\ \A k \in 2 .. Len(s) : InnerOfOuter(img, s[k - 1], s[k])

Track ==
  /\ pc \in {"key", "value", "advance"} => here \in Elems(im)
  /\ pc = "leave" => here \in Ends(im)
  /\ pc = "enter" =>
       here \in Elems(im) \cup Ends(im) \/ (here = NULL /\ errorno = ERR_BADSIZEORENDING)
  /\ pc = "fault" => here = NULL /\ errorno = ERR_BADSIZEORENDING
  /\ Nested(im, stack)

IInv == TInv /\ Errors /\ (Parsed => Track)

LEMMA StackTop ==
  ASSUME TypeOK, pc \in {"enter", "key", "value", "advance", "leave"}
  PROVE  /\ m \in Buffer
         /\ stack \in Seq(Activation) /\ stack # <<>>
         /\ Top = stack[1] /\ Top \in Activation /\ here = Top.buffer /\ here \in Int
         /\ Len(stack) \in Nat /\ Len(stack) >= 1
         /\ Tail(stack) \in Seq(Activation) /\ Len(Tail(stack)) = Len(stack) - 1
         /\ \A k \in 1 .. Len(stack) - 1 : Tail(stack)[k] = stack[k + 1]
  <1>1. m \in Buffer /\ stack \in Seq(Activation) /\ stack # <<>>
    BY LoadedFile DEF TypeOK, Activation
  <1>2. Top = stack[1] /\ Top \in Activation
    BY <1>1, Popped DEF Top
  <1> QED  BY <1>1, <1>2, Popped DEF here, Activation

LEMMA FileStays ==
  ASSUME [Next]_vars
  PROVE  file' = file /\ im' = im /\ m' = m
  BY DEF vars, Next, Main, Enter, PrintKey, PrintValue, PrintNested, Advance, Leave, im, m

LEMMA ParsedImage ==
  ASSUME TypeOK, Parsed
  PROVE  WellFormed(im) /\ m = im.bytes /\ im.bytes \in Buffer
  BY LoadedFile DEF Parsed, ParsedFiles, TypeOK, im, m

LEMMA ErrorsNext ==
  ASSUME TypeOK, Errors, [Next]_vars
  PROVE  Errors'
  <1>1. CASE Main
    BY <1>1 DEF Main, opendoc_errorno, Errors
  <1>2. CASE Enter
    <2>1. m \in Buffer
      BY <1>2, StackTop DEF Enter
    <2>2. NULL \notin DOMAIN m
      BY <2>1 DEF Buffer, NULL
    <2> QED  BY <1>2, <2>2 DEF Enter, Errors
  <1>3. CASE PrintKey \/ PrintValue \/ Advance \/ Leave
    <2>1. errorno = 0 /\ errorno' = errorno
      BY <1>3 DEF PrintKey, PrintValue, Advance, Leave, Errors
    <2> QED  BY <2>1 DEF Errors
  <1>4. CASE PrintNested
    <2>1. CASE Inside = WILD
      BY <1>4, <2>1 DEF PrintNested, Errors
    <2>2. CASE Inside # WILD
      <3>1. stack' = <<Frame(Inside, gettype(m, here) = BT_ARRAY)>> \o stack /\ pc' = "enter"
            /\ errorno' = opendoc_errorno(m, getvalue(m, here), 0)
        BY <1>4, <2>2 DEF PrintNested
      <3>2. stack \in Seq(Activation) /\ Inside \in Int
        BY <1>4, StackTop, GetvalueType, OpendocType DEF PrintNested, Inside
      <3>3. Frame(Inside, gettype(m, here) = BT_ARRAY) \in Activation
        BY <3>2 DEF Frame, Activation
      <3>4. Head(stack') = Frame(Inside, gettype(m, here) = BT_ARRAY)
        BY <3>1, <3>2, <3>3, Pushed
      <3>5. here' = Inside
        BY <3>4 DEF here, Top, Frame
      <3>6. errorno' # 0 => Inside = NULL
        BY <3>1 DEF opendoc_errorno, Inside
      <3> QED  BY <3>1, <3>5, <3>6 DEF Errors
    <2> QED  BY <2>1, <2>2
  <1>5. CASE UNCHANGED vars
    BY <1>5 DEF vars, Errors, here, Top
  <1> QED  BY <1>1, <1>2, <1>3, <1>4, <1>5 DEF Next

USE DEF BT_FLOP64BIT, BT_UTF8STRING, BT_EMBEDEDDOC, BT_ARRAY, BT_BINARYDATA, BT_UNDEFINED,
        BT_OBJECTID, BT_BOOLFALSETRUE, BT_UTCDATETIME, BT_NULLVALUE, BT_JSCODE, BT_SYMBOL,
        BT_INT32BIT, BT_TIMESTAMP, BT_INT64BIT

\* A pair of a parsed file can be printed: its key and its value are in the buffer.
LEMMA PairShown ==
  ASSUME NEW img, WellFormed(img), img.bytes \in Buffer, NEW e \in Elems(img)
  PROVE  /\ HasNul(img.bytes, getkey(e))
         /\ CanShow(img.bytes, gettype(img.bytes, e), getvalue(img.bytes, e))
  <1> DEFINE mm == img.bytes  v == img.val[e]  n == img.next[e]  t == mm[e]
  <1>1. PICK d \in SealedDocs(img) : e \in img.elems[d]
    BY DEF Elems
  <1>2. /\ e \in Int /\ v \in Int /\ n \in Int /\ v \in DOMAIN mm /\ n \in DOMAIN mm
        /\ e \in DOMAIN mm /\ IsNulFrom(mm, e + 1, v - 1) /\ v <= n /\ e + 2 <= v
    BY <1>1, PairShape
  <1>3. getvalue(mm, e) = v /\ gettype(mm, e) = t
    BY <1>1, PairParsed DEF gettype
  <1>4. WellFormedValue(img, e)
    BY <1>1 DEF WellFormed, WellFormedElement
  <1>5. \/ t \in DOMAIN Width /\ n = v + Width[t]
        \/ /\ t \in DOMAIN Uncounted /\ v + 4 <= n
           /\ t \in Strings => v + 4 < n /\ mm[n - 1] = 0
    BY <1>4 DEF WellFormedValue
  <1> HIDE DEF mm, v, n, t
  <1>6. mm \in Buffer
    BY DEF mm
  <1>7. DOMAIN mm = 1 .. Len(mm) /\ Len(mm) \in Nat /\ 1 <= e
    BY <1>2, <1>6 DEF Buffer
  <1>8. HasNul(mm, e + 1)
    BY <1>2, <1>7 DEF HasNul, IsNulFrom
  <1>9. ASSUME t \in DOMAIN Width, n = v + Width[t]
        PROVE  CanShow(mm, t, v)
    <2>1. t = BT_INT32BIT => Width[t] = 4
      BY <1>9 DEF Width
    <2>2. t \in {BT_FLOP64BIT, BT_INT64BIT} => Width[t] = 8
      BY <1>9 DEF Width
    <2>3. t \notin Strings
      BY <1>9 DEF Width, Strings
    <2> QED  BY <1>2, <1>7, <1>9, <2>1, <2>2, <2>3 DEF CanShow, Readable
  <1>10. ASSUME t \in Strings, v + 4 < n, mm[n - 1] = 0
         PROVE  CanShow(mm, t, v)
    <2>1. HasNul(mm, v + 4)
      BY <1>2, <1>6, <1>7, <1>10, NulAhead
    <2> QED  BY <1>2, <1>7, <1>10, <2>1 DEF CanShow, WILD
  <1>11. ASSUME t \in DOMAIN Uncounted, t \notin Strings
         PROVE  CanShow(mm, t, v)
    <2>1. t \notin {BT_INT32BIT, BT_FLOP64BIT, BT_BOOLFALSETRUE, BT_INT64BIT}
      BY <1>11 DEF Uncounted
    <2> QED  BY <1>11, <2>1 DEF CanShow
  <1>12. CanShow(mm, t, v)
    BY <1>5, <1>9, <1>10, <1>11
  <1> QED  BY <1>3, <1>8, <1>12 DEF getkey, mm
-----------------------------------------------------------------------------
(* What a step of the recursion keeps of Nested.                            *)

\* The first pair of a document, or its end.
LEMMA FirstInside ==
  ASSUME NEW img, WellFormed(img), NEW d \in SealedDocs(img)
  PROVE  /\ First(d) \in img.elems[d] \cup {EndOf(img, d)}
         /\ First(d) \in Elems(img) \cup Ends(img)
  <1>1. First(d) \in img.elems[d] \cup {EndOf(img, d)}
    BY DEF WellFormed
  <1> QED  BY <1>1 DEF Elems, Ends

\* A pointer to a pair stays in the document of the pair.
LEMMA NextInside ==
  ASSUME NEW img, WellFormed(img), img.bytes \in Buffer, NEW d \in SealedDocs(img),
         NEW e \in Elems(img), e \in img.elems[d] \cup {EndOf(img, d)}
  PROVE  e \in img.elems[d] /\ img.next[e] \in img.elems[d] \cup {EndOf(img, d)}
  <1>1. img.bytes[e] # 0
    BY ElemStep
  <1>2. e \in img.elems[d]
    BY <1>1 DEF SealedDocs
  <1> QED  BY <1>2, PairShape

LEMMA NestedCall ==
  ASSUME NEW img, NEW s \in Seq(Activation), s # <<>>, Nested(img, s),
         NEW f \in Activation, InnerOfOuter(img, f, s[1])
  PROVE  Nested(img, <<f>> \o s)
  <1> DEFINE t == <<f>> \o s
  <1>1. /\ Len(t) = Len(s) + 1 /\ t[1] = f
        /\ \A k \in 2 .. Len(s) + 1 : t[k] = s[k - 1]
        /\ Len(s) \in Nat /\ Len(s) >= 1
    BY Pushed, Popped
  <1> HIDE DEF t
  <1>2. t[Len(t)] = s[Len(s)]
    BY <1>1
  <1>3. ASSUME NEW k \in 2 .. Len(t)
        PROVE  InnerOfOuter(img, t[k - 1], t[k])
    <2>1. CASE k = 2
      BY <1>1, <2>1
    <2>2. CASE k # 2
      <3>1. k - 1 \in 2 .. Len(s) /\ t[k] = s[k - 1] /\ t[k - 1] = s[(k - 1) - 1]
        BY <1>1, <2>2
      <3> QED  BY <3>1 DEF Nested
    <2> QED  BY <2>1, <2>2
  <1>4. Nested(img, t)
    BY <1>2, <1>3 DEF Nested
  <1> QED  BY <1>4 DEF t

LEMMA NestedReturn ==
  ASSUME NEW img, NEW s \in Seq(Activation), s # <<>>, Nested(img, s)
  PROVE  Nested(img, Tail(s))
  <1> DEFINE t == Tail(s)
  <1>1. /\ Len(t) = Len(s) - 1 /\ t \in Seq(Activation)
        /\ \A k \in 1 .. Len(s) - 1 : t[k] = s[k + 1]
        /\ Len(s) \in Nat /\ Len(s) >= 1
    BY Popped
  <1> HIDE DEF t
  <1>2. t # <<>> => t[Len(t)] = s[Len(s)]
    <2>1. t # <<>> => Len(t) # 0
      BY <1>1, EmptySeq
    <2> QED  BY <1>1, <2>1
  <1>3. ASSUME NEW k \in 2 .. Len(t)
        PROVE  InnerOfOuter(img, t[k - 1], t[k])
    <2>1. k + 1 \in 2 .. Len(s) /\ t[k] = s[k + 1] /\ t[k - 1] = s[(k + 1) - 1]
      BY <1>1
    <2> QED  BY <2>1 DEF Nested
  <1>4. Nested(img, t)
    BY <1>2, <1>3 DEF Nested
  <1> QED  BY <1>4 DEF t

\* Going on in the same document.
LEMMA NestedMove ==
  ASSUME NEW img, WellFormed(img), img.bytes \in Buffer,
         NEW s \in Seq(Activation), s # <<>>, Nested(img, s), s[1].buffer \in Elems(img),
         NEW f \in Activation, f.isarray = s[1].isarray, f.buffer = img.next[s[1].buffer]
  PROVE  Nested(img, <<f>> \o Tail(s))
  <1> DEFINE t == Tail(s)  u == <<f>> \o t
  <1>1. /\ Len(t) = Len(s) - 1 /\ t \in Seq(Activation)
        /\ \A k \in 1 .. Len(s) - 1 : t[k] = s[k + 1]
        /\ Len(s) \in Nat /\ Len(s) >= 1
    BY Popped
  <1> HIDE DEF t
  <1>2. CASE t = <<>>
    <2>1. Len(s) = 1
      BY <1>1, <1>2
    <2>2. /\ 1 \in SealedDocs(img)
          /\ img.next[s[1].buffer] \in img.elems[1] \cup {EndOf(img, 1)}
      BY <2>1, NextInside DEF Nested
    <2>3. u = <<f>>
      BY <1>2
    <2> HIDE DEF u
    <2>4. Len(u) = 1 /\ u[1] = f
      BY <2>3
    <2>5. Nested(img, u)
      BY <2>2, <2>4 DEF Nested
    <2> QED  BY <2>5 DEF u, t
  <1>3. CASE t # <<>>
    <2>1. Len(s) >= 2 /\ t[1] = s[2]
      BY <1>1, <1>3, EmptySeq
    <2>2. InnerOfOuter(img, s[1], s[2])
      BY <1>1, <2>1 DEF Nested
    <2>3. img.val[s[2].buffer] \in SealedDocs(img)
      <3>1. s[1].buffer # NULL
        BY ElemStep DEF NULL
      <3> QED  BY <2>2, <3>1 DEF InnerOfOuter
    <2>4. InnerOfOuter(img, f, t[1])
      BY <2>1, <2>2, <2>3, NextInside DEF InnerOfOuter
    <2>5. Nested(img, t)
      BY NestedReturn DEF t
    <2>6. Nested(img, u)
      BY <1>1, <1>3, <2>4, <2>5, NestedCall
    <2> QED  BY <2>6 DEF t
  <1> QED  BY <1>2, <1>3

LEMMA TrackInit == Init => Track
  BY DEF Init, Track, Nested

LEMMA TrackNext ==
  ASSUME TypeOK, Parsed, Track, [Next]_vars
  PROVE  Track'
  <1>0. /\ WellFormed(im) /\ m = im.bytes /\ im.bytes \in Buffer
        /\ im' = im /\ m' = m
    BY ParsedImage, FileStays
  <1>1. CASE Main
    <2>1. 1 \in im.docs
      BY <1>0 DEF WellFormed
    <2>2. opendoc(m, 1, 0) = IF 1 \in SealedDocs(im) THEN First(1) ELSE NULL
      BY <1>0, <2>1, OpendocOfDoc
    <2>3. opendoc(m, 1, 0) # WILD
      BY <2>2 DEF First, NULL, WILD
    <2>4. CASE opendoc(m, 1, 0) = NULL
      BY <1>0, <1>1, <2>3, <2>4 DEF Main, Track
    <2>5. CASE opendoc(m, 1, 0) # NULL
      <3>1. 1 \in SealedDocs(im) /\ opendoc(m, 1, 0) = First(1)
        BY <2>2, <2>5
      <3>2. stack' = <<Frame(First(1), FALSE)>> /\ pc' = "enter"
        BY <1>1, <2>3, <2>5, <3>1 DEF Main
      <3>3. /\ Len(stack') = 1 /\ stack'[1].buffer = First(1)
            /\ Head(stack').buffer = First(1)
        BY <3>2 DEF Frame
      <3>4. Nested(im, stack')
        BY <1>0, <3>1, <3>3, FirstInside DEF Nested
      <3> QED  BY <1>0, <3>1, <3>2, <3>3, <3>4, FirstInside DEF Track, here, Top
    <2> QED  BY <2>4, <2>5
  <1>2. CASE Enter
    <2>1. here' = here /\ stack' = stack /\ errorno' = errorno
      BY <1>2 DEF Enter, here, Top
    <2>2. NULL \notin DOMAIN m
      BY <1>0 DEF Buffer, NULL
    <2>3. CASE here \in Elems(im)
      BY <1>0, <1>2, <2>1, <2>3, ElemStep DEF Enter, Track
    <2>4. CASE here \in Ends(im)
      BY <1>0, <1>2, <2>1, <2>4, EndIsZero DEF Enter, Track
    <2>5. CASE here = NULL /\ errorno = ERR_BADSIZEORENDING
      BY <1>0, <1>2, <2>1, <2>2, <2>5 DEF Enter, Track
    <2> QED  BY <1>2, <2>3, <2>4, <2>5 DEF Enter, Track
  <1>3. CASE PrintKey \/ PrintValue
    <2>1. here' = here /\ stack' = stack /\ errorno' = errorno
      BY <1>3 DEF PrintKey, PrintValue, here, Top
    <2>2. here \in Elems(im)
      BY <1>3 DEF PrintKey, PrintValue, Track
    <2>3. HasNul(m, getkey(here)) /\ CanShow(m, gettype(m, here), getvalue(m, here))
      BY <1>0, <2>2, PairShown
    <2>4. pc' \in {"value", "advance"}
      BY <1>3, <2>3 DEF PrintKey, PrintValue
    <2> QED  BY <1>0, <2>1, <2>2, <2>4 DEF Track
  <1>4. CASE PrintNested
    <2> DEFINE f == Frame(Inside, gettype(m, here) = BT_ARRAY)
    <2>0. /\ stack \in Seq(Activation) /\ stack # <<>> /\ here = stack[1].buffer
          /\ here \in Elems(im) /\ gettype(m, here) \in Containers /\ Nested(im, stack)
      BY <1>4, StackTop DEF PrintNested, Track
    <2>1. /\ im.val[here] \in im.docs
          /\ Inside = IF im.val[here] \in SealedDocs(im) THEN First(im.val[here]) ELSE NULL
      BY <1>0, <2>0, ElemOpens DEF Inside, gettype
    <2>2. Inside \in Int /\ Inside # WILD
      BY <1>0, <2>1, DocShape DEF First, NULL, WILD
    <2>3. stack' = <<f>> \o stack /\ pc' = "enter"
          /\ errorno' = IF Inside = NULL THEN ERR_BADSIZEORENDING ELSE 0
      BY <1>4, <2>2 DEF PrintNested, opendoc_errorno, Inside
    <2>4. f \in Activation /\ f.buffer = Inside /\ f.isarray = (gettype(m, here) = BT_ARRAY)
      BY <2>2 DEF Frame, Activation
    <2> HIDE DEF f
    <2>5. InnerOfOuter(im, f, stack[1])
      <3>1. im.bytes[here] = IF f.isarray THEN BT_ARRAY ELSE BT_EMBEDEDDOC
        BY <1>0, <2>0, <2>4 DEF gettype, Containers
      <3>2. f.buffer \in IF im.val[here] \in SealedDocs(im)
                         THEN im.elems[im.val[here]] \cup {EndOf(im, im.val[here])} ELSE {NULL}
        BY <1>0, <2>1, <2>4, FirstInside
      <3> QED  BY <2>0, <3>1, <3>2 DEF InnerOfOuter
    <2>6. Nested(im, stack')
      BY <2>0, <2>3, <2>4, <2>5, NestedCall
    <2>7. here' = Inside
      BY <2>0, <2>3, <2>4, Pushed DEF here, Top
    <2>8. Inside \in Elems(im) \cup Ends(im) \/ (Inside = NULL /\ errorno' = ERR_BADSIZEORENDING)
      BY <1>0, <2>1, <2>3, FirstInside
    <2> QED  BY <1>0, <2>3, <2>6, <2>7, <2>8 DEF Track
  <1>5. CASE Advance
    <2> DEFINE f == [Top EXCEPT !.buffer = NextPair, !.more = TRUE]
    <2>0. /\ stack \in Seq(Activation) /\ stack # <<>> /\ here = stack[1].buffer
          /\ Top = stack[1] /\ Top \in Activation
          /\ here \in Elems(im) /\ Nested(im, stack)
      BY <1>5, StackTop DEF Advance, Track
    <2>1. /\ NextPair = im.next[here] /\ NextPair \in DOMAIN m /\ NextPair \in Int
          /\ NextPair \in Elems(im) \cup Ends(im)
      BY <1>0, <2>0, ElemStep DEF NextPair
    <2>2. stack' = <<f>> \o Tail(stack) /\ pc' = AfterPair(NextPair)
      BY <1>5, <2>1 DEF Advance
    <2>3. f \in Activation /\ f.isarray = stack[1].isarray /\ f.buffer = im.next[stack[1].buffer]
      BY <2>0, <2>1 DEF Activation
    <2> HIDE DEF f
    <2>4. Nested(im, stack')
      BY <1>0, <2>0, <2>2, <2>3, NestedMove
    <2>5. here' = NextPair
      BY <2>0, <2>1, <2>2, <2>3, Popped, Pushed DEF here, Top
    <2>6. /\ m[NextPair] = 0 => NextPair \in Ends(im)
          /\ m[NextPair] # 0 => NextPair \in Elems(im)
      BY <1>0, <2>1, ElemStep, EndIsZero
    <2> QED  BY <1>0, <2>2, <2>4, <2>5, <2>6 DEF Track, AfterPair
  <1>6. CASE Leave
    <2>0. /\ stack \in Seq(Activation) /\ stack # <<>> /\ Nested(im, stack)
          /\ stack' = Tail(stack) /\ pc' = ReturnTo(Tail(stack))
          /\ Tail(stack) \in Seq(Activation)
      BY <1>6, StackTop DEF Leave, Track
    <2>1. Nested(im, stack')
      BY <2>0, NestedReturn
    <2>2. CASE Tail(stack) = <<>>
      BY <1>0, <2>0, <2>1, <2>2 DEF ReturnTo, Track
    <2>3. CASE Tail(stack) # <<>>
      <3>1. here' = Tail(stack)[1].buffer
        BY <2>0, <2>3, Popped DEF here, Top
      <3>2. Len(stack) >= 2 /\ Tail(stack)[1] = stack[2] /\ Len(stack) \in Nat
        <4>1. Len(Tail(stack)) # 0
          BY <2>0, <2>3, EmptySeq
        <4>2. /\ Len(stack) \in Nat /\ Len(stack) >= 1 /\ Len(Tail(stack)) = Len(stack) - 1
              /\ \A k \in 1 .. Len(stack) - 1 : Tail(stack)[k] = stack[k + 1]
          BY <2>0, Popped
        <4>3. PICK n \in Nat : n = Len(stack)
          BY <4>2
        <4>4. n >= 2
          BY <4>1, <4>2, <4>3
        <4>5. 1 \in 1 .. Len(stack) - 1
          BY <4>3, <4>4
        <4> QED  BY <4>2, <4>3, <4>4, <4>5
      <3>3. stack[2].buffer \in Elems(im)
        <4>1. 2 \in 2 .. Len(stack)
          BY <3>2
        <4> QED  BY <2>0, <4>1 DEF Nested, InnerOfOuter
      <3> QED  BY <1>0, <2>0, <2>1, <2>3, <3>1, <3>2, <3>3 DEF ReturnTo, Track
    <2> QED  BY <2>2, <2>3
  <1>7. CASE UNCHANGED vars
    BY <1>0, <1>7 DEF vars, Track, here, Top
  <1> QED
    BY <1>1, <1>2, <1>3, <1>4, <1>5, <1>6, <1>7 DEF Next
-----------------------------------------------------------------------------
(* The depth of the recursion.                                             *)

\* Between the length field of a document and its end is room for a pair or none.
LEMMA DocFits ==
  ASSUME NEW img, WellFormed(img), img.bytes \in Buffer, NEW d \in img.docs,
         d \in SealedDocs(img) \/ Int32At(img.bytes, d) >= 4
  PROVE  d + 4 <= EndOf(img, d)
  <1>1. d \in Int /\ EndOf(img, d) \in Int /\ Readable(img.bytes, d, 4)
    BY DocShape
  <1>2. ASSUME d \in SealedDocs(img)
        PROVE  d + 4 <= EndOf(img, d)
    <2>1. First(d) \in img.elems[d] \cup {EndOf(img, d)}
      BY <1>2, FirstInside
    <2>2. CASE First(d) \in img.elems[d]
      <3>1. /\ First(d) \in Int /\ img.val[First(d)] \in Int /\ img.next[First(d)] \in Int
            /\ First(d) + 2 <= img.val[First(d)]
            /\ img.val[First(d)] <= img.next[First(d)]
            /\ img.next[First(d)] <= EndOf(img, d)
        BY <1>2, <2>2, PairShape
      <3> QED  BY <1>1, <3>1 DEF First
    <2> QED  BY <1>1, <2>1, <2>2 DEF First
  <1>3. CASE Int32At(img.bytes, d) = 4
    <2>1. EndOf(img, d) = d + 3
      BY <1>1, <1>3 DEF EndOf
    <2>2. \A i \in {d, d + 1, d + 2, d + 3} : i \in DOMAIN img.bytes
      BY <1>1 DEF Readable, Buffer
    <2>3. PICK a, b, c, z \in Byte :
            a = img.bytes[d] /\ b = img.bytes[d + 1] /\ c = img.bytes[d + 2] /\ z = img.bytes[d + 3]
      BY <2>2 DEF Buffer
    <2>4. /\ a \in Int /\ 0 <= a /\ b \in Int /\ 0 <= b /\ c \in Int /\ 0 <= c
          /\ z \in Int /\ 0 <= z /\ z <= 255 /\ a <= 255 /\ b <= 255 /\ c <= 255
      BY DEF Byte
    <2>5. a + 256 * b + 65536 * c + 16777216 * (IF z < 128 THEN z ELSE z - 256) = 4
      BY <1>3, <2>3 DEF Int32At
    <2>6. z = 0
      BY <2>4, <2>5
    <2>7. img.bytes[d + 3] = 0
      BY <2>3, <2>6
    <2>8. d \in SealedDocs(img)
      BY <2>1, <2>7 DEF SealedDocs
    <2> QED  BY <1>2, <2>8
  <1>4. Int32At(img.bytes, d) \in Int
    BY <1>1, Int32AtType
  <1>5. CASE Int32At(img.bytes, d) > 4
    BY <1>1, <1>4, <1>5 DEF EndOf
  <1> QED  BY <1>2, <1>3, <1>4, <1>5

\* A document inside a pair: it begins after the type byte, the key and the length of the
\* one the pair is in, and ends before that one does.
LEMMA DocInDoc ==
  ASSUME NEW img, WellFormed(img), img.bytes \in Buffer, NEW d \in SealedDocs(img),
         NEW e \in img.elems[d], img.bytes[e] \in Containers
  PROVE  /\ img.val[e] \in img.docs /\ d + 6 <= img.val[e]
         /\ EndOf(img, img.val[e]) + 1 <= EndOf(img, d)
         /\ Int32At(img.bytes, img.val[e]) >= 4
  <1> DEFINE v == img.val[e]  n == img.next[e]
  <1>1. /\ d \in Int /\ e \in Int /\ v \in Int /\ n \in Int /\ EndOf(img, d) \in Int
        /\ d + 4 <= e /\ e + 2 <= v /\ n <= EndOf(img, d)
    BY PairShape DEF First
  <1>2. v \in img.docs
    BY NestedDoc
  <1>3. Int32At(img.bytes, v) \in Int
    BY <1>2, DocShape, Int32AtType
  <1>4. v + 4 <= n /\ n = v + Int32At(img.bytes, v)
    <2>1. WellFormedValue(img, e)
      BY DEF WellFormed, WellFormedElement
    <2>2. img.bytes[e] \notin DOMAIN Width
      BY DEF Containers, Width
    <2>3. Uncounted[img.bytes[e]] = 0
      BY DEF Containers, Uncounted
    <2> QED  BY <1>1, <1>3, <2>1, <2>2, <2>3 DEF WellFormedValue
  <1> HIDE DEF v, n
  <1>5. EndOf(img, v) = n - 1
    BY <1>1, <1>3, <1>4 DEF EndOf
  <1>6. Int32At(img.bytes, v) >= 4
    BY <1>1, <1>3, <1>4
  <1>7. d + 6 <= v /\ EndOf(img, v) + 1 <= EndOf(img, d)
    BY <1>1, <1>5
  <1> QED  BY <1>2, <1>6, <1>7 DEF v

LEMMA NestedFits ==
  ASSUME NEW img, WellFormed(img), img.bytes \in Buffer,
         NEW s \in Seq(Activation), s # <<>>, Nested(img, s)
  PROVE  7 * Len(s) - 2 <= Len(img.bytes)
  <1>1. PICK n \in Nat : n = Len(s) /\ n >= 1
    BY Popped
  <1>2. PICK len \in Nat : len = Len(img.bytes)
    BY DEF Buffer
  <1> DEFINE DocAt(k) == IF k = n THEN 1 ELSE img.val[s[k + 1].buffer]
             Fits(k) == /\ DocAt(k) \in img.docs /\ 1 + 6 * (n - k) <= DocAt(k)
                        /\ EndOf(img, DocAt(k)) <= len - (n - k)
                        /\ DocAt(k) \in SealedDocs(img) \/ Int32At(img.bytes, DocAt(k)) >= 4
             T == {k \in 1 .. n : Fits(k)}
  <1>3. \A k \in 1 .. n : DocAt(k) \in SealedDocs(img) =>
          s[k].buffer \in img.elems[DocAt(k)] \cup {EndOf(img, DocAt(k))}
    <2> SUFFICES ASSUME NEW k \in 1 .. n, DocAt(k) \in SealedDocs(img)
                 PROVE  s[k].buffer \in img.elems[DocAt(k)] \cup {EndOf(img, DocAt(k))}
      OBVIOUS
    <2>1. CASE k = n
      BY <1>1, <2>1 DEF Nested
    <2>2. CASE k # n
      <3>1. k + 1 \in 2 .. Len(s) /\ (k + 1) - 1 = k
        BY <1>1, <2>2
      <3>2. InnerOfOuter(img, s[k], s[k + 1])
        BY <3>1 DEF Nested
      <3> QED  BY <2>2, <3>2 DEF InnerOfOuter
    <2> QED  BY <2>1, <2>2
  <1>4. Fits(n)
    <2>1. 1 \in SealedDocs(img) /\ 1 \in img.docs /\ EndOf(img, 1) = len
      BY <1>2 DEF Nested, WellFormed
    <2> QED  BY <1>2, <2>1
  <1>5. ASSUME NEW k \in 1 .. n - 1, Fits(k + 1)
        PROVE  Fits(k)
    <2> DEFINE e == s[k + 1].buffer  d == DocAt(k + 1)
    <2>1. InnerOfOuter(img, s[k], s[k + 1])
      <3>1. k + 1 \in 2 .. Len(s) /\ (k + 1) - 1 = k
        BY <1>1
      <3> QED  BY <3>1 DEF Nested
    <2>2. e \in Elems(img) /\ img.bytes[e] \in Containers
      BY <2>1 DEF InnerOfOuter, Containers
    <2>3. d \in SealedDocs(img)
      <3>1. CASE k + 1 = n
        BY <3>1 DEF Nested
      <3>2. CASE k + 1 # n
        <4>1. k + 2 \in 2 .. Len(s) /\ (k + 2) - 1 = k + 1 /\ (k + 1) + 1 = k + 2
          BY <1>1, <3>2
        <4>2. InnerOfOuter(img, s[k + 1], s[k + 2])
          BY <4>1 DEF Nested
        <4>3. e # NULL
          BY <2>2, ElemStep DEF NULL
        <4> QED  BY <3>2, <4>1, <4>2, <4>3 DEF InnerOfOuter
      <3> QED  BY <3>1, <3>2
    <2>4. e \in img.elems[d]
      <3>1. k + 1 \in 1 .. n
        OBVIOUS
      <3>2. e \in img.elems[d] \cup {EndOf(img, d)}
        BY <1>3, <2>3, <3>1
      <3> QED  BY <2>2, <2>3, <3>2, NextInside
    <2>5. DocAt(k) = img.val[e]
      OBVIOUS
    <2>6. d \in img.docs /\ 1 + 6 * (n - (k + 1)) <= d /\ EndOf(img, d) <= len - (n - (k + 1))
      BY <1>5
    <2> HIDE DEF d, e, DocAt
    <2>7. /\ img.val[e] \in img.docs /\ d + 6 <= img.val[e]
          /\ EndOf(img, img.val[e]) + 1 <= EndOf(img, d)
          /\ Int32At(img.bytes, img.val[e]) >= 4
      BY <2>2, <2>3, <2>4, DocInDoc
    <2>8. d \in Int /\ EndOf(img, d) \in Int /\ img.val[e] \in Int /\ EndOf(img, img.val[e]) \in Int
      BY <2>6, <2>7, DocShape
    <2>9. 1 + 6 * (n - k) <= img.val[e] /\ EndOf(img, img.val[e]) <= len - (n - k)
      BY <2>6, <2>7, <2>8
    <2> QED  BY <2>5, <2>7, <2>9
  <1>6. 1 \in T
    <2> HIDE DEF Fits
    <2>1. n \in T /\ \A i \in 1 .. n - 1 : i + 1 \in T => i \in T
      BY <1>1, <1>4, <1>5
    <2> HIDE DEF T
    <2>2. n \in Int /\ 1 \in Int
      OBVIOUS
    <2>3. 1 .. n \subseteq T
      BY <2>1, <2>2, DownFrom
    <2> QED  BY <1>1, <2>3
  <1>7. Fits(1)
    BY <1>6
  <1> HIDE DEF DocAt
  <1>8. /\ DocAt(1) + 4 <= EndOf(img, DocAt(1))
        /\ DocAt(1) \in Int /\ EndOf(img, DocAt(1)) \in Int
    BY <1>7, DocFits, DocShape
  <1> QED  BY <1>1, <1>2, <1>7, <1>8

-----------------------------------------------------------------------------

LEMMA IInvInit == Init => IInv
  BY TInit, TrackInit DEF IInv, Init, Errors

LEMMA IInvNext == IInv /\ [Next]_vars => IInv'
  <1> SUFFICES ASSUME IInv, [Next]_vars
               PROVE  IInv'
    OBVIOUS
  <1>1. TInv' /\ Errors'
    BY TNext, ErrorsNext DEF IInv, TInv
  <1>2. Parsed' => Track'
    BY FileStays, TrackNext DEF IInv, TInv, Parsed
  <1> QED  BY <1>1, <1>2 DEF IInv

LEMMA IInvImplies == IInv => StaysOnTrack
  <1> SUFFICES ASSUME IInv
               PROVE  StaysOnTrack
    OBVIOUS
  <1>1. TypeOK
    BY DEF IInv, TInv
  <1>2. OnTrack /\ FaultOnlyAfterFailedOpen
    BY DEF IInv, Track, Nested, OnTrack, FaultOnlyAfterFailedOpen
  <1>3. ErrorBranchUnreachable
    BY DEF IInv, Errors, ErrorBranchUnreachable
  <1>4. ASSUME Parsed
        PROVE  7 * Len(stack) - 2 <= Len(m)
    <2>1. WellFormed(im) /\ m = im.bytes /\ im.bytes \in Buffer /\ Nested(im, stack)
      BY <1>1, <1>4, ParsedImage DEF IInv, Track
    <2>2. CASE stack = <<>>
      BY <2>1, <2>2 DEF Buffer
    <2>3. CASE stack # <<>>
      BY <1>1, <2>1, <2>3, NestedFits DEF TypeOK, Activation
    <2> QED  BY <2>2, <2>3
  <1> QED  BY <1>1, <1>2, <1>3, <1>4 DEF StaysOnTrack, StackBounded

\* Whatever the file holds, tojson never prints its error message; and in a parsed file,
\* of any size and depth, no activation loses its place, the one read outside of the
\* buffer is that of a nested document that did not open, and the recursion is no deeper
\* than the file is long.
THEOREM PrintingStaysOnTrack == Spec => []StaysOnTrack
  <1>1. Init => IInv
    BY IInvInit
  <1>2. IInv /\ [Next]_vars => IInv'
    BY IInvNext
  <1>3. IInv => StaysOnTrack
    BY IInvImplies
  <1> QED  BY <1>1, <1>2, <1>3, PTL DEF Spec
-----------------------------------------------------------------------------
(* The text of an image.                                                   *)

\* The tokens a text of the image is made of.
Tokens(img) ==
  {Comma} \cup {Open(a) : a \in BOOLEAN} \cup {Close(a) : a \in BOOLEAN} \cup
  {Key(KeyOf(img, e)) : e \in Elems(img)} \cup
  {Value(img.bytes[e], Shown(img.bytes, img.bytes[e], img.val[e])) : e \in Elems(img)}

\* The parts of the text of a pair.
SeparatorOf(f) == IF f.more THEN <<Comma>> ELSE <<>>
KeyText(img, f) == IF f.isarray THEN <<>> ELSE <<Key(KeyOf(img, f.buffer))>>
IsArray(img, f) == img.bytes[f.buffer] = BT_ARRAY
InnerOf(img, f) == Frame(First(img.val[f.buffer]), IsArray(img, f))
Scalar(img, f) ==
  Value(img.bytes[f.buffer], Shown(img.bytes, img.bytes[f.buffer], img.val[f.buffer]))
Item(img, text, f) ==
  IF img.bytes[f.buffer] \in Containers
  THEN <<Open(IsArray(img, f))>> \o text[InnerOf(img, f)]
  ELSE <<Scalar(img, f)>>
Body(img, text, f) ==
  IF f.buffer \in Ends(img) THEN <<Close(f.isarray)>>
  ELSE SeparatorOf(f) \o KeyText(img, f) \o Item(img, text, f) \o text[After(img, f)]

\* An image none of whose documents is damaged.
IntactImage(img) == WellFormed(img) /\ img.bytes \in Buffer /\ SealedDocs(img) = img.docs

\* The calls from a place of an image lead to places further on in it.
LEMMA PlacesAhead ==
  ASSUME NEW img, IntactImage(img), NEW f \in Places(img)
  PROVE  /\ f.buffer \in DOMAIN img.bytes /\ f.buffer \in Int
         /\ f.buffer \in Elems(img) <=> f.buffer \notin Ends(img)
         /\ f.buffer \in Elems(img) =>
              /\ After(img, f) \in Places(img)
              /\ After(img, f).buffer \in Int /\ f.buffer < After(img, f).buffer
         /\ f.buffer \in Elems(img) /\ img.bytes[f.buffer] \in Containers =>
              /\ InnerOf(img, f) \in Places(img)
              /\ InnerOf(img, f).buffer \in Int /\ f.buffer < InnerOf(img, f).buffer
  <1> USE DEF IntactImage
  <1>1. f.buffer \in Elems(img) \cup Ends(img) /\ f.more \in BOOLEAN /\ f.isarray \in BOOLEAN
    BY DEF Places
  <1>2. f.buffer \in DOMAIN img.bytes /\ f.buffer \in Int
        /\ (f.buffer \in Elems(img) <=> f.buffer \notin Ends(img))
    BY <1>1, ElemStep, EndIsZero
  <1>3. ASSUME f.buffer \in Elems(img)
        PROVE  /\ After(img, f) \in Places(img)
               /\ After(img, f).buffer \in Int /\ f.buffer < After(img, f).buffer
    <2>1. /\ img.next[f.buffer] \in Elems(img) \cup Ends(img)
          /\ img.next[f.buffer] \in Int /\ f.buffer < img.next[f.buffer]
      BY <1>3, ElemStep
    <2>2. After(img, f) \in Places(img) /\ After(img, f).buffer = img.next[f.buffer]
      BY <2>1 DEF After, Places
    <2> QED  BY <2>1, <2>2
  <1>4. ASSUME f.buffer \in Elems(img), img.bytes[f.buffer] \in Containers
        PROVE  /\ InnerOf(img, f) \in Places(img)
               /\ InnerOf(img, f).buffer \in Int /\ f.buffer < InnerOf(img, f).buffer
    <2>1. img.val[f.buffer] \in SealedDocs(img)
      BY <1>4, ElemOpens
    <2>2. First(img.val[f.buffer]) \in Elems(img) \cup Ends(img)
      BY <2>1, FirstInside
    <2>3. IsArray(img, f) \in BOOLEAN
      BY DEF IsArray
    <2>4. InnerOf(img, f) \in Places(img) /\ InnerOf(img, f).buffer = First(img.val[f.buffer])
      BY <2>2, <2>3 DEF InnerOf, Frame, Places
    <2>5. img.val[f.buffer] \in Int /\ f.buffer < img.val[f.buffer]
      BY <1>4, ElemStep
    <2> QED  BY <1>2, <2>4, <2>5 DEF First
  <1> QED  BY <1>2, <1>3, <1>4

\* The parts of a text are texts.
LEMMA PartsAreTexts ==
  ASSUME NEW img, NEW f \in Places(img), f.buffer \in Elems(img)
  PROVE  /\ SeparatorOf(f) \in Seq(Tokens(img))
         /\ KeyText(img, f) \in Seq(Tokens(img))
         /\ <<Scalar(img, f)>> \in Seq(Tokens(img))
         /\ <<Open(IsArray(img, f))>> \in Seq(Tokens(img))
         /\ SeparatorOf(f) \o KeyText(img, f) \in Seq(Tokens(img))
  <1> DEFINE S == Tokens(img)
  <1>1. Comma \in S
    BY DEF Tokens
  <1>2. Key(KeyOf(img, f.buffer)) \in S
    BY Zenon DEF Tokens
  <1>3. Scalar(img, f) \in S
    BY Zenon DEF Tokens, Scalar
  <1>4. Open(IsArray(img, f)) \in S
    <2>1. IsArray(img, f) \in BOOLEAN
      BY DEF IsArray
    <2> QED  BY <2>1, Zenon DEF Tokens
  <1> HIDE DEF S
  <1>5. <<>> \in Seq(S) /\ \A x \in S : <<x>> \in Seq(S)
    OBVIOUS
  <1>6. SeparatorOf(f) \in Seq(S) /\ KeyText(img, f) \in Seq(S)
    BY <1>1, <1>2, <1>5, Zenon DEF SeparatorOf, KeyText
  <1>7. SeparatorOf(f) \o KeyText(img, f) \in Seq(S)
    BY <1>6, ConcatProperties
  <1> QED  BY <1>3, <1>4, <1>5, <1>6, <1>7 DEF S

LEMMA BodyIsText ==
  ASSUME NEW img, IntactImage(img), NEW f \in Places(img), NEW text,
         f.buffer \in Elems(img) => text[After(img, f)] \in Seq(Tokens(img)),
         f.buffer \in Elems(img) /\ img.bytes[f.buffer] \in Containers =>
           text[InnerOf(img, f)] \in Seq(Tokens(img))
  PROVE  /\ Body(img, text, f) \in Seq(Tokens(img))
         /\ f.buffer \in Elems(img) => Item(img, text, f) \in Seq(Tokens(img))
  <1>1. CASE f.buffer \in Ends(img)
    <2>1. f.isarray \in BOOLEAN
      BY DEF Places
    <2>2. Close(f.isarray) \in Tokens(img)
      BY <2>1, Zenon DEF Tokens
    <2>3. <<Close(f.isarray)>> \in Seq(Tokens(img))
      BY <2>2
    <2>4. f.buffer \notin Elems(img)
      BY <1>1, PlacesAhead
    <2> QED  BY <1>1, <2>3, <2>4, Zenon DEF Body
  <1>2. CASE f.buffer \notin Ends(img)
    <2>1. f.buffer \in Elems(img)
      BY <1>2, PlacesAhead
    <2>2. Item(img, text, f) \in Seq(Tokens(img))
      <3>1. CASE img.bytes[f.buffer] \in Containers
        <4>1. text[InnerOf(img, f)] \in Seq(Tokens(img))
          BY <2>1, <3>1
        <4>2. <<Open(IsArray(img, f))>> \o text[InnerOf(img, f)] \in Seq(Tokens(img))
          BY <2>1, <4>1, PartsAreTexts, ConcatProperties
        <4> QED  BY <3>1, <4>2, Zenon DEF Item
      <3>2. CASE img.bytes[f.buffer] \notin Containers
        BY <2>1, <3>2, PartsAreTexts, Zenon DEF Item
      <3> QED  BY <3>1, <3>2
    <2>3. SeparatorOf(f) \o KeyText(img, f) \o Item(img, text, f) \in Seq(Tokens(img))
      BY <2>1, <2>2, PartsAreTexts, ConcatProperties
    <2>4. SeparatorOf(f) \o KeyText(img, f) \o Item(img, text, f) \o text[After(img, f)]
            \in Seq(Tokens(img))
      BY <2>1, <2>3, ConcatProperties
    <2> QED  BY <1>2, <2>2, <2>4, Zenon DEF Body
  <1> QED  BY <1>1, <1>2

\* The same, when the two texts it is made from are.
LEMMA SameBody ==
  ASSUME NEW img, IntactImage(img), NEW f \in Places(img), NEW text, NEW text2,
         f.buffer \in Elems(img) => text2[After(img, f)] = text[After(img, f)],
         f.buffer \in Elems(img) /\ img.bytes[f.buffer] \in Containers =>
           text2[InnerOf(img, f)] = text[InnerOf(img, f)]
  PROVE  Body(img, text2, f) = Body(img, text, f)
  <1>1. CASE f.buffer \in Ends(img)
    BY <1>1, Zenon DEF Body
  <1>2. CASE f.buffer \notin Ends(img)
    <2>1. f.buffer \in Elems(img)
      BY <1>2, PlacesAhead
    <2>2. Item(img, text2, f) = Item(img, text, f)
      BY <2>1, Zenon DEF Item
    <2> QED  BY <1>2, <2>1, <2>2, Zenon DEF Body
  <1> QED  BY <1>1, <1>2

\* The texts of an intact image exist, and each is made from those of the places its calls
\* lead to: by induction from the last place of the image to the first.
LEMMA TextsAre ==
  ASSUME NEW img, IntactImage(img)
  PROVE  /\ Texts(img) \in [Places(img) -> Seq(Tokens(img))]
         /\ \A f \in Places(img) : Texts(img)[f] = Body(img, Texts(img), f)
  <1> DEFINE D == Places(img)  S == Seq(Tokens(img))
             Good(k, text) == \A f \in D : k <= f.buffer => text[f] = Body(img, text, f)
             Solves(text) == text = [f \in D |-> Body(img, text, f)]
  <1>1. PICK n \in Nat : n = Len(img.bytes) /\ DOMAIN img.bytes = 1 .. n
    BY DEF IntactImage, Buffer
  <1>2. \A f \in D : f.buffer \in 1 .. n /\ f.buffer \in Int
    BY <1>1, PlacesAhead
  <1>3. \E text \in [D -> S] : Good(0, text)
    <2> DEFINE T == {k \in 0 .. n + 1 : \E text \in [D -> S] : Good(k, text)}
    <2>0. ASSUME NEW k \in 0 .. n + 1, NEW text \in [D -> S], Good(k, text)
          PROVE  k \in T
      <3> HIDE DEF Good, D, S
      <3> QED  BY <2>0
    <2>1. n + 1 \in T
      <3> DEFINE text == [f \in D |-> <<>>]
      <3>1. text \in [D -> S]
        OBVIOUS
      <3> HIDE DEF text
      <3>2. Good(n + 1, text)
        <4> HIDE DEF D
        <4> QED  BY <1>2
      <3>3. n + 1 \in 0 .. n + 1
        OBVIOUS
      <3> HIDE DEF T, Good, D, S
      <3> QED  BY <2>0, <3>1, <3>2, <3>3
    <2>2. \A k \in 0 .. (n + 1) - 1 : k + 1 \in T => k \in T
      <3> SUFFICES ASSUME NEW k \in 0 .. n, k + 1 \in T
                   PROVE  k \in T
        BY (n + 1) - 1 = n
      <3>0. PICK text \in [D -> S] : Good(k + 1, text)
        OBVIOUS
      <3> DEFINE longer == [f \in D |-> IF f.buffer = k THEN Body(img, text, f) ELSE text[f]]
      <3>1. \A f \in D : Body(img, text, f) \in S
        BY PlacesAhead, BodyIsText
      <3>2. longer \in [D -> S]
        <4> HIDE DEF D, S
        <4> QED  BY <3>1
      <3>3. \A f \in D : longer[f] = IF f.buffer = k THEN Body(img, text, f) ELSE text[f]
        OBVIOUS
      <3> HIDE DEF longer
      <3>4. \A f \in D : k < f.buffer => longer[f] = text[f]
        BY <1>2, <3>3
      <3>5. ASSUME NEW f \in D, k <= f.buffer
            PROVE  longer[f] = Body(img, longer, f)
        <4>1. /\ f.buffer \in Int /\ k \in Int
              /\ f.buffer \in Elems(img) => longer[After(img, f)] = text[After(img, f)]
              /\ f.buffer \in Elems(img) /\ img.bytes[f.buffer] \in Containers =>
                   longer[InnerOf(img, f)] = text[InnerOf(img, f)]
          <5>1. f.buffer \in Int /\ k \in Int
            BY <1>2
          <5>2. \A g \in D : g.buffer \in Int /\ f.buffer < g.buffer => longer[g] = text[g]
            <6> HIDE DEF D
            <6> QED  BY <3>4, <3>5, <5>1
          <5> QED  BY <5>1, <5>2, PlacesAhead
        <4>2. Body(img, longer, f) = Body(img, text, f)
          BY <4>1, SameBody
        <4>3. CASE f.buffer = k
          BY <3>3, <4>2, <4>3
        <4>4. CASE f.buffer # k
          <5>1. k + 1 <= f.buffer
            BY <3>5, <4>1, <4>4
          <5>2. text[f] = Body(img, text, f)
            BY <3>0, <5>1
          <5> QED  BY <3>3, <4>2, <4>4, <5>2
        <4> QED  BY <4>3, <4>4
      <3>6. k \in 0 .. n + 1 /\ Good(k, longer)
        BY <3>5
      <3> HIDE DEF T, Good, D, S
      <3> QED  BY <2>0, <3>2, <3>6
    <2>3. 0 .. n + 1 \subseteq T
      <3>1. n + 1 \in Int /\ 0 \in Int
        OBVIOUS
      <3> HIDE DEF T
      <3> QED  BY <2>1, <2>2, <3>1, DownFrom
    <2>4. 0 \in T
      <3>1. 0 \in 0 .. n + 1
        OBVIOUS
      <3> HIDE DEF T
      <3> QED  BY <2>3, <3>1
    <2> QED  BY <2>4
  <1>4. \E text : Solves(text)
    <2>1. PICK text \in [D -> S] : Good(0, text)
      BY <1>3
    <2>2. \A f \in D : text[f] = Body(img, text, f)
      BY <1>2, <2>1
    <2>3. Solves(text)
      <3> HIDE DEF D
      <3> QED  BY <2>2
    <2> QED  BY <2>3
  <1>5. Texts(img) = CHOOSE text : Solves(text)
    BY Zenon DEF Texts, Body, SeparatorOf, KeyText, Item, Scalar, InnerOf, IsArray
  <1>6. Solves(Texts(img))
    <2> HIDE DEF Solves
    <2> QED  BY <1>4, <1>5
  <1>7. \A f \in D : Texts(img)[f] = Body(img, Texts(img), f)
    <2>1. Texts(img) = [f \in D |-> Body(img, Texts(img), f)]
      BY <1>6
    <2> HIDE DEF D
    <2> QED  BY <2>1
  <1>8. \A f \in D : Texts(img)[f] \in S
    <2> DEFINE text == Texts(img)
               T == {k \in 0 .. n + 1 : \A f \in D : k <= f.buffer => text[f] \in S}
    <2>1. n + 1 \in T
      BY <1>2
    <2>2. ASSUME NEW k \in 0 .. n, k + 1 \in T
          PROVE  k \in T
      <3> SUFFICES ASSUME NEW f \in D, k <= f.buffer
                   PROVE  text[f] \in S
        OBVIOUS
      <3>0. \A g \in D : k + 1 <= g.buffer => text[g] \in S
        BY <2>2
      <3>1. /\ f.buffer \in Elems(img) => text[After(img, f)] \in S
            /\ f.buffer \in Elems(img) /\ img.bytes[f.buffer] \in Containers =>
                 text[InnerOf(img, f)] \in S
        <4> HIDE DEF S, text
        <4> QED  BY <3>0, PlacesAhead
      <3>2. Body(img, text, f) \in S
        <4> HIDE DEF text
        <4> QED  BY <3>1, BodyIsText
      <3> QED  BY <1>7, <3>2
    <2> HIDE DEF T
    <2>3. 0 .. n + 1 \subseteq T
      <3>1. n + 1 \in Int /\ 0 \in Int /\ (n + 1) - 1 = n
        OBVIOUS
      <3> QED  BY <2>1, <2>2, <3>1, DownFrom
    <2>4. 0 \in T
      BY <2>3
    <2> QED  BY <1>2, <2>4 DEF T
  <1>9. Texts(img) \in [D -> S]
    <2>1. Texts(img) = [f \in D |-> Body(img, Texts(img), f)]
      BY <1>6
    <2> HIDE DEF D, S
    <2> QED  BY <1>7, <1>8, <2>1
  <1> QED  BY <1>7, <1>9
-----------------------------------------------------------------------------
(* Keeping the first tokens of what is printed.                            *)

\* Cutting what was printed before more is printed changes nothing of what is kept.
LEMMA KeptTwice ==
  ASSUME NEW S, NEW s \in Seq(S), NEW t \in Seq(S)
  PROVE  Kept(Kept(s) \o t) = Kept(s \o t)
  <1> DEFINE k == Kept(s)  a == k \o t  b == s \o t
  <1>1. /\ k \in Seq(S) /\ Len(s) \in Nat /\ Len(t) \in Nat
        /\ Len(k) = IF Len(s) < MaxOut THEN Len(s) ELSE MaxOut
        /\ \A i \in 1 .. Len(k) : k[i] = s[i]
    BY KeptExactly
  <1> HIDE DEF k
  <1>2. /\ a \in Seq(S) /\ Len(a) = Len(k) + Len(t)
        /\ \A i \in 1 .. Len(k) + Len(t) : a[i] = IF i <= Len(k) THEN k[i] ELSE t[i - Len(k)]
    BY <1>1, ConcatProperties
  <1>3. /\ b \in Seq(S) /\ Len(b) = Len(s) + Len(t)
        /\ \A i \in 1 .. Len(s) + Len(t) : b[i] = IF i <= Len(s) THEN s[i] ELSE t[i - Len(s)]
    BY ConcatProperties
  <1> HIDE DEF a, b
  <1>4. /\ Kept(a) \in Seq(S)
        /\ Len(Kept(a)) = IF Len(a) < MaxOut THEN Len(a) ELSE MaxOut
        /\ \A i \in 1 .. Len(Kept(a)) : Kept(a)[i] = a[i]
    BY <1>2, KeptExactly
  <1>5. /\ Kept(b) \in Seq(S)
        /\ Len(Kept(b)) = IF Len(b) < MaxOut THEN Len(b) ELSE MaxOut
        /\ \A i \in 1 .. Len(Kept(b)) : Kept(b)[i] = b[i]
    BY <1>3, KeptExactly
  <1>6. Len(Kept(a)) = Len(Kept(b)) /\ Len(Kept(b)) \in Nat
    BY <1>1, <1>2, <1>3, <1>4, <1>5, MaxOutAssumption
  <1>7. ASSUME NEW i \in 1 .. Len(Kept(b))
        PROVE  a[i] = b[i]
    <2>1. CASE Len(s) < MaxOut
      <3>1. Len(k) = Len(s) /\ i \in 1 .. Len(s) + Len(t)
        BY <1>1, <1>3, <1>5, <2>1, MaxOutAssumption
      <3>2. a[i] = IF i <= Len(s) THEN k[i] ELSE t[i - Len(s)]
        BY <1>2, <3>1
      <3>3. b[i] = IF i <= Len(s) THEN s[i] ELSE t[i - Len(s)]
        BY <1>3, <3>1
      <3>4. i <= Len(s) => k[i] = s[i]
        BY <1>1, <3>1
      <3> QED  BY <3>2, <3>3, <3>4
    <2>2. CASE ~ (Len(s) < MaxOut)
      <3>1. Len(k) = MaxOut /\ MaxOut <= Len(s) /\ MaxOut <= Len(a) /\ Len(Kept(b)) = MaxOut
        BY <1>1, <1>2, <1>4, <1>6, <2>2, MaxOutAssumption
      <3>2. i <= Len(k) /\ i \in 1 .. Len(k) /\ i <= Len(s)
            /\ i \in 1 .. Len(k) + Len(t) /\ i \in 1 .. Len(s) + Len(t)
        BY <1>1, <3>1, MaxOutAssumption
      <3>3. a[i] = k[i] /\ b[i] = s[i]
        BY <1>2, <1>3, <3>2
      <3> QED  BY <1>1, <3>2, <3>3
    <2> QED  BY <2>1, <2>2
  <1>8. \A i \in 1 .. Len(Kept(a)) : Kept(a)[i] = Kept(b)[i]
    BY <1>4, <1>5, <1>6, <1>7
  <1>9. Kept(a) = Kept(b)
    BY <1>4, <1>5, <1>6, <1>8, SeqEqual
  <1> QED  BY <1>9 DEF a, b, k

LEMMA KeptPrefix ==
  ASSUME NEW S, NEW s \in Seq(S), NEW t \in Seq(S)
  PROVE  IsPrefix(Kept(s), Kept(s \o t))
  <1> DEFINE b == s \o t  x == Kept(s)  y == Kept(b)
  <1>1. /\ b \in Seq(S) /\ Len(b) = Len(s) + Len(t) /\ Len(s) \in Nat /\ Len(t) \in Nat
        /\ \A i \in 1 .. Len(s) + Len(t) : b[i] = IF i <= Len(s) THEN s[i] ELSE t[i - Len(s)]
    BY ConcatProperties, LenProperties
  <1> HIDE DEF b
  <1>2. /\ x \in Seq(S)
        /\ Len(x) = IF Len(s) < MaxOut THEN Len(s) ELSE MaxOut
        /\ \A i \in 1 .. Len(x) : x[i] = s[i]
    BY KeptExactly
  <1>3. /\ y \in Seq(S)
        /\ Len(y) = IF Len(b) < MaxOut THEN Len(b) ELSE MaxOut
        /\ \A i \in 1 .. Len(y) : y[i] = b[i]
    BY <1>1, KeptExactly
  <1> HIDE DEF x, y
  <1>4. Len(x) <= Len(y) /\ Len(x) <= Len(s) /\ Len(x) \in Nat /\ Len(y) \in Nat
    BY <1>1, <1>2, <1>3, MaxOutAssumption
  <1>5. ASSUME NEW i \in 1 .. Len(x)
        PROVE  x[i] = y[i]
    <2>1. i \in 1 .. Len(y) /\ i <= Len(s) /\ i \in 1 .. Len(s) + Len(t)
      BY <1>1, <1>4
    <2> QED  BY <1>1, <1>2, <1>3, <2>1
  <1>6. \A i \in 1 .. Len(x) : x[i] \in S /\ y[i] \in S
    <2>1. \A i \in 1 .. Len(x) : x[i] \in S
      BY <1>2, ElementOfSeq
    <2> QED  BY <1>5, <2>1
  <1> DEFINE X == SubSeq(x, 1, Len(x))  Y == SubSeq(y, 1, Len(x))
  <1>7. /\ X \in Seq(S) /\ Len(X) = IF 1 <= Len(x) THEN Len(x) - 1 + 1 ELSE 0
        /\ \A i \in 1 .. Len(x) - 1 + 1 : X[i] = x[1 + i - 1]
    BY <1>4, <1>6, SubSeqProperties
  <1>8. /\ Y \in Seq(S) /\ Len(Y) = IF 1 <= Len(x) THEN Len(x) - 1 + 1 ELSE 0
        /\ \A i \in 1 .. Len(x) - 1 + 1 : Y[i] = y[1 + i - 1]
    BY <1>4, <1>6, SubSeqProperties
  <1> HIDE DEF X, Y
  <1>9. Len(X) = Len(x) /\ Len(Y) = Len(x) /\ \A i \in 1 .. Len(X) : X[i] = Y[i]
    BY <1>4, <1>5, <1>7, <1>8
  <1>10. X = Y
    BY <1>7, <1>8, <1>9, SeqEqual
  <1>11. IsPrefix(x, y)
    BY <1>4, <1>10 DEF IsPrefix, X, Y
  <1> QED  BY <1>11 DEF x, y, b
-----------------------------------------------------------------------------
(* What is still to be printed.  OutputIsText is not inductive: it does not *)
(* say where in the text each activation is.  What the running one still   *)
(* prints is what its place in the text and its step say; each of those     *)
(* that wait prints what follows the pair it is at.                        *)

\* r[k] is what is printed after activation k of the stack s returns.
Rests(img, s) == [1 .. Len(s) -> Seq(Tokens(img))]
Owed(img, s, r) ==
  /\ r \in Rests(img, s)
  /\ r[Len(s)] = <<>>
  /\ \A k \in 1 .. Len(s) - 1 : r[k] = Texts(img)[After(img, s[k + 1])] \o r[k + 1]

\* What activation f prints from step at on.
Remaining(img, at, f) ==
  IF at = "enter" THEN <<Open(f.isarray)>> \o Texts(img)[f]
  ELSE IF at = "value" THEN Item(img, Texts(img), f) \o Texts(img)[After(img, f)]
  ELSE IF at = "advance" THEN Texts(img)[After(img, f)]
  ELSE Texts(img)[f]

\* After what was said, x and then w are the rest of the text of the image.
StillToCome(img, said, x, w) == said \o (x \o w) = Rendered(img)

\* Of the text of the image, said was printed.
Saying(img, at, s, said) ==
  IF at = "main" THEN said = <<>>
  ELSE IF at = "done" THEN said = Rendered(img)
  ELSE \E r : Owed(img, s, r) /\ StillToCome(img, said, Remaining(img, at, s[1]), r[1])

Printed ==
  /\ errorno = 0 /\ pc \notin {"exit", "fault"}
  /\ \E said \in Seq(Tokens(im)) : out = Kept(said) /\ Saying(im, pc, stack, said)

PInv == IInv /\ (file \in IntactFiles => Printed)

\* What a call, a move and a return do to what is owed.
LEMMA OwedFirst ==
  ASSUME NEW img, NEW s \in Seq(Activation), s # <<>>, NEW r, Owed(img, s, r)
  PROVE  r[1] \in Seq(Tokens(img))
  BY Popped DEF Owed, Rests

LEMMA OwedCall ==
  ASSUME NEW img, NEW s \in Seq(Activation), s # <<>>, NEW r, Owed(img, s, r),
         NEW f \in Activation, Texts(img)[After(img, s[1])] \in Seq(Tokens(img))
  PROVE  \E q : Owed(img, <<f>> \o s, q) /\ q[1] = Texts(img)[After(img, s[1])] \o r[1]
  <1> DEFINE t == <<f>> \o s  S == Seq(Tokens(img))
             x == Texts(img)[After(img, s[1])] \o r[1]
  <1>1. PICK n \in Nat : n = Len(s) /\ n >= 1
    BY Popped
  <1>2. Len(t) = n + 1 /\ t[1] = f /\ \A k \in 2 .. n + 1 : t[k] = s[k - 1]
    BY <1>1, Pushed
  <1>3. x \in S
    BY OwedFirst, ConcatProperties
  <1> DEFINE q == [k \in 1 .. n + 1 |-> IF k = 1 THEN x ELSE r[k - 1]]
  <1>4. r \in [1 .. n -> S]
    BY <1>1 DEF Owed, Rests
  <1>5. q \in [1 .. n + 1 -> S]
    <2> HIDE DEF x, S
    <2> QED  BY <1>3, <1>4
  <1>6. q[1] = x /\ \A k \in 2 .. n + 1 : q[k] = r[k - 1]
    <2> HIDE DEF x
    <2> QED  OBVIOUS
  <1> HIDE DEF t, q
  <1>7. q[n + 1] = <<>>
    <2>1. n + 1 \in 2 .. n + 1 /\ (n + 1) - 1 = n
      BY <1>1
    <2> QED  BY <1>1, <1>6, <2>1 DEF Owed, Rests
  <1>8. ASSUME NEW k \in 1 .. n
        PROVE  q[k] = Texts(img)[After(img, t[k + 1])] \o q[k + 1]
    <2>1. k + 1 \in 2 .. n + 1 /\ (k + 1) - 1 = k
      OBVIOUS
    <2>2. t[k + 1] = s[k] /\ q[k + 1] = r[k]
      BY <1>2, <1>6, <2>1
    <2>3. CASE k = 1
      BY <1>6, <2>2, <2>3
    <2>4. CASE k # 1
      <3>1. k \in 2 .. n + 1 /\ k - 1 \in 1 .. Len(s) - 1 /\ (k - 1) + 1 = k
        BY <1>1, <2>4
      <3>2. q[k] = r[k - 1] /\ r[k - 1] = Texts(img)[After(img, s[k])] \o r[k]
        BY <1>6, <3>1 DEF Owed, Rests
      <3> QED  BY <2>2, <3>2
    <2> QED  BY <2>3, <2>4
  <1>9. Owed(img, t, q)
    <2>1. (n + 1) - 1 = n
      BY <1>1
    <2> QED  BY <1>2, <1>5, <1>7, <1>8, <2>1 DEF Owed, Rests
  <1> QED  BY <1>6, <1>9 DEF t

LEMMA OwedMove ==
  ASSUME NEW img, NEW s \in Seq(Activation), s # <<>>, NEW r, Owed(img, s, r),
         NEW f \in Activation
  PROVE  Owed(img, <<f>> \o Tail(s), r)
  <1> DEFINE t == <<f>> \o Tail(s)
  <1>1. PICK n \in Nat : n = Len(s) /\ n >= 1
    BY Popped
  <1>2. /\ Tail(s) \in Seq(Activation) /\ Len(Tail(s)) = n - 1
        /\ \A k \in 1 .. n - 1 : Tail(s)[k] = s[k + 1]
    BY <1>1, Popped
  <1>3. Len(t) = (n - 1) + 1 /\ \A k \in 2 .. (n - 1) + 1 : t[k] = Tail(s)[k - 1]
    BY <1>2, Pushed
  <1> HIDE DEF t
  <1>4. Len(t) = n
    BY <1>1, <1>3
  <1>5. \A k \in 1 .. n - 1 : t[k + 1] = s[k + 1]
    <2> SUFFICES ASSUME NEW k \in 1 .. n - 1
                 PROVE  t[k + 1] = s[k + 1]
      OBVIOUS
    <2>1. k + 1 \in 2 .. (n - 1) + 1 /\ (k + 1) - 1 = k
      OBVIOUS
    <2> QED  BY <1>2, <1>3, <2>1
  <1>6. Owed(img, t, r)
    BY <1>1, <1>4, <1>5, Zenon DEF Owed, Rests
  <1> QED  BY <1>6 DEF t

LEMMA OwedLast ==
  ASSUME NEW img, NEW s \in Seq(Activation), s # <<>>, Tail(s) = <<>>, NEW r, Owed(img, s, r)
  PROVE  r[1] = <<>>
  <1>1. PICK n \in Nat : n = Len(s) /\ n >= 1 /\ Len(Tail(s)) = n - 1
    BY Popped
  <1>2. Len(Tail(s)) = 0
    BY EmptySeq, Zenon
  <1>3. n - 1 = 0
    BY <1>1, <1>2
  <1>4. n = 1
    BY <1>3
  <1> QED  BY <1>1, <1>4 DEF Owed, Rests

LEMMA OwedOuter ==
  ASSUME stack \in Seq(Activation), stack # <<>>, Tail(stack) # <<>>, NEW r, Owed(im, stack, r)
  PROVE  \E q : /\ Owed(im, Tail(stack), q)
                /\ r[1] = Texts(im)[After(im, Tail(stack)[1])] \o q[1]
  <1> DEFINE S == Seq(Tokens(im))
  <1>0. PICK s, t : s = stack /\ t = Tail(s)
    OBVIOUS
  <1>1. PICK n \in Nat : n = Len(s) /\ n >= 1
    BY <1>0, Popped
  <1>2. t \in Seq(Activation) /\ Len(t) = n - 1 /\ \A k \in 1 .. n - 1 : t[k] = s[k + 1]
    BY <1>0, <1>1, Popped
  <1>3. n >= 2
    <2>1. Len(t) # 0
      BY <1>0, <1>2, EmptySeq
    <2> QED  BY <1>1, <1>2, <2>1
  <1> DEFINE q == [k \in 1 .. n - 1 |-> r[k + 1]]
  <1>4. r \in [1 .. n -> S]
    BY <1>0, <1>1 DEF Owed, Rests
  <1>5. q \in [1 .. n - 1 -> S] /\ \A k \in 1 .. n - 1 : q[k] = r[k + 1]
    <2> HIDE DEF S
    <2> QED  BY <1>4
  <1> HIDE DEF q
  <1>6. q[n - 1] = <<>>
    <2>1. n - 1 \in 1 .. n - 1 /\ (n - 1) + 1 = n
      BY <1>3
    <2> QED  BY <1>0, <1>1, <1>5, <2>1 DEF Owed, Rests
  <1>7. ASSUME NEW k \in 1 .. (n - 1) - 1
        PROVE  q[k] = Texts(im)[After(im, t[k + 1])] \o q[k + 1]
    <2>1. k \in 1 .. n - 1 /\ k + 1 \in 1 .. n - 1 /\ k + 1 \in 1 .. Len(s) - 1
      BY <1>1
    <2>2. t[k + 1] = s[(k + 1) + 1] /\ q[k] = r[k + 1] /\ q[k + 1] = r[(k + 1) + 1]
      BY <1>2, <1>5, <2>1
    <2>3. r[k + 1] = Texts(im)[After(im, s[(k + 1) + 1])] \o r[(k + 1) + 1]
      BY <1>0, <2>1 DEF Owed, Rests
    <2> QED  BY <2>2, <2>3
  <1>8. Owed(im, t, q)
    BY <1>2, <1>5, <1>6, <1>7 DEF Owed, Rests
  <1>9. r[1] = Texts(im)[After(im, t[1])] \o q[1]
    <2>1. 1 \in 1 .. n - 1 /\ 1 \in 1 .. Len(s) - 1
      BY <1>1, <1>3
    <2>2. t[1] = s[1 + 1] /\ q[1] = r[1 + 1]
      BY <1>2, <1>5, <2>1
    <2>3. r[1] = Texts(im)[After(im, s[1 + 1])] \o r[1 + 1]
      BY <1>0, <2>1 DEF Owed, Rests
    <2> QED  BY <2>2, <2>3
  <1> QED  BY <1>0, <1>8, <1>9, Zenon

LEMMA IntactLoaded ==
  ASSUME TypeOK, file \in IntactFiles
  PROVE  /\ Parsed /\ IntactImage(im) /\ m = im.bytes /\ m \in Buffer
         /\ 1 \in SealedDocs(im) /\ Renderings[file] = Kept(Rendered(im))
         /\ Frame(First(1), FALSE) \in Places(im)
  <1>1. Parsed /\ SealedDocs(im) = im.docs
    BY DEF IntactFiles, Parsed, im
  <1>2. WellFormed(im) /\ m = im.bytes /\ im.bytes \in Buffer
    BY <1>1, ParsedImage
  <1>3. 1 \in SealedDocs(im)
    BY <1>1, <1>2 DEF WellFormed
  <1>4. Frame(First(1), FALSE) \in Places(im)
    <2>1. First(1) \in Elems(im) \cup Ends(im)
      BY <1>2, <1>3, FirstInside
    <2> QED  BY <2>1 DEF Frame, Places
  <1>5. Renderings[file] = Kept(Rendered(im))
    BY DEF Renderings, im
  <1> QED  BY <1>1, <1>2, <1>3, <1>4, <1>5 DEF IntactImage

LEMMA RenderedIsText ==
  ASSUME NEW img, IntactImage(img), Frame(First(1), FALSE) \in Places(img)
  PROVE  /\ Rendered(img) \in Seq(Tokens(img))
         /\ <<Open(FALSE)>> \in Seq(Tokens(img))
         /\ Texts(img)[Frame(First(1), FALSE)] \in Seq(Tokens(img))
  <1>1. Open(FALSE) \in Tokens(img)
    BY Zenon DEF Tokens
  <1>2. <<Open(FALSE)>> \in Seq(Tokens(img))
    <2> DEFINE token == Open(FALSE)
    <2> HIDE DEF token
    <2>1. token \in Tokens(img) => <<token>> \in Seq(Tokens(img))
      OBVIOUS
    <2> QED  BY <1>1, <2>1, Zenon DEF token
  <1>3. Texts(img)[Frame(First(1), FALSE)] \in Seq(Tokens(img))
    BY TextsAre
  <1> QED  BY <1>2, <1>3, ConcatProperties DEF Rendered

\* What the running activation is at, in an intact image.
Running == {"enter", "key", "value", "advance", "leave"}

LEMMA TopPlace ==
  ASSUME IInv, file \in IntactFiles, Printed, pc \in Running
  PROVE  /\ stack \in Seq(Activation) /\ stack # <<>>
         /\ Top = stack[1] /\ here = Top.buffer /\ Top \in Activation /\ Top \in Places(im)
         /\ pc \in {"key", "value", "advance"} => here \in Elems(im)
         /\ pc = "leave" => here \in Ends(im)
  <1>1. TypeOK /\ Parsed /\ Track
    BY IntactLoaded DEF IInv, TInv
  <1>2. /\ stack \in Seq(Activation) /\ stack # <<>>
        /\ Top = stack[1] /\ here = Top.buffer /\ Top \in Activation
    BY <1>1, StackTop DEF Running
  <1>3. here \in Elems(im) \cup Ends(im)
    BY <1>1 DEF Track, Running, Printed, ERR_BADSIZEORENDING
  <1>4. Top \in Places(im)
    BY <1>2, <1>3 DEF Activation, Places
  <1> QED  BY <1>1, <1>2, <1>4 DEF Track

LEMMA StillToSay ==
  ASSUME IInv, file \in IntactFiles, Printed, pc \in Running
  PROVE  \E said \in Seq(Tokens(im)), r \in Rests(im, stack) :
           /\ out = Kept(said) /\ Owed(im, stack, r) /\ r[1] \in Seq(Tokens(im))
           /\ StillToCome(im, said, Remaining(im, pc, Top), r[1])
  <1>1. stack \in Seq(Activation) /\ stack # <<>> /\ Top = stack[1]
    BY TopPlace
  <1>2. PICK said \in Seq(Tokens(im)) : out = Kept(said) /\ Saying(im, pc, stack, said)
    BY DEF Printed
  <1>3. pc # "main" /\ pc # "done"
    BY DEF Running
  <1>4. PICK r : /\ Owed(im, stack, r)
                 /\ StillToCome(im, said, Remaining(im, pc, stack[1]), r[1])
    BY <1>2, <1>3, Zenon DEF Saying
  <1>5. r[1] \in Seq(Tokens(im))
    BY <1>1, <1>4, OwedFirst
  <1>6. r \in Rests(im, stack)
    BY <1>4 DEF Owed
  <1> QED  BY <1>1, <1>2, <1>4, <1>5, <1>6

\* It does not matter which of three texts are joined first.
Regroups(a, b, c) == (a \o b) \o c = a \o (b \o c)

LEMMA Regroup ==
  ASSUME NEW S, NEW a \in Seq(S), NEW b \in Seq(S), NEW c \in Seq(S)
  PROVE  Regroups(a, b, c)
  BY ConcatAssociative DEF Regroups

\* Printing the first part of what is still to come.
LEMMA SayNext ==
  ASSUME NEW img, NEW said \in Seq(Tokens(img)), NEW u \in Seq(Tokens(img)),
         NEW v \in Seq(Tokens(img)), NEW w \in Seq(Tokens(img)),
         StillToCome(img, said, u \o v, w)
  PROVE  /\ said \o u \in Seq(Tokens(img))
         /\ StillToCome(img, said \o u, v, w)
         /\ Kept(Kept(said) \o u) = Kept(said \o u)
  <1>1. said \o u \in Seq(Tokens(img)) /\ v \o w \in Seq(Tokens(img))
    BY ConcatProperties
  <1>2. Regroups(said, u, v \o w)
    BY <1>1, Regroup
  <1>3. Regroups(u, v, w)
    BY Regroup
  <1>4. StillToCome(img, said \o u, v, w)
    BY <1>2, <1>3, Zenon DEF StillToCome, Regroups
  <1>5. Kept(Kept(said) \o u) = Kept(said \o u)
    BY KeptTwice
  <1> QED  BY <1>1, <1>4, <1>5

\* What a call leaves to be printed after it.
LEMMA SayAfter ==
  ASSUME NEW img, NEW said, NEW y \in Seq(Tokens(img)), NEW x \in Seq(Tokens(img)),
         NEW w \in Seq(Tokens(img)), StillToCome(img, said, y \o x, w)
  PROVE  StillToCome(img, said, y, x \o w)
  <1>1. Regroups(y, x, w)
    BY Regroup
  <1> QED  BY <1>1, Zenon DEF StillToCome, Regroups

\* What an activation says from the step it is at.
LEMMA SayingFrom ==
  ASSUME NEW img, NEW at, at \in Running, NEW s, NEW said, NEW r, Owed(img, s, r),
         StillToCome(img, said, Remaining(img, at, s[1]), r[1])
  PROVE  Saying(img, at, s, said)
  <1>1. at # "main" /\ at # "done"
    BY DEF Running
  <1> QED  BY <1>1, Zenon DEF Saying

-----------------------------------------------------------------------------

LEMMA SaidByMain ==
  ASSUME IInv, file \in IntactFiles, Printed, Main
  PROVE  \E said \in Seq(Tokens(im)) : out' = Kept(said) /\ Saying(im, pc', stack', said)
  <1>1. TypeOK /\ IntactImage(im) /\ m = im.bytes /\ 1 \in SealedDocs(im)
        /\ Frame(First(1), FALSE) \in Places(im)
    BY IntactLoaded DEF IInv, TInv
  <1>2. opendoc(m, 1, 0) = First(1)
    BY <1>1, OpendocOfContent DEF IntactImage
  <1>3. First(1) \notin {NULL, WILD}
    BY DEF First, NULL, WILD
  <1>4. stack' = <<Frame(First(1), FALSE)>> /\ pc' = "enter" /\ out' = out
    BY <1>2, <1>3 DEF Main
  <1>5. PICK said \in Seq(Tokens(im)) : out = Kept(said) /\ said = <<>>
    BY Zenon DEF Printed, Saying, Main
  <1> DEFINE f == Frame(First(1), FALSE)  r == [k \in 1 .. 1 |-> <<>>]
  <1>6. r[1] = <<>> /\ r \in [1 .. 1 -> Seq(Tokens(im))]
    OBVIOUS
  <1>7. Owed(im, <<f>>, r)
    <2>1. Len(<<f>>) = 1 /\ 1 .. 1 - 1 = {}
      OBVIOUS
    <2> HIDE DEF r, f
    <2> QED  BY <1>6, <2>1 DEF Owed, Rests
  <1>8. Remaining(im, "enter", f) = Rendered(im)
    <2>1. f.isarray = FALSE
      BY DEF Frame
    <2> QED  BY <2>1, Zenon DEF Remaining, Rendered
  <1>9. <<>> \o (Rendered(im) \o <<>>) = Rendered(im)
    BY <1>1, RenderedIsText, ConcatEmptySeq
  <1>10. Saying(im, "enter", <<f>>, said)
    <2>1. <<f>>[1] = f
      OBVIOUS
    <2> HIDE DEF r, f
    <2>2. StillToCome(im, said, Remaining(im, "enter", <<f>>[1]), r[1])
      BY <1>5, <1>6, <1>8, <1>9, <2>1 DEF StillToCome
    <2> QED  BY <1>7, <2>2, Zenon DEF Saying
  <1> QED  BY <1>4, <1>5, <1>10

LEMMA SaidByEnter ==
  ASSUME IInv, file \in IntactFiles, Printed, Enter, pc' # "fault"
  PROVE  \E said \in Seq(Tokens(im)) : out' = Kept(said) /\ Saying(im, pc', stack', said)
  <1>1. TypeOK /\ IntactImage(im)
    BY IntactLoaded DEF IInv, TInv
  <1>2. pc \in Running /\ pc = "enter"
    BY DEF Enter, Running
  <1>3. /\ stack \in Seq(Activation) /\ stack # <<>> /\ Top = stack[1] /\ Top \in Places(im)
    BY <1>2, TopPlace
  <1>4. PICK said \in Seq(Tokens(im)), r \in Rests(im, stack) :
           /\ out = Kept(said) /\ Owed(im, stack, r) /\ r[1] \in Seq(Tokens(im))
           /\ StillToCome(im, said, Remaining(im, pc, Top), r[1])
    BY <1>2, StillToSay
  <1> DEFINE u == <<Open(Top.isarray)>>
  <1>5. pc' \in {"key", "leave"} /\ stack' = stack /\ out' = Kept(out \o u)
    BY DEF Enter, Printf
  <1>6. Remaining(im, pc', Top) = Texts(im)[Top] /\ Remaining(im, pc, Top) = u \o Texts(im)[Top]
    BY <1>2, <1>5, Zenon DEF Remaining
  <1>7. u \in Seq(Tokens(im))
    <2>1. Top.isarray \in BOOLEAN
      BY <1>3 DEF Places
    <2>2. Open(Top.isarray) \in Tokens(im)
      BY <2>1, Zenon DEF Tokens
    <2> QED  BY <2>2
  <1>8. Texts(im)[Top] \in Seq(Tokens(im))
    BY <1>1, <1>3, TextsAre
  <1> DEFINE v == Texts(im)[Top]  w == r[1]
  <1>9. StillToCome(im, said, u \o v, w) /\ w \in Seq(Tokens(im))
    BY <1>4, <1>6, Zenon
  <1> HIDE DEF u, v, w
  <1>10. /\ said \o u \in Seq(Tokens(im)) /\ StillToCome(im, said \o u, v, w)
         /\ Kept(Kept(said) \o u) = Kept(said \o u)
    BY <1>7, <1>8, <1>9, SayNext DEF v
  <1>11. Saying(im, pc', stack, said \o u)
    <2>1. pc' \in Running
      BY <1>5 DEF Running
    <2>2. StillToCome(im, said \o u, Remaining(im, pc', stack[1]), r[1])
      BY <1>3, <1>6, <1>10, Zenon DEF v, w
    <2> QED  BY <1>4, <2>1, <2>2, SayingFrom, Zenon
  <1> QED  BY <1>4, <1>5, <1>10, <1>11

\* The text of a pair is that of its parts.
LEMMA TextOfPair ==
  ASSUME NEW img, IntactImage(img), NEW f \in Places(img), f.buffer \in Elems(img)
  PROVE  /\ Item(img, Texts(img), f) \in Seq(Tokens(img))
         /\ Texts(img)[After(img, f)] \in Seq(Tokens(img))
         /\ Item(img, Texts(img), f) \o Texts(img)[After(img, f)] \in Seq(Tokens(img))
         /\ Texts(img)[f] = (SeparatorOf(f) \o KeyText(img, f)) \o
                            (Item(img, Texts(img), f) \o Texts(img)[After(img, f)])
         /\ img.bytes[f.buffer] \in Containers =>
              /\ Texts(img)[InnerOf(img, f)] \in Seq(Tokens(img))
              /\ InnerOf(img, f) \in Places(img)
              /\ Item(img, Texts(img), f) =
                   <<Open(IsArray(img, f))>> \o Texts(img)[InnerOf(img, f)]
         /\ img.bytes[f.buffer] \notin Containers =>
              Item(img, Texts(img), f) = <<Scalar(img, f)>>
  <1>1. After(img, f) \in Places(img) /\ f.buffer \notin Ends(img)
    BY PlacesAhead
  <1>2. Texts(img)[After(img, f)] \in Seq(Tokens(img))
    BY <1>1, TextsAre
  <1>3. ASSUME img.bytes[f.buffer] \in Containers
        PROVE  InnerOf(img, f) \in Places(img) /\ Texts(img)[InnerOf(img, f)] \in Seq(Tokens(img))
    BY <1>3, PlacesAhead, TextsAre
  <1>4. Item(img, Texts(img), f) \in Seq(Tokens(img))
    BY <1>2, <1>3, BodyIsText
  <1>5. Texts(img)[f] = SeparatorOf(f) \o KeyText(img, f) \o Item(img, Texts(img), f) \o
                        Texts(img)[After(img, f)]
    <2>1. Texts(img)[f] = Body(img, Texts(img), f)
      BY TextsAre
    <2> QED  BY <1>1, <2>1, Zenon DEF Body
  <1>6. SeparatorOf(f) \o KeyText(img, f) \in Seq(Tokens(img))
    BY PartsAreTexts
  <1>7. Item(img, Texts(img), f) \o Texts(img)[After(img, f)] \in Seq(Tokens(img))
    BY <1>2, <1>4, ConcatProperties
  <1>8. Texts(img)[f] = (SeparatorOf(f) \o KeyText(img, f)) \o
                        (Item(img, Texts(img), f) \o Texts(img)[After(img, f)])
    <2> DEFINE a == SeparatorOf(f) \o KeyText(img, f)  b == Item(img, Texts(img), f)
               c == Texts(img)[After(img, f)]
    <2>1. /\ a \in Seq(Tokens(img)) /\ b \in Seq(Tokens(img)) /\ c \in Seq(Tokens(img))
          /\ Texts(img)[f] = (a \o b) \o c
      BY <1>2, <1>4, <1>5, <1>6, Zenon
    <2> HIDE DEF a, b, c
    <2>2. Texts(img)[f] = a \o (b \o c)
      BY <2>1, ConcatAssociative
    <2> QED  BY <2>2, Zenon DEF a, b, c
  <1>9. /\ img.bytes[f.buffer] \in Containers =>
             Item(img, Texts(img), f) = <<Open(IsArray(img, f))>> \o Texts(img)[InnerOf(img, f)]
        /\ img.bytes[f.buffer] \notin Containers =>
             Item(img, Texts(img), f) = <<Scalar(img, f)>>
    BY Zenon DEF Item
  <1> QED  BY <1>2, <1>3, <1>4, <1>7, <1>8, <1>9

\* The key that is printed, up to its zero byte, is that of the pair.
LEMMA KeyPrinted ==
  ASSUME NEW img, IntactImage(img), NEW e \in Elems(img)
  PROVE  CString(img.bytes, getkey(e)) = KeyOf(img, e)
  <1>1. PICK d \in SealedDocs(img) : e \in img.elems[d]
    BY DEF Elems
  <1>2. e \in Int /\ img.val[e] \in Int /\ IsNulFrom(img.bytes, e + 1, img.val[e] - 1)
    BY <1>1, PairShape DEF IntactImage
  <1>3. NulFrom(img.bytes, e + 1) = img.val[e] - 1
    BY <1>2, NulIsFirst DEF IntactImage
  <1>4. (img.val[e] - 1) - 1 = img.val[e] - 2
    BY <1>2
  <1> QED  BY <1>3, <1>4 DEF CString, KeyOf, getkey

LEMMA RemainingIsText ==
  ASSUME IInv, file \in IntactFiles, Printed, pc \in Running
  PROVE  Remaining(im, pc, stack[1]) \in Seq(Tokens(im))
  <1>1. IntactImage(im)
    BY IntactLoaded DEF IInv, TInv
  <1>2. /\ stack[1] \in Places(im)
        /\ pc \in {"key", "value", "advance"} => stack[1].buffer \in Elems(im)
    BY TopPlace
  <1>3. Texts(im)[stack[1]] \in Seq(Tokens(im))
    BY <1>1, <1>2, TextsAre
  <1>4. CASE pc = "enter"
    <2>1. stack[1].isarray \in BOOLEAN
      BY <1>2 DEF Places
    <2>2. Open(stack[1].isarray) \in Tokens(im)
      BY <2>1, Zenon DEF Tokens
    <2>3. <<Open(stack[1].isarray)>> \in Seq(Tokens(im))
      BY <2>2
    <2>4. <<Open(stack[1].isarray)>> \o Texts(im)[stack[1]] \in Seq(Tokens(im))
      BY <1>3, <2>3, ConcatProperties
    <2> QED  BY <1>4, <2>4, Zenon DEF Remaining
  <1>5. CASE pc \in {"value", "advance"}
    <2>1. /\ Texts(im)[After(im, stack[1])] \in Seq(Tokens(im))
          /\ Item(im, Texts(im), stack[1]) \o Texts(im)[After(im, stack[1])] \in Seq(Tokens(im))
      BY <1>1, <1>2, <1>5, TextOfPair
    <2> QED  BY <1>5, <2>1, Zenon DEF Remaining
  <1>6. CASE pc \in {"key", "leave"}
    BY <1>3, <1>6, Zenon DEF Remaining
  <1> QED  BY <1>4, <1>5, <1>6 DEF Running

LEMMA SaidByPrintKey ==
  ASSUME IInv, file \in IntactFiles, Printed, PrintKey, pc' # "fault"
  PROVE  \E said \in Seq(Tokens(im)) : out' = Kept(said) /\ Saying(im, pc', stack', said)
  <1>1. IntactImage(im) /\ m = im.bytes
    BY IntactLoaded DEF IInv, TInv
  <1>2. pc \in Running /\ pc = "key"
    BY DEF PrintKey, Running
  <1>3. Top = stack[1] /\ Top \in Places(im) /\ here = Top.buffer /\ here \in Elems(im)
    BY <1>2, TopPlace
  <1>4. PICK said \in Seq(Tokens(im)), r \in Rests(im, stack) :
           /\ out = Kept(said) /\ Owed(im, stack, r) /\ r[1] \in Seq(Tokens(im))
           /\ StillToCome(im, said, Remaining(im, pc, Top), r[1])
    BY <1>2, StillToSay
  <1> DEFINE u == SeparatorOf(Top) \o KeyText(im, Top)
             v == Item(im, Texts(im), Top) \o Texts(im)[After(im, Top)]
             w == r[1]
  <1>5. pc' = "value" /\ stack' = stack
    BY DEF PrintKey
  <1>6. out' = Kept(out \o u)
    <2>1. CASE Top.isarray
      <3>1. KeyText(im, Top) = <<>>
        BY <2>1, Zenon DEF KeyText
      <3>2. SeparatorOf(Top) \in Seq(Tokens(im))
        BY <1>3, PartsAreTexts
      <3>3. u = SeparatorOf(Top)
        BY <3>1, <3>2, ConcatEmptySeq
      <3>4. out' = Kept(out \o Separator)
        BY <2>1 DEF PrintKey, Printf
      <3> QED  BY <3>3, <3>4, Zenon DEF Separator, SeparatorOf
    <2>2. CASE ~ Top.isarray
      <3>1. KeyText(im, Top) = <<Key(KeyOf(im, here))>>
        BY <1>3, <2>2, Zenon DEF KeyText
      <3>2. CString(m, getkey(here)) = KeyOf(im, here)
        BY <1>1, <1>3, KeyPrinted
      <3>3. out' = Kept(out \o (Separator \o <<Key(CString(m, getkey(here)))>>))
        BY <2>2 DEF PrintKey, Printf
      <3> QED  BY <3>1, <3>2, <3>3, Zenon DEF Separator, SeparatorOf
    <2> QED  BY <2>1, <2>2
  <1>7. /\ u \in Seq(Tokens(im)) /\ v \in Seq(Tokens(im))
        /\ Texts(im)[Top] = u \o v
    BY <1>1, <1>3, PartsAreTexts, TextOfPair
  <1>8. Remaining(im, pc', Top) = v /\ Remaining(im, pc, Top) = Texts(im)[Top]
    BY <1>2, <1>5, Zenon DEF Remaining
  <1>9. StillToCome(im, said, u \o v, w) /\ w \in Seq(Tokens(im))
    BY <1>4, <1>7, <1>8, Zenon
  <1> HIDE DEF u, v, w
  <1>10. /\ said \o u \in Seq(Tokens(im)) /\ StillToCome(im, said \o u, v, w)
         /\ Kept(Kept(said) \o u) = Kept(said \o u)
    BY <1>7, <1>9, SayNext
  <1>11. Saying(im, pc', stack, said \o u)
    <2>1. pc' \in Running
      BY <1>5 DEF Running
    <2>2. StillToCome(im, said \o u, Remaining(im, pc', stack[1]), r[1])
      BY <1>3, <1>8, <1>10, Zenon DEF w
    <2> QED  BY <1>4, <2>1, <2>2, SayingFrom, Zenon
  <1> QED  BY <1>4, <1>5, <1>6, <1>10, <1>11

LEMMA SaidByPrintValue ==
  ASSUME IInv, file \in IntactFiles, Printed, PrintValue, pc' # "fault"
  PROVE  \E said \in Seq(Tokens(im)) : out' = Kept(said) /\ Saying(im, pc', stack', said)
  <1>1. IntactImage(im) /\ m = im.bytes
    BY IntactLoaded DEF IInv, TInv
  <1>2. pc \in Running /\ pc = "value" /\ gettype(m, here) \notin Containers
    BY DEF PrintValue, Running
  <1>3. Top = stack[1] /\ Top \in Places(im) /\ here = Top.buffer /\ here \in Elems(im)
    BY <1>2, TopPlace
  <1>4. PICK said \in Seq(Tokens(im)), r \in Rests(im, stack) :
           /\ out = Kept(said) /\ Owed(im, stack, r) /\ r[1] \in Seq(Tokens(im))
           /\ StillToCome(im, said, Remaining(im, pc, Top), r[1])
    BY <1>2, StillToSay
  <1> DEFINE u == <<Scalar(im, Top)>>
             v == Texts(im)[After(im, Top)]
             w == r[1]
  <1>5. /\ pc' = "advance" /\ stack' = stack
        /\ out' = Kept(out \o <<Value(gettype(m, here),
                                      Shown(m, gettype(m, here), getvalue(m, here)))>>)
    BY DEF PrintValue, Printf
  <1>6. out' = Kept(out \o u)
    <2>1. gettype(m, here) = im.bytes[here] /\ getvalue(m, here) = im.val[here]
      BY <1>1, <1>3, ElemStep DEF IntactImage, gettype
    <2> QED  BY <1>1, <1>3, <1>5, <2>1, Zenon DEF Scalar
  <1>7. /\ u \in Seq(Tokens(im)) /\ v \in Seq(Tokens(im))
        /\ Item(im, Texts(im), Top) = u
    <2>1. im.bytes[Top.buffer] \notin Containers
      BY <1>1, <1>2, <1>3 DEF gettype
    <2> QED  BY <1>1, <1>3, <2>1, PartsAreTexts, TextOfPair
  <1>8. Remaining(im, pc', Top) = v /\ Remaining(im, pc, Top) = u \o v
    <2>1. Remaining(im, pc, Top) = Item(im, Texts(im), Top) \o v
      BY <1>2, Zenon DEF Remaining
    <2>2. Remaining(im, pc', Top) = v
      BY <1>5, Zenon DEF Remaining
    <2> QED  BY <1>7, <2>1, <2>2, Zenon
  <1>9. StillToCome(im, said, u \o v, w) /\ w \in Seq(Tokens(im))
    BY <1>4, <1>8, Zenon
  <1> HIDE DEF u, v, w
  <1>10. /\ said \o u \in Seq(Tokens(im)) /\ StillToCome(im, said \o u, v, w)
         /\ Kept(Kept(said) \o u) = Kept(said \o u)
    BY <1>7, <1>9, SayNext
  <1>11. Saying(im, pc', stack, said \o u)
    <2>1. pc' \in Running
      BY <1>5 DEF Running
    <2>2. StillToCome(im, said \o u, Remaining(im, pc', stack[1]), r[1])
      BY <1>3, <1>8, <1>10, Zenon DEF w
    <2> QED  BY <1>4, <2>1, <2>2, SayingFrom, Zenon
  <1> QED  BY <1>4, <1>5, <1>6, <1>10, <1>11

\* The text of a document that is in a pair, and then what follows the pair.
LEMMA SaidByPrintNested ==
  ASSUME IInv, file \in IntactFiles, Printed, PrintNested, pc' # "fault"
  PROVE  \E said \in Seq(Tokens(im)) : out' = Kept(said) /\ Saying(im, pc', stack', said)
  <1>1. IntactImage(im) /\ m = im.bytes
    BY IntactLoaded DEF IInv, TInv
  <1>2. pc \in Running /\ pc = "value" /\ gettype(m, here) \in Containers
    BY DEF PrintNested, Running
  <1>3. /\ stack \in Seq(Activation) /\ stack # <<>>
        /\ Top = stack[1] /\ Top \in Places(im) /\ here = Top.buffer /\ here \in Elems(im)
    BY <1>2, TopPlace
  <1>4. PICK said \in Seq(Tokens(im)), r \in Rests(im, stack) :
           /\ out = Kept(said) /\ Owed(im, stack, r) /\ r[1] \in Seq(Tokens(im))
           /\ StillToCome(im, said, Remaining(im, pc, Top), r[1])
    BY <1>2, StillToSay
  <1> DEFINE f == InnerOf(im, Top)
             u == <<Open(IsArray(im, Top))>>
             v == Texts(im)[f]
             x == Texts(im)[After(im, Top)]
             w == r[1]
  <1>5. im.bytes[Top.buffer] \in Containers /\ gettype(m, here) = im.bytes[Top.buffer]
    BY <1>1, <1>2, <1>3 DEF gettype
  <1>6. stack' = <<f>> \o stack /\ pc' = "enter" /\ out' = out
    <2>1. Inside = First(im.val[here])
      BY <1>1, <1>3, <1>5, ElemOpens DEF IntactImage, Inside
    <2>2. Frame(Inside, gettype(m, here) = BT_ARRAY) = f
      BY <1>3, <1>5, <2>1, Zenon DEF InnerOf, IsArray
    <2> QED  BY <2>2, Zenon DEF PrintNested
  <1>7. /\ u \in Seq(Tokens(im)) /\ v \in Seq(Tokens(im)) /\ x \in Seq(Tokens(im))
        /\ f \in Places(im) /\ Item(im, Texts(im), Top) = u \o v
    BY <1>1, <1>3, <1>5, PartsAreTexts, TextOfPair
  <1>8. f \in Activation
    <2>1. f.buffer \in Int
      BY <1>1, <1>7, PlacesAhead
    <2> QED  BY <1>7, <2>1 DEF Places, Activation
  <1>9. Remaining(im, pc', f) = u \o v
    <2>1. f.isarray = IsArray(im, Top)
      BY DEF InnerOf, Frame
    <2> QED  BY <1>6, <2>1, Zenon DEF Remaining
  <1>10. Remaining(im, pc, Top) = (u \o v) \o x
    BY <1>2, <1>7, Zenon DEF Remaining
  <1>11. StillToCome(im, said, (u \o v) \o x, w) /\ w \in Seq(Tokens(im))
    BY <1>4, <1>10, Zenon
  <1>12. PICK q : Owed(im, <<f>> \o stack, q) /\ q[1] = x \o w
    <2> HIDE DEF f
    <2>1. Texts(im)[After(im, stack[1])] \in Seq(Tokens(im)) /\ x = Texts(im)[After(im, stack[1])]
      BY <1>3, <1>7, Zenon
    <2> HIDE DEF x
    <2>2. \E q : Owed(im, <<f>> \o stack, q) /\ q[1] = Texts(im)[After(im, stack[1])] \o r[1]
      BY <1>3, <1>4, <1>8, <2>1, OwedCall, Zenon
    <2> QED  BY <2>1, <2>2, Zenon
  <1>13. (<<f>> \o stack)[1] = f
    <2> HIDE DEF f
    <2> QED  BY <1>3, <1>8, Pushed
  <1> HIDE DEF f, u, v, x, w
  <1>14. StillToCome(im, said, u \o v, x \o w)
    <2>1. u \o v \in Seq(Tokens(im))
      BY <1>7, ConcatProperties
    <2> QED  BY <1>7, <1>11, <2>1, SayAfter
  <1>15. Saying(im, pc', stack', said)
    <2>1. pc' \in Running
      BY <1>6 DEF Running
    <2>2. StillToCome(im, said, Remaining(im, pc', stack'[1]), q[1])
      BY <1>6, <1>9, <1>12, <1>13, <1>14, Zenon
    <2>3. Owed(im, stack', q)
      BY <1>6, <1>12, Zenon
    <2> QED  BY <2>1, <2>2, <2>3, SayingFrom, Zenon
  <1> QED  BY <1>4, <1>6, <1>15

LEMMA SaidByAdvance ==
  ASSUME IInv, file \in IntactFiles, Printed, Advance, pc' # "fault"
  PROVE  \E said \in Seq(Tokens(im)) : out' = Kept(said) /\ Saying(im, pc', stack', said)
  <1>1. IntactImage(im) /\ m = im.bytes
    BY IntactLoaded DEF IInv, TInv
  <1>2. pc \in Running /\ pc = "advance"
    BY DEF Advance, Running
  <1>3. /\ stack \in Seq(Activation) /\ stack # <<>> /\ Top \in Activation
        /\ Top = stack[1] /\ Top \in Places(im) /\ here = Top.buffer /\ here \in Elems(im)
    BY <1>2, TopPlace
  <1>4. PICK said \in Seq(Tokens(im)), r \in Rests(im, stack) :
           /\ out = Kept(said) /\ Owed(im, stack, r) /\ r[1] \in Seq(Tokens(im))
           /\ StillToCome(im, said, Remaining(im, pc, Top), r[1])
    BY <1>2, StillToSay
  <1> DEFINE f == After(im, Top)
  <1>5. stack' = <<f>> \o Tail(stack) /\ pc' \in {"key", "leave"} /\ out' = out
    <2>1. NextPair = im.next[Top.buffer]
      BY <1>1, <1>3, ElemStep DEF IntactImage, NextPair
    <2>2. [Top EXCEPT !.buffer = NextPair, !.more = TRUE] = f
      BY <2>1, Zenon DEF After
    <2> QED  BY <2>2, Zenon DEF Advance, AfterPair
  <1>6. f \in Activation
    <2>1. f.buffer \in Int /\ f \in Places(im)
      BY <1>1, <1>3, PlacesAhead
    <2> QED  BY <2>1 DEF Places, Activation
  <1>7. Remaining(im, pc', f) = Remaining(im, pc, Top)
    BY <1>2, <1>5, Zenon DEF Remaining
  <1> HIDE DEF f
  <1>8. Owed(im, <<f>> \o Tail(stack), r)
    BY <1>3, <1>4, <1>6, OwedMove
  <1>9. (<<f>> \o Tail(stack))[1] = f
    BY <1>3, <1>6, Popped, Pushed
  <1>10. Saying(im, pc', stack', said)
    <2>1. pc' \in Running
      BY <1>5 DEF Running
    <2>2. StillToCome(im, said, Remaining(im, pc', stack'[1]), r[1])
      BY <1>4, <1>5, <1>7, <1>9, Zenon
    <2>3. Owed(im, stack', r)
      BY <1>5, <1>8, Zenon
    <2> QED  BY <2>1, <2>2, <2>3, SayingFrom, Zenon
  <1> QED  BY <1>4, <1>5, <1>10

LEMMA SaidByLeave ==
  ASSUME IInv, file \in IntactFiles, Printed, Leave, pc' # "fault"
  PROVE  \E said \in Seq(Tokens(im)) : out' = Kept(said) /\ Saying(im, pc', stack', said)
  <1>1. IntactImage(im) /\ m = im.bytes
    BY IntactLoaded DEF IInv, TInv
  <1>2. pc \in Running /\ pc = "leave"
    BY DEF Leave, Running
  <1>3. /\ stack \in Seq(Activation) /\ stack # <<>> /\ Top \in Activation
        /\ Top = stack[1] /\ Top \in Places(im) /\ here = Top.buffer /\ here \in Ends(im)
    BY <1>2, TopPlace
  <1>4. PICK said \in Seq(Tokens(im)), r \in Rests(im, stack) :
           /\ out = Kept(said) /\ Owed(im, stack, r) /\ r[1] \in Seq(Tokens(im))
           /\ StillToCome(im, said, Remaining(im, pc, Top), r[1])
    BY <1>2, StillToSay
  <1> DEFINE u == <<Close(Top.isarray)>>  w == r[1]
  <1>5. u \in Seq(Tokens(im))
    <2>1. Top.isarray \in BOOLEAN
      BY <1>3 DEF Places
    <2>2. Close(Top.isarray) \in Tokens(im)
      BY <2>1, Zenon DEF Tokens
    <2> QED  BY <2>2
  <1>6. stack' = Tail(stack) /\ pc' = ReturnTo(Tail(stack)) /\ out' = Kept(out \o u)
    <2>1. errorno = 0
      BY DEF Printed
    <2>2. out' = Kept(out \o (u \o <<>>))
      BY <2>1 DEF Leave, Printf
    <2>3. u \o <<>> = u
      BY <1>5, ConcatEmptySeq
    <2> QED  BY <2>2, <2>3 DEF Leave
  <1>7. Remaining(im, pc, Top) = u
    <2>1. Remaining(im, pc, Top) = Texts(im)[Top]
      BY <1>2, Zenon DEF Remaining
    <2>2. Texts(im)[Top] = Body(im, Texts(im), Top)
      BY <1>1, <1>3, TextsAre
    <2> QED  BY <1>3, <2>1, <2>2, Zenon DEF Body
  <1>8. StillToCome(im, said, u, w) /\ w \in Seq(Tokens(im))
    BY <1>4, <1>7, Zenon
  <1> HIDE DEF u, w
  <1>9. said \o u \in Seq(Tokens(im)) /\ out' = Kept(said \o u)
        /\ (said \o u) \o w = Rendered(im)
    <2>1. said \o u \in Seq(Tokens(im))
      BY <1>5, ConcatProperties
    <2>2. (said \o u) \o w = said \o (u \o w)
      BY <1>5, <1>8, ConcatAssociative
    <2>3. Kept(Kept(said) \o u) = Kept(said \o u)
      BY <1>5, KeptTwice
    <2> QED  BY <1>4, <1>6, <1>8, <2>1, <2>2, <2>3, Zenon DEF StillToCome
  <1>10. CASE Tail(stack) = <<>>
    <2>1. w = <<>>
      BY <1>3, <1>4, <1>10, OwedLast DEF w
    <2>2. said \o u = Rendered(im)
      BY <1>9, <2>1, ConcatEmptySeq
    <2>3. pc' = "done"
      BY <1>6, <1>10, Zenon DEF ReturnTo
    <2>4. Saying(im, pc', stack', said \o u)
      BY <2>2, <2>3, Zenon DEF Saying
    <2> QED  BY <1>9, <2>4
  <1>11. CASE Tail(stack) # <<>>
    <2>1. PICK q : /\ Owed(im, Tail(stack), q)
                   /\ w = Texts(im)[After(im, Tail(stack)[1])] \o q[1]
      <3>1. \E q : /\ Owed(im, Tail(stack), q)
                   /\ r[1] = Texts(im)[After(im, Tail(stack)[1])] \o q[1]
        BY <1>3, <1>4, <1>11, OwedOuter
      <3> QED  BY <3>1, Zenon DEF w
    <2>2. pc' = "advance"
      BY <1>6, <1>11, Zenon DEF ReturnTo
    <2>3. Remaining(im, pc', stack'[1]) = Texts(im)[After(im, Tail(stack)[1])]
      BY <1>6, <2>2, Zenon DEF Remaining
    <2>4. StillToCome(im, said \o u, Remaining(im, pc', stack'[1]), q[1])
      BY <1>9, <2>1, <2>3, Zenon DEF StillToCome
    <2>5. pc' \in Running
      BY <2>2 DEF Running
    <2>6. Owed(im, stack', q)
      BY <1>6, <2>1, Zenon
    <2>7. Saying(im, pc', stack', said \o u)
      BY <2>4, <2>5, <2>6, SayingFrom, Zenon
    <2> QED  BY <1>9, <2>7
  <1> QED  BY <1>10, <1>11

-----------------------------------------------------------------------------

LEMMA PrintedInit == Init => (file \in IntactFiles => Printed)
  <1> SUFFICES ASSUME Init
               PROVE  Printed
    OBVIOUS
  <1>1. <<>> \in Seq(Tokens(im)) /\ Kept(<<>>) = <<>>
    <2>1. Len(<<>>) = 0 /\ ~ (Len(<<>>) < MaxOut) => MaxOut = 0
      BY MaxOutAssumption
    <2>2. Kept(<<>>) \in Seq({}) /\ Len(Kept(<<>>)) = 0
      <3>1. <<>> \in Seq({})
        OBVIOUS
      <3> QED  BY <2>1, <3>1, KeptExactly
    <2> QED  BY <2>2, EmptySeq
  <1>2. Saying(im, pc, stack, <<>>)
    BY Zenon DEF Saying, Init
  <1> QED  BY <1>1, <1>2 DEF Init, Printed

LEMMA PrintedNext ==
  ASSUME IInv, IInv', [Next]_vars, file \in IntactFiles, Printed
  PROVE  Printed'
  <1>1. TypeOK /\ Parsed /\ IntactImage(im) /\ m = im.bytes /\ 1 \in SealedDocs(im)
    BY IntactLoaded DEF IInv, TInv
  <1>2. im' = im /\ file' = file
    BY FileStays
  <1>3. Track'
    BY <1>1, <1>2 DEF IInv, Parsed
  <1>4. CASE UNCHANGED vars
    BY <1>2, <1>4 DEF vars, Printed
  <1>5. CASE Next
    <2>1. opendoc(m, 1, 0) = First(1) /\ First(1) \notin {NULL, WILD}
      BY <1>1, OpendocOfContent DEF IntactImage, First, NULL, WILD
    <2>2. errorno' = 0
      <3>1. CASE Main
        BY <2>1, <3>1 DEF Main, opendoc_errorno
      <3>2. CASE PrintNested
        <4>1. here \in Elems(im) /\ gettype(m, here) \in Containers /\ pc \in Running
          BY <3>2, TopPlace DEF PrintNested, Running
        <4>2. Inside = First(im.val[here]) /\ First(im.val[here]) \notin {NULL, WILD}
          <5>1. im.val[here] \in Int /\ here < im.val[here] /\ 1 <= here /\ here \in Int
            BY <1>1, <4>1, ElemStep DEF IntactImage
          <5>2. Inside = First(im.val[here])
            BY <1>1, <4>1, ElemOpens DEF IntactImage, Inside, gettype
          <5> QED  BY <5>1, <5>2 DEF First, NULL, WILD
        <4> QED  BY <3>2, <4>2 DEF PrintNested, opendoc_errorno, Inside
      <3>3. CASE Enter \/ PrintKey \/ PrintValue \/ Advance \/ Leave
        BY <3>3 DEF Enter, PrintKey, PrintValue, Advance, Leave, Printed
      <3> QED  BY <1>5, <3>1, <3>2, <3>3 DEF Next
    <2>3. pc' # "fault"
      BY <1>3, <2>2 DEF Track, ERR_BADSIZEORENDING
    <2>4. pc' # "exit"
      BY <1>5, <2>1 DEF Next, Main, Enter, PrintKey, PrintValue, PrintNested, Advance, Leave,
                        AfterPair, ReturnTo
    <2>5. \E said \in Seq(Tokens(im)) : out' = Kept(said) /\ Saying(im, pc', stack', said)
      BY <1>5, <2>3, SaidByMain, SaidByEnter, SaidByPrintKey, SaidByPrintValue,
         SaidByPrintNested, SaidByAdvance, SaidByLeave DEF Next
    <2> QED  BY <1>2, <2>2, <2>3, <2>4, <2>5 DEF Printed
  <1> QED  BY <1>4, <1>5

LEMMA PrintedImplies ==
  ASSUME IInv, file \in IntactFiles, Printed
  PROVE  /\ IsPrefix(out, Renderings[file])
         /\ pc \in {"done", "exit", "fault"} => pc = "done" /\ out = Renderings[file]
  <1>1. /\ IntactImage(im) /\ Renderings[file] = Kept(Rendered(im))
        /\ Rendered(im) \in Seq(Tokens(im))
    BY IntactLoaded, RenderedIsText DEF IInv, TInv
  <1>2. PICK said \in Seq(Tokens(im)) : out = Kept(said) /\ Saying(im, pc, stack, said)
    BY DEF Printed
  <1>3. \E rest \in Seq(Tokens(im)) : said \o rest = Rendered(im)
    <2>1. CASE pc = "main"
      <3>1. said = <<>>
        BY <1>2, <2>1, Zenon DEF Saying
      <3> QED  BY <1>1, <3>1, ConcatEmptySeq
    <2>2. CASE pc = "done"
      <3>1. said = Rendered(im)
        BY <1>2, <2>2, Zenon DEF Saying
      <3>2. <<>> \in Seq(Tokens(im)) /\ said \o <<>> = said
        BY ConcatEmptySeq
      <3> QED  BY <3>1, <3>2
    <2>3. CASE pc \notin {"main", "done"}
      <3>1. pc \in Running
        BY <2>3 DEF IInv, TInv, TypeOK, Printed, Running
      <3>2. PICK r : Owed(im, stack, r) /\ StillToCome(im, said, Remaining(im, pc, stack[1]), r[1])
        BY <1>2, <2>3, Zenon DEF Saying
      <3>3. r[1] \in Seq(Tokens(im))
        BY <3>1, <3>2, TopPlace, OwedFirst
      <3>4. Remaining(im, pc, stack[1]) \in Seq(Tokens(im))
        BY <3>1, RemainingIsText
      <3>5. Remaining(im, pc, stack[1]) \o r[1] \in Seq(Tokens(im))
        BY <3>3, <3>4, ConcatProperties
      <3> QED  BY <3>2, <3>5 DEF StillToCome
    <2> QED  BY <2>1, <2>2, <2>3
  <1>4. IsPrefix(out, Renderings[file])
    BY <1>1, <1>2, <1>3, KeptPrefix
  <1>5. pc = "done" => out = Renderings[file]
    BY <1>1, <1>2, Zenon DEF Saying
  <1> QED  BY <1>4, <1>5 DEF Printed

\* The text testbinson prints for a file none of whose documents is damaged is that of its
\* parse, whatever its size, its depth and the types in it: every pair once, in order and
\* at its depth, and it is printed to the end.
THEOREM TextIsPrinted == Spec => []OutputIsText
  <1>1. Init => PInv
    BY IInvInit, PrintedInit DEF PInv
  <1>2. PInv /\ [Next]_vars => PInv'
    <2> SUFFICES ASSUME PInv, [Next]_vars
                 PROVE  PInv'
      OBVIOUS
    <2>1. IInv'
      BY IInvNext DEF PInv
    <2>2. file' = file
      BY FileStays
    <2>3. IntactFiles' = IntactFiles
      BY DEF IntactFiles, ParsedFiles
    <2>4. file \in IntactFiles => Printed'
      BY <2>1, PrintedNext DEF PInv
    <2> QED  BY <2>1, <2>2, <2>3, <2>4 DEF PInv
  <1>3. PInv => OutputIsText
    BY PrintedImplies DEF PInv, OutputIsText
  <1> QED  BY <1>1, <1>2, <1>3, PTL DEF Spec
================================================================================
