--------------------------- MODULE BinsonApi_proofs ---------------------------
(***************************************************************************)
(* Theorems about BinsonApi, for every set of files and every set of paths.*)
(* First, where its pointers stay and how its loops go; then, what          *)
(* lookuppath finds: it implements PathSearch, and it returns the pair the  *)
(* rule of the code gives the path, which is the documented one on plain    *)
(* paths.                                                                   *)
(***************************************************************************)
EXTENDS BinsonApi, BsonLayout_proofs

\* The buffer that was loaded is a sequence of bytes.
LEMMA LoadedBuffer ==
  ASSUME file \in DOMAIN Images
  PROVE  m \in Buffer
  BY ImagesAssumption DEF m, im, Buffer

LEMMA PathTypes ==
  \A q \in Paths : q \in Seq(Seq(Char)) /\ q # <<>>
  BY PathsAssumption

LEMMA TailOfPath ==
  ASSUME NEW S, NEW q \in Seq(S), q # <<>>, Len(q) # 1
  PROVE  Tail(q) \in Seq(S) /\ Tail(q) # <<>>
  <1>1. Len(q) \in Nat \ {0}
    BY EmptySeq
  <1>2. Tail(q) \in Seq(S) /\ Len(Tail(q)) = Len(q) - 1
    BY HeadTailProperties
  <1>3. Len(Tail(q)) # 0
    BY <1>1, <1>2
  <1>4. Len(<<>>) = 0
    OBVIOUS
  <1> QED  BY <1>2, <1>3, <1>4

LEMMA TypeInit == Init => TypeOK
  BY DEF Init, TypeOK, NoCall, InLookuppath, NULL

LEMMA TypeNext == TypeOK /\ [Next]_vars => TypeOK'
  <1> USE DEF NULL
  <1> SUFFICES ASSUME TypeOK, [Next]_vars
               PROVE  TypeOK'
    OBVIOUS
  <1> USE DEF TypeOK, InLookuppath
  <1>0. m \in Buffer
    BY LoadedBuffer
  <1>1. ASSUME NEW p \in Int, NEW len, Opendoc(p, len)
        PROVE  TypeOK'
    <2>1. opendoc(m, p, len) \in Int /\ opendoc_errorno(m, p, len) \in {0, ERR_BADSIZEORENDING}
      BY <1>0, OpendocType DEF opendoc_errorno
    <2> QED  BY <1>1, <2>1 DEF Opendoc, Fault, locals
  <1>2. CASE OpenContent
    BY <1>2, <1>1 DEF OpenContent
  <1>3. CASE OpenValue
    BY <1>3, <1>1, <1>0, GetvalueType DEF OpenValue
  <1>4. CASE Nextitem
    <2>1. nextitem(m, el) \in Int
      BY <1>0, NextitemType
    <2> QED  BY <1>4, <2>1 DEF Nextitem, Fault, locals
  <1>5. CASE Getvalue
    <2>1. getvalue(m, el) \in Int /\ getvalue_errorno(m, el, errorno) \in {errorno, ERR_INVALIDBUFFER}
      BY <1>0, GetvalueType DEF getvalue_errorno
    <2> QED  BY <1>5, <2>1 DEF Getvalue, Fault, locals
  <1>6. ASSUME NEW q \in Paths, Lookuppath(q)
        PROVE  TypeOK'
    BY <1>6, PathTypes DEF Lookuppath
  <1>7. CASE PathEnds
    BY <1>7 DEF PathEnds, Return, locals
  <1>8. CASE CallLookup
    BY <1>8 DEF CallLookup
  <1>9. CASE LookupFinds
    BY <1>9 DEF LookupFinds
  <1>10. CASE LookupGoesOn
    <2>1. Following \in Int
      BY <1>0, NextitemType DEF Following
    <2> QED  BY <1>10, <2>1 DEF LookupGoesOn
  <1>11. CASE LookupMisses
    BY <1>11 DEF LookupMisses, Return, locals
  <1>12. CASE LookupFaults
    BY <1>12 DEF LookupFaults, Fault
  <1>13. CASE PathDone
    BY <1>13 DEF PathDone, Return, locals
  <1>14. CASE PathDescends
    <2>1. Tail(path) \in Seq(Seq(Char)) /\ Tail(path) # <<>>
      <3>1. path \in Seq(Seq(Char)) /\ path # <<>> /\ Len(path) # 1
        BY <1>14 DEF PathDescends, LastSegment
      <3> QED  BY <3>1, TailOfPath
    <2>2. opendoc(m, getvalue(m, base), 0) \in Int
      BY <1>0, GetvalueType, OpendocType
    <2>3. opendoc_errorno(m, getvalue(m, base), 0) \in {0, ERR_BADSIZEORENDING}
      BY DEF opendoc_errorno
    <2> QED  BY <1>14, <2>1, <2>2, <2>3 DEF PathDescends, OtherSegments, Fault
  <1>15. CASE UNCHANGED vars
    BY <1>15 DEF vars, locals
  <1> QED
    BY <1>2, <1>3, <1>4, <1>5, <1>6, <1>7, <1>8, <1>9, <1>10, <1>11, <1>12, <1>13, <1>14, <1>15
       DEF Next, Library, Program

\* Every variable keeps its type, whatever the files hold.
THEOREM TypeCorrect == Spec => []TypeOK
  BY TypeInit, TypeNext, PTL DEF Spec


-----------------------------------------------------------------------------
(* Where the pointers are in a proper image.  OnTrack is not inductive: a    *)
(* search is only known to go on, and to go on forwards, if its two pointers *)
(* are null only after an opendoc that failed, and probe is not behind base; *)
(* and no call but lookuppath leaves the buffer.                             *)

Track ==
  /\ doc \in {NULL} \cup Firsts(im)
  /\ el \in {NULL} \cup Elems(im) \cup Ends(im)
  /\ InLookuppath => base \in {NULL} \cup Elems(im)
  /\ InLookuppath /\ base = NULL => errorno = ERR_BADSIZEORENDING
  /\ pc = "scan" => probe \in {NULL} \cup Elems(im) /\ base <= probe
  /\ pc = "fault" => base = NULL /\ errorno = ERR_BADSIZEORENDING
  /\ pc # "idle" => call.op = "lookuppath"

IInv == TypeOK /\ (Proper => Track)

LEMMA FileStays ==
  ASSUME [Next]_vars
  PROVE  file' = file /\ im' = im /\ m' = m
  <1>1. file' = file
    BY DEF vars, Next, Library, Program, OpenContent, OpenValue, Opendoc, Nextitem, Getvalue,
           Lookuppath, PathEnds, CallLookup, LookupFinds, LookupGoesOn, LookupMisses,
           LookupFaults, PathDone, PathDescends, Return, Fault
  <1> QED  BY <1>1 DEF im, m

LEMMA ProperImage ==
  ASSUME TypeOK, Proper
  PROVE  WellFormed(im) /\ NoneEmpty(im) /\ m = im.bytes /\ m \in Buffer
  BY LoadedBuffer DEF Proper, ProperFiles, TypeOK, im, m

LEMMA SegmentType ==
  ASSUME TypeOK, InLookuppath
  PROVE  Head(path) \in Seq(Byte \ {0})
  <1>1. path \in Seq(Seq(Char)) /\ path # <<>>
    BY DEF TypeOK
  <1>2. Head(path) \in Seq(Char)
    BY <1>1, HeadTailProperties
  <1> QED  BY <1>2 DEF Char

LEMMA TrackInit == Init => (Proper => Track)
  BY DEF Init, Track, InLookuppath

\* opendoc on a document of the image opens it or returns null.
LEMMA TrackOpendoc ==
  ASSUME IInv, Proper, NEW d \in im.docs, NEW p, NEW len, Opendoc(p, len),
         im' = im,
         opendoc(m, p, len) = IF d \in SealedDocs(im) THEN First(d) ELSE NULL
  PROVE  Track'
  <1>1. opendoc(m, p, len) \in {NULL} \cup Firsts(im) /\ opendoc(m, p, len) # WILD
    <2>1. d \in Int /\ 1 <= d
      BY ProperImage, DocShape DEF IInv
    <2> QED  BY <2>1 DEF Firsts, First, NULL, WILD
  <1>2. Firsts(im) \subseteq Elems(im)
    BY ProperImage, FirstsAreElems DEF IInv
  <1> QED  BY <1>1, <1>2 DEF Opendoc, Track, InLookuppath, locals, IInv

LEMMA TrackOpenContent ==
  ASSUME IInv, Proper, OpenContent, im' = im
  PROVE  Track'
  <1>1. PICK len \in {0, Len(m)} : Opendoc(1, len)
    BY DEF OpenContent
  <1>2. 1 \in im.docs
    BY ProperImage DEF WellFormed, IInv
  <1>3. opendoc(m, 1, len) = IF 1 \in SealedDocs(im) THEN First(1) ELSE NULL
    BY ProperImage, OpendocOfContent DEF IInv
  <1> QED  BY <1>1, <1>2, <1>3, TrackOpendoc

LEMMA TrackOpenValue ==
  ASSUME IInv, Proper, OpenValue, im' = im
  PROVE  Track'
  <1>1. el \in Elems(im) /\ m[el] \in Containers
    <2>1. el \in DOMAIN m /\ m[el] \in Containers /\ el # NULL
      BY ProperImage DEF OpenValue, gettype, IInv, Buffer, NULL
    <2>2. m[el] # 0
      BY <2>1 DEF Containers, BT_EMBEDEDDOC, BT_ARRAY
    <2> QED  BY <2>1, <2>2, ProperImage, EndIsZero DEF IInv, Track
  <1>2. /\ im.val[el] \in im.docs
        /\ opendoc(m, getvalue(m, el), 0) =
             IF im.val[el] \in SealedDocs(im) THEN First(im.val[el]) ELSE NULL
    BY <1>1, ProperImage, ElemOpens DEF IInv
  <1> QED  BY <1>2, TrackOpendoc DEF OpenValue

LEMMA TrackNextitem ==
  ASSUME IInv, Proper, Nextitem, im' = im
  PROVE  Track'
  <1>1. el \in Elems(im)
    <2>1. el \in Elems(im) \cup Ends(im) /\ (el \in DOMAIN m => m[el] # 0)
      BY DEF Nextitem, IInv, Track
    <2> QED  BY <2>1, ProperImage, EndIsZero DEF IInv
  <1>2. nextitem(m, el) \in Elems(im) \cup Ends(im) /\ nextitem(m, el) \in DOMAIN m
    BY <1>1, ProperImage, ElemStep DEF IInv
  <1> QED  BY <1>2 DEF Nextitem, Track, InLookuppath, locals, IInv

LEMMA TrackGetvalue ==
  ASSUME IInv, Proper, Getvalue, im' = im
  PROVE  Track'
  <1>1. getvalue(m, el) # WILD
    <2>1. CASE el \in Elems(im)
      BY <2>1, ProperImage, ElemStep DEF IInv
    <2>2. CASE el \in Ends(im)
      BY <2>2, ProperImage, EndIsZero DEF getvalue, gettype, NULL, WILD, IInv
    <2> QED  BY <2>1, <2>2 DEF Getvalue, IInv, Track
  <1> QED  BY <1>1 DEF Getvalue, Track, InLookuppath, locals, IInv

LEMMA TrackLookuppath ==
  ASSUME IInv, Proper, NEW q \in Paths, Lookuppath(q), im' = im
  PROVE  Track'
  <1>1. Firsts(im) \subseteq Elems(im)
    BY ProperImage, FirstsAreElems DEF IInv
  <1> QED  BY <1>1 DEF Lookuppath, Track, InLookuppath, IInv

\* The turn of lookup's loop that goes on, and where it takes probe.
LEMMA ScanStep ==
  ASSUME IInv, Proper, pc = "scan", Differs
  PROVE  /\ probe \in Elems(im) /\ probe \in Int
         /\ Following \in Elems(im) \cup Ends(im) /\ Following \in DOMAIN m
         /\ Following \in Int /\ probe < Following
  <1>1. Head(path) \in Seq(Byte \ {0})
    BY SegmentType DEF InLookuppath, IInv
  <1>2. probe # NULL
    <2>1. Head(path) # <<>>
      <3>1. SUFFICES ASSUME Head(path) = <<>>
                     PROVE  KeyHasPrefix(m, probe, Head(path))
        BY DEF Differs
      <3>2. Len(<<>>) = 0
        OBVIOUS
      <3> QED  BY <3>1, <3>2 DEF KeyHasPrefix
    <2> QED  BY <2>1 DEF Differs, KeyRunsOut
  <1>3. probe \in Elems(im)
    BY <1>2 DEF IInv, Track
  <1> QED  BY <1>3, ProperImage, ElemStep DEF Following, IInv

LEMMA TrackLookupGoesOn ==
  ASSUME IInv, Proper, LookupGoesOn, im' = im
  PROVE  Track' /\ probe < probe'
  <1>1. /\ probe \in Elems(im) /\ probe \in Int /\ base \in Int
        /\ Following \in Elems(im) \cup Ends(im)
        /\ Following \in Int /\ probe < Following
    BY ScanStep DEF LookupGoesOn, IInv, TypeOK
  <1>2. Following \in Elems(im)
    BY <1>1, ProperImage, EndIsZero DEF LookupGoesOn, IInv
  <1> QED  BY <1>1, <1>2 DEF LookupGoesOn, Track, InLookuppath, IInv

LEMMA TrackLookupFaults ==
  ASSUME IInv, Proper, LookupFaults, im' = im
  PROVE  Track'
  <1>1. pc = "scan" /\ probe \in {NULL} \cup Elems(im) /\ base <= probe /\ base \in {NULL} \cup Elems(im)
    BY DEF LookupFaults, IInv, Track, InLookuppath
  <1>2. probe \notin Elems(im)
    <2>1. SUFFICES ASSUME probe \in Elems(im)
                   PROVE  FALSE
      OBVIOUS
    <2>2. ~KeyRunsOut(m, probe, Head(path))
      BY <1>1, <2>1, ProperImage, SegmentType, ElemKeyEnds DEF IInv, InLookuppath
    <2>3. Following \in DOMAIN m
      BY <2>1, ProperImage, ElemStep DEF IInv, Following
    <2> QED  BY <2>2, <2>3 DEF LookupFaults
  <1>3. base = NULL
    BY <1>1, <1>2, ProperImage, ElemStep DEF IInv, NULL
  <1> QED  BY <1>1, <1>3 DEF LookupFaults, Fault, Track, InLookuppath, IInv

\* The container a search enters: a step forwards, or a null pointer and an error.
LEMMA PathEnters ==
  ASSUME IInv, Proper, PathDescends, gettype(m, base) \in Containers
  PROVE  LET inside == opendoc(m, getvalue(m, base), 0)
         IN  /\ base \in Elems(im) /\ inside # WILD
             /\ \/ inside = NULL /\ opendoc_errorno(m, getvalue(m, base), 0) = ERR_BADSIZEORENDING
                \/ inside \in Elems(im) /\ base < inside
  <1> DEFINE d == im.val[base]  inside == opendoc(m, getvalue(m, base), 0)
  <1>1. base \in Elems(im)
    BY DEF PathDescends, IInv, Track, InLookuppath
  <1>2. d \in im.docs /\ inside = IF d \in SealedDocs(im) THEN First(d) ELSE NULL
    BY <1>1, ProperImage, ElemOpens DEF IInv, gettype
  <1>3. base \in Int /\ d \in Int /\ base < d /\ 1 <= base
    BY <1>1, ProperImage, ElemStep DEF IInv
  <1>4. CASE d \in SealedDocs(im)
    <2>1. inside = First(d) /\ First(d) \in Elems(im)
      BY <1>2, <1>4, ProperImage, FirstIsElem DEF IInv, Elems
    <2> QED  BY <1>1, <1>3, <2>1 DEF First, WILD
  <1>5. CASE d \notin SealedDocs(im)
    BY <1>1, <1>2, <1>5 DEF opendoc_errorno, NULL, WILD
  <1> QED  BY <1>4, <1>5

LEMMA TrackPathDescends ==
  ASSUME IInv, Proper, PathDescends, im' = im
  PROVE  Track' /\ (base' # NULL => base <= base')
  <1>0. call' = call /\ pc # "idle"
    BY DEF PathDescends
  <1>1. base \in Elems(im) /\ base \in Int /\ base \in DOMAIN m
    <2>1. base \in Elems(im)
      BY DEF PathDescends, IInv, Track, InLookuppath
    <2> QED  BY <2>1, ProperImage, ElemStep DEF IInv
  <1>2. CASE gettype(m, base) \in Containers
    <2>1. PICK inside : inside = opendoc(m, getvalue(m, base), 0)
      OBVIOUS
    <2>2. /\ inside # WILD
          /\ \/ inside = NULL /\ opendoc_errorno(m, getvalue(m, base), 0) = ERR_BADSIZEORENDING
             \/ inside \in Elems(im) /\ base < inside
      BY <1>2, <2>1, PathEnters
    <2>3. /\ base' = inside /\ errorno' = opendoc_errorno(m, getvalue(m, base), 0)
          /\ pc' = "path" /\ UNCHANGED <<doc, el>>
      BY <1>1, <1>2, <2>1, <2>2 DEF PathDescends, ToBeOpened
    <2>4. base' # NULL => base <= base'
      <3>1. inside \in Elems(im) => inside \in Int
        BY ProperImage, ElemStep DEF IInv
      <3> QED  BY <1>1, <2>2, <2>3, <3>1
    <2>5. inside \in Elems(im) => inside # NULL
      BY ProperImage, ElemStep DEF IInv, NULL
    <2> QED  BY <1>0, <2>2, <2>3, <2>4, <2>5 DEF Track, InLookuppath, IInv
  <1>3. CASE gettype(m, base) \notin Containers
    <2>1. base' = base /\ errorno' = errorno /\ pc' = "path" /\ UNCHANGED <<doc, el>>
      BY <1>1, <1>3 DEF PathDescends, ToBeOpened
    <2>2. base # NULL
      BY DEF PathDescends
    <2> QED  BY <1>0, <1>1, <2>1, <2>2 DEF Track, InLookuppath, IInv
  <1> QED  BY <1>2, <1>3

LEMMA TrackNext ==
  ASSUME IInv, Proper, [Next]_vars
  PROVE  Track'
  <1>0. im' = im
    BY FileStays
  <1>1. CASE OpenContent
    BY <1>0, <1>1, TrackOpenContent
  <1>2. CASE OpenValue
    BY <1>0, <1>2, TrackOpenValue
  <1>3. CASE Nextitem
    BY <1>0, <1>3, TrackNextitem
  <1>4. CASE Getvalue
    BY <1>0, <1>4, TrackGetvalue
  <1>5. ASSUME NEW q \in Paths, Lookuppath(q)
        PROVE  Track'
    BY <1>0, <1>5, TrackLookuppath
  <1>6. CASE PathEnds
    BY <1>0, <1>6 DEF PathEnds, Return, locals, Track, InLookuppath, IInv
  <1>7. CASE CallLookup
    <2>1. base \in Int
      BY DEF IInv, TypeOK
    <2> QED  BY <1>0, <1>7, <2>1 DEF CallLookup, Track, InLookuppath, IInv
  <1>8. CASE LookupFinds
    <2>1. probe = NULL => base = NULL
      BY <1>8, ProperImage, ElemStep DEF LookupFinds, IInv, Track, InLookuppath, NULL
    <2> QED  BY <1>0, <1>8, <2>1 DEF LookupFinds, Track, InLookuppath, IInv
  <1>9. CASE LookupGoesOn
    BY <1>0, <1>9, TrackLookupGoesOn
  <1>10. CASE LookupMisses
    BY <1>0, <1>10 DEF LookupMisses, Return, locals, Track, InLookuppath, IInv
  <1>11. CASE LookupFaults
    BY <1>0, <1>11, TrackLookupFaults
  <1>12. CASE PathDone
    BY <1>0, <1>12 DEF PathDone, Return, locals, Track, InLookuppath, IInv
  <1>13. CASE PathDescends
    BY <1>0, <1>13, TrackPathDescends
  <1>14. CASE UNCHANGED vars
    BY <1>0, <1>14 DEF vars, locals, Track, InLookuppath, IInv
  <1> QED
    BY <1>1, <1>2, <1>3, <1>4, <1>5, <1>6, <1>7, <1>8, <1>9, <1>10, <1>11, <1>12, <1>13, <1>14
       DEF Next, Library, Program

LEMMA InitIInv == Init => IInv
  BY TypeInit, TrackInit DEF IInv

LEMMA NextIInv == IInv /\ [Next]_vars => IInv'
  <1>1. ASSUME IInv, [Next]_vars
        PROVE  TypeOK' /\ (Proper' => Track')
    <2>1. TypeOK'
      BY <1>1, TypeNext DEF IInv
    <2>2. Proper' = Proper
      BY <1>1, FileStays DEF Proper
    <2> QED  BY <1>1, <2>1, <2>2, TrackNext
  <1> QED  BY <1>1 DEF IInv

LEMMA Inductive == Spec => []IInv
  BY InitIInv, NextIInv, PTL DEF Spec

\* In a proper image every pointer the library or its caller holds is null or on
\* a boundary of the parse, for every file and path: no sequence of opendoc,
\* nextitem, getvalue and lookuppath makes them lose their place.
THEOREM PointersOnTrack == Spec => []OnTrack
<1>1. IInv => OnTrack
  BY DEF IInv, Track, OnTrack
<1> QED  BY Inductive, <1>1, PTL

\* In a proper image the library reads outside of the buffer only through the
\* null pointer of an opendoc that failed inside lookuppath.
THEOREM FaultsAreFailedOpens == Spec => []FaultOnlyAfterFailedOpen
<1>1. IInv => FaultOnlyAfterFailedOpen
  BY DEF IInv, Track, FaultOnlyAfterFailedOpen
<1> QED  BY Inductive, <1>1, PTL

\* In a proper image the loops of lookup and lookuppath only move forwards: with
\* the finite document and the finite path, why they end.
THEOREM LoopsGoForward == Spec => ForwardOnly
<1>1. IInv /\ [Next]_vars => [Proper => StepsForward]_vars
  <2> SUFFICES ASSUME IInv, Proper, [Next]_vars
               PROVE  StepsForward \/ UNCHANGED vars
    OBVIOUS
  <2> USE DEF StepsForward, InLookuppath
  <2>0. base \in Int /\ probe \in Int
    BY DEF IInv, TypeOK
  <2>1. CASE Program
    <3>1. ~InLookuppath
      BY <2>1 DEF Program, OpenContent, OpenValue, Opendoc, Nextitem, Getvalue, Lookuppath
    <3> QED  BY <3>1
  <2>2. CASE PathEnds \/ LookupMisses \/ PathDone \/ LookupFaults
    <3>1. ~InLookuppath'
      BY <2>2 DEF PathEnds, LookupMisses, PathDone, LookupFaults, Return, Fault
    <3> QED  BY <3>1
  <2>3. CASE CallLookup
    BY <2>0, <2>3 DEF CallLookup
  <2>4. CASE LookupFinds
    BY <2>0, <2>4 DEF LookupFinds, IInv, Track
  <2>5. CASE LookupGoesOn
    <3>1. probe < probe' /\ base' = base
      BY <2>5, FileStays, TrackLookupGoesOn DEF LookupGoesOn
    <3> QED  BY <2>0, <3>1
  <2>6. CASE PathDescends
    <3>1. (base' # NULL => base <= base') /\ pc # "scan"
      BY <2>6, FileStays, TrackPathDescends DEF PathDescends
    <3> QED  BY <3>1
  <2> QED  BY <2>1, <2>2, <2>3, <2>4, <2>5, <2>6 DEF Next, Library
<1>2. Spec => [][Proper => StepsForward]_vars
  BY Inductive, <1>1, PTL DEF Spec
<1> QED  BY <1>2 DEF ForwardOnly
-----------------------------------------------------------------------------
(* What lookuppath finds.                                                  *)

(* How far a search has come.  Wherever the documents that hold base are,    *)
(* they hold probe too, and no pair between the two is a match: documents    *)
(* that share a pair go on alike, because a pair does not begin with the     *)
(* zero byte a document ends in.                                             *)

Scanned ==
  \A d \in SealedDocs(im) : base \in im.elems[d] =>
    /\ probe \in im.elems[d]
    /\ \A f \in im.elems[d] : base <= f /\ f < probe => ~ IsPrefix(Head(path), KeyOf(im, f))

Scan ==
  /\ pc = "scan" => (base = NULL => probe = NULL) /\ Scanned
  /\ pc \in {"scan", "matched"} => path # << <<>> >>

SInv == IInv /\ (Proper => Scan)

\* A turn of lookup's loop compares the whole key.
LEMMA TurnCompares ==
  ASSUME IInv, Proper, pc = "scan", probe \in Elems(im)
  PROVE  /\ Matches <=> IsPrefix(Head(path), KeyOf(im, probe))
         /\ Differs <=> ~ IsPrefix(Head(path), KeyOf(im, probe))
         /\ Following = im.next[probe]
  <1>1. Head(path) \in Seq(Byte \ {0})
    BY SegmentType DEF IInv, InLookuppath
  <1>2. ~ KeyRunsOut(m, probe, Head(path))
    BY <1>1, ProperImage, ElemKeyEnds DEF IInv
  <1>3. KeyHasPrefix(m, probe, Head(path)) <=> IsPrefix(Head(path), KeyOf(im, probe))
    BY <1>1, ProperImage, KeyPrefix DEF IInv
  <1>4. Following = im.next[probe]
    BY ProperImage, ElemStep DEF IInv, Following
  <1> QED  BY <1>2, <1>3, <1>4 DEF Matches, Differs

LEMMA ScanGoesOn ==
  ASSUME IInv, Proper, Scan, LookupGoesOn, im' = im
  PROVE  Scan'
  <1>1. pc = "scan" /\ pc' = "scan" /\ base' = base /\ path' = path /\ probe' = Following
    BY DEF LookupGoesOn
  <1>2. probe \in Elems(im) /\ probe # NULL
    BY ScanStep, ProperImage, ElemStep DEF LookupGoesOn, IInv, NULL
  <1>3. Following = im.next[probe] /\ ~ IsPrefix(Head(path), KeyOf(im, probe)) /\ m[Following] # 0
    BY <1>1, <1>2, TurnCompares DEF LookupGoesOn
  <1>4. ASSUME NEW d \in SealedDocs(im), base \in im.elems[d]
        PROVE  /\ im.next[probe] \in im.elems[d]
               /\ \A f \in im.elems[d] : base <= f /\ f < im.next[probe] => ~ IsPrefix(Head(path), KeyOf(im, f))
    <2>1. /\ probe \in im.elems[d]
          /\ \A f \in im.elems[d] : base <= f /\ f < probe => ~ IsPrefix(Head(path), KeyOf(im, f))
      BY <1>1, <1>4 DEF Scan, Scanned
    <2>2. /\ im.next[probe] \in im.elems[d]
          /\ \A f \in im.elems[d] : probe < f => im.next[probe] <= f
      BY <1>3, <2>1, ProperImage, NextOf DEF IInv
    <2>3. \A f \in im.elems[d] : f \in Int
      BY ProperImage, PairShape DEF IInv
    <2>4. ASSUME NEW f \in im.elems[d], base <= f, f < im.next[probe]
          PROVE  ~ IsPrefix(Head(path), KeyOf(im, f))
      <3>1. f \in Int /\ probe \in Int /\ im.next[probe] \in Int
        BY <2>1, <2>2, <2>3
      <3>2. f < probe \/ f = probe
        BY <2>2, <2>4, <3>1
      <3> QED  BY <1>3, <2>1, <2>4, <3>2
    <2> QED  BY <2>2, <2>4
  <1>5. Scanned'
    BY <1>1, <1>3, <1>4 DEF Scanned
  <1>6. base # NULL
    BY <1>1, <1>2 DEF Scan
  <1> QED  BY <1>1, <1>5, <1>6 DEF Scan

\* The next pair of a search that goes on is an element: nothing to compare before.
LEMMA ScanStarts ==
  ASSUME IInv, Proper, CallLookup, im' = im
  PROVE  Scan'
  <1>1. /\ pc' = "scan" /\ base' = base /\ path' = path /\ probe' = base
        /\ path # << <<>> >> /\ base \in {NULL} \cup Elems(im)
    BY DEF CallLookup, IInv, Track, InLookuppath
  <1>2. \A d \in SealedDocs(im) : \A f \in im.elems[d] : f \in Int
    BY ProperImage, PairShape DEF IInv
  <1>3. \A d \in SealedDocs(im) : base \in im.elems[d] =>
          \A f \in im.elems[d] : ~ (base <= f /\ f < base)
    BY <1>2
  <1>4. Scanned'
    BY <1>1, <1>3 DEF Scanned
  <1> QED  BY <1>1, <1>4 DEF Scan

LEMMA ScanNext ==
  ASSUME IInv, Proper, Scan, [Next]_vars
  PROVE  Scan'
  <1>0. im' = im
    BY FileStays
  <1>1. CASE LookupGoesOn
    BY <1>0, <1>1, ScanGoesOn
  <1>2. CASE CallLookup
    BY <1>0, <1>2, ScanStarts
  <1>3. CASE LookupFinds
    BY <1>3 DEF LookupFinds, Scan
  <1>4. CASE PathEnds \/ LookupMisses \/ LookupFaults \/ PathDone
    <2>1. pc' \in {"idle", "fault"}
      BY <1>4 DEF PathEnds, LookupMisses, LookupFaults, PathDone, Return, Fault
    <2> QED  BY <2>1 DEF Scan
  <1>5. CASE PathDescends
    <2>1. pc' \in {"path", "fault"}
      BY <1>5 DEF PathDescends, Fault
    <2> QED  BY <2>1 DEF Scan
  <1>6. CASE Program
    <2>1. pc' \in {"idle", "path", "fault"}
      BY <1>6 DEF Program, OpenContent, OpenValue, Opendoc, Nextitem, Getvalue, Lookuppath, Fault
    <2> QED  BY <2>1 DEF Scan
  <1>7. CASE UNCHANGED vars
    <2>1. UNCHANGED <<pc, base, probe, path>>
      BY <1>7 DEF vars
    <2> QED  BY <1>0, <2>1 DEF Scan, Scanned
  <1> QED
    BY <1>1, <1>2, <1>3, <1>4, <1>5, <1>6, <1>7 DEF Next, Library

LEMMA InitSInv == Init => SInv
  BY InitIInv DEF SInv, Init, Scan

LEMMA NextSInv == SInv /\ [Next]_vars => SInv'
  <1> SUFFICES ASSUME SInv, [Next]_vars
               PROVE  SInv'
    OBVIOUS
  <1>1. IInv'
    BY NextIInv DEF SInv
  <1>2. Proper' = Proper
    BY FileStays DEF Proper
  <1> QED  BY <1>1, <1>2, ScanNext DEF SInv

LEMMA SearchInductive == Spec => []SInv
  BY InitSInv, NextSInv, PTL DEF Spec

-----------------------------------------------------------------------------
(* How a search of one segment ends.                                       *)

\* lookup returns the first pair from base on whose key begins with the segment.
LEMMA FoundIsFirst ==
  ASSUME SInv, Proper, LookupFinds, base # NULL
  PROVE  probe = FirstPrefixed(im, base, Head(path)) /\ probe # NULL
  <1>1. pc = "scan" /\ Matches
    BY DEF LookupFinds
  <1>2. base \in Elems(im) /\ base <= probe
    BY <1>1 DEF SInv, IInv, Track, InLookuppath
  <1>3. PICK d \in SealedDocs(im) : base \in im.elems[d]
    BY <1>2 DEF Elems
  <1>4. probe \in im.elems[d]
    BY <1>1, <1>3 DEF SInv, Scan, Scanned
  <1>5. probe \in Elems(im) /\ probe # NULL
    BY <1>4, ProperImage, ElemStep DEF Elems, SInv, IInv, NULL
  <1>6. IsPrefix(Head(path), KeyOf(im, probe))
    BY <1>1, <1>5, TurnCompares DEF SInv
  <1>7. WellFormed(im) /\ im.bytes \in Buffer
    BY ProperImage DEF SInv, IInv
  <1>8. probe \in From(im, base)
    BY <1>2, <1>3, <1>4, <1>7, FromIs
  <1>9. ASSUME NEW f \in From(im, base), f < probe
        PROVE  ~ IsPrefix(Head(path), KeyOf(im, f))
    <2>1. PICK g \in SealedDocs(im) : base \in im.elems[g] /\ f \in im.elems[g] /\ base <= f
      BY <1>7, FromIs
    <2> QED  BY <1>1, <1>9, <2>1 DEF SInv, Scan, Scanned
  <1>10. FirstPrefixed(im, base, Head(path)) = probe
    BY <1>6, <1>7, <1>8, <1>9, FoundFirst
  <1> QED  BY <1>5, <1>10

\* lookup returns null when there is none.
LEMMA MissIsNone ==
  ASSUME SInv, Proper, LookupMisses
  PROVE  base # NULL /\ FirstPrefixed(im, base, Head(path)) = NULL
  <1>1. pc = "scan" /\ Differs /\ m[Following] = 0
    BY DEF LookupMisses
  <1>2. probe \in Elems(im) /\ probe # NULL
    BY <1>1, ScanStep, ProperImage, ElemStep DEF SInv, IInv, NULL
  <1>3. base # NULL
    BY <1>1, <1>2 DEF SInv, Scan
  <1>4. Following = im.next[probe] /\ ~ IsPrefix(Head(path), KeyOf(im, probe))
    BY <1>1, <1>2, TurnCompares DEF SInv
  <1>5. WellFormed(im) /\ im.bytes \in Buffer /\ m = im.bytes
    BY ProperImage DEF SInv, IInv
  <1>6. ASSUME NEW f \in From(im, base)
        PROVE  ~ IsPrefix(Head(path), KeyOf(im, f))
    <2>1. PICK g \in SealedDocs(im) : base \in im.elems[g] /\ f \in im.elems[g] /\ base <= f
      BY <1>5, FromIs
    <2>2. /\ probe \in im.elems[g]
          /\ f < probe => ~ IsPrefix(Head(path), KeyOf(im, f))
      BY <1>1, <2>1 DEF SInv, Scan, Scanned
    <2>3. f <= probe
      BY <1>1, <1>4, <1>5, <2>1, <2>2, NextOf
    <2>4. f \in Int /\ probe \in Int
      BY <1>5, <2>1, <2>2, PairShape
    <2>5. f < probe \/ f = probe
      BY <2>3, <2>4
    <2> QED  BY <1>4, <2>2, <2>5
  <1>7. FirstPrefixed(im, base, Head(path)) = NULL
    BY <1>5, <1>6, FirstPrefixedIs
  <1> QED  BY <1>3, <1>7

\* Through a null pointer only the empty segment is found, and it is "found" nowhere.
LEMMA FoundNothing ==
  ASSUME SInv, Proper, LookupFinds, base = NULL
  PROVE  probe = NULL /\ Head(path) = <<>>
  <1>1. probe = NULL
    BY DEF LookupFinds, SInv, Scan
  <1> QED  BY <1>1 DEF LookupFinds, Matches, KeyRunsOut

\* A search that leaves the buffer goes through a null pointer.
LEMMA FaultIsNull ==
  ASSUME SInv, Proper, LookupFaults
  PROVE  base = NULL /\ Head(path) # <<>>
  <1>1. pc = "scan" /\ base = NULL
    <2>1. Track'
      <3>1. im' = im
        BY DEF LookupFaults, Fault, im
      <3> QED  BY <3>1, TrackLookupFaults DEF SInv
    <2>2. pc' = "fault" /\ base' = base
      BY DEF LookupFaults, Fault
    <2> QED  BY <2>1, <2>2 DEF Track, LookupFaults
  <1>2. probe = NULL
    BY <1>1 DEF SInv, Scan
  <1>3. ASSUME Head(path) = <<>>
        PROVE  FALSE
    <2>1. Len(Head(path)) = 0
      BY <1>3
    <2>2. KeyHasPrefix(m, probe, Head(path)) /\ ~ KeyRunsOut(m, probe, Head(path))
      BY <1>3, <2>1 DEF KeyHasPrefix, KeyRunsOut
    <2> QED  BY <2>2 DEF LookupFaults, Differs
  <1> QED  BY <1>1, <1>3
-----------------------------------------------------------------------------
(* Refinement: every step of the library and of the program is a step of     *)
(* PathSearch, or leaves what PathSearch tells of it as it was.              *)

Phase == CASE pc \in {"path", "scan"} -> "seek" [] pc = "matched" -> "found" [] OTHER -> pc
Reply == IF LookupReturned THEN ret ELSE NULL

LEMMA PhaseIs ==
  /\ pc \in {"path", "scan"} => Phase = "seek"
  /\ pc = "matched" => Phase = "found"
  /\ pc \in {"idle", "fault"} => Phase = pc
  BY DEF Phase

LEMMA PhaseIsNext ==
  /\ pc' \in {"path", "scan"} => Phase' = "seek"
  /\ pc' = "matched" => Phase' = "found"
  /\ pc' \in {"idle", "fault"} => Phase' = pc'
  BY DEF Phase

\* PathSearch speaks of the parse in the words of BsonLayout.
LEMMA SameWords ==
  ASSUME NEW img, NEW p, NEW s
  PROVE  /\ Search!FirstPrefixed(img, p, s) = FirstPrefixed(img, p, s)
         /\ Search!First(p) = First(p)
         /\ Search!SealedDocs(img) = SealedDocs(img)
         /\ Search!Containers = Containers
         /\ Search!NULL = NULL
         /\ Search!im = im
  <1>1. Search!SealedDocs(img) = SealedDocs(img)
    BY DEF Search!SealedDocs, SealedDocs, Search!EndOf, EndOf, Search!Int32At, Int32At
  <1>2. Search!From(img, p) = From(img, p)
    BY <1>1 DEF Search!From, From
  <1>3. \A A : Search!Least(A) = Least(A)
    BY DEF Search!Least, Least, Search!Min, Min, Search!NULL, NULL
  <1>4. \A f : Search!IsPrefix(s, Search!KeyOf(img, f)) <=> IsPrefix(s, KeyOf(img, f))
    BY DEF Search!IsPrefix, IsPrefix, Search!KeyOf, KeyOf
  <1>5. Search!FirstPrefixed(img, p, s) = FirstPrefixed(img, p, s)
    BY <1>2, <1>3, <1>4 DEF Search!FirstPrefixed, FirstPrefixed
  <1> QED
    BY <1>1, <1>5 DEF Search!First, First, Search!NULL, NULL, Search!im, im,
       Search!Containers, Containers, Search!BT_EMBEDEDDOC, Search!BT_ARRAY, BT_EMBEDEDDOC, BT_ARRAY

\* No call of the program but lookuppath takes the search anywhere.
LEMMA CallForgets ==
  ASSUME SInv, Proper, OpenContent \/ OpenValue \/ Nextitem \/ Getvalue, im' = im, Track'
  PROVE  Search!Forget
  <1>1. /\ pc = "idle" /\ pc' \in {"idle", "fault"}
        /\ call'.op # "lookuppath" /\ UNCHANGED <<file, base, path>>
    BY DEF OpenContent, OpenValue, Opendoc, Nextitem, Getvalue, Fault, locals
  <1>2. pc' = "idle"
    BY <1>1 DEF Track
  <1>3. Phase = "idle" /\ Phase' = "idle" /\ Reply' = NULL
    BY <1>1, <1>2, PhaseIs, PhaseIsNext DEF Reply, LookupReturned
  <1> QED  BY <1>1, <1>3 DEF Search!Forget, Search!NULL, NULL, Phase, Reply
LEMMA AsksStep ==
  ASSUME SInv, Proper, NEW q \in Paths, Lookuppath(q)
  PROVE  \E d \in Search!SealedDocs(Search!im) : Search!Ask(d, q)
  <1>1. PICK d \in SealedDocs(im) : doc = First(d)
    BY DEF Lookuppath, SInv, IInv, Track, Firsts
  <1>2. Phase = "idle" /\ Phase' = "seek" /\ Reply' = NULL
    BY PhaseIs, PhaseIsNext DEF Lookuppath, Reply, LookupReturned
  <1>3. base' = Search!First(d) /\ path' = q /\ file' = file
    BY <1>1, SameWords DEF Lookuppath
  <1>4. d \in Search!SealedDocs(Search!im) /\ Search!NULL = NULL
    BY <1>1, SameWords
  <1>5. Search!Ask(d, q)
    BY <1>2, <1>3, <1>4 DEF Search!Ask, Phase, Reply
  <1> QED  BY <1>4, <1>5

\* What a call that returns p leaves behind is an answer.
LEMMA ReturnAnswers ==
  ASSUME SInv, Proper, pc # "idle", NEW p, Return(p), UNCHANGED locals
  PROVE  Search!Answer(p)
  <1>1. call.op = "lookuppath"
    BY DEF SInv, IInv, Track
  <1>2. Phase' = "idle" /\ Reply' = p /\ UNCHANGED <<file, base, path>>
    BY <1>1, PhaseIsNext DEF Return, Reply, LookupReturned, locals
  <1> QED  BY <1>2 DEF Search!Answer, Phase, Reply

LEMMA FindsStep ==
  ASSUME SInv, Proper, LookupFinds
  PROVE  Search!Finds \/ Search!FindsNothing
  <1>1. Phase = "seek" /\ Phase' = "found" /\ UNCHANGED <<file, path>> /\ base' = probe
    BY PhaseIs, PhaseIsNext DEF LookupFinds
  <1>2. Reply' = Reply
    BY DEF LookupFinds, Reply, LookupReturned
  <1>3. path # << <<>> >>
    BY DEF LookupFinds, SInv, Scan
  <1>4. CASE base # NULL
    <2>1. /\ probe = Search!FirstPrefixed(Search!im, base, Head(path)) /\ probe # NULL
          /\ Search!NULL = NULL
      BY <1>4, FoundIsFirst, SameWords
    <2> QED  BY <1>1, <1>2, <1>3, <1>4, <2>1 DEF Search!Finds, Search!Asked, Search!Target, Phase, Reply
  <1>5. CASE base = NULL
    <2>1. probe = base /\ Head(path) = <<>> /\ Search!NULL = NULL
      BY <1>5, FoundNothing, SameWords
    <2> QED  BY <1>1, <1>2, <1>3, <1>5, <2>1 DEF Search!FindsNothing, Search!Lost, Phase, Reply
  <1> QED  BY <1>4, <1>5

LEMMA MissesStep ==
  ASSUME SInv, Proper, LookupMisses
  PROVE  Search!Misses
  <1>1. Phase = "seek" /\ path # << <<>> >>
    BY PhaseIs DEF LookupMisses, SInv, Scan
  <1>2. Search!Answer(NULL)
    BY ReturnAnswers DEF LookupMisses
  <1>3. base # NULL /\ Search!FirstPrefixed(Search!im, base, Head(path)) = NULL /\ Search!NULL = NULL
    BY MissIsNone, SameWords
  <1> QED  BY <1>1, <1>2, <1>3 DEF Search!Misses, Search!Asked, Search!Target, Phase

LEMMA FaultsStep ==
  ASSUME SInv, Proper, LookupFaults
  PROVE  Search!Faults
  <1>1. Phase = "seek" /\ path # << <<>> >> /\ Phase' = "fault"
    BY PhaseIs, PhaseIsNext DEF LookupFaults, Fault, SInv, Scan
  <1>2. base = NULL /\ Head(path) # <<>> /\ Search!NULL = NULL
    BY FaultIsNull, SameWords
  <1>3. UNCHANGED <<file, base, path>> /\ Reply' = Reply
    BY DEF LookupFaults, Fault, Reply, LookupReturned
  <1> QED  BY <1>1, <1>2, <1>3 DEF Search!Faults, Search!Lost, Phase, Reply

LEMMA DescendsStep ==
  ASSUME SInv, Proper, PathDescends, im' = im
  PROVE  Search!Descends /\ base' = Enter(im, base) /\ pc' = "path"
  <1>1. base \in Elems(im) /\ base # NULL /\ pc = "matched" /\ Len(path) # 1 /\ base \in DOMAIN m
    BY ProperImage, ElemStep DEF PathDescends, LastSegment, SInv, IInv, Track, InLookuppath
  <1>2. Len(path) > 1
    <2>1. path \in Seq(Seq(Char)) /\ path # <<>>
      BY <1>1 DEF SInv, IInv, TypeOK, InLookuppath
    <2>2. PICK n \in Nat : n = Len(path)
      BY <2>1, LenProperties
    <2>3. n # 0
      BY <2>1, <2>2, EmptySeq
    <2> QED  BY <1>1, <2>2, <2>3
  <1>3. UNCHANGED <<file, call>> /\ path' = Tail(path) /\ base' = Enter(im, base) /\ pc' = "path"
    <2>1. CASE m[base] \in Containers
      <3>1. PICK inside : inside = opendoc(m, getvalue(m, base), 0)
        OBVIOUS
      <3>2. inside # WILD
        BY <2>1, <3>1, PathEnters DEF gettype, SInv
      <3>3. inside = Enter(im, base)
        BY <1>1, <2>1, <3>1, ProperImage, ElemOpens DEF Enter, SInv, IInv
      <3> QED  BY <1>1, <2>1, <3>1, <3>2, <3>3 DEF PathDescends, ToBeOpened, gettype, OtherSegments
    <2>2. CASE m[base] \notin Containers
      <3>1. Enter(im, base) = base
        BY <1>1, <2>2 DEF Enter, m
      <3> QED  BY <1>1, <2>2, <3>1 DEF PathDescends, ToBeOpened, gettype, OtherSegments
    <2> QED  BY <2>1, <2>2
  <1>4. Enter(im, base) = Search!Inside(base)
    BY <1>1, SameWords, ProperImage DEF Enter, Search!Inside, SInv, IInv
  <1>5. Phase = "found" /\ Phase' = "seek"
    BY <1>1, <1>3, PhaseIs, PhaseIsNext
  <1>6. Reply' = Reply
    BY <1>1, <1>3 DEF Reply, LookupReturned
  <1>7. Search!NULL = NULL
    BY SameWords
  <1>8. Search!Descends
    BY <1>1, <1>2, <1>3, <1>4, <1>5, <1>6, <1>7 DEF Search!Descends, Phase, Reply
  <1> QED  BY <1>3, <1>8

\* A step PathSearch does not see.
LEMMA StutterStep ==
  ASSUME CallLookup \/ LookupGoesOn \/ UNCHANGED vars
  PROVE  UNCHANGED Search!vars
  <1>1. CASE CallLookup \/ LookupGoesOn
    <2>1. Phase = "seek" /\ Phase' = "seek" /\ UNCHANGED <<file, base, path>>
      BY <1>1, PhaseIs, PhaseIsNext DEF CallLookup, LookupGoesOn
    <2>2. Reply' = Reply
      BY <1>1 DEF CallLookup, LookupGoesOn, Reply, LookupReturned
    <2> QED  BY <2>1, <2>2 DEF Search!vars, Phase, Reply
  <1>2. CASE UNCHANGED vars
    BY <1>2 DEF vars, Search!vars, LookupReturned
  <1> QED  BY <1>1, <1>2

LEMMA SearchInit == Init => Search!Init
  <1> SUFFICES ASSUME Init
               PROVE  Search!Init
    OBVIOUS
  <1>1. Phase = "idle" /\ Reply = NULL
    BY PhaseIs DEF Init, Reply, LookupReturned, NoCall
  <1> QED  BY <1>1, SameWords DEF Init, Search!Init, Phase, Reply

LEMMA SearchStep ==
  ASSUME SInv, Proper, [Next]_vars
  PROVE  [Search!Next]_(Search!vars)
  <1>0. im' = im /\ Track'
    BY FileStays, TrackNext DEF SInv
  <1>1. CASE OpenContent \/ OpenValue \/ Nextitem \/ Getvalue
    BY <1>0, <1>1, CallForgets DEF Search!Next
  <1>2. ASSUME NEW q \in Paths, Lookuppath(q)
        PROVE  Search!Next
    BY <1>2, AsksStep DEF Search!Next
  <1>3. CASE PathEnds
    <2>1. Search!Answer(NULL) /\ Phase = "seek" /\ path = << <<>> >> /\ Search!NULL = NULL
      BY <1>3, ReturnAnswers, PhaseIs, SameWords DEF PathEnds
    <2> QED  BY <2>1 DEF Search!Next, Search!Search, Search!Exhausted, Phase
  <1>4. CASE CallLookup \/ LookupGoesOn \/ UNCHANGED vars
    BY <1>4, StutterStep
  <1>5. CASE LookupFinds
    BY <1>5, FindsStep DEF Search!Next, Search!Search
  <1>6. CASE LookupMisses
    BY <1>6, MissesStep DEF Search!Next, Search!Search
  <1>7. CASE LookupFaults
    BY <1>7, FaultsStep DEF Search!Next, Search!Search
  <1>8. CASE PathDone
    <2>1. Search!Answer(base) /\ Phase = "found" /\ (base = NULL \/ Len(path) = 1) /\ Search!NULL = NULL
      BY <1>8, ReturnAnswers, PhaseIs, SameWords DEF PathDone, LastSegment
    <2> QED  BY <2>1 DEF Search!Next, Search!Search, Search!Returns, Phase
  <1>9. CASE PathDescends
    BY <1>0, <1>9, DescendsStep DEF Search!Next, Search!Search
  <1> QED
    BY <1>1, <1>2, <1>3, <1>4, <1>5, <1>6, <1>7, <1>8, <1>9 DEF Next, Library, Program

\* In a proper image lookuppath, which compares bytes and moves a pointer over them,
\* implements the search of the parse, whatever is called before, between and after
\* the searches: each segment is found in the pair the parse has it in, is missed
\* only where the parse has none, and is followed into the document it names.
THEOREM SearchesTheParse == Spec => ImplementsPathSearch
<1>1. SInv /\ [Next]_vars => (Proper => [Search!Next]_(Search!vars)) /\ (Proper' <=> Proper)
  BY SearchStep, FileStays DEF Proper
<1>2. Spec => (Proper => Search!Spec)
  BY SearchInit, <1>1, SearchInductive, PTL DEF Spec, Search!Spec
<1> QED  BY <1>2 DEF ImplementsPathSearch
-----------------------------------------------------------------------------
(* Where the segments of a path lead.                                      *)

Places(img) == {NULL} \cup Elems(img)

LEMMA EnterType ==
  ASSUME NEW img, WellFormed(img), NoneEmpty(img), img.bytes \in Buffer,
         NEW e \in Places(img)
  PROVE  Enter(img, e) \in Places(img) /\ (e = NULL => Enter(img, e) = NULL)
  <1>1. CASE e # NULL /\ img.bytes[e] \in Containers /\ img.val[e] \in SealedDocs(img)
    <2>1. Enter(img, e) = First(img.val[e])
      BY <1>1 DEF Enter
    <2>2. First(img.val[e]) \in Elems(img)
      BY <1>1, FirstIsElem DEF Elems
    <2> QED  BY <1>1, <2>1, <2>2 DEF Places
  <1>2. CASE ~ (e # NULL /\ img.bytes[e] \in Containers /\ img.val[e] \in SealedDocs(img))
    BY <1>2 DEF Enter, Places
  <1> QED  BY <1>1, <1>2

LEMMA PrefixStepIs ==
  ASSUME NEW img, WellFormed(img), NoneEmpty(img), img.bytes \in Buffer,
         NEW p, NEW s
  PROVE  /\ FirstPrefixed(img, p, s) \in Places(img) /\ PrefixStep(img, p, s) \in Places(img)
         /\ FirstPrefixed(img, p, s) = NULL => PrefixStep(img, p, s) = NULL
         /\ p = NULL => FirstPrefixed(img, p, s) = NULL
  <1>1. FirstPrefixed(img, p, s) \in Places(img)
    BY FirstPrefixedIs DEF Places
  <1>2. p = NULL => FirstPrefixed(img, p, s) = NULL
    BY FirstPrefixedIs, FromIs
  <1> QED  BY <1>1, <1>2, EnterType DEF PrefixStep

\* The place after i segments is a step from the place after i - 1.
LEMMA PrefixesLeadIs ==
  ASSUME NEW img, WellFormed(img), NoneEmpty(img), img.bytes \in Buffer,
         NEW p \in Places(img), NEW q, Len(q) \in Nat
  PROVE  /\ PrefixesLead(img, p, q)[0] = p
         /\ \A i \in 1 .. Len(q) :
              PrefixesLead(img, p, q)[i] = PrefixStep(img, PrefixesLead(img, p, q)[i - 1], q[i])
         /\ \A i \in 0 .. Len(q) : PrefixesLead(img, p, q)[i] \in Places(img)
  <1> DEFINE n == Len(q)
             Steps(r) == [i \in 0 .. n |-> IF i = 0 THEN p ELSE PrefixStep(img, r[i - 1], q[i])]
             to == PrefixesLead(img, p, q)
             step == [i \in 1 .. n |-> [e \in Places(img) |-> PrefixStep(img, e, q[i])]]
  <1>1. step \in StepsOn(Places(img), n)
    BY PrefixStepIs DEF StepsOn
  <1>2. PICK r \in [0 .. n -> Places(img)] : r[0] = p /\ \A i \in 1 .. n : r[i] = step[i][r[i - 1]]
    <2>1. n \in Nat
      OBVIOUS
    <2> HIDE DEF step, n
    <2>2. Walks(Places(img), n, p, step) # {}
      BY <1>1, <2>1, StepByStep
    <2> QED  BY <2>2 DEF Walks
  <1>3. r = Steps(r)
    <2>1. ASSUME NEW i \in 1 .. n
          PROVE  r[i] = PrefixStep(img, r[i - 1], q[i])
      <3>1. r[i - 1] \in Places(img)
        BY <1>2
      <3>2. step[i] = [e \in Places(img) |-> PrefixStep(img, e, q[i])]
        OBVIOUS
      <3>3. r[i] = step[i][r[i - 1]]
        BY <1>2
      <3> QED  BY <3>1, <3>2, <3>3
    <2>2. \A i \in 0 .. n : r[i] = Steps(r)[i]
      BY <1>2, <2>1
    <2> QED  BY <2>2
  <1>4. to = CHOOSE t : t = Steps(t)
    BY DEF PrefixesLead
  <1> HIDE DEF to
  <1>5. to = Steps(to)
    <2> HIDE DEF Steps
    <2> QED  BY <1>3, <1>4
  <1>6. to[0] = p
    BY <1>5
  <1>7. \A i \in 1 .. n : to[i] = PrefixStep(img, to[i - 1], q[i])
    BY <1>5
  <1>8. \A i \in 0 .. n : to[i] \in Places(img)
    BY <1>6, <1>7, PrefixStepIs
  <1> QED  BY <1>6, <1>7, <1>8 DEF to

LEMMA NameStepType ==
  ASSUME NEW img, WellFormed(img), NoneEmpty(img), img.bytes \in Buffer,
         NEW p, NEW s
  PROVE  NameStep(img, p, s) \in Places(img)
  <1> DEFINE A == {f \in From(img, p) : KeyOf(img, f) = s}  e == FirstNamed(img, p, s)
  <1>1. A \in SUBSET (Nat \ {0}) /\ A \subseteq Elems(img)
    BY FromIs, ElemsAreAddresses
  <1>2. e = Least(A)
    BY DEF FirstNamed
  <1> HIDE DEF A, e
  <1>3. e \in Places(img)
    BY <1>1, <1>2, LeastIs DEF Places
  <1>4. NameStep(img, p, s) \in {NULL, Enter(img, e)}
    BY DEF NameStep, e
  <1> QED  BY <1>3, <1>4, EnterType DEF Places

LEMMA NamesLeadIs ==
  ASSUME NEW img, WellFormed(img), NoneEmpty(img), img.bytes \in Buffer,
         NEW p \in Places(img), NEW q, Len(q) \in Nat
  PROVE  /\ NamesLead(img, p, q)[0] = p
         /\ \A i \in 1 .. Len(q) :
              NamesLead(img, p, q)[i] = NameStep(img, NamesLead(img, p, q)[i - 1], q[i])
  <1> DEFINE n == Len(q)
             Steps(r) == [i \in 0 .. n |-> IF i = 0 THEN p ELSE NameStep(img, r[i - 1], q[i])]
             to == NamesLead(img, p, q)
             step == [i \in 1 .. n |-> [e \in Places(img) |-> NameStep(img, e, q[i])]]
  <1>1. step \in StepsOn(Places(img), n)
    BY NameStepType DEF StepsOn
  <1>2. PICK r \in [0 .. n -> Places(img)] : r[0] = p /\ \A i \in 1 .. n : r[i] = step[i][r[i - 1]]
    <2>1. n \in Nat
      OBVIOUS
    <2> HIDE DEF step, n
    <2>2. Walks(Places(img), n, p, step) # {}
      BY <1>1, <2>1, StepByStep
    <2> QED  BY <2>2 DEF Walks
  <1>3. r = Steps(r)
    <2>1. ASSUME NEW i \in 1 .. n
          PROVE  r[i] = NameStep(img, r[i - 1], q[i])
      <3>1. r[i - 1] \in Places(img)
        BY <1>2
      <3>2. step[i] = [e \in Places(img) |-> NameStep(img, e, q[i])]
        OBVIOUS
      <3>3. r[i] = step[i][r[i - 1]]
        BY <1>2
      <3> QED  BY <3>1, <3>2, <3>3
    <2>2. \A i \in 0 .. n : r[i] = Steps(r)[i]
      BY <1>2, <2>1
    <2> QED  BY <2>2
  <1>4. to = CHOOSE t : t = Steps(t)
    BY DEF NamesLead
  <1> HIDE DEF to
  <1>5. to = Steps(to)
    <2> HIDE DEF Steps
    <2> QED  BY <1>3, <1>4
  <1> QED  BY <1>5 DEF to

\* Once a path has led nowhere it leads nowhere.
LEMMA NullStays ==
  ASSUME NEW img, WellFormed(img), NoneEmpty(img), img.bytes \in Buffer,
         NEW p \in Places(img), NEW q, Len(q) \in Nat,
         NEW k \in 0 .. Len(q), PrefixesLead(img, p, q)[k] = NULL
  PROVE  \A j \in k .. Len(q) : PrefixesLead(img, p, q)[j] = NULL
  <1> DEFINE to == PrefixesLead(img, p, q)  T == {i \in 0 .. Len(q) - k : to[k + i] = NULL}
  <1>0. \A i \in 1 .. Len(q) : to[i] = PrefixStep(img, to[i - 1], q[i])
    BY PrefixesLeadIs
  <1> HIDE DEF to
  <1>1. 0 \in T
    BY DEF to
  <1>2. ASSUME NEW i \in 0 .. (Len(q) - k) - 1, i \in T
        PROVE  i + 1 \in T
    <2>1. k + (i + 1) \in 1 .. Len(q) /\ (k + (i + 1)) - 1 = k + i /\ i + 1 \in 0 .. Len(q) - k
      OBVIOUS
    <2>2. to[k + i] = NULL
      BY <1>2
    <2>3. to[k + (i + 1)] = PrefixStep(img, NULL, q[k + (i + 1)])
      BY <1>0, <2>1, <2>2
    <2> QED  BY <2>1, <2>3, PrefixStepIs
  <1>3. 0 .. Len(q) - k \subseteq T
    <2>1. Len(q) - k \in Nat
      OBVIOUS
    <2> HIDE DEF T
    <2> QED  BY <1>1, <1>2, <2>1, UpTo
  <1>4. ASSUME NEW j \in k .. Len(q)
        PROVE  to[j] = NULL
    <2>1. j - k \in 0 .. Len(q) - k /\ k + (j - k) = j
      OBVIOUS
    <2>2. j - k \in T
      BY <1>3, <2>1
    <2> QED  BY <2>1, <2>2
  <1> QED  BY <1>4 DEF to

\* A segment that finds nothing decides the whole path.
LEMMA DeadEnd ==
  ASSUME NEW img, WellFormed(img), NoneEmpty(img), img.bytes \in Buffer,
         NEW p \in Places(img), NEW q, Len(q) \in Nat, NEW k \in 0 .. Len(q) - 1,
         FirstPrefixed(img, PrefixesLead(img, p, q)[k], q[k + 1]) = NULL
  PROVE  /\ CodeAnswer(img, p, q) = NULL
         /\ \A i \in k + 1 .. Len(q) - 1 : ~ Damaged(img, p, q, i)
  <1> DEFINE to == PrefixesLead(img, p, q)
  <1>1. k + 1 \in 1 .. Len(q) /\ (k + 1) - 1 = k /\ k + 1 \in 0 .. Len(q)
    OBVIOUS
  <1>2. to[k + 1] = NULL
    BY <1>1, PrefixesLeadIs, PrefixStepIs
  <1>3. \A j \in k + 1 .. Len(q) : to[j] = NULL
    BY <1>1, <1>2, NullStays
  <1>4. ASSUME NEW j \in k + 1 .. Len(q)
        PROVE  FirstPrefixed(img, to[j - 1], q[j]) = NULL
    <2>1. CASE j = k + 1
      BY <1>1, <2>1
    <2>2. CASE j # k + 1
      <3>1. j - 1 \in k + 1 .. Len(q)
        BY <2>2
      <3> QED  BY <1>3, <3>1, PrefixStepIs
    <2> QED  BY <2>1, <2>2
  <1>5. CodeAnswer(img, p, q) = NULL
    <2>1. Len(q) \in k + 1 .. Len(q)
      OBVIOUS
    <2> QED  BY <1>4, <2>1 DEF CodeAnswer, Last
  <1>6. ASSUME NEW i \in k + 1 .. Len(q) - 1
        PROVE  ~ Damaged(img, p, q, i)
    BY <1>4 DEF Damaged
  <1> QED  BY <1>5, <1>6

\* On a plain path the rule of the code and that of the documentation are one.
LEMMA PlainSame ==
  ASSUME NEW img, WellFormed(img), NoneEmpty(img), img.bytes \in Buffer,
         NEW p \in Places(img), NEW q \in Seq(Seq(Char)), q # <<>>, PlainPath(img, q)
  PROVE  CodeAnswer(img, p, q) = DocumentedAnswer(img, p, q)
  <1> DEFINE n == Len(q)  to == PrefixesLead(img, p, q)  tn == NamesLead(img, p, q)
             T == {i \in 0 .. n - 1 : to[i] = tn[i]}
  <1>0. n \in Nat /\ n # 0 /\ n \in 1 .. n /\ \A i \in 1 .. n : q[i] \in Seq(Char)
    BY EmptySeq, LenProperties
  <1>1. ASSUME NEW i \in 1 .. n, NEW x
        PROVE  FirstPrefixed(img, x, q[i]) = FirstNamed(img, x, q[i])
    <2>1. \A f \in From(img, x) : IsPrefix(q[i], KeyOf(img, f)) => KeyOf(img, f) = q[i]
      BY FromIs DEF PlainPath
    <2>2. IsPrefix(q[i], q[i])
      <3>1. Len(q[i]) \in Nat
        BY <1>0, LenProperties
      <3> QED  BY <3>1 DEF IsPrefix
    <2>3. {f \in From(img, x) : IsPrefix(q[i], KeyOf(img, f))} =
          {f \in From(img, x) : KeyOf(img, f) = q[i]}
      BY <2>1, <2>2
    <2> QED  BY <2>3 DEF FirstPrefixed, FirstNamed
  <1>2. ASSUME NEW i \in 1 .. n - 1, NEW x
        PROVE  PrefixStep(img, x, q[i]) = NameStep(img, x, q[i])
    <2> DEFINE e == FirstPrefixed(img, x, q[i])
    <2>1. i \in 1 .. n /\ i < n
      BY <1>0
    <2>2. e = FirstNamed(img, x, q[i])
      BY <1>1, <2>1
    <2>3. CASE e = NULL
      BY <2>2, <2>3, PrefixStepIs DEF NameStep
    <2>4. CASE e # NULL
      <3>1. e \in Elems(img) /\ IsPrefix(q[i], KeyOf(img, e))
        BY <2>4, FirstPrefixedIs
      <3>2. img.bytes[e] \in Containers
        BY <2>1, <3>1 DEF PlainPath
      <3> QED  BY <2>2, <2>4, <3>2 DEF NameStep, PrefixStep
    <2> QED  BY <2>3, <2>4
  <1>3. /\ to[0] = p /\ tn[0] = p
        /\ \A i \in 1 .. n : to[i] = PrefixStep(img, to[i - 1], q[i])
        /\ \A i \in 1 .. n : tn[i] = NameStep(img, tn[i - 1], q[i])
    BY <1>0, PrefixesLeadIs, NamesLeadIs
  <1> HIDE DEF to, tn, n
  <1>4. 0 \in T
    BY <1>0, <1>3
  <1>5. ASSUME NEW i \in 0 .. (n - 1) - 1, i \in T
        PROVE  i + 1 \in T
    <2>1. i + 1 \in 1 .. n - 1 /\ (i + 1) - 1 = i /\ i + 1 \in 1 .. n /\ i + 1 \in 0 .. n - 1
      BY <1>0
    <2>2. to[i + 1] = PrefixStep(img, to[i], q[i + 1]) /\ tn[i + 1] = NameStep(img, tn[i], q[i + 1])
      BY <1>3, <2>1
    <2> QED  BY <1>2, <1>5, <2>1, <2>2
  <1>6. 0 .. n - 1 \subseteq T
    <2>1. n - 1 \in Nat
      BY <1>0
    <2> HIDE DEF T
    <2> QED  BY <1>4, <1>5, <2>1, UpTo
  <1>7. to[n - 1] = tn[n - 1]
    <2>1. n - 1 \in 0 .. n - 1
      BY <1>0
    <2> QED  BY <1>6, <2>1
  <1>8. Last(q) = q[n] /\ Last(q) # <<>>
    BY <1>0 DEF Last, n, PlainPath, ToSet
  <1> QED  BY <1>0, <1>1, <1>7, <1>8 DEF CodeAnswer, DocumentedAnswer, n, to, tn

-----------------------------------------------------------------------------
(* The answer.  A search has come as far as the segments it has used lead,   *)
(* and what it returns is what all of them lead to.                          *)

Used == Len(call.path) - Len(path)

Tells ==
  /\ call.at \in Places(im)
  /\ Used \in 0 .. Len(call.path) - 1
  /\ \A i \in 1 .. Len(path) : path[i] = call.path[Used + i]
  /\ pc \in {"path", "scan"} => base = PrefixesLead(im, call.at, call.path)[Used]
  /\ pc = "matched" =>
       base = FirstPrefixed(im, PrefixesLead(im, call.at, call.path)[Used], call.path[Used + 1])
  /\ base # NULL => \A i \in 1 .. Used : ~ Damaged(im, call.at, call.path, i)

Answered ==
  LookupReturned =>
    /\ call.at \in Places(im) /\ call.path # <<>>
    /\ ret = CodeAnswer(im, call.at, call.path)

NotMissed ==
  pc = "idle" /\ errorno = 0 =>
    /\ call.op \in {"opendoc", "getvalue"} => ret # NULL
    /\ call.op = "lookuppath" =>
         \A i \in 1 .. Len(call.path) - 1 : ~ Damaged(im, call.at, call.path, i)

AInv == SInv /\ (Proper => (InLookuppath => Tells) /\ Answered /\ NotMissed)

\* What is left of a path that is being searched.
LEMMA PathShape ==
  ASSUME TypeOK, InLookuppath
  PROVE  /\ Len(path) \in Nat /\ Len(path) # 0 /\ Head(path) = path[1]
         /\ call.path \in Seq(Seq(Char)) /\ Len(call.path) \in Nat
  <1>1. path \in Seq(Seq(Char)) /\ path # <<>> /\ call.path \in Seq(Seq(Char))
    BY DEF TypeOK
  <1> QED  BY <1>1, EmptySeq, LenProperties

LEMMA TellsStart ==
  ASSUME SInv, Proper, NEW q \in Paths, Lookuppath(q)
  PROVE  Tells'
  <1>1. call'.at = doc /\ call'.path = q /\ base' = doc /\ path' = q /\ pc' = "path" /\ file' = file
    BY DEF Lookuppath
  <1>2. doc \in Elems(im) /\ im' = im
    BY <1>1, ProperImage, FirstsAreElems DEF Lookuppath, SInv, IInv, Track, im
  <1>3. q \in Seq(Seq(Char)) /\ Len(q) \in Nat /\ Len(q) # 0
    BY PathTypes, EmptySeq, LenProperties
  <1>4. Used' = 0
    BY <1>1, <1>3 DEF Used
  <1>5. doc \in Places(im)
    BY <1>2 DEF Places
  <1>6. PrefixesLead(im, doc, q)[0] = doc
    BY <1>3, <1>5, ProperImage, PrefixesLeadIs DEF SInv, IInv
  <1> QED  BY <1>1, <1>2, <1>3, <1>4, <1>5, <1>6 DEF Tells
LEMMA TellsTurn ==
  ASSUME Tells, CallLookup \/ LookupGoesOn, im' = im
  PROVE  Tells'
  <1>1. /\ pc \in {"path", "scan"} /\ pc' = "scan"
        /\ base' = base /\ path' = path /\ call' = call
    BY DEF CallLookup, LookupGoesOn
  <1>2. Used' = Used
    BY <1>1 DEF Used
  <1> QED  BY <1>1, <1>2 DEF Tells

\* Where the next segment leads is the segment of the path the search has come to.
LEMMA NextSegment ==
  ASSUME SInv, InLookuppath, Tells
  PROVE  /\ Head(path) = call.path[Used + 1]
         /\ Used \in 0 .. Len(call.path) - 1 /\ Len(call.path) \in Nat
         /\ Used + 1 \in 1 .. Len(call.path) /\ (Used + 1) - 1 = Used
         /\ Len(path) = 1 <=> Used = Len(call.path) - 1
  <1>1. Len(path) \in Nat /\ Len(path) # 0 /\ Head(path) = path[1] /\ Len(call.path) \in Nat
    BY PathShape DEF SInv, IInv
  <1>2. Used \in 0 .. Len(call.path) - 1 /\ 1 \in 1 .. Len(path)
    BY <1>1 DEF Tells
  <1>3. path[1] = call.path[Used + 1]
    BY <1>2 DEF Tells
  <1>4. Used = Len(call.path) - Len(path)
    BY DEF Used
  <1>5. PICK n \in Nat : n = Len(call.path)
    BY <1>1
  <1>6. PICK k \in 0 .. n - 1 : k = Used
    BY <1>2, <1>5
  <1>7. Len(path) = 1 <=> k = n - 1
    <2>1. PICK l \in Nat : l = Len(path)
      BY <1>1
    <2>2. k = n - l
      BY <1>4, <1>5, <1>6, <2>1
    <2> QED  BY <2>1, <2>2
  <1> QED  BY <1>1, <1>3, <1>5, <1>6, <1>7

LEMMA TellsFound ==
  ASSUME SInv, Proper, Tells, LookupFinds, im' = im
  PROVE  Tells'
  <1> DEFINE to == PrefixesLead(im, call.at, call.path)
  <1>1. /\ pc = "scan" /\ pc' = "matched"
        /\ base' = probe /\ path' = path /\ call' = call
    BY DEF LookupFinds
  <1>2. Used' = Used
    BY <1>1 DEF Used
  <1>3. Head(path) = call.path[Used + 1] /\ base = to[Used]
    BY <1>1, NextSegment DEF Tells, InLookuppath
  <1> HIDE DEF to
  <1>4. base' = FirstPrefixed(im, to[Used], call.path[Used + 1]) /\ (base = NULL => base' = NULL)
    <2>1. CASE base = NULL
      <3>1. probe = NULL
        BY <2>1, FoundNothing
      <3>2. FirstPrefixed(im, NULL, call.path[Used + 1]) = NULL
        BY ProperImage, PrefixStepIs DEF SInv, IInv
      <3> QED  BY <1>1, <1>3, <2>1, <3>1, <3>2
    <2>2. CASE base # NULL
      BY <1>1, <1>3, <2>2, FoundIsFirst
    <2> QED  BY <2>1, <2>2
  <1> QED  BY <1>1, <1>2, <1>4 DEF Tells, to

LEMMA TellsDescends ==
  ASSUME SInv, Proper, Tells, PathDescends, im' = im
  PROVE  Tells'
  <1> DEFINE at == call.at  q == call.path  to == PrefixesLead(im, at, q)  k == Used
  <1>1. pc = "matched" /\ Len(path) # 1 /\ call' = call /\ base # NULL
    BY DEF PathDescends, LastSegment
  <1>2. base' = Enter(im, base) /\ pc' = "path"
    BY DescendsStep
  <1>3. path' = Tail(path)
    BY <1>2 DEF PathDescends, Fault, OtherSegments
  <1>4. path \in Seq(Seq(Char)) /\ path # <<>> /\ Len(path) \in Nat
    BY <1>1, PathShape DEF SInv, IInv, TypeOK, InLookuppath
  <1>5. Len(path') = Len(path) - 1 /\ \A i \in 1 .. Len(path') : path'[i] = path[i + 1]
    BY <1>3, <1>4, HeadTailProperties
  <1>6. /\ k \in 0 .. Len(q) - 1 /\ Len(q) \in Nat /\ (k + 1) - 1 = k /\ k + 1 \in 1 .. Len(q)
        /\ k # Len(q) - 1 /\ Head(path) = q[k + 1]
    BY <1>1, NextSegment DEF InLookuppath
  <1>7. Used' = k + 1
    BY <1>1, <1>4, <1>5, <1>6 DEF Used
  <1>8. base = FirstPrefixed(im, to[k], q[k + 1]) /\ at \in Places(im)
    BY <1>1 DEF Tells
  <1>9. base' = to[k + 1]
    <2>1. to[k + 1] = PrefixStep(im, to[k], q[k + 1])
      BY <1>6, <1>8, ProperImage, PrefixesLeadIs DEF SInv, IInv
    <2> QED  BY <1>2, <1>8, <2>1 DEF PrefixStep
  <1>10. ASSUME NEW i \in 1 .. Len(path')
         PROVE  path'[i] = q[(k + 1) + i]
    <2>1. i + 1 \in 1 .. Len(path) /\ (k + 1) + i = k + (i + 1)
      BY <1>4, <1>5, <1>6
    <2>2. path[i + 1] = q[k + (i + 1)]
      BY <2>1 DEF Tells
    <2> QED  BY <1>5, <2>1, <2>2
  <1>11. ASSUME base' # NULL, NEW i \in 1 .. k + 1
         PROVE  ~ Damaged(im, at, q, i)
    <2>1. CASE i = k + 1
      <3>1. ~ (im.bytes[base] \in Containers /\ im.val[base] \notin SealedDocs(im))
        BY <1>1, <1>2, <1>11 DEF Enter
      <3> QED  BY <1>6, <1>8, <2>1, <3>1 DEF Damaged
    <2>2. CASE i # k + 1
      BY <1>1, <1>6, <2>2 DEF Tells
    <2> QED  BY <2>1, <2>2
  <1>12. k + 1 \in 0 .. Len(q) - 1
    BY <1>6
  <1> HIDE DEF k
  <1> QED  BY <1>1, <1>2, <1>7, <1>8, <1>9, <1>10, <1>11, <1>12 DEF Tells
\* What the end of a search returns, and what an errorno of zero says of it.
LEMMA SearchReturns ==
  ASSUME SInv, Proper, InLookuppath, Tells, PathEnds \/ LookupMisses \/ PathDone,
         file' = file
  PROVE  Answered' /\ NotMissed'
  <1> DEFINE at == call.at  q == call.path  to == PrefixesLead(im, at, q)  k == Used
  <1>1. im' = im /\ call' = call /\ errorno' = errorno
    BY DEF PathEnds, LookupMisses, PathDone, Return, im
  <1>2. /\ Head(path) = q[k + 1]
        /\ k \in 0 .. Len(q) - 1 /\ Len(q) \in Nat
        /\ Len(path) = 1 <=> k = Len(q) - 1
    BY NextSegment
  <1>3. at \in Places(im) /\ (base # NULL => \A i \in 1 .. k : ~ Damaged(im, at, q, i))
    BY DEF Tells
  <1>4. call.op = "lookuppath" /\ (base = NULL => errorno # 0)
    BY DEF SInv, IInv, Track, InLookuppath, ERR_BADSIZEORENDING
  <1>5. WellFormed(im) /\ NoneEmpty(im) /\ im.bytes \in Buffer
    BY ProperImage DEF SInv, IInv
  <1>6. SUFFICES /\ ret' = CodeAnswer(im, at, q)
                 /\ base # NULL => \A i \in k + 1 .. Len(q) - 1 : ~ Damaged(im, at, q, i)
    <2>1. \A i \in 1 .. Len(q) - 1 : i \in 1 .. k \/ i \in k + 1 .. Len(q) - 1
      BY <1>2
    <2>2. q # <<>>
      <3>1. Len(<<>>) = 0
        OBVIOUS
      <3> QED  BY <1>2, <3>1
    <2> HIDE DEF k
    <2> QED  BY <1>1, <1>3, <1>4, <1>6, <2>1, <2>2 DEF Answered, NotMissed, LookupReturned
  <1> HIDE DEF k, to
  <1>7. CASE PathEnds
    <2>1. path = << <<>> >> /\ ret' = NULL
      BY <1>7 DEF PathEnds, Return
    <2>2. Len(path) = 1 /\ Head(path) = <<>>
      BY <2>1
    <2>3. k = Len(q) - 1 /\ q[Len(q)] = <<>>
      BY <1>2, <2>2
    <2> QED  BY <1>2, <2>1, <2>3 DEF CodeAnswer, Last
  <1>8. ASSUME FirstPrefixed(im, to[k], q[k + 1]) = NULL
        PROVE  /\ CodeAnswer(im, at, q) = NULL
               /\ \A i \in k + 1 .. Len(q) - 1 : ~ Damaged(im, at, q, i)
    BY <1>2, <1>3, <1>5, <1>8, DeadEnd DEF to
  <1>9. CASE LookupMisses
    <2>1. base = to[k] /\ ret' = NULL
      BY <1>9 DEF LookupMisses, Return, Tells, to, k
    <2>2. FirstPrefixed(im, base, Head(path)) = NULL
      BY <1>9, MissIsNone
    <2> QED  BY <1>2, <1>8, <2>1, <2>2
  <1>10. CASE PathDone
    <2>1. base = FirstPrefixed(im, to[k], q[k + 1]) /\ ret' = base /\ path # << <<>> >>
      BY <1>10 DEF PathDone, Return, Tells, to, k, SInv, Scan
    <2>2. CASE base = NULL
      BY <1>8, <2>1, <2>2
    <2>3. CASE Len(path) = 1
      <3>1. k = Len(q) - 1 /\ k + 1 = Len(q)
        BY <1>2, <2>3
      <3>2. Last(q) # <<>>
        <4>1. path \in Seq(Seq(Char))
          BY DEF SInv, IInv, TypeOK
        <4>2. path = << path[1] >>
          BY <2>3, <4>1
        <4>3. Head(path) = path[1]
          BY <4>2
        <4> QED  BY <1>2, <2>1, <3>1, <4>2, <4>3 DEF Last
      <3>3. ret' = CodeAnswer(im, at, q)
        BY <2>1, <3>1, <3>2 DEF CodeAnswer, Last, to
      <3>4. k + 1 .. Len(q) - 1 = {}
        BY <1>2, <3>1
      <3> QED  BY <3>3, <3>4
    <2> QED  BY <1>10, <2>2, <2>3 DEF PathDone, LastSegment
  <1> QED  BY <1>7, <1>9, <1>10

\* A call that opens or reads reports that it failed.
LEMMA CallReports ==
  ASSUME IInv, OpenContent \/ OpenValue \/ Nextitem \/ Getvalue
  PROVE  Answered' /\ NotMissed' /\ ~ InLookuppath'
  <1>1. call'.op \in {"opendoc", "nextitem", "getvalue"} /\ pc' \in {"idle", "fault"}
    BY DEF OpenContent, OpenValue, Opendoc, Nextitem, Getvalue, Fault
  <1>2. ASSUME NEW p, NEW len, Opendoc(p, len), pc' = "idle", errorno' = 0
        PROVE  ret' # NULL
    BY <1>2 DEF Opendoc, Fault, opendoc_errorno, ERR_BADSIZEORENDING
  <1>3. ASSUME Getvalue, pc' = "idle", errorno' = 0
        PROVE  ret' # NULL
    BY <1>3 DEF Getvalue, Fault, getvalue_errorno, ERR_INVALIDBUFFER
  <1>4. CASE OpenContent \/ OpenValue
    <2>1. pc' = "idle" /\ errorno' = 0 => ret' # NULL
      BY <1>2, <1>4 DEF OpenContent, OpenValue
    <2> QED  BY <1>1, <2>1 DEF Answered, NotMissed, LookupReturned, InLookuppath
  <1>5. CASE Nextitem
    <2>1. call'.op = "nextitem"
      BY <1>5 DEF Nextitem
    <2> QED  BY <1>1, <2>1 DEF Answered, NotMissed, LookupReturned, InLookuppath
  <1>6. CASE Getvalue
    BY <1>1, <1>3, <1>6 DEF Answered, NotMissed, LookupReturned, InLookuppath
  <1> QED  BY <1>4, <1>5, <1>6
LEMMA AInit == Init => AInv
  BY InitSInv DEF AInv, Init, Answered, NotMissed, LookupReturned, InLookuppath, NoCall

LEMMA ANext == AInv /\ [Next]_vars => AInv'
  <1> SUFFICES ASSUME AInv, [Next]_vars
               PROVE  AInv'
    OBVIOUS
  <1>1. SInv' /\ file' = file /\ im' = im /\ Proper' = Proper
    BY NextSInv, FileStays DEF AInv, Proper
  <1>2. SUFFICES ASSUME Proper
                 PROVE  (InLookuppath' => Tells') /\ Answered' /\ NotMissed'
    BY <1>1 DEF AInv
  <1>3. SInv /\ IInv /\ (InLookuppath => Tells) /\ Answered /\ NotMissed
    BY <1>2 DEF AInv, SInv
  <1>4. pc' # "idle" => Answered' /\ NotMissed'
    BY DEF Answered, NotMissed, LookupReturned
  <1>5. CASE OpenContent \/ OpenValue \/ Nextitem \/ Getvalue
    BY <1>3, <1>5, CallReports
  <1>6. ASSUME NEW q \in Paths, Lookuppath(q)
        PROVE  Tells' /\ pc' # "idle"
    BY <1>2, <1>3, <1>6, TellsStart DEF Lookuppath
  <1>7. CASE CallLookup \/ LookupGoesOn
    <2>1. InLookuppath /\ pc' # "idle"
      BY <1>7 DEF CallLookup, LookupGoesOn, InLookuppath
    <2> QED  BY <1>1, <1>3, <1>4, <1>7, <2>1, TellsTurn
  <1>8. CASE LookupFinds
    <2>1. InLookuppath /\ pc' # "idle"
      BY <1>8 DEF LookupFinds, InLookuppath
    <2> QED  BY <1>1, <1>2, <1>3, <1>4, <1>8, <2>1, TellsFound
  <1>9. CASE PathDescends
    <2>1. InLookuppath /\ pc' # "idle"
      BY <1>9 DEF PathDescends, Fault, InLookuppath
    <2> QED  BY <1>1, <1>2, <1>3, <1>4, <1>9, <2>1, TellsDescends
  <1>10. CASE PathEnds \/ LookupMisses \/ PathDone
    <2>1. InLookuppath /\ ~ InLookuppath'
      BY <1>10 DEF PathEnds, LookupMisses, PathDone, Return, InLookuppath
    <2> QED  BY <1>1, <1>2, <1>3, <1>10, <2>1, SearchReturns
  <1>11. CASE LookupFaults
    <2>1. pc' = "fault"
      BY <1>11 DEF LookupFaults, Fault
    <2> QED  BY <1>4, <2>1 DEF InLookuppath
  <1>12. CASE UNCHANGED vars
    <2>1. UNCHANGED <<errorno, pc, base, path, call, ret>>
      BY <1>12 DEF vars
    <2>2. Used' = Used
      BY <2>1 DEF Used
    <2>3. InLookuppath' = InLookuppath /\ (Tells => Tells')
      BY <1>1, <2>1, <2>2 DEF InLookuppath, Tells
    <2>4. Answered' /\ NotMissed'
      BY <1>1, <1>3, <2>1 DEF Answered, NotMissed, LookupReturned
    <2> QED  BY <1>3, <2>3, <2>4
  <1> QED
    BY <1>4, <1>5, <1>6, <1>7, <1>8, <1>9, <1>10, <1>11, <1>12 DEF Next, Library, Program

LEMMA AnswerInductive == Spec => []AInv
  BY AInit, ANext, PTL DEF Spec

\* When errorno is zero after a call, opendoc and getvalue returned a pointer, and lookuppath
\* met no damaged document, one that opendoc refuses, however many it opened on its way.
THEOREM ErrorIsReported == Spec => []ErrorNotMissed
<1>1. AInv => ErrorNotMissed
  BY DEF AInv, NotMissed, ErrorNotMissed
<1> QED  BY AnswerInductive, <1>1, PTL
\* In a proper image lookuppath returns the pair its last segment leads to, each
\* segment leading to the first pair whose key begins with it, and null if there is
\* none or the path ends in a slash; on plain paths that is what README.md promises.
\* No earlier call, found or failed, has any part in the answer.
THEOREM AnswersAreRight == Spec => []LookupAnswer
<1>1. ASSUME AInv
      PROVE  LookupAnswer
  <2> SUFFICES ASSUME Proper, LookupReturned
               PROVE  /\ ret = CodeAnswer(im, call.at, call.path)
                      /\ PlainPath(im, call.path) => ret = DocumentedAnswer(im, call.at, call.path)
    BY DEF LookupAnswer
  <2>1. /\ call.at \in Places(im) /\ call.path # <<>>
        /\ ret = CodeAnswer(im, call.at, call.path)
    BY <1>1 DEF AInv, Answered
  <2>2. TypeOK
    BY <1>1 DEF AInv, SInv, IInv
  <2>3. call.path \in Seq(Seq(Char))
    BY <2>2 DEF TypeOK
  <2> QED  BY <2>1, <2>2, <2>3, ProperImage, PlainSame
<1> QED  BY AnswerInductive, <1>1, PTL
=============================================================================
