------------------------------ MODULE BsonLayout ------------------------------
(***************************************************************************)
(* The buffers binson.c is written for.  An image is a buffer with its     *)
(* parse: docs are the addresses where documents begin (at their length    *)
(* field), elems[d] the addresses where the key-value pairs of document d  *)
(* begin, val[e] where the value of pair e begins and next[e] where the    *)
(* pair ends.  WellFormed says that the parse is the one the BSON format   *)
(* gives the bytes; it uses none of the functions of binson.c, and speaks  *)
(* of one document and one pair at a time, so nothing is recursive.        *)
(*                                                                         *)
(* A document is SEALED when the byte its length field points at is zero,  *)
(* which opendoc tests; one that is not is the damaged document            *)
(* ERR_BADSIZEORENDING is there for, and its contents are not constrained. *)
(***************************************************************************)
EXTENDS BinsonBytes, SequencesExt, FiniteSetsExt

\* The bytes a value of type t takes, for every type bsontype declares.
Width ==
  [t \in {BT_UNDEFINED, BT_NULLVALUE, BT_BOOLFALSETRUE, BT_INT32BIT, BT_FLOP64BIT,
          BT_UTCDATETIME, BT_TIMESTAMP, BT_INT64BIT, BT_OBJECTID} |->
    CASE t \in {BT_UNDEFINED, BT_NULLVALUE} -> 0
      [] t = BT_BOOLFALSETRUE -> 1
      [] t = BT_INT32BIT -> 4
      [] t = BT_OBJECTID -> 12
      [] OTHER -> 8]

\* What a length field does not count: itself, and the subtype of binary data.
Uncounted ==
  [t \in {BT_EMBEDEDDOC, BT_ARRAY, BT_BINARYDATA, BT_UTF8STRING, BT_JSCODE, BT_SYMBOL} |->
    CASE t \in {BT_EMBEDEDDOC, BT_ARRAY} -> 0
      [] t = BT_BINARYDATA -> 5
      [] OTHER -> 4]

First(d) == d + 4
EndOf(im, d) == d + Int32At(im.bytes, d) - 1
SealedDocs(im) == {d \in im.docs : im.bytes[EndOf(im, d)] = 0}

Firsts(im) == {First(d) : d \in SealedDocs(im)}
Elems(im) == UNION {im.elems[d] : d \in SealedDocs(im)}
Ends(im) == {EndOf(im, d) : d \in SealedDocs(im)}

WellFormedValue(im, e) ==
  LET t == im.bytes[e]
  IN  \/ /\ t \in DOMAIN Width
         /\ im.next[e] = im.val[e] + Width[t]
      \/ /\ t \in DOMAIN Uncounted
         /\ im.val[e] + 4 <= im.next[e]
         /\ im.next[e] = im.val[e] + Uncounted[t] + Int32At(im.bytes, im.val[e])
         /\ t \in Containers => im.val[e] \in im.docs
         /\ t \in Strings => im.val[e] + 4 < im.next[e] /\ im.bytes[im.next[e] - 1] = 0

\* The pair at e ends where the next pair of d begins, or where d ends.
WellFormedElement(im, d, e) ==
  /\ {e, im.val[e], im.next[e]} \subseteq DOMAIN im.bytes
  /\ First(d) <= e /\ im.next[e] <= EndOf(im, d)
  /\ IsNulFrom(im.bytes, e + 1, im.val[e] - 1)
  /\ WellFormedValue(im, e)
  /\ im.next[e] \in im.elems[d] \cup {EndOf(im, d)}
  /\ \A f \in im.elems[d] : e < f => im.next[e] <= f

WellFormed(im) ==
  /\ 1 \in im.docs /\ im.docs \subseteq DOMAIN im.bytes
  /\ EndOf(im, 1) = Len(im.bytes)
  /\ \A d \in im.docs : Readable(im.bytes, d, 4) /\ EndOf(im, d) \in DOMAIN im.bytes
  /\ \A d \in SealedDocs(im) :
       /\ First(d) \in im.elems[d] \cup {EndOf(im, d)}
       /\ \A e \in im.elems[d] : WellFormedElement(im, d, e)

\* No document that opendoc accepts is empty.
NoneEmpty(im) == \A d \in SealedDocs(im) : im.elems[d] # {}

-----------------------------------------------------------------------------
(* What a search of an image should find, said of the parse alone.         *)

KeyOf(im, e) == SubSeq(im.bytes, e + 1, im.val[e] - 2)

\* The pairs from p on in the document that holds the pair at p.
From(im, p) ==
  LET holders == {d \in SealedDocs(im) : p \in im.elems[d]}
  IN  {f \in UNION {im.elems[d] : d \in holders} : p <= f}

Least(S) == IF S = {} THEN NULL ELSE Min(S)

FirstPrefixed(im, p, s) == Least({f \in From(im, p) : IsPrefix(s, KeyOf(im, f))})
FirstNamed(im, p, s) == Least({f \in From(im, p) : KeyOf(im, f) = s})
=============================================================================
