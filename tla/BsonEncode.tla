------------------------------ MODULE BsonEncode ------------------------------
(***************************************************************************)
(* Images (see BsonLayout) as a BSON writer makes them.  The writer is not *)
(* part of the repository: the documents it reads were written by others.  *)
(* A value and a pair are chunks: images whose addresses count from 1,     *)
(* with the addresses of their outermost pairs as starts; c ++ d is c with  *)
(* d behind it.                                                            *)
(***************************************************************************)
EXTENDS BsonLayout

Raw(bytes) ==
  [bytes |-> bytes, docs |-> {}, starts |-> {}, elems |-> <<>>, val |-> <<>>, next |-> <<>>]

Shifted(S, n) == {p + n : p \in S}
ShiftedMap(f, n) == [p \in Shifted(DOMAIN f, n) |-> f[p - n] + n]

\* c with d behind it, n being the length of c.
Joined(c, d, n) ==
  [bytes  |-> c.bytes \o d.bytes,
   docs   |-> c.docs \cup Shifted(d.docs, n),
   starts |-> c.starts \cup Shifted(d.starts, n),
   elems  |-> c.elems @@ [p \in Shifted(DOMAIN d.elems, n) |-> Shifted(d.elems[p - n], n)],
   val    |-> c.val @@ ShiftedMap(d.val, n),
   next   |-> c.next @@ ShiftedMap(d.next, n)]

c ++ d == Joined(c, d, Len(c.bytes))

\* The pair whose bytes are those of c, with its value at v.
AsPair(c, v) ==
  [c EXCEPT !.starts = {1}, !.val = (1 :> v) @@ @, !.next = (1 :> Len(c.bytes) + 1) @@ @]

\* The pair of key k and a value of type t.
Pair(k, t, value) == AsPair(Raw(<<t>> \o k \o <<0>>) ++ value, Len(k) + 3)

\* For lengths below 256, which all of the documents here have.
Int32Bytes(n) == <<n, 0, 0, 0>>

AsDoc(c) == [c EXCEPT !.docs = @ \cup {1}, !.starts = {}, !.elems = (1 :> c.starts) @@ @]

\* The document of the given pairs.
Doc(pairs) == AsDoc(Raw(Int32Bytes(Len(pairs.bytes) + 5)) ++ pairs ++ Raw(<<0>>))

NoPairs == Raw(<<>>)

Str(chars) == Raw(Int32Bytes(Len(chars) + 1) \o chars \o <<0>>)
Bin(bytes) == Raw(Int32Bytes(Len(bytes)) \o <<128>> \o bytes)

\* The image with the closing zero of document d overwritten.
Damage(im, d) == [im EXCEPT !.bytes[EndOf(im, d)] = 255]
=============================================================================
