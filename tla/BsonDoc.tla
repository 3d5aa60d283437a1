-------------------------------- MODULE BsonDoc --------------------------------
(***************************************************************************)
(* What the functions that build documents promise: a document is a list   *)
(* of pairs; while documents are written inside it, a stack of such lists, *)
(* each but the last with the type and the key its successor will have.    *)
(***************************************************************************)
EXTENDS Naturals, Sequences

CONSTANTS
  Docs,          \* the documents
  NewPairs,      \* the pairs that are appended
  Loads,         \* the lists of pairs documents are read from
  Keys, Types,   \* the keys and the types of documents inside documents
  Changes,       \* the values pairs are given: a type and a value
  Whole(_)       \* the bytes of the document of a list of pairs

VARIABLES
  lists,         \* the open lists of each document, none if there is no document
  kept           \* the value that was kept: a type and a value, or None

vars == <<lists, kept>>

None == <<0, <<>>>>

Level(pairs) == [pairs |-> pairs, type |-> 0, key |-> <<>>]
Pair(key, type, value) == [key |-> key, type |-> type, value |-> value]

Init ==
  /\ lists = [d \in Docs |-> <<>>]
  /\ kept = None

Exists(d) == lists[d] # <<>>
Top(d) == lists[d][Len(lists[d])]
IsWhole(d) == Len(lists[d]) = 1

Makes(d, pairs) ==
  /\ ~Exists(d)
  /\ lists' = [lists EXCEPT ![d] = <<Level(pairs)>>]
  /\ kept' = kept

Adds(d, pairs) ==
  /\ Exists(d)
  /\ lists' = [lists EXCEPT ![d][Len(lists[d])].pairs = @ \o pairs]
  /\ kept' = kept

Make(d) == Makes(d, <<>>) \/ \E l \in Loads : Makes(d, l)

Copy(d, s) == Exists(s) /\ IsWhole(s) /\ Makes(d, Top(s).pairs)

CopyWithout(d, s, key) ==
  /\ Exists(s) /\ IsWhole(s)
  /\ Makes(d, SelectSeq(Top(s).pairs, LAMBDA p : p.key # key))

Add(d) == \E p \in NewPairs : Adds(d, <<p>>)
AddAll(d, s) == Exists(s) /\ IsWhole(s) /\ Adds(d, Top(s).pairs)
AddWhole(d, s, type, key) ==
  Exists(s) /\ IsWhole(s) /\ Adds(d, <<Pair(key, type, Whole(Top(s).pairs))>>)
AddKept(d, key) == kept # None /\ Adds(d, <<Pair(key, kept[1], kept[2])>>)

Open(d, type, key) ==
  /\ Exists(d)
  /\ lists' = [lists EXCEPT ![d] =
       SubSeq(@, 1, Len(@) - 1) \o <<[Top(d) EXCEPT !.type = type, !.key = key], Level(<<>>)>>]
  /\ kept' = kept

\* The list that ends becomes the last pair of the one around it.
Close(d) ==
  /\ Exists(d) /\ ~IsWhole(d)
  /\ LET outer == lists[d][Len(lists[d]) - 1]
     IN  lists' = [lists EXCEPT ![d] =
           Append(SubSeq(@, 1, Len(@) - 2),
                  Level(Append(outer.pairs, Pair(outer.key, outer.type, Whole(Top(d).pairs)))))]
  /\ kept' = kept

Clear(d) ==
  /\ Exists(d)
  /\ lists' = [lists EXCEPT ![d][Len(lists[d])].pairs = <<>>]
  /\ kept' = kept

Change(d) ==
  /\ Exists(d) /\ IsWhole(d)
  /\ \E i \in DOMAIN Top(d).pairs, c \in Changes :
       /\ Top(d).pairs[i].type = c[1]
       /\ lists' = [lists EXCEPT ![d][1].pairs[i].value = c[2]]
  /\ kept' = kept

Keep(d) ==
  /\ Exists(d) /\ IsWhole(d)
  /\ \E i \in DOMAIN Top(d).pairs : kept' = <<Top(d).pairs[i].type, Top(d).pairs[i].value>>
  /\ lists' = lists

Forget == kept' = None /\ lists' = lists

End(d) ==
  /\ Exists(d)
  /\ lists' = [lists EXCEPT ![d] = <<>>]
  /\ kept' = kept

Next ==
  \/ \E d \in Docs : Make(d) \/ Add(d) \/ Close(d) \/ Clear(d) \/ Change(d) \/ Keep(d) \/ End(d)
  \/ \E d, s \in Docs : Copy(d, s) \/ AddAll(d, s)
  \/ \E d, s \in Docs, k \in Keys : CopyWithout(d, s, k)
  \/ \E d, s \in Docs, t \in Types, k \in Keys : AddWhole(d, s, t, k)
  \/ \E d \in Docs, k \in Keys : AddKept(d, k)
  \/ \E d \in Docs, t \in Types, k \in Keys : Open(d, t, k)
  \/ Forget

Spec == Init /\ [][Next]_vars
=============================================================================
