----------------------------- MODULE BsonSamples -----------------------------
(***************************************************************************)
(* The BSON documents the model-checking modules load: every type of value *)
(* that bsontype declares, every shape of two pairs, three levels of       *)
(* nesting, empty documents.                                               *)
(***************************************************************************)
EXTENDS BsonEncode

a == <<97>>
b == <<98>>
ab == <<97, 98>>

\* One value of every type.  The bytes of the wide ones look like keys and
\* types, so that a wrong width is read as pairs that are not there.
Scalars == <<
  [type |-> BT_FLOP64BIT, value |-> Raw(<<16, 97, 1, 16, 97, 1, 16, 64>>)],
  [type |-> BT_UTF8STRING, value |-> Str(a)],
  [type |-> BT_BINARYDATA, value |-> Bin(<<10, 98>>)],
  [type |-> BT_UNDEFINED, value |-> Raw(<<>>)],
  [type |-> BT_OBJECTID, value |-> Raw(<<10, 97, 0, 10, 98, 0, 10, 97, 0, 10, 98, 0>>)],
  [type |-> BT_BOOLFALSETRUE, value |-> Raw(<<1>>)],
  [type |-> BT_UTCDATETIME, value |-> Raw(<<9, 97, 0, 9, 98, 0, 1, 0>>)],
  [type |-> BT_NULLVALUE, value |-> Raw(<<>>)],
  [type |-> BT_JSCODE, value |-> Str(b)],
  [type |-> BT_SYMBOL, value |-> Str(<<>>)],
  [type |-> BT_TIMESTAMP, value |-> Raw(<<10, 97, 0, 0, 10, 98, 0, 0>>)],
  [type |-> BT_INT64BIT, value |-> Raw(<<1, 0, 0, 0, 1, 0, 0, 0>>)] >>

Number(k) == Pair(k, BT_INT32BIT, Raw(<<5, 1, 0, 0>>))
Scalar(k, i) == Pair(k, Scalars[i].type, Scalars[i].value)
Object(k, pairs) == Pair(k, BT_EMBEDEDDOC, Doc(pairs))

\* Each type as the first of two pairs, at the top and one level down.
TypeDocs ==
  [i \in DOMAIN Scalars |-> Doc(Scalar(a, i) ++ Number(b))] \o
  [i \in DOMAIN Scalars |-> Doc(Object(a, Scalar(b, i) ++ Number(a)) ++ Number(b))]

\* A number, a document of one number, an array of one number, by key.
Shape(k, t) ==
  Pair(k, t, IF t = BT_INT32BIT THEN Raw(<<5, 1, 0, 0>>)
             ELSE Doc(Number(IF t = BT_ARRAY THEN b ELSE a)))

\* Every two of them, under keys that differ, are equal, or begin alike.
ShapeDocs ==
  LET types == <<BT_INT32BIT, BT_EMBEDEDDOC, BT_ARRAY>>
      firsts == <<a, ab>>
      seconds == <<a, b>>
  IN  [i \in 1 .. 36 |->
        LET n == i - 1
        IN  Doc(Shape(firsts[(n % 2) + 1], types[((n \div 2) % 3) + 1]) ++
                Shape(seconds[((n \div 6) % 2) + 1], types[(n \div 12) + 1]))]

\* Three levels, and a pair after the nested ones.
Deep ==
  Doc(Number(ab) ++
      Object(a, Pair(b, BT_ARRAY, Doc(Number(a) ++ Number(b))) ++ Object(ab, Number(b))) ++
      Number(b))

EmptyDocs == <<Doc(NoPairs), Doc(Object(a, NoPairs) ++ Number(b))>>

\* With the last document damaged, or the second of several.
LastDamaged(im) == Damage(im, CHOOSE d \in im.docs : \A e \in im.docs : e <= d)
SecondDamaged(im) ==
  Damage(im, CHOOSE d \in im.docs \ {1} : \A e \in im.docs \ {1} : d <= e)

\* Images, whole and with their last document damaged.
WithDamaged(images) == images \o [i \in DOMAIN images |-> LastDamaged(images[i])]

\* Files that are not one BSON document: cut short, with bytes that follow, or
\* with a length field of 4, so that opendoc tests a byte of the field itself.
CutShort(bytes) ==
  LET lengths == <<0, 3, 4, 9, Len(bytes) - 1>>
  IN  [i \in DOMAIN lengths |-> Raw(SubSeq(bytes, 1, lengths[i]))]

Unparsed == <<
  <<5, 0, 0, 0, 0, 10>>, <<5, 0, 0, 0, 0, 10, 97>>, <<5, 0, 0, 0, 0, 10, 97, 0, 0>>,
  <<4, 0, 0, 0, 10, 97>>, <<4, 0, 0, 0, 10, 97, 0>>,
  <<4, 0, 0, 0, BT_INT32BIT, 97, 0, 1>>, <<4, 0, 0, 0, BT_ARRAY, 97, 0, 1>> >>

OtherFiles ==
  CutShort(Doc(Number(ab)).bytes) \o [i \in DOMAIN Unparsed |-> Raw(Unparsed[i])]
=============================================================================
