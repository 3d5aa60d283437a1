------------------------------ MODULE MCBsonBuild ------------------------------
(***************************************************************************)
(* A small instance of BsonBuild, and the lists of pairs (BsonDoc) that its *)
(* bytes stand for by the grammar of BSON.  A bson_t holds twelve bytes     *)
(* itself, which a document of one number fills; blocks have up to 32.      *)
(***************************************************************************)
EXTENDS BsonBuild, BsonGrammar, LibbsonSamples

Regex == bson_append_regex(A, <<98, 98, 98, 98, 98>>, <<99, 99, 99, 99>>)
Number == bson_append_int32(A, LE(7, 4))

AllAppends == {Regex}
AllKeys == {<<>>}
AllNumbers == {<<BSON_TYPE_INT32, LE(9, 4)>>}
AllSizes == {10}
AllKeeps == {BSON_TYPE_REGEX}
AllNested == {BSON_TYPE_ARRAY}

\* No buffer, one with a document and bytes to spare, one with a broken document.
AllBuffers == {<<>>, DocumentOf(<<Number>>) \o <<Garbage>>, Changed(EmptyDocument, 5, 1), DocumentOf(<<Number>>)}

-----------------------------------------------------------------------------

\* The lists of pairs the memory stands for; written down in each state, that they need
\* not be read from the bytes again and again.
VARIABLE lists

\* The bytes of the bson_t b in m as they were when its child began: the last pair is
\* an empty document that begins where the child does.
Frozen(b, m) == LE(b.len, 4) \o Slice(m, b.offset + 4, b.len - 10) \o Five \o <<0>>

\* What bytes that are no document stand for: no list has such a pair.
Broken == <<[type |-> 0, key |-> <<>>, value |-> <<>>]>>

ListOf(b, m) ==
  IF IN_CHILD \notin b.flags
  THEN LET bytes == bson_get_data(m, b)
       IN  [pairs |-> IF IsDocument(bytes) THEN Pairs(bytes) ELSE Broken, type |-> 0, key |-> <<>>]
  ELSE LET pairs == Pairs(Frozen(b, m))
       IN  [pairs |-> SubSeq(pairs, 1, Len(pairs) - 1),
            type |-> pairs[Len(pairs)].type, key |-> pairs[Len(pairs)].key]

ListsOf(bson, m) == [i \in DOMAIN bson |-> ListOf(bson[i], m)]

MCInit == Init /\ lists = [d \in Docs |-> <<>>]
MCNext ==
  /\ Next
  /\ lists' = [d \in Docs |-> IF open'[d] = open[d] /\ mem'[d] = mem[d] THEN lists[d]
                               ELSE ListsOf(open'[d], mem'[d])]
MCSpec == MCInit /\ [][MCNext]_<<vars, lists>>

\* The bytes of a value that was kept, as they are behind its key.
KeptBytes ==
  IF kept = NoValue THEN <<0, <<>>>>
  ELSE <<kept.value_type, LET a == bson_append_value(<<>>, kept).bytes IN SubSeq(a, 3, Len(a))>>

PairOf(a) == Pairs(DocumentOf(<<a>>))[1]

RECURSIVE PairsBytes(_)
PairsBytes(pairs) ==
  IF pairs = <<>> THEN <<>>
  ELSE <<pairs[1].type>> \o pairs[1].key \o <<0>> \o pairs[1].value \o PairsBytes(Tail(pairs))

WholeBytes(pairs) == Sealed(PairsBytes(pairs))

SamplePairs == {PairOf(a) : a \in AllAppends}
SampleLists == {Pairs(DocumentOf(<<Number>>))}

Lists == INSTANCE BsonDoc WITH
  NewPairs <- SamplePairs,
  Loads <- SampleLists,
  Types <- Nested,
  Changes <- Numbers,
  Whole <- WholeBytes,
  kept <- KeptBytes

\* The bytes in memory stand for the lists of pairs the caller has asked for: an append
\* adds what was asked and nothing else, one that fails adds nothing, a document
\* inside a document becomes a pair when it ends, a copy has the same pairs; and the
\* innermost open document can be read at any time, for its bytes are a document.
BuildsLists == Lists!Spec

=============================================================================
