----------------------------- MODULE MCBsonStream -----------------------------
(***************************************************************************)
(* A small instance of BsonStream: buffers of four bytes that grow to 32,   *)
(* files of up to two documents, cut short or damaged, one or two in a row, *)
(* and documents that come over a connection while they are written.        *)
(***************************************************************************)
EXTENDS BsonStream, BsonGrammar, LibbsonSamples

Number == DocumentOf(<<bson_append_int32(A, LE(7, 4))>>)
Text == DocumentOf(<<bson_append_utf8(A, <<104, 105>>)>>)

AllFiles == {
  <<>>, Number \o EmptyDocument, EmptyDocument \o Text,
  EmptyDocument \o Slice(Number, 0, 9), EmptyDocument \o <<5, 0>>,
  EmptyDocument \o Changed(EmptyDocument, 1, 4), Changed(EmptyDocument, 4, 255),
  EmptyDocument \o Changed(EmptyDocument, 5, 1) }

\* Each file alone, and files behind one that is missing, damaged or not valid.
AllArgs == {<<f>> : f \in AllFiles}
  \cup {<<NoFile, Number \o EmptyDocument>>, <<EmptyDocument \o <<5, 0>>, Number>>,
        <<Changed(Text, 8, 200) \o EmptyDocument, EmptyDocument>>}

AllTools == {"to_json", "validate", "metrics", "streaming", "data"}

AllInitial == {<<>>, New(5), New(12)}
AllAppended == {bson_append_int32(A, LE(7, 4)), bson_append_null(<<>>)}
=============================================================================
