---------------------------- MODULE LibbsonSamples ----------------------------
(***************************************************************************)
(* The documents on which the modules about libbson are run, written with  *)
(* its append functions: a value of every type, documents in documents, and *)
(* each of them with one byte changed.                                     *)
(***************************************************************************)
EXTENDS BsonAppend, SequencesExt

A == <<97>>
B == <<98>>
AB == <<97, 98>>

\* The document of the given pairs.
Sealed(body) == LE(Len(body) + 5, 4) \o body \o <<0>>
DocumentOf(appends) ==
  Sealed(FlattenSeq([i \in DOMAIN appends |-> appends[i].bytes]))

EmptyDocument == DocumentOf(<<>>)

Seven(key) == bson_append_int32(key, LE(7, 4))
Oid == <<1, 2, 3, 4, 5, 6, 7, 8, 9, 10, 11, 12>>

\* One pair of every type.
EveryType == <<
  bson_append_double(A, <<0, 0, 0, 0, 0, 0, 240, 63>>), bson_append_utf8(A, <<104, 34>>),
  bson_append_document(A, DocumentOf(<<Seven(B)>>)), bson_append_array(A, DocumentOf(<<Seven(<<48>>)>>)),
  bson_append_binary(A, 128, <<0, 5>>), bson_append_binary(A, BSON_SUBTYPE_BINARY_DEPRECATED, <<5>>),
  bson_append_undefined(A), bson_append_oid(A, Oid), bson_append_bool(A, TRUE),
  bson_append_bool(AB, FALSE), bson_append_time_t(A, -2), bson_append_timeval(A, 2, 5000),
  bson_append_null(A), bson_append_utf8(A, NullString), bson_append_symbol(A, NullString),
  bson_append_regex(A, AB, B), bson_append_regex(A, NullString, NullString),
  bson_append_dbpointer(A, AB, Oid), bson_append_code(A, AB), bson_append_symbol(A, AB),
  bson_append_code_with_scope(A, AB, DocumentOf(<<Seven(B)>>)),
  bson_append_code_with_scope(A, AB, EmptyDocument),
  bson_append_int32(A, LE(-3, 4)), bson_append_timestamp(A, LE(1, 4), LE(2, 4)),
  bson_append_int64(A, LE(-3, 8)), bson_append_maxkey(A), bson_append_minkey(A) >>

\* m with its byte at i replaced.
Changed(m, i, c) == [m EXCEPT ![i] = c]
=============================================================================
