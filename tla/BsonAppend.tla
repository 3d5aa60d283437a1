------------------------------ MODULE BsonAppend ------------------------------
(***************************************************************************)
(* What each bson_append function of bson.c hands to _bson_append: the     *)
(* pieces of a pair, and the number of bytes it counts for them, for which *)
(* room is made before the pieces are copied.  Numbers are given as their  *)
(* bytes, a document as the bytes of its bson_t.                           *)
(***************************************************************************)
EXTENDS BsonIter

Appending(n_bytes, bytes) == [ok |-> TRUE, n_bytes |-> n_bytes, bytes |-> bytes]
NotAppended == [ok |-> FALSE, n_bytes |-> 0, bytes |-> <<>>]

gZero == <<0>>

\* A null pointer in place of a string.
NullString == <<-1>>

bson_append_array(key, array) ==
  Appending(1 + Len(key) + 1 + Len(array), <<BSON_TYPE_ARRAY>> \o key \o gZero \o array)

bson_append_binary(key, subtype, binary) ==
  LET length == Len(binary) IN
  IF subtype = BSON_SUBTYPE_BINARY_DEPRECATED
  THEN Appending(1 + Len(key) + 1 + 4 + 1 + 4 + length,
         <<BSON_TYPE_BINARY>> \o key \o gZero \o LE(length + 4, 4) \o <<subtype>> \o LE(length, 4) \o binary)
  ELSE Appending(1 + Len(key) + 1 + 4 + 1 + length,
         <<BSON_TYPE_BINARY>> \o key \o gZero \o LE(length, 4) \o <<subtype>> \o binary)

bson_append_bool(key, value) ==
  Appending(1 + Len(key) + 1 + 1, <<BSON_TYPE_BOOL>> \o key \o gZero \o (IF value THEN <<1>> ELSE <<0>>))

bson_append_code(key, javascript) ==
  LET js == CString(javascript) \o <<0>>
  IN  Appending(1 + Len(key) + 1 + 4 + Len(js), <<BSON_TYPE_CODE>> \o key \o gZero \o LE(Len(js), 4) \o js)

\* With an empty scope it is a code.
bson_append_code_with_scope(key, javascript, scope) ==
  LET js == CString(javascript) \o <<0>> IN
  IF bson_empty(scope) THEN bson_append_code(key, javascript)
  ELSE Appending(1 + Len(key) + 1 + 4 + 4 + Len(js) + Len(scope),
         <<BSON_TYPE_CODEWSCOPE>> \o key \o gZero \o LE(4 + 4 + Len(js) + Len(scope), 4) \o
           LE(Len(js), 4) \o js \o scope)

bson_append_dbpointer(key, collection, oid) ==
  LET c == CString(collection) \o <<0>>
  IN  Appending(1 + Len(key) + 1 + 4 + Len(c) + 12,
        <<BSON_TYPE_DBPOINTER>> \o key \o gZero \o LE(Len(c), 4) \o c \o oid)

bson_append_document(key, value) ==
  Appending(1 + Len(key) + 1 + Len(value), <<BSON_TYPE_DOCUMENT>> \o key \o gZero \o value)

bson_append_double(key, value) ==
  Appending(1 + Len(key) + 1 + 8, <<BSON_TYPE_DOUBLE>> \o key \o gZero \o value)

bson_append_int32(key, value) ==
  Appending(1 + Len(key) + 1 + 4, <<BSON_TYPE_INT32>> \o key \o gZero \o value)

bson_append_int64(key, value) ==
  Appending(1 + Len(key) + 1 + 8, <<BSON_TYPE_INT64>> \o key \o gZero \o value)

bson_append_maxkey(key) == Appending(1 + Len(key) + 1, <<BSON_TYPE_MAXKEY>> \o key \o gZero)
bson_append_minkey(key) == Appending(1 + Len(key) + 1, <<BSON_TYPE_MINKEY>> \o key \o gZero)
bson_append_null(key) == Appending(1 + Len(key) + 1, <<BSON_TYPE_NULL>> \o key \o gZero)
bson_append_undefined(key) == Appending(1 + Len(key) + 1, <<BSON_TYPE_UNDEFINED>> \o key \o gZero)

bson_append_oid(key, value) ==
  Appending(1 + Len(key) + 1 + 12, <<BSON_TYPE_OID>> \o key \o gZero \o value)

bson_append_regex(key, regex, options) ==
  LET r == (IF regex = NullString THEN <<>> ELSE CString(regex)) \o <<0>>
      o == (IF options = NullString THEN <<>> ELSE CString(options)) \o <<0>>
  IN  Appending(1 + Len(key) + 1 + Len(r) + Len(o), <<BSON_TYPE_REGEX>> \o key \o gZero \o r \o o)

\* Slip: the zero that ends the string is not counted.
bson_append_utf8_short(key, value) ==
  Appending(1 + Len(key) + 1 + 4 + Len(value),
    <<BSON_TYPE_UTF8>> \o key \o gZero \o LE(Len(value) + 1, 4) \o value \o gZero)

bson_append_utf8(key, value) ==
  IF value = NullString THEN bson_append_null(key)
  ELSE Appending(1 + Len(key) + 1 + 4 + Len(value) + 1,
         <<BSON_TYPE_UTF8>> \o key \o gZero \o LE(Len(value) + 1, 4) \o value \o gZero)

bson_append_symbol(key, value) ==
  IF value = NullString THEN bson_append_null(key)
  ELSE Appending(1 + Len(key) + 1 + 4 + Len(value) + 1,
         <<BSON_TYPE_SYMBOL>> \o key \o gZero \o LE(Len(value) + 1, 4) \o value \o gZero)

bson_append_timestamp(key, timestamp, increment) ==
  Appending(1 + Len(key) + 1 + 8, <<BSON_TYPE_TIMESTAMP>> \o key \o gZero \o increment \o timestamp)

bson_append_date_time(key, value) ==
  Appending(1 + Len(key) + 1 + 8, <<BSON_TYPE_DATE_TIME>> \o key \o gZero \o value)

\* Milliseconds, from seconds and microseconds.
bson_append_timeval(key, tv_sec, tv_usec) ==
  bson_append_date_time(key, LE(tv_sec * 1000 + (tv_usec \div 1000), 8))

bson_append_time_t(key, value) == bson_append_timeval(key, value, 0)

\* A value as bson_iter_value gives it.  A container is appended if it is a document.
bson_append_value(key, v) ==
  LET t == v.value_type IN
  CASE t = BSON_TYPE_DOUBLE -> bson_append_double(key, v.first)
    [] t = BSON_TYPE_UTF8 -> bson_append_utf8(key, v.first)
    [] t = BSON_TYPE_DOCUMENT /\ bson_init_static(v.first) -> bson_append_document(key, v.first)
    [] t = BSON_TYPE_ARRAY /\ bson_init_static(v.first) -> bson_append_array(key, v.first)
    [] t = BSON_TYPE_BINARY -> bson_append_binary(key, v.second[1], v.first)
    [] t = BSON_TYPE_UNDEFINED -> bson_append_undefined(key)
    [] t = BSON_TYPE_OID -> bson_append_oid(key, v.first)
    [] t = BSON_TYPE_BOOL -> bson_append_bool(key, v.first # <<0>>)
    [] t = BSON_TYPE_DATE_TIME -> bson_append_date_time(key, v.first)
    [] t = BSON_TYPE_NULL -> bson_append_null(key)
    [] t = BSON_TYPE_REGEX -> bson_append_regex(key, v.first, v.second)
    [] t = BSON_TYPE_DBPOINTER -> bson_append_dbpointer(key, v.first, v.second)
    [] t = BSON_TYPE_CODE -> bson_append_code(key, v.first)
    [] t = BSON_TYPE_SYMBOL -> bson_append_symbol(key, v.first)
    [] t = BSON_TYPE_CODEWSCOPE /\ bson_init_static(v.second) ->
         bson_append_code_with_scope(key, v.first, v.second)
    [] t = BSON_TYPE_INT32 -> bson_append_int32(key, v.first)
    [] t = BSON_TYPE_TIMESTAMP -> bson_append_timestamp(key, v.first, v.second)
    [] t = BSON_TYPE_INT64 -> bson_append_int64(key, v.first)
    [] t = BSON_TYPE_MAXKEY -> bson_append_maxkey(key)
    [] t = BSON_TYPE_MINKEY -> bson_append_minkey(key)
    [] OTHER -> NotAppended

\* bson_append_iter reads each value with the accessor of its type, as
\* bson_iter_value does.
bson_append_iter(key, it) == bson_append_value(key, bson_iter_value(it))
=============================================================================
