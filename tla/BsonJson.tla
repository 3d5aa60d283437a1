------------------------------- MODULE BsonJson -------------------------------
(***************************************************************************)
(* The callbacks with which libbson makes a document of what yajl finds     *)
(* (bson-json.c), as functions of bson_json_reader_bson_t.  An object may   *)
(* stand for a value of another type, { "$oid" : ... }: what it is shows    *)
(* only with its first key, and its value is appended at its end.           *)
(*                                                                          *)
(* A document is the sequence of its elements, <<type, key, value>>.        *)
(***************************************************************************)
EXTENDS BsonText

CONSTANTS
  STACK_MAX,     \* how deep documents may be nested (100)
  INT32_MAX,     \* the largest int32_t
  DateOf         \* what _bson_iso8601_date_parse reads: a function on the texts it accepts

ASSUME JsonAssumption ==
  /\ STACK_MAX \in Nat /\ STACK_MAX >= 1
  /\ INT32_MAX \in Nat /\ INT64_MAX \in Nat /\ INT64_MAX >= INT32_MAX
  /\ HugeDoubles \subseteq Seq(0 .. 255)

\* The keys of special types.
Named(codes) == <<36>> \o codes
Options ==
  { [key |-> Named(<<114, 101, 103, 101, 120>>), type |-> "regex", state |-> "REGEX"],
    [key |-> Named(<<111, 112, 116, 105, 111, 110, 115>>), type |-> "regex", state |-> "OPTIONS"],
    [key |-> Named(<<111, 105, 100>>), type |-> "oid", state |-> "OID"],
    [key |-> Named(<<98, 105, 110, 97, 114, 121>>), type |-> "binary", state |-> "BINARY"],
    [key |-> Named(<<116, 121, 112, 101>>), type |-> "binary", state |-> "TYPE"],
    [key |-> Named(<<100, 97, 116, 101>>), type |-> "date", state |-> "DATE"],
    [key |-> Named(<<114, 101, 102>>), type |-> "dbpointer", state |-> "REF"],
    [key |-> Named(<<105, 100>>), type |-> "dbpointer", state |-> "ID"],
    [key |-> Named(<<117, 110, 100, 101, 102, 105, 110, 101, 100>>), type |-> "undefined", state |-> "UNDEFINED"],
    [key |-> Named(<<109, 105, 110, 75, 101, 121>>), type |-> "minkey", state |-> "MINKEY"],
    [key |-> Named(<<109, 97, 120, 75, 101, 121>>), type |-> "maxkey", state |-> "MAXKEY"],
    [key |-> Named(<<110, 117, 109, 98, 101, 114, 76, 111, 110, 103>>), type |-> "int64", state |-> "INT64"] }
Timestamp == Named(<<116, 105, 109, 101, 115, 116, 97, 109, 112>>)
NumberLong == Named(<<110, 117, 109, 98, 101, 114, 76, 111, 110, 103>>)

NoKey == <<-1>>
NoData ==
  [b0 |-> FALSE, b1 |-> FALSE, subtype |-> 0, date |-> 0, t |-> 0, i |-> 0, value |-> 0,
   oid |-> <<>>, id |-> <<>>]

\* ret is what the last callback returned; aborted says that it did not return.
NewBson ==
  [doc |-> <<>>, frames |-> <<>>, key |-> NoKey, read_state |-> "REGULAR", bson_state |-> "REGEX",
   type |-> "none", data |-> NoData, buf0 |-> <<>>, buf1 |-> <<>>, ret |-> TRUE, aborted |-> FALSE,
   error |-> "none"]

Refuse(b) == [b EXCEPT !.ret = FALSE]

set_error(b) == [b EXCEPT !.read_state = "ERROR", !.ret = FALSE, !.error = "INVALID_PARAM"]
State(b, state) == [b EXCEPT !.read_state = state]

-----------------------------------------------------------------------------
(* The stack of documents: data has one flag in common for all types, b0,   *)
(* and another, b1, for those that have two parts.                          *)

Frame(is_array, key, pairs) == [is_array |-> is_array, i |-> 0, key |-> key, pairs |-> pairs]
InArray(b) == b.frames # <<>> /\ b.frames[Len(b.frames)].is_array

\* Slip: nothing bounds how deep documents are nested.
PushUnbounded(b, is_array) ==
  [b EXCEPT !.frames = Append(@, Frame(is_array, b.key, IF @ = <<>> THEN b.doc ELSE <<>>))]

\* STACK_PUSH_ARRAY, STACK_PUSH_DOC; the caller's document is at the bottom.
Push(b, is_array) ==
  IF Len(b.frames) >= STACK_MAX THEN Refuse(b)
  ELSE [b EXCEPT !.frames = Append(@, Frame(is_array, b.key, IF @ = <<>> THEN b.doc ELSE <<>>))]

\* STACK_POP_ARRAY, STACK_POP_DOC, and the end of what was pushed first.
Pop(b, is_array) ==
  LET n == Len(b.frames)
      parent == b.frames[n - 1]
      child == b.frames[n]
      ended == <<IF is_array THEN "array" ELSE "document", child.key, child.pairs>>
  IN  IF n = 0 \/ InArray(b) # is_array THEN Refuse(b)
      ELSE IF n = 1 THEN [b EXCEPT !.doc = child.pairs, !.frames = <<>>, !.read_state = "DONE", !.ret = FALSE]
      ELSE [b EXCEPT !.frames =
              Append(SubSeq(b.frames, 1, n - 2), [parent EXCEPT !.pairs = Append(@, ended)])]

\* bson_uint32_to_string.
bson_uint32_to_string(value) ==
  LET digits[n \in 0 .. value] == (IF n < 10 THEN <<>> ELSE digits[n \div 10]) \o <<48 + (n % 10)>>
  IN  digits[value]

\* Slip: the elements of an array are not counted.
fixup_key_uncounted(b) ==
  IF ~InArray(b) THEN b ELSE [b EXCEPT !.key = bson_uint32_to_string(b.frames[Len(b.frames)].i)]

\* In an array the key is the number of the element.
fixup_key(b) ==
  IF ~InArray(b) THEN b
  ELSE LET n == Len(b.frames) IN
       [b EXCEPT !.key = bson_uint32_to_string(b.frames[n].i), !.frames[n].i = @ + 1]

\* bson_append_*, to the document that was begun last.  Where none was begun the key
\* is NULL, which they assert it is not (unless an earlier document of the reader has
\* left one: then the append goes to memory that is no document, and is taken to end
\* the program as well).
Appended(b, type, value) ==
  LET n == Len(b.frames) IN
  IF n = 0 THEN [b EXCEPT !.ret = FALSE, !.aborted = TRUE]
  ELSE [b EXCEPT !.frames[n].pairs = Append(@, <<type, b.key, value>>)]

\* BASIC_YAJL_CB_BAIL_IF_NOT_NORMAL.
Normal(b) == b.read_state = "REGULAR" /\ b.key # NoKey
AppendNormal(b, type, value) == IF Normal(b) THEN Appended(b, type, value) ELSE set_error(b)

-----------------------------------------------------------------------------
(* Values.                                                                 *)

_bson_json_read_null(b) == AppendNormal(fixup_key(b), "null", <<>>)

_bson_json_read_boolean(b0, val) ==
  LET b == fixup_key(b0) IN
  IF b.read_state = "IN_BSON_TYPE" /\ b.bson_state = "UNDEFINED"
  THEN [b EXCEPT !.data.b0 = TRUE] ELSE AppendNormal(b, "bool", val)

\* A number that fits is appended as int32.
_bson_json_read_integer(b0, val) ==
  LET b == fixup_key(b0)
      unsigned == val % (2 * (INT32_MAX + 1))
      special == [b EXCEPT !.data.b0 = TRUE]
  IN  IF b.read_state = "REGULAR"
      THEN IF val <= INT32_MAX THEN AppendNormal(b, "int32", Wrapped(val, INT32_MAX))
           ELSE AppendNormal(b, "int64", val)
      ELSE IF b.read_state \notin {"IN_BSON_TYPE", "TIMESTAMP_VALUES"} THEN set_error(b)
      ELSE CASE b.bson_state = "DATE" -> [special EXCEPT !.data.date = val]
             [] b.bson_state = "TIMESTAMP_T" -> [special EXCEPT !.data.t = unsigned]
             [] b.bson_state = "TIMESTAMP_I" -> [b EXCEPT !.data.b1 = TRUE, !.data.i = unsigned]
             [] b.bson_state \in {"MINKEY", "MAXKEY"} -> special
             [] OTHER -> set_error(b)

_bson_json_read_double(b, val) == AppendNormal(fixup_key(b), "double", val)

\* The number of "$numberLong", alone or in a "$date".
ReadInt64(b, val, behind) ==
  LET number == bson_ascii_strtoll(val \o <<behind>>) IN
  IF number.end # Len(val) + 1 \/ b.read_state = "TIMESTAMP_VALUES" THEN set_error(b)
  ELSE IF b.read_state = "IN_BSON_TYPE" THEN [b EXCEPT !.data.value = number.value]
  ELSE [b EXCEPT !.data.b0 = TRUE, !.data.date = number.value]

_bson_json_read_string(b0, val, behind) ==
  LET b == fixup_key(b0)
      first == [b EXCEPT !.data.b0 = TRUE]
      second == [b EXCEPT !.data.b1 = TRUE]
  IN  IF b.read_state = "REGULAR" THEN AppendNormal(b, "utf8", val)
      ELSE IF b.read_state \notin {"IN_BSON_TYPE", "TIMESTAMP_VALUES", "DATE_NUMBERLONG"} THEN set_error(b)
      ELSE CASE b.bson_state \in {"REGEX", "REF"} -> [first EXCEPT !.buf0 = val]
             [] b.bson_state = "OPTIONS" -> [second EXCEPT !.buf1 = val]
             [] b.bson_state = "BINARY" -> [first EXCEPT !.buf0 = b64_pton(val)]
             [] b.bson_state = "TYPE" /\ Subtype(val) >= 0 -> [second EXCEPT !.data.subtype = Subtype(val)]
             [] b.bson_state = "OID" /\ Len(val) = 24 -> [first EXCEPT !.data.oid = bson_oid_init_from_string(val)]
             [] b.bson_state = "ID" /\ Len(val) = 24 -> [second EXCEPT !.data.id = bson_oid_init_from_string(val)]
             [] b.bson_state = "INT64" -> ReadInt64(b, val, behind)
             [] b.bson_state = "DATE" /\ val \in DOMAIN DateOf -> [first EXCEPT !.data.date = DateOf[val]]
             [] OTHER -> set_error(b)

-----------------------------------------------------------------------------
(* Objects and arrays.                                                     *)

_bson_json_read_start_map(b0) ==
  LET b == fixup_key(b0) IN
  CASE b.read_state = "IN_BSON_TYPE" /\ b.bson_state = "DATE" -> State(b, "DATE_NUMBERLONG")
    [] b.read_state = "TIMESTAMP_STARTMAP" -> State(b, "TIMESTAMP_VALUES")
    [] OTHER -> State(b, "IN_START_MAP")

_is_known_key(key) == key = Timestamp \/ \E option \in Options : option.key = key

\* The first key says what an object is.
FirstKey(b, key) ==
  IF _is_known_key(key) THEN [b EXCEPT !.read_state = "IN_BSON_TYPE", !.type = "none", !.data = NoData]
  ELSE Push(State(b, "REGULAR"), FALSE)

\* HANDLE_OPTION.
Handle(b, type, state) == [b EXCEPT !.type = type, !.bson_state = state]

TypeKey(b, key) ==
  LET option == CHOOSE o \in Options : o.key = key
  IN  IF key = Timestamp THEN [State(b, "TIMESTAMP_STARTMAP") EXCEPT !.type = "timestamp"]
      ELSE IF _is_known_key(key) THEN Handle(b, option.type, option.state) ELSE set_error(b)

NextKey(b, key) ==
  CASE b.read_state = "IN_BSON_TYPE" -> TypeKey(b, key)
    [] b.read_state = "DATE_NUMBERLONG" -> IF key = NumberLong THEN Handle(b, "date", "INT64") ELSE set_error(b)
    [] b.read_state = "TIMESTAMP_VALUES" ->
         IF key = <<116>> THEN Handle(b, "timestamp", "TIMESTAMP_T")
         ELSE IF key = <<105>> THEN Handle(b, "timestamp", "TIMESTAMP_I") ELSE set_error(b)
    [] OTHER -> [b EXCEPT !.key = key]

_bson_json_read_map_key(b0, key) ==
  LET b == IF b0.read_state = "IN_START_MAP" THEN FirstKey(b0, key) ELSE b0
  IN  IF b.ret THEN NextKey(b, key) ELSE b

\* The value a special type stands for; both parts must be there, except the options
\* of a regular expression.
_bson_json_read_append_binary(b) ==
  IF b.data.b0 /\ b.data.b1 THEN Appended(b, "binary", <<b.data.subtype, b.buf0>>) ELSE set_error(b)
_bson_json_read_append_regex(b) ==
  IF b.data.b0 THEN Appended(b, "regex", <<b.buf0, IF b.data.b1 THEN b.buf1 ELSE <<>> >>) ELSE set_error(b)
_bson_json_read_append_oid(b) == Appended(b, "oid", b.data.oid)
_bson_json_read_append_date_time(b) == Appended(b, "date", b.data.date)
_bson_json_read_append_timestamp(b) ==
  IF b.data.b0 /\ b.data.b1 THEN Appended(b, "timestamp", <<b.data.t, b.data.i>>) ELSE set_error(b)
_bson_json_read_append_dbpointer(b) ==
  IF b.data.b0 /\ b.data.b1 THEN Appended(b, "dbpointer", <<b.buf0, b.data.id>>) ELSE set_error(b)

AppendSpecial(b) ==
  CASE b.type = "regex" -> _bson_json_read_append_regex(b)
    [] b.type = "oid" -> _bson_json_read_append_oid(b)
    [] b.type = "binary" -> _bson_json_read_append_binary(b)
    [] b.type = "date" -> _bson_json_read_append_date_time(b)
    [] b.type = "dbpointer" -> _bson_json_read_append_dbpointer(b)
    [] b.type \in {"undefined", "minkey", "maxkey"} -> Appended(b, b.type, <<>>)
    [] b.type = "int64" -> Appended(b, "int64", b.data.value)
    [] OTHER -> set_error(b)

_bson_json_read_end_map(b0) ==
  LET b == IF b0.read_state = "IN_START_MAP" THEN Push(State(b0, "REGULAR"), FALSE) ELSE b0
  IN  IF ~b.ret THEN b
      ELSE CASE b.read_state = "IN_BSON_TYPE" -> AppendSpecial(State(b, "REGULAR"))
             [] b.read_state = "TIMESTAMP_VALUES" -> _bson_json_read_append_timestamp(State(b, "TIMESTAMP_ENDMAP"))
             [] b.read_state = "DATE_NUMBERLONG" -> _bson_json_read_append_date_time(State(b, "DATE_ENDMAP"))
             [] b.read_state \in {"TIMESTAMP_ENDMAP", "DATE_ENDMAP"} -> State(b, "REGULAR")
             [] b.read_state = "REGULAR" -> Pop(b, FALSE)
             [] OTHER -> set_error(b)

_bson_json_read_start_array(b0) ==
  LET b == fixup_key(b0) IN
  IF b.frames = <<>> \/ Normal(b) THEN Push(b, TRUE) ELSE set_error(b)

_bson_json_read_end_array(b) == IF b.read_state = "REGULAR" THEN Pop(b, TRUE) ELSE set_error(b)

=============================================================================
