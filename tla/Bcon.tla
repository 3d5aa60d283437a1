--------------------------------- MODULE Bcon ---------------------------------
(***************************************************************************)
(* BCON (bcon.c): documents written, and taken apart, by a list of          *)
(* arguments that looks like the document.  An argument is NULL, a string,  *)
(* or a magic pointer with a type and what belongs to it; what it stands    *)
(* for depends on where in the document the call is, which the frames of a  *)
(* context keep from one call to the next.  A document that is being        *)
(* written is the bytes of its pairs.                                       *)
(***************************************************************************)
EXTENDS BsonAppend, SequencesExt

CONSTANTS
  BCON_STACK_MAX,   \* how many frames a context has (100)
  Tasks             \* the programs: a sequence of [call, bson, args, max], max bounding the arguments

ASSUME BconAssumption == BCON_STACK_MAX \in Nat \ {0}

VARIABLES
  task,    \* which program it is: what it does, and to which document
  args,    \* all arguments it has passed
  stack,   \* the frames of the context that are in use, the outermost first
  pc,      \* "idle" between calls, "turn" and "value" inside, "true", "false", "aborted"
  awaits,  \* the key of the value that comes next
  found    \* the values that were extracted

vars == <<task, args, stack, pc, awaits, found>>

program == Tasks[task]

-----------------------------------------------------------------------------
(* Arguments.                                                              *)

NULL == [mark |-> "NULL"]
String(text) == [mark |-> "STRING", text |-> text]
Magic(type, u) == [mark |-> "MAGIC", type |-> type, u |-> u]

Text(s) == [first |-> s, second |-> <<>>]
Token(type, u) == [type |-> type, u |-> u]
Nothing == Text(<<>>)

\* Slip: the string has to be the bracket alone.
Bracket_whole(s, other) ==
  CASE s = <<123>> -> "DOC_START"
    [] s = <<125>> -> "DOC_END"
    [] s = <<91>> -> "ARRAY_START"
    [] s = <<93>> -> "ARRAY_END"
    [] OTHER -> other

\* Whether a string is a bracket shows its first byte.
Bracket(s, other) ==
  CASE s # <<>> /\ s[1] = 123 -> "DOC_START"
    [] s # <<>> /\ s[1] = 125 -> "DOC_END"
    [] s # <<>> /\ s[1] = 91 -> "ARRAY_START"
    [] s # <<>> /\ s[1] = 93 -> "ARRAY_END"
    [] OTHER -> other

_bcon_append_tokenize(arg) ==
  CASE arg.mark = "NULL" -> Token("END", Nothing)
    [] arg.mark = "MAGIC" -> Token(arg.type, arg.u)
    [] OTHER -> Token(Bracket(arg.text, "UTF8"), Text(arg.text))

_bcon_extract_tokenize(arg) ==
  CASE arg.mark = "NULL" -> Token("END", Nothing)
    [] arg.mark = "MAGIC" -> Token(arg.type, arg.u)
    [] OTHER -> Token(Bracket(arg.text, "RAW"), Text(arg.text))

\* The bytes that are appended for a value; an iterator is given by the value it
\* stands on, which is what bson_append_iter reads.
_bcon_append_single(type, name, val) ==
  CASE type = "UTF8" -> bson_append_utf8(name, val.first).bytes
    [] type = "DOUBLE" -> bson_append_double(name, val.first).bytes
    [] type = "BIN" -> bson_append_binary(name, val.second[1], val.first).bytes
    [] type = "UNDEFINED" -> bson_append_undefined(name).bytes
    [] type = "OID" -> bson_append_oid(name, val.first).bytes
    [] type = "BOOL" -> bson_append_bool(name, val.first # <<0>>).bytes
    [] type = "DATE_TIME" -> bson_append_date_time(name, val.first).bytes
    [] type = "NULL" -> bson_append_null(name).bytes
    [] type = "REGEX" -> bson_append_regex(name, val.first, val.second).bytes
    [] type = "DBPOINTER" -> bson_append_dbpointer(name, val.first, val.second).bytes
    [] type = "CODE" -> bson_append_code(name, val.first).bytes
    [] type = "SYMBOL" -> bson_append_symbol(name, val.first).bytes
    [] type = "CODEWSCOPE" -> bson_append_code_with_scope(name, val.first, val.second).bytes
    [] type = "INT32" -> bson_append_int32(name, val.first).bytes
    [] type = "TIMESTAMP" -> bson_append_timestamp(name, val.first, val.second).bytes
    [] type = "INT64" -> bson_append_int64(name, val.first).bytes
    [] type = "MAXKEY" -> bson_append_maxkey(name).bytes
    [] type = "MINKEY" -> bson_append_minkey(name).bytes
    [] type = "ARRAY" -> bson_append_array(name, val.first).bytes
    [] type = "DOCUMENT" -> bson_append_document(name, val.first).bytes
    [] type = "ITER" -> bson_append_value(name, val).bytes

\* CHECK_TYPE: what the iterator must stand on.
WantedType ==
  [UTF8 |-> BSON_TYPE_UTF8, DOUBLE |-> BSON_TYPE_DOUBLE, BIN |-> BSON_TYPE_BINARY,
   UNDEFINED |-> BSON_TYPE_UNDEFINED, OID |-> BSON_TYPE_OID, BOOL |-> BSON_TYPE_BOOL,
   DATE_TIME |-> BSON_TYPE_DATE_TIME, NULL |-> BSON_TYPE_NULL, REGEX |-> BSON_TYPE_REGEX,
   DBPOINTER |-> BSON_TYPE_DBPOINTER, CODE |-> BSON_TYPE_CODE, SYMBOL |-> BSON_TYPE_SYMBOL,
   CODEWSCOPE |-> BSON_TYPE_CODEWSCOPE, INT32 |-> BSON_TYPE_INT32,
   TIMESTAMP |-> BSON_TYPE_TIMESTAMP, INT64 |-> BSON_TYPE_INT64, MAXKEY |-> BSON_TYPE_MAXKEY,
   MINKEY |-> BSON_TYPE_MINKEY, ARRAY |-> BSON_TYPE_ARRAY, DOCUMENT |-> BSON_TYPE_DOCUMENT]

\* What the caller's variables get.  SKIP looks at the type alone, ITER takes anything.
_bcon_extract_single(it, type, val) ==
  LET wanted == IF type = "SKIP" THEN val.first[1] ELSE WantedType[type]
  IN  CASE type = "ITER" -> [ok |-> TRUE, values |-> <<it>>]
        [] type # "ITER" /\ bson_iter_type(it) # wanted -> [ok |-> FALSE, values |-> <<>>]
        [] type = "SKIP" /\ bson_iter_type(it) = wanted -> [ok |-> TRUE, values |-> <<>>]
        [] OTHER -> [ok |-> TRUE, values |-> <<bson_iter_value(it)>>]

-----------------------------------------------------------------------------
(* The context.  pairs is what is written so far of an open document, name  *)
(* its key, iter where an open document is read.                            *)

Frame(is_array, name, pairs, iter) ==
  [is_array |-> is_array, i |-> 0, name |-> name, pairs |-> pairs, iter |-> iter]

BsonOf(pairs) == LE(Len(pairs) + 5, 4) \o pairs \o <<0>>
PairsOfBson(m) == Slice(m, 4, Len(m) - 5)

\* bcon_append_ctx_init and bcon_extract_ctx_init: one frame that is no array.
Writing(m) == <<Frame(FALSE, <<>>, PairsOfBson(m), Null)>>
Reading(m) == <<Frame(FALSE, <<>>, <<>>, bson_iter_init(m))>>

Child == stack[Len(stack)]
InArray == Child.is_array

Decimal(value) ==
  LET digits[n \in 0 .. value] == (IF n < 10 THEN <<>> ELSE digits[n \div 10]) \o <<48 + (n % 10)>>
  IN  digits[value]

\* In an array the key is the number of the element, which is counted before the
\* argument is looked at.
Key == IF InArray THEN Decimal(Child.i) ELSE awaits

Numbered == IF InArray THEN [stack EXCEPT ![Len(stack)].i = @ + 1] ELSE stack

\* The turns of the loop.  Where a call has ended, the next argument is the first one
\* of another call on the same context: of bcon_append_ctx, or of bcon_extract_ctx,
\* which does not return whether there was a mismatch.  The functions that have a
\* context of their own end there.
Turn == pc \in {"turn", "idle", "true", "false"}

\* Where the next argument is a key, and where it is a value.
WantsKey == Turn /\ ~InArray
WantsValue == pc = "value" \/ (Turn /\ InArray)

Pass(arg) == Len(args) < program.max /\ args' = Append(args, arg)

Goes(to, frames) == pc' = to /\ stack' = frames /\ UNCHANGED <<task, awaits>>
GoesOn(frames) == Goes("turn", frames)
Asserts(holds, frames) == IF holds THEN GoesOn(frames) ELSE Goes("aborted", stack)

\* STACK_PUSH_ARRAY and STACK_PUSH_DOC.
MayPush == Len(stack) < BCON_STACK_MAX

Pushed(is_array, name, iter) == Append(Numbered, Frame(is_array, name, <<>>, iter))

\* STACK_POP_ARRAY and STACK_POP_DOC.
MayPop(is_array) == Len(stack) > 1 /\ InArray = is_array
Below == SubSeq(stack, 1, Len(stack) - 1)

-----------------------------------------------------------------------------
(* bcon_append_ctx_va: writing.                                            *)

\* The document that was open becomes a pair of the one around it.
PairEnded ==
  LET whole == BsonOf(Child.pairs)
      pair == IF InArray THEN bson_append_array(Child.name, whole) ELSE bson_append_document(Child.name, whole)
  IN  [Below EXCEPT ![Len(Below)].pairs = @ \o pair.bytes]

WithPairs(frames, pairs) == [frames EXCEPT ![Len(frames)].pairs = @ \o pairs]

\* Slip: the number that the argument itself has taken is not given back.
_bson_concat_array_gap(src) ==
  LET walk == Walk(bson_iter_init(src))
      pair(i) == bson_append_iter(Decimal(Child.i + i), walk[i]).bytes
  IN  [WithPairs(stack, FlattenSeq([i \in DOMAIN walk |-> pair(i)]))
         EXCEPT ![Len(stack)].i = @ + Len(walk) + 1]

\* The elements of src get the numbers that come next.
_bson_concat_array(src) ==
  LET walk == Walk(bson_iter_init(src))
      pair(i) == bson_append_iter(Decimal(Child.i + i - 1), walk[i]).bytes
  IN  [WithPairs(stack, FlattenSeq([i \in DOMAIN walk |-> pair(i)]))
         EXCEPT ![Len(stack)].i = @ + Len(walk)]

Writes == program.call = "append"

\* bson_concat.
Concat(m) == WithPairs(stack, PairsOfBson(m))

AppendKey(arg) ==
  LET t == _bcon_append_tokenize(arg) IN
  /\ Writes /\ WantsKey /\ Pass(arg)
  /\ \/ t.type = "END" /\ Goes("idle", stack)
     \/ t.type = "DOC_END" /\ Asserts(MayPop(FALSE), PairEnded)
     \/ t.type = "BCON" /\ GoesOn(Concat(t.u.first))
     \/ t.type = "UTF8" /\ pc' = "value" /\ awaits' = t.u.first /\ UNCHANGED <<task, stack>>
     \/ t.type \notin {"END", "DOC_END", "BCON", "UTF8"} /\ Goes("aborted", stack)
  /\ found' = found

Controls == {"END", "BCON", "DOC_START", "DOC_END", "ARRAY_START", "ARRAY_END"}

AppendValue(arg) ==
  LET t == _bcon_append_tokenize(arg) IN
  /\ Writes /\ WantsValue /\ Pass(arg)
  /\ \/ t.type = "END" /\ Goes("aborted", stack)
     \/ t.type = "BCON" /\ Asserts(InArray, _bson_concat_array(t.u.first))
     \/ t.type = "DOC_START" /\ Asserts(MayPush, Pushed(FALSE, Key, Null))
     \/ t.type = "ARRAY_START" /\ Asserts(MayPush, Pushed(TRUE, Key, Null))
     \/ t.type = "DOC_END" /\ Asserts(MayPop(FALSE), PairEnded)
     \/ t.type = "ARRAY_END" /\ Asserts(MayPop(TRUE), PairEnded)
     \/ t.type \notin Controls /\ GoesOn(WithPairs(Numbered, _bcon_append_single(t.type, Key, t.u)))
  /\ found' = found

-----------------------------------------------------------------------------
(* bcon_extract_ctx_va: taking apart.                                      *)

ExtractKey(arg) ==
  LET t == _bcon_extract_tokenize(arg) IN
  /\ ~Writes /\ WantsKey /\ Pass(arg)
  /\ \/ t.type = "END" /\ Goes("true", stack)
     \/ t.type = "DOC_END" /\ Asserts(MayPop(FALSE), Below)
     \/ t.type = "RAW" /\ pc' = "value" /\ awaits' = t.u.first /\ UNCHANGED <<task, stack>>
     \/ t.type \notin {"END", "DOC_END", "RAW"} /\ Goes("aborted", stack)
  /\ found' = found

\* Slip: what was found before is searched from.
FindOnward(name) == bson_iter_find(bson_iter_next(Child.iter), name)

\* Each key is searched from the beginning of the document.
Find(name) == bson_iter_find(Child.iter, name)

\* A document or an array that is entered has to be one.
Enters(it, is_array) ==
  IF bson_iter_type(it) # (IF is_array THEN BSON_TYPE_ARRAY ELSE BSON_TYPE_DOCUMENT)
  THEN Goes("false", Numbered)
  ELSE Asserts(MayPush, Pushed(is_array, Key, bson_iter_recurse(it)))

Extracts(it, t) ==
  LET single == _bcon_extract_single(it, t.type, t.u) IN
  /\ found' = found \o single.values
  /\ Goes(IF single.ok THEN "turn" ELSE "false", Numbered)

ExtractEnd(arg) ==
  LET t == _bcon_extract_tokenize(arg) IN
  /\ ~Writes /\ WantsValue /\ Pass(arg)
  /\ \/ t.type = "END" /\ Goes("aborted", stack)
     \/ t.type = "DOC_END" /\ Asserts(MayPop(FALSE), Below)
     \/ t.type = "ARRAY_END" /\ Asserts(MayPop(TRUE), Below)
  /\ found' = found

ExtractValue(arg) ==
  LET t == _bcon_extract_tokenize(arg)
      it == Find(Key)
  IN  /\ ~Writes /\ WantsValue /\ Pass(arg)
      /\ t.type \notin {"END", "DOC_END", "ARRAY_END"}
      /\ \/ it.raw = <<>> /\ Goes("false", Numbered) /\ found' = found
         \/ it.raw # <<>> /\ t.type = "DOC_START" /\ Enters(it, FALSE) /\ found' = found
         \/ it.raw # <<>> /\ t.type = "ARRAY_START" /\ Enters(it, TRUE) /\ found' = found
         \/ it.raw # <<>> /\ t.type = "RAW" /\ Goes("aborted", stack) /\ found' = found
         \/ it.raw # <<>> /\ t.type \notin {"DOC_START", "ARRAY_START", "RAW"} /\ Extracts(it, t)

-----------------------------------------------------------------------------
(* The programs.                                                           *)

Init ==
  /\ task \in DOMAIN Tasks
  /\ args = <<>> /\ pc = "turn" /\ awaits = <<>> /\ found = <<>>
  /\ stack = IF Writes THEN Writing(program.bson) ELSE Reading(program.bson)

Next ==
  \/ \E arg \in program.args : AppendKey(arg) \/ AppendValue(arg)
  \/ \E arg \in program.args : ExtractKey(arg) \/ ExtractEnd(arg) \/ ExtractValue(arg)

Spec == Init /\ [][Next]_vars
===============================================================================
