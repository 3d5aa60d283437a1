------------------------------ MODULE JsonReader ------------------------------
(***************************************************************************)
(* How libbson reads documents from JSON text (bson_json_reader_read): the  *)
(* text comes piece by piece, from a descriptor or from memory, yajl_do_    *)
(* parse takes its tokens and calls back (BsonJson), and the end of the     *)
(* first object or array cancels it; the rest of the piece stays in the     *)
(* buffer for the next call.  With the programs that read: json-to-bson,    *)
(* bson_new_from_json, and one that feeds a data reader text after text.    *)
(***************************************************************************)
EXTENDS BsonJson, SequencesExt

Chars == INSTANCE Utf8

CONSTANTS
  BSON_JSON_DEFAULT_BUF_SIZE,
  BufSizes,      \* the buffer sizes that data readers are made with
  CanFail,       \* whether reading from a descriptor may fail
  Tools,         \* the programs that are run: "json_to_bson", "from_json", "data"
  Args           \* the texts they are given: sequences of texts, NoFile for a missing file

NoFile == <<-1>>
NoAnswer == 2

ASSUME ReaderAssumption ==
  /\ BSON_JSON_DEFAULT_BUF_SIZE \in Nat \ {0} /\ BufSizes \subseteq Nat \ {0}
  /\ CanFail \in BOOLEAN
  /\ Args \subseteq Seq({NoFile} \cup Seq(0 .. 255))

VARIABLES
  source,        \* the text behind the reader, and how many bytes of it were taken
  producer,      \* bson_json_reader_producer_t, and where bson_json_reader_read stands
  yajl,          \* the yajl_handle
  bson,          \* bson_json_reader_bson_t
  tool           \* the program

vars == <<source, producer, yajl, bson, tool>>

-----------------------------------------------------------------------------
(* Making a reader.                                                        *)

\* A lexer and a parser that have seen nothing.
yajl_alloc == [stack |-> <<"start">>, kept |-> <<>>, text |-> <<>>, offset |-> 0, status |-> "ok"]

\* bson_json_reader_new: one byte of the buffer is for the zero at its end.
bson_json_reader_new(cb, buf_size) ==
  /\ producer' = [cb |-> cb, pc |-> "idle", buf |-> <<>>, room |-> buf_size - 1, bytes_parsed |-> 0,
                  all_whitespace |-> TRUE, read_something |-> FALSE, ret |-> NoAnswer]
  /\ yajl' = yajl_alloc
  /\ bson' = NewBson

NoProducer ==
  [cb |-> "none", pc |-> "idle", buf |-> <<>>, room |-> 0, bytes_parsed |-> 0,
   all_whitespace |-> TRUE, read_something |-> FALSE, ret |-> NoAnswer]

\* bson_json_data_reader_ingest, or the file behind a descriptor.
Ingested(text) == [text |-> text, at |-> 0]

-----------------------------------------------------------------------------
(* yajl_do_parse: one token, in the state at the top of the stack.         *)

Top == yajl.stack[Len(yajl.stack)]
Below(stack) == SubSeq(stack, 1, Len(stack) - 1)
WithTop(stack, state) == Append(Below(stack), state)

Running == yajl.status = "running"
Token == yajl_lex_lex(yajl.kept, yajl.text, yajl.offset)

\* The parser goes on behind the token, with another stack.
After(tok, stack) == [yajl EXCEPT !.offset = tok.offset, !.kept = tok.kept, !.stack = stack]

\* The text is used up, or it is wrong.
Stops(tok, status) == [After(tok, yajl.stack) EXCEPT !.status = status]
Fails(tok, state) == [After(tok, WithTop(yajl.stack, state)) EXCEPT !.status = "error"]

\* The length of a token as it is handed on: a string goes without its quotes.
bufLen(tok) == IF tok.kind = "string" THEN Len(tok.bytes) - 2 ELSE Len(tok.bytes)

\* Some errors are told at the place where the token begins.
FailsBefore(tok) ==
  [Fails(tok, "parse_error") EXCEPT
     !.offset = IF tok.offset >= bufLen(tok) THEN tok.offset - bufLen(tok) ELSE 0]

\* A callback cancels by returning zero.
Calls(tok, called, stack) ==
  /\ bson' = called
  /\ yajl' = IF called.ret THEN After(tok, stack)
             ELSE [After(tok, WithTop(yajl.stack, "parse_error")) EXCEPT !.status = "client_canceled"]

\* Nothing is called back.
Moves(next) == yajl' = next /\ bson' = bson

\* What a value leaves behind, below what it begins.
GotValue(stack) ==
  WithTop(stack, CASE Last(stack) \in {"start", "got_value"} -> "parse_complete"
                   [] Last(stack) = "map_need_val" -> "map_got_val"
                   [] OTHER -> "array_got_val")

Overflows(tok) ==
  \/ tok.kind = "integer" /\ yajl_parse_integer(tok.bytes).overflow
  \/ tok.kind = "double" /\ tok.bytes \in HugeDoubles

\* What is behind a string in memory: its quote, or, where its escapes are replaced in a
\* buffer of its own, the zero at the end of that.
Behind(token) == IF Backslash \in {token[i] : i \in DOMAIN token} THEN 0 ELSE Quote

ValueCalled(tok, b) ==
  CASE tok.kind = "string" -> _bson_json_read_string(b, yajl_string_decode(Unquoted(tok.bytes)), Behind(tok.bytes))
    [] tok.kind = "bool" -> _bson_json_read_boolean(b, tok.bytes[1] = 116)
    [] tok.kind = "null" -> _bson_json_read_null(b)
    [] tok.kind = "integer" -> _bson_json_read_integer(b, yajl_parse_integer(tok.bytes).value)
    [] OTHER -> _bson_json_read_double(b, tok.bytes)

\* Where a value may come.  A root that is neither object nor array is refused by the
\* callbacks, so there is nothing to do in the state behind one.
NeedValue ==
  /\ Running /\ Top \in {"start", "map_need_val", "array_need_val", "array_start"}
  /\ \E tok \in {Token} :
       CASE tok.kind = "eof" -> Moves(Stops(tok, "ok"))
         [] tok.kind = "error" -> Moves(Fails(tok, "lexical_error"))
         [] tok.kind = "{" -> Calls(tok, _bson_json_read_start_map(bson), Append(GotValue(yajl.stack), "map_start"))
         [] tok.kind = "[" -> Calls(tok, _bson_json_read_start_array(bson), Append(GotValue(yajl.stack), "array_start"))
         [] tok.kind = "]" /\ Top = "array_start" -> Calls(tok, _bson_json_read_end_array(bson), Below(yajl.stack))
         [] tok.kind = "]" /\ Top # "array_start" -> Moves(Fails(tok, "parse_error"))
         [] tok.kind \in {":", ",", "}"} -> Moves(Fails(tok, "parse_error"))
         [] Overflows(tok) -> Moves(FailsBefore(tok))
         [] OTHER -> Calls(tok, ValueCalled(tok, bson), GotValue(yajl.stack))
  /\ UNCHANGED <<source, producer, tool>>

\* Where a key may come.
NeedKey ==
  /\ Running /\ Top \in {"map_start", "map_need_key"}
  /\ \E tok \in {Token} :
       CASE tok.kind = "eof" -> Moves(Stops(tok, "ok"))
         [] tok.kind = "error" -> Moves(Fails(tok, "lexical_error"))
         [] tok.kind = "string" ->
              Calls(tok, _bson_json_read_map_key(bson, yajl_string_decode(Unquoted(tok.bytes))),
                    WithTop(yajl.stack, "map_sep"))
         [] tok.kind = "}" /\ Top = "map_start" -> Calls(tok, _bson_json_read_end_map(bson), Below(yajl.stack))
         [] OTHER -> Moves(Fails(tok, "parse_error"))
  /\ UNCHANGED <<source, producer, tool>>

\* Where only a colon may come.
NeedColon ==
  /\ Running /\ Top = "map_sep"
  /\ \E tok \in {Token} :
       CASE tok.kind = "eof" -> Moves(Stops(tok, "ok"))
         [] tok.kind = "error" -> Moves(Fails(tok, "lexical_error"))
         [] tok.kind = ":" -> Moves(After(tok, WithTop(yajl.stack, "map_need_val")))
         [] OTHER -> Moves(Fails(tok, "parse_error"))
  /\ UNCHANGED <<source, producer, tool>>

\* Behind a value in an object.
MapGotValue ==
  /\ Running /\ Top = "map_got_val"
  /\ \E tok \in {Token} :
       CASE tok.kind = "eof" -> Moves(Stops(tok, "ok"))
         [] tok.kind = "error" -> Moves(Fails(tok, "lexical_error"))
         [] tok.kind = "}" -> Calls(tok, _bson_json_read_end_map(bson), Below(yajl.stack))
         [] tok.kind = "," -> Moves(After(tok, WithTop(yajl.stack, "map_need_key")))
         [] OTHER -> Moves(FailsBefore(tok))
  /\ UNCHANGED <<source, producer, tool>>

\* Behind a value in an array.
ArrayGotValue ==
  /\ Running /\ Top = "array_got_val"
  /\ \E tok \in {Token} :
       CASE tok.kind = "eof" -> Moves(Stops(tok, "ok"))
         [] tok.kind = "error" -> Moves(Fails(tok, "lexical_error"))
         [] tok.kind = "]" -> Calls(tok, _bson_json_read_end_array(bson), Below(yajl.stack))
         [] tok.kind = "," -> Moves(After(tok, WithTop(yajl.stack, "array_need_val")))
         [] OTHER -> Moves(Fails(tok, "parse_error"))
  /\ UNCHANGED <<source, producer, tool>>

-----------------------------------------------------------------------------
(* bson_json_reader_read.                                                  *)

Call ==
  /\ producer' = [producer EXCEPT !.pc = "fetch", !.all_whitespace = TRUE, !.read_something = FALSE, !.ret = NoAnswer]
  /\ bson' = [bson EXCEPT !.frames = <<>>, !.read_state = "REGULAR", !.ret = TRUE, !.error = "none"]
  /\ UNCHANGED <<source, yajl>>

\* yajl_parse, of text.
Parses(text) == yajl' = [yajl EXCEPT !.text = text, !.offset = 0, !.status = "running"]

\* Slip: only the first character is looked at.
begins_with_whitespace(text) == isspace(text[1])

\* Up to the first zero of the text (what lies behind the text is taken for zeros): a
\* space that is written in more bytes than it needs is one too, and a byte that begins
\* no character is none.
_bson_json_all_whitespace(text) ==
  LET white[i \in 1 .. Len(text) + 6] ==
        IF i > Len(text) THEN TRUE
        ELSE \/ text[i] = 0
             \/ isspace(Chars!bson_utf8_get_char(text, i)) /\ white[Chars!bson_utf8_next_char(text, i)]
  IN  white[1]

\* A piece is parsed, behind what was parsed of it before.
Feed(p, text) ==
  /\ producer' = [p EXCEPT !.pc = "parse", !.read_something = TRUE,
                           !.all_whitespace = @ /\ _bson_json_all_whitespace(text)]
  /\ Parses(text)
  /\ UNCHANGED <<bson, tool>>

RestIsLeft == ~producer.read_something /\ producer.bytes_parsed \in 1 .. Len(producer.buf) - 1

\* The rest of the buffer comes first.
FeedRest ==
  /\ producer.pc = "fetch" /\ RestIsLeft
  /\ Feed(producer, SubSeq(producer.buf, producer.bytes_parsed + 1, Len(producer.buf)))
  /\ UNCHANGED source

Refilled(p, bytes) == [p EXCEPT !.buf = bytes, !.bytes_parsed = 0]

\* Text in memory comes as the buffer has room for it; a descriptor may bring less.
\* While it has nothing (EAGAIN) it is read again.
Pieces ==
  LET there == Len(source.text) - source.at
      most == Min({there, producer.room})
  IN  IF most = 0 THEN {} ELSE IF producer.cb = "data" THEN {most} ELSE 1 .. most

FeedMore ==
  /\ producer.pc = "fetch" /\ ~RestIsLeft
  /\ \E n \in Pieces :
       \E bytes \in {SubSeq(source.text, source.at + 1, source.at + n)} :
         /\ Feed(Refilled(producer, bytes), bytes)
         /\ source' = [source EXCEPT !.at = @ + n]

Returns(p, ret) == producer' = [p EXCEPT !.pc = "returned", !.ret = ret]

\* The parser is left where it was.
FetchFails ==
  /\ producer.pc = "fetch" /\ ~RestIsLeft /\ CanFail /\ producer.cb = "fd"
  /\ Returns(producer, -1)
  /\ bson' = [bson EXCEPT !.error = "CB_FAILURE"]
  /\ UNCHANGED <<source, yajl, tool>>

\* yajl_complete_parse: a space ends what was unfinished.
FetchEnds ==
  /\ producer.pc = "fetch" /\ ~RestIsLeft
  /\ source.at = Len(source.text)
  /\ IF producer.read_something
     THEN producer' = [producer EXCEPT !.pc = "complete"] /\ Parses(<<32>>)
     ELSE Returns(producer, 0) /\ yajl' = yajl
  /\ UNCHANGED <<source, bson, tool>>

\* The end of the text in the middle of a document is an error.  Where a document has
\* ended its end has canceled the parser.
Completed == IF producer.pc = "complete" /\ yajl.status = "ok" THEN "error" ELSE yajl.status

\* What follows a document is lexed as if it were at the beginning.
ParserReset == [yajl EXCEPT !.stack = <<"start">>]

\* _bson_json_read_parse_error.
ParseAnswers(status) ==
  /\ Returns([producer EXCEPT !.bytes_parsed = @ + yajl.offset],
             IF status = "client_canceled" THEN (IF bson.read_state = "DONE" THEN 1 ELSE -1)
             ELSE IF producer.all_whitespace THEN 0 ELSE -1)
  /\ yajl' = ParserReset
  /\ bson' = IF status = "error" /\ ~producer.all_whitespace THEN [bson EXCEPT !.error = "CORRUPT_JS"] ELSE bson

\* yajl_parse has returned.
ParseReturns ==
  /\ producer.pc \in {"parse", "complete"} /\ ~Running /\ ~bson.aborted
  /\ IF Completed # "ok" THEN ParseAnswers(Completed)
     ELSE producer' = [producer EXCEPT !.pc = "fetch"] /\ UNCHANGED <<yajl, bson>>
  /\ UNCHANGED <<source, tool>>

ReaderStep ==
  \/ FeedRest \/ FeedMore \/ FetchFails \/ FetchEnds \/ ParseReturns
  \/ NeedValue \/ NeedKey \/ NeedColon \/ MapGotValue \/ ArrayGotValue

-----------------------------------------------------------------------------
(* The programs.                                                           *)

\* i is the text the program is at, docnum how many documents it has got of it, and exit
\* how it ended: "error" when it was told of one.
Tool(name, args) == [name |-> name, args |-> args, pc |-> "open", i |-> 1, docnum |-> 0, exit |-> "ok"]

Init ==
  /\ tool \in {Tool(n, a) : n \in Tools, a \in Args}
  /\ source = Ingested(<<>>) /\ producer = NoProducer
  /\ yajl = yajl_alloc /\ bson = NewBson

HasMore == tool.i <= Len(tool.args)
Text == tool.args[tool.i]

\* Slip: the program does not go on from a file it cannot open.
SkipNothing == UNCHANGED vars

Skip == tool' = [tool EXCEPT !.i = @ + 1] /\ UNCHANGED <<source, producer, yajl, bson>>

Opened(t) == [t EXCEPT !.pc = "read", !.docnum = 0]

\* json-to-bson: a file that cannot be opened is passed over.
OpenFile ==
  /\ tool.pc = "open" /\ tool.name = "json_to_bson" /\ HasMore
  /\ IF Text = NoFile THEN Skip
     ELSE /\ bson_json_reader_new("fd", BSON_JSON_DEFAULT_BUF_SIZE)
          /\ source' = Ingested(Text)
          /\ tool' = Opened(tool)

\* bson_new_from_json and bson_init_from_json read one document.
FromJson ==
  /\ tool.pc = "open" /\ tool.name = "from_json" /\ HasMore
  /\ IF Text = NoFile THEN Skip
     ELSE /\ bson_json_reader_new("data", BSON_JSON_DEFAULT_BUF_SIZE)
          /\ source' = Ingested(Text)
          /\ tool' = Opened(tool)

\* One reader is fed all the texts.
Ingest ==
  /\ tool.pc = "open" /\ tool.name = "data" /\ HasMore
  /\ IF Text = NoFile THEN Skip
     ELSE /\ IF producer.cb = "none" THEN \E size \in BufSizes : bson_json_reader_new("data", size)
             ELSE UNCHANGED <<producer, yajl, bson>>
          /\ source' = Ingested(Text)
          /\ tool' = Opened(tool)

CallRead ==
  /\ tool.pc = "read"
  /\ Call
  /\ tool' = [tool EXCEPT !.pc = "wait"]

HasAnswer == tool.pc = "wait" /\ producer.pc = "returned"

bson_reinit(b) == [b EXCEPT !.doc = <<>>]

\* bson_new_from_json is done with one document.
HandleDocument ==
  /\ HasAnswer /\ producer.ret = 1
  /\ tool' = [tool EXCEPT !.docnum = @ + 1,
                          !.pc = IF tool.name = "from_json" THEN "open" ELSE "read",
                          !.i = IF tool.name = "from_json" THEN @ + 1 ELSE @]
  /\ bson' = bson_reinit(bson)
  /\ UNCHANGED <<source, producer, yajl>>

\* There is no more in the text; bson_new_from_json returns NULL.
HandleEnd ==
  /\ HasAnswer /\ producer.ret = 0
  /\ tool' = [tool EXCEPT !.pc = "open", !.i = @ + 1, !.exit = IF tool.name = "from_json" THEN "error" ELSE @]
  /\ UNCHANGED <<source, producer, yajl, bson>>

HandleError ==
  /\ HasAnswer /\ producer.ret = -1
  /\ tool' = [tool EXCEPT !.pc = "done", !.exit = "error"]
  /\ UNCHANGED <<source, producer, yajl, bson>>

Aborts ==
  /\ tool.pc = "wait" /\ bson.aborted
  /\ tool' = [tool EXCEPT !.pc = "done", !.exit = "abort"]
  /\ UNCHANGED <<source, producer, yajl, bson>>

Finish ==
  /\ tool.pc = "open" /\ ~HasMore
  /\ tool' = [tool EXCEPT !.pc = "done"]
  /\ UNCHANGED <<source, producer, yajl, bson>>

Next ==
  \/ ReaderStep /\ tool.pc = "wait"
  \/ OpenFile \/ FromJson \/ Ingest \/ CallRead
  \/ HandleDocument \/ HandleEnd \/ HandleError \/ Aborts \/ Finish

Spec == Init /\ [][Next]_vars /\ WF_vars(Next)

-----------------------------------------------------------------------------
(* The reader, the parser and the callbacks.                               *)

\* The members of the structures are in the ranges of their types.
TypeOK ==
  /\ source.at \in 0 .. Len(source.text)
  /\ producer.pc \in {"idle", "fetch", "parse", "complete", "returned"} /\ producer.ret \in {-1, 0, 1, NoAnswer}
  /\ Len(producer.buf) <= producer.room /\ producer.bytes_parsed \in 0 .. Len(producer.buf) + 1
  /\ yajl.status \in {"running", "ok", "error", "client_canceled"} /\ yajl.offset \in 0 .. Len(yajl.text)
  /\ Len(bson.frames) <= STACK_MAX
  /\ bson.data.t \in 0 .. 2 * INT32_MAX + 1 /\ bson.data.i \in 0 .. 2 * INT32_MAX + 1
  /\ tool.pc \in {"open", "read", "wait", "done"}

\* The objects that special types are made of.
SpecialLevels(b) ==
  CASE b.read_state \in {"DATE_NUMBERLONG", "TIMESTAMP_VALUES"} -> 2
    [] b.read_state \in {"IN_START_MAP", "IN_BSON_TYPE", "TIMESTAMP_STARTMAP", "TIMESTAMP_ENDMAP", "DATE_ENDMAP"} -> 1
    [] OTHER -> 0

\* The callbacks never believe to be deeper in the text than the parser is: the stack of
\* documents, and the objects that special types are made of, are not more than what is
\* open there.  They may be fewer: an object where a special type wants a string or a
\* number takes the place of the object of the type (bson-json.c:652).
DepthsAgree ==
  Running => Len(bson.frames) + SpecialLevels(bson) <= Len(yajl.stack) - 1

\* In every state the reader, yajl and the callbacks are in step.
InStep == TypeOK /\ DepthsAgree

=============================================================================
