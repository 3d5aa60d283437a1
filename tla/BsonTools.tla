------------------------------- MODULE BsonTools -------------------------------
(***************************************************************************)
(* The example programs of libbson that read sequences of documents:       *)
(* bson-to-json, bson-validate and bson-metrics go through files,          *)
(* bson-streaming-reader through what a connection brings; and a program   *)
(* that reads from memory, as test-reader.c does.                          *)
(***************************************************************************)
EXTENDS BsonReader

CONSTANTS
  Tools,         \* the programs that are run: "to_json", "validate", "metrics", "streaming", "data"
  Args,          \* the files they are given: sequences of contents, NoFile for one that is missing
  Valid(_)       \* what bson_validate says of a document

NoFile == <<-1>>

ASSUME ToolsAssumption ==
  /\ Tools \subseteq {"to_json", "validate", "metrics", "streaming", "data"}
  /\ Args \subseteq Seq({NoFile} \cup Seq(Byte))

VARIABLE tool

toolVars == <<readerVars, tool>>

\* pc is where the program stands, i the file it is at, out the documents it has put
\* out, docnum how many it has seen in the file, mark and doc_size_max as in
\* bson-metrics, exit its status.
Tool(name, args) ==
  [name |-> name, args |-> args, pc |-> "open", i |-> 1, out |-> <<>>, docnum |-> 0,
   mark |-> 0, doc_size_max |-> 0, exit |-> 0]

ToolInit ==
  /\ tool \in {Tool(n, a) : n \in Tools \ {"streaming"}, a \in Args}
       \cup {Tool(n, <<>>) : n \in Tools \cap {"streaming"}}
  /\ reader = NoReader /\ answer = NoAnswer
  /\ stream = <<>>
  /\ closed = FALSE

HasMore == tool.i <= Len(tool.args)
File == tool.args[tool.i]

\* Slip: the program does not go on from a file it cannot open.
SkipNothing(t) == t

\* A file that cannot be opened is passed over.
Skip(t) == [t EXCEPT !.i = @ + 1]

OpenFile ==
  /\ tool.pc = "open" /\ tool.name # "streaming" /\ HasMore
  /\ IF File = NoFile
     THEN tool' = Skip(tool) /\ UNCHANGED readerVars
     ELSE /\ IF tool.name = "data" THEN bson_reader_new_from_data(File)
             ELSE bson_reader_new_from_fd(File, TRUE)
          /\ tool' = [tool EXCEPT !.pc = "read", !.docnum = 0, !.mark = 0, !.doc_size_max = 0]

\* The connection is made, or the program ends.
Connect ==
  /\ tool.pc = "open" /\ tool.name = "streaming"
  /\ \/ bson_reader_new_from_fd(stream, closed) /\ tool' = [tool EXCEPT !.pc = "read"]
     \/ tool' = [tool EXCEPT !.pc = "done", !.exit = 1] /\ UNCHANGED readerVars

CallRead ==
  /\ tool.pc = "read"
  /\ bson_reader_read
  /\ tool' = [tool EXCEPT !.pc = "wait"]

Reading == tool.pc = "wait" /\ ReaderStep /\ tool' = tool

HasAnswer == tool.pc = "wait" /\ ~reader.reading

\* bson-metrics takes the size of a document from the position behind it.
Measured(t, pos) == [t EXCEPT !.doc_size_max = Max({@, pos - t.mark}), !.mark = pos]

\* What a program does with a document.
Handled(doc) ==
  LET t == IF tool.name = "metrics" THEN Measured(tool, bson_reader_tell(reader)) ELSE tool
  IN  [t EXCEPT !.docnum = @ + 1, !.out = Append(@, doc), !.pc = "read"]

HandleDocument ==
  /\ HasAnswer /\ answer.doc # <<>>
  /\ tool.name = "validate" => Valid(answer.doc)
  /\ tool' = Handled(answer.doc)
  /\ UNCHANGED readerVars

\* bson-validate ends at the first document that is not valid.
HandleInvalid ==
  /\ HasAnswer /\ answer.doc # <<>>
  /\ tool.name = "validate" /\ ~Valid(answer.doc)
  /\ bson_reader_destroy
  /\ tool' = [tool EXCEPT !.docnum = @ + 1, !.pc = "done", !.exit = 1]

\* Whether it was the end or a failure that ended the file makes no difference.
HandleEnd ==
  /\ HasAnswer /\ answer.doc = <<>>
  /\ bson_reader_destroy
  /\ tool' = [tool EXCEPT !.pc = IF tool.name = "streaming" THEN "done" ELSE "open", !.i = @ + 1]

Finish ==
  /\ tool.pc = "open" /\ tool.name # "streaming" /\ ~HasMore
  /\ tool' = [tool EXCEPT !.pc = "done"]
  /\ UNCHANGED readerVars

ToolNext ==
  \/ OpenFile \/ Connect \/ CallRead \/ Reading
  \/ HandleDocument \/ HandleInvalid \/ HandleEnd \/ Finish
=============================================================================
