------------------------------ MODULE BsonStream ------------------------------
(***************************************************************************)
(* The example programs at work.  Files lie there as they are; what        *)
(* bson-streaming-reader reads is written meanwhile at the other end of    *)
(* its connection, with a bson_writer_t as in test-writer.c: a document    *)
(* that passes a limit is rolled back.                                     *)
(***************************************************************************)
EXTENDS BsonTools, BsonWriter

CONSTANT Limit   \* the length beyond which the writer gives up (48 MB)

ASSUME LimitAssumption == Limit \in Nat /\ Limit < Huge

VARIABLE peer    \* where the writing program stands: "write", "stop" or "absent"

vars == <<toolVars, writerVars, peer>>

Init ==
  /\ ToolInit
  /\ \E memory \in Initial, realloc \in Reallocs :
       /\ tool.name # "streaming" => memory = <<>> /\ realloc
       /\ bson_writer_new(memory, 0, realloc)
  /\ peer = IF tool.name = "streaming" THEN "write" ELSE "absent"

WriteBegin == bson_writer_begin /\ peer' = peer
WriteBeginFails == bson_writer_begin_fails /\ peer' = "stop"

WriteAppend ==
  /\ bson_writer_get_length(writer) <= Limit
  /\ \E a \in Appended : WriterAppends(a)
  /\ peer' = peer

WriteEnd ==
  /\ bson_writer_get_length(writer) <= Limit
  /\ bson_writer_end
  /\ peer' = peer

WriteRollback ==
  /\ bson_writer_get_length(writer) > Limit
  /\ bson_writer_rollback
  /\ peer' = "stop"

Write ==
  /\ peer = "write"
  /\ WriteBegin \/ WriteBeginFails \/ WriteAppend \/ WriteEnd \/ WriteRollback
  /\ UNCHANGED toolVars

\* The documents that have ended are sent.
Send ==
  /\ peer # "absent" /\ Len(stream) < writer.offset
  /\ stream' = Finished
  /\ UNCHANGED <<closed, reader, answer, tool, writerVars, peer>>

\* The other end closes the connection.
HangUp ==
  /\ peer = "stop" /\ stream = Finished /\ ~closed
  /\ closed' = TRUE
  /\ UNCHANGED <<stream, reader, answer, tool, writerVars, peer>>

ToolStep == ToolNext /\ UNCHANGED <<writerVars, peer>>

Next == Write \/ Send \/ HangUp \/ ToolStep

\* The programs go on, and what is written is sent.
Fairness ==
  /\ WF_vars(ToolStep)
  /\ WF_vars(Write) /\ WF_vars(Send) /\ WF_vars(HangUp)

Spec == Init /\ [][Next]_vars /\ Fairness

-----------------------------------------------------------------------------
(* What is in a stream, as its bytes say alone.                            *)

\* The document at position p of s.
WholeAt(s, p) ==
  IF p + 5 > Len(s) \/ s[p + 4] > 127 THEN <<>>
  ELSE LET n == U32At(s, p)
       IN  IF n < 5 \/ p + n > Len(s) \/ s[p + n] # 0 THEN <<>> ELSE Slice(s, p, n)

\* The position behind the last of the documents that follow one another from p on.
EndFrom(s, p) ==
  LET end[q \in 0 .. Len(s)] ==
        IF WholeAt(s, q) = <<>> THEN q ELSE end[q + Len(WholeAt(s, q))]
  IN  end[p]

\* There is no document at p, and more bytes would not make one.
Broken(s, p) ==
  /\ p + 4 <= Len(s) /\ WholeAt(s, p) = <<>>
  /\ s[p + 4] > 127 \/ U32At(s, p) < 5 \/ p + U32At(s, p) <= Len(s)

\* The position behind the first n of docs, one behind the other.
Behind(docs, n) ==
  LET behind[i \in 0 .. n] == IF i = 0 THEN 0 ELSE behind[i - 1] + Len(docs[i])
  IN  behind[n]

Source == INSTANCE BsonSource WITH
  position <- bson_reader_tell(reader), answer <- answer.doc, active <- reader.type # "NONE"

-----------------------------------------------------------------------------
(* Properties.                                                             *)

\* The members of the structures are in the ranges of their types.
TypeOK ==
  /\ reader.type \in {"NONE", "HANDLE", "DATA"}
  /\ reader.data \in Seq(Byte) /\ stream \in Seq(Byte) /\ buf \in Seq(Byte)
  /\ reader.offset <= Len(reader.data) /\ Len(reader.data) <= reader.len
  /\ reader.bytes_read <= Len(stream) /\ {reader.done, reader.failed, closed} \subseteq BOOLEAN
  /\ tool.pc \in {"open", "read", "wait", "done"} /\ peer \in {"write", "stop", "absent"}
  /\ writer.offset + writer.b_len <= Len(buf)

\* However the bytes come in, the documents returned are those of the stream, whole
\* and in their order, and bson_reader_tell is the position behind them (BsonSource).
ReadsTheStream == Source!Spec

\* The buffer is a window on the stream: what it holds is what was read last
\* (_bson_reader_handle_fill_buffer, _bson_reader_handle_grow_buffer).
Window ==
  reader.type # "NONE" =>
    /\ reader.bytes_read >= Len(reader.data)
    /\ reader.data = Slice(stream, reader.bytes_read - Len(reader.data), Len(reader.data))

\* Once something was read, reached_eof says that the stream has ended and that no
\* whole document was left in it; reading never ends because the buffer is full.
EofIsTheEnd ==
  (HasAnswer /\ answer.reached_eof /\ reader.bytes_read > 0) =>
    /\ closed /\ reader.bytes_read = Len(stream)
    /\ WholeAt(stream, bson_reader_tell(reader)) = <<>>

\* Where NULL comes without reached_eof something has gone wrong: reading failed, or
\* there are bytes at the position that are no document.
NotEofIsAnError ==
  (HasAnswer /\ answer = NoAnswer) =>
    \/ reader.failed
    \/ Broken(stream, bson_reader_tell(reader))
    \/ reader.type = "DATA" /\ bson_reader_tell(reader) < Len(stream)

\* NULL is told apart by reached_eof, for every way the stream comes in and ends, but by a
\* reader that has read nothing: where its first read fails (bson-reader.c:104).
NullIsEndOrError == EofIsTheEnd /\ NotEofIsAnError

\* doc_size_max of bson-metrics, taken from positions, is the size of the largest
\* document of the file.
MaxIsTheLargest ==
  (tool.name = "metrics" /\ tool.pc \in {"read", "wait"} /\ tool.docnum > 0) =>
    LET last == Len(tool.out)
    IN  tool.doc_size_max = Max({Len(tool.out[i]) : i \in last - tool.docnum + 1 .. last})

\* The bytes behind which the writer goes on are whole documents and keep to the limit
\* (test_bson_writer_shared_buffer).
FinishedAreWhole ==
  EndFrom(Finished, 0) = Len(Finished) /\ writer.offset <= Limit

\* The writer leaves the bytes behind its buffer alone but for one: an empty document that
\* fills the buffer up is begun with six bytes, where room was made for five
\* (bson-writer.c:186 and :205).
StraysByOne ==
  /\ stray \subseteq {Len(buf) + 1}
  /\ stray # {} => writer.offset \in {Len(buf) - 5, Len(buf)}

\* A document that is begun, grown, written or rolled back does not change those
\* that have ended.
FinishedStay ==
  [][writer'.offset >= writer.offset /\ Slice(buf', 0, writer.offset) = Finished]_vars

\* What came over the connection is what was written and ended: the streaming reader
\* puts out the first of it, and all of it when it is told the end.
AllArrives ==
  tool.name = "streaming" =>
    /\ \A i \in DOMAIN tool.out :
         /\ tool.out[i] # <<>>
         /\ tool.out[i] = WholeAt(Finished, Behind(tool.out, i - 1))
    /\ (HasAnswer /\ answer.reached_eof /\ reader.bytes_read > 0) =>
         Behind(tool.out, Len(tool.out)) = Len(Finished)

\* The buffers of both ends are in order: the reader's is a window on the stream, the
\* writer's begins with whole documents, and is passed by one byte at the most.
BuffersInOrder == TypeOK /\ Window /\ FinishedAreWhole /\ StraysByOne

\* What the programs tell of a stream is what was written into it.
ToolsTellTheStream == MaxIsTheLargest /\ AllArrives

\* Every program comes to its end.
Ends == <>(tool.pc = "done")
=============================================================================
