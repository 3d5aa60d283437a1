------------------------------ MODULE BsonReader ------------------------------
(***************************************************************************)
(* How libbson reads a sequence of documents (bson-reader.c), from memory  *)
(* or from a descriptor that delivers its bytes piece by piece: a buffer   *)
(* is a window on the stream, which is moved and grows until the document  *)
(* at its beginning is whole.                                              *)
(***************************************************************************)
EXTENDS BsonIter

CONSTANTS
  InitialLen,    \* the size of a new buffer (1024)
  CanFail        \* whether reading from a descriptor may fail

ASSUME ReaderAssumption == InitialLen \in Nat /\ InitialLen >= 4 /\ CanFail \in BOOLEAN

VARIABLES
  stream,        \* the bytes that have arrived behind the descriptor so far
  closed,        \* whether no more will arrive
  reader,        \* the bson_reader_t
  answer         \* what bson_reader_read returned last, NoAnswer while it runs

readerVars == <<stream, closed, reader, answer>>

\* data holds the first end bytes of the buffer; reading says that bson_reader_read
\* has been called and has not returned.
Reader(type, len) ==
  [type |-> type, done |-> FALSE, failed |-> FALSE, data |-> <<>>, len |-> len,
   offset |-> 0, bytes_read |-> 0, reading |-> FALSE]
NoReader == Reader("NONE", 0)

Returns(doc, reached_eof) == [doc |-> doc, reached_eof |-> reached_eof]
NoAnswer == Returns(<<>>, FALSE)

InBuffer(r) == Len(r.data) - r.offset

-----------------------------------------------------------------------------
(* Filling the buffer.                                                     *)

Got(bytes) == [ret |-> Len(bytes), bytes |-> bytes]
Failure == [ret |-> -1, bytes |-> <<>>]

\* What read may return for room bytes: some of those that have arrived, nothing at
\* the end, or a failure.  While there is nothing it waits, or is called again.
read_func(r, room) ==
  LET there == Len(stream) - r.bytes_read IN
  {Got(Slice(stream, r.bytes_read, n)) : n \in 1 .. Min({room, there})}
    \cup (IF room = 0 \/ (closed /\ there = 0) THEN {Got(<<>>)} ELSE {})
    \cup (IF CanFail THEN {Failure} ELSE {})

\* Slip: what was not used yet is dropped with what was.
MovedToStartOver(r) == [r EXCEPT !.data = <<>>, !.offset = 0]

\* The documents that were read leave the buffer.
MovedToStart(r) == [r EXCEPT !.data = Slice(r.data, r.offset, InBuffer(r)), !.offset = 0]

\* Slip: a failure is taken for the end.
AlwaysEnded(r, got) == [r EXCEPT !.done = TRUE]

\* While there is nothing in the buffer, a failure is not told from the end.
EndedBy(r, got) ==
  IF r.offset = 0 /\ r.data = <<>> THEN [r EXCEPT !.done = TRUE]
  ELSE [MovedToStart(r) EXCEPT !.done = TRUE, !.failed = got.ret < 0]

Filled(r, got) ==
  IF got.ret <= 0 THEN EndedBy(r, got)
  ELSE [MovedToStart(r) EXCEPT !.data = @ \o got.bytes, !.bytes_read = @ + got.ret]

\* _bson_reader_handle_fill_buffer, on a buffer that may just have grown.
fill_buffer(r) ==
  /\ \E got \in read_func(r, r.len - InBuffer(r)) : reader' = Filled(r, got)
  /\ UNCHANGED <<stream, closed, answer>>

\* Slip: the new size is not noted.
grow_buffer_unnoted(r) == r

grow_buffer(r) == [r EXCEPT !.len = 2 * @]

-----------------------------------------------------------------------------

bson_reader_new_from_fd(s, ended) ==
  LET r == Reader("HANDLE", InitialLen) IN
  /\ reader.type = "NONE"
  /\ stream' = s /\ closed' = ended /\ answer' = NoAnswer
  /\ \/ \E n \in 1 .. Min({r.len, Len(s)}) : reader' = Filled(r, Got(Slice(s, 0, n)))
     \/ s = <<>> /\ ended /\ reader' = Filled(r, Got(<<>>))
     \/ CanFail /\ reader' = Filled(r, Failure)

bson_reader_new_from_data(bytes) ==
  /\ reader.type = "NONE"
  /\ reader' = [Reader("DATA", Len(bytes)) EXCEPT !.data = bytes, !.bytes_read = Len(bytes)]
  /\ stream' = bytes /\ closed' = TRUE /\ answer' = NoAnswer

bson_reader_read ==
  /\ reader.type # "NONE" /\ ~reader.reading
  /\ reader' = [reader EXCEPT !.reading = TRUE]
  /\ answer' = NoAnswer
  /\ UNCHANGED <<stream, closed>>

bson_reader_destroy == reader' = NoReader /\ UNCHANGED <<stream, closed, answer>>

\* The length of the next document, an int32_t; that of -1 stands for all below zero.
Blen(r) == IF At(r.data, r.offset + 3) > 127 THEN -1 ELSE U32At(r.data, r.offset)
NextDocument(r) == Slice(r.data, r.offset, Blen(r))

Answers(doc, reached_eof) ==
  /\ answer' = Returns(doc, reached_eof)
  /\ reader' = [reader EXCEPT !.reading = FALSE, !.offset = @ + Len(doc)]
  /\ UNCHANGED <<stream, closed>>

-----------------------------------------------------------------------------
(* _bson_reader_handle_read, one action for each way through its loop.     *)

HandleReads == reader.reading /\ reader.type = "HANDLE"
HasLength == ~reader.done /\ InBuffer(reader) >= 4

WithoutLength ==
  /\ HandleReads /\ ~reader.done /\ InBuffer(reader) < 4
  /\ fill_buffer(reader)

Incomplete ==
  /\ HandleReads /\ HasLength
  /\ Blen(reader) >= 5 /\ Blen(reader) > InBuffer(reader)
  /\ fill_buffer(IF Blen(reader) > reader.len THEN grow_buffer(reader) ELSE reader)

HandleReturns ==
  /\ HandleReads /\ HasLength
  /\ Blen(reader) \in 5 .. InBuffer(reader)
  /\ bson_init_static(NextDocument(reader))
  /\ Answers(NextDocument(reader), FALSE)

Rejects(r) == Blen(r) < 5 \/ (Blen(r) <= InBuffer(r) /\ ~bson_init_static(NextDocument(r)))

HandleRejects ==
  /\ HandleReads /\ HasLength
  /\ Rejects(reader)
  /\ Answers(<<>>, FALSE)

HandleEnds ==
  /\ HandleReads /\ reader.done
  /\ Answers(<<>>, ~reader.failed)

\* _bson_reader_data_read: the end is where no byte is left over.
DataReads ==
  /\ reader.reading /\ reader.type = "DATA"
  /\ IF reader.offset + 4 < Len(reader.data)
     THEN Answers(IF /\ Blen(reader) \in 5 .. InBuffer(reader)
                     /\ bson_init_static(NextDocument(reader))
                  THEN NextDocument(reader) ELSE <<>>, FALSE)
     ELSE Answers(<<>>, reader.offset = Len(reader.data))

ReaderStep ==
  \/ WithoutLength \/ Incomplete \/ HandleReturns \/ HandleRejects \/ HandleEnds \/ DataReads

\* The position in the stream behind the last document that was returned.
bson_reader_tell(r) == r.bytes_read - Len(r.data) + r.offset
=============================================================================
