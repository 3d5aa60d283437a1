------------------------------ MODULE BsonWriter ------------------------------
(***************************************************************************)
(* How libbson writes documents one behind the other into a buffer of the  *)
(* caller (bson-writer.c).  The document that is being written is a bson_t *)
(* on the end of the buffer; it is kept when it ends, or rolled back.      *)
(***************************************************************************)
EXTENDS BsonAppend

CONSTANTS
  FirstBuffer,   \* the size of a buffer that had none (64)
  Initial,       \* buffers the writer is given
  Reallocs,      \* whether the writer is given a realloc function: a set of BOOLEANs
  Appended       \* the pairs that are appended

ASSUME WriterAssumption ==
  /\ FirstBuffer \in Nat \ {0} /\ Reallocs \subseteq BOOLEAN /\ Initial \subseteq Seq(Byte)
  /\ \A a \in Appended : a.bytes \in Seq(Byte) /\ a.n_bytes = Len(a.bytes)

VARIABLES
  buf,           \* the caller's buffer; its length is buflen
  writer,        \* the bson_writer_t; b_len is the length of its bson_t, zero if none
  stray          \* the positions behind the end of buf that were written to

writerVars == <<buf, writer, stray>>

Unwritten == 170
New(n) == [i \in 1 .. n |-> Unwritten]

\* m with bytes from offset o on, as far as m reaches; what is written behind it is stray.
Put(m, o, bytes) == [i \in DOMAIN m |-> IF i - o \in DOMAIN bytes THEN bytes[i - o] ELSE m[i]]

\* The stray positions once n bytes are written from offset o on, into a buffer of size
\* bytes; a buffer that has grown is new memory.
Strayed(size, o, n) ==
  {i \in o + 1 .. o + n : i > size} \cup (IF size = Len(buf) THEN stray ELSE {})

bson_writer_new(memory, offset, realloc) ==
  /\ buf = memory /\ stray = {}
  /\ writer = [ready |-> TRUE, offset |-> offset, b_len |-> 0, realloc |-> realloc]

bson_writer_get_length(w) == w.offset + w.b_len

\* n doubled until need bytes fit.
Doubled(n, need) ==
  LET twice[m \in 1 .. need - 1] == IF 2 * m >= need THEN 2 * m ELSE twice[2 * m]
  IN  IF n >= need THEN n ELSE twice[n]

\* Room is made for the five bytes of an empty document, and six are written.
bson_writer_begin ==
  LET need == writer.offset + 5
      size == Doubled(IF buf = <<>> THEN FirstBuffer ELSE Len(buf), need)
  IN  /\ writer.ready
      /\ need <= Len(buf) \/ writer.realloc
      /\ buf' = Put(Put(New(size), 0, buf), writer.offset, <<5, 0, 0, 0, 0, 0>>)
      /\ stray' = Strayed(size, writer.offset, 6)
      /\ writer' = [writer EXCEPT !.ready = FALSE, !.b_len = 5]

\* Without a realloc function nothing begins where there is no room.
bson_writer_begin_fails ==
  /\ writer.ready
  /\ writer.offset + 5 > Len(buf) /\ ~writer.realloc
  /\ UNCHANGED writerVars

\* The buffer with room for n more bytes in the document, a power of two, or none.
Grown(n) ==
  LET req == writer.offset + writer.b_len + n IN
  IF req <= Len(buf) THEN {buf}
  ELSE IF ~writer.realloc THEN {}
  ELSE {Put(New(Doubled(1, req)), 0, buf)}

\* A pair is appended to the bson_t of the writer.
WriterAppends(a) ==
  LET end == writer.offset + writer.b_len - 1 IN
  /\ ~writer.ready
  /\ \E m \in Grown(a.n_bytes) :
       /\ buf' = Put(Put(m, end, a.bytes \o <<0>>), writer.offset, LE(writer.b_len + Len(a.bytes), 4))
       /\ stray' = Strayed(Len(m), end, Len(a.bytes) + 1)
  /\ writer' = [writer EXCEPT !.b_len = @ + Len(a.bytes)]

bson_writer_end ==
  /\ ~writer.ready
  /\ writer' = [writer EXCEPT !.offset = @ + writer.b_len, !.b_len = 0, !.ready = TRUE]
  /\ UNCHANGED <<buf, stray>>

\* Slip: rolling back is ending.
RollbackKeeps(w) == [w EXCEPT !.offset = @ + w.b_len, !.b_len = 0, !.ready = TRUE]

\* Slip: everything is rolled back.
RollbackAll(w) == [w EXCEPT !.offset = 0, !.b_len = 0, !.ready = TRUE]

RolledBack(w) == [w EXCEPT !.b_len = 0, !.ready = TRUE]

bson_writer_rollback ==
  ~writer.ready /\ writer' = RolledBack(writer) /\ UNCHANGED <<buf, stray>>

\* The bytes of the documents that have ended.
Finished == Slice(buf, 0, writer.offset)
=============================================================================
