------------------------------ MODULE BsonSource ------------------------------
(***************************************************************************)
(* What bson_reader_read promises, without a buffer: a position in a       *)
(* stream that grows at its end; each call returns the document there, if  *)
(* it is whole, and moves behind it.                                       *)
(***************************************************************************)
EXTENDS Naturals, Sequences

CONSTANT WholeAt(_, _)   \* the document at a position of a stream, <<>> if there is none

VARIABLES stream, position, answer, active

vars == <<stream, position, answer, active>>

Init == stream = <<>> /\ position = 0 /\ answer = <<>> /\ active = FALSE

\* A reader is made, or bytes arrive.
Begin ==
  /\ ~active /\ active' = TRUE
  /\ position' = 0 /\ answer' = <<>>

Arrive ==
  /\ Len(stream') >= Len(stream) /\ SubSeq(stream', 1, Len(stream)) = stream
  /\ UNCHANGED <<position, answer, active>>

Read ==
  /\ active
  /\ answer' = WholeAt(stream, position) /\ answer' # <<>>
  /\ position' = position + Len(answer')
  /\ UNCHANGED <<stream, active>>

\* The answer is forgotten, with the next call or because there is no more.
Forget == answer' = <<>> /\ UNCHANGED <<stream, position, active>>

End == active' = FALSE /\ position' = 0 /\ UNCHANGED <<stream, answer>>

Next == Begin \/ Arrive \/ Read \/ Forget \/ End

Spec == Init /\ [][Next]_vars
=============================================================================
