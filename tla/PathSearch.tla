------------------------------ MODULE PathSearch ------------------------------
(***************************************************************************)
(* What lookuppath promises, said of the parse of the document and not of  *)
(* its bytes: each segment of the path is found in one step, and it leads  *)
(* to the first pair at or after the current one whose key begins with it. *)
(* BinsonApi, which compares keys and moves a pointer over the bytes, is   *)
(* shown to implement this.                                                *)
(***************************************************************************)
EXTENDS BsonLayout

CONSTANTS Images, Paths

VARIABLES file,
          phase,    \* idle, seek a segment, found one, or fault
          from,     \* the pair the search has come to
          rest,     \* the segments that are left
          answer    \* of the search that has ended

vars == <<file, phase, from, rest, answer>>

im == Images[file]

Init ==
  /\ file \in DOMAIN Images
  /\ phase = "idle" /\ from = NULL /\ rest = <<>> /\ answer = NULL

\* A search starts at the first pair of a document that opened.
Ask(d, q) ==
  /\ phase = "idle"
  /\ phase' = "seek" /\ from' = First(d) /\ rest' = q /\ answer' = NULL
  /\ UNCHANGED file

Answer(e) ==
  /\ phase' = "idle" /\ answer' = e
  /\ UNCHANGED <<file, from, rest>>

\* Nothing follows the last slash.
Exhausted == phase = "seek" /\ rest = << <<>> >> /\ Answer(NULL)

Target == FirstPrefixed(im, from, Head(rest))
Asked == phase = "seek" /\ rest # << <<>> >> /\ from # NULL

Misses == Asked /\ Target = NULL /\ Answer(NULL)

Finds ==
  /\ Asked /\ Target # NULL
  /\ phase' = "found" /\ from' = Target
  /\ UNCHANGED <<file, rest, answer>>

\* The document entered last did not open: an empty segment is found in it, and
\* any other one is looked for through a null pointer.
Lost == phase = "seek" /\ rest # << <<>> >> /\ from = NULL

FindsNothing ==
  /\ Lost /\ Head(rest) = <<>>
  /\ phase' = "found"
  /\ UNCHANGED <<file, from, rest, answer>>

Faults ==
  /\ Lost /\ Head(rest) # <<>>
  /\ phase' = "fault"
  /\ UNCHANGED <<file, from, rest, answer>>

Returns == phase = "found" /\ (from = NULL \/ Len(rest) = 1) /\ Answer(from)

\* Into the document or array, or on with the pairs that follow any other value.
Inside(e) ==
  IF im.bytes[e] \notin Containers THEN e
  ELSE IF im.val[e] \in SealedDocs(im) THEN First(im.val[e]) ELSE NULL

Descends ==
  /\ phase = "found" /\ from # NULL /\ Len(rest) > 1
  /\ phase' = "seek" /\ from' = Inside(from) /\ rest' = Tail(rest)
  /\ UNCHANGED <<file, answer>>

\* The program has no more use for the answer.
Forget ==
  /\ phase = "idle"
  /\ answer' = NULL
  /\ UNCHANGED <<file, phase, from, rest>>

Search == Exhausted \/ Misses \/ Finds \/ FindsNothing \/ Faults \/ Returns \/ Descends

Next == Search \/ Forget \/ \E d \in SealedDocs(im), q \in Paths : Ask(d, q)

Spec == Init /\ [][Next]_vars
FairSpec == Spec /\ WF_vars(Search)
=============================================================================
