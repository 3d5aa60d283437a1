-------------------------------- MODULE Tojson --------------------------------
(***************************************************************************)
(* testbinson FILE: main loads a file, opens it and prints it as JSON.     *)
(*                                                                         *)
(* stack holds the activations of the recursive tojson, the running one    *)
(* first: its parameters buffer and isarray, and more for its local i, of  *)
(* which only i > 0 is used; its parameter level is not used at all.  A    *)
(* turn of its loop is three steps: the separator and the key; the value   *)
(* or, for a document or an array, opendoc and the call of tojson; and the *)
(* advance to the next pair.                                               *)
(*                                                                         *)
(* out is what was printed, as tokens.  A value is shown by what printf    *)
(* was given, and not by its digits: how %0.2lf rounds is left out.        *)
(***************************************************************************)
EXTENDS BsonLayout

CONSTANTS Images,   \* Images[f]: the contents of file f
          MaxOut    \* how many tokens of the output are kept

ASSUME MaxOutAssumption == MaxOut \in Nat
ASSUME ImagesAssumption == \A f \in DOMAIN Images : Images[f].bytes \in Seq(Byte)

VARIABLES file, errorno,
          pc,       \* main, enter, key, value, advance, leave; done, exit, fault
          stack, out

vars == <<file, errorno, pc, stack, out>>

im == Images[file]
m == im.bytes

Top == Head(stack)
here == Top.buffer
Frame(p, arr) == [buffer |-> p, more |-> FALSE, isarray |-> arr]

Init ==
  /\ file \in DOMAIN Images
  /\ errorno = 0
  /\ pc = "main"
  /\ stack = <<>> /\ out = <<>>

-----------------------------------------------------------------------------
(* What is printed.                                                        *)

Open(arr) == [kind |-> "open", array |-> arr]
Close(arr) == [kind |-> "close", array |-> arr]
Comma == [kind |-> "comma"]
Key(chars) == [kind |-> "key", chars |-> chars]
Value(t, shown) == [kind |-> "value", type |-> t, shown |-> shown]
Error(n) == [kind |-> "error", errorno |-> n]

\* The characters %s prints from p on.
CString(mm, p) == SubSeq(mm, p, NulFrom(mm, p) - 1)

\* What printf is given for the value of type t at v: an int64 is dereferenced as
\* the byte it begins with, and the types of the default case are not read.
Shown(mm, t, v) ==
  CASE t = BT_INT32BIT -> <<asint(mm, v)>>
    [] t = BT_FLOP64BIT -> SubSeq(mm, v, v + 7)
    [] t = BT_BOOLFALSETRUE -> <<IF mm[v] # 0 THEN 1 ELSE 0>>
    [] t = BT_INT64BIT -> <<mm[v]>>
    [] t \in Strings -> CString(mm, v + 4)
    [] OTHER -> <<>>

CanShow(mm, t, v) ==
  \/ t \notin Strings \cup {BT_INT32BIT, BT_FLOP64BIT, BT_BOOLFALSETRUE, BT_INT64BIT}
  \/ t \in {BT_BOOLFALSETRUE, BT_INT64BIT} /\ Readable(mm, v, 1)
  \/ t = BT_INT32BIT /\ Readable(mm, v, 4)
  \/ t = BT_FLOP64BIT /\ Readable(mm, v, 8)
  \/ t \in Strings /\ v # WILD /\ HasNul(mm, v + 4)

\* The first MaxOut tokens of a text.
Kept(text) == SubSeq(text, 1, IF Len(text) < MaxOut THEN Len(text) ELSE MaxOut)

Printf(tokens) == out' = Kept(out \o tokens)

-----------------------------------------------------------------------------
(* main.                                                                   *)

\* A file opendoc cannot read to its end is a read outside of the buffer.
Main ==
  /\ pc = "main"
  /\ \/ /\ opendoc(m, 1, 0) = WILD
        /\ pc' = "fault"
        /\ UNCHANGED <<errorno, stack>>
     \/ /\ opendoc(m, 1, 0) = NULL
        /\ errorno' = opendoc_errorno(m, 1, 0)
        /\ pc' = "exit"
        /\ UNCHANGED stack
     \/ /\ opendoc(m, 1, 0) \notin {NULL, WILD}
        /\ errorno' = opendoc_errorno(m, 1, 0)
        /\ stack' = <<Frame(opendoc(m, 1, 0), FALSE)>>
        /\ pc' = "enter"
  /\ UNCHANGED <<file, out>>

-----------------------------------------------------------------------------
(* tojson.                                                                 *)

\* The bracket, and if (*buffer).
Enter ==
  /\ pc = "enter"
  /\ Printf(<<Open(Top.isarray)>>)
  /\ \/ here \notin DOMAIN m /\ pc' = "fault"
     \/ here \in DOMAIN m /\ m[here] = 0 /\ pc' = "leave"
     \/ here \in DOMAIN m /\ m[here] # 0 /\ pc' = "key"
  /\ UNCHANGED <<file, errorno, stack>>

\* Slip: also before the first pair.
AlwaysComma == <<Comma>>

Separator == IF Top.more THEN <<Comma>> ELSE <<>>

\* The key of a pair of an array is not printed.
PrintKey ==
  /\ pc = "key"
  /\ \/ /\ Top.isarray
        /\ Printf(Separator)
        /\ pc' = "value"
     \/ /\ ~Top.isarray /\ HasNul(m, getkey(here))
        /\ Printf(Separator \o <<Key(CString(m, getkey(here)))>>)
        /\ pc' = "value"
     \/ /\ ~Top.isarray /\ ~HasNul(m, getkey(here))
        /\ pc' = "fault"
        /\ UNCHANGED out
  /\ UNCHANGED <<file, errorno, stack>>

PrintValue ==
  /\ pc = "value"
  /\ gettype(m, here) \notin Containers
  /\ LET t == gettype(m, here)
         v == getvalue(m, here)
     IN  \/ CanShow(m, t, v) /\ Printf(<<Value(t, Shown(m, t, v))>>) /\ pc' = "advance"
         \/ ~CanShow(m, t, v) /\ pc' = "fault" /\ UNCHANGED out
  /\ UNCHANGED <<file, errorno, stack>>

Inside == opendoc(m, getvalue(m, here), 0)

\* tojson(opendoc(getvalue(buffer), 0), level + 1, ...): the pointer is passed on
\* whether the document opened or not.
PrintNested ==
  /\ pc = "value"
  /\ gettype(m, here) \in Containers
  /\ \/ /\ Inside = WILD
        /\ pc' = "fault"
        /\ UNCHANGED <<errorno, stack>>
     \/ /\ Inside # WILD
        /\ errorno' = opendoc_errorno(m, getvalue(m, here), 0)
        /\ stack' = <<Frame(Inside, gettype(m, here) = BT_ARRAY)>> \o stack
        /\ pc' = "enter"
  /\ UNCHANGED <<file, out>>

\* Slip: buffer is not assigned.
NoNextPair == here

NextPair == nextitem(m, here)

\* while (*buffer)
AfterPair(p) == IF m[p] = 0 THEN "leave" ELSE "key"

\* i++, and on to the next pair.
Advance ==
  /\ pc = "advance"
  /\ \/ NextPair \notin DOMAIN m /\ pc' = "fault" /\ UNCHANGED stack
     \/ /\ NextPair \in DOMAIN m
        /\ stack' = <<[Top EXCEPT !.buffer = NextPair, !.more = TRUE]>> \o Tail(stack)
        /\ pc' = AfterPair(NextPair)
  /\ UNCHANGED <<file, errorno, out>>

ReturnTo(callers) == IF callers = <<>> THEN "done" ELSE "advance"

\* The bracket and the error message, and back to the caller.
Leave ==
  /\ pc = "leave"
  /\ Printf(<<Close(Top.isarray)>> \o IF errorno # 0 THEN <<Error(errorno)>> ELSE <<>>)
  /\ stack' = Tail(stack)
  /\ pc' = ReturnTo(Tail(stack))
  /\ UNCHANGED <<file, errorno>>

Next == Main \/ Enter \/ PrintKey \/ PrintValue \/ PrintNested \/ Advance \/ Leave

Spec == Init /\ [][Next]_vars

\* One thread, which nothing blocks.
FairSpec == Spec /\ WF_vars(Next)

-----------------------------------------------------------------------------
(* Properties.                                                             *)

Stopped == pc \in {"done", "exit", "fault"}

ParsedFiles == {f \in DOMAIN Images : WellFormed(Images[f])}
Parsed == file \in ParsedFiles
Intact == Parsed /\ SealedDocs(im) = im.docs

\* Where an activation can be in an image, and where it goes on after the pair it is at.
Places(img) == [buffer : Elems(img) \cup Ends(img), more : BOOLEAN, isarray : BOOLEAN]
After(img, f) == [f EXCEPT !.buffer = img.next[f.buffer], !.more = TRUE]

\* The JSON text of an image, by its parse: text[f] is what the document or array that
\* f has come to still has, up to its end.
Texts(img) ==
  LET type(f) == img.bytes[f.buffer]
      text[f \in Places(img)] ==
        IF f.buffer \in Ends(img) THEN <<Close(f.isarray)>>
        ELSE (IF f.more THEN <<Comma>> ELSE <<>>) \o
             (IF f.isarray THEN <<>> ELSE <<Key(KeyOf(img, f.buffer))>>) \o
             (IF type(f) \in Containers
              THEN <<Open(type(f) = BT_ARRAY)>> \o
                   text[Frame(First(img.val[f.buffer]), type(f) = BT_ARRAY)]
              ELSE <<Value(type(f), Shown(img.bytes, type(f), img.val[f.buffer]))>>) \o
             text[After(img, f)]
  IN  text

Rendered(img) == <<Open(FALSE)>> \o Texts(img)[Frame(First(1), FALSE)]

IntactFiles == {f \in ParsedFiles : SealedDocs(Images[f]) = Images[f].docs}
Renderings == [f \in IntactFiles |-> Kept(Rendered(Images[f]))]

\* Every variable keeps its type, whatever the file holds.
TypeOK ==
  /\ file \in DOMAIN Images
  /\ errorno \in {0, ERR_BADSIZEORENDING}
  /\ pc \in {"main", "enter", "key", "value", "advance", "leave", "done", "exit", "fault"}
  /\ stack \in Seq([buffer : Int, more : BOOLEAN, isarray : BOOLEAN])
  /\ pc \in {"enter", "key", "value", "advance", "leave"} => stack # <<>>
  /\ Len(out) <= MaxOut

\* The activation inner prints the value of the pair its caller, outer, has come to.
InnerOfOuter(img, inner, outer) ==
  LET d == img.val[outer.buffer]
  IN  /\ outer.buffer \in Elems(img)
      /\ img.bytes[outer.buffer] = (IF inner.isarray THEN BT_ARRAY ELSE BT_EMBEDEDDOC)
      /\ inner.buffer \in
           IF d \in SealedDocs(img) THEN img.elems[d] \cup {EndOf(img, d)} ELSE {NULL}

\* In a parsed file no activation loses its place, however deep the recursion is
\* and whatever the activations it called went through: the pointer of the
\* running one is on a pair or an end, and each one is inside its caller's pair.
OnTrack ==
  Parsed =>
    /\ pc \in {"key", "value", "advance"} => here \in Elems(im)
    /\ pc = "leave" => here \in Ends(im)
    /\ \A k \in 2 .. Len(stack) : InnerOfOuter(im, stack[k - 1], stack[k])

\* In a parsed file the one read outside of the buffer is the one through the
\* pointer of a document that did not open.
FaultOnlyAfterFailedOpen ==
  Parsed /\ pc = "fault" => here = NULL /\ errorno = ERR_BADSIZEORENDING

\* The text printed for an intact file is that of its parse: every pair once, in
\* order, at its depth, and nothing else.
OutputIsText ==
  file \in IntactFiles =>
    /\ IsPrefix(out, Renderings[file])
    /\ pc \in {"done", "exit", "fault"} => pc = "done" /\ out = Renderings[file]

\* Whatever the file holds, an activation that comes to its end finds errorno
\* zero: the message of its last lines is never printed.
ErrorBranchUnreachable == pc = "leave" => errorno = 0

\* The recursion is no deeper than the file is long: a document inside another
\* has at least 7 bytes of it for its pair.
StackBounded == Parsed => 7 * Len(stack) - 2 <= Len(m)

\* What every state of the recursion keeps: no activation is lost, errors show only as a
\* read through the null pointer of a nested document (main and tojson test no result),
\* and the depth is that of the file.
StaysOnTrack ==
  TypeOK /\ OnTrack /\ FaultOnlyAfterFailedOpen /\ ErrorBranchUnreachable /\ StackBounded

\* A parsed file is printed to the end, or up to a document that does not open.
Terminates == Parsed ~> Stopped
=============================================================================
