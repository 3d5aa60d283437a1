------------------------------ MODULE BinsonApi ------------------------------
(***************************************************************************)
(* A program that uses binson.c: one thread that loads a buffer, opens it, *)
(* walks it with nextitem, searches it with lookuppath and opens the       *)
(* documents it finds, in any order, with the one errorno all calls share. *)
(*                                                                         *)
(* opendoc, nextitem and getvalue are one step each.  lookuppath is a step *)
(* per turn of its own loop and a step per turn of the loop in lookup:     *)
(* base is lookuppath's variable buffer, probe is lookup's parameter       *)
(* buffer and path is what is left of the string, split at its slashes (a  *)
(* string splits into at least one segment, and segments may be empty).    *)
(* pc = "fault" is a read outside of the buffer or through a null pointer: *)
(* C says nothing of what comes after, and neither does the model.         *)
(***************************************************************************)
EXTENDS BsonLayout

CONSTANTS Images,   \* Images[f]: the buffer the program loads from file f
          Paths     \* the paths it may look up, as sequences of segments

Char == Byte \ {0, 47}

ASSUME ImagesAssumption == \A f \in DOMAIN Images : Images[f].bytes \in Seq(Byte)
ASSUME PathsAssumption == Paths \subseteq Seq(Seq(Char)) \ {<<>>}

VARIABLES file,      \* the file that was loaded; never changes
          errorno,   \* the global of binson.h
          pc,        \* idle between calls; path, scan, matched in lookuppath; fault
          base, probe, path,
          call,      \* the last call and its arguments
          ret,       \* what the last finished call returned
          doc, el    \* pointers the program keeps: last opened, last element reached

locals == <<base, probe, path>>
vars == <<file, errorno, pc, base, probe, path, call, ret, doc, el>>

im == Images[file]
m == im.bytes
NoCall == [op |-> "none", at |-> NULL, path |-> <<>>]

Init ==
  /\ file \in DOMAIN Images
  /\ errorno = 0 /\ pc = "idle"
  /\ base = NULL /\ probe = NULL /\ path = <<>>
  /\ call = NoCall /\ ret = NULL
  /\ doc = NULL /\ el = NULL

Fault == pc' = "fault" /\ UNCHANGED <<file, errorno, base, probe, path, ret, doc, el>>

-----------------------------------------------------------------------------
(* The calls that are one step.                                            *)

\* doc and el move only to a document that opened: the program tests errorno.
Opendoc(p, len) ==
  /\ pc = "idle"
  /\ call' = [op |-> "opendoc", at |-> p, path |-> <<>>]
  /\ \/ /\ opendoc(m, p, len) = WILD
        /\ Fault
     \/ /\ opendoc(m, p, len) # WILD
        /\ ret' = opendoc(m, p, len)
        /\ errorno' = opendoc_errorno(m, p, len)
        /\ doc' = IF ret' = NULL THEN doc ELSE ret'
        /\ el' = IF ret' = NULL THEN el ELSE ret'
        /\ UNCHANGED <<file, pc, locals>>

\* The loaded buffer, its length given or left to opendoc to find out.
OpenContent == \E len \in {0, Len(m)} : Opendoc(1, len)

\* The value of a pair that is a document or an array.
OpenValue ==
  /\ el \in DOMAIN m
  /\ gettype(m, el) \in Containers
  /\ Opendoc(getvalue(m, el), 0)

\* The program tests *el, as every loop over nextitem in the repository does.
Nextitem ==
  /\ pc = "idle"
  /\ el # NULL
  /\ el \in DOMAIN m => m[el] # 0
  /\ call' = [op |-> "nextitem", at |-> el, path |-> <<>>]
  /\ \/ /\ nextitem(m, el) \notin DOMAIN m
        /\ Fault
     \/ /\ nextitem(m, el) \in DOMAIN m
        /\ ret' = nextitem(m, el)
        /\ el' = ret'
        /\ UNCHANGED <<file, errorno, pc, locals, doc>>

Getvalue ==
  /\ pc = "idle"
  /\ el # NULL
  /\ call' = [op |-> "getvalue", at |-> el, path |-> <<>>]
  /\ \/ /\ getvalue(m, el) = WILD
        /\ Fault
     \/ /\ getvalue(m, el) # WILD
        /\ ret' = getvalue(m, el)
        /\ errorno' = getvalue_errorno(m, el, errorno)
        /\ UNCHANGED <<file, pc, locals, doc, el>>

-----------------------------------------------------------------------------
(* lookuppath and the lookup it calls.                                     *)

Lookuppath(q) ==
  /\ pc = "idle"
  /\ doc # NULL
  /\ call' = [op |-> "lookuppath", at |-> doc, path |-> q]
  /\ base' = doc
  /\ path' = q
  /\ pc' = "path"
  /\ UNCHANGED <<file, errorno, probe, ret, doc, el>>

Return(p) ==
  /\ pc' = "idle"
  /\ ret' = p
  /\ el' = IF p = NULL THEN el ELSE p
  /\ UNCHANGED <<file, errorno, call, doc>>

\* while (*path): at the end of the string, or on to lookup.
PathEnds ==
  /\ pc = "path"
  /\ path = << <<>> >>
  /\ Return(NULL)
  /\ UNCHANGED locals

\* Slip: every segment is looked for from where the search began.
CallLookupFromStart ==
  /\ pc = "path"
  /\ path # << <<>> >>
  /\ probe' = doc
  /\ pc' = "scan"
  /\ UNCHANGED <<file, errorno, base, path, call, ret, doc, el>>

CallLookup ==
  /\ pc = "path"
  /\ path # << <<>> >>
  /\ probe' = base
  /\ pc' = "scan"
  /\ UNCHANGED <<file, errorno, base, path, call, ret, doc, el>>

\* One turn of lookup's do-while.
Matches == KeyHasPrefix(m, probe, Head(path)) /\ ~KeyRunsOut(m, probe, Head(path))
Differs == ~KeyHasPrefix(m, probe, Head(path)) /\ ~KeyRunsOut(m, probe, Head(path))
Following == nextitem(m, probe)

LookupFinds ==
  /\ pc = "scan"
  /\ Matches
  /\ base' = probe
  /\ pc' = "matched"
  /\ UNCHANGED <<file, errorno, probe, path, call, ret, doc, el>>

\* Slip: the loop tests the pointer and not the byte it points to.
GoesOnPastEnd ==
  /\ pc = "scan"
  /\ Differs
  /\ Following \in DOMAIN m
  /\ probe' = Following
  /\ UNCHANGED <<file, errorno, pc, base, path, call, ret, doc, el>>

LookupGoesOn ==
  /\ pc = "scan"
  /\ Differs
  /\ Following \in DOMAIN m
  /\ m[Following] # 0
  /\ probe' = Following
  /\ UNCHANGED <<file, errorno, pc, base, path, call, ret, doc, el>>

\* Slip: what comes back is the pair that was tried last.
MissesWithLast ==
  /\ pc = "scan"
  /\ Differs
  /\ Following \in DOMAIN m
  /\ m[Following] = 0
  /\ Return(probe)
  /\ UNCHANGED locals

LookupMisses ==
  /\ pc = "scan"
  /\ Differs
  /\ Following \in DOMAIN m
  /\ m[Following] = 0
  /\ Return(NULL)
  /\ UNCHANGED locals

LookupFaults ==
  /\ pc = "scan"
  /\ KeyRunsOut(m, probe, Head(path)) \/ (Differs /\ Following \notin DOMAIN m)
  /\ Fault
  /\ UNCHANGED call

\* Slip: the end of the string is not looked for.
NoLastSegment == FALSE

\* if (!*next)
LastSegment == Len(path) = 1

ToBeOpened(t) == t \in Containers

\* Slip: the segment is not skipped.
SameSegments == path

\* next++, path = next
OtherSegments == Tail(path)

\* After lookup: the last segment, a null pointer, or one level down.
PathDone ==
  /\ pc = "matched"
  /\ base = NULL \/ LastSegment
  /\ Return(base)
  /\ UNCHANGED locals

PathDescends ==
  /\ pc = "matched"
  /\ base # NULL /\ ~LastSegment
  /\ LET inside == opendoc(m, getvalue(m, base), 0)
         nested == base \in DOMAIN m /\ ToBeOpened(gettype(m, base))
     IN  \/ /\ base \notin DOMAIN m \/ (nested /\ inside = WILD)
            /\ Fault
         \/ /\ nested /\ inside # WILD
            /\ base' = inside
            /\ errorno' = opendoc_errorno(m, getvalue(m, base), 0)
            /\ path' = OtherSegments
            /\ pc' = "path"
            /\ UNCHANGED <<file, probe, ret, doc, el>>
         \/ /\ base \in DOMAIN m /\ ~nested
            /\ path' = OtherSegments
            /\ pc' = "path"
            /\ UNCHANGED <<file, errorno, base, probe, ret, doc, el>>
  /\ UNCHANGED call

Library ==
  \/ PathEnds \/ CallLookup \/ LookupFinds \/ LookupGoesOn \/ LookupMisses
  \/ LookupFaults \/ PathDone \/ PathDescends

Program ==
  \/ OpenContent \/ OpenValue \/ Nextitem \/ Getvalue
  \/ \E q \in Paths : Lookuppath(q)

Next == Library \/ Program

Spec == Init /\ [][Next]_vars

\* The library runs on the caller's thread and never blocks: a call goes on.
FairSpec == Spec /\ WF_vars(Library)

-----------------------------------------------------------------------------
(* Properties.  A proper image is a BSON document, possibly with damaged     *)
(* ones inside, in which every document that opens has a pair: lookup has   *)
(* no test for a document without one.                                      *)

ProperFiles == {f \in DOMAIN Images : WellFormed(Images[f]) /\ NoneEmpty(Images[f])}
Proper == file \in ProperFiles

InLookuppath == pc \in {"path", "scan", "matched"}
LookupReturned == pc = "idle" /\ call.op = "lookuppath"

\* Every variable keeps its type, whatever the buffer holds.
TypeOK ==
  /\ file \in DOMAIN Images
  /\ errorno \in {0, ERR_BADSIZEORENDING, ERR_INVALIDBUFFER}
  /\ pc \in {"idle", "path", "scan", "matched", "fault"}
  /\ {base, probe, ret, doc, el} \subseteq Int
  /\ path \in Seq(Seq(Char))
  /\ InLookuppath => path # <<>>
  /\ call.op \in {"none", "opendoc", "nextitem", "getvalue", "lookuppath"}
  /\ call.at \in Int /\ call.path \in Seq(Seq(Char))

\* In a proper image every pointer the library or its caller holds is null or
\* on a boundary of the parse: the pointer arithmetic of next_element agrees
\* with the format for every type, call after call.
OnTrack ==
  Proper =>
    /\ doc \in {NULL} \cup Firsts(im)
    /\ el \in {NULL} \cup Elems(im) \cup Ends(im)
    /\ InLookuppath => base \in {NULL} \cup Elems(im)
    /\ pc = "scan" => probe \in {NULL} \cup Elems(im)

\* In a proper image the library reads outside of the buffer in one way only:
\* lookuppath goes on with the null pointer of an opendoc that failed.
FaultOnlyAfterFailedOpen ==
  Proper /\ pc = "fault" => base = NULL /\ errorno = ERR_BADSIZEORENDING

\* Where one segment leads: to the first pair of the document it opens, to the
\* pair itself when that is neither a document nor an array, or nowhere.
Enter(img, e) ==
  CASE e = NULL -> NULL
    [] e # NULL /\ img.bytes[e] \notin Containers -> e
    [] OTHER -> IF img.val[e] \in SealedDocs(img) THEN First(img.val[e]) ELSE NULL

PrefixStep(img, p, s) == Enter(img, FirstPrefixed(img, p, s))

NameStep(img, p, s) ==
  LET e == FirstNamed(img, p, s)
  IN  IF e # NULL /\ img.bytes[e] \in Containers THEN Enter(img, e) ELSE NULL

\* Where the first segments of q lead from p, by the rule of the code and by that
\* of the documentation: the keys are the segments, and only documents have keys.
PrefixesLead(img, p, q) ==
  LET to[i \in 0 .. Len(q)] == IF i = 0 THEN p ELSE PrefixStep(img, to[i - 1], q[i])
  IN  to

NamesLead(img, p, q) ==
  LET to[i \in 0 .. Len(q)] == IF i = 0 THEN p ELSE NameStep(img, to[i - 1], q[i])
  IN  to

\* The pair the path q leads to, by the same two rules.
CodeAnswer(img, p, q) ==
  IF Last(q) = <<>> THEN NULL
  ELSE FirstPrefixed(img, PrefixesLead(img, p, q)[Len(q) - 1], Last(q))

DocumentedAnswer(img, p, q) == FirstNamed(img, NamesLead(img, p, q)[Len(q) - 1], Last(q))

\* No segment of q is empty or only the beginning of a key, and none but the
\* last names a pair that is neither a document nor an array.
PlainPath(img, q) ==
  /\ <<>> \notin ToSet(q)
  /\ \A e \in Elems(img), i \in 1 .. Len(q) :
       IsPrefix(q[i], KeyOf(img, e)) =>
         KeyOf(img, e) = q[i] /\ (i < Len(q) => img.bytes[e] \in Containers)

\* In a proper image lookuppath returns the pair its last segment leads to,
\* each segment leading to the first pair whose key begins with it, and null
\* if there is none or the path ends in a slash; on plain paths that is what
\* README.md promises: the pair with that name, or zero if the key does not exist.
LookupAnswer ==
  Proper /\ LookupReturned =>
    /\ ret = CodeAnswer(im, call.at, call.path)
    /\ PlainPath(im, call.path) => ret = DocumentedAnswer(im, call.at, call.path)

\* The first i segments of q lead to a document that does not open.
Damaged(img, p, q, i) ==
  LET e == FirstPrefixed(img, PrefixesLead(img, p, q)[i - 1], q[i])
  IN  e # NULL /\ img.bytes[e] \in Containers /\ img.val[e] \notin SealedDocs(img)

\* When errorno is zero after a call, the call did not fail: opendoc and getvalue
\* returned a pointer, and lookuppath met no document that does not open.
ErrorNotMissed ==
  Proper /\ pc = "idle" /\ errorno = 0 =>
    /\ call.op \in {"opendoc", "getvalue"} => ret # NULL
    /\ call.op = "lookuppath" =>
         \A i \in 1 .. Len(call.path) - 1 : ~Damaged(im, call.at, call.path, i)

StepsForward ==
  /\ pc = "scan" /\ pc' = "scan" => probe < probe'
  /\ InLookuppath /\ InLookuppath' /\ base' # NULL => base <= base'

\* In a proper image lookup only moves forward, and lookuppath restarts it no
\* further back than the pair it found: why both loops end.
ForwardOnly == [][Proper => StepsForward]_vars

-----------------------------------------------------------------------------
(* lookuppath implements PathSearch: a turn of lookup's loop is a stutter   *)
(* until it decides the segment, and so is every other call.               *)

Search == INSTANCE PathSearch WITH
  phase  <- CASE pc \in {"path", "scan"} -> "seek" [] pc = "matched" -> "found" [] OTHER -> pc,
  from   <- base,
  rest   <- path,
  answer <- IF LookupReturned THEN ret ELSE NULL

\* In proper images, the search of the bytes is the search of the parse.
ImplementsPathSearch == Proper => Search!Spec

\* Nor does the former stop where the latter would go on: every lookuppath comes
\* back, or stops at a null pointer.
ImplementsFairPathSearch == Search!FairSpec

-----------------------------------------------------------------------------
(* What the documentation says of every call, and the code does not do.     *)

\* README.md: "If the key doesn't exist it returns zero".
MissingKeyReturnsZero ==
  /\ call.op = "lookuppath" /\ ~InLookuppath
  /\ DocumentedAnswer(im, call.at, call.path) = NULL
  => pc = "idle" /\ ret = NULL
=============================================================================
