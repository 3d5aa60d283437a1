------------------------------- MODULE BsonVisit -------------------------------
(***************************************************************************)
(* bson_iter_visit_all with the two sets of visitors libbson has for it:   *)
(* bson_validate, which checks a document, and bson_as_json, which writes  *)
(* it as JSON.  Both recurse: a visitor of a container walks what it holds *)
(* with a visit_all of its own.  stack holds the activations of visit_all, *)
(* the innermost one last; one step visits one pair.                       *)
(*                                                                         *)
(* JSON is a sequence of tokens, a kind and the characters it holds;       *)
(* numbers, and what is written for a type JSON lacks, are one token.      *)
(***************************************************************************)
EXTENDS BsonGrammar, SequencesExt

CONSTANTS
  Tasks,         \* the calls: [call, doc, flags]
  MaxRecursion   \* BSON_MAX_RECURSION

ASSUME MaxRecursionAssumption == MaxRecursion \in Nat

VARIABLES
  task,    \* the call that is made
  stack,   \* the activations of bson_iter_visit_all
  ret      \* what the call returned, or Pending

vars == <<task, stack, ret>>

BSON_VALIDATE_UTF8 == "UTF8"
BSON_VALIDATE_DOLLAR_KEYS == "DOLLAR_KEYS"
BSON_VALIDATE_DOT_KEYS == "DOT_KEYS"
BSON_VALIDATE_UTF8_ALLOW_NULL == "UTF8_ALLOW_NULL"

Pending == [done |-> FALSE, ok |-> FALSE, offset |-> -1, text |-> <<>>]

Token(kind, chars) == <<kind, chars>>
Mark(c) == <<Token(c, <<>>)>>

-----------------------------------------------------------------------------
(* The visitors.  Each returns what it leaves of its state st and whether  *)
(* it stops the walk.  it is the iterator on the pair that is visited.     *)

GoesOn(st) == [stop |-> FALSE, st |-> st]
Stops(st) == [stop |-> TRUE, st |-> st]

DOLLAR == 36
DOT == 46
REF == <<36, 114, 101, 102>>
ID == <<36, 105, 100>>
DB == <<36, 100, 98>>

\* A DBRef is the keys $ref, $id and perhaps $db, in this order: phase is what of
\* it is expected, LF_ standing for looking for.
Unfinished == {"LF_ID_KEY", "LF_REF_UTF8", "LF_DB_UTF8"}

DollarPhase(phase, key) ==
  CASE phase = "LF_REF_KEY" /\ key = REF -> "LF_REF_UTF8"
    [] phase = "LF_ID_KEY" /\ key = ID -> "LF_DB_KEY"
    [] phase = "LF_DB_KEY" /\ key = DB -> "LF_DB_UTF8"
    [] OTHER -> "none"

\* The phase after a key, or none if no key of its kind may stand there.
PhaseAfterKey(phase, key) ==
  IF key # <<>> /\ key[1] = DOLLAR THEN DollarPhase(phase, key)
  ELSE IF phase \in Unfinished THEN "none"
  ELSE "NOT_DBREF"

validate_before(it, st) ==
  LET key == bson_iter_key(it)
      phase == IF BSON_VALIDATE_DOLLAR_KEYS \in st.flags
               THEN PhaseAfterKey(st.phase, key) ELSE st.phase
  IN  IF phase = "none" THEN Stops([st EXCEPT !.err_offset = it.off])
      ELSE IF BSON_VALIDATE_DOT_KEYS \in st.flags /\ DOT \in ToSet(key)
           THEN Stops([st EXCEPT !.phase = phase, !.err_offset = it.off])
      ELSE GoesOn([st EXCEPT !.phase = phase])

validate_utf8(it, st) ==
  IF /\ BSON_VALIDATE_UTF8 \in st.flags
     /\ ~bson_utf8_validate(bson_iter_utf8(it), BSON_VALIDATE_UTF8_ALLOW_NULL \in st.flags)
  THEN Stops([st EXCEPT !.err_offset = it.off])
  ELSE GoesOn([st EXCEPT !.phase =
         IF BSON_VALIDATE_DOLLAR_KEYS \notin st.flags THEN @
         ELSE IF @ = "LF_REF_UTF8" THEN "LF_ID_KEY"
         ELSE IF @ = "LF_DB_UTF8" THEN "NOT_DBREF" ELSE @])

\* Slip: damage is noticed, and not recorded.
validate_corrupt_unheard(it, st) == st

validate_corrupt(it, st) == [st EXCEPT !.err_offset = it.err_off]

ValidateState(flags) == [flags |-> flags, err_offset |-> -1, phase |-> "START"]

\* The phase in which bson_iter_validate_document begins to walk a document.
FirstPhase(phase) == IF phase = "START" THEN "TOP" ELSE "LF_REF_KEY"

-----------------------------------------------------------------------------

\* Slip: the state of a container inside begins as a copy of the one around it.
JsonStateCopied(keys, depth) == [count |-> depth, keys |-> keys, depth |-> depth, text |-> <<>>]

JsonState(keys, depth) == [count |-> 0, keys |-> keys, depth |-> depth, text |-> <<>>]

Said(st, tokens) == GoesOn([st EXCEPT !.text = @ \o tokens])

\* A comma, and the key if the pairs of an object are written.
as_json_before(it, st) ==
  LET key == bson_utf8_escape_for_json(bson_iter_key(it), FALSE)
      comma == IF st.count > 0 THEN Mark(",") ELSE <<>>
  IN  IF ~st.keys THEN Said([st EXCEPT !.count = @ + 1], comma)
      ELSE IF key.ok
           THEN Said([st EXCEPT !.count = @ + 1], comma \o <<Token("key", key.text)>>)
      ELSE Stops([st EXCEPT !.text = @ \o comma])

\* A string that is escaped, and one that is written as it is up to a zero.
as_json_utf8(s, st) ==
  IF bson_utf8_escape_for_json(s, TRUE).ok
  THEN Said(st, <<Token("string", bson_utf8_escape_for_json(s, TRUE).text)>>)
  ELSE Stops(st)

as_json_symbol(s, st) == Said(st, <<Token("string", CString(s))>>)

\* A code with scope is written without its scope.
as_json_code(s, st) == as_json_utf8(s, st)

\* The value of a scalar in JSON, the types JSON lacks as objects whose key begins
\* with $.  Neither a regular expression nor a collection is escaped.
JsonScalar(it) ==
  LET t == bson_iter_type(it) IN
  CASE t = BSON_TYPE_DOUBLE -> Token("double", bson_iter_double(it))
    [] t = BSON_TYPE_BINARY ->
         Token("$binary", <<bson_iter_binary(it).subtype>> \o bson_iter_binary(it).binary)
    [] t = BSON_TYPE_UNDEFINED -> Token("$undefined", <<>>)
    [] t = BSON_TYPE_OID -> Token("$oid", bson_iter_oid(it))
    [] t = BSON_TYPE_BOOL -> Token(IF bson_iter_bool(it) THEN "true" ELSE "false", <<>>)
    [] t = BSON_TYPE_DATE_TIME -> Token("$date", bson_iter_date_time(it))
    [] t = BSON_TYPE_NULL -> Token("null", <<>>)
    [] t = BSON_TYPE_REGEX ->
         Token("$regex", bson_iter_regex(it).regex \o <<0>> \o bson_iter_regex(it).options)
    [] t = BSON_TYPE_DBPOINTER ->
         Token("$ref", CString(bson_iter_dbpointer(it).collection) \o <<0>> \o bson_iter_dbpointer(it).oid)
    [] t = BSON_TYPE_INT32 -> Token("int", bson_iter_int32(it))
    [] t = BSON_TYPE_TIMESTAMP ->
         Token("$timestamp", bson_iter_timestamp(it).timestamp \o bson_iter_timestamp(it).increment)
    [] t = BSON_TYPE_INT64 -> Token("int", bson_iter_int64(it))
    [] t = BSON_TYPE_MAXKEY -> Token("$maxKey", <<>>)
    [] t = BSON_TYPE_MINKEY -> Token("$minKey", <<>>)

-----------------------------------------------------------------------------
(* The walk.                                                               *)

Validates == task.call = "validate"

before(it, st) == IF Validates THEN validate_before(it, st) ELSE as_json_before(it, st)

visit_utf8(it, st) ==
  IF Validates THEN validate_utf8(it, st) ELSE as_json_utf8(bson_iter_utf8(it), st)

visit_scalar(it, st) ==
  LET t == bson_iter_type(it) IN
  CASE t = BSON_TYPE_UTF8 -> visit_utf8(it, st)
    [] t # BSON_TYPE_UTF8 /\ Validates -> GoesOn(st)
    [] t = BSON_TYPE_CODE /\ ~Validates -> as_json_code(bson_iter_code(it), st)
    [] t = BSON_TYPE_SYMBOL /\ ~Validates -> as_json_symbol(bson_iter_symbol(it), st)
    [] t = BSON_TYPE_CODEWSCOPE /\ ~Validates -> as_json_code(bson_iter_codewscope(it).code, st)
    [] OTHER -> Said(st, <<JsonScalar(it)>>)

corrupt(it, st) == IF Validates /\ it.err_off # 0 THEN validate_corrupt(it, st) ELSE st

\* The document a visitor is given for the pair, if it is given one at all: a
\* container, or a scope, whose length or last byte is wrong is passed over.
Inside(it) ==
  LET t == bson_iter_type(it) IN
  CASE t = BSON_TYPE_DOCUMENT -> bson_iter_document(it)
    [] t = BSON_TYPE_ARRAY -> bson_iter_array(it)
    [] t = BSON_TYPE_CODEWSCOPE -> bson_iter_codewscope(it).scope
    [] OTHER -> <<>>

HasEmbedded(it) == bson_iter_type(it) \in Containers \cup {BSON_TYPE_CODEWSCOPE}
IsGiven(it) == bson_init_static(Inside(it))

\* An activation: its iterator, the state its visitors are given, whether one of
\* them has stopped it, the phase of the document around it, and how many more
\* times the iterator is handed to visit_all.
Activation(it, st, saved, passes) ==
  [it |-> it, st |-> st, stop |-> FALSE, saved |-> saved, passes |-> passes]

Top == stack[Len(stack)]
Replaced(a) == ReplaceAt(stack, Len(stack), a)

Init ==
  /\ task \in Tasks
  /\ stack = <<>>
  /\ ret = Pending

Returned(ok, offset, text) == [done |-> TRUE, ok |-> ok, offset |-> offset, text |-> text]

bson_validate ==
  /\ task.call = "validate" /\ stack = <<>> /\ ~ret.done
  /\ stack' = <<Activation(bson_iter_init(task.doc),
                           [ValidateState(task.flags) EXCEPT !.phase = "TOP"], "START", 1)>>
  /\ UNCHANGED <<task, ret>>

bson_as_json ==
  /\ task.call = "as_json" /\ stack = <<>> /\ ~ret.done
  /\ IF bson_empty(task.doc)
     THEN ret' = Returned(TRUE, 0, Mark("{") \o Mark("}")) /\ stack' = stack
     ELSE /\ stack' = <<Activation(bson_iter_init(task.doc),
                                   [JsonState(TRUE, 0) EXCEPT !.text = Mark("{")], "", 1)>>
          /\ ret' = ret
  /\ UNCHANGED task

\* The iterator of an array is walked twice.
bson_array_as_json ==
  /\ task.call = "array_as_json" /\ stack = <<>> /\ ~ret.done
  /\ IF bson_empty(task.doc)
     THEN ret' = Returned(TRUE, 0, Mark("[") \o Mark("]")) /\ stack' = stack
     ELSE /\ stack' = <<Activation(bson_iter_init(task.doc),
                                   [JsonState(FALSE, 0) EXCEPT !.text = Mark("[")], "", 2)>>
          /\ ret' = ret
  /\ UNCHANGED task

\* Where the iterator of the innermost walk is after one more bson_iter_next, if
\* nothing has stopped the walk: on the pair to visit, or at the end.
Moved == IF stack # <<>> /\ ~Top.stop THEN {bson_iter_next(Top.it)} ELSE {}
AtPair == {it \in Moved : it.raw # <<>>}
AtEnd == {it \in Moved : it.raw = <<>>}

KeyIsText(it) == bson_utf8_validate(bson_iter_key(it), FALSE)

\* visit_all has a check of its own for strings, too.
ValueIsText(it) ==
  bson_iter_type(it) = BSON_TYPE_UTF8 => bson_utf8_validate(bson_iter_utf8(it), TRUE)

\* What the visitor of all pairs returns for this one.
Before(it) == before(it, Top.st)
Passed(it) == KeyIsText(it) /\ ~Before(it).stop

Visited(it, v) == stack' = Replaced([Top EXCEPT !.it = it, !.st = v.st, !.stop = v.stop])

\* Only the iterator is told of a key or a string that is not text.
StoppedAt(it, st) ==
  stack' = Replaced([Top EXCEPT !.it = [it EXCEPT !.err_off = it.off], !.st = st, !.stop = TRUE])

VisitKey(it) ==
  /\ ~Passed(it)
  /\ IF KeyIsText(it) THEN Visited(it, Before(it)) ELSE StoppedAt(it, Top.st)
  /\ UNCHANGED <<task, ret>>

\* A scope is only written as a string, and walked only to be checked.
IsScope(it) == bson_iter_type(it) = BSON_TYPE_CODEWSCOPE
IsWalked(it) == bson_iter_type(it) \in Containers \/ (IsScope(it) /\ Validates)

VisitScalar(it) ==
  /\ Passed(it) /\ ~IsWalked(it)
  /\ IsScope(it) => IsGiven(it)
  /\ IF ValueIsText(it)
     THEN Visited(it, visit_scalar(it, Before(it).st))
     ELSE StoppedAt(it, Before(it).st)
  /\ UNCHANGED <<task, ret>>

\* Nothing is called for a container or a scope that is not a document.
VisitPassesOver(it) ==
  /\ Passed(it)
  /\ HasEmbedded(it) /\ ~IsGiven(it)
  /\ Visited(it, Before(it))
  /\ UNCHANGED <<task, ret>>

\* From MaxRecursion levels on a container is not written.
TooDeep == ~Validates /\ Top.st.depth >= MaxRecursion

VisitTooDeep(it) ==
  /\ Passed(it)
  /\ IsWalked(it) /\ IsGiven(it) /\ TooDeep
  /\ Visited(it, Said(Before(it).st, Mark("{...}")))
  /\ UNCHANGED <<task, ret>>

\* A visitor walks what the pair holds with the activation inner.
Enters(it, inner) ==
  /\ Passed(it)
  /\ IsWalked(it) /\ IsGiven(it) /\ ~TooDeep
  /\ stack' = Append(Replaced([Top EXCEPT !.it = it, !.st = Before(it).st]), inner)
  /\ UNCHANGED <<task, ret>>

ValidateDocument(it) ==
  /\ Validates /\ ~IsScope(it)
  /\ LET st == Before(it).st
     IN  Enters(it, Activation(bson_iter_init(Inside(it)),
                               [st EXCEPT !.phase = FirstPhase(@)], st.phase, 1))

\* bson_validate is called for a scope, and begins anew.
ValidateScope(it) ==
  /\ Validates /\ IsScope(it)
  /\ Enters(it, Activation(bson_iter_init(Inside(it)),
                           [ValidateState(task.flags) EXCEPT !.phase = "TOP"], "START", 1))

AsJsonContainer(it) ==
  /\ ~Validates
  /\ LET object == bson_iter_type(it) = BSON_TYPE_DOCUMENT
     IN  Enters(it, Activation(bson_iter_init(Inside(it)),
                      [JsonState(object, Top.st.depth + 1)
                         EXCEPT !.text = Mark(IF object THEN "{" ELSE "[")], "", 1))

-----------------------------------------------------------------------------
(* The end of a walk: visit_all returns to its caller.                     *)

\* There is no further pair, and damage is told to the visitor, if there is one.
VisitEnds(it) ==
  /\ stack' = Replaced([Top EXCEPT !.it = it, !.st = corrupt(it, @), !.stop = TRUE])
  /\ UNCHANGED <<task, ret>>

Closing(st) == st.text \o Mark(IF st.keys THEN "}" ELSE "]")

\* Slip: the document's own state is thrown away, and an error with it.
AfterDocumentForgets(caller, st, saved) == [caller EXCEPT !.st.phase = saved]

\* Slip: the phase is not taken back.
AfterDocumentKeepsPhase(caller, st, saved) ==
  IF st.phase \in Unfinished
  THEN [caller EXCEPT !.st = [st EXCEPT !.err_offset = caller.it.off], !.stop = TRUE]
  ELSE [caller EXCEPT !.st = st]

\* The state of the caller's visitors, and whether its walk is stopped, once the
\* walk of a document it holds has left st.
AfterDocument(caller, st, saved) ==
  IF st.phase \in Unfinished
  THEN [caller EXCEPT !.st = [st EXCEPT !.err_offset = caller.it.off], !.stop = TRUE]
  ELSE [caller EXCEPT !.st = [st EXCEPT !.phase = saved]]

\* What bson_validate makes of the walk of its whole document.
ErrorOffset(st) == IF st.phase \in Unfinished THEN 0 ELSE st.err_offset

\* A scope that is valid stops the walk, one that is not lets it go on.
AfterScope(caller, st) ==
  IF ErrorOffset(st) >= 0
  THEN [caller EXCEPT !.st.err_offset = caller.it.off + ErrorOffset(st)]
  ELSE [caller EXCEPT !.stop = TRUE]

AfterContainer(caller, st) == [caller EXCEPT !.st.text = @ \o Closing(st)]

ReturnToVisitor ==
  /\ Len(stack) > 1 /\ Top.stop
  /\ LET below == SubSeq(stack, 1, Len(stack) - 1)
         caller == below[Len(below)]
     IN  stack' = ReplaceAt(below, Len(below),
           IF ~Validates THEN AfterContainer(caller, Top.st)
           ELSE IF bson_iter_type(caller.it) = BSON_TYPE_CODEWSCOPE
                THEN AfterScope(caller, Top.st)
           ELSE AfterDocument(caller, Top.st, Top.saved))
  /\ UNCHANGED <<task, ret>>

\* The walk of the whole document returned true if the iterator still stands on a pair.
WasStopped == Top.it.raw # <<>>
NoText == WasStopped \/ Top.it.err_off # 0

Finish ==
  /\ Len(stack) = 1 /\ Top.stop
  /\ IF Top.passes > 1
     THEN stack' = <<[Top EXCEPT !.stop = FALSE, !.passes = @ - 1]>> /\ ret' = ret
     ELSE /\ stack' = <<>>
          /\ ret' = IF Validates
                    THEN Returned(ErrorOffset(Top.st) < 0, ErrorOffset(Top.st), <<>>)
                    ELSE IF NoText THEN Returned(FALSE, 0, <<>>)
                    ELSE Returned(TRUE, 0, Closing(Top.st))
  /\ UNCHANGED task

Next ==
  \/ bson_validate \/ bson_as_json \/ bson_array_as_json
  \/ \E it \in AtPair :
       \/ VisitKey(it) \/ VisitScalar(it) \/ VisitPassesOver(it) \/ VisitTooDeep(it)
       \/ ValidateDocument(it) \/ ValidateScope(it) \/ AsJsonContainer(it)
  \/ \E it \in AtEnd : VisitEnds(it)
  \/ ReturnToVisitor \/ Finish

Spec == Init /\ [][Next]_vars

-----------------------------------------------------------------------------
(* Properties.                                                             *)

\* The variables keep their types: an activation holds the state of the visitors
\* of the call that was made.
TypeOK ==
  /\ task \in Tasks
  /\ ret.done \in BOOLEAN /\ ret.ok \in BOOLEAN
  /\ ret.ok => ret.done
  /\ \A i \in DOMAIN stack :
       /\ stack[i].stop \in BOOLEAN /\ stack[i].passes \in 1 .. 2
       /\ IF Validates
          THEN stack[i].st.err_offset \in -1 .. 2 * Len(task.doc)
          ELSE stack[i].st.depth = i - 1

Accepted == ret.done /\ ret.ok

HoldsScope(m) == \E i \in DOMAIN Pairs(m) : Pairs(m)[i].type = BSON_TYPE_CODEWSCOPE

\* The keys that begin with $ are those of a DBRef, at its beginning, and there are
\* none in the document itself.
IsDollar(key) == key # <<>> /\ key[1] = DOLLAR

IsDbRef(pairs, n) ==
  /\ n \in 2 .. 3 /\ n <= Len(pairs)
  /\ pairs[1].key = REF /\ pairs[1].type = BSON_TYPE_UTF8
  /\ pairs[2].key = ID
  /\ n = 3 => pairs[3].key = DB /\ pairs[3].type = BSON_TYPE_UTF8

DollarKeysAllowed(pairs, top) ==
  LET n == Cardinality({i \in DOMAIN pairs : IsDollar(pairs[i].key)})
  IN  n = 0 \/ (~top /\ IsDbRef(pairs, n))

StringsAllowed(m, flags) ==
  \A i \in DOMAIN Pairs(m) :
    LET p == Pairs(m)[i]
    IN  (p.type = BSON_TYPE_UTF8 /\ BSON_VALIDATE_UTF8_ALLOW_NULL \notin flags) =>
          0 \notin ToSet(Inner(p.value, 5, Len(p.value) - 1))

\* What bson_validate is asked to accept, said of the document alone.
RECURSIVE Allowed(_, _, _)
Allowed(m, flags, top) ==
  LET pairs == Pairs(m)
  IN  /\ BSON_VALIDATE_DOLLAR_KEYS \in flags => DollarKeysAllowed(pairs, top)
      /\ BSON_VALIDATE_DOT_KEYS \in flags => \A i \in DOMAIN pairs : DOT \notin ToSet(pairs[i].key)
      /\ BSON_VALIDATE_UTF8 \in flags => StringsAllowed(m, flags)
      /\ \A i \in DOMAIN pairs :
           pairs[i].type \in Containers => Allowed(pairs[i].value, flags, FALSE)

RECURSIVE Scopeless(_)
Scopeless(m) ==
  /\ ~HoldsScope(m)
  /\ \A i \in DOMAIN Pairs(m) : Pairs(m)[i].type \in Containers => Scopeless(Pairs(m)[i].value)

\* A document without scopes whose strings are text is accepted exactly when its keys
\* and strings are as the flags ask: the phases of a DBRef, which the walk of every
\* document inside saves and takes back, add up to that (bson_validate).
ValidatesExactly ==
  (ret.done /\ Validates /\ IsDocument(task.doc)) =>
    ((AllText(task.doc) /\ Scopeless(task.doc)) => (ret.ok <=> Allowed(task.doc, task.flags, TRUE)))

\* Where bson_validate looks away: at text that is none, at a container that is not
\* sealed, and behind a scope, whose own validity it takes for an error; and
\* what bson_iter_next does not look at: the byte of a boolean, the string of a
\* DBPointer, the code of a scope, the second length of deprecated binary data.
Unchecked == {BSON_TYPE_CODEWSCOPE, BSON_TYPE_BOOL, BSON_TYPE_DBPOINTER, BSON_TYPE_BINARY}

RECURSIVE LooksAway(_)
LooksAway(m) ==
  LET w == Walk(bson_iter_init(m))
  IN  \E i \in DOMAIN w :
        \/ bson_iter_type(w[i]) \in Unchecked
        \/ ~bson_utf8_validate(bson_iter_key(w[i]), FALSE)
        \/ /\ bson_iter_type(w[i]) = BSON_TYPE_UTF8
           /\ ~bson_utf8_validate(bson_iter_utf8(w[i]), TRUE)
        \/ /\ bson_iter_type(w[i]) \in Containers
           /\ bson_init_static(Inside(w[i])) => LooksAway(Inside(w[i]))

\* Elsewhere every damage is found: what is accepted is a document of the grammar,
\* or holds one of the things bson_validate looks away from (bson_iter_next's
\* bounds, bson_iter_validate_corrupt).
DamageIsFound ==
  (Accepted /\ Validates /\ task.doc \notin {<<>>}) =>
    (IsDocument(task.doc) \/ LooksAway(task.doc))

\* What bson_validate accepts with BSON_VALIDATE_UTF8 is a document whose strings are
\* all UTF-8 ("will request that all UTF-8 strings are checked to contain valid UTF-8
\* sequences", doc/bson_validate.page:46).
AcceptsOnlyDocuments ==
  (Accepted /\ Validates /\ BSON_VALIDATE_UTF8 \in task.flags) => IsDocument(task.doc) /\ AllText(task.doc)

\* A walk that has rejected something is never talked out of it by the walks around
\* it: the state is handed from activation to activation until the call returns.
Rejected ==
  \/ \E i \in DOMAIN stack : Validates /\ stack[i].st.err_offset >= 0
  \/ ret.done /\ ~ret.ok

RejectionStands == [][Rejected => Rejected']_vars

-----------------------------------------------------------------------------

Quoted(kind, s, counted) == Token(kind, bson_utf8_escape_for_json(s, counted).text)

\* The string of a value that begins with its length.
StringOf(v) == Inner(v, 5, Len(v) - 1)

\* The token of a scalar of type t whose bytes are v, by the layout of the type.
ScalarJson(t, v) ==
  CASE t = BSON_TYPE_DOUBLE -> Token("double", v)
    [] t \in {BSON_TYPE_UTF8, BSON_TYPE_CODE} -> Quoted("string", StringOf(v), TRUE)
    [] t = BSON_TYPE_SYMBOL -> Token("string", CString(StringOf(v)))
    [] t = BSON_TYPE_CODEWSCOPE ->
         Quoted("string", Inner(v, 9, Len(v) - Len(ScopeOf(v)) - 1), TRUE)
    [] t = BSON_TYPE_BINARY ->
         Token("$binary", <<v[5]>> \o Inner(v, IF v[5] = BSON_SUBTYPE_BINARY_DEPRECATED THEN 10 ELSE 6, Len(v)))
    [] t = BSON_TYPE_UNDEFINED -> Token("$undefined", <<>>)
    [] t = BSON_TYPE_OID -> Token("$oid", v)
    [] t = BSON_TYPE_BOOL -> Token(IF v = <<1>> THEN "true" ELSE "false", <<>>)
    [] t = BSON_TYPE_DATE_TIME -> Token("$date", v)
    [] t = BSON_TYPE_NULL -> Token("null", <<>>)
    [] t = BSON_TYPE_REGEX -> Token("$regex", Inner(v, 1, Len(v) - 1))
    [] t = BSON_TYPE_DBPOINTER ->
         Token("$ref", CString(Inner(v, 5, Len(v) - 12)) \o <<0>> \o Inner(v, Len(v) - 11, Len(v)))
    [] t \in {BSON_TYPE_INT32, BSON_TYPE_INT64} -> Token("int", v)
    [] t = BSON_TYPE_TIMESTAMP -> Token("$timestamp", Inner(v, 5, 8) \o Inner(v, 1, 4))
    [] t = BSON_TYPE_MAXKEY -> Token("$maxKey", <<>>)
    [] t = BSON_TYPE_MINKEY -> Token("$minKey", <<>>)

RECURSIVE JsonOf(_, _, _)

ValueJson(p, depth) ==
  IF p.type \notin Containers THEN <<ScalarJson(p.type, p.value)>>
  ELSE IF depth >= MaxRecursion THEN Mark("{...}")
  ELSE JsonOf(p.value, p.type = BSON_TYPE_DOCUMENT, depth + 1)

\* The JSON of the document m at some depth, an object or an array.
JsonOf(m, object, depth) ==
  LET pairs == Pairs(m)
      Item(i) == (IF i > 1 THEN Mark(",") ELSE <<>>)
                   \o (IF object THEN <<Quoted("key", pairs[i].key, FALSE)>> ELSE <<>>)
                   \o ValueJson(pairs[i], depth)
  IN  Mark(IF object THEN "{" ELSE "[")
        \o FlattenSeq([i \in DOMAIN pairs |-> Item(i)])
        \o Mark(IF object THEN "}" ELSE "]")

\* The keys and the strings as_json escapes are text, and none holds the zero
\* of two bytes.
Escapable(s) == IsText(s) /\ bson_utf8_escape_for_json(s, TRUE).ok

RECURSIVE Showable(_)
Showable(m) ==
  \A i \in DOMAIN Pairs(m) :
    LET p == Pairs(m)[i]
    IN  /\ Escapable(p.key)
        /\ p.type \in {BSON_TYPE_UTF8, BSON_TYPE_CODE} => Escapable(StringOf(p.value))
        /\ p.type \in Containers => Showable(p.value)
        /\ p.type = BSON_TYPE_CODEWSCOPE =>
             Escapable(Inner(p.value, 9, Len(p.value) - Len(ScopeOf(p.value)) - 1))

\* For a document of text, what the nested walks have put together piece by piece is
\* the JSON of the whole document, cut at the depth that is allowed.
JsonOfDocument ==
  (ret.done /\ ~Validates /\ IsDocument(task.doc)) =>
    (Showable(task.doc) => ret.ok /\ ret.text = JsonOf(task.doc, task.call = "as_json", 0))

\* The walk of as_json is never deeper than the limit.
DepthIsLimited == ~Validates => Len(stack) <= MaxRecursion + 1

\* The iterator of every walk stays inside its document, whatever the bytes are: the
\* value it stands on ends before the last byte.
InBounds ==
  \A i \in DOMAIN stack :
    LET it == stack[i].it
    IN  it.raw # <<>> /\ it.off > 0 =>
          /\ it.off < it.d1 /\ it.d1 <= it.next_off /\ it.next_off < it.len
          /\ \A d \in {it.d2, it.d3, it.d4} : d <= it.next_off
          /\ HasEmbedded(it) => Len(Inside(it)) <= it.next_off - it.d1

\* What every walk of the stack keeps: the state handed down to it, the limit of depth,
\* and its document's bounds.
WalksInOrder == TypeOK /\ DepthIsLimited /\ InBounds

\* A name is found where the grammar has the first pair of that key, one level after
\* the other; an empty name finds an empty key, but in a dotted path it finds none
\* (bson_iter_find_descendant, bson_has_field, bson_count_keys).
RECURSIVE LeadsOn(_, _)
LeadsOn(m, path) ==
  LET hits == {i \in DOMAIN Pairs(m) : Pairs(m)[i].key = path[1]}
  IN  /\ hits # {}
      /\ Len(path) > 1 =>
           LET p == Pairs(m)[Min(hits)]
           IN  p.type \in Containers /\ LeadsOn(p.value, Tail(path))

HasPath(m, path) == (Len(path) > 1 => <<>> \notin ToSet(path)) /\ LeadsOn(m, path)
=============================================================================
