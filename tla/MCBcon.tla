-------------------------------- MODULE MCBcon --------------------------------
(***************************************************************************)
(* Small instances of Bcon, and what BCON is measured against: the grammar  *)
(* of its arguments, read by recursive descent, without a context.          *)
(***************************************************************************)
EXTENDS Bcon, BsonGrammar, LibbsonSamples

(* Documents, as lists of pairs.                                           *)

PairOf(type, name, value) == [type |-> type, key |-> name, value |-> value]
AsPair(name, v) == <<v.type>> \o name \o <<0>> \o v.value
Listed(pairs) == Sealed(FlattenSeq([i \in DOMAIN pairs |-> AsPair(pairs[i].key, pairs[i])]))

Sevens(names) == [i \in DOMAIN names |-> PairOf(BSON_TYPE_INT32, names[i], LE(7, 4))]
InElement == <<PairOf(BSON_TYPE_DOCUMENT, A, EmptyDocument), PairOf(BSON_TYPE_ARRAY, B, EmptyDocument)>>
InAnArray == Sevens(<< <<48>> >>) \o <<PairOf(BSON_TYPE_DOCUMENT, <<49>>, Listed(InElement))>>
InDocument == <<PairOf(BSON_TYPE_UTF8, A, LE(2, 4) \o B \o <<0>>)>> \o Sevens(<<B, A>>)
InNested ==
  <<PairOf(BSON_TYPE_ARRAY, A, Listed(InAnArray)), PairOf(BSON_TYPE_DOCUMENT, B, Listed(InDocument))>>
    \o Sevens(<<A, <<>> >>)
InOneDoc == <<PairOf(BSON_TYPE_DOCUMENT, <<49>>, Listed(Sevens(<<A>>)))>>

Nested == Listed(InNested)
TwoPairs == Listed(Sevens(<<B, B>>))
OneDoc == Listed(InOneDoc)

\* The pairs of all these documents, and of those of one pair of each type.
PairsIn ==
  LET lists == {InNested, InElement, InAnArray, InDocument, InOneDoc, <<>>, Sevens(<<A>>), Sevens(<<B, B>>)}
  IN  [m \in {Listed(l) : l \in lists} |-> CHOOSE l \in lists : Listed(l) = m] @@
      [m \in {DocumentOf(<<EveryType[i]>>) : i \in DOMAIN EveryType} |-> Pairs(m)]

(* Arguments.                                                              *)

BconType ==
  [t \in {WantedType[n] : n \in DOMAIN WantedType} |-> CHOOSE n \in DOMAIN WantedType : WantedType[n] = t]

IterOf(append) == bson_iter_next(bson_iter_init(DocumentOf(<<append>>)))
ValueOf(i) == bson_iter_value(IterOf(EveryType[i]))

\* The argument for the value of EveryType[i].
Typed(i) == Magic(BconType[ValueOf(i).value_type], ValueOf(i))
TypedArgs == {Typed(i) : i \in DOMAIN EveryType}

\* The value the argument stands for, as type and bytes, read by the grammar.
Meant ==
  [arg \in TypedArgs |->
     Pairs(DocumentOf(<<EveryType[CHOOSE i \in DOMAIN EveryType : Typed(i) = arg]>>))[1]]

OpenDoc == String(<<123>>)
OpenNamed == String(<<123, 97>>)
CloseDoc == String(<<125>>)
OpenArray == String(<<91>>)
CloseArray == String(<<93, 98>>)
SevenArg == Magic("INT32", Value(BSON_TYPE_INT32, LE(-3, 4), <<>>))

BconArg(m) == Magic("BCON", Text(m))
IterArg == Magic("ITER", bson_iter_value(IterOf(Seven(AB))))

Brackets == {OpenDoc, CloseDoc, OpenArray, CloseArray}

\* The value of the pair that a string, an iterator or a typed argument asks for.
ValueMeant(arg) ==
  CASE arg.mark = "STRING" ->
         [type |-> BSON_TYPE_UTF8, value |-> LE(Len(arg.text) + 1, 4) \o arg.text \o <<0>>]
    [] arg = IterArg -> [type |-> BSON_TYPE_INT32, value |-> LE(7, 4)]
    [] OTHER -> Meant[arg]

-----------------------------------------------------------------------------
(* The grammar.  A call is arguments up to a NULL; the calls on one context *)
(* are read as one list, in which a NULL may stand where a key may.         *)

Starts(arg, c) == arg.text # <<>> /\ arg.text[1] = c

\* What the first of the arguments s is.
First(s) ==
  CASE s = <<>> -> "none"
    [] s # <<>> /\ s[1] = NULL -> "end"
    [] s # <<>> /\ s[1].mark = "MAGIC" -> (IF s[1].type = "BCON" THEN "splice" ELSE "value")
    [] s # <<>> /\ s[1].mark = "STRING" ->
         (CASE Starts(s[1], 123) -> "{" [] Starts(s[1], 125) -> "}"
            [] Starts(s[1], 91) -> "[" [] Starts(s[1], 93) -> "]" [] OTHER -> "text")

Number(n) == IF n < 10 THEN <<48 + n>> ELSE <<48 + (n \div 10), 48 + (n % 10)>>
Renumbered(pairs, n) == FlattenSeq([i \in DOMAIN pairs |-> AsPair(Number(n + i - 1), pairs[i])])

\* A turn of the grammar: reading ends there ("open", no argument is left; "closed", a
\* bracket was; "broken"; "missed"), or it goes on behind what was read, or it goes into
\* a document or an array, which is doc where one is read.  rest is the arguments that
\* are left, and n in an array the number of the element after, in a document -1.
EndsAs(end, rest) == [turn |-> end, read |-> <<>>, rest |-> rest]
GoesBehind(read, rest, n) == [turn |-> "behind", read |-> read, rest |-> rest, n |-> n]
GoesInto(type, name, doc, s, depth, n) ==
  IF depth = BCON_STACK_MAX THEN EndsAs("broken", s)
  ELSE [turn |-> "into", type |-> type, name |-> name, doc |-> doc, rest |-> Tail(s), n |-> n]

After(n) == IF n = -1 THEN -1 ELSE n + 1
TypeOpened(s) == IF First(s) = "[" THEN BSON_TYPE_ARRAY ELSE BSON_TYPE_DOCUMENT

Splices(pairs, s, n) ==
  IF n = -1 THEN EndsAs("broken", s) ELSE GoesBehind(Renumbered(pairs, n), Tail(s), n + Len(pairs))

WriteTurn(name, s, depth, n) ==
  CASE First(s) = "splice" -> Splices(PairsIn[s[1].u.first], s, n)
    [] First(s) \in {"{", "["} -> GoesInto(TypeOpened(s), name, <<>>, s, depth, After(n))
    [] First(s) \in {"text", "value"} -> GoesBehind(AsPair(name, ValueMeant(s[1])), Tail(s), After(n))

\* Whether a pair is what the arguments ask for.
Wanted(p, s) ==
  \/ First(s) \in {"{", "["} /\ p.type = TypeOpened(s)
  \/ First(s) = "value" /\
       CASE s[1].type = "ITER" -> TRUE
         [] s[1].type = "SKIP" -> p.type = s[1].u.first[1]
         [] OTHER -> BconType[p.type] = s[1].type

\* There are pairs of that name, of which the first counts, or none.  A call ends at a
\* value that is not there or not wanted, and the arguments behind are those of the next.
Misses(s, n) == IF Len(s) = 1 THEN EndsAs("missed", <<>>) ELSE GoesBehind(<<>>, Tail(s), After(n))

Takes(p, name, s, depth, n) ==
  CASE First(s) = "text" -> EndsAs("broken", s)
    [] First(s) # "text" /\ ~Wanted(p, s) -> Misses(s, n)
    [] First(s) \in {"{", "["} /\ Wanted(p, s) -> GoesInto(p.type, name, p.value, s, depth, After(n))
    [] First(s) = "value" /\ Wanted(p, s) ->
         GoesBehind(IF s[1].type = "SKIP" THEN <<>> ELSE <<[type |-> p.type, value |-> p.value]>>,
                    Tail(s), After(n))

TakeTurn(there, name, s, depth, n) ==
  IF there = <<>> THEN Misses(s, n) ELSE Takes(there[1], name, s, depth, n)

Named(pairs, name) == SelectSeq(pairs, LAMBDA p : p.key = name)

ValueTurn(m, name, s, depth, n) ==
  CASE First(s) = "none" -> EndsAs("open", s)
    [] First(s) = "end" -> EndsAs("broken", s)
    [] First(s) \in {"}", "]"} ->
         EndsAs(IF depth > 1 /\ (First(s) = "]") = (n # -1) THEN "closed" ELSE "broken", Tail(s))
    [] First(s) \in {"text", "value", "splice", "{", "["} ->
         IF Writes THEN WriteTurn(name, s, depth, n) ELSE TakeTurn(Named(PairsIn[m], name), name, s, depth, n)

KeyTurn(m, s, depth) ==
  CASE First(s) = "none" -> EndsAs("open", s)
    [] First(s) = "end" -> GoesBehind(<<>>, Tail(s), -1)
    [] First(s) = "}" -> EndsAs(IF depth > 1 THEN "closed" ELSE "broken", Tail(s))
    [] First(s) = "splice" -> GoesBehind(Inner(s[1].u.first, 5, Len(s[1].u.first) - 1), Tail(s), -1)
    [] First(s) = "text" -> ValueTurn(m, s[1].text, Tail(s), depth, -1)
    [] First(s) = "value" ->
         IF Writes /\ s[1].type = "UTF8" THEN ValueTurn(m, s[1].u.first, Tail(s), depth, -1)
         ELSE EndsAs("broken", s)
    [] First(s) \in {"{", "[", "]"} -> EndsAs("broken", s)

\* What the arguments s write or take, in the document or the array m, depth deep.
RECURSIVE ReadOn(_, _, _, _)

Together(read, behind) == [behind EXCEPT !.read = read \o @]

\* What is inside of a bracket counts for a writer once the bracket is closed.
Surround(m, depth, t, inner) ==
  CASE inner.turn = "closed" ->
         Together(IF Writes THEN AsPair(t.name, [type |-> t.type, value |-> Sealed(inner.read)]) ELSE inner.read,
                  ReadOn(m, inner.rest, depth, t.n))
    [] inner.turn # "closed" -> [inner EXCEPT !.read = IF Writes THEN <<>> ELSE @]

FollowTurn(m, depth, t) ==
  CASE t.turn = "behind" -> Together(t.read, ReadOn(m, t.rest, depth, t.n))
    [] t.turn = "into" ->
         Surround(m, depth, t, ReadOn(t.doc, t.rest, depth + 1, IF t.type = BSON_TYPE_ARRAY THEN 0 ELSE -1))
    [] t.turn \notin {"behind", "into"} -> t

ReadOn(m, s, depth, n) ==
  FollowTurn(m, depth, IF n = -1 THEN KeyTurn(m, s, depth) ELSE ValueTurn(m, Number(n), s, depth, n))

-----------------------------------------------------------------------------
(* The programs.                                                           *)

Task(call, m, arguments, most) == [call |-> call, bson |-> m, args |-> arguments, max |-> most]

KeyA == String(A)
KeyB == String(B)

Int32 == Magic("INT32", Nothing)
Skip(type) == Magic("SKIP", Text(<<type>>))
AnyIter == Magic("ITER", Nothing)
Asked == {Magic(type, Nothing) : type \in DOMAIN WantedType} \cup {AnyIter}

Loaded ==
  <<Task("append", EmptyDocument, Brackets \cup {NULL, KeyA, SevenArg}, 7),
    Task("append", TwoPairs, {OpenNamed, OpenArray, CloseArray, KeyA, BconArg(OneDoc), BconArg(TwoPairs),
                              BconArg(EmptyDocument)}, 5),
    Task("append", EmptyDocument, TypedArgs \cup {KeyA, IterArg}, 3),
    Task("extract", Nested, Brackets \cup {NULL, KeyA, KeyB, Int32}, 7),
    Task("extract", Nested, {OpenNamed, KeyA, String(<<>>), CloseDoc, AnyIter, Skip(BSON_TYPE_INT32),
                             Skip(BSON_TYPE_ARRAY)}, 5)>>
  \o [i \in DOMAIN EveryType |-> Task("extract", DocumentOf(<<EveryType[i]>>), {KeyA} \cup Asked, 2)]

AllTasks == Loaded

-----------------------------------------------------------------------------
(* Properties.                                                             *)

ByTheGrammar == ReadOn(program.bson, args, 1, -1)

\* An extracted value as type and bytes, which is where an iterator stands too.
AsWritten(v) ==
  LET pair == IF "raw" \in DOMAIN v THEN bson_append_iter(A, v) ELSE bson_append_value(A, v)
  IN  [type |-> pair.bytes[1], value |-> SubSeq(pair.bytes, 4, Len(pair.bytes))]

\* Whenever all brackets are closed the document has the pairs that its arguments list,
\* behind those it began with: each at its depth and under its key or its number, also
\* when the arguments come in several calls, with documents spliced in among them.
WritesAsListed ==
  Writes /\ pc # "aborted" /\ Len(stack) = 1 =>
    stack[1].pairs = PairsOfBson(program.bson) \o ByTheGrammar.read

\* Every frame keeps its type, and there are no more of them than the context has.
TypeOK ==
  /\ task \in DOMAIN Tasks /\ Len(args) <= program.max
  /\ pc \in {"idle", "turn", "value", "true", "false", "aborted"}
  /\ Len(stack) \in 1 .. BCON_STACK_MAX /\ ~stack[1].is_array
  /\ \A f \in ToSet(stack) : f.i \in Nat /\ f.is_array \in BOOLEAN /\ f.pairs \in Seq(Byte)

\* The assertions keep the frames in their array: they stop the program at arguments that
\* are not in the grammar or are nested deeper than the context goes, at the first of
\* them, and at no others.
AbortsOnMisuse == TypeOK /\ ((pc = "aborted") <=> (ByTheGrammar.turn = "broken"))

\* Extraction gives the values of the first pairs with the keys and the types that are
\* asked for, level by level, and it is false at the first that is not there.
ExtractsAsListed ==
  ~Writes =>
    /\ [i \in DOMAIN found |-> AsWritten(found[i])] = ByTheGrammar.read
    /\ (pc = "false") <=> (ByTheGrammar.turn = "missed")

===============================================================================
