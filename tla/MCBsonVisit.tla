------------------------------ MODULE MCBsonVisit ------------------------------
(***************************************************************************)
(* Small instances of BsonVisit: documents of every type, DBRefs and what  *)
(* nearly is one, documents in documents, and all of them with every byte   *)
(* replaced in turn by the values that matter to a length, a type or a text. *)
(***************************************************************************)
EXTENDS BsonVisit, LibbsonSamples

Dollar(name, value) == bson_append_utf8(name, value)
Wrapped(m) == DocumentOf(<<bson_append_document(A, m), Seven(B)>>)
Doubly(m) == Wrapped(Wrapped(m))

Typed == {DocumentOf(<<EveryType[i], Seven(B)>>) : i \in DOMAIN EveryType}

\* The keys of a DBRef in any order and number, the second of them a document.
RefKeys == {REF, ID, DB, A}
RefPair(key) == IF key = ID THEN bson_append_document(key, EmptyDocument) ELSE bson_append_utf8(key, A)
DbRefs ==
  {Wrapped(DocumentOf(<<RefPair(k)>>)) : k \in RefKeys}
    \cup {Wrapped(DocumentOf(<<RefPair(j), RefPair(k)>>)) : j \in RefKeys, k \in RefKeys}
    \cup {Wrapped(DocumentOf(<<RefPair(j), RefPair(k), RefPair(l)>>)) :
            j \in RefKeys, k \in RefKeys, l \in RefKeys}
    \cup {DocumentOf(<<RefPair(k), Seven(B)>>) : k \in RefKeys}
    \cup {Wrapped(DocumentOf(<<bson_append_int32(REF, LE(1, 4)), RefPair(ID)>>)),
          Wrapped(DocumentOf(<<RefPair(REF), bson_append_document(ID, DocumentOf(<<RefPair(REF), RefPair(ID)>>))>>)),
          Wrapped(DocumentOf(<<RefPair(REF), bson_append_document(ID, DocumentOf(<<RefPair(REF)>>)), RefPair(DB)>>))}

\* Keys and strings that are not plain text, or that ask for a flag.
Texts ==
  {DocumentOf(<<bson_append_utf8(A, s), bson_append_code(B, s)>>) :
     s \in {<<>>, <<0>>, <<97, 0, 98>>, <<192, 128>>, <<195, 169>>, <<195>>, <<237, 160, 128>>, <<34, 9>>}}
  \cup {DocumentOf(<<Seven(k)>>) : k \in {<<>>, <<46>>, <<97, 46>>, <<195>>, <<34>>, <<192, 128>>}}
  \cup {DocumentOf(<<bson_append_document(j, DocumentOf(<<Seven(k)>>))>>) :
          j \in {A, <<>>}, k \in {A, <<>>}}

Deep == {Doubly(Wrapped(DocumentOf(<<Seven(A)>>))), Doubly(EmptyDocument)}

Whole == Typed \cup Texts \cup Deep \cup {EmptyDocument}

Damage == {0, 1, 5, 15, 255}
Damaged(m) == {Changed(m, i, c) : i \in 5 .. Len(m) - 1, c \in Damage}

\* The same value under every type.
Retyped(m) == {Changed(m, 5, t) : t \in 1 .. 18}

AllFlags == {BSON_VALIDATE_UTF8, BSON_VALIDATE_DOLLAR_KEYS, BSON_VALIDATE_DOT_KEYS}
FlagSets == {{}, AllFlags, {BSON_VALIDATE_UTF8, BSON_VALIDATE_UTF8_ALLOW_NULL}}

Call(call, m, flags) == [call |-> call, doc |-> m, flags |-> flags]

Loaded ==
  {Call("validate", m, f) : m \in Whole \cup DbRefs, f \in FlagSets}
  \cup {Call(c, m, {}) : m \in Whole, c \in {"as_json", "array_as_json"}}
  \cup UNION {{Call("validate", d, {}) : d \in Damaged(m)} : m \in Typed}
  \cup UNION {{Call("array_as_json", d, {}) : d \in Retyped(m)} : m \in Typed}

AllTasks == Loaded

DamagedTasks == {Call("validate", DocumentOf(<<bson_append_utf8(A, <<195>>)>>), {BSON_VALIDATE_UTF8})}

Paths ==
  {<<k>> : k \in {A, B, AB, <<>>}} \cup {<<j, k>> : j \in {A, B}, k \in {A, B, <<48>>, <<>>}}
  \cup {<<<<>>, k>> : k \in {A, <<>>}}

\* A name is found where the grammar has the first pair of that key, one level after
\* the other, an empty name only where it is the whole path, and the pairs counted are
\* those of the grammar (bson_has_field, bson_iter_find_descendant, bson_count_keys).
FindsByTheGrammar ==
  (stack = <<>> /\ IsDocument(task.doc)) =>
    /\ \A p \in Paths : bson_has_field(task.doc, p) <=> HasPath(task.doc, p)
    /\ bson_count_keys(task.doc) = Len(Pairs(task.doc))
=============================================================================
