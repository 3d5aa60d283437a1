------------------------------- MODULE BsonBuild -------------------------------
(***************************************************************************)
(* How libbson builds documents in memory (bson.c).  A bson_t holds a       *)
(* short document in itself, a longer one in a block of its own, which      *)
(* grows; a document may also be read where the caller keeps it, or be      *)
(* built in a buffer of the caller.  While a document or an array is        *)
(* written inside another one, a child bson_t stands for it; it writes into *)
(* the memory of the document around it.                                   *)
(*                                                                         *)
(* open[d] is the bson_t d, followed by the children that are open in it;   *)
(* mem[d] is their memory, heap the blocks that are allocated.              *)
(***************************************************************************)
EXTENDS BsonAppend

CONSTANTS
  Docs,          \* the bson_t of the program
  Appends,       \* the pairs that are appended, as BsonAppend gives them
  Keys,          \* the keys of the documents that are written inside others
  Buffers,       \* the memory documents are read from or built in
  Sizes,         \* the sizes bson_sized_new is given
  Numbers,       \* what values are overwritten with: a type and bytes
  InlineCap,     \* the bytes of a bson_t that hold a document (120)
  StructSize,    \* the bytes of a bson_t (128)
  INT32_MAX,     \* the largest size of a document or a block
  Builders,      \* bound: the bson_t that are begun and changed; others are copies
  MaxCopied,     \* bound: the size of a document that is copied
  Nested,        \* bound: the types of containers that are written
  Keeps,         \* bound: the types of values that are copied
  MaxDepth       \* bound: documents open in one another

Powers == {1, 2, 4, 8, 16, 32, 64, 128, 256, 512, 1024}

ASSUME SizesAssumption ==
  /\ Builders \subseteq Docs
  /\ InlineCap \in Nat /\ StructSize \in Nat /\ INT32_MAX \in Nat
  /\ InlineCap >= 5 /\ StructSize > InlineCap
  /\ InlineCap \notin Powers
  /\ Sizes \subseteq Nat

\* A buffer that is handed over holds the document its length field tells of, which
\* bson_new_from_buffer does not test.  Of a pair no more is written than room is asked
\* for, as for each pair of BsonAppend.
ASSUME ContentsAssumption ==
  /\ \A m \in Buffers : m \in Seq(Byte) /\ (Len(m) >= 5 => U32At(m, 0) \in 5 .. Len(m))
  /\ \A a \in Appends : a.bytes \in Seq(Byte) /\ a.n_bytes \in Nat /\ Len(a.bytes) <= a.n_bytes
  /\ Keys \subseteq Seq(Byte)
  /\ Nested \subseteq Containers
  /\ \A v \in Numbers : v[2] \in Seq(Byte)

VARIABLES
  open,   \* the bson_t and its open children, the innermost last; <<>> if unused
  mem,    \* the bytes they are in
  heap,   \* the blocks that are allocated, with what holds them
  kept    \* a bson_value_t that was copied, or NoValue

vars == <<open, mem, heap, kept>>

INLINE == "INLINE"
STATIC == "STATIC"
RDONLY == "RDONLY"
CHILD == "CHILD"
IN_CHILD == "IN_CHILD"
NO_FREE == "NO_FREE"

NoValue == Value(BSON_TYPE_EOD, <<>>, <<>>)

\* What malloc leaves in memory.
Garbage == 170
Malloc(n) == [i \in 1 .. n |-> Garbage]

\* m with bytes from offset o on.
Written(m, o, bytes) ==
  [i \in DOMAIN m |-> IF i - o \in DOMAIN bytes THEN bytes[i - o] ELSE m[i]]

Bson(flags, len) == [flags |-> flags, len |-> len, offset |-> 0, depth |-> 0]

Live(d) == open[d] # <<>>
Innermost(d) == open[d][Len(open[d])]
Root(d) == open[d][1]
Closed(d) == Len(open[d]) = 1

\* The bytes of the bson_t b in the memory m.
bson_get_data(m, b) == Slice(m, b.offset, b.len)
Data(d) == bson_get_data(mem[d], Root(d))

Five == <<5, 0, 0, 0, 0>>

Init ==
  /\ open = [d \in Docs |-> <<>>]
  /\ mem = [d \in Docs |-> <<>>]
  /\ heap = {}
  /\ kept = NoValue

\* d becomes the bson_t b, with bytes at the beginning of its memory m and the blocks
\* new.  What the caller holds for d is not mixed up with a new document.
Becomes(d, b, m, bytes, new) ==
  /\ ~Live(d) /\ <<d, "caller">> \notin heap
  /\ open' = [open EXCEPT ![d] = <<b>>]
  /\ mem' = [mem EXCEPT ![d] = Written(m, 0, bytes)]
  /\ heap' = heap \cup new
  /\ kept' = kept

-----------------------------------------------------------------------------
(* Beginning and copying.                                                  *)

bson_init(d) == Becomes(d, Bson({INLINE, STATIC}, 5), Malloc(InlineCap), Five, {})

bson_new(d) == Becomes(d, Bson({INLINE}, 5), Malloc(InlineCap), Five, {<<d, "struct">>})

\* A bson_t of the given size, with bytes.
SizedNew(d, size, bytes) ==
  IF size <= InlineCap
  THEN Becomes(d, Bson({INLINE}, Len(bytes)), Malloc(InlineCap), bytes, {<<d, "struct">>})
  ELSE Becomes(d, Bson({}, Len(bytes)), Malloc(size), bytes, {<<d, "struct">>, <<d, "block">>})

bson_sized_new(d, size) == SizedNew(d, size, Five)

\* Nothing comes of bytes that are not a document.
bson_new_from_data(d, bytes) == bson_init_static(bytes) /\ SizedNew(d, Len(bytes), bytes)

\* The document stays where it is, and is only read.
bson_init_static_of(d, bytes) ==
  /\ bson_init_static(bytes)
  /\ Becomes(d, Bson({STATIC, RDONLY}, Len(bytes)), bytes, <<>>, {})

\* The caller's buffer, or a new one that becomes the caller's; its last byte is
\* that of the document in it, which may be shorter.
bson_new_from_buffer(d, buffer) ==
  IF buffer = <<>>
  THEN Becomes(d, Bson({NO_FREE}, 5), Malloc(5), Five, {<<d, "struct">>, <<d, "caller">>})
  ELSE /\ Len(buffer) >= 5 /\ At(buffer, U32At(buffer, 0) - 1) = 0
       /\ Becomes(d, Bson({NO_FREE}, U32At(buffer, 0)), buffer, <<>>,
                  {<<d, "struct">>, <<d, "caller">>})

\* The power of two from n on, if there is one up to INT32_MAX.
bson_next_power_of_two(n) == {p \in Powers : n <= p /\ p < 2 * n}
BlockFor(n) == {p \in bson_next_power_of_two(n) : p <= INT32_MAX}

bson_copy(d, s) == Live(s) /\ Closed(s) /\ bson_new_from_data(d, Data(s))

bson_copy_to(d, s) ==
  /\ Live(s) /\ Closed(s)
  /\ IF INLINE \in Root(s).flags
     THEN Becomes(d, Bson({STATIC, INLINE}, Root(s).len), mem[s], <<>>, {})
     ELSE \E p \in bson_next_power_of_two(Root(s).len) :
            Becomes(d, Bson({STATIC}, Root(s).len), Malloc(p), Data(s), {<<d, "block">>})

-----------------------------------------------------------------------------
(* Growing.  The bson_t b in the memory m asks for n more bytes.           *)

\* Slip: the bytes that end the documents around it are forgotten.
RequiredWithoutEnds(b, n) == b.offset + b.len + n

\* The memory a child needs ends with a byte for each document around it.
Required(b, n) == b.offset + b.len + n + b.depth

inline_grow(m, b, n) ==
  IF b.len + n <= InlineCap THEN {m}
  ELSE {Written(Malloc(p), 0, Slice(m, 0, b.len)) : p \in BlockFor(b.len + n)}

alloc_grow(m, b, n) ==
  IF Required(b, n) <= Len(m) THEN {m}
  ELSE {Written(Malloc(p), 0, m) : p \in BlockFor(Required(b, n))}

\* The memory it has afterwards, or none if it cannot be had.
bson_grow(m, b, n) ==
  IF INLINE \in b.flags THEN inline_grow(m, b, n) ELSE alloc_grow(m, b, n)

\* b once it no longer fits into itself, and the block it has then.
Outgrown(b, m) ==
  IF INLINE \in b.flags /\ Len(m) # InlineCap THEN [b EXCEPT !.flags = @ \ {INLINE}] ELSE b
NewBlock(d, b, m) ==
  IF INLINE \in b.flags /\ Len(m) # InlineCap THEN {<<d, "block">>} ELSE {}

-----------------------------------------------------------------------------
(* Appending.                                                              *)

\* The bytes of the pieces are written over the end of the document, which gets a
\* new length and a new end.
Appended(m, b, bytes) ==
  Written(Written(m, b.offset + b.len - 1, bytes \o <<0>>), b.offset, LE(b.len + Len(bytes), 4))

IsWritable(d) == Live(d) /\ {IN_CHILD, RDONLY} \cap Innermost(d).flags = {}

ReplaceInnermost(d, b) == [open EXCEPT ![d][Len(open[d])] = b]

\* The innermost document of d takes the pairs bytes, of which n are asked for.
Takes(d, n, bytes) ==
  LET b == Innermost(d) IN
  /\ IsWritable(d)
  /\ n <= INT32_MAX - b.len
  /\ \E m \in bson_grow(mem[d], b, n) :
       /\ open' = ReplaceInnermost(d, [Outgrown(b, m) EXCEPT !.len = @ + Len(bytes)])
       /\ mem' = [mem EXCEPT ![d] = Appended(m, b, bytes)]
       /\ heap' = heap \cup NewBlock(d, b, m)
  /\ kept' = kept

bson_append(d, a) == a.ok /\ Takes(d, a.n_bytes, a.bytes)

\* An append that fails changes nothing.
bson_append_fails(d, a) ==
  /\ IsWritable(d)
  /\ \/ a.n_bytes > INT32_MAX - Innermost(d).len
     \/ bson_grow(mem[d], Innermost(d), a.n_bytes) = {}
  /\ UNCHANGED vars

bson_concat(d, s) ==
  /\ Live(d) /\ Live(s) /\ Closed(s) /\ s # d
  /\ IF bson_empty(Data(s)) THEN IsWritable(d) /\ UNCHANGED vars
     ELSE Takes(d, Root(s).len - 5, Slice(mem[s], 4, Root(s).len - 5))

\* The document or the array s, written inside d.
bson_append_container(d, key, t, s) ==
  /\ Live(s) /\ Closed(s) /\ s # d
  /\ bson_append(d, IF t = BSON_TYPE_DOCUMENT THEN bson_append_document(key, Data(s))
                    ELSE bson_append_array(key, Data(s)))

CopyOf(it) == bson_append_iter(bson_iter_key(it), it)

PairsIn(d) == Walk(bson_iter_init(Data(d)))

\* Slip: should_ignore is taken the wrong way.
CopiedIfIgnored(it, exclude) == IF bson_iter_key(it) = exclude THEN CopyOf(it).bytes ELSE <<>>

\* A pair whose key is exclude is left out.
CopiedUnless(it, exclude) == IF bson_iter_key(it) = exclude THEN <<>> ELSE CopyOf(it).bytes

\* The pairs of a document, appended one by one.
AllPairs(its, exclude) ==
  LET joined[i \in 0 .. Len(its)] ==
        IF i = 0 THEN <<>> ELSE joined[i - 1] \o CopiedUnless(its[i], exclude)
  IN  joined[Len(its)]

\* What the appends make of an empty document, each growing it as it goes.
Filled(d, bytes) ==
  IF 5 + Len(bytes) <= InlineCap
  THEN Becomes(d, Bson({INLINE, STATIC}, 5 + Len(bytes)), Malloc(InlineCap),
               LE(5 + Len(bytes), 4) \o bytes \o <<0>>, {})
  ELSE \E p \in BlockFor(5 + Len(bytes)) :
         Becomes(d, Bson({STATIC}, 5 + Len(bytes)), Malloc(p),
                 LE(5 + Len(bytes), 4) \o bytes \o <<0>>, {<<d, "block">>})

\* That each pair that is not left out can be appended is asserted.
bson_copy_to_excluding(d, s, exclude) ==
  LET its == PairsIn(s) IN
  /\ Live(s) /\ Closed(s)
  /\ \A i \in DOMAIN its : bson_iter_key(its[i]) = exclude \/ CopyOf(its[i]).ok
  /\ Filled(d, AllPairs(its, exclude))

-----------------------------------------------------------------------------
(* Documents inside documents.                                             *)

\* A bson_t that holds its document in itself first moves it into a block, that the
\* child can share it; that it has done so is asserted.
MovedOut(d) ==
  LET b == Innermost(d)
  IN  IF INLINE \in b.flags
      THEN {m \in inline_grow(mem[d], b, StructSize - b.len) : Len(m) # InlineCap}
      ELSE {mem[d]}

\* The child begins as the empty document that is the last pair of b.
ChildOf(b) ==
  [flags |-> {CHILD, NO_FREE, STATIC}, len |-> 5, offset |-> b.offset + b.len - 1 - 5,
   depth |-> b.depth + 1]

BeginBytes(t, key) == <<t>> \o key \o <<0>> \o Five

\* bson_append_document_begin and bson_append_array_begin.
bson_append_begin(d, t, key) ==
  LET b == Innermost(d)
      n == 1 + Len(key) + 1 + 5
  IN  /\ IsWritable(d)
      /\ Len(open[d]) <= MaxDepth
      /\ n <= INT32_MAX - b.len
      /\ \E m0 \in MovedOut(d) :
           LET b0 == Outgrown(b, m0) IN
           \E m \in alloc_grow(m0, b0, n) :
             LET parent == [b0 EXCEPT !.len = @ + n, !.flags = @ \cup {IN_CHILD}]
             IN  /\ open' = [open EXCEPT ![d] =
                        Append(SubSeq(@, 1, Len(@) - 1), parent) \o <<ChildOf(parent)>>]
                 /\ mem' = [mem EXCEPT ![d] = Appended(m, b0, BeginBytes(t, key))]
                 /\ heap' = heap \cup NewBlock(d, b, m0)
      /\ kept' = kept

\* A child that cannot begin may leave its parent moved out.
bson_append_begin_fails(d, key) ==
  LET b == Innermost(d)
      n == 1 + Len(key) + 1 + 5
  IN  /\ IsWritable(d)
      /\ \E m0 \in MovedOut(d) :
           LET b0 == Outgrown(b, m0) IN
           /\ \/ n > INT32_MAX - b.len
              \/ alloc_grow(m0, b0, n) = {}
           /\ open' = ReplaceInnermost(d, b0)
           /\ mem' = [mem EXCEPT ![d] = m0]
           /\ heap' = heap \cup NewBlock(d, b, m0)
      /\ kept' = kept

\* The parent counted the five bytes of the empty child already.
LenWithChild(parent, child) == parent.len + child.len - 5

\* bson_append_document_end and bson_append_array_end.
bson_append_end(d) ==
  LET child == Innermost(d)
      parent == open[d][Len(open[d]) - 1]
      len == LenWithChild(parent, child)
  IN  /\ Live(d) /\ ~Closed(d)
      /\ open' = [open EXCEPT ![d] = Append(SubSeq(@, 1, Len(@) - 2),
                    [parent EXCEPT !.flags = @ \ {IN_CHILD}, !.len = len])]
      /\ mem' = [mem EXCEPT ![d] =
                   Written(Written(@, parent.offset + len - 1, <<0>>), parent.offset, LE(len, 4))]
      /\ UNCHANGED <<heap, kept>>

-----------------------------------------------------------------------------
(* Changing and ending.                                                    *)

\* The document is empty again.  What is behind its end is not read any more, and the
\* model forgets it.
bson_reinit(d) ==
  /\ IsWritable(d)
  /\ open' = ReplaceInnermost(d, [Innermost(d) EXCEPT !.len = 5])
  /\ mem' = [mem EXCEPT ![d] =
       Written(Malloc(Len(@)), 0, Slice(@, 0, Innermost(d).offset) \o Five)]
  /\ UNCHANGED <<heap, kept>>

\* The value the iterator stands on gets the bytes of another value of its type.
bson_iter_overwrite(d, it, t, value) ==
  /\ bson_iter_type(it) = t
  /\ mem' = [mem EXCEPT ![d] = Written(@, it.d1, value)]
  /\ UNCHANGED <<open, heap, kept>>

\* What bson_destroy frees.
Freed(d) ==
  (IF {RDONLY, INLINE, NO_FREE} \cap Root(d).flags = {} THEN {<<d, "block">>} ELSE {})
    \cup (IF STATIC \in Root(d).flags THEN {} ELSE {<<d, "struct">>})

Gone(d) ==
  /\ open' = [open EXCEPT ![d] = <<>>]
  /\ mem' = [mem EXCEPT ![d] = <<>>]
  /\ kept' = kept

bson_destroy(d) == Live(d) /\ Gone(d) /\ heap' = heap \ Freed(d)

\* The bytes are given to the caller; of a document that is only read, or that a
\* child is open in, nothing is given.
bson_destroy_with_steal(d) ==
  /\ Live(d) /\ Gone(d)
  /\ heap' = IF {CHILD, IN_CHILD, RDONLY} \cap Root(d).flags # {} THEN heap \ Freed(d)
              ELSE (heap \ (Freed(d) \cup {<<d, "block">>})) \cup {<<d, "caller">>}

\* The caller frees what it was given.
bson_free(d) ==
  /\ ~Live(d) /\ <<d, "caller">> \in heap
  /\ heap' = heap \ {<<d, "caller">>}
  /\ UNCHANGED <<open, mem, kept>>

\* The members of a value for which bson_value_copy allocates memory, and those
\* bson_value_destroy frees.
CopiedMembers(t) ==
  CASE t \in {BSON_TYPE_UTF8, BSON_TYPE_DOCUMENT, BSON_TYPE_ARRAY, BSON_TYPE_BINARY,
              BSON_TYPE_DBPOINTER, BSON_TYPE_CODE, BSON_TYPE_SYMBOL} -> {"first"}
    [] t \in {BSON_TYPE_REGEX, BSON_TYPE_CODEWSCOPE} -> {"first", "second"}
    [] OTHER -> {}

\* Slip: the options of a regular expression are left.
FreedFirstMember(t) ==
  IF t \in {BSON_TYPE_UTF8, BSON_TYPE_DOCUMENT, BSON_TYPE_ARRAY, BSON_TYPE_BINARY,
            BSON_TYPE_DBPOINTER, BSON_TYPE_CODE, BSON_TYPE_SYMBOL, BSON_TYPE_REGEX,
            BSON_TYPE_CODEWSCOPE} THEN {"first"} ELSE {}

FreedMembers(t) ==
  CASE t \in {BSON_TYPE_UTF8, BSON_TYPE_DOCUMENT, BSON_TYPE_ARRAY, BSON_TYPE_BINARY,
              BSON_TYPE_DBPOINTER, BSON_TYPE_CODE, BSON_TYPE_SYMBOL} -> {"first"}
    [] t \in {BSON_TYPE_REGEX, BSON_TYPE_CODEWSCOPE} -> {"first", "second"}
    [] OTHER -> {}

bson_value_copy(it) ==
  /\ kept = NoValue
  /\ bson_iter_type(it) \in Keeps
  /\ kept' = bson_iter_value(it)
  /\ heap' = heap \cup {<<"kept", f>> : f \in CopiedMembers(bson_iter_type(it))}
  /\ UNCHANGED <<open, mem>>

bson_value_destroy ==
  /\ kept # NoValue
  /\ kept' = NoValue
  /\ heap' = heap \ {<<"kept", f>> : f \in FreedMembers(kept.value_type)}
  /\ UNCHANGED <<open, mem>>

-----------------------------------------------------------------------------

Begins(d) ==
  \/ bson_init(d) \/ bson_new(d)
  \/ \E size \in Sizes : bson_sized_new(d, size)
  \/ \E m \in Buffers : bson_init_static_of(d, m) \/ bson_new_from_buffer(d, m)

Copies(d, s) ==
  /\ Live(s) /\ Root(s).len <= MaxCopied
  /\ \/ bson_copy(d, s)
     \/ bson_copy_to(d, s)
     \/ \E k \in Keys : bson_copy_to_excluding(d, s, k)

Writes(d) ==
  \/ \E a \in Appends : bson_append(d, a) \/ bson_append_fails(d, a)
  \/ \E s \in Docs : bson_concat(d, s)
  \/ \E s \in Docs, k \in Keys, t \in Nested : bson_append_container(d, k, t, s)
  \/ bson_reinit(d)
  \/ \E k \in Keys : kept # NoValue /\ bson_append(d, bson_append_value(k, kept))

Nests(d) ==
  \/ \E t \in Nested, k \in Keys : bson_append_begin(d, t, k)
  \/ \E k \in Keys : bson_append_begin_fails(d, k)
  \/ bson_append_end(d)

\* What is done at a pair of a document that no child is open in.
AtPairs(d) ==
  /\ Live(d) /\ Closed(d)
  /\ \E i \in DOMAIN PairsIn(d) :
       \/ \E v \in Numbers : bson_iter_overwrite(d, PairsIn(d)[i], v[1], v[2])
       \/ bson_value_copy(PairsIn(d)[i])

GivenAway(d) == bson_destroy_with_steal(d) \/ bson_free(d)

Next ==
  \/ \E d \in Builders : Begins(d) \/ Writes(d) \/ Nests(d) \/ AtPairs(d) \/ GivenAway(d)
  \/ \E d \in Docs : bson_destroy(d)
  \/ \E d, s \in Docs : Copies(d, s)
  \/ bson_value_destroy

Spec == Init /\ [][Next]_vars

-----------------------------------------------------------------------------
(* Properties.                                                             *)

Flags == {INLINE, STATIC, RDONLY, CHILD, IN_CHILD, NO_FREE}

\* The bson_t have the members of their structures, and their flags say where they
\* are: one that is INLINE has not left its bson_t, just those around an open child
\* are IN_CHILD, and just the children are CHILD (bson_impl_inline_t, bson_impl_alloc_t).
TypeOK ==
  /\ \A d \in Docs : \A i \in DOMAIN open[d] :
       LET flags == open[d][i].flags IN
       /\ INLINE \in flags => i = 1 /\ Len(mem[d]) = InlineCap
       /\ CHILD \in flags <=> i > 1
       /\ IN_CHILD \in flags <=> i < Len(open[d])
  /\ open \in [Docs -> Seq([flags : SUBSET Flags, len : Nat, offset : Nat, depth : Nat])]
  /\ DOMAIN mem = Docs
  /\ \A d \in Docs : \A i \in DOMAIN mem[d] : mem[d][i] \in 0 .. 255

\* Each open document lies in the memory of the root with room for the ends of the
\* documents around it, and begins where its parent's last five bytes were: no
\* write of _bson_append_va or _bson_append_bson_end goes past the block.
Room ==
  \A d \in Docs : \A i \in DOMAIN open[d] :
    LET b == open[d][i] IN
    /\ b.depth = i - 1
    /\ b.len >= 5
    /\ b.offset + b.len + b.depth <= Len(mem[d])
    /\ i > 1 => LET p == open[d][i - 1] IN b.offset = p.offset + p.len - 1 - 5

\* What the memory keeps while documents are nested, grown, stolen and freed: the flags
\* say where each bson_t is, and every write stays inside of its block.
MemoryInOrder == TypeOK /\ Room

\* The blocks that are allocated are those of the documents that are in use, of the
\* value that is kept, and those the caller holds: nothing leaks, and nothing is
\* freed that is in use (bson_destroy, bson_destroy_with_steal, bson_value_destroy).
HeapMatches ==
  heap = {<<d, "struct">> : d \in {e \in Docs : Live(e) /\ STATIC \notin Root(e).flags}}
    \cup {<<d, "block">> : d \in {e \in Docs : Live(e) /\ {INLINE, RDONLY, NO_FREE} \cap Root(e).flags = {}}}
    \cup {<<"kept", f>> : f \in CopiedMembers(kept.value_type)}
    \cup {<<d, "caller">> : d \in {e \in Docs : Live(e) /\ NO_FREE \in Root(e).flags}}
    \cup {x \in heap : x[2] = "caller" /\ ~Live(x[1])}
=============================================================================
