------------------------------- MODULE BsonIter -------------------------------
(***************************************************************************)
(* The iterator of libbson (bson-iter.c), with which the test programs of  *)
(* the repository read BSON back.  A document is the sequence of its       *)
(* bytes; an offset counts from 0, as in the code, so At(m, o) is data[o]. *)
(* A pointer and a length are the bytes they delimit; a C string is its    *)
(* characters without the zero.  The iterator is the bson_iter_t it is in  *)
(* C, without type and key, which are off and off + 1 in every state, and  *)
(* with raw = <<>> for the null pointer of an iterator that has ended.     *)
(***************************************************************************)
EXTENDS Integers, Sequences, FiniteSetsExt

Byte == 0 .. 255

BSON_TYPE_EOD == 0
BSON_TYPE_DOUBLE == 1
BSON_TYPE_UTF8 == 2
BSON_TYPE_DOCUMENT == 3
BSON_TYPE_ARRAY == 4
BSON_TYPE_BINARY == 5
BSON_TYPE_UNDEFINED == 6
BSON_TYPE_OID == 7
BSON_TYPE_BOOL == 8
BSON_TYPE_DATE_TIME == 9
BSON_TYPE_NULL == 10
BSON_TYPE_REGEX == 11
BSON_TYPE_DBPOINTER == 12
BSON_TYPE_CODE == 13
BSON_TYPE_SYMBOL == 14
BSON_TYPE_CODEWSCOPE == 15
BSON_TYPE_INT32 == 16
BSON_TYPE_TIMESTAMP == 17
BSON_TYPE_INT64 == 18
BSON_TYPE_MAXKEY == 127
BSON_TYPE_MINKEY == 255

BSON_SUBTYPE_BINARY_DEPRECATED == 2

Containers == {BSON_TYPE_DOCUMENT, BSON_TYPE_ARRAY}
LengthPrefixed == {BSON_TYPE_UTF8, BSON_TYPE_CODE, BSON_TYPE_SYMBOL}
EightBytes == {BSON_TYPE_DOUBLE, BSON_TYPE_DATE_TIME, BSON_TYPE_TIMESTAMP, BSON_TYPE_INT64}
Valueless == {BSON_TYPE_UNDEFINED, BSON_TYPE_NULL, BSON_TYPE_MAXKEY, BSON_TYPE_MINKEY}

\* Larger than the length of any document: stands for the unsigned values from
\* 2^31 on, all of which the comparisons of bson_iter_next treat alike.
Huge == 2147483647

At(m, o) == m[o + 1]
Slice(m, o, n) == SubSeq(m, o + 1, o + n)

\* The uint32_t at offset o.
U32At(m, o) ==
  IF At(m, o + 3) > 127 THEN Huge
  ELSE At(m, o) + 256 * At(m, o + 1) + 65536 * At(m, o + 2) + 16777216 * At(m, o + 3)

\* The little-endian bytes of a number in w bytes, two's complement.
LE(n, w) ==
  LET digit == <<1, 256, 65536, 16777216>>
  IN  [i \in 1 .. w |-> IF i <= 4 THEN (n \div digit[i]) % 256 ELSE IF n < 0 THEN 255 ELSE 0]

\* The offset of the first zero byte of m in o .. n - 1, or n.
ZeroFrom(m, o, n) == Min({z \in o .. n - 1 : At(m, z) = 0} \cup {n})

CStringAt(m, o) == Slice(m, o, ZeroFrom(m, o, Len(m)) - o)
CString(bytes) == CStringAt(bytes, 0)

-----------------------------------------------------------------------------

\* An iterator that stands before the first pair of the n bytes at raw.
Fresh(raw, n) ==
  [raw |-> raw, len |-> n, off |-> 0, d1 |-> 0, d2 |-> 0, d3 |-> 0, d4 |-> 0,
   next_off |-> 4, err_off |-> 0]

Null == [Fresh(<<>>, 0) EXCEPT !.next_off = 0]

\* The iterator bson_iter_init leaves; it fails on a document of less than five bytes.
bson_iter_init(m) == IF Len(m) < 5 THEN Null ELSE Fresh(m, Len(m))

bson_iter_type(it) == At(it.raw, it.off)
bson_iter_key(it) == CStringAt(it.raw, it.off + 1)

\* Where a value lies: the offsets that depend on its type, where the next pair
\* begins, and err, the offset of the damage that was found or 0.
Span(next) == [d2 |-> 0, d3 |-> 0, d4 |-> 0, next |-> next, err |-> 0]
BadAt(o) == [Span(0) EXCEPT !.err = o]

StringSpan(m, n, o) ==
  IF o + 4 >= n \/ U32At(m, o) > n - (o + 4) THEN BadAt(o)
  ELSE LET l == U32At(m, o) IN
    IF l = 0 \/ o + 4 + l >= n THEN BadAt(o)
    ELSE IF At(m, o + 4 + l - 1) # 0 THEN BadAt(o + 4 + l - 1)
    ELSE [Span(o + 4 + l) EXCEPT !.d2 = o + 4]

BinarySpan(m, n, o) ==
  IF o >= n - 4 \/ U32At(m, o) >= n - o THEN BadAt(o)
  ELSE LET l == U32At(m, o) IN
    IF At(m, o + 4) = BSON_SUBTYPE_BINARY_DEPRECATED /\ l < 4 THEN BadAt(o)
    ELSE [Span(o + 5 + l) EXCEPT !.d2 = o + 4, !.d3 = o + 5]

ContainerSpan(m, n, o) ==
  IF o >= n - 4 \/ U32At(m, o) > n - o THEN BadAt(o) ELSE Span(o + U32At(m, o))

RegexSpan(m, n, o, at) ==
  LET options == ZeroFrom(m, o, n) + 1
  IN  IF options > n \/ ZeroFrom(m, options, n) = n THEN BadAt(at)
      ELSE [Span(ZeroFrom(m, options, n) + 1) EXCEPT !.d2 = options]

DbpointerSpan(m, n, o) ==
  IF o >= n - 4 \/ U32At(m, o) > n - o THEN BadAt(o)
  ELSE [Span(o + 4 + U32At(m, o) + 12) EXCEPT !.d2 = o + 4, !.d3 = o + 4 + U32At(m, o)]

CodewscopeSpan(m, n, o) ==
  IF n < 19 \/ o >= n - 14 \/ U32At(m, o) < 14 \/ U32At(m, o) >= n - o THEN BadAt(o)
  ELSE LET next == o + U32At(m, o)
           js == U32At(m, o + 4) IN
    IF js >= n - o - 4 - 4 THEN BadAt(o)
    ELSE IF o + 4 + 4 + js + 4 >= next THEN BadAt(o + 4)
    ELSE IF next - (o + 4 + 4 + js) # U32At(m, o + 4 + 4 + js) THEN BadAt(o + 4 + 4 + js)
    ELSE [Span(next) EXCEPT !.d2 = o + 4, !.d3 = o + 8, !.d4 = o + 4 + 4 + js]

\* The value at o of the pair at at, whose type is t, in the n bytes of m.
ValueSpan(m, n, o, at, t) ==
  CASE t \in EightBytes -> Span(o + 8)
    [] t \in LengthPrefixed -> StringSpan(m, n, o)
    [] t = BSON_TYPE_BINARY -> BinarySpan(m, n, o)
    [] t \in Containers -> ContainerSpan(m, n, o)
    [] t = BSON_TYPE_OID -> Span(o + 12)
    [] t = BSON_TYPE_BOOL -> Span(o + 1)
    [] t = BSON_TYPE_REGEX -> RegexSpan(m, n, o, at)
    [] t = BSON_TYPE_DBPOINTER -> DbpointerSpan(m, n, o)
    [] t = BSON_TYPE_CODEWSCOPE -> CodewscopeSpan(m, n, o)
    [] t = BSON_TYPE_INT32 -> Span(o + 4)
    [] t \in Valueless -> Span(o)
    [] OTHER -> BadAt(o)

\* mark_invalid: the iterator has ended, and err_off tells whether at damage.
Ended(it, err) == [it EXCEPT !.raw = <<>>, !.len = 0, !.next_off = 0, !.err_off = err]

\* Slip: a pair may take the last byte of the document.
MovedToTheLast(it, at, o, s) ==
  IF s.err # 0 THEN Ended([it EXCEPT !.off = at], s.err)
  ELSE IF s.next > it.len THEN Ended([it EXCEPT !.off = at], o)
  ELSE [it EXCEPT !.off = at, !.d1 = o, !.d2 = s.d2, !.d3 = s.d3, !.d4 = s.d4,
                  !.next_off = s.next, !.err_off = 0]

\* The iterator moved to the pair at at, whose value at o has the span s.  A pair
\* must leave the document a byte to end with.
MovedTo(it, at, o, s) ==
  IF s.err # 0 THEN Ended([it EXCEPT !.off = at], s.err)
  ELSE IF s.next >= it.len THEN Ended([it EXCEPT !.off = at], o)
  ELSE [it EXCEPT !.off = at, !.d1 = o, !.d2 = s.d2, !.d3 = s.d3, !.d4 = s.d4,
                  !.next_off = s.next, !.err_off = 0]

\* The iterator after bson_iter_next, which returned raw # <<>>.  A document of
\* which no zero byte is left has ended: this is how its last byte is found.
bson_iter_next(it) ==
  LET at == it.next_off
      o == ZeroFrom(it.raw, at + 1, it.len) + 1
  IN  IF it.raw = <<>> THEN it
      ELSE IF o > it.len THEN Ended([it EXCEPT !.off = at], it.err_off)
      ELSE MovedTo(it, at, o, ValueSpan(it.raw, it.len, o, at, At(it.raw, at)))

-----------------------------------------------------------------------------
(* What the iterator stands on.  An accessor gives nothing for a value of  *)
(* another type.                                                           *)

Holds(it, t) == bson_iter_type(it) = t

Fixed(it, t, n) == IF Holds(it, t) THEN Slice(it.raw, it.d1, n) ELSE <<>>

bson_iter_double(it) == Fixed(it, BSON_TYPE_DOUBLE, 8)
bson_iter_int32(it) == Fixed(it, BSON_TYPE_INT32, 4)
bson_iter_int64(it) == Fixed(it, BSON_TYPE_INT64, 8)
bson_iter_oid(it) == Fixed(it, BSON_TYPE_OID, 12)
bson_iter_date_time(it) == Fixed(it, BSON_TYPE_DATE_TIME, 8)
bson_iter_bool(it) == Holds(it, BSON_TYPE_BOOL) /\ At(it.raw, it.d1) # 0

\* timestamp is the high half of the eight bytes, increment the low half.
bson_iter_timestamp(it) ==
  [timestamp |-> Slice(it.raw, it.d1 + 4, 4), increment |-> Slice(it.raw, it.d1, 4)]

Counted(it, t) ==
  IF Holds(it, t) THEN Slice(it.raw, it.d2, U32At(it.raw, it.d1) - 1) ELSE <<>>

bson_iter_utf8(it) == Counted(it, BSON_TYPE_UTF8)
bson_iter_code(it) == Counted(it, BSON_TYPE_CODE)
bson_iter_symbol(it) == Counted(it, BSON_TYPE_SYMBOL)

bson_iter_regex(it) ==
  IF Holds(it, BSON_TYPE_REGEX)
  THEN [regex |-> CStringAt(it.raw, it.d1), options |-> CStringAt(it.raw, it.d2)]
  ELSE [regex |-> <<>>, options |-> <<>>]

\* Slip: the length inside deprecated binary data is taken for data.
bson_iter_binary_plain(it) ==
  LET subtype == At(it.raw, it.d2)
  IN  [subtype |-> subtype, binary |-> Slice(it.raw, it.d3, U32At(it.raw, it.d1))]

\* Deprecated binary data holds its length a second time.
bson_iter_binary(it) ==
  LET subtype == At(it.raw, it.d2)
      inner == IF subtype = BSON_SUBTYPE_BINARY_DEPRECATED THEN 4 ELSE 0
  IN  [subtype |-> subtype,
       binary |-> Slice(it.raw, it.d3 + inner, U32At(it.raw, it.d1) - inner)]

bson_iter_codewscope(it) ==
  [code |-> Slice(it.raw, it.d3, U32At(it.raw, it.d2) - 1),
   scope |-> Slice(it.raw, it.d4, U32At(it.raw, it.d4))]

bson_iter_dbpointer(it) ==
  LET l == U32At(it.raw, it.d1)
  IN  [collection |-> Slice(it.raw, it.d2, IF l > 0 THEN l - 1 ELSE 0),
       oid |-> Slice(it.raw, it.d3, 12)]

Embedded(it, t) == IF Holds(it, t) THEN Slice(it.raw, it.d1, U32At(it.raw, it.d1)) ELSE <<>>

bson_iter_document(it) == Embedded(it, BSON_TYPE_DOCUMENT)
bson_iter_array(it) == Embedded(it, BSON_TYPE_ARRAY)

\* The iterator of the document or the array the iterator stands on; its length
\* is not checked here, and an iterator over less than six bytes finds nothing.
bson_iter_recurse(it) ==
  CASE Holds(it, BSON_TYPE_DOCUMENT) -> Fresh(bson_iter_document(it), Len(bson_iter_document(it)))
    [] Holds(it, BSON_TYPE_ARRAY) -> Fresh(bson_iter_array(it), Len(bson_iter_array(it)))
    [] OTHER -> Null

\* A document whose length field and last byte are those of its n bytes.
bson_init_static(m) == Len(m) >= 5 /\ U32At(m, 0) = Len(m) /\ m[Len(m)] = 0

\* The macro bson_empty: a document that holds no pair.
bson_empty(m) == Len(m) = 5 \/ m[5] = 0

-----------------------------------------------------------------------------
(* Searching.                                                              *)

\* The iterator on each pair bson_iter_next finds from it on; a pair has two bytes
\* or more.
Walk(it) ==
  LET pairs[i \in 0 .. Len(it.raw)] ==
        IF i = 0 THEN <<it>>
        ELSE LET before == pairs[i - 1]
                 next == bson_iter_next(before[Len(before)])
             IN  IF next.raw = <<>> THEN before ELSE Append(before, next)
  IN  Tail(pairs[Len(it.raw) \div 2])

\* The first of the pairs of a walk whose positions are in hits, or Null.
FirstOf(walk, hits) == IF hits = {} THEN Null ELSE walk[Min(hits)]

\* _bson_iter_find_with_len with a length that is given: of length 0 nothing is found.
bson_iter_find_with_len(it, key) ==
  LET walk == Walk(it)
  IN  IF key = <<>> THEN Null
      ELSE FirstOf(walk, {i \in DOMAIN walk : bson_iter_key(walk[i]) = key})

\* Slip: a key need only begin as the name that is searched.
bson_iter_find_prefix(it, key) ==
  LET walk == Walk(it)
      Agree(k) == \/ k = key
                  \/ k # <<>> /\ key # <<>> /\ k[1] = key[1]
  IN  FirstOf(walk, {i \in DOMAIN walk : Agree(bson_iter_key(walk[i]))})

\* The length is left to strlen here, so that the empty name finds an empty key.
bson_iter_find(it, key) ==
  LET walk == Walk(it)
  IN  FirstOf(walk, {i \in DOMAIN walk : bson_iter_key(walk[i]) = key})

Lower(key) == [i \in DOMAIN key |-> IF key[i] \in 65 .. 90 THEN key[i] + 32 ELSE key[i]]

bson_iter_find_case(it, key) ==
  LET walk == Walk(it)
  IN  FirstOf(walk, {i \in DOMAIN walk : Lower(bson_iter_key(walk[i])) = Lower(key)})

\* path is the dotted key, split at its dots.  Of each name only the first pair is
\* entered.
bson_iter_find_descendant(it, path) ==
  LET f[i \in 1 .. Len(path)] ==
        IF i = 1 THEN bson_iter_find_with_len(it, path[1])
        ELSE IF f[i - 1].raw = <<>> \/ bson_iter_type(f[i - 1]) \notin Containers THEN Null
        ELSE bson_iter_find_with_len(bson_iter_recurse(f[i - 1]), path[i])
  IN  f[Len(path)]

bson_count_keys(m) == Len(Walk(bson_iter_init(m)))

\* A path without a dot is a name for bson_iter_init_find.
bson_has_field(m, path) ==
  LET it == bson_iter_init(m)
      found == IF Len(path) > 1 THEN bson_iter_find_descendant(it, path) ELSE bson_iter_find(it, path[1])
  IN  found.raw # <<>>

\* memcmp of what follows the lengths, then the lengths.
bson_compare(m, n) ==
  LET common == 5 .. Min({Len(m), Len(n)})
      differ == {i \in common : m[i] # n[i]}
      Sign(x) == IF x < 0 THEN -1 ELSE IF x > 0 THEN 1 ELSE 0
  IN  IF differ = {} THEN Sign(Len(m) - Len(n)) ELSE Sign(m[Min(differ)] - n[Min(differ)])

-----------------------------------------------------------------------------
(* bson_value_t: a value with what its members hold, as bytes.             *)

Value(t, first, second) == [value_type |-> t, first |-> first, second |-> second]

bson_iter_value(it) ==
  LET t == bson_iter_type(it) IN
  CASE t = BSON_TYPE_DOUBLE -> Value(t, bson_iter_double(it), <<>>)
    [] t = BSON_TYPE_UTF8 -> Value(t, bson_iter_utf8(it), <<>>)
    [] t = BSON_TYPE_DOCUMENT -> Value(t, bson_iter_document(it), <<>>)
    [] t = BSON_TYPE_ARRAY -> Value(t, bson_iter_array(it), <<>>)
    [] t = BSON_TYPE_BINARY ->
         Value(t, bson_iter_binary(it).binary, <<bson_iter_binary(it).subtype>>)
    [] t = BSON_TYPE_OID -> Value(t, bson_iter_oid(it), <<>>)
    [] t = BSON_TYPE_BOOL -> Value(t, IF bson_iter_bool(it) THEN <<1>> ELSE <<0>>, <<>>)
    [] t = BSON_TYPE_DATE_TIME -> Value(t, bson_iter_date_time(it), <<>>)
    [] t = BSON_TYPE_REGEX -> Value(t, bson_iter_regex(it).regex, bson_iter_regex(it).options)
    [] t = BSON_TYPE_DBPOINTER ->
         Value(t, bson_iter_dbpointer(it).collection, bson_iter_dbpointer(it).oid)
    [] t = BSON_TYPE_CODE -> Value(t, bson_iter_code(it), <<>>)
    [] t = BSON_TYPE_SYMBOL -> Value(t, bson_iter_symbol(it), <<>>)
    [] t = BSON_TYPE_CODEWSCOPE ->
         Value(t, bson_iter_codewscope(it).code, bson_iter_codewscope(it).scope)
    [] t = BSON_TYPE_INT32 -> Value(t, bson_iter_int32(it), <<>>)
    [] t = BSON_TYPE_TIMESTAMP ->
         Value(t, bson_iter_timestamp(it).timestamp, bson_iter_timestamp(it).increment)
    [] t = BSON_TYPE_INT64 -> Value(t, bson_iter_int64(it), <<>>)
    [] OTHER -> Value(t, <<>>, <<>>)
=============================================================================
