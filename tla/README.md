# A verification of binson

binson is a BSON reader of two files, `src/binson.c` and `src/binson.h`, for
devices without dynamic memory: a program loads a file into a buffer, and the
library hands out pointers into that buffer.  Its test suite brings libbson 1.2.1
along (`src/testsuite/libbson-1.2.1`), whose iterator, builder, readers and JSON
code are by far the larger part of the repository, and whose example programs
made the test cases.  This directory has TLA+ models of both: of binson, of a
program that calls it in any order and of its client `testbinson`; and of the
parts of libbson that keep state over several calls.  There are configurations
with which TLC checks the models on small instances, and proofs, checked by
TLAPS, that hold for every value of the constants: about binson, about testbinson, and
about libbson's reader, writer, contexts, the memory of its documents, its search for
the second of a date and its reader of JSON.

## 1. The system and its components

### binson

| component | source | state | operations |
|---|---|---|---|
| traversal | `binson.c:4-109, 178-181` | none but the pointers the caller keeps | `opendoc`, `getdoclen`, `nextitem`, `next_element`, `getvalue`, `gettype`, `getkey` |
| search | `binson.c:112-176` | locals `buffer`, `path`, `next` of `lookuppath`; `buffer` of `lookup` | `lookuppath`, `lookup` |
| `errorno` | `binson.h:3` | one global that every call shares | set by `opendoc` and `getvalue`, cleared by `opendoc` only |
| conversions | `binson.c:184-187` | none | `asint`, `asdouble`, `asboolean`, `asstring` |
| testbinson | `testsuite/testbinson.c` | the buffer, the activations of the recursive `tojson`, what was printed | `main`, `tojson` |
| test.sh | `testsuite/test.sh` | none | runs testbinson on every test file and compares |
| test cases | `testsuite/test-cases`, `test_res.out` | data | |
| test.py | `test.py` (the one in `testsuite` is empty) | none | drives a program that the repository does not have |

How they interact.  A caller opens the buffer with `opendoc`, and goes from pair
to pair with `nextitem` until it reads a zero byte, or calls `lookuppath`, which
splits the path at its slashes and calls `lookup` for each segment and `opendoc`
for each document or array on the way.  `lookup` goes from pair to pair with
`nextitem`.  No call knows where the buffer ends: what a call may read is decided
by the bytes that earlier calls went over.  Errors are reported by a null pointer
and by `errorno`.  `tojson` is the client of the traversal: it calls itself with
what `opendoc` returns for a nested document.

### libbson

Paths are below `testsuite/libbson-1.2.1/`.

| component | source | state | operations |
|---|---|---|---|
| iterator | `src/bson/bson-iter.c`, `.h` | a `bson_iter_t`: the document, the offset, where the parts of the value are | `bson_iter_next`, `find`, `find_descendant`, `recurse`, the accessors |
| visitors | `bson-iter.c` (`visit_all`), `bson.c` (`bson_validate`, `bson_as_json`), `bson-utf8.c` | a stack of activations, each with its iterator and the state of its visitors | `bson_iter_visit_all`, `bson_validate`, `bson_as_json`, `bson_array_as_json` |
| documents | `bson.c`, `bson-value.c`, `bson-private.h` | `bson_t`: flags, length, inline bytes or a block, parent, depth, offset; the blocks that are allocated | `bson_append_*`, `*_begin`, `*_end`, `bson_init*`, `new*`, `copy*`, `concat`, `steal`, `reinit`, `destroy*`, `bson_value_copy`, `_destroy` |
| reader | `bson-reader.c` | a buffer that is a window on a stream, `offset`, `end`, `done`, `failed` | `bson_reader_read`, `tell`, `new_from_*` |
| writer | `bson-writer.c` | a buffer of the caller's, the open document | `bson_writer_begin`, `end`, `rollback` |
| examples | `examples/bson-to-json.c`, `bson-validate.c`, `bson-metrics.c`, `bson-streaming-reader.c`, `json-to-bson.c` | what was read, written and counted | `main` |
| dates | `bson-iso8601.c`, `bson-timegm.c` | the bounds of a binary search | `_bson_iso8601_date_parse`, `_bson_timegm` |
| JSON | `bson-json.c`, `src/yajl/yajl*.c`, `b64_*.h`, `bson-string.c` | the reader's buffer, yajl's lexer and stack, the stack of documents and the state of the special type that is read | `bson_json_reader_read`, the callbacks, `yajl_parse`, `yajl_complete_parse` |
| ObjectIDs | `bson-oid.c`, `bson-context.c` | contexts (flags, function pointers, counters, cached host and process), the default one | `bson_oid_init`, `bson_oid_init_sequence`, `bson_context_new`, `destroy`, `get_default` |
| BCON | `bcon.c`, `bcon.h` | a stack of frames that outlives a call | `bcon_append*`, `bcon_extract*`, `bcon_new` |
| not modelled | `bson-md5.c`, `bson-clock.c`, `bson-error.c`, `bson-version-functions.c`, `bson-endian.h`, `bson-atomic.c`, `yajl_gen.c`, `yajl_tree.c`, `yajl_buf.c`, `yajl_alloc.c` | see section 5 | |

How they interact.  Everything that reads BSON goes through the iterator; everything
that writes it goes through `_bson_append`.  The visitors call back into
`visit_all` for every container, with state handed down and back up.  A child
document writes into the memory of the document around it, which may move as it
grows.  The reader hands out documents that lie in its own buffer until the next
call.  The JSON reader feeds yajl pieces of text; yajl calls back for every token;
the callbacks build a document, and the one that closes it stops yajl.  Threads
meet in contexts; a fork copies them.

### What is hard here

binson and most of libbson have one thread and persist nothing: there is no
recovery to check, and no interleaving.  What is hard is what a sequence of calls
adds up to: a pointer that is one byte off makes every later call read values as
keys and types, and is noticed, if at all, many calls later; a failure deep in a
search or a walk has to come out through all that is around it; loops and
recursions end only because a pointer moves forwards; and the programs read what
others wrote, so lengths may be negative, documents empty and closing bytes missing.

In libbson there is more.  A stream comes in pieces that may be cut anywhere, and
may fail or end in the middle; a buffer is moved and grown while something in it
is half read or half written; a parser, the callbacks it makes and the stack they
keep have to agree in every state, also where the text is wrong; what is left
of a buffer is the beginning of the next document.  Of a connection both ends run at
the same time.  And contexts are shared: between threads, one of which makes the
default one, and after a fork with a process that has all the caches of its parent.

### What makes each component correct

* Traversal: from a well-formed document, every pointer that is handed out is on a
  boundary of the parse (`OnTrack`), whatever was called before.
* Search: it returns the pair that the path leads to, or null (`LookupAnswer`); it
  does what a search of the parse would do, segment by segment, and ends whenever
  that would (`ImplementsFairPathSearch`, `ForwardOnly`).
* `errorno`: an open that failed is not missed, in a search neither (`ErrorNotMissed`).
* testbinson: each activation goes on where it was (`StaysOnTrack`), the text is that
  of the document (`OutputIsText`), it ends (`Terminates`).
* Visitors: `bson_validate` accepts what the flags allow and finds every damage but
  those listed (`ValidatesExactly`, `DamageIsFound`), JSON has the pairs of the
  document (`JsonOfDocument`), names are found where the grammar has them
  (`FindsByTheGrammar`), no read leaves the document (`WalksInOrder`), what an inner
  walk rejects stays rejected (`RejectionStands`).
* Documents: the bytes stand for the lists of pairs the caller asked for
  and the innermost one can be read at any time (`BuildsLists`), there is always room for
  the ends of all documents that are open (`MemoryInOrder`), and every block is freed
  once (`HeapMatches`).
* Reader and writer: whatever the pieces, the documents are those of the stream
  (`ReadsTheStream`, `BuffersInOrder`), and the end is told apart from an error
  (`NullIsEndOrError`, for readers that have read something); what has ended in a writer
  stays (`FinishedStay`), nothing behind its buffer is written to but one byte
  (`BuffersInOrder`), and all of it arrives (`ToolsTellTheStream`); every program comes to
  its end (`Ends`).
* Dates: second and thousandth are those the calendar gives (`DatesAreReadRight`),
  by a search that never leaves it out (`SearchInOrder`) and ends (`Answers`).
* JSON: a text that was written from a document is read as that document, in
  whatever pieces, and what follows it is left for the next call (`ReadsWhatIsWritten`);
  the end and an error are told apart (`EndsAreToldApart`); the callbacks are never
  deeper in the text than the parser (`InStep`); it ends (`Ends`).
* ObjectIDs: unique within a context and sequential (`UniqueInContext`, `Sequential`),
  different between threads and after a fork where the flags ask for it
  (`NumbersApart`); nobody uses a context half made (`ContextsInOrder`); nobody waits for
  ever for the default one (`Returns`).
* BCON: a document has what its arguments list, in one call or several
  (`WritesAsListed`, `ExtractsAsListed`), and what is not in the grammar of the arguments
  stops the program at once (`AbortsOnMisuse`).

The hazards in the code, each at its line with the properties that are there for
it, are listed in `PROJECT.json`.

## 2. The modules

### binson

```
BinsonBytes            pointer functions of binson.c, on a sequence of bytes
 +- BsonLayout         the parse of a buffer, and what it is for it to be well-formed
     +- PathSearch     the abstract search, on the parse
     +- BinsonApi      a program and the library;  Search == INSTANCE PathSearch
     |   +- MCBinsonApi          small instances, with BsonSamples
     |   +- BinsonApi_proofs     theorems, with BsonLayout_proofs
     +- Tojson         testbinson: main and tojson
     |   +- MCTojson             small instances, with BsonSamples
     |   +- Tojson_proofs        theorems, with BsonLayout_proofs
     +- BsonLayout_proofs        lemmas: pointer functions on well-formed images, with Induction
     +- BsonEncode -- BsonSamples    a BSON writer, and the documents it writes
```

**BinsonBytes.** A buffer is the sequence of its bytes and a pointer the index of
the byte it points to, so the caller's `content` is 1 and C's null pointer 0.
Each function of `binson.c` that follows pointers is one operator of the same
name.  A call that would read a byte outside of the buffer has no defined result:
the operator returns `WILD`, and the action that made the call goes to `pc =
"fault"`, where nothing more is said.  A pointer that is merely computed may be
anywhere.  `int32_t` reads are four bytes, little endian, signed (`Int32At`), so
negative lengths are negative; TLC stops with an error if the sum leaves its own
integers, which no sample makes it do.  `strncmp` is modelled by what it decides
and by the case in which it leaves the buffer (`KeyHasPrefix`, `KeyRunsOut`).

**BsonLayout.** An image is a buffer with its parse: where documents, pairs,
values begin and end.  `WellFormed` says that the parse is the one the BSON format
gives the bytes; it is stated from the format, and shares no function with
`binson.c` except reading a length.  It speaks of one document and one pair at a
time, so there is no recursion in it, and proofs about it need no induction over
the nesting.  A document whose closing byte is not zero is *damaged*: `opendoc`
refuses it, and its contents are not constrained.  The others are *sealed*.

**BinsonApi.** The caller keeps two pointers, `doc` (the document it opened last)
and `el` (the pair it came to last), and may at any time open the buffer (with its
length or with 0), open the value at `el`, advance `el`, take its value, or look up
any path from `doc`.  `opendoc`, `nextitem` and `getvalue` are one step; in
`lookuppath` every turn of its loop and every turn of `lookup`'s loop is a step:

| `pc` | in the code | actions |
|---|---|---|
| `idle` | between calls | `OpenContent`, `OpenValue`, `Nextitem`, `Getvalue`, `Lookuppath` |
| `path` | `while (*path)`, line 140 | `PathEnds`, `CallLookup` |
| `scan` | the body of `lookup`'s do-while, line 116 | `LookupFinds`, `LookupGoesOn`, `LookupMisses`, `LookupFaults` |
| `matched` | after `lookup` returned, line 147 | `PathDone`, `PathDescends` |
| `fault` | a read outside of the buffer | none |

`base` is `lookuppath`'s variable `buffer` and `probe` is `lookup`'s parameter
`buffer`; a null result of `lookup` ends the call at once, in `LookupMisses`.  The
string `path` is what is left of it, split at the slashes: "a/" is the segments
`a` and the empty one, and `while (*path)` is whether one empty segment is all
that is left.  The caller obeys what callers in the repository obey: it tests the
pointer or `errorno` after `opendoc`, and `*el` before `nextitem`.

**PathSearch.** What `lookuppath` promises, with one step for a segment and no
bytes: the first pair at or after the current one whose key begins with the
segment.  `BinsonApi` implements it, with `from <- base`, `rest <- path`, the two
loop positions as `phase = "seek"`, and every turn of `lookup`'s loop that decides
nothing a stutter.

**Tojson.** `stack` holds the activations of `tojson`, each with its `buffer`,
whether `i > 0`, and `isarray`; `level` is passed down and not used (its use is
commented out).  A turn of the loop is `PrintKey`, then `PrintValue` or
`PrintNested` (which calls), then `Advance`; `Enter` and `Leave` print the
brackets.  `out` is the text in tokens.  A value is shown by what `printf` is
given (`Shown`): of an int64 the one byte that
`(unsigned long long)*(getvalue(buffer))` reads, of a string its characters up to
the first zero byte.  Only the first `MaxOut` tokens are kept.

**BsonEncode, BsonSamples.** A writer of images, and the documents that the runs
load: see the bounds.  The writer is not a model of any code in the repository.

### libbson

```
BsonIter                 the iterator, on a sequence of bytes
 +- BsonAppend           what each append function writes
 |   +- LibbsonSamples   documents for the runs
 +- BsonGrammar          BSON and UTF-8 from their specifications (with Utf8)
 |   +- BsonVisit            visit_all, bson_validate, bson_as_json      MCBsonVisit
 +- BsonBuild            bson_t and its memory;  Lists == INSTANCE BsonDoc   MCBsonBuild
 |   +- BsonBuild_proofs     theorems, and lemmas about iterators, with Induction
 +- BsonReader -- BsonTools        the reader and the example programs
 |                    +- BsonStream   with BsonWriter at the other end of a connection
 |                        |   MCBsonStream;  Source == INSTANCE BsonSource
 |                        +- BsonStream_proofs   theorems, with Induction
 +- Bcon                 BCON's two loops over arguments                 MCBcon
BsonDate                 dates                                           MCBsonDate
Yajl -- BsonText -- BsonJson -- JsonReader                               MCJsonReader
 +- JsonReader_proofs        theorems about both, with Induction
BsonContext              ObjectIDs                                       MCBsonContext
 +- BsonContext_proofs       theorems

Induction                induction over numbers and sequences, for the proofs
```

A document is the sequence of its bytes, and offsets count from 0 as in the code.
Functions that only compute are operators of the same names; functions that keep
state over several calls, or that loop over input, are actions.

**BsonIter, BsonAppend, Utf8.** `bson_iter_next` as in the code, type by type, with its
tests of lengths against the end; an iterator that has ended has `raw = <<>>`.  The
append functions give the pieces that are copied *and* the number of bytes counted
for them, since the code counts and copies separately.

**BsonGrammar.** What libbson is measured against: documents, text and JSON as their
own specifications have them.  It uses none of libbson's functions to say which
documents there are.

**BsonVisit.** `stack` holds the activations of `bson_iter_visit_all`, innermost last; a
step visits one pair, calls the visitor, and either goes on, goes into a container,
or returns what the visitor said.  The visitors of `bson_validate` carry the phase of
a DBRef and the offset of the first error, those of `bson_as_json` the depth and the
text, in tokens.

**BsonBuild, BsonDoc.** `open[d]` is the `bson_t` of a document and of the children open
in it, `mem[d]` their memory, `heap` the blocks.  Every operation that makes, fills,
nests, copies, steals, empties or frees a document is an action, and whether an append
finds room is decided as in `_bson_grow`.  `BsonDoc` is what they promise: lists of
pairs and nothing else; `BuildsLists` shows `BsonBuild` to implement it.

**BsonReader, BsonTools, BsonWriter, BsonStream, BsonSource.** A call of `bson_reader_read`
may read several times, and each read is a step of its own with any number of bytes,
none, or a failure.  The example programs go through files one after the other, or
through what a peer sends; the peer begins documents with a `bson_writer_t`, rolls
back, sends what has ended and hangs up, in any interleaving with the reader.  The writer's
buffer is `buf`, and `stray` are the positions behind its end that were written to.  `BsonSource`
is a position in a stream; `ReadsTheStream` shows the reader to implement it.

**BsonDate.** The text is parsed in one step; every turn of the binary search in `time2sub`
is a step, with the bounds in the variable.  The loop of `timesub` over years is a
recursive function.  The last part of the module, from `DaysToYear` on, is not the code's: it
counts the calendar day by day from 1969 on, and the search is measured against it.

**Yajl, BsonText, BsonJson, JsonReader.** The lexer is a function of what is kept and what
has arrived; a turn of `yajl_do_parse` takes one token and is a step; a callback
is a function of the reader's state.  A read from the descriptor is a step with
any number of bytes.  Around it are `json-to-bson`, `bson_new_from_json` and a
program that feeds a data reader text after text.

**BsonContext.** Each thread takes the steps between which another may run: the test
of the once-block, its beginning and its end, the host, the process, reading the
counter and writing it, the atomic add.  A thread that is between two calls may fork,
whatever the others are at; the clock goes on, or is set back, and the host is renamed
at any time.

**Bcon.** A step takes an argument.  `stack` is the frames, of which the code keeps
`n + 1`; `pc` says whether a key or a value comes next.  `assert` is compiled in,
as the build files have it, and ends the program.  After a NULL or a mismatch the
next argument is the first of another call with the same context.

In every module, a definition marked *slip* is a faulty variant of the one after
it, the kind of mistake an edit of that code could make.  `PROJECT.json` lists
under `mutants` which property rejects which slip.

## 3. What the runs check

| run | checks | about | states |
|---|---|---|---|
| `api` | `TypeOK`, `OnTrack`, `FaultOnlyAfterFailedOpen`, `LookupAnswer`, `ErrorNotMissed`, `ForwardOnly` | every sequence of binson's calls on 137 files and 16 paths | 385 k |
| `live` | `ImplementsFairPathSearch` | the same with fairness, on 75 files: a lookup ends and is a search of the parse | 268 k |
| `tojson` | `StaysOnTrack`, `OutputIsText`, `Terminates` | testbinson on 139 files | 1.5 k |
| `visit` | `WalksInOrder`, `ValidatesExactly`, `DamageIsFound`, `JsonOfDocument`, `FindsByTheGrammar`, `RejectionStands` | validation and JSON of whole documents and of documents damaged at each byte | 17 k |
| `build` | `MemoryInOrder`, `HeapMatches`, `BuildsLists` | two documents made, filled, nested, copied, stolen and freed in any order | 31 k |
| `stream` | `BuffersInOrder`, `NullIsEndOrError`, `ToolsTellTheStream`, `ReadsTheStream`, `FinishedStay`, `Ends` | the example programs on files, and on a connection that is written meanwhile | 66 k |
| `dates` | `SearchInOrder`, `DatesAreReadRight`, `Answers` | dates right and wrong, and the search for their second | 4 k |
| `json` | `InStep`, `ReadsWhatIsWritten`, `EndsAreToldApart`, `Ends` | JSON in pieces, cut short, wrong, several documents in a text | 84 k |
| `oids` | `ContextsInOrder`, `UniqueInContext`, `Sequential`, `NumbersApart`, `Returns` | two threads and a forked child that ask for ObjectIDs | 299 k |
| `bcon` | `WritesAsListed`, `AbortsOnMisuse`, `ExtractsAsListed` | all lists of up to seven arguments, against a grammar read by recursive descent | 25 k |

Some of these are conjunctions; the parts are defined, with comments of their own, next
to them:

| property | parts |
|---|---|
| `LookupAnswer` | the code's rule; on plain paths, what README.md promises |
| `StaysOnTrack` | `TypeOK`, `OnTrack`, `FaultOnlyAfterFailedOpen`, `ErrorBranchUnreachable`, `StackBounded` |
| `WalksInOrder` | `TypeOK`, `DepthIsLimited`, `InBounds` |
| `MemoryInOrder` | `TypeOK`, `Room` (space for the ends of all open documents) |
| `BuffersInOrder` | `TypeOK`, `Window`, `FinishedAreWhole`, `StraysByOne` |
| `NullIsEndOrError` | `EofIsTheEnd`, `NotEofIsAnError` |
| `ToolsTellTheStream` | `MaxIsTheLargest`, `AllArrives` |
| `SearchInOrder` | `DateTypeOK`, `BoundsEnclose`, `FindsTheSecond` |
| `InStep` | `TypeOK`, `DepthsAgree` |
| `EndsAreToldApart` | `EndIsTheEnd`, `ErrorIsAnError`, `ErrorsAreTold` |
| `ContextsInOrder` | `TypeOK`, `CalledFinished` |
| `NumbersApart` | `ForksApart`, `TasksApart` |

What they show of binson.  On well-formed documents, whole or damaged inside, that
have no empty document, `lookuppath` always answers by one rule - each segment leads
to the first pair whose key *begins with* it, searched from where the previous one
led - and on plain paths (no empty segment, none that is only the beginning of a
key, none after a value without pairs) that is what README.md promises.  `errorno`
is zero only if nothing failed to open in the last call.  The library leaves the buffer in
one way only, through the null pointer of a nested document that did not open.
testbinson prints exactly the text of the parse, also for empty documents.  The
message at the end of `tojson` is never printed (`ErrorBranchUnreachable`): every
way there is either without an error or has gone through a null pointer.

What they show of libbson.  No walk reads outside of its document, whatever its
bytes.  `bson_validate` finds every damage outside of the places `LooksAway` lists:
strings that are not UTF-8, containers whose length or last byte is wrong, what is
behind the scope of code, and four types whose insides `bson_iter_next` does not
look at.  Memory is made large enough before it is written, for
all documents that are open, and freed once.  Readers give the documents of the
stream for every way the stream can be cut.  The writer keeps to its buffer but for one byte
behind it (below).  JSON that was written from a document
is read as that document, up to the cases below.  The binary search of
`_bson_timegm` ends at the right second at both ends of `time_t`.  ObjectIDs are unique
until the counter comes round, and sequential until it does, the host is renamed or the
clock is set back.  A child has other ones than its parent where the process number is not
cached, and so have threads whose contexts are made by task, as far as the 16 bits that are
kept of their numbers differ.  BCON's
contexts can be used over several calls, and misuse is stopped at its first argument.

Two runs are disagreements between the code and what the repository says of it;
TLC finds each one, and `PROJECT.json` quotes the line:

| run | the code |
|---|---|
| `prefix` | finds the pair `ab` when `a` is looked up (`binson.c:124`) |
| `validate_damaged` | accepts a string that is not UTF-8 when asked to check for it (`bson-iter.c:1721`) |

Others, met while modelling, have no run.  In binson:

* an empty document is read past its end (`binson.c:116`): all properties of `BinsonApi` but its
  type invariant leave images with empty documents out (`Proper`), so no property speaks of it;
  `OutputIsText` of `tojson`, which has a loop of its own, has them;
* `lookuppath` goes on through the null pointer of a document that did not open
  (`binson.c:161`; `FaultOnlyAfterFailedOpen` says that this is the only way out);
* `errorno` stays set through calls that succeed (`binson.c:80`);
* `lookuppath` returns the pair, so that `asint` of it, as README.md of the repository
  writes it, is not the number (`binson.c:153`);
* a path that goes on after a value without pairs continues among its siblings
  (`binson.c:160`; `LookupAnswer` states it);
* the types that `binson.h:36` marks as still to do, as in test10.bson, have width zero,
  so their value is read as pairs;
* of an int64 the lowest byte is printed (`testbinson.c:55`, test34), a negative length
  never ends (`binson.c:25`, test54), and `main` passes `tojson` a null pointer from a
  nested document instead of reporting the error (`testbinson.c:58`).

In libbson:

* a special type at the root of a text, such as `{"$undefined": true}`, ends the program
  (`bson-json.c:221`; the `json` run has such texts and nothing follows them);
* a number below the smallest `int32_t` is cut to 32 bits (`bson-json.c:432`; no sample has one);
* special types in arrays get the wrong keys (`bson-json.c:268`; no sample has them);
* a read that fails before anything was read is told as the end of the stream
  (`bson-reader.c:104`, against `doc/bson_reader_read.page:34`; `EofIsTheEnd` speaks of
  readers that have read something);
* an object where a special type wants a string or a number, as in
  `{"a":{"$oid":{"b":1}}}`, replaces the state of the type (`bson-json.c:652`): the type is
  forgotten, the inner object is taken for the value, and the bracket that ends the
  type's object ends what is around it.  So `bson_json_reader_read` answers with a
  document before the text is over and leaves a bracket to the next call, which fails
  on it.  The callbacks are then fewer levels deep than the parser, which is why
  `DepthsAgree` is an inequality; the samples `Misplaced` have such texts;
* documents nested deeper than the stack, and an object of that kind in an array, end a
  text without an error being set, against `bson-json.c:1078`, "-1 if there was an error and
  @error is set" (`ErrorsAreTold` states both exceptions);
* `bson_writer_begin` clears five bytes from the *second* byte of the new document on
  (`bson-writer.c:205`), and has made room for five from the first (`:186`): where they are the
  last ones of the buffer, one byte behind it is overwritten, whether the buffer is the
  caller's or was reallocated.  `StraysByOne` says that it is never more than that byte, and
  only then; the writer of the `stream` run that has 5 bytes at first does it with its first document;
* a zero byte behind nothing but space ends a text for `bson_json_reader_read`, which looks at
  each piece as a C string where it decides whether it was all space (`bson-json.c:299`): what
  follows, a document even, is lost without an error, against `bson-json.c:1077`, "0 if
  successful and no data was read".  `EndIsTheEnd` states it; the samples `Hidden` have such texts.
  A space written in two bytes counts as one, too;
* `{"$numberLong": "0"}` is refused, and so is `"-0"`: `bson_ascii_strtoll` takes what begins with a
  zero for an octal or hexadecimal number unless the string ends there (`bson-string.c:704`), and behind
  the digits of yajl's token stands its quote.  Where the zero is written with an escape the
  token is copied and ends in a zero byte, and it is read.  The samples `Zeros` have these
  texts, and `ErrorIsAnError` names those that are refused;
* an empty name is found by `bson_iter_find` and by `bson_has_field`, which leave its length to
  be counted (`bson-iter.c:246`), and never on the way of a dotted name, whose parts come with their
  lengths (`bson-iter.c:201`).  `FindsByTheGrammar` states both;
* a thread whose number is 0 in its lower 16 bits makes a context for its task with the
  number of the process (`bson-context.c:380`), as the main thread does; `TasksApart` compares
  the numbers that are used (`TaskNumber`);
* `bson_validate` looks away in the places `LooksAway` lists;
* `bson_extract_ctx` drops its result (`bcon.c:994`).

### Bounds

binson:

* Files.  Each of the 12 types other than number, document and array, with bytes
  that look like keys and types, as the first of two pairs, at the top and one
  level down (24); every two of number, document and array under the keys `a`, `ab`
  and `b`, equal keys and keys that begin with one another included (36); one of
  three levels; each of these again with its last document damaged, and the last one
  with the one in the middle damaged (62); an empty document at the top and inside (2);
  and 12 that are no document: cut short, with bytes that follow, with a length of 4
  so that `opendoc` tests a byte of the length itself.
  Since a call sees one pair at a time, two pairs of every kind in a row, on two
  levels, are every step that the pointer arithmetic has.  The proofs do not
  depend on the sizes.
* Paths.  One to three segments out of `a`, `b`, `ab` and the empty one: hit, miss,
  only the beginning of a key, leading, doubled and trailing slash, into a document,
  into an array, into a damaged document, past a number.
* `live` has the 75 files of all shapes, whole and damaged; the types that only differ in
  their width are left out, since a liveness check is dear.
* `MaxOut` is 40, more than the longest text.
* The calls of a program are not bounded: pointers range over the buffer, so the
  state space is finite.

libbson.  The constants of the code are small here, so that its limits are met in a few
steps; nothing in the modules depends on their size.

* `visit`: a pair of each type and of nearly each form, keys and strings that are not
  UTF-8, up to three keys of a DBRef in every order, containers nested deeper than
  `MaxRecursion` = 2 (100 in the code); every byte behind the length of the document
  replaced by 0, 1, 5, 15 and 255, and every value under the types 1 to 18; names that
  are looked up with one to three parts, empty ones among them.  The length
  itself is what the caller's `bson_t` has, and is not damaged.
* `build`: 12 bytes in a `bson_t` itself (`InlineCap`), which a document of one number
  fills, blocks of up to 32 bytes (`INT32_MAX`), two `bson_t` of which
  one is begun and changed, one level of children, copies of up to 19 bytes.  A pair
  that does not fit inline, and one too many for the largest block, are both there.
* `stream`: a buffer of 4 bytes that grows, so that the length, the document and its
  last byte are each cut; reads of any size, none, or failing; files of up to
  two documents, damaged, cut short or missing, one or two in a row.  The writer
  has no memory, 5 or 12 bytes at first, may or may not grow them, and gives up behind
  20 bytes.
* `dates`: a `time_t` of 32 bits; leap days and the days around them, ends of years, the
  epoch, the end of `time_t` and beyond it, days no month has, numbers just out of
  their range, every form of second, fraction and zone, and texts cut or damaged.
  What a date beyond `time_t` is read as is not compared.
* `json`: `int32_t` has 8 bits and `int64_t` 16, three documents may be open; buffers of 2
  and 3 bytes, which cut every token, and of 40, which hold a whole text and what
  follows; values of every type JSON has a form for, a text of two documents cut at
  each byte, some 55 texts with one thing wrong, objects where a special type has none,
  zero bytes and spaces of two bytes in front of, behind and instead of a document.
* `oids`: two threads of a process and one child, two calls at a time, bytes of two values and
  one of them for the counter, so that it comes round; a clock of two times that is set
  to either at any time, and one renaming of the host.  The threads are 4, whose lower two
  digits are zero, and 6.  Four plans of contexts: the default one, one by task for each thread
  (two ObjectIDs), one by task for 6, and one that is safe for threads (three ObjectIDs each).
  Contexts are made first, before ObjectIDs are asked for.
* `bcon`: frames for two levels (`BCON_STACK_MAX` = 3, 100 in the code); every list of up
  to seven arguments out of brackets, keys, a value and NULL, of five out of those with
  splices or iterators, and every type in every place that takes one value.

### What the programs are assumed to keep to

* The file that is read begins with the document whose length is given; `length` is at
  least what the first four bytes say, or 0.
* binson: `opendoc` is tested, `*el` is tested before `nextitem`.
* A parent document is not used while a child of it is open; a document is destroyed
  once; whoever was told of an error stops (the writer's peer, the readers' programs).
* JSON: no special types in arrays, no text that is not base64 in `$binary`, no numbers
  below the smallest `int32_t`: what the code does there is listed above or undefined.
* BCON: the C type of an argument is the one announced; `assert` is compiled in.
* A thread forks between two calls of its own.

### Fairness

| where | what is fair | why |
|---|---|---|
| `BinsonApi`, `FairSpec` | the library's steps | a call runs on the caller's thread, takes no lock and waits for nothing; the program need not call again |
| `Tojson`, `FairSpec` | the only thread | it waits for nothing |
| `PathSearch`, `FairSpec` | the search steps | what the code is shown to keep |
| `BsonStream` | the reading program, and at the other end writing, sending and hanging up, each weakly | the programs go on, and the system sends what was written; without it a reader may wait for ever, and should |
| `JsonReader` | the only thread | it waits for nothing: files are there |
| `MCBsonDate` | the turns of the search | one loop on one thread |
| `BsonContext` | the steps of a call, weakly for each thread | the scheduler runs every thread; calls need not be made, clocks need not tick, hosts need not be renamed |

`BsonVisit`, `BsonBuild` and `Bcon` have no liveness property and no fairness.

Deadlock is not checked: every one of the programs comes to an end, and stands still
then.

## 4. What is proved

Every theorem holds for all values of the constants that the named assumptions of the
modules allow, and for runs of any length.

| module | theorem | says |
|---|---|---|
| `BinsonApi_proofs` | `TypeCorrect` | `TypeOK`, for any bytes |
| | `PointersOnTrack` | `OnTrack`: in a proper image the pointers stay on the parse |
| | `FaultsAreFailedOpens` | `FaultOnlyAfterFailedOpen` |
| | `LoopsGoForward` | `ForwardOnly` |
| | `SearchesTheParse` | the steps of `BinsonApi` are steps of `PathSearch` or stutters |
| | `ErrorIsReported` | `ErrorNotMissed`: no error means that no damaged document was opened, on the way of a search neither |
| | `AnswersAreRight` | `LookupAnswer`: the rule of the code, and on plain paths the documented one |
| `Tojson_proofs` | `PrintingStaysOnTrack` | `StaysOnTrack`, all five parts |
| | `TextIsPrinted` | `OutputIsText`: an intact file is printed to the end, as the text of its parse |
| `BsonStream_proofs` | `BuffersStayInOrder` | `BuffersInOrder`: the reader's window, what has ended in a writer, and that one byte at most is written behind its buffer |
| | `NullIsToldApart` | `NullIsEndOrError`, for readers that have read at least one byte |
| | `ToolsStayTrue` | `ToolsTellTheStream`: bson-metrics' largest size, and that all that was sent arrives |
| | `FinishedDocumentsStay` | `FinishedStay`: no step of the writer touches a document that has ended |
| | `ReadersReadTheSource` | `ReadsTheStream`: reader and programs implement `BsonSource` |
| `BsonContext_proofs` | `ContextsStayInOrder` | `ContextsInOrder`: nobody calls a context half made |
| | `UniqueIds` | `UniqueInContext`: two equal ones are a whole round of the counter apart |
| | `SequentialIds` | `Sequential`: larger than those before, of the same host name, round of the counter and no later a time |
| | `ApartByNumber` | `NumbersApart`: of processes whose number is not cached, and tasks, as far as their 16 bits differ |
| `BsonBuild_proofs` | `NothingLeaks` | `HeapMatches`: the blocks that are allocated are those in use |
| | `WritesStayInside` | `MemoryInOrder`: every write is inside of its block, with room for the ends of all open documents |
| `JsonReader_proofs` | `SearchIsInOrder` | `SearchInOrder`: the search of `_bson_timegm` encloses the second that is sought, and ends at it |
| | `ReaderIsInStep` | `InStep`: the callbacks of the JSON reader are never deeper than yajl, all offsets are in their texts |

`BsonLayout_proofs` and `Induction` have lemmas only.

**Assumptions.**

* `BinsonApi`, `Tojson`: files are sequences of bytes, and a path is a sequence of at least
  one segment without slashes and zero bytes, which is what splitting a C string gives.
  Files need not be well-formed: the properties say which ones they are about.  `MaxOut`
  is a number.
* `BsonReader`: the buffer has at least four bytes (`InitialLen`, 1024 in the code).
  `BsonWriter`: a first buffer is not empty, and what is appended is a sequence of bytes
  of the length that is announced.  `BsonTools`: the arguments are files or missing.
  `BsonStream`: the bound `Limit` on what is written is below 2^31 - 1, as the length of
  a document is.
* `BsonContext`: processes and threads are numbered apart, there are finitely many; the
  counter has digits of any base, and begins anywhere.
* `BsonBuild`: a `bson_t` is larger than the bytes it holds itself, and these are no power
  of two (120), as the sizes of the blocks are: that is how it is seen whether a document
  has moved out.  Keys and values are bytes.  A buffer that is handed over holds the
  document its length field tells of, which `bson_new_from_buffer` does not test
  (`bson.c:1973`), and of a pair that is appended no more is written than room is asked
  for; of every pair the append functions make, the lemmas of `BsonBuild_proofs` say that
  (`ContentsAssumption`).
* `BsonDate`: `time_t` has 32 bits or more, in two's complement, and texts are sequences of
  bytes (`DateAssumption`).
* `BsonJson`, `JsonReader`: at least one document may be open; `int64_t` is no narrower than
  `int32_t`; buffers are not empty, texts are sequences of bytes and files may be missing
  (`JsonAssumption`, `ReaderAssumption`).  Which texts are dates (`DateOf`) and which numbers are
  too large for a double is left open.

**binson.**  `OnTrack` alone is not inductive.  That a turn of `lookup`'s loop
finds a pair at `probe` needs `probe` not to be null, which holds because a null
`base` comes only from an `opendoc` that failed, and then an empty segment matches
at once and any other is a fault; that the loop moves forwards needs `base <=
probe`.  The invariant is

    IInv == TypeOK /\ (Proper => Track)

where `Track` is `OnTrack` with those two facts and the description of faults added.
Each action preserves it by a lemma about it (`TrackOpenContent` and the others), and
those lemmas rest on `BsonLayout_proofs`, where the pointer functions meet the format:
`nextitem` of a pair is the pair's end, which is the next pair or the end of the
document (`ElemStep`); a document ends in a zero byte, which no pair's type is
(`EndIsZero`); opening the value of a pair opens the document that is there or
returns null (`ElemOpens`); comparing a key with a segment stays inside the pair
(`ElemKeyEnds`).  `WellFormed` says what each pair's neighbours are, so no lemma
needs induction over the nesting.

For the search, `Scan` adds that wherever `base` is a pair, `probe` is one of the same
document, and no pair between them begins with the segment: so the pair at which the
loop stops is the first one, which is a step of `PathSearch`, and every other turn is a
stutter.  The parse does not say that a pair is in one document only; `Scanned` speaks
of all that hold `base`.  For the answers, `Tells` adds that `base` is where
the segments used so far lead by the rule of the code.  That rule is a fold over the
path (`PrefixesLead`, a recursive function), which the proof unfolds one segment at a
time; that it is the documented rule on plain paths goes by induction over the path
(`UpTo`).  `ErrorNotMissed` comes out of the same invariant: no segment that was used
leads into a damaged document unless `base` is null.

**testbinson.**  `OnTrack` of `Tojson` says nothing about the pointer `tojson` is entered
with, nor how the activations are nested.  The invariant adds both: an error is
followed by no token (`Errors`), each activation is in the document that the pair of the
next outer one holds (`InnerOfOuter`), and the outermost is in the document the file
begins with.  That the stack is bounded by the size of the file follows from the
nesting: a document inside another one is at least seven bytes shorter.

`OutputIsText` is not inductive either: it does not say where in the text the activations
are.  `Texts` gives, for every place an activation can be at, the text the rest of its document
has; it is a recursive function, and that it exists, and is what its equation says, goes by
induction over the places from the last to the first (`TextsAre`), for every call from a
place leads further on.  The invariant `Printed` says of each state that what was printed, then what the
running activation has still to print (`Remaining`, by its step), then what each of the
waiting ones prints after the pair it is at (`Owed`) is the text of the file.  A step
moves tokens from the second part to the first; a call moves what follows the pair to the
third, and a return takes it back (`OwedCall`, `OwedOuter`).  That only `MaxOut` tokens are
kept loses nothing: cutting twice is cutting once (`KeptTwice`).

**Reader, writer and programs.**  The invariant `SInv` has five parts.  `WriterInOrder`:
the buffer up to `offset` is whole documents, and what is behind it, if anything, is a
document that ends and says its length.  `ReaderInOrder`: the window shows the stream
from `bytes_read - len` on, and the reader is done only where reading failed or where
the stream has ended and holds no further document.  `ToolInOrder`: the answer is what
the stream has where the reader stands.  `MeasuresInOrder`: the largest size bson-metrics
has found so far.  `ConnectionInOrder` ties the two ends together: what has been sent
is a beginning of the writer's buffer, the documents the program has seen are its
first ones, and from where the reader stands it is documents up to `offset`.  None of
`BuffersInOrder`, `NullIsEndOrError` or `AllArrives` is inductive without it: that an end
of the stream is one needs what the window shows, that all arrives needs the writer's
`offset` to be the end of a document.  Where documents end (`EndFrom`, `Behind`) are
recursive functions of the bytes; `Induction` has the induction over a position in
a sequence by which they are kept when the sequence grows (`LookingAhead`).
`StraysByOne` has an invariant of its own (`StrayInOrder`), which says where the open document
begins when the byte behind the buffer was written to; `WriterInOrder` is all it needs.

**Contexts.**  `CInv` says of each thread between which steps of its call it is, and
what may have happened since: the default context is made by one thread of a process
and by nobody else while `once` runs; a context in use stays; a counter that is not
thread-safe is read and written by its owner only.  Of the ObjectIDs it says that their
bytes are those the context gave (`Formed`), that the counter of a context has passed
all that it gave (`CountedBy`), that of two from one context the later has the larger
number (`Counting`), and which had been made when a call began (`Known`).  Nothing is
assumed of the clock: `Sequential` compares an ObjectID with those whose time is no later.
Uniqueness follows up to the round of the counter, which is how the property itself states it.

**Documents.**  `HeapMatches` alone is not inductive: what `bson_destroy` frees is read off
the flags of the root, and these change when a document moves out of its `bson_t`.  The
invariant `HInv` says that a child is never `INLINE`, that a root that is has no child,
owns its bytes, and has exactly as many as fit (`InlineInOrder`), so that the memory has
another size just when it has moved; and, for each document, which of the blocks its
flags stand for are there.  Each operation is a lemma (`TakesKeeps`, `BeginKeeps`,
`EndKeeps`, `StealKeeps` and so on).  That a document which begins a child has moved out
is what `bson.c:454` asserts; the model takes the assertion as the code does, and a
failed one ends the program.  Sizes are not needed here: `HeapMatches` holds whatever is
appended.

They are what `MemoryInOrder` is about.  Its invariant `RInv` says of a document and
its open children (`RoomInOrder`) what `TypeOK` and `Room` say, that a root is at offset 0, and
that one which is in its `bson_t` has no child.  `Room` speaks of every open document,
but only the innermost one asks for memory: that the others keep their room follows from
`PlaceInOrder`, since a child begins where the last five bytes of its parent were and
needs one byte more behind it.  So `bson_grow`, which adds `depth` to what it asks for, is
enough (`AllocGrowIs`), a child may give its parent its length when it ends (`EndedFits`),
and a copy of an inline document takes all of its bytes along.

How much is written depends on what is read.  A pair may be copied from another
document with `bson_append_iter`, which trusts what the iterator found, so the
proof begins with the iterator: from any sequence of bytes `bson_iter_next` comes to
pairs only whose parts are inside of it (`NextIs`, with a lemma for each kind of value:
`StringSpanIs`, `BinarySpanIs`, `CodewscopeSpanIs` and so on), and so does a walk of any
length (`WalkIs`, by induction over its steps).  What the accessors give of such a pair
is bytes of the document (`IterValueIs`), and what an append function makes of it is no
longer than the room it asks for (`AppendValueIs`, with a lemma for each function).  The
value of an old binary is an example of what is at stake: its subtype takes four bytes off
the length, which are there because the iterator looked.

**Dates.**  That the bounds enclose the second that is sought (`BoundsEnclose`) is kept only
because the search decides rightly which half to leave out: `tmcomp` of the broken-down
time of a second has to have the sign of their difference.  That takes a calendar.  The
theorem's measure of it, `DaysToYear`, adds up days from 1969 on and shares no arithmetic
with the code, which counts leap years by three divisions and finds the year by jumps
of 366 days.  That a leap year adds one to `leaps_thru_end_of` and only a leap year does
(`LeapStep`) makes the two counts the same (`DaysToYearIs`).  The loop over years is a recursive
function; that it comes to the right year is shown by the least distance from which it
would not: each jump comes closer (`YearJumps`), so there is none (`YearOfRight`).  With
months and the clock, `timesub` undoes the count of seconds (`TimesubIs`), and `tmcomp` orders
broken-down times as their seconds are ordered (`TmcompIs`), which needs each field in its
range.  What is read from a text is in such a range (`SearchBegins`), day 31 of a month of
30, second 60 and the last days of 1969 included, and the invariant

    InOrder(d) == d \in DateRecords /\ (d.pc = "search" => Searching(d)) /\ (d.pc = "done" => Found(d))

says of a search that its bounds do not cross and, while the date is in `time_t`'s reach,
that it is the first try, that what is searched and what is saved add up to the second
of the date, and that it lies between the bounds.  Then a round that would give up has the
second at the bound where it looks, and finds it instead (`GiveUpKeeps`).

**JSON.**  `DepthsAgree` speaks of a running parser and is not inductive: yajl calls the
callbacks first and changes its own stack after, between two pieces of text nothing
is running, and a call that has failed may leave the two apart.  The invariant `JsonInv` says
when the next step may go on at all (`MayGoOn`), and there `NotTooDeep`: the frames of the callbacks
and the objects their special types are made of are no more than the containers that yajl
has open.  Each callback can raise that level by at most one where yajl pushes a
container and by none elsewhere, or it stops the parser (`Deeper`, with a lemma for each:
`StartMapIs`, `MapKeyIs`, `EndMapIs` and so on); that an object is pushed with its first key only, or
at its end if it has none, is where the count needs `SpecialLevels`.  That brackets of one
kind never take away more than was pushed follows from the level in the same way.

The offsets are the other half.  `bytes_parsed` grows by what yajl took of a piece, so it
stays in the buffer if no lexeme ends outside of the text (`LexIs`).  That is proved for
each kind (`NumberIs`, `StringTokenIs`, `WordIs`), from what is kept of earlier pieces and for any
bytes; `TextInBuffer` carries it through `bson_json_reader_read`, with one byte beyond the buffer
for the space that `yajl_complete_parse` adds at the end of all.  `ReadInt64` and
`_bson_json_read_integer` keep a timestamp's numbers within 32 bits (`IntegerIs`).

**Only model-checked.**

* Liveness (`ImplementsFairPathSearch`, `Terminates`, `Ends`, `Answers`, `Returns`): the prover
  has no rules for fairness and `ENABLED`.  The safety part of `ImplementsFairPathSearch` is
  proved.
* What is stated with, or computed by, a recursive operator: all of `BsonVisit` and `Bcon`, and
  `BuildsLists`, which is about the grammar of BSON (`BsonGrammar`); the prover loses its
  arithmetic in modules that have one.  `ReadsWhatIsWritten` and `EndsAreToldApart` compare
  with a recursive writer of JSON and with what the samples are known to hold,
  `DatesAreReadRight` with the samples' meaning.  Recursive *functions* are no such
  obstacle, and induction over numbers is done with sets: a set of counterexamples
  that is not empty has a least element (`LeastOf`).

## 5. What is not modelled

* Floating point: a double is its eight bytes, or the text it was read from.
* testbinson: the usage message, `stat`, `fopen`, `malloc` and `fread`, which begin with the
  bytes in memory here and are mostly not tested by the code; the compilation with
  `DEBUG`; `addtabs`, which nothing calls.
* test.sh is a loop of a shell over files, with one program run and one comparison in
  it; test.py drives a program that the repository does not have.
* MD5 (arithmetic on words), the clock, error messages, version numbers, endianness:
  no state that a sequence of calls could spoil.  The atomic add and the hash of
  the host's name are in `BsonContext`, by what they do.
* Memory that is used when it should not be: json-to-bson goes on with the document it has
  destroyed (`json-to-bson.c:84`), which is emptied and used again here; and the bytes that are left
  in the JSON reader's buffer behind a piece, which a character cut at its end would be
  completed from (`_bson_json_all_whitespace` takes zeros for them).
* yajl's generator, its tree and its allocators, which libbson does not call; its
  growing buffer is a sequence.  Options that the JSON reader does not set.
* Of `bson_t`: `bson_append_now_utc`, `bson_compare`, `bson_equal` and allocators set by a
  program.  Of `bson_string_t`: how its memory doubles.
* Zones other than UTC: `_bson_timegm` loads no other.

## 6. What could come next

Everything that keeps state over several calls is modelled, and of the safety properties
that the runs check those are proved that need no induction over data.  What remains:

1. The stacks of `BsonVisit` and `Bcon`, if their recursive operators are put into modules of
   their own.
2. That a text that is written from a document is read as it (`ReadsWhatIsWritten`), for
   documents without nesting.
