----------------------------- MODULE MCJsonReader -----------------------------
(***************************************************************************)
(* A small instance of JsonReader.  The texts are written from documents    *)
(* (JsonOf), so that it is known what has to be read, or they are wrong in  *)
(* one place.  int32_t has 8 bits here, int64_t 16, and three documents may  *)
(* be open at a time.                                                       *)
(***************************************************************************)
EXTENDS JsonReader

\* The codes of a text without backquotes (TLC takes a string for the sequence of its
\* characters).
Printable == " !\"#$%&'()*+,-./0123456789:;<=>?@ABCDEFGHIJKLMNOPQRSTUVWXYZ[\\]^_abcdefghijklmnopqrstuvwxyz{|}~"
C(string) ==
  [i \in 1 .. Len(string) |->
     LET j == CHOOSE k \in 1 .. Len(Printable) : SubSeq(Printable, k, k) = SubSeq(string, i, i)
     IN  IF j < 65 THEN 31 + j ELSE 32 + j]

-----------------------------------------------------------------------------
(* A writer of JSON.                                                       *)

Decimal(n) == IF n < 0 THEN <<45>> \o bson_uint32_to_string(-n) ELSE bson_uint32_to_string(n)

Hex(n) == IF n < 10 THEN 48 + n ELSE 87 + n

Quoted(s) ==
  LET escaped(c) == CASE c \in {Quote, Backslash} -> <<Backslash, c>>
                      [] c < 32 -> <<Backslash, 117, 48, 48, Hex(c \div 16), Hex(c % 16)>>
                      [] OTHER -> <<c>>
  IN  <<Quote>> \o FlattenSeq([i \in DOMAIN s |-> escaped(s[i])]) \o <<Quote>>

Member(key, text) == Quoted(key) \o <<58>> \o text
Listed(texts) == FlattenSeq([i \in DOMAIN texts |-> IF i = 1 THEN texts[i] ELSE C(", ") \o texts[i]])
Object(members) == <<123>> \o Listed(members) \o <<125>>
Named1(name, text) == Object(<<Member(C(name), text)>>)
Named2(name, text, other, more) == Object(<<Member(C(name), text), Member(C(other), more)>>)
HexText(bytes) == FlattenSeq([i \in DOMAIN bytes |-> <<Hex(bytes[i] \div 16), Hex(bytes[i] % 16)>>])

ADate == C("2001")

RECURSIVE ValueText(_, _), JsonOf(_)
ValueText(type, v) ==
  CASE type = "null" -> C("null")
    [] type = "bool" -> (IF v THEN C("true") ELSE C("false"))
    [] type = "int32" -> Decimal(v)
    [] type = "int64" -> (IF v > INT32_MAX THEN Decimal(v) ELSE Named1("$numberLong", Quoted(Decimal(v))))
    [] type = "double" -> v
    [] type = "utf8" -> Quoted(v)
    [] type = "document" -> JsonOf(v)
    [] type = "array" -> <<91>> \o Listed([i \in DOMAIN v |-> ValueText(v[i][1], v[i][3])]) \o <<93>>
    [] type = "oid" -> Named1("$oid", Quoted(HexText(v)))
    [] type = "binary" -> Named2("$type", Quoted(HexText(<<v[1]>>)), "$binary", Quoted(b64_ntop(v[2])))
    [] type = "regex" -> (IF v[2] = <<>> THEN Named1("$regex", Quoted(v[1]))
                          ELSE Named2("$regex", Quoted(v[1]), "$options", Quoted(v[2])))
    [] type = "date" -> (IF v = DateOf[ADate] THEN Named1("$date", Quoted(ADate))
                         ELSE IF v < 0 THEN Named1("$date", Named1("$numberLong", Quoted(Decimal(v))))
                         ELSE Named1("$date", Decimal(v)))
    [] type = "timestamp" -> Named1("$timestamp", Named2("t", Decimal(v[1]), "i", Decimal(v[2])))
    [] type = "dbpointer" -> Named2("$ref", Quoted(v[1]), "$id", Quoted(HexText(v[2])))
    [] type = "undefined" -> Named1("$undefined", C("true"))
    [] type = "minkey" -> Named1("$minKey", C("1"))
    [] OTHER -> Named1("$maxKey", C("1"))
JsonOf(doc) == Object([i \in DOMAIN doc |-> Member(doc[i][2], ValueText(doc[i][1], doc[i][3]))])

-----------------------------------------------------------------------------
(* The texts: what is in them, where each document ends, and whether there  *)
(* is nothing else in them.                                                 *)

AnOid == [i \in 1 .. 12 |-> 16 * i + i - 1]
One(type, v) == <<<<type, C("a"), v>>>>
Elements(types, vs) == [i \in DOMAIN types |-> <<types[i], bson_uint32_to_string(i - 1), vs[i]>>]

Plain == {
  <<>>, One("int32", -128), One("int32", 127), One("int64", 128), One("int64", 32767), One("int32", 0),
  One("double", C("-1.5e+3")), One("double", C("2E1")), One("null", <<>>), One("bool", FALSE),
  One("utf8", <<>>), One("utf8", <<Quote, Backslash, 9, 195, 169>>),
  One("array", Elements(<<"int32", "array", "utf8">>, <<1, Elements(<<"bool">>, <<TRUE>>), C("b")>>)),
  One("document", One("document", <<>>)),
  One("array", Elements(<<"array", "document">>, <<<<>>, One("null", <<>>)>>)),
  One("array", Elements([i \in 1 .. 11 |-> "null"], [i \in 1 .. 11 |-> <<>>])) }

Special == {
  One("oid", AnOid), One("binary", <<128, <<0, 255, 16>>>>), One("binary", <<0, <<1, 2>>>>), One("binary", <<5, <<9>>>>),
  One("regex", <<C("b+"), C("im")>>), One("regex", <<C("b"), <<>>>>), One("date", 5), One("date", -7),
  One("date", 100), One("timestamp", <<1, 200>>), One("dbpointer", <<C("c"), AnOid>>),
  One("undefined", <<>>), One("minkey", <<>>), One("maxkey", <<>>), One("int64", -9), One("int64", 12),
  One("regex", <<C("b"), C("i")>>) \o <<<<"regex", C("b"), <<C("c"), <<>>>>>>>>,
  One("document", One("timestamp", <<3, 4>>) \o <<<<"date", C("c"), -1>>, <<"int32", C("d"), 1>>>>) }

TextOf(docs, between, after) ==
  LET texts == [i \in DOMAIN docs |-> JsonOf(docs[i]) \o (IF i = Len(docs) THEN after ELSE between)]
  IN  [text |-> FlattenSeq(texts), docs |-> docs, whole |-> TRUE,
       ends |-> [i \in DOMAIN docs |->
                   Len(FlattenSeq(SubSeq(texts, 1, i))) - Len(IF i = Len(docs) THEN after ELSE between)]]

\* A text that ends after n bytes.
CutAt(sample, n) ==
  LET left == Max({i \in DOMAIN sample.ends : sample.ends[i] <= n} \cup {0})
      rest == SubSeq(sample.text, (IF left = 0 THEN 0 ELSE sample.ends[left]) + 1, n)
  IN  [text |-> SubSeq(sample.text, 1, n), docs |-> SubSeq(sample.docs, 1, left),
       ends |-> SubSeq(sample.ends, 1, left), whole |-> \A i \in DOMAIN rest : isspace(rest[i])]

Wrong(text) == [text |-> text, docs |-> <<>>, ends |-> <<>>, whole |-> FALSE]

\* A document, and something that is not one.
Followed(text) == [text |-> C("{} ") \o text, docs |-> <<<<>>>>, ends |-> <<2>>, whole |-> FALSE]

\* An object where a special type wants a string or a number is taken for a document of
\* its own: the object of the type is not counted any more, so what ends it ends what
\* is around it, and the text that is left is not a document.
Taken(text, rest, doc) ==
  [text |-> C(text) \o C(rest), docs |-> <<doc>>, ends |-> <<Len(text)>>, whole |-> FALSE]

Misplaced == {
  Taken("{\"a\":{\"$oid\":{\"b\":1}}", "}", One("document", <<<<"int32", C("b"), 1>>>>)),
  Taken("{\"a\":{\"$numberLong\":{}}", ",\"b\":2}", One("document", <<>>)),
  Taken("{\"a\":{\"$timestamp\":{\"t\":{},\"i\":1}", "}}", One("document", <<>>) \o <<<<"int32", C("i"), 1>>>>),
  Wrong(C("{\"a\":[{\"$oid\":{}}]}")) }

\* The zero of "$numberLong" is right, and refused: what stands behind it is a quote
\* (bson-string.c:704).  Where it is written with an escape it is read.
Zero(text) == [text |-> text, docs |-> <<One("int64", 0)>>, ends |-> <<Len(text)>>, whole |-> TRUE]
Refused == {Zero(C(t)) : t \in {"{\"a\":{\"$numberLong\":\"0\"}}", "{\"a\":{\"$numberLong\":\"-0\"}}"}}
Zeros == Refused \cup {Zero(C("{\"a\":{\"$numberLong\":\"\\u0030\"}}"))}

\* A zero byte, behind space, in front of what is no space.
Hidden == {
  Wrong(<<0>>), Wrong(<<32, 0>> \o C("*")), Wrong(<<10, 32, 0>> \o C("{}")), Wrong(C(" *") \o <<0>>),
  Wrong(<<192, 160>>), Wrong(<<192, 160, 0>> \o C("{}")), Wrong(<<194, 160>>), Wrong(<<160>>),
  Followed(<<0>> \o C("{}")), Followed(<<32, 0>> \o C("*")), Followed(C("*") \o <<0>>) }

Long == <<One("utf8", C("b")) \o <<<<"array", C("c"), Elements(<<"int32", "bool">>, <<12, TRUE>>)>>,
          <<"timestamp", C("d"), <<1, 2>>>>>>, One("null", <<>>)>>

Samples ==
  {TextOf(<<d>>, <<>>, <<>>) : d \in Plain \cup Special}
  \cup {CutAt(TextOf(Long, <<10>>, <<32, 10>>), n) : n \in 0 .. Len(TextOf(Long, <<10>>, <<32, 10>>).text)}
  \cup { [text |-> C("[ 1 , {} ]"), docs |-> <<Elements(<<"int32", "document">>, <<1, <<>>>>)>>,
          ends |-> <<10>>, whole |-> TRUE],
         [text |-> C("{\"\\u0061\" : \"\\u00e9\\n\\/\\ud83d\\ude00\"}"),
          docs |-> <<One("utf8", <<195, 169, 10, 47, 240, 159, 152, 128>>)>>, ends |-> <<37>>, whole |-> TRUE] }
  \cup {Wrong(C(t)) : t \in {
         "5", "\"a\"", "]", "//", "{\"a\":1,}", "[1 2]", "{\"a\" 1}", "{1:2}", "{\"a\":01}", "{\"a\":-}",
         "{\"a\":nul}", "{\"a\":1.}", "{\"a\":1e}", "{\"a\":\"\\q\"}", "{\"a\":\"\\u12g4\"}", "{\"a\":40000}",
         "{\"a\":1e999}", "{\"a\":1]", "[1}", "{\"a\":1 \"b\"}", "{,}", "{\"a\":}", "[,]", "{*", "{\"a\"*",
         "{\"a\":1 *", "[1 *", "{\"a\":[{\"b\":[1]}]}",
         "{\"a\":{\"b\":{\"c\":{}}}}" }}
  \cup {Wrong(C("{\"a\":") \o C(t) \o C("}")) : t \in {
         "{\"$oid\":\"12\"}", "{\"$oid\":1}", "{\"$oid\":true}", "{\"$timestamp\":{\"t\":1}}", "{\"$timestamp\":{\"i\":1}}",
         "{\"$timestamp\":{\"t\":1,\"x\":2}}", "{\"$timestamp\":{\"t\":\"1\"}}", "{\"$timestamp\":1}", "{\"$timestamp\":\"1\"}",
         "{\"$regex\":\"x\",\"y\":1}", "{\"$options\":\"x\"}", "{\"$binary\":\"AA==\"}", "{\"$type\":\"0\"}", "{\"$type\":\"x\"}",
         "{\"$ref\":\"b\"}", "{\"$id\":\"000102030405060708090a0b\"}", "{\"$id\":\"0\"}",
         "{\"$date\":\"x\"}", "{\"$date\":{\"x\":1}}", "{\"$numberLong\":\"1x\"}", "{\"$numberLong\":\"x\"}",
         "{\"$numberLong\":5}", "{\"$minKey\":\"a\"}", "{\"$undefined\":[1]}" }}
  \cup {Followed(C(t)) : t \in {"}", "5", "{\"a\":*}", "{"}}
  \cup Misplaced \cup Zeros \cup Hidden

\* Special types at the root end the program.
Roots == {Wrong(C(t)) : t \in {"{\"$undefined\":true}", "{\"$minKey\":1}"}}

AllArgs ==
  {<<s.text>> : s \in Samples \cup Roots}
  \cup {<<NoFile, TextOf(Long, <<10>>, <<32>>).text, C("[ 1 , {} ]")>>, <<<<10, 32>>, C("{}"), <<>>, C("{\"a\":nul}"), C("{}")>>}

Expected ==
  LET all == Samples \cup Roots \cup {TextOf(Long, <<10>>, <<32>>), TextOf(<<<<>>>>, <<>>, <<>>),
               [text |-> <<10, 32>>, docs |-> <<>>, ends |-> <<>>, whole |-> TRUE]}
  IN  [t \in {s.text : s \in all} |-> CHOOSE s \in all : s.text = t]

AllTools == {"json_to_bson", "from_json", "data"}
AllDates == [t \in {ADate} |-> 100]
Huge == {C("1e999")}

-----------------------------------------------------------------------------

Wanted == Expected[Text]

\* However the text is cut into pieces, each document that bson_json_reader_read
\* returns is the next that was written, with all its elements, and what stays in the
\* buffer is what follows it (bytes_parsed).
ReadsWhatIsWritten ==
  (HasAnswer /\ producer.ret = 1) =>
    /\ tool.docnum < Len(Wanted.docs) /\ bson.doc = Wanted.docs[tool.docnum + 1]
    /\ source.at - (Len(producer.buf) - producer.bytes_parsed) = Wanted.ends[tool.docnum + 1]

\* The text behind the documents that are in it.
Rest(sample) == SubSeq(sample.text, (IF sample.ends = <<>> THEN 0 ELSE Last(sample.ends)) + 1, Len(sample.text))

\* A space, or one that is written in two bytes.
SpaceAt(s, i) ==
  \/ isspace(s[i])
  \/ s[i] = 192 /\ i < Len(s) /\ s[i + 1] = 160
  \/ s[i] = 160 /\ i > 1 /\ s[i - 1] = 192

\* bson_json_reader_read returns 0 only when the text has nothing but space left, up to
\* its end or to a zero byte.  (What is behind that zero is neither read nor told of:
\* bson-json.c:299, though bson-json.c:1077 has 0 for "no data was read".)
EndIsTheEnd ==
  (HasAnswer /\ producer.ret = 0) =>
    \E sample \in {Wanted} : \E rest \in {Rest(sample)} :
      /\ tool.docnum = Len(sample.docs)
      /\ \E n \in 0 .. Len(rest) :
           /\ \A i \in 1 .. n : SpaceAt(rest, i)
           /\ n = Len(rest) \/ rest[n + 1] = 0

\* bson_json_reader_read fails only when it cannot read on: the text behind the last
\* document is wrong, or reading it failed, or it is one of those right texts that are
\* refused (see Refused); and then error is set, unless documents were too deep, or an
\* object ends where an array is open (see Taken).
ErrorIsAnError ==
  (HasAnswer /\ producer.ret = -1) =>
    \/ bson.error = "CB_FAILURE" /\ CanFail
    \/ \E sample \in {Wanted} :
         \/ ~sample.whole /\ tool.docnum = Len(sample.docs)
         \/ sample \in Refused

ErrorsAreTold ==
  (HasAnswer /\ producer.ret = -1) => bson.error # "none" \/ Len(bson.frames) = STACK_MAX \/ InArray(bson)

\* The end, an error of the text and one of the source are told apart, and told.
EndsAreToldApart == EndIsTheEnd /\ ErrorIsAnError /\ ErrorsAreTold

\* Every program comes to its end.
Ends == <>(tool.pc = "done")
=============================================================================
