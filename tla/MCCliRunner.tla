---------------------------- MODULE MCCliRunner -----------------------------
(* An instance of CliRunner for model checking, in four families: services *)
(* of every shape, with an empty line; few services, with every line; the  *)
(* kinds of fields, over two calls of Run; the shapes of methods, with     *)
(* every input and outcome.                                                *)
EXTENDS CliRunnerProperties

Word(text)        == [form |-> "word", name |-> "", value |-> text]
Flag(name)        == [form |-> "flag", name |-> name, value |-> ""]
InlineOf(name, v) == [form |-> "inline", name |-> name, value |-> v]
Dashes            == [form |-> "dashes", name |-> "", value |-> ""]

Paths(words, n) == UNION {[1..l -> words] : l \in 0..n}

Field_(kind, card)  == [kind |-> kind, card |-> card, enum |-> <<>>, checked |-> TRUE]
Enum(enum, checked) == [kind |-> "enum", card |-> "single", enum |-> enum, checked |-> checked]
Value(word, n)      == [word |-> word, number |-> n]

Method_(path, shape, fields, bind) ==
  [path |-> path, cli |-> TRUE, shape |-> shape, flags |-> fields, bind |-> bind, known |-> TRUE]
Service(path, bind, fields, methods) ==
  [path |-> path, bind |-> bind, flags |-> fields, methods |-> methods]
Program(lines, stdin, mapper) == [lines |-> lines, stdin |-> stdin, mapper |-> mapper]

-----------------------------------------------------------------------------
(* Every arrangement of three methods at short paths, below the root or a  *)
(* group, one of them hidden from the CLI or none.                         *)
ManyServices ==
  {Service(g, FALSE, NoFields,
     [n \in 1..3 |-> [Method_(p[n], "unary", NoFields, "missing") EXCEPT !.cli = n # hidden]]) :
      g \in {<<>>, <<"a">>}, hidden \in {0, 2},
      p \in [1..3 -> Paths({"a", "schema"}, 2) \union {<<"b">>, <<"b", "a">>, <<"a", "b">>, <<"a-b">>}]}

(* A group with flags and commands of two depths, one on the standard      *)
(* input; the same without flags; and commands next to a hidden one.       *)
Text_(name)     == [n \in {name} |-> Field_("string", "single")]
Unknown(method) == [method EXCEPT !.known = FALSE]
FewServices ==
  {Service(<<"a">>, bind, IF bind THEN Text_("g") ELSE NoFields,
     <<Method_(<<"b">>, "unary", Text_("l"), IF bind THEN "message" ELSE "missing"),
       Unknown(Method_(<<"a", "a">>, "unary", Text_("l"), "missing")),
       Unknown(Method_(<<"a", "b">>, "client_stream", NoFields, "missing"))>>) : bind \in BOOLEAN}
  \union
  {Service(<<>>, FALSE, NoFields,
     <<Method_(<<"a">>, "unary", Text_("l"), "missing"),
       Method_(<<"b">>, "bidi", NoFields, "missing"),
       [Method_(<<"b", "a">>, "unary", NoFields, "missing") EXCEPT !.cli = FALSE]>>)}

Tokens ==
  {Word("a"), Word("b"), Word("schema"), Dashes, Flag("help"),
   Flag("json"), InlineOf("json", "req"), InlineOf("output", "json"), Flag("output"),
   Flag("g"), InlineOf("g", "v1"), InlineOf("g", "v2"), Flag("l"), InlineOf("l", "v1"), InlineOf("l", "v2")}

LongLines ==
  {<<Word("a")>> \o l :
     l \in [1..4 -> Tokens \ {Word("schema"), Flag("help"), Dashes, Flag("output"), Flag("g"), InlineOf("l", "v2")}]}

-----------------------------------------------------------------------------
(* A group with a flag of one kind and a leaf with one of another, and     *)
(* requests that do not have the group's field, or have another there.     *)
Colours == <<Value("none", 0), Value("red", 1), Value("blue", 2)>>
Clashes == <<Value("red", 0), Value("red", 1), Value("red", 2), Value("blue", 3)>>

LeafFields ==
  {Field_(kind, card) : kind \in {"bool", "sint32", "fixed64", "string", "bytes"}, card \in {"single", "list"}}
  \union {Field_("message", card) : card \in {"single", "list", "map"}}
  \union {Field_(kind, "single") : kind \in {"int64", "fixed32", "float", "double"}}
  \union {Enum(Colours, TRUE), Enum(Clashes, TRUE), Enum(Clashes, FALSE),
          [Enum(Colours, TRUE) EXCEPT !.card = "list"]}
GroupFields == {Field_("message", "single"), Field_("bool", "single"), [Enum(Colours, TRUE) EXCEPT !.card = "list"]}

OtherGroupFields == {Field_("bool", "single"), [Enum(Colours, TRUE) EXCEPT !.card = "list"]}

KindService(g, l, methods) ==
  Service(<<"a">>, TRUE, [n \in {"g"} |-> g],
          <<Method_(<<"b">>, "unary", [n \in {"l"} |-> l], "message")>> \o methods)

KindServices ==
  {KindService(Field_("message", "single"), l, <<>>) : l \in LeafFields}
  \union {KindService(g, Field_("string", "list"), <<>>) : g \in OtherGroupFields}
  \union {KindService(Field_("message", "single"), Field_("bool", "single"),
             <<Unknown(Method_(<<"c">>, shape, NoFields, bind))>>) :
            shape \in {"unary", "client_stream"}, bind \in {"missing", "other"}}
  \union {KindService(Field_("string", "single"), Field_("string", "single"),
             <<Method_(<<"c">>, "unary", NoFields, "other")>>)}
  \union {Service(<<"a">>, TRUE, [n \in {"l"} |-> Field_("string", card)],
             <<Method_(<<"b">>, "unary", [n \in {"l"} |-> Field_("string", "list")], "message")>>) :
            card \in {"single", "list"}}
  \union {Service(<<"a">>, TRUE, Text_("g"), <<Method_(<<>>, "unary", Text_("g"), "message")>>)}

(* Texts that a flag of this kind takes, and one that it does not.         *)
TextsFor(f) ==
  CASE f.kind = "enum"                     -> {"RED", "blue", "none"}
    [] f.kind = "bool"                     -> {"true", "1", "x"}
    [] f.kind = "message" /\ f.card # "list" -> {"{}", "", "x"}
    [] f.card = "list" /\ f.kind \in {"message", "bytes"} -> {"[]", "", "x"}
    [] f.kind = "bytes"                    -> {"AA==", "", "x"}
    [] f.kind = "string"                   -> {"v1", "", "x"}
    [] OTHER                               -> {"1", "-1", "1.5", "2147483648"}

Given(name, f) ==
  {<<>>, <<Flag(name)>>}
  \union {<<InlineOf(name, v)>> : v \in TextsFor(f)}
  \union {<<InlineOf(name, v), InlineOf(name, w)>> : v, w \in TextsFor(f)}

Once(name, f) == {<<>>} \union {<<InlineOf(name, v)>> : v \in TextsFor(f)}

KindLines(group, methods, leaf) ==
  {<<Word("a")>> \o g \o [n \in DOMAIN methods[1].path |-> Word("b")] \o l : g \in group, l \in leaf}
  \union {<<Word("a")>> \o g \o <<Word("c")>> : g \in IF Len(methods) > 1 THEN group ELSE {}}

KindPrograms(s) ==
  LET g == CHOOSE n \in DOMAIN s.flags : TRUE
      l == CHOOSE n \in DOMAIN s.methods[1].flags : TRUE
  IN  {Program(<<first, second>>, <<>>, None) :
         first  \in KindLines(Once(g, s.flags[g]), s.methods, {<<>>}),
         second \in KindLines(Once(g, s.flags[g]), s.methods, Given(l, s.methods[1].flags[l]))}

-----------------------------------------------------------------------------
(* A command of every shape; lines that end well or badly.                 *)
ShapeServices ==
  {Service(<<>>, FALSE, NoFields, <<Method_(<<"a">>, shape, NoFields, "missing")>>) :
     shape \in {"unary", "server_stream", "client_stream", "bidi"}}

ShapeLines ==
  {<<Word("a")>>, <<InlineOf("output", "text"), Word("a")>>, <<InlineOf("output", "json"), Word("a")>>,
   <<Word("a"), InlineOf("output", "json"), Flag("json"), Word("req")>>,
   <<Word("a"), InlineOf("output", "json"), InlineOf("json", "x")>>,
   <<InlineOf("output", "json"), Word("b")>>, <<InlineOf("output", "json"), InlineOf("output", "json")>>}

ShapePrograms ==
  {Program(<<l>>, stdin, mapper) :
     l \in ShapeLines, stdin \in Paths({"message", "invalid", "broken"}, 2),
     mapper \in {None, Status("conflict"), [code |-> "unavailable", retryable |-> TRUE]}}
  \union
  {Program(<<<<Word("a")>>, <<Word("a")>>>>, stdin, None) :
     stdin \in Paths({"message", "invalid"}, 2)}

-----------------------------------------------------------------------------
NoServices ==
  {Service(<<"a">>, FALSE, NoFields, <<[Method_(<<"b">>, "unary", NoFields, "missing") EXCEPT !.cli = FALSE]>>)}

MCServices == ManyServices \union FewServices \union KindServices \union ShapeServices \union NoServices
MCPrograms(s) ==
  CASE s \in FewServices   -> {Program(<<l>>, <<>>, None) :
                                 l \in Paths(Tokens, 3) \union IF s.path = <<>> \/ s.bind THEN LongLines ELSE {}}
    [] s \in KindServices  -> KindPrograms(s)
    [] s \in ShapeServices -> ShapePrograms
    [] OTHER               -> {Program(<<<<>>>>, <<>>, None)}

MCRequests == {"req"}
MCErrors   == {Plain, Status("quota"), [code |-> "internal", retryable |-> TRUE]}

(* strconv, encoding/base64 and protojson, for the texts above.            *)
MCAccepts(type, text) ==
  CASE type = "string"               -> TRUE
    [] type = "bool"                 -> text \in {"true", "1"}
    [] type = "int32"                -> text \in {"1", "-1"}
    [] type = "int64"                -> text \in {"1", "-1", "2147483648"}
    [] type \in {"uint32", "uint64"} -> text \in {"1", "2147483648"}
    [] OTHER                         -> text \in {"1", "-1", "1.5", "2147483648"}
MCDecodes(f, text) ==
  text = CASE f.card = "list" -> "[]" [] f.kind = "bytes" -> "AA==" [] OTHER -> "{}"

MCLower(text)    == IF text = "RED" THEN "red" ELSE text
MCParts(segment) == IF segment = "a-b" THEN <<"a", "b">> ELSE <<segment>>
=============================================================================
