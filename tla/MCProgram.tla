------------------------------ MODULE MCProgram ------------------------------
(* An instance of ProgramMessages: lines for each of its parts.              *)
EXTENDS ProgramMessages, TLC

Field(name, kind, label, oneof, of) ==
  [name |-> name, kind |-> kind, label |-> label, oneof |-> oneof, of |-> of]

RequestTypes ==
  [Inner   |-> << Field("x", "int", "one", "", 4), Field("r", "bytes", "repeated", "", 0),
                  Field("d", "message", "one", "", "Inner") >>,
   Outer   |-> << Field("r", "bytes", "repeated", "", 0),
                  Field("p", "enum", "one", "o", <<"A", "B">>),
                  Field("q", "message", "one", "o", "Inner"),
                  Field("s", "message", "one", "", "Inner"),
                  Field("m", "message", "repeated", "", "Inner") >>,
   Numbers |-> << Field("n", "int", "one", "", 4), Field("l", "int", "one", "", 8),
                  Field("u", "uint", "one", "", 4), Field("v", "uint", "one", "", 8),
                  Field("w", "int", "repeated", "", 4) >>]

ReadableFiles == [f \in {"file"} |-> <<7>>]

Give(name, value) == [name |-> name, value |-> value]
Number(sign, hex, digits) == [sign |-> sign, hex |-> hex, digits |-> digits]
Hex(digits) == [hex |-> TRUE, digits |-> digits]
File(name)  == [hex |-> FALSE, file |-> name]

UpTo(S, n) == UNION {[1 .. m -> S] : m \in 0 .. n}
NonEmpty(S, n) == UpTo(S, n) \ {<<>>}

\* Trees of a message of type Inner, good and bad ones.
InnerTrees ==
  { <<>>,
    << Give("x", Number("", TRUE, <<1, 13>>)) >>,
    << Give("x", Number("-", TRUE, <<5>>)), Give("x", Number("", FALSE, <<10>>)) >>,
    << Give("r", << Hex(<<1, 2>>), Hex(<<1>>) >>) >>,
    << Give("r", << Hex(<<1>>), Hex(<<1, 2>>) >>) >>,
    << Give("d", << Give("d", NoValue) >>) >>,
    << Give("d", << Give("x", Number("+", TRUE, <<2>>)) >>) >> }

OuterFields(inner) ==
       {Give("r", v) : v \in NonEmpty({Hex(<<10, 11>>), Hex(<<10>>), File("file"), File("none")}, 2)}
  \cup {Give("p", v) : v \in {"A", "B"}}
  \cup {Give(name, v) : name \in {"q", "s"}, v \in inner}
  \cup {Give("m", v) : v \in NonEmpty(inner, 2)}

FewFields ==
  {Give("r", << Hex(<<1, 2>>) >>), Give("r", << Hex(<<1>>), Hex(<<3, 4>>) >>), Give("p", "A"), Give("q", <<>>),
   Give("s", << Give("x", Number("", FALSE, <<3>>)) >>), Give("s", <<>>),
   Give("m", << <<>>, << Give("r", << Hex(<<1>>) >>) >> >>)}

Plain == [options |-> {}, ssl |-> "off", connectTimeout |-> TRUE, rpcTimeout |-> TRUE]

Line(type, messages) ==
  [type |-> type, clientStreaming |-> FALSE, messages |-> messages, asks |-> Plain,
   printParsed |-> FALSE, whole |-> 9, unknown |-> FALSE, json |-> FALSE, custom |-> NoFormat, simple |-> TRUE,
   replyType |-> "Leaf", replies |-> <<>>, ok |-> TRUE]

Streamed(messages) == [Line("Outer", messages) EXCEPT !.clientStreaming = TRUE]

\* One message of up to two fields, and up to three messages of one field.
Structures ==
       {Line("Outer", <<m>>) : m \in UpTo(OuterFields(InnerTrees), 2)}
  \cup {Line("Outer", <<m>>) : m \in [1 .. 3 -> FewFields]}
  \cup {Streamed(m) : m \in UpTo({<<f>> : f \in FewFields}, 3)}
  \cup {Line("Outer", m) : m \in UpTo({<<f>> : f \in FewFields}, 2)}

\* Every number of up to three digits.
Digits == {0, 1, 7, 8, 15}
AllNumbers ==
  {Line("Numbers", << << Give(name, t) >> >>) :
     name \in {"n", "l"},
     t \in {Number(s, h, d) : s \in {"", "-"}, h \in BOOLEAN, d \in NonEmpty(Digits, 3)}}
  \cup
  {Line("Numbers", << << Give(name, t) >> >>) :
     name \in {"u", "v"},
     t \in {Number("", h, d) : h \in BOOLEAN, d \in NonEmpty(Digits, 3)}}
  \cup
  {Line("Numbers", << << Give("w", t) >> >>) :
     t \in NonEmpty({Number(s, FALSE, d) : s \in {"", "-"}, d \in NonEmpty({1, 8}, 2)}, 2)}

----------------------------------------------------------------------------
(* Replies.                                                                *)

MapEntryType(key, value) == << key, value >>
Key(kind)   == Field("key", kind, "one", "", 8)
IntValue    == Field("value", "int", "one", "", 8)
StringValue == Field("value", "string", "one", "", 0)

ReplyTypes ==
  [Empty   |-> <<>>,
   Leaf    |-> << Field("x", "int", "one", "", 8) >>,
   Scalars |-> << Field("i", "int", "one", "", 8), Field("u", "uint", "one", "", 8),
                  Field("f", "float", "one", "", 0), Field("b", "bool", "one", "", 0) >>,
   Pair    |-> << Field("a", "string", "one", "", 0), Field("b", "string", "one", "", 0) >>,
   Shapes  |-> << Field("e", "enum", "one", "o", <<"A", "B">>), Field("t", "string", "one", "o", 0),
                  Field("m", "message", "one", "o", "Leaf"), Field("s", "message", "one", "", "Leaf"),
                  Field("r", "message", "repeated", "", "Leaf"), Field("y", "message", "repeated", "", "Empty") >>,
   Dump    |-> << Field("d", "bytes", "one", "", 0), Field("l", "bytes", "repeated", "", 0) >>,
   Maps    |-> << Field("i", "message", "map", "", "IntMap"), Field("u", "message", "map", "", "UIntMap") >>,
   Sorted  |-> << Field("t", "message", "map", "", "StringMap"), Field("b", "message", "map", "", "BoolMap") >>,
   Others  |-> << Field("m", "message", "map", "", "LeafMap"), Field("f", "message", "map", "", "FixedMap") >>,
   Nested  |-> << Field("n", "message", "one", "", "Flags"), Field("x", "int", "one", "", 8) >>,
   Flags   |-> << Field("b", "message", "map", "", "BoolMap") >>,
   IntMap    |-> << Key("int"), StringValue >>,    UIntMap  |-> << Key("uint"), IntValue >>,
   StringMap |-> << Key("string"), StringValue >>, BoolMap  |-> << Key("bool"), IntValue >>,
   FixedMap  |-> << Key("fixed"), IntValue >>,
   LeafMap   |-> << Key("int"), Field("value", "message", "one", "", "Leaf") >>]

Types == RequestTypes @@ ReplyTypes

\* Entries of a map come in any order.
Maps(keys, values) ==
  {m \in UpTo({[key |-> k, value |-> v] : k \in keys, v \in values}, 2) :
     Len(m) = 2 => m[1].key # m[2].key}

Leaf(x) == [x |-> x]

\* Strings: one character, and the end of field a of a Pair with the beginning of b.
Char(c)  == << <<"char", c>> >>
Imitates == <<Quote, NewLine, <<"line", 1, "b">>, Quote>>

Replies ==
  [Empty   |-> {<<>>},
   Leaf    |-> {Leaf(0), Leaf(1)},
   Scalars |-> [i : {-1, 0, 127}, u : {0, 1, 255}, f : {0, 4, 10}, b : BOOLEAN],
   Pair    |-> [a : {<<>>, Char("A"), Imitates}, b : {<<>>, Char("A"), Imitates}],
   Shapes  |-> {[e |-> o.e, t |-> o.t, m |-> o.m, s |-> s, r |-> r, y |-> y] :
                  o \in {[e |-> Unset, t |-> Unset, m |-> Unset]}
                        \cup {[e |-> v, t |-> Unset, m |-> Unset] : v \in {"A", "B"}}
                        \cup {[e |-> Unset, t |-> v, m |-> Unset] : v \in {<<>>, Char("A")}}
                        \cup {[e |-> Unset, t |-> Unset, m |-> Leaf(0)]},
                  s \in {Unset, Leaf(0)}, r \in UpTo({Leaf(0), Leaf(1)}, 2),
                  y \in {<<>>, << <<>> >>}},
   Dump    |-> [d : UpTo({0, 65}, 2) \cup {[i \in 1 .. 9 |-> 0]},
                l : {<<>>, << <<>> >>, << <<65, 0>>, <<65>> >>, << <<65>>, <<0, 65>> >>}],
   Maps    |-> [i : Maps({-1, 1}, {<<>>, Char("A")}), u : Maps({0, 1}, {0, 1})],
   Sorted  |-> [t : Maps({Char("a"), Char("b")}, {<<>>, Char("A")}), b : Maps(BOOLEAN, {0})],
   Nested  |-> [n : {Unset} \cup [b : Maps(BOOLEAN, {0})], x : {0, 1}],
   Others  |-> [m : Maps({-1, 1}, {Unset, Leaf(0)}), f : Maps({1}, {0})]]

Places == [t \in {Char("a"), Char("b")} |-> IF t = Char("a") THEN 1 ELSE 2]

Answered(type, m, simple) ==
  [Line("Outer", << <<>> >>) EXCEPT !.replyType = type, !.replies = <<m>>, !.simple = simple]

HumanLines == UNION {{Answered(type, m, simple) : m \in Replies[type], simple \in BOOLEAN} :
                     type \in DOMAIN Replies}

\* Custom formats with good, missing, repeated and unusual targets.
Targets == {<<>>, <<"">>, <<"r">>, <<"s">>, <<"e">>, <<"l">>, <<"none">>, <<"r", "x">>}
Outputs == {<<[text |-> "a"], [field |-> "x", mod |-> mod]>> : mod \in {"default", "hex", "dec", "raw"}}
             \cup {<<[field |-> "t", mod |-> "raw"], [field |-> "e", mod |-> "default"]>>,
                   <<[field |-> "r", mod |-> "default"]>>}

CustomLines ==
  {[Answered("Shapes", m, TRUE) EXCEPT !.custom = [target |-> t, output |-> o]] :
     m \in {m \in Replies.Shapes : m.y = <<>> /\ m.e # "B" /\ m.t # <<>> /\ m.m = Unset}, t \in Targets, o \in Outputs}
  \cup {[Answered("Dump", m, TRUE) EXCEPT !.custom = [target |-> t, output |-> o]] :
     m \in {m \in Replies.Dump : m.l = <<>>}, t \in Targets,
     o \in {<<[field |-> "d", mod |-> mod]>> : mod \in {"raw", "default"}}}
  \cup {[Answered("Nested", m, TRUE) EXCEPT !.custom =
            [target |-> t, output |-> <<[field |-> "value", mod |-> "default"]>>]] :
     m \in {m \in Replies.Nested : m.n # Unset /\ m.n.b # <<>>}, t \in {<<"n">>, <<"n", "b">>}}

\* Everything the options ask for, with calls of every kind and outcome.
CallLines ==
  {[Line("Outer", << <<Give("p", "A")>> >>) EXCEPT !.asks = a] : a \in Asked}
  \cup
  {[l EXCEPT !.printParsed = p, !.whole = w, !.unknown = u, !.json = j, !.ok = ok, !.replies = r] :
     u \in BOOLEAN,
     l \in {Line("Outer", << <<Give("p", "A")>> >>), Streamed(<< <<Give("p", "A")>>, <<Give("p", "B")>> >>)},
     p \in BOOLEAN, w \in 0 .. 2, j \in BOOLEAN, ok \in BOOLEAN, r \in UpTo({Leaf(0), Leaf(1)}, 2)}

AllLines == [structures |-> Structures, numbers |-> AllNumbers, humans |-> HumanLines,
             custom |-> CustomLines, calls |-> CallLines]

OnlyCalls == [calls |-> CallLines]
=============================================================================
