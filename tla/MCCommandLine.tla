--------------------------- MODULE MCCommandLine ---------------------------
(* Instances of CommandLine: the grammar of gWhisper, part by part.        *)
EXTENDS CommandLine, GrammarConstruction

Characters == {"-", "h", "c", "o", "=", "b", " ", "t", "N", "1", "%", "d", ":", "u", "a", "i", "6",
               "@", ".", "e", "/", "S", "n", "4", "[", "]", "M", "r", "m", "0", "x", "f", ",", "s"}

Field(name, kind)     == [name |-> name, kind |-> kind, repeated |-> FALSE, values |-> <<>>, type |-> ""]
Many(f)               == [f EXCEPT !.repeated = TRUE]
Enum(name, values)    == [Field(name, "enum") EXCEPT !.values = values]
Message(name, type)   == [Field(name, "message") EXCEPT !.type = type]

Types == [
  Texts   |-> <<Field(<<"a">>, "string"), Field(<<"a", "b">>, "bool")>>,
  Enums   |-> <<Enum(<<"a">>, <<<<"b">>, <<"b", "b">>, <<"b", "a", "b">>>>)>>,
  Bytes   |-> <<Field(<<"m">>, "bytes"), Message(<<"a">>, "Number")>>,
  Number  |-> <<Field(<<"a">>, "number")>>,
  Empty   |-> <<>>,
  Numbers |-> <<Many(Field(<<"a">>, "number"))>>,
  Float   |-> <<Field(<<"a">>, "float")>>,
  Strings |-> <<Many(Field(<<"a">>, "string"))>>,
  Bool    |-> <<Field(<<"a">>, "bool")>>,
  Nested  |-> <<Message(<<"m">>, "Nested")>>]

Method(name, streaming, type) == [name |-> name, streaming |-> streaming, type |-> type]

Services == <<
  [name |-> <<"S">>, methods |-> <<Method(<<"M">>, FALSE, "Number"), Method(<<"M", "a">>, TRUE, "Number")>>],
  [name |-> <<"S", "a">>, methods |-> <<Method(<<"M">>, FALSE, "Number")>>]>>

OptionsOnly == Cat(<<Options(OptionGrammar), Word({"h"}), Ws>>)
UriOnly     == Cat(<<ServerUri, Ws>>)
\* A server answers at every address: without one the process ends in the cache
\* or in the reflection session (DescCache, Reflection) and completes nothing.
Addresses   == {[i \in 1 .. n |-> "h"] : n \in 1 .. 10}
\* Addresses whose host begins the optional prefix "dns:" of an address: the parser
\* waits for the rest of the prefix (Optional.hpp:93) or takes the host for it.
HostsLikePrefix ==
  {<<"d", "n">>} \cup
  {<<"d", "n", "s">> \o p : p \in {<<>>, <<":", "1">>, <<":", "1", " ">>, <<":", "1", " ", " ">>}}

Main        == constructGrammar(Fix(<<"-", "h">>), Word({"h"}), Services, Addresses, Types, 1)
Request(t)  == getMessageGrammar(Types, t, <<>>, 1)
Stream(t)   == MethodArgs(Types, Method(<<"M">>, TRUE, t), 1)

Line(g, alphabet, max) == [g |-> g, alphabet |-> alphabet, max |-> max, but |-> {}]

\* What is typed of options, of an address and of messages of some types.
OptionLines == LET typed == << <<{"-", "h", "c", "o", "=", "b", " ", "t", "N", "1"}, 6>>,
                               <<{"-", "h", "c", "=", " ", "%"}, 7>> >>
               IN  [i \in DOMAIN typed |-> Line(OptionsOnly, typed[i][1], typed[i][2])]

UriLines == LET typed == << <<{"d", "n", "s", ":", " "}, 7>>,
                            <<{"d", "n", "s", ":", "1", " "}, 6>>,
                            <<{"u", "a", ":", " "}, 6>>,
                            <<{"i", "4", ":", "1", " "}, 6>>,
                            <<{"i", "6", ":", "1", "]", " "}, 6>> >>
            IN  [i \in DOMAIN typed |->
                   [Line(UriOnly, typed[i][1], typed[i][2]) EXCEPT !.but = HostsLikePrefix]]

RequestLines == LET typed == << <<"Texts",   {"a", "b", "=", "t", "r", " ", "%"}, 7>>,
                                <<"Bytes",   {"a", "m", "=", ":", " ", "0", "x", "1", "f"}, 8>>,
                                <<"Float",   {"a", "=", "1", ",", " "}, 6>>,
                                <<"Numbers", {"a", "=", ":", " ", ",", "1"}, 11>>,
                                <<"Strings", {"a", "=", ":", " ", ",", "%"}, 8>>,
                                <<"Nested",  {"m", "=", ":", " ", "M", "a", "x"}, 13>> >>
                IN  [i \in DOMAIN typed |-> Line(Request(typed[i][1]), typed[i][2], typed[i][3])]

StreamLines == LET typed == << <<"Bool", {"a", "=", ":", " ", "t", "r"}, 12>>, <<"Empty", {":", " "}, 9>> >>
               IN  [i \in DOMAIN typed |-> Line(Stream(typed[i][1]), typed[i][2], typed[i][3])]

Lines == OptionLines \o UriLines \o RequestLines \o StreamLines \o <<
  Line(CustomOutputFormat, {"@", ".", ":", "d", "e", "%", "/"}, 7),
  Line(Main, {"h", "S", "a", "M", " ", "=", "-"}, 9),
  Line(FieldGrammar(Types.Enums[1], InnerGrammars(Types, 1)), {"a", "b", "=", " "}, 7)>>

\* The elements of grammars that are no higher than this.
MaxHeight == 14

ChildrenOf(g) ==
  CASE g.kind \in {"opt", "rep"} -> {g.child}
    [] g.kind \in {"alt", "cat"} -> ToSet(g.children)
    [] g.kind = "inj" -> ToSet(g.by)
    [] OTHER -> {}

LevelsOf(lines) ==
  LET below[k \in 0 .. MaxHeight] ==
        IF k = 0 THEN {l.g : l \in ToSet(lines)} ELSE UNION {ChildrenOf(g) : g \in below[k - 1]}
      all == UNION {below[k] : k \in 0 .. MaxHeight}
      level[n \in 0 .. MaxHeight] ==
        IF n = 0 THEN {} ELSE LET lower == level[n - 1] IN {g \in all : ChildrenOf(g) \subseteq lower}
  IN  [n \in 1 .. MaxHeight |-> level[n]]

\* TLC computes these once; what a constant is substituted by, at every use.
LineLevels == LevelsOf(Lines)

AllLines  == Lines
AllLevels == LineLevels

\* A list of fields with an enumeration in which one value begins another one.
Lists == <<Line(Request("Enums"), {"a", "b", "=", " "}, 7)>>

ListLevels == LevelsOf(Lists)
=============================================================================
