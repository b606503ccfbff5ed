------------------------ MODULE GrammarConstruction ------------------------
(***************************************************************************)
(* The grammar of a gWhisper command line: options, server address, and    *)
(* what the descriptors of the server say about services, methods and the  *)
(* fields of their messages.                                               *)
(*                                                                         *)
(* Words are shortened to the letters that tell them apart, character      *)
(* classes to a few characters, and one flag and one option with a file    *)
(* name stand for all of their kind.                                       *)
(***************************************************************************)
EXTENDS ArgParse

Digits == {"1"}
Letter == {"d", "h"}

Word(class)    == Rex(class, 1)
Choice(words)  == Alt([i \in DOMAIN words |-> Fix(words[i])])

\* GrammarFactory::createList.
createList(element, separator, emptyListAllowed, prefix, postfix) ==
  LET body == <<element, Rep(Cat(<<separator, element>>))>>
  IN  Cat(prefix \o (IF emptyListAllowed THEN <<Opt(Cat(body))>> ELSE body) \o postfix)

----------------------------------------------------------------------------
(* Message arguments.  types gives the fields of each message type: their  *)
(* name, kind, whether they are repeated, the values of an enumeration and *)
(* the type of a message.  inner gives the grammars of messages in fields. *)

addFieldValueGrammar(f, inner) ==
  CASE f.kind = "number"  -> Word(Digits)
    [] f.kind = "float"   -> Word(Digits \cup {","})  \* "+-\\." is a range that holds the comma
    [] f.kind = "bool"    -> Choice(<<<<"t", "r">>, <<"f">>, <<"1">>, <<"0">>>>)
    [] f.kind = "enum"    -> Choice(f.values)
    [] f.kind = "string"  -> Esc({":", ",", " "}, "%")
    [] f.kind = "bytes"   -> Alt(<<Cat(<<Fix(<<"0", "x">>), Rex(Digits, 0)>>),
                                   Cat(<<Fix(<<"f", ":">>), Rex(Letter, 0)>>)>>)
    [] f.kind = "message" -> inner[f.type]

FieldGrammar(f, inner) ==
  LET value    == addFieldValueGrammar(f, inner)
      repeated == Cat(<<Fix(<<":">>), Cat(<<value>>),
                        Rep(Cat(<<Fix(<<",">>), Ws, Cat(<<value>>)>>)), Fix(<<":">>)>>)
  IN  Cat(<<Fix(f.name), Fix(<<"=">>), IF f.repeated THEN repeated ELSE value>>)

FieldsGrammar(fields, inner, wrap) ==
  createList(Alt([i \in DOMAIN fields |-> FieldGrammar(fields[i], inner)]), Ws, FALSE, wrap, wrap)

\* Messages in messages, up to some depth.
InnerGrammars(types, depth) ==
  LET inner[d \in 0 .. depth] ==
        [type \in DOMAIN types |-> IF d = 0 THEN Fix(<<"M", "a", "x">>)
                                   ELSE FieldsGrammar(types[type], inner[d - 1], <<Fix(<<":">>)>>)]
  IN  inner[depth]

getMessageGrammar(types, type, wrap, depth) ==
  FieldsGrammar(types[type], InnerGrammars(types, depth), wrap)

----------------------------------------------------------------------------
(* Injected grammars.  services is what the server at each of the addresses*)
(* uris offers: a sequence of records [name, methods], whose methods are   *)
(* records [name, streaming, type].                                        *)

Names(records) == [i \in DOMAIN records |-> records[i].name]

ServicesGrammar(services, uris) ==
  Inj(<<"ServerUri">>, [u \in {<<u>> : u \in uris} |-> Choice(Names(services))])

MethodsGrammar(services) ==
  Inj(<<"Service">>,
      [k \in {<<n>> : n \in ToSet(Names(services))} |->
         LET s == CHOOSE s \in ToSet(services) : s.name = k[1] IN Choice(Names(s.methods))])

MethodArgs(types, m, depth) ==
  IF m.streaming
  THEN createList(getMessageGrammar(types, m.type, <<Fix(<<":">>)>>, depth), Ws, FALSE, <<>>, <<>>)
  ELSE getMessageGrammar(types, m.type, <<>>, depth)

MethodArgsGrammar(services, types, depth) ==
  Inj(<<"Service", "Method">>,
      [k \in UNION {{<<s.name, m.name>> : m \in ToSet(s.methods)} : s \in ToSet(services)} |->
         LET s == CHOOSE s \in ToSet(services) : s.name = k[1]
             m == CHOOSE m \in ToSet(s.methods) : m.name = k[2]
         IN  MethodArgs(types, m, depth)])

----------------------------------------------------------------------------
(* constructGrammar.                                                       *)

Modifier == Opt(Cat(<<Fix(<<"%">>), Choice(<<<<"d", "e", "f">>, <<"r">>, <<"d", "e", "c">>, <<"h">>>>)>>))

CustomOutputFormat ==
  Cat(<<Fix(<<"@">>), Rep(Cat(<<Fix(<<".">>), Rex(Letter \cup {"."}, 0)>>)), Fix(<<":">>),
        Rep(Alt(<<Word(Letter \cup {"%"}),
                  Cat(<<Fix(<<"/">>), Word(Letter \cup {":"}), Modifier, Fix(<<"/">>)>>)>>)),
        Fix(<<":">>)>>)

OptionGrammar ==
  Alt(<<Fix(<<"-", "h">>),
        Cat(<<Fix(<<"-", "c", "=">>), Esc({" "}, "%")>>),
        Cat(<<Fix(<<"-", "c", "o">>), Opt(Cat(<<Fix(<<"=">>), Choice(<<<<"b">>, <<"f">>>>)>>))>>),
        Cat(<<Fix(<<"-", "t">>), Fix(<<"=">>), Alt(<<Word(Digits), Opt(Fix(<<"N">>))>>)>>),
        Cat(<<Fix(<<"-", "o">>), Ws, CustomOutputFormat>>)>>)

\* The names of schemes, too, are names of hosts.
ServerUri ==
  LET host == Letter \cup Digits \cup {"n", "s", "u", "a", "i", "4", "6", "."}
      path == Word(host \cup {":", "[", "]"})
      unix == Alt(<<Cat(<<Fix(<<"u", ":">>), path>>), Cat(<<Fix(<<"u", "a", ":">>), path>>)>>)
      dns  == Cat(<<Opt(Fix(<<"d", "n", "s", ":">>)), Rex(host, 2)>>)
      ipv4 == Cat(<<Fix(<<"i", "4", ":">>), Rex(Digits \cup {"."}, 2)>>)
      ipv6 == Cat(<<Fix(<<"i", "6", ":">>), Word(Digits \cup {":", "[", "]"})>>)
      tcp  == Cat(<<Alt(<<dns, ipv4, ipv6>>), Opt(Cat(<<Fix(<<":">>), Word(Digits)>>))>>)
  IN  Alt(<<unix, tcp>>)

Options(option) == Rep(Cat(<<option, Ws>>))

constructGrammar(option, uri, services, uris, types, depth) ==
  Cat(<<Options(option), Named("ServerUri", uri), Ws,
        Named("Service", ServicesGrammar(services, uris)), Ws,
        Named("Method", MethodsGrammar(services)),
        Opt(Cat(<<Ws, MethodArgsGrammar(services, types, depth)>>))>>)
=============================================================================
