--------------------------- MODULE MessageFormatter ---------------------------
(***************************************************************************)
(* The text gWhisper prints for a message: the format optimized for humans *)
(* and the custom format of --customOutput.                                *)
(*                                                                         *)
(* A text is a sequence of tokens, tuples whose first member says what is  *)
(* printed; alignment and colors are left out.  Depth is the number of     *)
(* guides at the beginning of a line.  Fields of kind "fixed" are the      *)
(* unsigned ones of fixed width, which protobuf reads like "uint".         *)
(* The value of a string is a text, too: what it looks like when it is     *)
(* printed, which may be anything.                                         *)
(***************************************************************************)
EXTENDS ProtoMessages, FiniteSets

LOCAL INSTANCE SequencesExt

CONSTANTS
  LongWidth,    \* width of the keys of a map in the simple format, in bits
  StringPlace,  \* the places of strings in their order, of those that are keys
  NoFormat      \* no custom format

\* Different strings have different places.
ASSUME PlacesAssumption ==
  /\ \A s \in DOMAIN StringPlace : StringPlace[s] \in Int
  /\ \A s, t \in DOMAIN StringPlace : StringPlace[s] = StringPlace[t] => s = t

Modifiers == {"default", "raw", "dec", "hex", "decAndHex"}

NewLine == <<"newline">>
Quote == <<"quote">>

\* Hexadecimal digits stand for the bits of the number.
HexToken(v, bits) == <<"hex", v % 2 ^ bits, bits>>

\* Every line of a field begins with the guides and its name; elements of a
\* repeated field are numbered.
LineOf(depth, fd) == <<"line", depth, fd.name>>
ElementLine(depth, fd, i, n) == <<"element", depth, fd.name, i, n>>
MapTitle(depth, fd, n) == <<"map", depth, fd.name, n>>
EntryLine(depth) == <<"entry", depth>>

----------------------------------------------------------------------------
(* Scalars.                                                                *)

\* With "dec" nothing is printed.
StringFromInt(v, bits, mod) ==
  CASE mod = "hex"       -> << HexToken(v, bits) >>
    [] mod = "raw"       -> << <<"binary", v, bits>> >>
    [] mod = "dec"       -> << >>
    [] mod = "decAndHex" -> << <<"dec", v>>, HexToken(v, bits) >>
    [] mod = "default"   -> << <<"dec", v>> >>

StringFromUInt(v, bits, mod) ==
  CASE mod = "hex" -> << HexToken(v, bits) >>
    [] mod = "raw" -> << <<"binary", v, bits>> >>
    [] mod = "dec" -> << <<"dec", v>> >>
    [] mod \in {"decAndHex", "default"} -> << <<"dec", v>>, HexToken(v, bits) >>

\* The value between quotes, as it is: nothing in it is escaped.
StringFromString(v, mod) == IF mod = "raw" THEN v ELSE <<Quote>> \o v \o <<Quote>>

\* Mutant: bytes are printed up to the first zero.
StringFromBytes_Terminated(v, depth, mod) ==
  LET n == CHOOSE k \in 0 .. Len(v) : /\ \A i \in 1 .. k : v[i] # 0
                                      /\ k < Len(v) => v[k + 1] = 0
  IN  << <<"size", n>> >> \o [i \in 1 .. n |-> <<"byte", v[i]>>]

\* A hex dump: the size, and lines of eight bytes with their address if there
\* are more than eight.
StringFromBytes(v, depth, mod) ==
  IF mod = "raw" THEN [i \in DOMAIN v |-> <<"char", v[i]>>]
  ELSE << <<"size", Len(v)>> >> \o
       FlattenSeq([i \in DOMAIN v |->
         IF Len(v) > 8 /\ i % 8 = 1 THEN << <<"address", depth, i - 1>>, <<"byte", v[i]>> >>
         ELSE << <<"byte", v[i]>> >>])

\* std::to_string: values of type float are counted in tenths of its precision.
Rounded(v) == (v + 5) \div 10

StringFromFloat(v) == << <<"dec", Rounded(v)>> >>

ScalarToString(fd, v, depth, mod) ==
  CASE fd.kind = "int"               -> StringFromInt(v, fd.of, mod)
    [] fd.kind \in {"uint", "fixed"} -> StringFromUInt(v, fd.of, mod)
    [] fd.kind = "float"             -> StringFromFloat(v)
    [] fd.kind = "bool"              -> << <<"bool", v>> >>
    [] fd.kind = "string"            -> StringFromString(v, mod)
    [] fd.kind = "enum"              -> << <<"name", v>> >>
    [] fd.kind = "bytes"             -> StringFromBytes(v, depth + 1, mod)

----------------------------------------------------------------------------
(* Messages.  The texts of the messages in a message are given by sub.     *)

\* fieldValueToString: a field that is not repeated.  A usage error of the
\* reflection interface ends the process.
FieldValueToString(sub, msg, fd, depth, mod) ==
  IF IsRepeated(fd) THEN << Abort >>
  ELSE IF ~HasField(msg, fd) THEN << <<"not set">> >>
  ELSE IF fd.kind # "message" THEN ScalarToString(fd, msg[fd.name], depth, mod)
  ELSE LET text == sub[<<fd.of, msg[fd.name]>>]
       IN  << <<"type", fd.of>> >> \o (IF text = <<>> THEN <<>> ELSE << NewLine >> \o text)

RepeatedFieldValueToString(sub, fd, v, depth, mod) ==
  IF fd.kind # "message" THEN ScalarToString(fd, v, depth, mod)
  ELSE << <<"type", fd.of>>, NewLine >> \o sub[<<fd.of, v>>]

\* isMapEntryPrimitive
IsMapEntryPrimitive(type) ==
  /\ Len(MessageTypes[type]) = 2
  /\ MessageTypes[type][1].name = "key" /\ MessageTypes[type][1].kind # "message"
  /\ MessageTypes[type][2].name = "value" /\ MessageTypes[type][2].kind # "message"

\* How an entry of a map is printed as "key => value"; keys of type bool are
\* left out.  Values behind unsigned keys are printed with "dec".
MapKey(fd, key) ==
  CASE fd.kind = "int"    -> StringFromInt(key, LongWidth, "decAndHex")
    [] fd.kind = "uint"   -> StringFromUInt(key, LongWidth, "decAndHex")
    [] fd.kind = "string" -> StringFromString(key, "default")

MapEntry(sub, type, entry, depth) ==
  LET k == MessageTypes[type][1]
      v == MessageTypes[type][2]
  IN  << NewLine, EntryLine(depth + 1) >> \o MapKey(k, entry["key"]) \o << <<"=>">> >>
      \o FieldValueToString(sub, entry, v, depth, IF k.kind = "uint" THEN "dec" ELSE "default")

\* A std::map has its entries in the order of their keys, which are all different:
\* the i-th one is that behind i - 1 others.
PlaceOf(fd, key) == IF fd.kind = "string" THEN StringPlace[key] ELSE key

InOrder(fd, entries) ==
  LET E == {entries[i] : i \in DOMAIN entries}
      Before(key) == {k \in {e["key"] : e \in E} : PlaceOf(fd, k) < PlaceOf(fd, key)}
  IN  [i \in DOMAIN entries |-> CHOOSE e \in E : Cardinality(Before(e["key"])) = i - 1]

SimpleMap(sub, fd, entries, depth) ==
  LET key    == MessageTypes[fd.of][1]
      sorted == InOrder(key, entries)
  IN  CASE entries = <<>> \/ key.kind = "bool" -> <<>>
        [] entries # <<>> /\ key.kind = "fixed" -> << Abort >>
        [] OTHER -> << MapTitle(depth, fd, Len(entries)) >> \o
             FlattenSeq([i \in DOMAIN entries |-> MapEntry(sub, fd.of, sorted[i], depth)])

RepeatedToString(sub, fd, values, depth) ==
  LET n == Len(values)
  IN  FlattenSeq([i \in 1 .. n |->
        (IF i = 1 THEN <<>> ELSE << NewLine >>) \o << ElementLine(depth, fd, i, n) >>
        \o RepeatedFieldValueToString(sub, fd, values[i], depth, "default")])

\* simple is off with --noSimpleMapOutput.
IsSimpleMap(fd, simple) == simple /\ fd.label = "map" /\ IsMapEntryPrimitive(fd.of)

FieldToString(sub, msg, fd, depth, simple) ==
  LET v     == msg[fd.name]
      empty == IF v = <<>> THEN << ElementLine(depth, fd, 0, 0) >> ELSE <<>>
  IN  IF ~IsRepeated(fd)
      THEN << LineOf(depth, fd) >> \o FieldValueToString(sub, msg, fd, depth, "default")
      ELSE IF IsSimpleMap(fd, simple) THEN empty \o SimpleMap(sub, fd, v, depth)
      ELSE empty \o RepeatedToString(sub, fd, v, depth)

\* messageToStringInternal: the fields in the order of the descriptor.
FieldsToString(sub, m, depth, simple) ==
  FlattenSeq([i \in DOMAIN MessageTypes[m[1]] |->
    (IF i = 1 THEN <<>> ELSE << NewLine >>) \o
    FieldToString(sub, m[2], MessageTypes[m[1]][i], depth, simple)])

\* The texts of the messages in a message and of itself, from the innermost ones
\* outwards.
TextsIn(root, depth, simple) ==
  LET texts[n \in 0 .. MaxDepth] ==
        IF n = 0 THEN <<>>
        ELSE [m \in MessagesBelow(root, MaxDepth - n) |->
                FieldsToString(texts[n - 1], m, depth + MaxDepth - n, simple)]
  IN  texts

MessageToString(type, msg, depth, simple) ==
  TextsIn(<<type, msg>>, depth, simple)[MaxDepth][<<type, msg>>]

----------------------------------------------------------------------------
(* The custom format [target, output].  A target is the names that are     *)
(* written on the line, each behind a dot.  The regular expression of a    *)
(* part of the target takes everything up to the colon: what is written    *)
(* ".a.b" is one part, which names no field; "." is <<"">>.  So the walk     *)
(* along the target has one step at most.                                  *)
(* output is a sequence of texts and references to fields                  *)
(*   [text : a text] or [field : a name, mod : a modifier].                *)

Statement(type, msg, s) ==
  CASE "text" \in DOMAIN s -> << <<"text", s.text>> >>
    [] "field" \in DOMAIN s /\ s.field \notin FieldNames(type) -> << <<"???">> >>
    [] OTHER -> FieldValueToString(TextsIn(<<type, msg>>, 0, TRUE)[MaxDepth - 1], msg,
                                   FindFieldByName(type, s.field), 0, s.mod)

Statements(type, msg, output) ==
  FlattenSeq([i \in DOMAIN output |-> Statement(type, msg, output[i])])

\* The message in a field that is not set is the default message.
SubMessage(msg, fd) == IF HasField(msg, fd) THEN msg[fd.name] ELSE NewMessage(fd.of)

CustomMessageFormat(type, msg, format) ==
  LET target   == format.target
      fd       == FindFieldByName(type, target[1])
      Walk(to) == Statements(fd.of, to, format.output)
  IN  IF target \in {<<>>, <<"">>} THEN Statements(type, msg, format.output)
      ELSE IF Len(target) > 1 \/ target[1] \notin FieldNames(type) THEN << <<"no such field">> >>
      ELSE IF IsRepeated(fd) /\ fd.kind # "message" THEN << <<"not supported">> >>
      ELSE IF IsRepeated(fd) THEN FlattenSeq([i \in DOMAIN msg[fd.name] |-> Walk(msg[fd.name][i])])
      ELSE IF fd.kind = "message" THEN Walk(SubMessage(msg, fd))
      ELSE Statements(type, msg, format.output)

----------------------------------------------------------------------------
(* createMessageFormatter: options are [json, custom, simple], where custom *)
(* is a format or NoFormat.  JSON is written by protobuf.                   *)

Formatted(type, msg, options) ==
  CASE options.json -> << <<"json", msg>> >>
    [] ~options.json /\ options.custom # NoFormat -> CustomMessageFormat(type, msg, options.custom)
    [] OTHER -> MessageToString(type, msg, 1, options.simple)

----------------------------------------------------------------------------
(* What the text for humans tells of a message.                            *)

\* What is shown of a value, or nothing.  What is shown of the messages in a
\* message is given by sub.
ShownValue(sub, fd, v) ==
  CASE v = Unset                         -> {}
    [] v # Unset /\ fd.kind = "message" -> {sub[<<fd.of, v>>]}
    [] v # Unset /\ fd.kind = "float"   -> {Rounded(v)}
    [] OTHER -> {v}

\* Of a map in the simple format its entries, whatever their order, but neither
\* those with keys of type bool or fixed nor signed values behind unsigned keys.
ShownEntries(sub, fd, entries) ==
  LET key   == MessageTypes[fd.of][1]
      value == MessageTypes[fd.of][2]
      Hidden == key.kind = "uint" /\ value.kind = "int"
  IN  IF key.kind \in {"bool", "fixed"} THEN entries = <<>>
      ELSE {<<entries[i]["key"], IF Hidden THEN {} ELSE ShownValue(sub, value, entries[i]["value"])>> :
            i \in DOMAIN entries}

ShownField(sub, fd, v, simple) ==
  IF ~IsRepeated(fd) THEN ShownValue(sub, fd, v)
  ELSE IF IsSimpleMap(fd, simple) THEN ShownEntries(sub, fd, v)
  ELSE [i \in DOMAIN v |-> ShownValue(sub, fd, v[i])]

ShownFields(sub, m, simple) ==
  [name \in FieldNames(m[1]) |-> ShownField(sub, FindFieldByName(m[1], name), m[2][name], simple)]

ShownIn(root, simple) ==
  LET shown[n \in 0 .. MaxDepth] ==
        IF n = 0 THEN <<>>
        ELSE [m \in MessagesBelow(root, MaxDepth - n) |-> ShownFields(shown[n - 1], m, simple)]
  IN  shown

Shown(type, msg, simple) == ShownIn(<<type, msg>>, simple)[MaxDepth][<<type, msg>>]

\* What protobuf makes sure of: the values in a message and in the messages in it
\* are those that it keeps in fields of their types; keys that are sorted have
\* places.
KeysPlaced(fd, entries) ==
  fd.label = "map" =>
    LET key == MessageTypes[fd.of][1]
    IN  \A i \in DOMAIN entries :
          /\ key.kind \in {"int", "uint"} => entries[i]["key"] \in Int
          /\ key.kind = "string" => entries[i]["key"] \in DOMAIN StringPlace

MessageFits(m) == \A fd \in Fields(m[1]) : FieldFits(fd, m[2][fd.name]) /\ KeysPlaced(fd, m[2][fd.name])

Fits(type, msg) ==
  /\ type \in DOMAIN MessageTypes /\ MessagesBelow(<<type, msg>>, MaxDepth) = {}
  /\ \A n \in 0 .. MaxDepth : \A m \in MessagesBelow(<<type, msg>>, n) : MessageFits(m)

\* Strings in which no quote is printed: nothing in them can look like their end.
QuoteFree(v) == \A i \in DOMAIN v : v[i] # Quote

QuoteFreeField(fd, msg) == fd.kind = "string" => \A v \in ValuesIn(fd, msg) : QuoteFree(v)

QuoteFreeMessage(m) == \A fd \in Fields(m[1]) : QuoteFreeField(fd, m[2])

\* A message in which, at whatever depth, no string holds a quote.
Quoteless(type, msg) ==
  \A n \in 0 .. MaxDepth : \A m \in MessagesBelow(<<type, msg>>, n) : QuoteFreeMessage(m)

=============================================================================
