---------------------------- MODULE ProtoMessages ----------------------------
(***************************************************************************)
(* Message types and messages of protobuf, as far as gWhisper uses them    *)
(* through the reflection interface of the library.                        *)
(*                                                                         *)
(* A message type is a sequence of field descriptors; a message is a       *)
(* function from the names of the fields to their values.  A field of      *)
(* message type and a member of a oneof can be Unset; any other field has  *)
(* its default value then.  Repeated fields and maps hold sequences.       *)
(***************************************************************************)
EXTENDS Integers, Sequences

CONSTANTS
  MessageTypes,  \* from the names of the types to sequences of fields
  Unset,         \* the value of a field that has none
  MaxDepth       \* messages are nested less deep

ASSUME DepthAssumption == MaxDepth \in Nat \ {0}

\* Field descriptors are records
\*   name   of the field
\*   kind   "int", "uint", "fixed" (unsigned, of fixed width), "bool", "enum",
\*          "string", "bytes", "float", "message"
\*   label  "one", "repeated" or "map" (a repeated message with "key" and "value")
\*   oneof  the oneof the field belongs to, or ""
\*   of     numbers: the width in bits; message: the type; enum: the values
Fields(type) == {MessageTypes[type][i] : i \in DOMAIN MessageTypes[type]}

FieldNames(type) == {fd.name : fd \in Fields(type)}

FindFieldByName(type, name) == CHOOSE fd \in Fields(type) : fd.name = name

IsRepeated(fd) == fd.label \in {"repeated", "map"}

Kinds == {"int", "uint", "fixed", "bool", "enum", "string", "bytes", "float", "message"}

\* An entry of a map has a key and a value.
IsEntry(type) ==
  /\ Len(MessageTypes[type]) = 2
  /\ LET key   == MessageTypes[type][1]
         value == MessageTypes[type][2]
     IN  /\ key.name = "key" /\ key.label = "one" /\ key.oneof = ""
         /\ key.kind \in {"int", "uint", "fixed", "bool", "string"}
         /\ value.name = "value" /\ value.label = "one" /\ value.oneof = ""

\* What protobuf makes sure of: names are unique, messages are of some type, a
\* field of a oneof is not repeated, a map has entries.
ASSUME TypesAssumption ==
  \A type \in DOMAIN MessageTypes :
    /\ Len(MessageTypes[type]) \in Nat /\ DOMAIN MessageTypes[type] = 1 .. Len(MessageTypes[type])
    /\ \A fd \in Fields(type) :
         /\ FindFieldByName(type, fd.name) = fd /\ fd.kind \in Kinds
         /\ fd.kind = "message" => fd.of \in DOMAIN MessageTypes
         /\ fd.oneof # "" => ~IsRepeated(fd)
         /\ fd.label = "map" => fd.kind = "message" /\ IsEntry(fd.of)

DefaultValue(fd) ==
  CASE IsRepeated(fd)                         -> <<>>
    [] ~IsRepeated(fd) /\ fd.oneof # ""       -> Unset
    [] ~IsRepeated(fd) /\ fd.kind = "message" -> Unset
    [] OTHER -> CASE fd.kind \in {"int", "uint", "fixed", "float"} -> 0
                  [] fd.kind = "bool"                     -> FALSE
                  [] fd.kind \in {"string", "bytes"}        -> <<>>
                  [] fd.kind = "enum"                     -> fd.of[1]

NewMessage(type) ==
  [name \in FieldNames(type) |-> DefaultValue(FindFieldByName(type, name))]

\* Setting a member of a oneof clears the other members.
SetField(type, msg, fd, value) ==
  [name \in FieldNames(type) |->
     IF name = fd.name THEN value
     ELSE IF fd.oneof # "" /\ FindFieldByName(type, name).oneof = fd.oneof THEN Unset
     ELSE msg[name]]

\* Adding values to a repeated field, one after the other.
AddToField(msg, fd, values) == [msg EXCEPT ![fd.name] = @ \o values]

\* What stands in a text for a usage error of the library, which ends the process.
Abort == <<"abort">>

Aborts(text) == \E i \in DOMAIN text : text[i] = Abort

\* HasField, for fields that can be Unset.
HasField(msg, fd) == msg[fd.name] # Unset

\* The values in a field of a message.
ValuesIn(fd, msg) ==
  IF IsRepeated(fd) THEN {msg[fd.name][i] : i \in DOMAIN msg[fd.name]} ELSE {msg[fd.name]} \ {Unset}

\* What has a length and members.
IsList(s) == s \in Seq({s[i] : i \in DOMAIN s})

\* The values that protobuf keeps in a field.  The keys of a map are different.
ValueFits(fd, v) == v # Unset /\ (fd.kind \in {"bytes", "string"} => IsList(v))

FieldFits(fd, v) ==
  IF IsRepeated(fd)
  THEN /\ IsList(v) /\ \A i \in DOMAIN v : ValueFits(fd, v[i])
       /\ fd.label = "map" => \A i, j \in DOMAIN v : v[i]["key"] = v[j]["key"] => i = j
  ELSE ValueFits(fd, v) \/ (v = Unset /\ (fd.oneof # "" \/ fd.kind = "message"))

\* The messages in a message; a message m is a pair of its type and its value.
SubMessages(m) ==
  UNION {{<<fd.of, v>> : v \in ValuesIn(fd, m[2])} : fd \in {f \in Fields(m[1]) : f.kind = "message"}}

\* The messages n levels below a message.
MessagesBelow(root, n) ==
  LET level[k \in 0 .. MaxDepth] ==
        IF k = 0 THEN {root} ELSE UNION {SubMessages(m) : m \in level[k - 1]}
  IN  level[n]
=============================================================================
