---------------------------- MODULE MessageParser ----------------------------
(***************************************************************************)
(* MessageParserCli: the request messages of a call are read from the      *)
(* parse tree of the command line.  Here is how one is read; Program does  *)
(* it for each of them.                                                    *)
(*                                                                         *)
(* The parse tree of a message is the sequence of its fields, records      *)
(* [name, value]; a value is the text of a scalar, the parse tree of a     *)
(* message, a sequence of these for a repeated field, or NoValue where the *)
(* grammar has no further level of messages.  The fields of a line that is *)
(* executed are completely parsed.                                         *)
(*                                                                         *)
(* What owns a message or a value, or nothing after an error, is the set   *)
(* of what it owns.                                                        *)
(***************************************************************************)
EXTENDS FieldValues

CONSTANTS
  NoValue    \* a field without "FieldValue"

\* Numbers fit into a long, and a default value is no error.
ASSUME ValuesAssumption ==
  \A type \in DOMAIN MessageTypes : \A fd \in Fields(type) :
    /\ fd.kind \in {"int", "uint"} => fd.of \in 1 .. LongBits
    /\ ~IsRepeated(fd) => DefaultValue(fd) # Bad

----------------------------------------------------------------------------
(* The parse trees in a parse tree.  A tree t is a pair of the type and    *)
(* the fields of the message.                                              *)

\* The values of a field that count: all of them, or the last one.
Counting(which, fd, value) ==
  IF ~IsRepeated(fd) THEN {value}
  ELSE IF which = "all" THEN {value[i] : i \in DOMAIN value}
  ELSE {value[Len(value)]}

HasValue(type, field) == field.name \in FieldNames(type) /\ field.value # NoValue

FieldTrees(which, type, field) ==
  LET fd == FindFieldByName(type, field.name)
  IN  IF HasValue(type, field) /\ fd.kind = "message"
      THEN {<<fd.of, v>> : v \in Counting(which, fd, field.value)}
      ELSE {}

SubTrees(which, t) == UNION {FieldTrees(which, t[1], t[2][i]) : i \in DOMAIN t[2]}

\* The trees n levels below a tree.
TreesBelow(which, root, n) ==
  LET level[k \in 0 .. MaxDepth] ==
        IF k = 0 THEN {root} ELSE UNION {SubTrees(which, t) : t \in level[k - 1]}
  IN  level[n]

TreesOf(which, type, tree) == UNION {TreesBelow(which, <<type, tree>>, n) : n \in 0 .. MaxDepth}

\* What the grammar makes sure of: a repeated field has values, and the text of a
\* number is one.
TreeFits(t) ==
  /\ Len(t[2]) \in Nat /\ DOMAIN t[2] = 1 .. Len(t[2])
  /\ \A i \in DOMAIN t[2] : HasValue(t[1], t[2][i]) =>
       LET fd    == FindFieldByName(t[1], t[2][i].name)
           value == t[2][i].value
       IN  /\ IsRepeated(fd) => Len(value) \in Nat \ {0} /\ DOMAIN value = 1 .. Len(value)
           /\ fd.kind \in {"int", "uint"} => \A v \in Counting("all", fd, value) : IsNumber(v)

----------------------------------------------------------------------------
(* parseMessage.  The messages of the trees below are given by sub.        *)

ParseFieldValue(sub, fd, value) ==
  IF fd.kind = "message" THEN sub[<<fd.of, value>>] ELSE {ParseScalar(fd, value)} \ {Bad}

\* The elements of a repeated field that can be parsed, in order.
GoodElements(sub, fd, values) ==
  LET v(i) == ParseFieldValue(sub, fd, values[i])
      good[i \in 0 .. Len(values)] ==
        IF i = 0 THEN <<>>
        ELSE IF v(i) = {} THEN good[i - 1]
        ELSE Append(good[i - 1], CHOOSE e \in v(i) : TRUE)
  IN  good[Len(values)]

\* Mutant: a repeated field that is given again starts anew.
ParseRepeated_Resets(sub, msg, fd, values) ==
  IF ParseFieldValue(sub, fd, values[Len(values)]) = {} THEN {}
  ELSE {[msg EXCEPT ![fd.name] = GoodElements(sub, fd, values)]}

\* Mutant: the return code of an element is not looked at.
ParseRepeated_Ignores(sub, msg, fd, values) == {AddToField(msg, fd, GoodElements(sub, fd, values))}

\* The elements that can be parsed are added; the return code is that of the last.
ParseRepeated(sub, msg, fd, values) ==
  IF ParseFieldValue(sub, fd, values[Len(values)]) = {} THEN {}
  ELSE {AddToField(msg, fd, GoodElements(sub, fd, values))}

ParseSingle(sub, type, msg, fd, value) ==
  {SetField(type, msg, fd, v) : v \in ParseFieldValue(sub, fd, value)}

\* One iteration over the fields of a parse tree.
ParseField(sub, type, msg, field) ==
  LET fd == FindFieldByName(type, field.name)
  IN  IF field.name \notin FieldNames(type) THEN {msg}
      ELSE IF field.value = NoValue THEN {}
      ELSE IF IsRepeated(fd) THEN ParseRepeated(sub, msg, fd, field.value)
      ELSE ParseSingle(sub, type, msg, fd, field.value)

ParseFields(sub, t) ==
  LET after[i \in 0 .. Len(t[2])] ==
        IF i = 0 THEN {NewMessage(t[1])}
        ELSE UNION {ParseField(sub, t[1], msg, t[2][i]) : msg \in after[i - 1]}
  IN  after[Len(t[2])]

\* From the innermost messages to the outermost one.
ParseMessage(type, tree) ==
  LET root == <<type, tree>>
      parsed[n \in 0 .. MaxDepth] ==
        IF n = 0 THEN <<>>
        ELSE [t \in TreesBelow("all", root, MaxDepth - n) |-> ParseFields(parsed[n - 1], t)]
  IN  parsed[MaxDepth][root]

----------------------------------------------------------------------------
(* What a parse tree means, independently of the order of the work.        *)

ElementMeaning(sub, fd, value) == IF fd.kind = "message" THEN sub[<<fd.of, value>>] ELSE ParseScalar(fd, value)

\* The last of the first n fields of a tree that has one of some names, or 0.
LastOf(names, tree, n) ==
  CHOOSE i \in 0 .. n : /\ i > 0 => tree[i].name \in names
                        /\ \A j \in i + 1 .. n : tree[j].name \notin names

\* The fields that share the storage of a field: those of its oneof.
Sharing(type, fd) == {f.name : f \in {g \in Fields(type) : g = fd \/ (fd.oneof # "" /\ g.oneof = fd.oneof)}}

\* The values that a field is given, in order.
Given(sub, fd, tree) ==
  LET given[i \in 0 .. Len(tree)] ==
        IF i = 0 THEN <<>>
        ELSE IF tree[i].name # fd.name THEN given[i - 1]
        ELSE given[i - 1] \o [j \in DOMAIN tree[i].value |-> ElementMeaning(sub, fd, tree[i].value[j])]
  IN  given[Len(tree)]

FieldMeaning(sub, type, fd, tree) ==
  IF IsRepeated(fd) THEN Given(sub, fd, tree)
  ELSE LET i == LastOf(Sharing(type, fd), tree, Len(tree))
       IN  IF i > 0 /\ tree[i].name = fd.name THEN ElementMeaning(sub, fd, tree[i].value)
           ELSE DefaultValue(fd)

MessageMeaning(sub, t) ==
  [name \in FieldNames(t[1]) |-> FieldMeaning(sub, t[1], FindFieldByName(t[1], name), t[2])]

Meaning(type, tree) ==
  LET root == <<type, tree>>
      meant[n \in 0 .. MaxDepth] ==
        IF n = 0 THEN <<>>
        ELSE [t \in TreesBelow("all", root, MaxDepth - n) |-> MessageMeaning(meant[n - 1], t)]
  IN  meant[MaxDepth][root]

\* A field without a value, or one with a value that cannot be converted.
Faulty(which, type, field) ==
  LET fd == FindFieldByName(type, field.name)
  IN  /\ field.name \in FieldNames(type)
      /\ \/ field.value = NoValue
         \/ fd.kind # "message" /\ \E v \in Counting(which, fd, field.value) : ParseScalar(fd, v) = Bad

\* Whether there is one somewhere in a parse tree, among all elements of repeated
\* fields or among the last ones.
HasError(which, type, tree) ==
  \E t \in TreesOf(which, type, tree) : \E i \in DOMAIN t[2] : Faulty(which, t[1], t[2][i])

----------------------------------------------------------------------------
(* The messages of a type.                                                 *)

InRange(fd, v) ==
  CASE fd.kind = "int"     -> v \in SignedRange(fd.of)
    [] fd.kind = "uint"    -> v \in UnsignedRange(fd.of)
    [] fd.kind = "message" -> TRUE
    [] OTHER               -> v # Bad

FieldsTyped(m) ==
  /\ DOMAIN m[2] = FieldNames(m[1])
  /\ \A fd \in Fields(m[1]) : \A v \in ValuesIn(fd, m[2]) : InRange(fd, v)

\* A message and the messages in it have all their fields, and values of their types.
WellTyped(type, msg) ==
  \A n \in 0 .. MaxDepth : \A m \in MessagesBelow(<<type, msg>>, n) : FieldsTyped(m)
=============================================================================
