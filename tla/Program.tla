------------------------------- MODULE Program -------------------------------
(***************************************************************************)
(* A run of gWhisper from the command line to the output: the connection   *)
(* (Invocation), the request messages, the call and the printing work      *)
(* together in main and cli::call.  How a message is printed is a          *)
(* parameter here; ProgramMessages is the program with the formatters.     *)
(*                                                                         *)
(* The call itself is reduced to the requests the server gets, its replies *)
(* and its status; deadlines, flow control and lost connections are in     *)
(* RpcCall.  A line has                                                    *)
(*   type, clientStreaming     of the method                               *)
(*   messages                  the parse trees of its message arguments    *)
(*   asks              what its options ask for (Invocation)               *)
(*   printParsed       whether request messages are printed                *)
(*   whole             the number of messages that can be serialized       *)
(*   unknown           whether messages name extensions, or types in an    *)
(*                     Any, that the pool does not hold                    *)
(*   json, custom, simple   the format of messages (MessageFormatter)      *)
(*   replyType, replies, ok   what the server answers                      *)
(***************************************************************************)
EXTENDS Invocation, MessageParser

CONSTANTS
  Lines,            \* sets of command lines, by their kind
  TextOf(_, _, _)   \* the text of a message of a type in a format: MessageFormatter

VARIABLES
  line,      \* a command line of some kind
  result,    \* the messages parsed so far
  pc,        \* of the parser: "parse", "done" or "failed"
  written,   \* number of requests written
  received,  \* number of replies read
  printed    \* the texts of the messages printed

parser == <<line, result, pc>>
call == <<written, received, printed>>
program == <<invocation, parser, call>>

----------------------------------------------------------------------------
(* The request messages.                                                   *)

\* Without a message argument the whole tree is parsed, which has no fields.
RequestsOf(l) == IF l.messages = <<>> /\ ~l.clientStreaming THEN << <<>> >> ELSE l.messages

Requests == RequestsOf(line)

\* The members of a line that are lists, and what its options ask for.
ASSUME LinesAssumption ==
  \A kind \in DOMAIN Lines : \A l \in Lines[kind] :
    /\ l.asks \in Asked /\ l.type \in DOMAIN MessageTypes
    /\ Len(l.messages) \in Nat /\ DOMAIN l.messages = 1 .. Len(l.messages)
    /\ Len(l.replies) \in Nat /\ DOMAIN l.replies = 1 .. Len(l.replies)

\* The messages on a line are of the grammar, which nests them to some depth.
ASSUME TreesAssumption ==
  \A kind \in DOMAIN Lines : \A l \in Lines[kind] : \A i \in DOMAIN RequestsOf(l) :
    /\ TreesBelow("all", <<l.type, RequestsOf(l)[i]>>, MaxDepth) = {}
    /\ \A t \in TreesOf("all", l.type, RequestsOf(l)[i]) : TreeFits(t)

ParserInit == (\E kind \in DOMAIN Lines : line \in Lines[kind]) /\ result = <<>> /\ pc = "parse"

\* One iteration of parseMessages: a message, or the end of the parse.
ParseNext ==
  /\ pc = "parse" /\ Len(result) < Len(Requests)
  /\ LET owned == ParseMessage(line.type, Requests[Len(result) + 1])
     IN  \/ owned = {} /\ result' = <<>> /\ pc' = "failed"
         \/ \E msg \in owned : result' = Append(result, msg) /\ pc' = pc
  /\ UNCHANGED line

Parsed == pc = "parse" /\ Len(result) = Len(Requests) /\ pc' = "done" /\ UNCHANGED <<line, result>>

ParserNext == ParseNext \/ Parsed

----------------------------------------------------------------------------
(* The call.                                                               *)

ProgramInit ==
  /\ Init /\ ParserInit /\ asks = line.asks
  /\ written = 0 /\ received = 0 /\ printed = <<>>

Calling == phase = "rpc" /\ pc # "parse"

\* "Error parsing method arguments", or more than one message of a unary call.
RefuseArguments ==
  /\ Calling /\ ~line.clientStreaming /\ Len(result) # 1
  /\ CallEnds("-1")
  /\ UNCHANGED <<parser, call>>

Accepted == Calling /\ (line.clientStreaming \/ Len(result) = 1)

\* Mutant: the first message is printed for each of them.
WriteRequest_PrintsFirst ==
  /\ Accepted /\ written < Len(result)
  /\ printed' = IF line.printParsed THEN Append(printed, TextOf(line.type, result[1], line)) ELSE printed
  /\ written' = written + 1
  /\ UNCHANGED <<invocation, parser, received>>

\* A message is printed, serialized and written; one that lacks a required
\* field is not written.
WriteRequest ==
  /\ Accepted /\ written < Len(result)
  /\ LET text == TextOf(line.type, result[written + 1], line)
     IN  IF line.printParsed /\ Aborts(text) THEN CallAborts /\ UNCHANGED call
         ELSE /\ printed' = IF line.printParsed THEN Append(printed, text) ELSE printed
              /\ IF written = line.whole THEN CallEnds("-1") /\ UNCHANGED written
                 ELSE written' = written + 1 /\ UNCHANGED invocation
              /\ UNCHANGED received
  /\ UNCHANGED parser

\* Replies are read when all requests are written.
Reading == Accepted /\ written = Len(result)

ReadReply ==
  /\ Reading /\ received < Len(line.replies)
  /\ LET text == TextOf(line.replyType, line.replies[received + 1], line)
     IN  IF Aborts(text) THEN CallAborts /\ UNCHANGED call
         ELSE /\ printed' = Append(printed, text) /\ received' = received + 1
              /\ UNCHANGED <<invocation, written>>
  /\ UNCHANGED parser

\* Undefined behavior: the pool asks its database, the proxy that closeDescDbStream
\* has destroyed.  Either that ends the process or nothing is found and the run goes
\* on, with what is unknown left as it is.
DanglingLookup == phase = "rpc" /\ line.unknown /\ CallAborts /\ UNCHANGED <<parser, call>>

Finish ==
  /\ Reading /\ received = Len(line.replies)
  /\ CallEnds(IF line.ok THEN "0" ELSE "-1")
  /\ UNCHANGED <<parser, call>>

Call ==
  \/ phase = "rpc" /\ ParserNext /\ UNCHANGED <<invocation, call>>
  \/ RefuseArguments \/ WriteRequest \/ ReadReply \/ Finish \/ DanglingLookup

ProgramNext ==
  \/ (Main \/ BeforeRpc \/ Destroy) /\ UNCHANGED <<parser, call>>
  \/ Call

ProgramSpec == ProgramInit /\ [][ProgramNext]_program

----------------------------------------------------------------------------
(* Properties.                                                             *)

\* Type invariant: the values of a message are in the range of their fields, at
\* whatever depth.
MessagesTyped ==
  /\ line.type \in DOMAIN MessageTypes /\ pc \in {"parse", "done", "failed"}
  /\ \A i \in DOMAIN result : WellTyped(line.type, result[i])

\* A line all of whose values can be converted becomes exactly what it says:
\* the last value of a field, every element of repeated fields in order, also
\* when the field is given several times.
GoodLineExact ==
  /\ pc = "failed" => \E i \in DOMAIN Requests : HasError("all", line.type, Requests[i])
  /\ pc = "done" /\ (\A i \in DOMAIN Requests : ~HasError("all", line.type, Requests[i])) =>
       result = [i \in DOMAIN Requests |-> Meaning(line.type, Requests[i])]

\* A value that cannot be converted is reported, at whatever depth it is and
\* however many good messages come before it, unless it is an element of a
\* repeated field that is followed by another element.
ErrorRefused ==
  pc = "done" => \A i \in DOMAIN Requests : ~HasError("last", line.type, Requests[i])

\* The number fields of a tree, with the texts they are given.
NumbersIn(t) ==
  UNION {{[fd |-> FindFieldByName(t[1], f.name), text |-> v] :
            v \in Counting("all", FindFieldByName(t[1], f.name), f.value)} :
         f \in {g \in {t[2][i] : i \in DOMAIN t[2]} :
                 HasValue(t[1], g) /\ FindFieldByName(t[1], g.name).kind \in {"int", "uint"}}}

\* Those of the request messages.
NumberFields ==
  UNION {UNION {NumbersIn(t) : t \in TreesOf("all", line.type, Requests[i])} : i \in DOMAIN Requests}

\* A number that is in the range of its field is stored exactly, although it is
\* converted with another width, whether decimal, octal or hexadecimal.
NumbersExact == pc = "done" => \A f \in NumberFields : NumberExact(f.fd, f.text)

\* Whenever the run may look something up in the pool, also in the call, the database
\* of the pool is the proxy of the connection, which has not been destroyed.
LookupsInLiveDatabase ==
  phase \in LookupPhases /\ (phase = "rpc" => line.unknown) => conn.pool = conn.proxy

\* A run whose exit code is 0 has printed every request it sent, if that was
\* asked for, and every reply of the server, each of them once and in order;
\* one that answers an option has called nothing.
PrintedExactly ==
  exit = "0" =>
    IF asks.options # {} THEN written = 0 /\ printed = <<>>
    ELSE LET shown == IF line.printParsed THEN result ELSE <<>>
             n     == Len(shown)
         IN  /\ Len(printed) = n + Len(line.replies)
             /\ \A i \in 1 .. n : printed[i] = TextOf(line.type, shown[i], line)
             /\ \A i \in DOMAIN line.replies :
                  printed[n + i] = TextOf(line.replyType, line.replies[i], line)
=============================================================================
