----------------------------- MODULE ProgramProofs -----------------------------
(***************************************************************************)
(* Proofs about Invocation, and about Program for any format of messages.  *)
(*                                                                         *)
(* The inductive invariant of Invocation says what the connection looks    *)
(* like in each phase: it is whole from the first injector on, and closing *)
(* takes away nothing but the proxy.  The program takes the steps of       *)
(* Invocation, so it has these properties, too.  Its own invariant is an   *)
(* account of the messages: which were parsed, written, read and printed.  *)
(* What a single message becomes is in MessageParserProofs, and what its   *)
(* text tells in MessageFormatterProofs: together they say what the        *)
(* program makes of a line and what it prints.                             *)
(***************************************************************************)
EXTENDS ProgramMessages, MessageFormatterProofs

----------------------------------------------------------------------------
(* The invocation.                                                         *)

\* The parts of a connection are made together, and only once.
Together ==
  /\ ~conn.channel => conn = NoConnection
  /\ conn.channel => /\ made = 1 /\ conn.pool = 1
                     /\ \/ conn.proxy = 1 /\ ended = 0
                        \/ conn.proxy = 0 /\ ended = 1

\* When the connection is there, and when it has its proxy.
InPhase ==
  /\ ~conn.channel /\ phase # "done" => made = 0 /\ ended = 0
  /\ phase = "done" => ~conn.channel /\ made \in {0, 1} /\ ended <= made /\ (exit # "aborted" => ended = made)
  /\ phase \in {"parse", "main"} \cup (CallPhases \ {"rpc"}) => (conn.channel => conn.proxy = 1)
  /\ phase \in CallPhases => conn.channel /\ "Method" \in grammars
  /\ phase = "rpc" => conn.proxy = 0

\* The grammar of the methods is made from a service that was found.
Found == grammars # {} /\ phase # "done" => conn.channel /\ ("Method" \in grammars => conn.finds # "nothing")

IInv == InvocationTypeOK /\ Together /\ InPhase /\ Found
----------------------------------------------------------------------------
LEMMA InvInit == ASSUME Init PROVE IInv
  BY DEF Init, IInv, InvocationTypeOK, Together, InPhase, Found, Asked, Connections, NoConnection,
         Findings, CallPhases, Injectors

\* A connection that is whole stays as it is.
LEMMA LookupKeeps ==
  ASSUME IInv, phase = "parse", conn.channel, NEW injector, NEW finds
  PROVE  Lookup(injector, finds) = Keep(conn, made)
<1>1. conn.proxy = 1 /\ conn.pool = 1
  BY DEF IInv, Together, InPhase
<1>2. getChannel(conn, made, finds) = Keep(conn, made)
  BY DEF getChannel
<1>3. getDescDb(conn, made, finds) = Keep(conn, made)
  BY <1>1 DEF getDescDb
<1>4. getDescPool(conn, made, finds) = Keep(conn, made)
  BY <1>1 DEF getDescPool
<1> QED
  BY <1>2, <1>3, <1>4 DEF Lookup, Then, Keep

\* The first injector makes the channel, the proxy and the pool.
LEMMA LookupMakes ==
  ASSUME IInv, phase = "parse", ~conn.channel, NEW injector, NEW finds
  PROVE  Lookup(injector, finds) =
           [conn |-> [channel |-> TRUE, proxy |-> 1, pool |-> 1, finds |-> finds], made |-> 1, dropped |-> 0]
<1> DEFINE new == [channel |-> TRUE, proxy |-> 1, pool |-> 1, finds |-> finds]
<1>1. made = 0 /\ conn = NoConnection
  BY DEF IInv, Together, InPhase
<1>2. getChannel(conn, made, finds) = [conn |-> new, made |-> 1, dropped |-> 0]
  BY <1>1 DEF getChannel, registerConnection, NoConnection, Dropped
<1>3. getDescDb(new, 1, finds) = Keep(new, 1)
  BY DEF getDescDb
<1>4. getDescPool(new, 1, finds) = Keep(new, 1)
  BY DEF getDescPool
<1> HIDE DEF new
<1>5. Lookup(injector, finds) = [conn |-> new, made |-> 1, dropped |-> 0]
  BY <1>2, <1>3, <1>4 DEF Lookup, Then, Keep
<1> QED
  BY <1>5 DEF new

LEMMA InvInject ==
  ASSUME IInv, NEW injector \in Injectors, Inject(injector)
  PROVE  IInv'
<1> PICK finds \in Findings :
      LET r == Lookup(injector, finds)
      IN  /\ Becomes(r)
          /\ grammars' = IF Succeeds(injector, r.conn.finds) THEN grammars \cup {injector} ELSE grammars
  BY DEF Inject
<1> /\ phase = "parse" /\ phase' = "parse" /\ asks' = asks /\ exit' = exit /\ Reached(injector)
  BY DEF Inject
<1> USE DEF IInv
<1>1. CASE conn.channel
  <2>1. conn' = conn /\ made' = made /\ ended' = ended
    BY <1>1, LookupKeeps DEF Becomes, Keep, InvocationTypeOK
  <2>2. grammars' = IF Succeeds(injector, conn.finds) THEN grammars \cup {injector} ELSE grammars
    BY <1>1, LookupKeeps DEF Keep
  <2>3. InvocationTypeOK' /\ Together' /\ InPhase'
    BY <1>1, <2>1, <2>2 DEF InvocationTypeOK, Together, InPhase, CallPhases
  <2>4. "Method" \in grammars' => conn.finds # "nothing"
    BY <1>1, <2>2 DEF Found, Succeeds
  <2>5. Found'
    BY <1>1, <2>1, <2>4 DEF Found
  <2> QED
    BY <2>3, <2>5
<1>2. CASE ~conn.channel
  <2>1. /\ conn' = [channel |-> TRUE, proxy |-> 1, pool |-> 1, finds |-> finds]
        /\ made' = 1 /\ ended' = 0
    <3>1. Lookup(injector, finds) =
            [conn |-> [channel |-> TRUE, proxy |-> 1, pool |-> 1, finds |-> finds], made |-> 1, dropped |-> 0]
      BY <1>2, LookupMakes
    <3>2. ended = 0
      BY <1>2 DEF InPhase
    <3> QED
      BY <3>1, <3>2 DEF Becomes
  <2>2. grammars' = IF Succeeds(injector, finds) THEN grammars \cup {injector} ELSE grammars
    BY <1>2, LookupMakes
  <2>3. InvocationTypeOK' /\ Together' /\ InPhase'
    BY <2>1, <2>2 DEF InvocationTypeOK, Together, InPhase, CallPhases, Connections
  <2>4. grammars = {} /\ injector = "Service"
    BY <1>2 DEF Found, Reached, Injectors
  <2>5. "Method" \notin grammars'
    BY <2>2, <2>4
  <2>6. Found'
    BY <2>1, <2>5 DEF Found
  <2> QED
    BY <2>3, <2>6
<1> QED
  BY <1>1, <1>2

LEMMA InvMain ==
  ASSUME IInv, RegisterFails \/ ParseEnds \/ ReportError \/ (\E o \in Options : Answers(o))
  PROVE  IInv'
<1> USE DEF IInv, Return, CallPhases
<1>1. CASE RegisterFails
  BY <1>1 DEF RegisterFails, InvocationTypeOK, Together, InPhase, Found
<1>2. CASE ParseEnds
  BY <1>2 DEF ParseEnds, Whole, InvocationTypeOK, Together, InPhase, Found
<1>3. CASE ReportError
  BY <1>3 DEF ReportError, InvocationTypeOK, Together, InPhase, Found
<1>4. CASE \E o \in Options : Answers(o)
  <2> /\ phase = "main" /\ phase' = "return" /\ exit' = "0"
      /\ UNCHANGED <<asks, grammars, conn, made, ended>>
    BY <1>4 DEF Answers
  <2> QED
    BY DEF InvocationTypeOK, Together, InPhase, Found
<1> QED
  BY <1>1, <1>2, <1>3, <1>4

LEMMA InvCall ==
  ASSUME IInv, BeforeRpc \/ CallAborts \/ (\E code \in {"0", "-1"} : CallEnds(code))
  PROVE  IInv'
<1> USE DEF IInv, Return, CallPhases
<1>1. CASE GetChannel
  <2>1. conn' = conn /\ made' = made /\ ended' = ended
    BY <1>1 DEF GetChannel, getChannel, Becomes, Keep, InPhase, InvocationTypeOK
  <2> QED
    BY <1>1, <2>1 DEF GetChannel, InvocationTypeOK, Together, InPhase, Found
<1>2. CASE WaitForChannelConnected
  BY <1>2 DEF WaitForChannelConnected, InvocationTypeOK, Together, InPhase, Found
<1>3. CASE FindService
  <2>1. conn' = conn /\ made' = made /\ ended' = ended
    BY <1>3 DEF FindService, getDescPool, Becomes, Keep, InPhase, Together, InvocationTypeOK
  <2>2. phase' \in {"return", "findMethod"} /\ exit' \in {exit, "-1"} /\ UNCHANGED <<asks, grammars>>
    BY <1>3 DEF FindService
  <2> QED
    BY <1>3, <2>1, <2>2 DEF FindService, InvocationTypeOK, Together, InPhase, Found
<1>4. CASE FindMethod
  BY <1>4 DEF FindMethod, InvocationTypeOK, Together, InPhase, Found
<1>5. CASE ConvertDeadline
  BY <1>5 DEF ConvertDeadline, InvocationTypeOK, Together, InPhase, Found
<1>6. CASE CloseDescDbStream
  <2>1. conn.channel /\ conn.proxy = 1 /\ conn.pool = 1 /\ made = 1 /\ ended = 0
    BY <1>6 DEF CloseDescDbStream, Together, InPhase
  <2>2. conn' = [conn EXCEPT !.proxy = 0] /\ made' = 1 /\ ended' = 1
    BY <1>6, <2>1 DEF CloseDescDbStream, closeDescDbStream, Becomes, Dropped
  <2> QED
    BY <1>6, <2>1, <2>2
    DEF CloseDescDbStream, InvocationTypeOK, Together, InPhase, Found, Connections
<1>7. CASE \E code \in {"0", "-1"} : CallEnds(code)
  BY <1>7 DEF CallEnds, InvocationTypeOK, Together, InPhase, Found
<1>8. CASE CallAborts
  BY <1>8 DEF CallAborts, InvocationTypeOK, Together, InPhase, Found, Connections, NoConnection, Findings
<1>9. CASE ConnectTimeoutThrows
  BY <1>9 DEF ConnectTimeoutThrows, InvocationTypeOK, Together, InPhase, Found, Connections, NoConnection, Findings
<1> QED
  BY <1>1, <1>2, <1>3, <1>4, <1>5, <1>6, <1>7, <1>8, <1>9 DEF BeforeRpc

LEMMA InvDestroy == ASSUME IInv, Destroy PROVE IInv'
  BY DEF IInv, Destroy, InvocationTypeOK, Together, InPhase, Found, Dropped, NoConnection, Connections,
         Findings, CallPhases

LEMMA InvNext == ASSUME IInv, [Next]_invocation PROVE IInv'
<1>1. CASE UNCHANGED invocation
  BY <1>1 DEF invocation, IInv, InvocationTypeOK, Together, InPhase, Found
<1> QED
  BY <1>1, InvInject, InvMain, InvCall, InvDestroy DEF Next, Main

\* The invariant holds in every run of gWhisper.
THEOREM InvocationInvariant == Spec => []IInv
  BY InvInit, InvNext, PTL DEF Spec

\* The variables of a run have their types.
THEOREM InvocationTypes == Spec => []InvocationTypeOK
<1>1. IInv => InvocationTypeOK
  BY DEF IInv
<1> QED
  BY <1>1, InvocationInvariant, PTL

\* A run opens at most one reflection session.
THEOREM AtMostOneSession == Spec => []OneSession
<1>1. IInv => OneSession
  BY DEF IInv, InvocationTypeOK, Together, InPhase, OneSession
<1> QED
  BY <1>1, InvocationInvariant, PTL

\* "Service not found" is never the answer to a line that was parsed.
THEOREM ServiceFoundAgain == Spec => []ServiceStillFound
<1>1. IInv => ServiceStillFound
  BY DEF IInv, InPhase, Found, ServiceStillFound, CallPhases
<1> QED
  BY <1>1, InvocationInvariant, PTL

\* The reflection session is over before the call, and is ended exactly once.
THEOREM SessionsEnd == Spec => []SessionsEndedOnce
<1>1. IInv => SessionsEndedOnce
  BY DEF IInv, InvocationTypeOK, Together, InPhase, SessionsEndedOnce, CallPhases
<1> QED
  BY <1>1, InvocationInvariant, PTL

----------------------------------------------------------------------------
(* The program and its connection.                                         *)

\* What the program does to the connection is what Invocation describes.
LEMMA ProgramStep == ASSUME ProgramNext PROVE [Next]_invocation
<1>1. CASE Main \/ BeforeRpc \/ Destroy
  BY <1>1 DEF Next
<1>2. CASE phase = "rpc" /\ ParserNext /\ UNCHANGED <<invocation, call>>
  BY <1>2
<1>3. CASE RefuseArguments
  BY <1>3 DEF RefuseArguments, Next
<1>4. CASE WriteRequest
  BY <1>4 DEF WriteRequest, Next
<1>5. CASE ReadReply
  BY <1>5 DEF ReadReply, Next
<1>6. CASE Finish
  BY <1>6 DEF Finish, Next
<1>7. CASE DanglingLookup
  BY <1>7 DEF DanglingLookup, Next
<1> QED
  BY <1>1, <1>2, <1>3, <1>4, <1>5, <1>6, <1>7 DEF ProgramNext, Call

\* The program implements Invocation: whatever it parses, writes, reads and
\* prints, its connection goes through a run that Invocation allows.
THEOREM ProgramInvokes == ProgramSpec => Spec
<1>1. ProgramInit => Init
  BY DEF ProgramInit
<1>2. [ProgramNext]_program => [Next]_invocation
  BY ProgramStep DEF program
<1> QED
  BY <1>1, <1>2, PTL DEF ProgramSpec, Spec

----------------------------------------------------------------------------
(* The messages of a run.                                                  *)

\* The line does not change.
LineInv == (\E kind \in DOMAIN Lines : line \in Lines[kind]) /\ asks = line.asks

\* The messages parsed so far are those of the line, or none.
ParserInv ==
  /\ IsList(result) /\ Len(result) <= Len(Requests)
  /\ \A i \in 1 .. Len(result) : result[i] \in ParseMessage(line.type, Requests[i])
  /\ pc \in {"parse", "done", "failed"}
  /\ pc = "done" => Len(result) = Len(Requests)
  /\ pc = "failed" => /\ result = <<>>
                      /\ \E i \in 1 .. Len(Requests) : ParseMessage(line.type, Requests[i]) = {}

\* Where a run is when it parses messages, and how it comes to an exit code.
ExitInv ==
  /\ phase \notin {"return", "done"} => exit = "none"
  /\ phase \in CallPhases \/ pc # "parse" => asks.options = {}
  /\ exit = "0" /\ asks.options = {} => written = Len(result) /\ received = Len(line.replies)

\* Requests are written before replies are read.
CountInv ==
  /\ written \in 0 .. Len(result) /\ received \in 0 .. Len(line.replies)
  /\ received > 0 => written = Len(result)
  /\ pc = "parse" => written = 0 /\ received = 0 /\ printed = <<>>

\* What is printed, as long as no error occurred.
PrintedSoFar ==
  LET n == IF line.printParsed THEN written ELSE 0
  IN  /\ IsList(printed) /\ Len(printed) = n + received
      /\ \A i \in 1 .. n : printed[i] = TextOf(line.type, result[i], line)
      /\ \A i \in 1 .. received : printed[n + i] = TextOf(line.replyType, line.replies[i], line)

ProgramInv ==
  /\ LineInv /\ ParserInv /\ ExitInv /\ CountInv
  /\ exit \in {"none", "0"} => PrintedSoFar

\* Append to a list.
LEMMA AppendToList ==
  ASSUME NEW s, IsList(s), NEW e
  PROVE  /\ Len(s) \in Nat /\ DOMAIN s = 1 .. Len(s)
         /\ IsList(Append(s, e)) /\ Len(Append(s, e)) = Len(s) + 1
         /\ \A i \in 1 .. Len(s) : Append(s, e)[i] = s[i]
         /\ Append(s, e)[Len(s) + 1] = e
<1> DEFINE S == {s[i] : i \in DOMAIN s}
           T == S \cup {e}
           t == Append(s, e)
<1>1. s \in Seq(S)
  BY DEF IsList
<1> HIDE DEF S
<1>2. s \in Seq(T) /\ e \in T
  BY <1>1
<1> HIDE DEF T
<1>3. /\ Len(s) \in Nat /\ DOMAIN s = 1 .. Len(s)
      /\ t \in Seq(T) /\ Len(t) = Len(s) + 1
      /\ \A i \in 1 .. Len(s) : t[i] = s[i]
      /\ t[Len(s) + 1] = e
  BY <1>2
<1>4. IsList(t)
  <2> HIDE DEF t
  <2>1. t = [i \in 1 .. Len(t) |-> t[i]] /\ DOMAIN t = 1 .. Len(t) /\ Len(t) \in Nat
    BY <1>3
  <2>2. t \in [1 .. Len(t) -> {t[i] : i \in DOMAIN t}]
    BY <2>1
  <2>3. t \in Seq({t[i] : i \in DOMAIN t})
    BY <2>1, <2>2
  <2> QED
    BY <2>3 DEF IsList
<1> QED
  BY <1>3, <1>4

LEMMA EmptyList == IsList(<<>>) /\ Len(<<>>) = 0
  BY DEF IsList

\* What is known of the lists of a line.
LEMMA LineLists ==
  ASSUME LineInv
  PROVE  /\ Len(Requests) \in Nat /\ DOMAIN Requests = 1 .. Len(Requests)
         /\ Len(line.replies) \in Nat /\ asks \in Asked /\ line.type \in DOMAIN MessageTypes
<1>1. /\ asks \in Asked /\ Len(line.replies) \in Nat /\ line.type \in DOMAIN MessageTypes
      /\ Len(line.messages) \in Nat /\ DOMAIN line.messages = 1 .. Len(line.messages)
  BY LinesAssumption DEF LineInv
<1>2. Len(<< <<>> >>) = 1 /\ DOMAIN << <<>> >> = 1 .. 1
  OBVIOUS
<1> QED
  BY <1>1, <1>2 DEF Requests, RequestsOf

LEMMA ProgramInvInit == ASSUME ProgramInit PROVE ProgramInv
<1> USE DEF ProgramInit, ParserInit, Init
<1>1. LineInv
  BY DEF LineInv
<1>2. Len(Requests) \in Nat /\ Len(line.replies) \in Nat
  BY <1>1, LineLists
<1>3. ParserInv
  BY <1>2, EmptyList DEF ParserInv
<1>4. ExitInv
  BY DEF ExitInv, CallPhases
<1>5. CountInv
  BY <1>2, EmptyList DEF CountInv
<1>6. PrintedSoFar
  BY EmptyList DEF PrintedSoFar
<1> QED
  BY <1>1, <1>3, <1>4, <1>5, <1>6 DEF ProgramInv

\* The steps before and after the call leave the messages alone.
LEMMA ProgramInvConnection ==
  ASSUME ProgramInv, (Main \/ BeforeRpc \/ Destroy) /\ UNCHANGED <<parser, call>>
  PROVE  ProgramInv'
<1> /\ line' = line /\ result' = result /\ pc' = pc
    /\ written' = written /\ received' = received /\ printed' = printed
  BY DEF parser, call
<1>1. /\ asks' = asks
      /\ exit' = exit \/ (exit' = "0" /\ asks.options # {}) \/ exit' \in {"-1", "failure", "aborted"}
      /\ phase' \notin {"return", "done"} => exit' = exit /\ phase \notin {"return", "done"}
      /\ phase' \in CallPhases => phase \in CallPhases \/ asks.options = {}
  <2>1. CASE Main
    BY <2>1 DEF Main, RegisterFails, ParseEnds, ReportError, Inject, Answers, Return, CallPhases
  <2>2. CASE BeforeRpc
    BY <2>2 DEF BeforeRpc, GetChannel, WaitForChannelConnected, ConnectTimeoutThrows, FindService, FindMethod,
                ConvertDeadline, CloseDescDbStream, Return, CallPhases
  <2>3. CASE Destroy
    BY <2>3 DEF Destroy, CallPhases
  <2> QED
    BY <2>1, <2>2, <2>3
<1>2. LineInv' /\ ParserInv' /\ CountInv'
  BY <1>1 DEF ProgramInv, LineInv, ParserInv, CountInv, Requests, RequestsOf
<1>3. ExitInv'
  BY <1>1 DEF ProgramInv, ExitInv
<1>4. exit' \in {"none", "0"} => PrintedSoFar'
  <2>1. ASSUME exit' \in {"none", "0"} PROVE PrintedSoFar
    <3>1. CASE exit' = exit
      BY <2>1, <3>1 DEF ProgramInv
    <3>2. CASE asks.options # {}
      <4>1. pc = "parse"
        BY <3>2 DEF ProgramInv, ExitInv
      <4>2. written = 0 /\ received = 0 /\ printed = <<>>
        BY <4>1 DEF ProgramInv, CountInv
      <4> QED
        BY <4>2, EmptyList DEF PrintedSoFar
    <3> QED
      BY <1>1, <2>1, <3>1, <3>2
  <2> QED
    BY <2>1 DEF PrintedSoFar
<1> QED
  BY <1>2, <1>3, <1>4 DEF ProgramInv

\* The request messages are parsed before the first of them is written.
LEMMA ProgramInvParser ==
  ASSUME ProgramInv, phase = "rpc", ParserNext, UNCHANGED <<invocation, call>>
  PROVE  ProgramInv'
<1> /\ asks' = asks /\ phase' = phase /\ exit' = exit /\ line' = line
    /\ written' = written /\ received' = received /\ printed' = printed
  BY DEF invocation, call, ParserNext, ParseNext, Parsed
<1> DEFINE r == Requests
<1>1. Requests' = r
  BY DEF Requests, RequestsOf
<1>2. LineInv /\ ParserInv /\ ExitInv /\ CountInv
  BY DEF ProgramInv
<1>3. r = Requests /\ Len(r) \in Nat /\ Len(line.replies) \in Nat
  BY <1>2, LineLists
<1> HIDE DEF r
<1>4. pc = "parse" /\ written = 0 /\ received = 0 /\ printed = <<>> /\ exit = "none" /\ asks.options = {}
  BY <1>2 DEF ParserNext, ParseNext, Parsed, CountInv, ExitInv, CallPhases
<1>5. LineInv'
  BY <1>2 DEF LineInv
<1>6. ParserInv'
  <2>1. CASE Parsed
    BY <1>1, <1>2, <1>3, <2>1 DEF Parsed, ParserInv
  <2>2. CASE ParseNext
    <3> DEFINE i == Len(result) + 1
               owned == ParseMessage(line.type, r[i])
    <3>1. /\ Len(result) \in Nat /\ i \in 1 .. Len(r)
          /\ \/ owned = {} /\ result' = <<>> /\ pc' = "failed"
             \/ \E msg \in owned : result' = Append(result, msg) /\ pc' = pc
      <4>1. Len(result) \in Nat
        BY <1>2, AppendToList DEF ParserInv
      <4> QED
        BY <1>3, <2>2, <4>1 DEF ParseNext
    <3>2. CASE owned = {} /\ result' = <<>> /\ pc' = "failed"
      BY <1>1, <1>3, <3>1, <3>2, EmptyList DEF ParserInv
    <3>3. ASSUME NEW msg \in owned, result' = Append(result, msg), pc' = pc PROVE ParserInv'
      <4>1. pc' = "parse" /\ IsList(result)
        BY <1>2, <1>4, <3>3 DEF ParserInv
      <4>2. /\ IsList(result') /\ Len(result') = i
            /\ \A j \in 1 .. Len(result) : result'[j] = result[j]
            /\ result'[i] = msg
        BY <3>3, <4>1, AppendToList
      <4>3. \A j \in 1 .. i : result'[j] \in ParseMessage(line.type, r[j])
        <5>1. \A j \in 1 .. i : j = i \/ j \in 1 .. Len(result)
          BY <3>1
        <5> QED
          BY <1>2, <1>3, <3>3, <4>2, <5>1 DEF ParserInv
      <4> QED
        BY <1>1, <3>1, <4>1, <4>2, <4>3 DEF ParserInv
    <3> QED
      BY <3>1, <3>2, <3>3
  <2> QED
    BY <2>1, <2>2 DEF ParserNext
<1>7. Len(result') \in Nat
  BY <1>6, AppendToList DEF ParserInv
<1>8. ExitInv' /\ CountInv' /\ PrintedSoFar'
  BY <1>3, <1>4, <1>7, EmptyList DEF ExitInv, CountInv, PrintedSoFar
<1> QED
  BY <1>5, <1>6, <1>8 DEF ProgramInv

\* A call that ends with an error, or is aborted.
LEMMA ProgramInvError ==
  ASSUME ProgramInv, Calling, CallEnds("-1") \/ CallAborts, UNCHANGED parser,
         written' = written, received' = received
  PROVE  ProgramInv'
<1>1. /\ asks' = asks /\ line' = line /\ result' = result /\ pc' = pc /\ pc # "parse"
      /\ exit' \in {"-1", "aborted"} /\ phase' \in {"return", "done"}
  BY DEF Calling, CallEnds, CallAborts, Return, parser
<1> QED
  BY <1>1 DEF ProgramInv, LineInv, ParserInv, ExitInv, CountInv, Requests, RequestsOf, CallPhases

LEMMA ProgramInvWrite == ASSUME ProgramInv, WriteRequest PROVE ProgramInv'
<1> DEFINE text == TextOf(line.type, result[written + 1], line)
<1> /\ line' = line /\ result' = result /\ pc' = pc
  BY DEF WriteRequest, parser
<1>1. Calling /\ pc # "parse" /\ phase = "rpc" /\ written < Len(result)
  BY DEF WriteRequest, Accepted, Calling
<1>2. LineInv /\ ParserInv /\ ExitInv /\ CountInv
  BY DEF ProgramInv
<1>3. /\ exit = "none" /\ asks.options = {}
      /\ Len(result) \in Nat /\ written \in 0 .. Len(result) /\ received = 0
  BY <1>1, <1>2, AppendToList DEF ExitInv, ParserInv, CountInv
<1>4. PrintedSoFar
  BY <1>3 DEF ProgramInv
<1>5. CASE line.printParsed /\ Aborts(text)
  BY <1>1, <1>5, ProgramInvError DEF WriteRequest, call
<1>6. CASE ~(line.printParsed /\ Aborts(text)) /\ written = line.whole
  BY <1>1, <1>6, ProgramInvError DEF WriteRequest
<1>7. CASE ~(line.printParsed /\ Aborts(text)) /\ written # line.whole
  <2>1. /\ printed' = IF line.printParsed THEN Append(printed, text) ELSE printed
        /\ written' = written + 1 /\ received' = 0 /\ UNCHANGED invocation
    BY <1>3, <1>7 DEF WriteRequest
  <2>2. LineInv' /\ ParserInv'
    BY <1>2, <2>1 DEF LineInv, ParserInv, Requests, invocation
  <2>3. ExitInv' /\ CountInv'
    BY <1>1, <1>2, <1>3, <2>1 DEF ExitInv, CountInv, invocation
  <2>4. PrintedSoFar'
    <3>1. CASE ~line.printParsed
      BY <1>3, <1>4, <2>1, <3>1 DEF PrintedSoFar
    <3>2. CASE line.printParsed
      <4>1. IsList(printed) /\ Len(printed) = written /\ \A i \in 1 .. written : printed[i] = TextOf(line.type, result[i], line)
        BY <1>3, <1>4, <3>2 DEF PrintedSoFar
      <4>2. /\ IsList(printed') /\ Len(printed') = written + 1
            /\ \A i \in 1 .. written : printed'[i] = printed[i]
            /\ printed'[written + 1] = text
        BY <2>1, <3>2, <4>1, AppendToList
      <4>3. \A i \in 1 .. written + 1 : i = written + 1 \/ i \in 1 .. written
        BY <1>3
      <4>4. \A i \in 1 .. written + 1 : printed'[i] = TextOf(line.type, result[i], line)
        BY <4>1, <4>2, <4>3
      <4>5. /\ IsList(printed') /\ Len(printed') = written + 1 + 0
            /\ \A i \in 1 .. 0 : printed'[written + 1 + i] = TextOf(line.replyType, line.replies[i], line)
        BY <1>3, <4>2
      <4> QED
        BY <2>1, <3>2, <4>4, <4>5 DEF PrintedSoFar
    <3> QED
      BY <3>1, <3>2
  <2> QED
    BY <2>2, <2>3, <2>4 DEF ProgramInv
<1> QED
  BY <1>5, <1>6, <1>7

LEMMA ProgramInvRead == ASSUME ProgramInv, ReadReply PROVE ProgramInv'
<1> DEFINE text == TextOf(line.replyType, line.replies[received + 1], line)
           n == IF line.printParsed THEN written ELSE 0
<1> /\ line' = line /\ result' = result /\ pc' = pc
  BY DEF ReadReply, parser
<1>1. Calling /\ pc # "parse" /\ phase = "rpc" /\ written = Len(result) /\ received < Len(line.replies)
  BY DEF ReadReply, Reading, Accepted, Calling
<1>2. LineInv /\ ParserInv /\ ExitInv /\ CountInv
  BY DEF ProgramInv
<1>3. exit = "none" /\ asks.options = {} /\ Len(result) \in Nat /\ Len(line.replies) \in Nat
  BY <1>1, <1>2, AppendToList, LineLists DEF ExitInv, ParserInv
<1>4. /\ n \in Nat /\ received \in Nat
      /\ IsList(printed) /\ Len(printed) = n + received
      /\ \A i \in 1 .. n : printed[i] = TextOf(line.type, result[i], line)
      /\ \A i \in 1 .. received : printed[n + i] = TextOf(line.replyType, line.replies[i], line)
  <2>1. PrintedSoFar
    BY <1>3 DEF ProgramInv
  <2>2. written \in Nat /\ received \in Nat
    BY <1>1, <1>2, <1>3 DEF CountInv
  <2>3. n \in Nat
    BY <2>2
  <2> QED
    BY <2>1, <2>2, <2>3 DEF PrintedSoFar
<1>5. CASE Aborts(text)
  BY <1>1, <1>5, ProgramInvError DEF ReadReply, call
<1>6. CASE ~Aborts(text)
  <2>1. printed' = Append(printed, text) /\ received' = received + 1 /\ written' = written /\ UNCHANGED invocation
    BY <1>6 DEF ReadReply
  <2>2. LineInv' /\ ParserInv'
    BY <1>2, <2>1 DEF LineInv, ParserInv, Requests, invocation
  <2>3. ExitInv' /\ CountInv'
    BY <1>1, <1>2, <1>3, <1>4, <2>1 DEF ExitInv, CountInv, invocation
  <2>4. /\ IsList(printed') /\ Len(printed') = n + received + 1
        /\ \A i \in 1 .. n + received : printed'[i] = printed[i]
        /\ printed'[n + received + 1] = text
    BY <1>4, <2>1, AppendToList
  <2> HIDE DEF n
  <2>5. \A i \in 1 .. n : printed'[i] = TextOf(line.type, result[i], line)
    BY <1>4, <2>4
  <2>6. \A i \in 1 .. received + 1 : printed'[n + i] = TextOf(line.replyType, line.replies[i], line)
    <3>1. \A i \in 1 .. received + 1 : i = received + 1 \/ (i \in 1 .. received /\ n + i \in 1 .. n + received)
      BY <1>4
    <3>2. n + (received + 1) = n + received + 1
      BY <1>4
    <3> QED
      BY <1>4, <2>4, <3>1, <3>2
  <2>7. PrintedSoFar'
    <3>1. Len(printed') = n + (received + 1)
      BY <1>4, <2>4
    <3> QED
      BY <2>1, <2>4, <2>5, <2>6, <3>1 DEF PrintedSoFar, n
  <2> QED
    BY <2>2, <2>3, <2>7 DEF ProgramInv
<1> QED
  BY <1>5, <1>6

LEMMA ProgramInvFinish == ASSUME ProgramInv, Finish PROVE ProgramInv'
<1>1. /\ asks' = asks /\ line' = line /\ result' = result /\ pc' = pc /\ pc # "parse"
      /\ written' = written /\ received' = received /\ printed' = printed
      /\ exit' \in {"0", "-1"} /\ phase' = "return" /\ phase = "rpc"
      /\ written = Len(result) /\ received = Len(line.replies)
  BY DEF Finish, Reading, Accepted, Calling, CallEnds, Return, parser, call
<1>2. LineInv' /\ ParserInv' /\ ExitInv' /\ CountInv'
  BY <1>1 DEF ProgramInv, LineInv, ParserInv, ExitInv, CountInv, Requests, RequestsOf, CallPhases
<1>3. PrintedSoFar'
  BY <1>1 DEF ProgramInv, ExitInv, PrintedSoFar
<1> QED
  BY <1>2, <1>3 DEF ProgramInv

LEMMA ProgramInvDangling == ASSUME ProgramInv, DanglingLookup PROVE ProgramInv'
<1>1. /\ asks' = asks /\ UNCHANGED <<line, result, pc, written, received, printed>>
      /\ exit' = "aborted" /\ phase' = "done" /\ phase = "rpc"
  BY DEF DanglingLookup, CallAborts, parser, call
<1> QED
  BY <1>1 DEF ProgramInv, LineInv, ParserInv, ExitInv, CountInv, Requests, RequestsOf, CallPhases

LEMMA ProgramInvNext == ASSUME ProgramInv, [ProgramNext]_program PROVE ProgramInv'
<1>1. CASE UNCHANGED program
  BY <1>1 DEF program, invocation, parser, call, ProgramInv, LineInv, ParserInv, ExitInv, CountInv,
              PrintedSoFar, Requests, RequestsOf
<1>2. CASE RefuseArguments
  BY <1>2, ProgramInvError DEF RefuseArguments, call
<1> QED
  BY <1>1, <1>2, ProgramInvConnection, ProgramInvParser, ProgramInvWrite, ProgramInvRead, ProgramInvFinish,
     ProgramInvDangling
  DEF ProgramNext, Call

\* The account of the messages is right in every run of the program.
THEOREM ProgramInvariant == ProgramSpec => []ProgramInv
  BY ProgramInvInit, ProgramInvNext, PTL DEF ProgramSpec

\* What parseMessages makes of a line.
RequestsParsed ==
  /\ pc = "done" => /\ Len(result) = Len(Requests)
                    /\ \A i \in 1 .. Len(Requests) : result[i] \in ParseMessage(line.type, Requests[i])
  /\ pc = "failed" => /\ result = <<>>
                      /\ \E i \in 1 .. Len(Requests) : ParseMessage(line.type, Requests[i]) = {}

\* The requests of a call are what the parse trees of its line become, one for
\* each and in order, or there are none because one of them could not be parsed.
THEOREM RequestsOfLine == ProgramSpec => []RequestsParsed
<1>1. ProgramInv => RequestsParsed
  BY DEF ProgramInv, ParserInv, RequestsParsed
<1> QED
  BY <1>1, ProgramInvariant, PTL

\* Whatever the line and the formatter are: a run that ends with
\* exit code 0 has printed its requests, if asked, and all replies, in order and
\* once, or has answered an option and called nothing.
THEOREM PrintsExactly == ProgramSpec => []PrintedExactly
<1>1. ASSUME ProgramInv PROVE PrintedExactly
  <2> SUFFICES ASSUME exit = "0" PROVE PrintedExactly
    BY DEF PrintedExactly
  <2>1. CASE asks.options # {}
    BY <1>1, <2>1 DEF ProgramInv, ExitInv, CountInv, PrintedExactly
  <2>2. CASE asks.options = {}
    <3> DEFINE shown == IF line.printParsed THEN result ELSE <<>>
    <3>1. PrintedSoFar /\ written = Len(result) /\ received = Len(line.replies) /\ Len(line.replies) \in Nat
      BY <1>1, <2>2, LineLists DEF ProgramInv, ExitInv
    <3>2. Len(shown) = IF line.printParsed THEN written ELSE 0
      BY <3>1, EmptyList
    <3>3. DOMAIN line.replies = 1 .. Len(line.replies)
      BY <1>1, LinesAssumption DEF ProgramInv, LineInv
    <3>4. \A i \in 1 .. Len(shown) : shown[i] = result[i]
      BY <3>1, <3>2
    <3> HIDE DEF shown
    <3>5. /\ Len(printed) = Len(shown) + Len(line.replies)
          /\ \A i \in 1 .. Len(shown) : printed[i] = TextOf(line.type, shown[i], line)
          /\ \A i \in DOMAIN line.replies :
               printed[Len(shown) + i] = TextOf(line.replyType, line.replies[i], line)
      BY <3>1, <3>2, <3>3, <3>4 DEF PrintedSoFar
    <3> QED
      BY <2>2, <3>5 DEF PrintedExactly, shown
  <2> QED
    BY <2>1, <2>2
<1> QED
  BY <1>1, ProgramInvariant, PTL

----------------------------------------------------------------------------
(* What the program makes of a line.                                       *)

\* The requests of a line are of the grammar.
LEMMA RequestFits ==
  ASSUME LineInv, NEW i \in DOMAIN Requests
  PROVE  RootFits(<<line.type, Requests[i]>>)
<1> DEFINE root == <<line.type, Requests[i]>>
<1>1. TreesBelow("all", root, MaxDepth) = {} /\ \A t \in TreesOf("all", line.type, Requests[i]) : TreeFits(t)
  BY TreesAssumption DEF LineInv, Requests
<1>2. \A n \in 0 .. MaxDepth : \A t \in TreesBelow("all", root, n) : TreeFits(t)
  BY <1>1 DEF TreesOf
<1>3. root[1] \in DOMAIN MessageTypes
  BY LineLists
<1> QED
  BY <1>1, <1>2, <1>3 DEF RootFits

\* Whatever the line: the values of its requests are in the range of their fields,
\* and every message in them has the fields of its type, at whatever depth.
THEOREM RequestsTyped == ProgramSpec => []MessagesTyped
<1>1. ASSUME ProgramInv PROVE MessagesTyped
  <2>1. LineInv /\ ParserInv
    BY <1>1 DEF ProgramInv
  <2>2. /\ line.type \in DOMAIN MessageTypes
        /\ Len(Requests) \in Nat /\ DOMAIN Requests = 1 .. Len(Requests)
    BY <2>1, LineLists
  <2>3. ASSUME NEW i \in DOMAIN result PROVE WellTyped(line.type, result[i])
    <3>1. Len(result) \in Nat /\ DOMAIN result = 1 .. Len(result)
      BY <2>1, AppendToList DEF ParserInv
    <3>2. i \in 1 .. Len(result) /\ Len(result) <= Len(Requests)
      BY <2>1, <2>3, <3>1 DEF ParserInv
    <3>3. i \in DOMAIN Requests
      BY <2>2, <3>1, <3>2
    <3>4. result[i] \in ParseMessage(line.type, Requests[i])
      BY <2>1, <3>2 DEF ParserInv
    <3>5. RootFits(<<line.type, Requests[i]>>)
      BY <2>1, <3>3, RequestFits
    <3> QED
      BY <3>4, <3>5, ParsedIsTyped
  <2> QED
    BY <2>1, <2>2, <2>3 DEF MessagesTyped, ParserInv
<1> QED
  BY <1>1, ProgramInvariant, PTL

\* Whatever the line: if one of the last values of its fields cannot be converted,
\* at whatever depth, nothing is sent.
THEOREM ErrorsRefused == ProgramSpec => []ErrorRefused
<1>1. ASSUME ProgramInv, pc = "done", NEW i \in DOMAIN Requests PROVE ~HasError("last", line.type, Requests[i])
  <2>1. LineInv /\ ParserInv
    BY <1>1 DEF ProgramInv
  <2>2. ParseMessage(line.type, Requests[i]) # {}
    BY <1>1, <2>1, LineLists DEF ParserInv
  <2>3. RootFits(<<line.type, Requests[i]>>)
    BY <2>1, RequestFits
  <2> QED
    BY <2>2, <2>3, ParsedHasNoError
<1>2. ProgramInv => ErrorRefused
  BY <1>1 DEF ErrorRefused
<1> QED
  BY <1>2, ProgramInvariant, PTL

\* Whatever the line: if all its values can be converted, its requests are exactly
\* what it means; it is refused only if one cannot.
THEOREM LinesExact == ProgramSpec => []GoodLineExact
<1>1. ASSUME ProgramInv, NEW i \in DOMAIN Requests, ~HasError("all", line.type, Requests[i])
      PROVE  ParseMessage(line.type, Requests[i]) = {Meaning(line.type, Requests[i])}
  <2>1. RootFits(<<line.type, Requests[i]>>)
    BY <1>1, RequestFits DEF ProgramInv
  <2> QED
    BY <1>1, <2>1, ParsedIsMeaning
<1>2. ASSUME ProgramInv PROVE GoodLineExact
  <2>1. LineInv /\ ParserInv
    BY <1>2 DEF ProgramInv
  <2>2. Len(Requests) \in Nat /\ DOMAIN Requests = 1 .. Len(Requests)
    BY <2>1, LineLists
  <2>3. ASSUME pc = "failed" PROVE \E i \in DOMAIN Requests : HasError("all", line.type, Requests[i])
    <3>1. PICK i \in DOMAIN Requests : ParseMessage(line.type, Requests[i]) = {}
      BY <2>1, <2>2, <2>3 DEF ParserInv
    <3> QED
      BY <1>1, <1>2, <3>1
  <2>4. ASSUME pc = "done", \A i \in DOMAIN Requests : ~HasError("all", line.type, Requests[i])
        PROVE  result = [i \in DOMAIN Requests |-> Meaning(line.type, Requests[i])]
    <3>1. /\ IsList(result) /\ Len(result) = Len(Requests)
          /\ \A i \in 1 .. Len(result) : result[i] \in ParseMessage(line.type, Requests[i])
      BY <2>1, <2>4 DEF ParserInv
    <3>2. \A i \in DOMAIN Requests : result[i] = Meaning(line.type, Requests[i])
      BY <1>1, <1>2, <2>2, <2>4, <3>1
    <3>3. result = [i \in DOMAIN result |-> result[i]] /\ DOMAIN result = 1 .. Len(result)
      BY <3>1 DEF IsList
    <3> QED
      BY <2>2, <3>1, <3>2, <3>3
  <2> QED
    BY <2>3, <2>4 DEF GoodLineExact
<1> QED
  BY <1>2, ProgramInvariant, PTL

\* Whatever the line: each number that it gives a field of integers, at whatever
\* depth, is stored exactly if the field can hold it, although it is read digit by
\* digit, in a wider type, and then narrowed.
THEOREM NumbersStored == ProgramSpec => []NumbersExact
<1>1. ASSUME LineInv, NEW f \in NumberFields PROVE NumberExact(f.fd, f.text)
  <2>1. PICK i \in DOMAIN Requests : \E t \in TreesOf("all", line.type, Requests[i]) : f \in NumbersIn(t)
    BY <1>1 DEF NumberFields
  <2>2. PICK t \in TreesOf("all", line.type, Requests[i]) : f \in NumbersIn(t)
    BY <2>1
  <2>3. RootFits(<<line.type, Requests[i]>>)
    BY <1>1, RequestFits
  <2>4. t[1] \in DOMAIN MessageTypes /\ TreeFits(t)
    <3>1. PICK n \in 0 .. MaxDepth : t \in TreesBelow("all", <<line.type, Requests[i]>>, n)
      BY <2>2 DEF TreesOf
    <3>2. TreeFits(t)
      BY <2>3, <3>1 DEF RootFits
    <3>3. t[1] \in DOMAIN MessageTypes
      BY <2>3, <3>1, TreesHaveTypes
    <3> QED
      BY <3>2, <3>3
  <2>5. PICK j \in DOMAIN t[2] :
          /\ HasValue(t[1], t[2][j]) /\ FindFieldByName(t[1], t[2][j].name).kind \in {"int", "uint"}
          /\ f \in {[fd |-> FindFieldByName(t[1], t[2][j].name), text |-> v] :
                      v \in Counting("all", FindFieldByName(t[1], t[2][j].name), t[2][j].value)}
    BY <2>2 DEF NumbersIn
  <2> DEFINE fd == FindFieldByName(t[1], t[2][j].name)
             value == t[2][j].value
  <2>6. PICK v \in Counting("all", fd, value) : f = [fd |-> fd, text |-> v]
    BY <2>5
  <2>7. f.fd = fd /\ f.text = v
    BY <2>6
  <2>8. IsNumber(v)
    BY <2>4, <2>5, <2>6 DEF TreeFits
  <2>9. fd \in Fields(t[1])
    BY <2>4, <2>5, FieldIs DEF HasValue
  <2>10. fd.kind \in {"int", "uint"} /\ fd.of \in 1 .. LongBits
    BY <2>4, <2>5, <2>9, ValuesAssumption
  <2> HIDE DEF fd
  <2> QED
    BY <2>7, <2>8, <2>10, NumberStored
<1>2. ProgramInv => NumbersExact
  BY <1>1 DEF ProgramInv, NumbersExact
<1> QED
  BY <1>2, ProgramInvariant, PTL

----------------------------------------------------------------------------
(* What the program prints of the replies.                                 *)

\* The last text is that of the last reply that was read.
LEMMA LastTextIs ==
  ASSUME ProgramInv, phase = "rpc", received > 0
  PROVE  /\ LastText = Formatted(line.replyType, line.replies[received], line)
         /\ Fits(line.replyType, line.replies[received])
         /\ \A m \in Similar[line.replyType] : Fits(line.replyType, m)
<1>1. LineInv /\ ExitInv /\ CountInv
  BY DEF ProgramInv
<1>2. exit = "none"
  BY <1>1 DEF ExitInv
<1>3. PrintedSoFar
  BY <1>2 DEF ProgramInv
<1>4. Len(line.replies) \in Nat /\ DOMAIN line.replies = 1 .. Len(line.replies)
  BY <1>1, LinesAssumption DEF LineInv
<1>5. received \in 1 .. received /\ received \in DOMAIN line.replies
  BY <1>1, <1>4 DEF CountInv
<1>6. LastText = TextOf(line.replyType, line.replies[received], line)
  BY <1>3, <1>5 DEF PrintedSoFar, LastText
<1>7. /\ line.replyType \in DOMAIN Similar
      /\ \A i \in DOMAIN line.replies :
           /\ Fits(line.replyType, line.replies[i])
           /\ TextOf(line.replyType, line.replies[i], line) = Formatted(line.replyType, line.replies[i], line)
  BY <1>1, RepliesAssumption DEF LineInv
<1>8. \A m \in Similar[line.replyType] : Fits(line.replyType, m)
  BY <1>7, RepliesAssumption
<1> QED
  BY <1>5, <1>6, <1>7, <1>8

\* Whatever the types of the replies: the text for humans that is printed last is
\* that of another message exactly if what Shown says of the two is the same, as long
\* as no string in them holds a quote.
THEOREM TextsTell == ProgramSpec => []TextTells
<1>1. ASSUME ProgramInv PROVE TextTells
  <2> SUFFICES ASSUME phase = "rpc", received > 0, ~line.json, line.custom = NoFormat,
                      Quoteless(line.replyType, line.replies[received]),
                      NEW m \in Similar[line.replyType], Quoteless(line.replyType, m)
               PROVE  Formatted(line.replyType, m, line) = LastText <=>
                        Shown(line.replyType, m, line.simple) =
                          Shown(line.replyType, line.replies[received], line.simple)
    BY DEF TextTells
  <2>1. /\ LastText = Formatted(line.replyType, line.replies[received], line)
        /\ Fits(line.replyType, line.replies[received]) /\ Fits(line.replyType, m)
    BY <1>1, LastTextIs
  <2>2. \A msg : Formatted(line.replyType, msg, line) = MessageToString(line.replyType, msg, 1, line.simple)
    BY DEF Formatted
  <2>3. MessageToString(line.replyType, m, 1, line.simple) =
          MessageToString(line.replyType, line.replies[received], 1, line.simple) <=>
        Shown(line.replyType, m, line.simple) = Shown(line.replyType, line.replies[received], line.simple)
    <3>1. 1 \in Nat
      OBVIOUS
    <3> QED
      BY <2>1, <3>1, TextIsShown
  <2> QED
    BY <2>1, <2>2, <2>3
<1> QED
  BY <1>1, ProgramInvariant, PTL
=============================================================================
