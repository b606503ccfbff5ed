------------------------------ MODULE RpcCall ------------------------------
(***************************************************************************)
(* One remote procedure call of gWhisper: cli::call from the computation   *)
(* of the deadline to the exit code, and the CliCall it drives.            *)
(*                                                                         *)
(* CliCall makes the asynchronous gRPC stream synchronous: every operation *)
(* is started and then waited for in the completion queue.  call() writes  *)
(* all requests, ends the request stream, and only then reads replies.     *)
(* The two directions of the stream are flow controlled: Window messages   *)
(* per direction can be on their way before a writer has to wait.          *)
(*                                                                         *)
(* Messages are counted; gRPC delivers them in order and at most once.     *)
(* The server and the gRPC library are not part of the repository: they    *)
(* are modelled from how the code uses them.                               *)
(***************************************************************************)
EXTENDS Integers

CONSTANTS
  MaxMessages,     \* bound: messages on the command line
  Window,          \* messages on their way in one direction
  Fan,             \* replies of the server to one request, at most
  DefaultTimeout,  \* timeout of a unary call in which none is set
  Timeouts,        \* values given to --rpcTimeoutMilliseconds
  CloseTime,       \* g_timeoutGrpcMainStreamSeconds
  MaxTime,         \* bound: the clock stops here
  MayBreak         \* whether the connection can be lost

ASSUME CallAssumption ==
  /\ {MaxMessages, Fan, DefaultTimeout, CloseTime, MaxTime} \subseteq Nat
  /\ Window \in Nat \ {0}
  /\ Timeouts \subseteq Nat
  /\ MayBreak \in BOOLEAN

Never == -1        \* no deadline
Unset == -2        \* the timeout option is not given

VARIABLES
  now,       \* wall clock
  method,    \* the called method, and how its server answers
  args,      \* what the command line says about the call
  pc,        \* where the client is
  start,     \* when the call was started
  deadline,  \* of the call
  requests,  \* number of request messages
  written,   \* requests written
  printed,   \* replies printed
  ended,     \* status with which the call has ended for the client, or "no"
  halfDone,  \* the request stream is ended
  c2s,       \* requests on their way
  s2c,       \* replies on their way
  server,    \* "idle", "running", or how the server has ended the call
  got,       \* requests the server has received
  sent,      \* replies the server has sent
  owed,      \* replies it has still to send before it receives again
  summed     \* it has seen the end of the request stream

timeVars   == <<now, start, deadline>>
inputVars  == <<method, args>>
clientVars == <<requests, written, printed, halfDone>>
serverVars == <<server, got, sent, owed, summed>>
vars == <<timeVars, inputVars, pc, clientVars, ended, c2s, s2c, serverVars>>

\* A method of the server: whether requests and replies are streamed, and
\* whether it answers every request before it receives the next one.
Methods == {m \in [clientStreaming : BOOLEAN, serverStreaming : BOOLEAN, echo : BOOLEAN] :
              m.echo => m.clientStreaming /\ m.serverStreaming}

\* The command line: messages as fields or as JSON files, how many, how many
\* of them can be parsed, how many can be serialized before one that lacks a
\* required field, and the timeout.
CommandLines == {a \in [json : BOOLEAN, given : 0 .. MaxMessages, good : 0 .. MaxMessages,
                        whole : 0 .. MaxMessages, timeout : Timeouts \cup {Never, Unset}] :
                   a.good <= a.given /\ (a.json => a.given > 0)}

\* One message without colons for a method that does not stream requests.
Fits(a, m) == m.clientStreaming \/ a.json \/ a.given <= 1

Failures == {"ERR", "LOST", "DEADLINE"}
Exits    == {"exit0", "exitStatus", "exitArgs", "aborted"}
OnCall   == {"parse", "write", "read", "finish"}

Init ==
  /\ now = 0
  /\ method \in Methods
  /\ args \in {a \in CommandLines : Fits(a, method)}
  /\ pc = "deadline"
  /\ start = 0 /\ deadline = Never
  /\ requests = 0 /\ written = 0 /\ printed = 0
  /\ ended = "no" /\ halfDone = FALSE
  /\ c2s = 0 /\ s2c = 0
  /\ server = "idle" /\ got = 0 /\ sent = 0 /\ owed = 0 /\ summed = FALSE

----------------------------------------------------------------------------
(* The client: cli::call and CliCall.                                      *)

Streaming == method.clientStreaming \/ method.serverStreaming

\* Mutant: the option is used without a test whether it is given.
SetDeadline_NoTest ==
  /\ pc = "deadline"
  /\ deadline' = IF args.timeout = Never THEN Never ELSE now + args.timeout
  /\ pc' = "close"
  /\ UNCHANGED <<now, start, inputVars, clientVars, ended, c2s, s2c, serverVars>>

\* Mutant: a timeout that is set is forgotten for streaming methods.
SetDeadline_UnaryOnly ==
  /\ pc = "deadline"
  /\ deadline' = IF Streaming \/ args.timeout = Never THEN Never
                 ELSE IF args.timeout = Unset THEN now + DefaultTimeout
                 ELSE now + args.timeout
  /\ pc' = "close"
  /\ UNCHANGED <<now, start, inputVars, clientVars, ended, c2s, s2c, serverVars>>

\* Mutant: the value of the option is ignored.
SetDeadline_DefaultOnly ==
  /\ pc = "deadline"
  /\ deadline' = IF args.timeout = Never THEN Never ELSE now + DefaultTimeout
  /\ pc' = "close"
  /\ UNCHANGED <<now, start, inputVars, clientVars, ended, c2s, s2c, serverVars>>

\* The deadline is a point in time, fixed before the reflection stream is
\* closed.  A timeout that is set is used for every kind of method.
SetDeadline ==
  /\ pc = "deadline"
  /\ deadline' = CASE args.timeout = Never -> Never
                   [] args.timeout = Unset /\ Streaming -> Never
                   [] args.timeout = Unset /\ ~Streaming -> now + DefaultTimeout
                   [] args.timeout \in Timeouts -> now + args.timeout
  /\ pc' = "close"
  /\ UNCHANGED <<now, start, inputVars, clientVars, ended, c2s, s2c, serverVars>>

\* closeDescDbStream returns, at once or when its own deadline is reached;
\* its status is not looked at.
CloseReflection ==
  /\ pc = "close"
  /\ pc' = "start" /\ start' = now
  /\ UNCHANGED <<now, deadline, inputVars, clientVars, ended, c2s, s2c, serverVars>>

\* CHECK(ok): the operation did not go to the wire because the call is dead.
Abort ==
  /\ pc' = "aborted"
  /\ UNCHANGED <<timeVars, inputVars, clientVars, ended, c2s, s2c, serverVars>>

\* The constructor of CliCall.
StartCall ==
  /\ pc = "start"
  /\ \/ ended # "no" /\ Abort
     \/ /\ ended = "no"
        /\ pc' = "parse" /\ server' = "running"
        /\ UNCHANGED <<timeVars, inputVars, clientVars, ended, c2s, s2c, got, sent, owed, summed>>

\* MessageParserJson: files that cannot be read or parsed are skipped.
ParsedFiles(a) == a.good

\* Mutant: the messages that can be built are kept.
ParsedFields_KeepsGood(a, m) ==
  IF a.given = 0 THEN IF m.clientStreaming THEN 0 ELSE 1 ELSE a.good

\* MessageParserCli: one message that cannot be built empties the list; without
\* any, a method that does not stream gets a default message.
ParsedFields(a, m) ==
  IF a.given = 0 THEN IF m.clientStreaming THEN 0 ELSE 1
  ELSE IF a.good = a.given THEN a.given ELSE 0

Parsed(a, m) == IF a.json THEN ParsedFiles(a) ELSE ParsedFields(a, m)

\* Mutant: the number of messages of a unary call is not checked.
ParseMessages_AnyNumber ==
  /\ pc = "parse"
  /\ requests' = Parsed(args, method)
  /\ pc' = IF ~method.clientStreaming /\ requests' = 0 THEN "exitArgs" ELSE "write"
  /\ UNCHANGED <<timeVars, inputVars, written, printed, halfDone, ended, c2s, s2c, serverVars>>

ParseMessages ==
  /\ pc = "parse"
  /\ requests' = Parsed(args, method)
  /\ pc' = IF ~method.clientStreaming /\ requests' # 1 THEN "exitArgs" ELSE "write"
  /\ UNCHANGED <<timeVars, inputVars, written, printed, halfDone, ended, c2s, s2c, serverVars>>

\* Mutant: a message is sent twice.
Write_Twice ==
  /\ pc = "write" /\ written < requests
  /\ \/ written # args.whole /\ ended # "no" /\ Abort
     \/ /\ written # args.whole /\ ended = "no" /\ c2s < Window
        /\ written' = written + 1 /\ c2s' = c2s + 2
        /\ UNCHANGED <<timeVars, inputVars, pc, requests, printed, halfDone, ended, s2c, serverVars>>

\* CliCall::Write waits until the message is taken.
Taken ==
  /\ ended = "no" /\ c2s < Window
  /\ written' = written + 1 /\ c2s' = c2s + 1

\* A message is serialized and written, unless the call is dead.
Write ==
  /\ pc = "write" /\ written < requests
  /\ \/ /\ written = args.whole
        /\ pc' = "exitArgs"
        /\ UNCHANGED <<timeVars, inputVars, clientVars, ended, c2s, s2c, serverVars>>
     \/ written # args.whole /\ ended # "no" /\ Abort
     \/ /\ written # args.whole /\ Taken
        /\ UNCHANGED <<timeVars, inputVars, pc, requests, printed, halfDone, ended, s2c, serverVars>>

\* Mutant: the request stream is not ended.
WritesDone_LeftOpen ==
  /\ pc = "write" /\ written = requests
  /\ pc' = "read"
  /\ UNCHANGED <<timeVars, inputVars, clientVars, ended, c2s, s2c, serverVars>>

WritesDone ==
  /\ pc = "write" /\ written = requests
  /\ \/ ended # "no" /\ Abort
     \/ /\ ended = "no"
        /\ pc' = "read" /\ halfDone' = TRUE
        /\ UNCHANGED <<timeVars, inputVars, requests, written, printed, ended, c2s, s2c, serverVars>>

\* Mutant: reading stops when the call has ended, whatever is still buffered.
Read_StopsAtEnd ==
  /\ pc = "read"
  /\ \/ /\ ended = "no" /\ s2c > 0
        /\ s2c' = s2c - 1 /\ printed' = printed + 1
        /\ UNCHANGED pc
     \/ /\ ended # "no"
        /\ pc' = "finish"
        /\ UNCHANGED <<s2c, printed>>
  /\ UNCHANGED <<timeVars, inputVars, requests, written, halfDone, ended, c2s, serverVars>>

\* CliCall::Read waits for a reply or for the end of the call.
Arrived(ok) == IF ok THEN s2c > 0 /\ s2c' = s2c - 1
                     ELSE s2c = 0 /\ ended # "no" /\ UNCHANGED s2c

\* Replies are printed as they are read.
Read ==
  /\ pc = "read"
  /\ \/ Arrived(TRUE) /\ printed' = printed + 1 /\ UNCHANGED pc
     \/ Arrived(FALSE) /\ pc' = "finish" /\ UNCHANGED printed
  /\ UNCHANGED <<timeVars, inputVars, requests, written, halfDone, ended, c2s, serverVars>>

\* Mutant: the status is not looked at.
Finish_IgnoresStatus ==
  /\ pc = "finish"
  /\ pc' = "exit0"
  /\ UNCHANGED <<timeVars, inputVars, clientVars, ended, c2s, s2c, serverVars>>

Finish ==
  /\ pc = "finish"
  /\ pc' = IF ended = "OK" THEN "exit0" ELSE "exitStatus"
  /\ UNCHANGED <<timeVars, inputVars, clientVars, ended, c2s, s2c, serverVars>>

Client == SetDeadline \/ CloseReflection \/ StartCall \/ ParseMessages \/ Write
            \/ WritesDone \/ Read \/ Finish

----------------------------------------------------------------------------
(* The gRPC library.                                                       *)

\* The call is dead; replies that have not been read are discarded.
Kill(status) ==
  /\ ended' = status /\ s2c' = 0
  /\ UNCHANGED <<timeVars, inputVars, pc, clientVars, c2s, serverVars>>

Expire ==
  /\ pc \in OnCall \cup {"start"} /\ ended = "no"
  /\ deadline # Never /\ now >= deadline
  /\ Kill("DEADLINE")

Lose == MayBreak /\ pc \in OnCall \cup {"start"} /\ ended = "no" /\ Kill("LOST")

\* The trailers of the server arrive; they overtake requests, never replies.
Trailers ==
  /\ pc \in OnCall /\ ended = "no" /\ server \in {"OK", "ERR"}
  /\ ended' = server
  /\ UNCHANGED <<timeVars, inputVars, pc, clientVars, c2s, s2c, serverVars>>

Tick ==
  /\ now < MaxTime /\ pc \notin Exits \cup {"deadline"}
  /\ pc = "close" => now < CloseTime
  /\ now' = now + 1
  /\ UNCHANGED <<start, deadline, inputVars, pc, clientVars, ended, c2s, s2c, serverVars>>

----------------------------------------------------------------------------
(* The server.                                                             *)

Receive ==
  /\ server = "running" /\ owed = 0 /\ c2s > 0
  /\ c2s' = c2s - 1 /\ got' = got + 1
  /\ owed' = IF method.echo THEN Fan ELSE 0
  /\ UNCHANGED <<timeVars, inputVars, pc, clientVars, ended, s2c, server, sent, summed>>

\* The end of the requests: what has not been answered yet is answered now.
EndOfRequests ==
  /\ server = "running" /\ owed = 0 /\ c2s = 0 /\ halfDone /\ ~summed
  /\ summed' = TRUE
  /\ owed' \in CASE method.echo -> {0}
                 [] ~method.echo /\ method.serverStreaming -> 0 .. Fan
                 [] ~method.serverStreaming -> {1}
  /\ UNCHANGED <<timeVars, inputVars, pc, clientVars, ended, c2s, s2c, server, got, sent>>

Reply ==
  /\ server = "running" /\ owed > 0 /\ s2c < Window
  /\ ended = "no"
  /\ s2c' = s2c + 1 /\ sent' = sent + 1 /\ owed' = owed - 1
  /\ UNCHANGED <<timeVars, inputVars, pc, clientVars, ended, c2s, server, got, summed>>

Answer ==
  /\ server = "running" /\ summed /\ owed = 0
  /\ server' = "OK"
  /\ UNCHANGED <<timeVars, inputVars, pc, clientVars, ended, c2s, s2c, got, sent, owed, summed>>

\* The server refuses the call, possibly before it has seen all requests.
Refuse ==
  /\ server = "running"
  /\ server' = "ERR"
  /\ UNCHANGED <<timeVars, inputVars, pc, clientVars, ended, c2s, s2c, got, sent, owed, summed>>

Server == Receive \/ EndOfRequests \/ Reply \/ Answer \/ Refuse

Next == Client \/ Expire \/ Lose \/ Trailers \/ Tick \/ Server

Spec == Init /\ [][Next]_vars

\* gWhisper runs, time passes, and the library reports what has happened.
ClientFairness == WF_vars(Client) /\ WF_vars(Tick) /\ WF_vars(Expire) /\ WF_vars(Trailers)

\* The server goes on answering.
ServerFairness == WF_vars(Receive \/ EndOfRequests \/ Reply \/ Answer)

FairSpec == Spec /\ ClientFairness

----------------------------------------------------------------------------
(* Properties.                                                             *)

\* Type invariant: the variables of a call have their types.
TypeOK ==
  /\ now \in Nat /\ start \in Nat /\ deadline \in Nat \cup {Never}
  /\ method \in Methods /\ args \in CommandLines
  /\ pc \in {"deadline", "close", "start"} \cup OnCall \cup Exits
  /\ requests \in Nat /\ written \in Nat /\ printed \in Nat
  /\ ended \in {"no", "OK"} \cup Failures
  /\ halfDone \in BOOLEAN /\ summed \in BOOLEAN
  /\ c2s \in Nat /\ s2c \in Nat
  /\ server \in {"idle", "running", "OK", "ERR"}
  /\ got \in Nat /\ sent \in Nat /\ owed \in Nat

\* Exit code 0 tells the truth: the server has received all requests of the
\* command line and answered OK, and all its replies have been printed.
ExitTruthful ==
  pc = "exit0" => /\ ended = "OK" /\ server = "OK"
                  /\ got = requests /\ printed = sent

\* A server whose method does not stream requests sees the end of the request
\* stream behind exactly one message, however many JSON files are given.
OneRequestIfUnary == ~method.clientStreaming /\ summed => got = 1

\* Client and server both wait for the other one to read.
MutualWait ==
  /\ pc = "write" /\ written < requests /\ c2s = Window
  /\ server = "running" /\ owed > 0 /\ s2c = Window

\* Writing all requests before reading any reply deadlocks with a server that
\* answers each request before it receives the next one, but only if there
\* are more requests than both directions of the stream can hold.
MutualWaitNeedsMany == MutualWait => Fan * (requests - Window - 1) > Window

\* The deadline is fixed before the reflection stream is closed: a call that
\* ends with DEADLINE_EXCEEDED may have waited for less than the timeout of the
\* command line (Usage.txt:59), but only by what closing the stream may take.
TimeoutShortByClose ==
  ended = "DEADLINE" /\ args.timeout \in Timeouts =>
    now - start >= args.timeout - CloseTime

\* Usage.txt:60 - a call that exceeds its limit ends with deadline_exceeded.
DeadlineReported == pc = "aborted" => ended # "DEADLINE"

\* One message field that cannot be parsed keeps all messages of the command
\* line from the server.  (A method that streams requests is called all the
\* same, with an empty stream.)
ParseErrorSendsNothing == ~args.json /\ args.good < args.given => c2s = 0 /\ got = 0

\* A call for which a timeout is set ends, and so does one without the option
\* if nothing is streamed, whatever the server does.
HasTimeout == pc = "close" /\ (args.timeout \in Timeouts \/ (args.timeout = Unset /\ ~Streaming))
DeadlineEndsCall == HasTimeout ~> pc \in Exits

\* Any call ends, one without a deadline too, if its server goes on answering
\* and the requests are few enough for MutualWaitNeedsMany to exclude a deadlock.
FewRequests == pc = "write" /\ Fan * (requests - Window - 1) <= Window
AnsweredCallEnds == ServerFairness => (FewRequests ~> pc \in Exits)
=============================================================================
