--------------------------- MODULE RpcCallProofs ---------------------------
(***************************************************************************)
(* Theorems about a remote procedure call, for every number of messages,   *)
(* every size of the flow control window and every timeout.                *)
(***************************************************************************)
EXTENDS RpcCall, TLAPS

\* Every request is written, on its way or received; every reply is owed, on
\* its way, printed, or discarded when the call was killed.
Accounts ==
  /\ written <= requests /\ c2s + got = written
  /\ printed + s2c <= sent
  /\ ended \notin {"LOST", "DEADLINE"} => printed + s2c = sent
  /\ method.echo => sent + owed = Fan * got
  /\ ~method.echo /\ ~summed => owed = 0

\* What client and server have done when they are where they are.
Order ==
  /\ pc \in {"deadline", "close", "start", "parse"} => written = 0 /\ requests = 0
  /\ pc \in {"deadline", "close", "start"} => server = "idle"
  /\ pc \in {"deadline", "close", "start", "parse", "write"} => printed = 0 /\ ~halfDone
  /\ pc \in {"read", "finish", "exit0"} => halfDone
  /\ halfDone => written = requests
  /\ summed => halfDone /\ c2s = 0
  /\ server = "OK" => summed
  /\ ended \in {"OK", "ERR"} => server = ended
  /\ pc = "finish" => s2c = 0 /\ ended # "no"
  /\ pc = "exit0" => s2c = 0 /\ ended = "OK"
  /\ ~method.clientStreaming /\ (pc = "write" \/ halfDone) => requests = 1

CallInv == TypeOK /\ Accounts /\ Order

----------------------------------------------------------------------------
LEMMA CallInvInit == ASSUME CallAssumption, Init PROVE CallInv
<1>1. TypeOK
  BY DEF Init, TypeOK, OnCall
<1>2. Accounts
  <2>1. Fan * 0 = 0
    BY DEF CallAssumption
  <2> QED
    BY <2>1 DEF Init, Accounts
<1>3. Order
  BY DEF Init, Order
<1> QED
  BY <1>1, <1>2, <1>3 DEF CallInv

LEMMA ParsedType ==
  ASSUME CallAssumption, NEW a \in CommandLines, NEW m \in Methods
  PROVE  Parsed(a, m) \in Nat
  BY DEF CallAssumption, CommandLines, Methods, Parsed, ParsedFiles, ParsedFields

LEMMA CallInvClient ==
  ASSUME CallAssumption, CallInv, Client
  PROVE  CallInv'
<1> USE DEF CallInv
<1>1. CASE SetDeadline
  <2>1. deadline' \in Nat \cup {Never}
    BY <1>1 DEF SetDeadline, TypeOK, CommandLines, CallAssumption, Streaming, Never, Unset
  <2>2. TypeOK'
    BY <1>1, <2>1 DEF SetDeadline, TypeOK, inputVars, clientVars, serverVars
  <2>3. Accounts' /\ Order'
    BY <1>1 DEF SetDeadline, Accounts, Order, inputVars, clientVars, serverVars
  <2> QED
    BY <2>2, <2>3
<1>2. CASE CloseReflection
  <2>1. TypeOK'
    BY <1>2 DEF CloseReflection, TypeOK, inputVars, clientVars, serverVars
  <2>2. Accounts' /\ Order'
    BY <1>2 DEF CloseReflection, Accounts, Order, inputVars, clientVars, serverVars
  <2> QED
    BY <2>1, <2>2
<1>3. CASE pc # "finish" /\ Abort
  <2>1. TypeOK'
    BY <1>3 DEF Abort, TypeOK, Exits, timeVars, inputVars, clientVars, serverVars
  <2>2. Accounts' /\ Order'
    BY <1>3 DEF Abort, Accounts, Order, inputVars, clientVars, serverVars
  <2> QED
    BY <2>1, <2>2
<1>4. CASE StartCall /\ ended = "no"
  <2>1. TypeOK'
    BY <1>4 DEF StartCall, TypeOK, OnCall, timeVars, inputVars, clientVars
  <2>2. Accounts' /\ Order'
    BY <1>4 DEF StartCall, Accounts, Order, inputVars, clientVars
  <2> QED
    BY <2>1, <2>2
<1>5. CASE ParseMessages
  <2>1. requests' \in Nat
    BY <1>5, ParsedType DEF ParseMessages, TypeOK
  <2>2. TypeOK'
    BY <1>5, <2>1 DEF ParseMessages, TypeOK, OnCall, Exits, timeVars, inputVars, serverVars
  <2>3. Accounts'
    BY <1>5, <2>1 DEF ParseMessages, TypeOK, Accounts, Order, inputVars, serverVars
  <2>4. Order'
    BY <1>5 DEF ParseMessages, Order, inputVars, serverVars
  <2> QED
    BY <2>2, <2>3, <2>4
<1>6. CASE Write
  <2>1. CASE ~(written = args.whole) /\ ended = "no"
    <3>1. /\ pc = "write" /\ written' = written + 1 /\ c2s' = c2s + 1 /\ written < requests
          /\ UNCHANGED <<timeVars, inputVars, pc, requests, printed, halfDone, ended, s2c, serverVars>>
      BY <1>6, <2>1 DEF Write, Taken
    <3>2. TypeOK'
      BY <3>1 DEF TypeOK, timeVars, inputVars, serverVars
    <3>3. Accounts'
      BY <3>1 DEF TypeOK, Accounts, inputVars, serverVars
    <3>4. Order'
      BY <3>1 DEF Order, inputVars, serverVars
    <3> QED
      BY <3>2, <3>3, <3>4
  <2>2. CASE written = args.whole
    <3>1. /\ pc = "write" /\ pc' = "exitArgs"
          /\ UNCHANGED <<timeVars, inputVars, clientVars, ended, c2s, s2c, serverVars>>
      BY <1>6, <2>2 DEF Write
    <3>2. TypeOK'
      BY <3>1 DEF TypeOK, Exits, timeVars, inputVars, clientVars, serverVars
    <3>3. Accounts' /\ Order'
      BY <3>1 DEF Accounts, Order, inputVars, clientVars, serverVars
    <3> QED
      BY <3>2, <3>3
  <2> QED
    BY <1>3, <1>6, <2>1, <2>2 DEF Write, Taken
<1>7. CASE WritesDone /\ ended = "no"
  <2>1. TypeOK'
    BY <1>7 DEF WritesDone, TypeOK, OnCall, timeVars, inputVars, serverVars
  <2>2. Accounts' /\ Order'
    BY <1>7 DEF WritesDone, Accounts, Order, inputVars, serverVars
  <2> QED
    BY <2>1, <2>2
<1>8. CASE Read
  <2>1. TypeOK'
    BY <1>8 DEF Read, Arrived, TypeOK, OnCall, timeVars, inputVars, serverVars
  <2>2. Accounts'
    BY <1>8 DEF Read, Arrived, TypeOK, Accounts, inputVars, serverVars
  <2>3. Order'
    BY <1>8 DEF Read, Arrived, Order, inputVars, serverVars
  <2> QED
    BY <2>1, <2>2, <2>3
<1>9. CASE Finish
  <2>1. TypeOK'
    BY <1>9 DEF Finish, TypeOK, Exits, timeVars, inputVars, clientVars, serverVars
  <2>2. Accounts' /\ Order'
    BY <1>9 DEF Finish, Accounts, Order, inputVars, clientVars, serverVars
  <2> QED
    BY <2>1, <2>2
<1> QED
  BY <1>1, <1>2, <1>3, <1>4, <1>5, <1>6, <1>7, <1>8, <1>9 DEF Client, StartCall, WritesDone

LEMMA CallInvLibrary ==
  ASSUME CallAssumption, CallInv, Expire \/ Lose \/ Trailers \/ Tick
  PROVE  CallInv'
<1> USE DEF CallInv
<1>1. CASE Expire \/ Lose
  <2>1. PICK status \in {"LOST", "DEADLINE"} : /\ ended = "no" /\ pc \in OnCall \cup {"start"}
                                               /\ Kill(status)
    BY <1>1 DEF Expire, Lose
  <2>2. TypeOK'
    BY <2>1 DEF Kill, TypeOK, Failures, timeVars, inputVars, clientVars, serverVars
  <2>3. Accounts'
    BY <2>1 DEF Kill, TypeOK, Accounts, inputVars, clientVars, serverVars
  <2>4. Order'
    BY <2>1 DEF Kill, Order, OnCall, inputVars, clientVars, serverVars
  <2> QED
    BY <2>2, <2>3, <2>4
<1>2. CASE Trailers
  <2>1. TypeOK'
    BY <1>2 DEF Trailers, TypeOK, Failures, timeVars, inputVars, clientVars, serverVars
  <2>2. Accounts' /\ Order'
    BY <1>2 DEF Trailers, Accounts, Order, OnCall, inputVars, clientVars, serverVars
  <2> QED
    BY <2>1, <2>2
<1>3. CASE Tick
  <2>1. TypeOK'
    BY <1>3 DEF Tick, TypeOK, inputVars, clientVars, serverVars
  <2>2. Accounts' /\ Order'
    BY <1>3 DEF Tick, Accounts, Order, inputVars, clientVars, serverVars
  <2> QED
    BY <2>1, <2>2
<1> QED
  BY <1>1, <1>2, <1>3

LEMMA CallInvServer ==
  ASSUME CallAssumption, CallInv, Server
  PROVE  CallInv'
<1> USE DEF CallInv
<1>0. Fan \in Nat
  BY DEF CallAssumption
<1>1. CASE Receive
  <2>1. /\ server = "running" /\ owed = 0 /\ c2s > 0 /\ c2s' = c2s - 1 /\ got' = got + 1
        /\ owed' = IF method.echo THEN Fan ELSE 0
        /\ UNCHANGED <<timeVars, inputVars, pc, clientVars, ended, s2c, server, sent, summed>>
    BY <1>1 DEF Receive
  <2>2. TypeOK'
    BY <1>0, <2>1 DEF TypeOK, timeVars, inputVars, clientVars
  <2>3. Accounts'
    <3>1. Fan * (got + 1) = Fan * got + Fan
      BY <1>0 DEF TypeOK
    <3>2. method.echo => sent' + owed' = Fan * got'
      <4>1. method.echo => sent = Fan * got
        BY <2>1 DEF Accounts, TypeOK
      <4> QED
        BY <1>0, <2>1, <3>1, <4>1 DEF clientVars
    <3>3. (c2s - 1) + (got + 1) = c2s + got
      BY DEF TypeOK
    <3>4. c2s' + got' = written'
      BY <2>1, <3>3 DEF Accounts, clientVars
    <3> QED
      BY <2>1, <3>2, <3>4 DEF Accounts, inputVars, clientVars
  <2>4. Order'
    BY <2>1 DEF TypeOK, Order, inputVars, clientVars
  <2> QED
    BY <2>2, <2>3, <2>4
<1>2. CASE EndOfRequests
  <2>1. /\ server = "running" /\ owed = 0 /\ c2s = 0 /\ halfDone /\ summed'
        /\ owed' \in Nat /\ (method.echo => owed' = 0)
        /\ UNCHANGED <<timeVars, inputVars, pc, clientVars, ended, c2s, s2c, server, got, sent>>
    BY <1>0, <1>2 DEF EndOfRequests, TypeOK, Methods
  <2>2. TypeOK'
    BY <1>2, <2>1 DEF EndOfRequests, TypeOK, timeVars, inputVars, clientVars
  <2>3. Accounts' /\ Order'
    BY <2>1 DEF Accounts, Order, inputVars, clientVars
  <2> QED
    BY <2>2, <2>3
<1>3. CASE Reply
  <2>1. TypeOK'
    BY <1>3 DEF Reply, TypeOK, timeVars, inputVars, clientVars
  <2>2. Accounts'
    <3>1. /\ server = "running" /\ owed > 0 /\ s2c' = s2c + 1 /\ sent' = sent + 1 /\ owed' = owed - 1
          /\ UNCHANGED <<inputVars, clientVars, ended, c2s, got, summed>>
      BY <1>3 DEF Reply
    <3>2. sent' + owed' = sent + owed
      BY <3>1 DEF TypeOK
    <3>3. ~method.echo /\ ~summed => owed' = 0
      BY <3>1 DEF TypeOK, Accounts
    <3>4. /\ printed + s2c' <= sent'
          /\ ended \notin {"LOST", "DEADLINE"} => printed + s2c' = sent'
      BY <3>1 DEF TypeOK, Accounts
    <3> QED
      BY <3>1, <3>2, <3>3, <3>4 DEF Accounts, inputVars, clientVars
  <2>3. Order'
    BY <1>3 DEF Reply, TypeOK, Order, inputVars, clientVars
  <2> QED
    BY <2>1, <2>2, <2>3
<1>4. CASE Answer \/ Refuse
  <2>1. /\ server = "running" /\ server' \in {"OK", "ERR"} /\ (server' = "OK" => summed)
        /\ UNCHANGED <<timeVars, inputVars, pc, clientVars, ended, c2s, s2c, got, sent, owed, summed>>
    BY <1>4 DEF Answer, Refuse
  <2>2. TypeOK'
    BY <2>1 DEF TypeOK, timeVars, inputVars, clientVars
  <2>3. Accounts'
    BY <2>1 DEF Accounts, inputVars, clientVars
  <2>4. Order'
    BY <2>1 DEF TypeOK, Order, inputVars, clientVars
  <2> QED
    BY <2>2, <2>3, <2>4
<1> QED
  BY <1>1, <1>2, <1>3, <1>4 DEF Server

LEMMA CallInvariance == Spec => []CallInv
<1> USE CallAssumption
<1>1. Init => CallInv
  BY CallInvInit
<1>2. CallInv /\ [Next]_vars => CallInv'
  <2>1. CASE UNCHANGED vars
    BY <2>1 DEF vars, CallInv, TypeOK, Accounts, Order, timeVars, inputVars, clientVars, serverVars
  <2> QED
    BY <2>1, CallInvClient, CallInvLibrary, CallInvServer DEF Next
<1> QED
  BY <1>1, <1>2, PTL DEF Spec

----------------------------------------------------------------------------
\* The variables of a call have their types.
THEOREM CallTypes == Spec => []TypeOK
<1>1. CallInv => TypeOK
  BY DEF CallInv
<1> QED
  BY <1>1, CallInvariance, PTL

\* Exit code 0 is never given to a call that has not been carried out whole.
THEOREM Truthful == Spec => []ExitTruthful
<1>1. CallInv => ExitTruthful
  BY DEF CallInv, TypeOK, Accounts, Order, ExitTruthful
<1> QED
  BY <1>1, CallInvariance, PTL

\* A method that does not stream requests gets one request or none.
THEOREM UnaryRequests == Spec => []OneRequestIfUnary
<1>1. CallInv => OneRequestIfUnary
  BY DEF CallInv, TypeOK, Accounts, Order, OneRequestIfUnary
<1> QED
  BY <1>1, CallInvariance, PTL

\* A deadlock of the two directions of a stream takes more requests than they
\* can hold: below that bound writing everything before reading is safe.
THEOREM DeadlockBound == Spec => []MutualWaitNeedsMany
<1> USE CallAssumption
<1>1. ASSUME CallInv, MutualWait
      PROVE  Fan * (requests - Window - 1) > Window
  <2>1. Fan \in Nat /\ Window \in Nat /\ got \in Nat /\ requests \in Nat /\ sent \in Nat
    BY <1>1 DEF CallAssumption, CallInv, TypeOK
  <2>2. method.echo
    BY <1>1 DEF CallInv, TypeOK, Accounts, Order, MutualWait
  <2>3. Fan * got > Window
    <3>1. sent >= Window /\ owed > 0 /\ sent + owed = Fan * got
      BY <1>1, <2>2 DEF CallInv, TypeOK, Accounts, Order, MutualWait
    <3> QED
      BY <1>1, <2>1, <3>1 DEF CallInv, TypeOK
  <2>4. got <= requests - Window - 1
    BY <1>1, <2>1 DEF CallInv, TypeOK, Accounts, MutualWait
  <2>5. Fan * got <= Fan * (requests - Window - 1)
    BY <2>1, <2>4
  <2> QED
    BY <2>1, <2>3, <2>5
<1>2. CallInv => MutualWaitNeedsMany
  BY <1>1 DEF MutualWaitNeedsMany
<1> QED
  BY <1>2, CallInvariance, PTL

----------------------------------------------------------------------------
\* The messages of the command line are parsed once, all of them.
OnceParsed == requests \in {0, Parsed(args, method)}

LEMMA OnceParsedInvariance == Spec => []OnceParsed
<1>1. Init => OnceParsed
  BY DEF Init, OnceParsed
<1>2. OnceParsed /\ [Next]_vars => OnceParsed'
  <2>1. ASSUME UNCHANGED <<requests, inputVars>>
        PROVE  OnceParsed => OnceParsed'
    BY <2>1 DEF OnceParsed, inputVars, Parsed, ParsedFiles, ParsedFields
  <2>2. ASSUME ParseMessages
        PROVE  OnceParsed'
    BY <2>2 DEF ParseMessages, OnceParsed, inputVars, Parsed, ParsedFiles, ParsedFields
  <2>3. ASSUME Client
        PROVE  ParseMessages \/ UNCHANGED <<requests, inputVars>>
    BY <2>3 DEF Client, SetDeadline, CloseReflection, StartCall, Abort, Write, WritesDone,
                Read, Finish, inputVars, clientVars
  <2>4. ASSUME Expire \/ Lose \/ Trailers \/ Tick
        PROVE  UNCHANGED <<requests, inputVars>>
    BY <2>4 DEF Expire, Lose, Trailers, Tick, Kill, inputVars, clientVars
  <2>5. ASSUME Server
        PROVE  UNCHANGED <<requests, inputVars>>
    BY <2>5 DEF Server, Receive, EndOfRequests, Reply, Answer, Refuse, inputVars, clientVars
  <2>6. ASSUME UNCHANGED vars
        PROVE  UNCHANGED <<requests, inputVars>>
    BY <2>6 DEF vars, clientVars
  <2> QED
    BY <2>1, <2>2, <2>3, <2>4, <2>5, <2>6 DEF Next
<1> QED
  BY <1>1, <1>2, PTL DEF Spec

\* All or nothing: no message of a command line with an error is ever sent.
THEOREM ParseErrors == Spec => []ParseErrorSendsNothing
<1>1. CallInv /\ OnceParsed => ParseErrorSendsNothing
  <2> SUFFICES ASSUME CallInv, OnceParsed, ~args.json, args.good < args.given
               PROVE  c2s = 0 /\ got = 0
    BY DEF ParseErrorSendsNothing
  <2>1. args.good \in Nat /\ args.given \in Nat
    BY CallAssumption DEF CallAssumption, CallInv, TypeOK, CommandLines
  <2>2. requests = 0
    BY <2>1 DEF OnceParsed, Parsed, ParsedFields
  <2> QED
    BY <2>2 DEF CallInv, TypeOK, Accounts
<1> QED
  BY <1>1, CallInvariance, OnceParsedInvariance, PTL

----------------------------------------------------------------------------
\* How the clock, the start of the call and its deadline are related.
Timing ==
  /\ pc = "deadline" => now = 0
  /\ pc = "close" => now <= CloseTime
  /\ start <= CloseTime
  /\ args.timeout \in Timeouts /\ pc # "deadline" => deadline = args.timeout
  /\ ended = "DEADLINE" /\ args.timeout \in Timeouts => now >= args.timeout

LEMMA TimingInvariance == Spec => []Timing
<1> USE CallAssumption
<1>1. Init => Timing
  BY DEF Init, Timing, CallAssumption
<1>2. CallInv /\ Timing /\ [Next]_vars => Timing'
  <2> SUFFICES ASSUME CallInv, Timing, [Next]_vars
               PROVE  Timing'
    OBVIOUS
  <2> USE DEF CallAssumption
  <2>0. now \in Nat /\ start \in Nat /\ Timeouts \subseteq Nat /\ CloseTime \in Nat
    BY DEF CallInv, TypeOK
  <2>1. CASE SetDeadline
    <3>1. args.timeout \in Timeouts => deadline' = args.timeout
      BY <2>0, <2>1 DEF SetDeadline, Timing, Never, Unset
    <3>2. ended # "DEADLINE" \/ now >= args.timeout \/ args.timeout \notin Timeouts
      BY DEF Timing
    <3> QED
      BY <2>0, <2>1, <3>1, <3>2 DEF SetDeadline, Timing, inputVars
  <2>2. CASE CloseReflection
    BY <2>0, <2>2 DEF CloseReflection, Timing, inputVars
  <2>3. CASE Tick
    <3> DEFINE t == args.timeout
    <3>1. t \in Timeouts => t \in Nat
      BY <2>0
    <3>2. /\ now' = now + 1 /\ pc' = pc /\ pc # "deadline"
          /\ pc = "close" => now < CloseTime
          /\ UNCHANGED <<start, deadline, args, ended>>
      BY <2>3 DEF Tick, inputVars
    <3>3. ended = "DEADLINE" /\ t \in Timeouts => now + 1 >= t
      <4>1. ended = "DEADLINE" /\ t \in Timeouts => now >= t
        BY DEF Timing
      <4> HIDE DEF t
      <4> QED
        BY <2>0, <3>1, <4>1
    <3>4. pc = "close" => now + 1 <= CloseTime
      BY <2>0, <3>2
    <3> QED
      BY <3>2, <3>3, <3>4 DEF Timing
  <2>4. CASE Expire
    <3>1. pc # "deadline" /\ pc # "close" /\ now >= deadline
      BY <2>4 DEF Expire, OnCall
    <3> QED
      BY <2>0, <2>4, <3>1 DEF Expire, Kill, Timing, timeVars, inputVars
  <2>5. ASSUME UNCHANGED <<timeVars, inputVars>>, pc' \notin {"deadline", "close"} \/ pc' = pc,
               pc # "deadline" \/ pc' = pc, ended' # "DEADLINE" \/ ended' = ended
        PROVE  Timing'
    BY <2>5 DEF Timing, timeVars, inputVars
  <2>6. CASE StartCall \/ ParseMessages \/ Write \/ WritesDone \/ Read \/ Finish
    <3>1. UNCHANGED <<timeVars, inputVars, ended>>
      BY <2>6 DEF StartCall, Abort, ParseMessages, Write, Taken, WritesDone, Read, Finish
    <3>2. pc \notin {"deadline", "close"} /\ pc' \notin {"deadline", "close"}
      BY <2>6 DEF StartCall, Abort, ParseMessages, Write, Taken, WritesDone, Read, Finish
    <3> QED
      BY <2>5, <3>1, <3>2
  <2>7. CASE Lose \/ Trailers
    BY <2>5, <2>7 DEF Lose, Kill, Trailers
  <2>8. CASE Server
    BY <2>5, <2>8 DEF Server, Receive, EndOfRequests, Reply, Answer, Refuse
  <2>9. CASE UNCHANGED vars
    BY <2>5, <2>9 DEF vars
  <2> QED
    BY <2>1, <2>2, <2>3, <2>4, <2>6, <2>7, <2>8, <2>9 DEF Next, Client
<1> QED
  BY <1>1, <1>2, CallInvariance, PTL DEF Spec

\* The wait of a call that times out is short of the timeout by no more than
\* the reflection stream may take to close.
THEOREM TimeoutBound == Spec => []TimeoutShortByClose
<1>1. CallInv /\ Timing => TimeoutShortByClose
  <2> SUFFICES ASSUME CallInv, Timing, ended = "DEADLINE", args.timeout \in Timeouts
               PROVE  now - start >= args.timeout - CloseTime
    BY DEF TimeoutShortByClose
  <2> DEFINE t == args.timeout
  <2>1. now \in Nat /\ start \in Nat /\ t \in Nat /\ CloseTime \in Nat
    BY CallAssumption DEF CallAssumption, CallInv, TypeOK
  <2>2. now >= t /\ start <= CloseTime
    BY DEF Timing
  <2> HIDE DEF t
  <2>3. now - start >= t - CloseTime
    BY <2>1, <2>2
  <2> QED
    BY <2>3 DEF t
<1> QED
  BY <1>1, CallInvariance, TimingInvariance, PTL
=============================================================================
