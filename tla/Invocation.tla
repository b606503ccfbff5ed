------------------------------ MODULE Invocation ------------------------------
(***************************************************************************)
(* One run of gWhisper: main, and the channel, the proxy and the pool of   *)
(* descriptors that the ConnectionManager keeps for the server while the   *)
(* command line is parsed and the call is made.                            *)
(*                                                                         *)
(* A command line names one server.  A proxy (DescDbProxy) fetches the     *)
(* descriptors when it is made and is the database of the pool, which      *)
(* holds a plain pointer to it.  Proxies are numbered as they are made.    *)
(* What a session finds on the server may differ from session to session.  *)
(***************************************************************************)
EXTENDS Integers

VARIABLES
  asks,      \* what the options of the command line ask for
  phase,     \* where the run is
  grammars,  \* the injectors that have their grammar
  conn,      \* the connection
  made,      \* number of proxies made
  ended,     \* number of proxies destroyed, which ends their reflection sessions
  exit       \* exit code of the run, or "none"

invocation == <<asks, phase, grammars, conn, made, ended, exit>>

\* main answers the first of these that the command line asks for.
Options == {"DotExport", "Complete", "Version", "Help"}

\* connectTimeout, rpcTimeout: whether the timeouts can be converted.
Asked == [options : SUBSET Options, ssl : {"off", "readable", "unreadable"},
          connectTimeout : BOOLEAN, rpcTimeout : BOOLEAN]

Injectors == {"Service", "Method", "MethodArgs"}

\* What the session with the server has found of the line: nothing, its
\* service, or also a method of it.
Findings == {"nothing", "service", "method"}

\* 0 is a null pointer; finds belongs to the pool.
Connections == [channel : BOOLEAN, proxy : Nat, pool : Nat, finds : Findings]
NoConnection == [channel |-> FALSE, proxy |-> 0, pool |-> 0, finds |-> "nothing"]

CallPhases == {"getChannel", "wait", "findService", "findMethod", "deadline", "close", "rpc"}

\* Where the run looks something up in the pool.  In the call, protobuf does so for
\* the extensions in what it parses and, in JSON, for the types of google.protobuf.Any;
\* what the pool does not hold it asks its database for.
LookupPhases == {"parse", "findService", "findMethod", "rpc"}

Init ==
  /\ asks \in Asked /\ phase = "parse"
  /\ grammars = {}
  /\ conn = NoConnection /\ made = 0 /\ ended = 0
  /\ exit = "none"

----------------------------------------------------------------------------
(* The connection manager.  An operation takes the connection c and the    *)
(* number n of proxies made so far, and gives [conn, made, dropped], where *)
(* dropped is the number of proxies destroyed.                             *)

Keep(c, n) == [conn |-> c, made |-> n, dropped |-> 0]
Dropped(c) == IF c.proxy = 0 THEN 0 ELSE 1

\* A new channel, a new proxy and a new pool on top of it.
registerConnection(c, n, finds) ==
  [conn |-> [channel |-> TRUE, proxy |-> n + 1, pool |-> n + 1, finds |-> finds],
   made |-> n + 1, dropped |-> Dropped(c)]

ensureDescDbProxyAndDescPoolIsAvailable(c, n, finds) == registerConnection(c, n, finds)

\* Mutant: the channel is never found in the connection.
getChannel_Always(c, n, finds) == registerConnection(c, n, finds)

getChannel(c, n, finds) == IF c.channel THEN Keep(c, n) ELSE registerConnection(c, n, finds)

getDescDb(c, n, finds) ==
  IF c.proxy # 0 THEN Keep(c, n)
  ELSE IF c.channel THEN ensureDescDbProxyAndDescPoolIsAvailable(c, n, finds)
  ELSE registerConnection(c, n, finds)

\* Mutant: the pool is made again for every lookup.
getDescPool_Always(c, n, finds) == ensureDescDbProxyAndDescPoolIsAvailable(c, n, finds)

getDescPool(c, n, finds) ==
  IF c.pool # 0 THEN Keep(c, n) ELSE ensureDescDbProxyAndDescPoolIsAvailable(c, n, finds)

\* Mutant: the proxy stays in the connection.
closeDescDbStream_Keeps(c, n) == [conn |-> c, made |-> n, dropped |-> Dropped(c)]

\* The session of the proxy is closed and the proxy destroyed; the pool stays.
closeDescDbStream(c, n) == [conn |-> [c EXCEPT !.proxy = 0], made |-> n, dropped |-> Dropped(c)]

\* The result of an operation becomes the state.
Becomes(r) == conn' = r.conn /\ made' = r.made /\ ended' = ended + r.dropped

----------------------------------------------------------------------------
(* main: parsing.                                                          *)

\* One operation of the connection manager after another.
Then(r, s) == [s EXCEPT !.dropped = @ + r.dropped]

\* What an injector does with the connection.
Lookup(injector, finds) ==
  LET chan == getChannel(conn, made, finds)
      db   == IF injector = "Service" THEN Then(chan, getDescDb(chan.conn, chan.made, finds)) ELSE chan
  IN  Then(db, getDescPool(db.conn, db.made, finds))

\* The keys of an injector have to be found.
Succeeds(injector, finds) ==
  CASE injector = "Service"    -> TRUE
    [] injector = "Method"     -> finds \in {"service", "method"}
    [] injector = "MethodArgs" -> finds = "method"

\* The injector that is reached after another one.
Reached(injector) ==
  CASE injector = "Service"    -> TRUE
    [] injector = "Method"     -> "Service" \in grammars
    [] injector = "MethodArgs" -> "Method" \in grammars

\* GrammarInjector::parse: a grammar is fetched once, and asked for again after
\* a failure.
Inject(injector) ==
  /\ phase = "parse" /\ injector \notin grammars /\ Reached(injector)
  /\ conn.channel \/ asks.ssl # "unreadable"
  /\ \E finds \in Findings :
       LET r == Lookup(injector, finds)
       IN  /\ Becomes(r)
           /\ grammars' = IF Succeeds(injector, r.conn.finds) THEN grammars \cup {injector} ELSE grammars
  /\ UNCHANGED <<asks, phase, exit>>

\* exit(EXIT_FAILURE) while the connection is registered: a key or certificate
\* cannot be read, or the constructor of the proxy gives up.
RegisterFails ==
  /\ phase = "parse" /\ ~conn.channel
  /\ phase' = "done" /\ exit' = "failure"
  /\ UNCHANGED <<asks, grammars, conn, made, ended>>

Return(code) == phase' = "return" /\ exit' = code

\* The first option that is asked for is answered, however the parse ended.
Answers(option) ==
  /\ phase = "main" /\ option \in asks.options
  /\ CASE option = "DotExport" -> TRUE
       [] option = "Complete"  -> "DotExport" \notin asks.options
       [] option = "Version"   -> asks.options \cap {"DotExport", "Complete"} = {}
       [] option = "Help"      -> asks.options = {"Help"}
  /\ Return("0")
  /\ UNCHANGED <<asks, grammars, conn, made, ended>>

\* A line is whole when its service and method are matched; the service is one
\* of the names of the grammar, and the method, too, unless there is none.
Whole == {"Service", "Method"} \subseteq grammars

ParseEnds ==
  /\ phase = "parse"
  /\ \/ phase' = "main"
     \/ Whole /\ asks.options = {} /\ phase' = "getChannel"
  /\ UNCHANGED <<asks, grammars, conn, made, ended, exit>>

\* "Parse failed", or the error of the injector.
ReportError ==
  /\ phase = "main" /\ asks.options = {} /\ Return("-1")
  /\ UNCHANGED <<asks, grammars, conn, made, ended>>

Main == RegisterFails \/ ParseEnds \/ ReportError \/ (\E i \in Injectors : Inject(i))
          \/ (\E o \in Options : Answers(o))

----------------------------------------------------------------------------
(* cli::call.                                                              *)

GetChannel ==
  /\ phase = "getChannel" /\ phase' = "wait"
  /\ \E finds \in Findings : Becomes(getChannel(conn, made, finds))
  /\ UNCHANGED <<asks, grammars, exit>>

\* The connection is there, or the connect timeout has passed.
WaitForChannelConnected ==
  /\ phase = "wait" /\ asks.connectTimeout
  /\ \/ phase' = "findService" /\ exit' = exit
     \/ Return("-1")
  /\ UNCHANGED <<asks, grammars, conn, made, ended>>

\* A connect timeout that is no long: nobody catches the exception.
ConnectTimeoutThrows ==
  /\ phase = "wait" /\ ~asks.connectTimeout
  /\ phase' = "done" /\ exit' = "aborted" /\ conn' = NoConnection
  /\ UNCHANGED <<asks, grammars, made, ended>>

FindService ==
  /\ phase = "findService"
  /\ \E finds \in Findings :
       LET r == getDescPool(conn, made, finds)
       IN  /\ Becomes(r)
           /\ IF r.conn.finds = "nothing" THEN Return("-1") ELSE phase' = "findMethod" /\ exit' = exit
  /\ UNCHANGED <<asks, grammars>>

FindMethod ==
  /\ phase = "findMethod"
  /\ IF conn.finds = "method" THEN phase' = "deadline" /\ exit' = exit ELSE Return("-1")
  /\ UNCHANGED <<asks, grammars, conn, made, ended>>

ConvertDeadline ==
  /\ phase = "deadline"
  /\ IF asks.rpcTimeout THEN phase' = "close" /\ exit' = exit ELSE Return("-1")
  /\ UNCHANGED <<asks, grammars, conn, made, ended>>

CloseDescDbStream ==
  /\ phase = "close" /\ phase' = "rpc"
  /\ Becomes(closeDescDbStream(conn, made))
  /\ UNCHANGED <<asks, grammars, exit>>

\* The call itself: RpcCall.  code is its exit code.
CallEnds(code) ==
  /\ phase = "rpc" /\ Return(code)
  /\ UNCHANGED <<asks, grammars, conn, made, ended>>

\* A CHECK, a usage error of protobuf or a lookup in the proxy that is gone ends the
\* process in the call.
CallAborts ==
  /\ phase = "rpc" /\ phase' = "done" /\ exit' = "aborted" /\ conn' = NoConnection
  /\ UNCHANGED <<asks, grammars, made, ended>>

BeforeRpc == GetChannel \/ WaitForChannelConnected \/ ConnectTimeoutThrows \/ FindService \/ FindMethod
               \/ ConvertDeadline \/ CloseDescDbStream

\* The connection manager is destroyed at the end of the process.
Destroy ==
  /\ phase = "return" /\ phase' = "done"
  /\ conn' = NoConnection /\ ended' = ended + Dropped(conn)
  /\ UNCHANGED <<asks, grammars, made, exit>>

Next == Main \/ BeforeRpc \/ Destroy \/ CallAborts \/ (\E code \in {"0", "-1"} : CallEnds(code))

Spec == Init /\ [][Next]_invocation

----------------------------------------------------------------------------
(* Properties.                                                             *)

\* Type invariant: the connection has its parts, the phases and exit codes are
\* those of the code.
InvocationTypeOK ==
  /\ asks \in Asked
  /\ phase \in {"parse", "main", "return", "done"} \cup CallPhases
  /\ grammars \subseteq Injectors
  /\ conn \in Connections /\ made \in Nat /\ ended \in Nat
  /\ exit \in {"none", "0", "-1", "failure", "aborted"}

\* The server is asked in one session: services, methods, arguments and the
\* call itself are about the same descriptors.
OneSession == made <= 1

\* The service of a line that was parsed is found again when it is called.
ServiceStillFound == phase \in {"findService", "findMethod", "deadline"} => conn.finds # "nothing"

\* The reflection session is over before the call is made, and when the run
\* has returned from main it was ended exactly once.
SessionsEndedOnce ==
  /\ ended <= made
  /\ phase = "rpc" \/ (phase = "done" /\ exit \in {"0", "-1"}) => ended = made
=============================================================================
