----------------------------- MODULE DescCache -----------------------------
(***************************************************************************)
(* The descriptor cache of gWhisper: DescDbProxy and the file              *)
(* ~/.cache/gwhisper/DescriptorCache.bin that every gWhisper process of a  *)
(* user reads, rewrites and removes without any lock.                      *)
(*                                                                         *)
(* A process of this module is a place where gWhisper is invoked (a call   *)
(* or a tab completion), again and again; its steps are the system calls   *)
(* on the file, the exchanges with the reflection service of a server, and *)
(* the computation between two of them.                                    *)
(*                                                                         *)
(* The file is a sequence of cells, in the order protobuf serializes a     *)
(* localDescDb.DescriptorDb: for every host entry a "head" (host_address   *)
(* and last_update) and a "body" (descriptors and service list), and after *)
(* all of them one "ver", the gwhisper_version.  What an entry holds is    *)
(* represented by the reflection session it came from.  ParseFromIstream   *)
(* and SerializeToOstream move the file in blocks of a fixed size, Block   *)
(* cells here, whose borders the messages do not follow.                   *)
(***************************************************************************)
EXTENDS Integers, Sequences, FiniteSets

CONSTANTS
  Procs,            \* places where gWhisper is invoked
  Hosts,            \* server addresses
  Versions,         \* GWHISPER_BUILD_VERSION of the builds in use
  NoVersion,        \* the value of an absent gwhisper_version
  Timeout,          \* m_cacheTimeoutInSeconds
  StreamDeadline,   \* g_timeoutGrpcMainStreamSeconds
  MaxTime,          \* bound: the clock stops here
  MaxFetch,         \* bound: number of reflection sessions
  MaxInode,         \* bound: number of files that exist or are open
  Block,            \* cells moved by one read() or write()
  MayCrash,         \* whether a process can be killed
  MayDisable        \* whether --disableCache is used

ASSUME ConstantsAssumption ==
  /\ Hosts # {} /\ Versions # {} /\ NoVersion \notin Versions
  /\ {Timeout, StreamDeadline, MaxTime, MaxFetch} \subseteq Nat
  /\ {MaxInode, Block} \subseteq Nat \ {0}
  /\ {MayCrash, MayDisable} \subseteq BOOLEAN

VARIABLES
  clock,     \* wall clock
  path,      \* the inode that the path of the cache file names, or NoFile
  disk,      \* contents of the inodes
  nFetches,  \* number of reflection sessions opened
  fetch,     \* the sessions
  dropped,   \* sessions whose failed close has removed the cache file
  pc,        \* where a process is
  run,       \* parameters of its current invocation
  retried,   \* the unreadable file has been removed once
  fd,        \* inode of its open stream
  buf,       \* cells read from the stream
  rest,      \* host entries that are kept for the rewrite
  mine,      \* its reflection session, or NoFetch
  out,       \* the serialized database it writes
  pos        \* number of cells of it that are written

fileVars   == <<path, disk>>
serverVars == <<nFetches, fetch>>
readVars   == <<retried, buf, rest>>
writeVars  == <<out, pos>>
vars == <<clock, fileVars, serverVars, dropped, pc, run, readVars, fd, mine, writeVars>>

NoFile  == 0
NoFetch == 0
FetchId == 1 .. MaxFetch
Inode   == 1 .. MaxInode
Time    == 0 .. MaxTime

\* One reflection session: the host asked, when its stream was opened, the
\* last_update given to the entry, and whether the stream broke before every
\* descriptor was delivered.
FetchRec == [host : Hosts, at : Time, ts : Time, cut : BOOLEAN]

\* Parameters of an invocation; gone is the value of dropped when it began.
RunRec == [host : Hosts, noCache : BOOLEAN, build : Versions, gone : SUBSET FetchId]

Ended   == {"idle", "done", "killed", "exitServer", "exitCache"}
Running == {"open", "missing", "read", "remove", "decide", "connect", "list",
            "files", "openW", "write", "work", "drop"}

----------------------------------------------------------------------------
(* The serialized database and its parse.                                  *)

HeadCell(f) == [k |-> "head", f |-> f]
BodyCell(f) == [k |-> "body", f |-> f]
VerCell(v)  == [k |-> "ver", v |-> v]
Hole        == [k |-> "hole"]          \* zero bytes, no protobuf tag

Cell  == [k : {"head", "body"}, f : FetchId] \cup [k : {"ver"}, v : Versions] \cup {Hole}
Entry == [head : FetchId, body : FetchId]

\* SerializeToOstream of a DescriptorDb: fields in the order of their numbers.
Serialized(hosts, v) ==
  [i \in 1 .. 2 * Len(hosts) + 1 |->
     IF i = 2 * Len(hosts) + 1 THEN VerCell(v)
     ELSE IF i % 2 = 1 THEN HeadCell(hosts[(i + 1) \div 2].head)
     ELSE BodyCell(hosts[i \div 2].body)]

KindAt(i, n) == IF i % 2 = 0 THEN "body" ELSE IF i = n THEN "ver" ELSE "head"

\* ParseFromIstream succeeds: whole entries, then possibly the version.
Parses(c) == \A i \in 1 .. Len(c) : c[i].k = KindAt(i, Len(c))

HostsOf(c)   == [j \in 1 .. Len(c) \div 2 |-> [head |-> c[2*j - 1].f, body |-> c[2*j].f]]
VersionOf(c) == IF Len(c) % 2 = 1 THEN c[Len(c)].v ELSE NoVersion

HostOf(e) == fetch[e.head].host

\* The entry every loop over the hosts of the file stops at.
IsFirstFor(hosts, i, h) ==
  /\ i \in 1 .. Len(hosts)
  /\ HostOf(hosts[i]) = h
  /\ \A j \in 1 .. i - 1 : HostOf(hosts[j]) # h

\* Mutant: the age of the entry is not looked at.
isValidHostEntry_AnyAge(hosts, h) == \E i \in 1 .. Len(hosts) : IsFirstFor(hosts, i, h)

isValidHostEntry(hosts, h) ==
  \E i \in 1 .. Len(hosts) : /\ IsFirstFor(hosts, i, h)
                             /\ clock - fetch[hosts[i].head].ts <= Timeout

\* Mutant: the entry that is refreshed stays.
WithoutHost_KeepsAll(hosts, h) == {hosts}

\* deleteDuplicateHostEntries: the entries of the other hosts, in their order
\* (the set has exactly one member).
WithoutHost(hosts, h) ==
  LET keep == {i \in 1 .. Len(hosts) : HostOf(hosts[i]) # h}
      n    == Cardinality(keep)
      ords == {o \in [1 .. n -> keep] : \A i, j \in 1 .. n : i < j => o[i] < o[j]}
  IN  {[i \in 1 .. n |-> hosts[o[i]]] : o \in ords}

\* A write of cells at offset n of a file.  Another process may have truncated
\* the file in between: the gap reads as zero bytes.
Put(c, n, cells) ==
  [j \in 1 .. (IF n + Len(cells) > Len(c) THEN n + Len(cells) ELSE Len(c)) |->
     IF j > n /\ j <= n + Len(cells) THEN cells[j - n]
     ELSE IF j <= Len(c) THEN c[j] ELSE Hole]

\* The block behind the first n cells.
NextBlock(c, n) == SubSeq(c, n + 1, IF n + Block > Len(c) THEN Len(c) ELSE n + Block)

----------------------------------------------------------------------------
NoRun == [host |-> CHOOSE h \in Hosts : TRUE, noCache |-> FALSE,
          build |-> CHOOSE v \in Versions : TRUE, gone |-> {}]

\* A cache file is absent or left unreadable by something else.
Init ==
  /\ clock = 0
  /\ path \in {NoFile, 1}
  /\ disk = [i \in Inode |-> IF i = path THEN <<Hole>> ELSE <<>>]
  /\ nFetches = 0
  /\ fetch = [f \in FetchId |-> [host |-> NoRun.host, at |-> 0, ts |-> 0, cut |-> FALSE]]
  /\ dropped = {}
  /\ pc = [p \in Procs |-> "idle"]
  /\ run = [p \in Procs |-> NoRun]
  /\ retried = [p \in Procs |-> FALSE]
  /\ fd = [p \in Procs |-> NoFile]
  /\ buf = [p \in Procs |-> <<>>]
  /\ rest = [p \in Procs |-> <<>>]
  /\ mine = [p \in Procs |-> NoFetch]
  /\ out = [p \in Procs |-> <<>>]
  /\ pos = [p \in Procs |-> 0]

Goto(p, l) == pc' = [pc EXCEPT ![p] = l]

\* The process is gone, and its memory with it.
End(p, l) ==
  /\ Goto(p, l)
  /\ run' = [run EXCEPT ![p] = NoRun]
  /\ retried' = [retried EXCEPT ![p] = FALSE]
  /\ fd' = [fd EXCEPT ![p] = NoFile]
  /\ buf' = [buf EXCEPT ![p] = <<>>]
  /\ rest' = [rest EXCEPT ![p] = <<>>]
  /\ mine' = [mine EXCEPT ![p] = NoFetch]
  /\ out' = [out EXCEPT ![p] = <<>>]
  /\ pos' = [pos EXCEPT ![p] = 0]

\* gWhisper is invoked: DescDbProxy is constructed for a server.
Start(p) ==
  /\ pc[p] \in Ended
  /\ \E h \in Hosts, v \in Versions, nc \in BOOLEAN :
       /\ nc => MayDisable
       /\ run' = [run EXCEPT ![p] = [host |-> h, noCache |-> nc, build |-> v,
                                     gone |-> dropped]]
       /\ Goto(p, IF nc THEN "connect" ELSE "open")
  /\ UNCHANGED <<clock, fileVars, serverVars, dropped, readVars, fd, mine, writeVars>>

----------------------------------------------------------------------------
(* getDbFileFromCacheFile and the first part of getDescriptors.            *)

Open(p) ==
  /\ pc[p] = "open"
  /\ IF path # NoFile
     THEN Goto(p, "read") /\ fd' = [fd EXCEPT ![p] = path]
     ELSE Goto(p, "missing") /\ UNCHANGED fd
  /\ UNCHANGED <<clock, fileVars, serverVars, dropped, run, readVars, mine, writeVars>>

\* The open failed; only now does the code look whether the file exists.
Missing(p) ==
  /\ pc[p] = "missing"
  /\ IF path # NoFile
     THEN End(p, "exitCache")
     ELSE Goto(p, "decide") /\ UNCHANGED <<run, readVars, fd, mine, writeVars>>
  /\ UNCHANGED <<clock, fileVars, serverVars, dropped>>

ReadBlock(p) ==
  /\ pc[p] = "read"
  /\ Len(buf[p]) < Len(disk[fd[p]])
  /\ buf' = [buf EXCEPT ![p] = @ \o NextBlock(disk[fd[p]], Len(@))]
  /\ UNCHANGED <<clock, fileVars, serverVars, dropped, pc, run, retried, rest, fd,
                 mine, writeVars>>

\* End of file: the message is parsed.
ReadEnd(p) ==
  /\ pc[p] = "read"
  /\ Len(buf[p]) >= Len(disk[fd[p]])
  /\ \/ /\ Parses(buf[p])
        /\ Goto(p, "decide")
        /\ UNCHANGED <<run, readVars, fd, mine, writeVars>>
     \/ /\ ~Parses(buf[p]) /\ ~retried[p]
        /\ Goto(p, "remove")
        /\ UNCHANGED <<run, readVars, fd, mine, writeVars>>
     \/ /\ ~Parses(buf[p]) /\ retried[p]
        /\ End(p, "exitCache")
  /\ UNCHANGED <<clock, fileVars, serverVars, dropped>>

\* Mutants: the file stays, and is read again once, or until it parses.
RemoveUnreadable_KeepsFile(p) ==
  /\ pc[p] = "remove"
  /\ retried' = [retried EXCEPT ![p] = TRUE]
  /\ buf' = [buf EXCEPT ![p] = <<>>]
  /\ fd' = [fd EXCEPT ![p] = NoFile]
  /\ Goto(p, "open")
  /\ UNCHANGED <<clock, fileVars, serverVars, dropped, run, rest, mine, writeVars>>

RemoveUnreadable_Forever(p) ==
  /\ pc[p] = "remove"
  /\ buf' = [buf EXCEPT ![p] = <<>>]
  /\ fd' = [fd EXCEPT ![p] = NoFile]
  /\ Goto(p, "open")
  /\ UNCHANGED <<clock, fileVars, serverVars, dropped, run, retried, rest, mine, writeVars>>

\* std::filesystem::remove of the file that could not be parsed, by its path.
RemoveUnreadable(p) ==
  /\ pc[p] = "remove"
  /\ path' = NoFile
  /\ retried' = [retried EXCEPT ![p] = TRUE]
  /\ buf' = [buf EXCEPT ![p] = <<>>]
  /\ fd' = [fd EXCEPT ![p] = NoFile]
  /\ Goto(p, "open")
  /\ UNCHANGED <<clock, disk, serverVars, dropped, run, rest, mine, writeVars>>

\* The condition under which the entry of the file is used.
Hit(p) ==
  /\ isValidHostEntry(HostsOf(buf[p]), run[p].host)
  /\ VersionOf(buf[p]) = run[p].build

ServeFromCache(p) ==
  /\ pc[p] = "decide" /\ Hit(p)
  /\ Goto(p, "work")
  /\ buf' = [buf EXCEPT ![p] = <<>>]
  /\ fd' = [fd EXCEPT ![p] = NoFile]
  /\ UNCHANGED <<clock, fileVars, serverVars, dropped, run, retried, rest, mine, writeVars>>

Miss(p) ==
  /\ pc[p] = "decide" /\ ~Hit(p)
  /\ \E s \in WithoutHost(HostsOf(buf[p]), run[p].host) :
       rest' = [rest EXCEPT ![p] = s]
  /\ Goto(p, "connect")
  /\ buf' = [buf EXCEPT ![p] = <<>>]
  /\ fd' = [fd EXCEPT ![p] = NoFile]
  /\ UNCHANGED <<clock, fileVars, serverVars, dropped, run, retried, mine, writeVars>>

----------------------------------------------------------------------------
(* useReflection and repopulateLocalDb.                                    *)

\* The channel is connected and the reflection stream opened.
Connect(p) ==
  /\ pc[p] = "connect" /\ nFetches < MaxFetch
  /\ nFetches' = nFetches + 1
  /\ fetch' = [fetch EXCEPT ![nFetches'] =
                 [host |-> run[p].host, at |-> clock, ts |-> clock, cut |-> FALSE]]
  /\ mine' = [mine EXCEPT ![p] = nFetches']
  /\ Goto(p, "list")
  /\ UNCHANGED <<clock, fileVars, dropped, run, readVars, fd, writeVars>>

\* GetServices is answered.
ListServices(p) ==
  /\ pc[p] = "list"
  /\ Goto(p, "files")
  /\ UNCHANGED <<clock, fileVars, serverVars, dropped, run, readVars, fd, mine, writeVars>>

\* The channel does not connect, or GetServices fails: exit(EXIT_FAILURE).
ServerFails(p) ==
  /\ pc[p] \in {"connect", "list"}
  /\ End(p, "exitServer")
  /\ UNCHANGED <<clock, fileVars, serverVars, dropped>>

\* The descriptors are fetched; a service whose descriptor does not come is
\* skipped.  Then, with the cache, the entry is stamped with the current time
\* and the database serialized.
FetchFiles(p) ==
  /\ pc[p] = "files"
  /\ \E cut \in BOOLEAN :
       fetch' = [fetch EXCEPT ![mine[p]].ts = clock, ![mine[p]].cut = cut]
  /\ IF run[p].noCache
     THEN Goto(p, "work") /\ UNCHANGED out
     ELSE /\ Goto(p, "openW")
          /\ out' = [out EXCEPT ![p] =
                Serialized(Append(rest[p], [head |-> mine[p], body |-> mine[p]]),
                           run[p].build)]
  /\ rest' = [rest EXCEPT ![p] = <<>>]
  /\ UNCHANGED <<clock, fileVars, nFetches, dropped, run, retried, buf, fd, mine, pos>>

----------------------------------------------------------------------------
(* writeProtoMsgToDisk.                                                    *)

\* Mutant: opened without truncating what is there.
OpenForWrite_NoTrunc(p) ==
  /\ pc[p] = "openW"
  /\ \E i \in Inode :
       /\ IF path # NoFile THEN i = path ELSE \A q \in Procs : fd[q] # i
       /\ path' = i
       /\ disk' = [disk EXCEPT ![i] = IF path # NoFile THEN @ ELSE <<>>]
       /\ fd' = [fd EXCEPT ![p] = i]
  /\ Goto(p, "write")
  /\ UNCHANGED <<clock, serverVars, dropped, run, readVars, mine, writeVars>>

\* std::fstream with ios::trunc: the file of that name is emptied or created.
OpenForWrite(p) ==
  /\ pc[p] = "openW"
  /\ \E i \in Inode :
       /\ IF path # NoFile THEN i = path ELSE \A q \in Procs : fd[q] # i
       /\ path' = i
       /\ disk' = [disk EXCEPT ![i] = <<>>]
       /\ fd' = [fd EXCEPT ![p] = i]
  /\ Goto(p, "write")
  /\ UNCHANGED <<clock, serverVars, dropped, run, readVars, mine, writeVars>>

\* Mutant: every field is written to the file by itself.
WriteBlock_Unbuffered(p) ==
  /\ pc[p] = "write" /\ pos[p] < Len(out[p])
  /\ disk' = [disk EXCEPT ![fd[p]] = Put(@, pos[p], <<out[p][pos[p] + 1]>>)]
  /\ pos' = [pos EXCEPT ![p] = @ + 1]
  /\ UNCHANGED <<clock, path, serverVars, dropped, pc, run, readVars, fd, mine, out>>

WriteBlock(p) ==
  /\ pc[p] = "write" /\ pos[p] < Len(out[p])
  /\ LET cells == NextBlock(out[p], pos[p])
     IN  /\ disk' = [disk EXCEPT ![fd[p]] = Put(@, pos[p], cells)]
         /\ pos' = [pos EXCEPT ![p] = @ + Len(cells)]
  /\ UNCHANGED <<clock, path, serverVars, dropped, pc, run, readVars, fd, mine, out>>

\* The stream is closed after the last cell, or after an error that is only
\* printed (also when the file could not be opened).
CloseFile(p) ==
  /\ \/ pc[p] = "write"
     \/ pc[p] = "openW"
  /\ Goto(p, "work")
  /\ fd' = [fd EXCEPT ![p] = NoFile]
  /\ out' = [out EXCEPT ![p] = <<>>]
  /\ pos' = [pos EXCEPT ![p] = 0]
  /\ UNCHANGED <<clock, fileVars, serverVars, dropped, run, readVars, mine>>

----------------------------------------------------------------------------
(* closeDescDbStream, from the call, or from the destructor at exit.       *)

\* Mutant: no test whether a reflection session was opened.
CloseStream_NoNullTest(p) ==
  /\ pc[p] = "work"
  /\ End(p, "done") \/ (Goto(p, "drop") /\ UNCHANGED <<run, readVars, fd, mine, writeVars>>)
  /\ UNCHANGED <<clock, fileVars, serverVars, dropped>>

\* A stream that broke is reported by Finish(); one that did not may still
\* fail to close within its deadline.
CloseStream(p) ==
  /\ pc[p] = "work"
  /\ \/ /\ mine[p] # NoFetch => ~fetch[mine[p]].cut
        /\ End(p, "done")
     \/ /\ mine[p] # NoFetch
        /\ Goto(p, "drop")
        /\ UNCHANGED <<run, readVars, fd, mine, writeVars>>
  /\ UNCHANGED <<clock, fileVars, serverVars, dropped>>

\* Mutant: the file stays.
RemoveInvalid_KeepsFile(p) ==
  /\ pc[p] = "drop"
  /\ dropped' = dropped \cup {mine[p]}
  /\ End(p, "done")
  /\ UNCHANGED <<clock, fileVars, serverVars>>

\* The status of the close was not ok: the cache file is removed.
RemoveInvalid(p) ==
  /\ pc[p] = "drop"
  /\ path' = NoFile
  /\ dropped' = dropped \cup {mine[p]}
  /\ End(p, "done")
  /\ UNCHANGED <<clock, disk, serverVars>>

----------------------------------------------------------------------------
Crash(p) ==
  /\ MayCrash /\ pc[p] \in Running
  /\ End(p, "killed")
  /\ UNCHANGED <<clock, fileVars, serverVars, dropped>>

\* Time passes while processes wait, but a request on a reflection stream is
\* answered or has failed when the deadline of the stream is reached.
Tick ==
  /\ clock < MaxTime
  /\ \A p \in Procs : pc[p] \in {"list", "files"} =>
                        clock < fetch[mine[p]].at + StreamDeadline
  /\ clock' = clock + 1
  /\ UNCHANGED <<fileVars, serverVars, dropped, pc, run, readVars, fd, mine, writeVars>>

Read(p)    == Open(p) \/ Missing(p) \/ ReadBlock(p) \/ ReadEnd(p) \/ RemoveUnreadable(p)
Lookup(p)  == ServeFromCache(p) \/ Miss(p)
Reflect(p) == Connect(p) \/ ListServices(p) \/ ServerFails(p) \/ FetchFiles(p)
Write(p)   == OpenForWrite(p) \/ WriteBlock(p) \/ CloseFile(p)
Close(p)   == CloseStream(p) \/ RemoveInvalid(p)
Step(p)    == Read(p) \/ Lookup(p) \/ Reflect(p) \/ Write(p) \/ Close(p)

Next == (\E p \in Procs : Start(p) \/ Step(p) \/ Crash(p)) \/ Tick

Spec     == Init /\ [][Next]_vars
FairSpec == Spec /\ \A p \in Procs : WF_vars(Step(p))

----------------------------------------------------------------------------
(* Properties.                                                             *)

\* Type invariant: the variables of the cache protocol have their types.
TypeOK ==
  /\ clock \in Time
  /\ path \in Inode \cup {NoFile}
  /\ disk \in [Inode -> Seq(Cell)]
  /\ nFetches \in 0 .. MaxFetch /\ fetch \in [FetchId -> FetchRec]
  /\ dropped \subseteq FetchId
  /\ pc \in [Procs -> Ended \cup Running]
  /\ run \in [Procs -> RunRec]
  /\ retried \in [Procs -> BOOLEAN]
  /\ fd \in [Procs -> Inode \cup {NoFile}]
  /\ buf \in [Procs -> Seq(Cell)]
  /\ rest \in [Procs -> Seq(Entry)]
  /\ mine \in [Procs -> FetchId \cup {NoFetch}]
  /\ out \in [Procs -> Seq(Cell)]
  /\ pos \in [Procs -> Nat]

Serves(p) == pc[p] = "decide" /\ Hit(p)

\* The entry a hit serves.
ServedEntry(p) ==
  LET hosts == HostsOf(buf[p])
  IN  hosts[CHOOSE i \in 1 .. Len(hosts) : IsFirstFor(hosts, i, run[p].host)]

\* Descriptors served from the file left their server at most the timeout of
\* the cache and the deadline of a reflection stream ago, whoever fetched them
\* and however often the entry was carried over into a rewritten file.  (For an
\* entry that is not spliced from two writes, see ServedEntryWhole.)
StalenessBound ==
  \A p \in Procs : Serves(p) =>
    LET e == ServedEntry(p)
    IN  e.head = e.body => clock - fetch[e.body].at <= Timeout + StreamDeadline

\* Without concurrent invocations the time stamp and the descriptors served
\* come from one reflection session, whatever was killed before.
ServedEntryWhole ==
  \A p \in Procs : Serves(p) => ServedEntry(p).head = ServedEntry(p).body

\* A failed close of the reflection stream invalidates what was fetched over
\* it: no later invocation is served an entry from that session, in particular
\* none whose descriptors were cut short (DescDbProxy.cpp:384-390).
InvalidatedNotServed ==
  \A p \in Procs : Serves(p) =>
    {ServedEntry(p).head, ServedEntry(p).body} \cap run[p].gone = {}

\* A database that is written never has two entries for one host, so the entry
\* that is refreshed is the one that the next lookup finds first.
OneEntryPerHost ==
  \A p \in Procs : \A i, j \in 1 .. Len(HostsOf(out[p])) :
    HostOf(HostsOf(out[p])[i]) = HostOf(HostsOf(out[p])[j]) => i = j

\* The state of the cache file never ends an invocation: a missing or an
\* unreadable file is replaced (DescDbProxy.cpp:318 and 333-334).
CacheNeverFatal == \A p \in Procs : pc[p] # "exitCache"

\* No invocation waits for another one or loops over the file: each one ends,
\* whatever the others do to the file.
EveryRunEnds == \A p \in Procs : pc[p] \in Running ~> pc[p] \in Ended

----------------------------------------------------------------------------
(* One invocation after another: the cache is a map (CacheMap).            *)

\* The only place of invocation.
Place == CHOOSE p \in Procs : TRUE

\* What the next lookup would find, if a write that has begun was complete.
Contents ==
  IF pc[Place] = "write" THEN out[Place]
  ELSE IF path # NoFile /\ Parses(disk[path]) THEN disk[path] ELSE <<>>

\* The sessions that the entries of a host are from.
SessionsOf(hosts, h) ==
  UNION {{e.head, e.body} : e \in {hosts[i] : i \in {k \in 1 .. Len(hosts) : HostOf(hosts[k]) = h}}}

Stored == [h \in Hosts |-> SessionsOf(HostsOf(Contents), h)]

Served == IF Serves(Place) THEN {ServedEntry(Place).head, ServedEntry(Place).body} ELSE {}

Map == INSTANCE CacheMap WITH begun <- nFetches, stored <- Stored, invalid <- dropped, served <- Served

\* Invocations that follow one another see the file as a map that is changed in
\* one step, although it is truncated and written in blocks: what is served is
\* what the last session for the host has stored, and was not invalidated; a
\* killed writer can only lose entries, and never brings an old one back.
ActsAsMap == Map!Spec
=============================================================================
