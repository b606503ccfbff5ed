-------------------------- MODULE DescCacheProofs --------------------------
(***************************************************************************)
(* Theorems about the descriptor cache, for every number of processes,     *)
(* hosts and builds, every block size and every bound.                     *)
(*                                                                         *)
(* First what holds however invocations overlap.  Then what the cache      *)
(* guarantees when they do not, that is with a single place p where        *)
(* gWhisper is invoked: however often an invocation is killed, loses its   *)
(* server or fails to close its stream, the entries that are served are    *)
(* whole and from sessions that were not invalidated, no two entries of a  *)
(* file are of one host, and the state of the file never ends an           *)
(* invocation.  Such invocations implement CacheMap: to them the file is   *)
(* a map from hosts to entries.  Last, what the cache guarantees when      *)
(* invocations overlap but a database fits into one block.                 *)
(***************************************************************************)
EXTENDS DescCache, TLAPS, FiniteSetTheorems, SequenceTheorems

----------------------------------------------------------------------------
(* What the helpers of the model return.                                   *)

LEMMA NoRunType == ASSUME ConstantsAssumption PROVE NoRun \in RunRec
  BY ConstantsAssumption DEF ConstantsAssumption, NoRun, RunRec

\* Serializing entries of known sessions gives cells.
LEMMA SerializedType ==
  ASSUME NEW hosts \in Seq(Entry), NEW v \in Versions
  PROVE  Serialized(hosts, v) \in Seq(Cell)
<1> DEFINE n == Len(hosts)
<1>1. n \in Nat
  OBVIOUS
<1>2. ASSUME NEW i \in 1 .. 2 * n + 1
      PROVE  Serialized(hosts, v)[i] \in Cell
  <2>1. CASE i = 2 * n + 1
    BY <2>1, <1>1 DEF Serialized, Cell, VerCell
  <2>2. CASE i # 2 * n + 1 /\ i % 2 = 1
    <3>1. (i + 1) \div 2 \in 1 .. n
      BY <2>2, <1>1
    <3>2. hosts[(i + 1) \div 2] \in Entry
      BY <3>1
    <3> QED
      BY <2>2, <3>2, <1>1 DEF Serialized, Cell, HeadCell, Entry
  <2>3. CASE i # 2 * n + 1 /\ i % 2 # 1
    <3>1. i \div 2 \in 1 .. n
      BY <2>3, <1>1
    <3>2. hosts[i \div 2] \in Entry
      BY <3>1
    <3> QED
      BY <2>3, <3>2, <1>1 DEF Serialized, Cell, BodyCell, Entry
  <2> QED
    BY <2>1, <2>2, <2>3
<1>3. Serialized(hosts, v) = [i \in 1 .. 2 * n + 1 |-> Serialized(hosts, v)[i]]
  BY DEF Serialized
<1> HIDE DEF n
<1>4. 2 * n + 1 \in Nat
  BY <1>1
<1> QED
  BY <1>2, <1>3, <1>4, IsASeq

\* A write into a file leaves a file.
LEMMA PutType ==
  ASSUME NEW c \in Seq(Cell), NEW n \in Nat, NEW cells \in Seq(Cell)
  PROVE  Put(c, n, cells) \in Seq(Cell)
<1> DEFINE len == IF n + Len(cells) > Len(c) THEN n + Len(cells) ELSE Len(c)
<1>1. len \in Nat
  OBVIOUS
<1>2. ASSUME NEW j \in 1 .. len
      PROVE  Put(c, n, cells)[j] \in Cell
  <2>1. CASE j > n /\ j <= n + Len(cells)
    <3>1. cells[j - n] \in Cell
      BY <2>1
    <3> QED
      BY <2>1, <3>1 DEF Put
  <2>2. CASE ~(j > n /\ j <= n + Len(cells)) /\ j <= Len(c)
    BY <2>2 DEF Put
  <2>3. CASE ~(j > n /\ j <= n + Len(cells)) /\ ~(j <= Len(c))
    BY <2>3 DEF Put, Cell
  <2> QED
    BY <2>1, <2>2, <2>3
<1>3. Put(c, n, cells) = [j \in 1 .. len |-> Put(c, n, cells)[j]]
  BY DEF Put
<1> HIDE DEF len
<1> QED
  BY <1>1, <1>2, <1>3, IsASeq

\* A block of a sequence of cells is one.
LEMMA NextBlockType ==
  ASSUME ConstantsAssumption, NEW c \in Seq(Cell), NEW n \in Nat, n < Len(c)
  PROVE  /\ NextBlock(c, n) \in Seq(Cell)
         /\ Len(NextBlock(c, n)) = (IF n + Block > Len(c) THEN Len(c) ELSE n + Block) - n
         /\ \A i \in 1 .. Len(NextBlock(c, n)) : NextBlock(c, n)[i] = c[n + i]
<1>1. Block \in Nat /\ Block > 0
  BY DEF ConstantsAssumption
<1> DEFINE m == IF n + Block > Len(c) THEN Len(c) ELSE n + Block
<1>2. m \in n + 1 .. Len(c) /\ n + 1 \in 1 .. Len(c) + 1
  BY <1>1
<1>3. NextBlock(c, n) = SubSeq(c, n + 1, m)
  BY DEF NextBlock
<1> HIDE DEF m
<1>4. /\ SubSeq(c, n + 1, m) \in Seq(Cell)
      /\ Len(SubSeq(c, n + 1, m)) = m - (n + 1) + 1
      /\ \A i \in 1 .. m - (n + 1) + 1 : SubSeq(c, n + 1, m)[i] = c[n + 1 + i - 1]
  BY <1>2, SubSeqProperties
<1>5. NextBlock(c, n) \in Seq(Cell) /\ Len(NextBlock(c, n)) = m - n
  BY <1>2, <1>3, <1>4
<1>6. ASSUME NEW i \in 1 .. Len(NextBlock(c, n)) PROVE NextBlock(c, n)[i] = c[n + i]
  <2>1. i \in 1 .. m - (n + 1) + 1 /\ n + 1 + i - 1 = n + i
    BY <1>2, <1>5
  <2> QED
    BY <1>3, <1>4, <2>1
<1> QED
  BY <1>5, <1>6 DEF m

\* The entries of a file that parses are entries of known sessions.
LEMMA HostsOfType ==
  ASSUME NEW c \in Seq(Cell), Parses(c)
  PROVE  /\ HostsOf(c) \in Seq(Entry)
         /\ Len(HostsOf(c)) = Len(c) \div 2
         /\ \A j \in 1 .. Len(c) \div 2 :
              HostsOf(c)[j] = [head |-> c[2*j - 1].f, body |-> c[2*j].f]
<1> DEFINE n == Len(c) \div 2
<1>1. n \in Nat
  OBVIOUS
<1>2. ASSUME NEW j \in 1 .. n
      PROVE  [head |-> c[2*j - 1].f, body |-> c[2*j].f] \in Entry
  <2>1. 2*j - 1 \in 1 .. Len(c) /\ 2*j \in 1 .. Len(c) /\ 2*j - 1 # Len(c)
    OBVIOUS
  <2>2. (2*j) % 2 = 0 /\ (2*j - 1) % 2 # 0
    OBVIOUS
  <2>3. c[2*j - 1].k = "head" /\ c[2*j].k = "body"
    BY <2>1, <2>2 DEF Parses, KindAt
  <2>4. c[2*j - 1] \in Cell /\ c[2*j] \in Cell
    BY <2>1
  <2> QED
    BY <2>3, <2>4 DEF Cell, Entry, Hole
<1>3. HostsOf(c) = [j \in 1 .. n |-> [head |-> c[2*j - 1].f, body |-> c[2*j].f]]
  BY DEF HostsOf
<1> HIDE DEF n
<1>4. HostsOf(c) \in Seq(Entry)
  BY <1>1, <1>2, <1>3, IsASeq
<1>5. Len(HostsOf(c)) = n
  BY <1>1, <1>3
<1> QED
  BY <1>3, <1>4, <1>5 DEF n

\* What is left of the entries are some of them.
LEMMA WithoutHostType ==
  ASSUME NEW hosts \in Seq(Entry), NEW h, NEW s \in WithoutHost(hosts, h)
  PROVE  /\ s \in Seq(Entry)
         /\ \A i \in 1 .. Len(s) : \E j \in 1 .. Len(hosts) :
              s[i] = hosts[j] /\ HostOf(hosts[j]) # h
<1> DEFINE keep == {i \in 1 .. Len(hosts) : HostOf(hosts[i]) # h}
           n == Cardinality(keep)
<1>1. n \in Nat
  <2>1. IsFiniteSet(1 .. Len(hosts))
    BY FS_Interval
  <2>2. IsFiniteSet(keep)
    BY <2>1, FS_Subset
  <2> QED
    BY <2>2, FS_CardinalityType
<1> HIDE DEF n
<1>2. PICK o \in [1 .. n -> keep] : s = [i \in 1 .. n |-> hosts[o[i]]]
  BY DEF WithoutHost, n
<1>3. \A i \in 1 .. n : o[i] \in 1 .. Len(hosts) /\ HostOf(hosts[o[i]]) # h
  BY <1>2
<1>4. \A i \in 1 .. n : hosts[o[i]] \in Entry
  BY <1>3
<1>5. s \in Seq(Entry) /\ Len(s) = n
  BY <1>1, <1>2, <1>4, IsASeq
<1> QED
  BY <1>2, <1>3, <1>5

----------------------------------------------------------------------------
(* Type correctness.  The types alone are not inductive: that a process    *)
(* reads and writes through an open descriptor, and parses before it       *)
(* decides, follows from where it is.                                      *)

LocalInv ==
  \A p \in Procs :
    /\ pc[p] \in {"read", "write"} => fd[p] \in Inode
    /\ pc[p] \in {"list", "files", "drop"} => mine[p] \in FetchId
    /\ pc[p] \notin {"read", "remove", "decide"} => buf[p] = <<>>
    /\ pc[p] = "decide" => Parses(buf[p])

TypeInv == TypeOK /\ LocalInv

LEMMA EmptyParses == Parses(<<>>)
  BY DEF Parses

\* Stamping a session changes its stamp and whether it was cut short, not what
\* it was opened with.
LEMMA StampedSession ==
  ASSUME TypeInv, NEW p \in Procs, FetchFiles(p)
  PROVE  /\ mine[p] \in FetchId
         /\ fetch' \in [FetchId -> FetchRec]
         /\ \A f \in FetchId :
              /\ fetch'[f].host = fetch[f].host /\ fetch'[f].at = fetch[f].at
              /\ fetch'[f].ts = IF f = mine[p] THEN clock ELSE fetch[f].ts
<1>1. mine[p] \in FetchId
  BY DEF FetchFiles, TypeInv, LocalInv
<1>2. fetch \in [FetchId -> FetchRec] /\ clock \in Time
  BY DEF TypeInv, TypeOK
<1>3. PICK cut \in BOOLEAN :
        fetch' = [fetch EXCEPT ![mine[p]].ts = clock, ![mine[p]].cut = cut]
  BY DEF FetchFiles
<1>4. fetch' = [f \in FetchId |-> fetch'[f]]
  BY <1>2, <1>3
<1>5. ASSUME NEW f \in FetchId
      PROVE  /\ fetch'[f] \in FetchRec
             /\ fetch'[f].host = fetch[f].host /\ fetch'[f].at = fetch[f].at
             /\ fetch'[f].ts = IF f = mine[p] THEN clock ELSE fetch[f].ts
  <2>1. fetch[f] \in FetchRec
    BY <1>2
  <2>2. CASE f = mine[p]
    <3>1. fetch'[f] = [fetch[f] EXCEPT !.ts = clock, !.cut = cut]
      BY <1>2, <1>3, <2>2
    <3> QED
      BY <1>2, <2>1, <2>2, <3>1 DEF FetchRec
  <2>3. CASE f # mine[p]
    <3>1. fetch'[f] = fetch[f]
      BY <1>2, <1>3, <2>3
    <3> QED
      BY <2>1, <2>3, <3>1
  <2> QED
    BY <2>2, <2>3
<1> QED
  BY <1>1, <1>4, <1>5

\* The end of a process, as far as TypeInv is concerned.
LEMMA EndType ==
  ASSUME ConstantsAssumption, TypeInv, NEW p \in Procs, NEW l \in Ended, End(p, l),
         UNCHANGED <<clock, disk, serverVars>>,
         path' \in Inode \cup {NoFile}, dropped' \subseteq FetchId
  PROVE  TypeInv'
<1>1. NoRun \in RunRec
  BY NoRunType
<1>2. TypeOK'
  BY <1>1 DEF TypeInv, TypeOK, End, Goto, serverVars
<1>3. LocalInv'
  BY DEF TypeInv, TypeOK, LocalInv, End, Goto, Ended
<1> QED
  BY <1>2, <1>3 DEF TypeInv

LEMMA TypeInvInit == ASSUME ConstantsAssumption, Init PROVE TypeInv
<1>1. NoRun \in RunRec
  BY NoRunType
<1>2. <<>> \in Seq(Cell) /\ <<Hole>> \in Seq(Cell) /\ <<>> \in Seq(Entry)
  BY DEF Cell
<1>3. /\ path \in Inode \cup {NoFile}
      /\ disk \in [Inode -> Seq(Cell)]
  <2>1. 1 \in Inode
    BY DEF Inode, ConstantsAssumption
  <2> QED
    BY <2>1, <1>2 DEF Init
<1>4. fetch \in [FetchId -> FetchRec]
  BY <1>1 DEF Init, FetchRec, RunRec, Time, ConstantsAssumption
<1>5. TypeOK
  <2>1. /\ clock \in Time /\ nFetches \in 0 .. MaxFetch /\ dropped \subseteq FetchId
    BY DEF Init, Time, ConstantsAssumption
  <2>2. /\ pc \in [Procs -> Ended \cup Running] /\ run \in [Procs -> RunRec]
        /\ retried \in [Procs -> BOOLEAN] /\ fd \in [Procs -> Inode \cup {NoFile}]
    BY <1>1 DEF Init, Ended
  <2>3. /\ buf \in [Procs -> Seq(Cell)] /\ rest \in [Procs -> Seq(Entry)]
        /\ mine \in [Procs -> FetchId \cup {NoFetch}]
        /\ out \in [Procs -> Seq(Cell)] /\ pos \in [Procs -> Nat]
    BY <1>2 DEF Init
  <2> QED
    BY <1>3, <1>4, <2>1, <2>2, <2>3 DEF TypeOK
<1>6. LocalInv
  BY DEF Init, LocalInv
<1> QED
  BY <1>5, <1>6 DEF TypeInv

\* Each step of a process preserves TypeInv.
LEMMA TypeInvRead ==
  ASSUME ConstantsAssumption, TypeInv, NEW p \in Procs, Read(p)
  PROVE  TypeInv'
<1> USE DEF TypeInv
<1>1. CASE Open(p)
  <2>1. TypeOK'
    <3>1. pc' \in [Procs -> Ended \cup Running] /\ fd' \in [Procs -> Inode \cup {NoFile}]
      BY <1>1 DEF TypeOK, Open, Goto, Running
    <3>2. UNCHANGED <<clock, fileVars, serverVars, dropped, run, readVars, mine, writeVars>>
      BY <1>1 DEF Open
    <3> QED
      BY <3>1, <3>2 DEF TypeOK, fileVars, serverVars, readVars, writeVars
  <2>2. LocalInv'
    <3>1. /\ buf[p] = <<>> /\ UNCHANGED <<mine, buf>>
          /\ \/ pc' = [pc EXCEPT ![p] = "read"] /\ fd' = [fd EXCEPT ![p] = path] /\ path \in Inode
             \/ pc' = [pc EXCEPT ![p] = "missing"] /\ fd' = fd
      BY <1>1 DEF TypeOK, LocalInv, Open, Goto, readVars
    <3>2. pc \in [Procs -> Ended \cup Running] /\ fd \in [Procs -> Inode \cup {NoFile}]
      BY DEF TypeOK
    <3> QED
      BY <3>1, <3>2 DEF LocalInv
  <2> QED
    BY <2>1, <2>2
<1>2. CASE Missing(p)
  <2>1. CASE path # NoFile
    <3>1. "exitCache" \in Ended
      BY DEF Ended
    <3> QED
      BY <1>2, <2>1, <3>1, EndType DEF Missing, TypeOK, fileVars
  <2>2. CASE path = NoFile
    <3>1. TypeOK'
      BY <1>2, <2>2 DEF TypeOK, Missing, Goto, Running, fileVars, serverVars, readVars, writeVars
    <3>2. LocalInv'
      BY <1>2, <2>2, EmptyParses DEF TypeOK, LocalInv, Missing, Goto, readVars
    <3> QED
      BY <3>1, <3>2
  <2> QED
    BY <2>1, <2>2
<1>3. CASE ReadBlock(p)
  <2> DEFINE c == disk[fd[p]]
             b == buf[p]
  <2>1. c \in Seq(Cell) /\ b \in Seq(Cell) /\ Len(b) \in Nat /\ Len(b) < Len(c)
    BY <1>3 DEF TypeOK, LocalInv, ReadBlock
  <2>2. NextBlock(c, Len(b)) \in Seq(Cell)
    BY <2>1, NextBlockType
  <2>3. b \o NextBlock(c, Len(b)) \in Seq(Cell)
    BY <2>1, <2>2, ConcatProperties
  <2>4. buf' = [buf EXCEPT ![p] = b \o NextBlock(c, Len(b))]
    BY <1>3 DEF ReadBlock
  <2> HIDE DEF c, b
  <2>5. TypeOK'
    BY <1>3, <2>3, <2>4 DEF TypeOK, ReadBlock, fileVars, serverVars, writeVars
  <2>6. LocalInv'
    BY <1>3, <2>4 DEF TypeOK, LocalInv, ReadBlock
  <2> QED
    BY <2>5, <2>6
<1>4. CASE ReadEnd(p)
  <2>1. CASE End(p, "exitCache")
    <3>1. "exitCache" \in Ended
      BY DEF Ended
    <3> QED
      BY <1>4, <2>1, <3>1, EndType DEF ReadEnd, TypeOK, fileVars
  <2>2. CASE Parses(buf[p]) /\ Goto(p, "decide") /\ UNCHANGED <<run, readVars, fd, mine, writeVars>>
    <3>1. TypeOK'
      BY <1>4, <2>2 DEF TypeOK, ReadEnd, Goto, Running, fileVars, serverVars, readVars, writeVars
    <3>2. LocalInv'
      BY <1>4, <2>2 DEF TypeOK, LocalInv, ReadEnd, Goto, readVars
    <3> QED
      BY <3>1, <3>2
  <2>3. CASE Goto(p, "remove") /\ UNCHANGED <<run, readVars, fd, mine, writeVars>>
    <3>1. TypeOK'
      BY <1>4, <2>3 DEF TypeOK, ReadEnd, Goto, Running, fileVars, serverVars, readVars, writeVars
    <3>2. LocalInv'
      BY <1>4, <2>3 DEF TypeOK, LocalInv, ReadEnd, Goto, readVars
    <3> QED
      BY <3>1, <3>2
  <2> QED
    BY <1>4, <2>1, <2>2, <2>3 DEF ReadEnd
<1>5. CASE RemoveUnreadable(p)
  <2>1. <<>> \in Seq(Cell)
    OBVIOUS
  <2>2. TypeOK'
    BY <1>5, <2>1 DEF TypeOK, RemoveUnreadable, Goto, Running, serverVars, writeVars
  <2>3. LocalInv'
    BY <1>5 DEF TypeOK, LocalInv, RemoveUnreadable, Goto
  <2> QED
    BY <2>2, <2>3
<1> QED
  BY <1>1, <1>2, <1>3, <1>4, <1>5 DEF Read

LEMMA TypeInvLookup ==
  ASSUME ConstantsAssumption, TypeInv, NEW p \in Procs, Lookup(p)
  PROVE  TypeInv'
<1> USE DEF TypeInv
<1>1. <<>> \in Seq(Cell)
  OBVIOUS
<1>2. CASE ServeFromCache(p)
  <2>1. TypeOK'
    BY <1>1, <1>2 DEF TypeOK, ServeFromCache, Goto, Running, fileVars, serverVars, writeVars
  <2>2. LocalInv'
    BY <1>2 DEF TypeOK, LocalInv, ServeFromCache, Goto
  <2> QED
    BY <2>1, <2>2
<1>3. CASE Miss(p)
  <2>1. buf[p] \in Seq(Cell) /\ Parses(buf[p])
    BY <1>3 DEF TypeOK, LocalInv, Miss
  <2>2. HostsOf(buf[p]) \in Seq(Entry)
    BY <2>1, HostsOfType
  <2>3. PICK s \in WithoutHost(HostsOf(buf[p]), run[p].host) : rest' = [rest EXCEPT ![p] = s]
    BY <1>3 DEF Miss
  <2>4. s \in Seq(Entry)
    BY <2>2, <2>3, WithoutHostType
  <2>5. TypeOK'
    BY <1>1, <1>3, <2>3, <2>4 DEF TypeOK, Miss, Goto, Running, fileVars, serverVars, writeVars
  <2>6. LocalInv'
    BY <1>3 DEF TypeOK, LocalInv, Miss, Goto
  <2> QED
    BY <2>5, <2>6
<1> QED
  BY <1>2, <1>3 DEF Lookup

LEMMA TypeInvReflect ==
  ASSUME ConstantsAssumption, TypeInv, NEW p \in Procs, Reflect(p)
  PROVE  TypeInv'
<1> USE DEF TypeInv
<1>1. CASE Connect(p)
  <2>1. nFetches + 1 \in FetchId /\ nFetches' = nFetches + 1
    BY <1>1 DEF TypeOK, Connect, FetchId, ConstantsAssumption
  <2>2. [host |-> run[p].host, at |-> clock, ts |-> clock, cut |-> FALSE] \in FetchRec
    BY DEF TypeOK, RunRec, FetchRec
  <2>3. nFetches' \in 0 .. MaxFetch
    BY <2>1 DEF FetchId
  <2>4. TypeOK'
    BY <1>1, <2>1, <2>2, <2>3 DEF TypeOK, Connect, Goto, Running, fileVars, readVars, writeVars
  <2>5. LocalInv'
    BY <1>1, <2>1 DEF TypeOK, LocalInv, Connect, Goto, readVars
  <2> QED
    BY <2>4, <2>5
<1>2. CASE ListServices(p)
  <2>1. TypeOK'
    BY <1>2 DEF TypeOK, ListServices, Goto, Running, fileVars, serverVars, readVars, writeVars
  <2>2. LocalInv'
    BY <1>2 DEF TypeOK, LocalInv, ListServices, Goto, readVars
  <2> QED
    BY <2>1, <2>2
<1>3. CASE ServerFails(p)
  <2>1. "exitServer" \in Ended
    BY DEF Ended
  <2> QED
    BY <1>3, <2>1, EndType DEF ServerFails, TypeOK, fileVars
<1>4. CASE FetchFiles(p)
  <2>1. mine[p] \in FetchId
    BY <1>4 DEF LocalInv, FetchFiles
  <2>3. fetch' \in [FetchId -> FetchRec]
    BY <1>4, StampedSession
  <2>4. <<>> \in Seq(Entry)
    OBVIOUS
  <2>5. rest[p] \in Seq(Entry) /\ [head |-> mine[p], body |-> mine[p]] \in Entry
    BY <2>1 DEF TypeOK, Entry
  <2>6. Append(rest[p], [head |-> mine[p], body |-> mine[p]]) \in Seq(Entry)
    BY <2>5, AppendProperties
  <2>7. run[p].build \in Versions
    BY DEF TypeOK, RunRec
  <2>8. Serialized(Append(rest[p], [head |-> mine[p], body |-> mine[p]]), run[p].build) \in Seq(Cell)
    BY <2>6, <2>7, SerializedType
  <2>9. out' \in [Procs -> Seq(Cell)] /\ pc' \in [Procs -> Ended \cup Running]
    <3> DEFINE db == Serialized(Append(rest[p], [head |-> mine[p], body |-> mine[p]]), run[p].build)
    <3>1. \/ pc' = [pc EXCEPT ![p] = "work"] /\ out' = out
          \/ pc' = [pc EXCEPT ![p] = "openW"] /\ out' = [out EXCEPT ![p] = db]
      BY <1>4 DEF FetchFiles, Goto
    <3>2. "work" \in Running /\ "openW" \in Running
      BY DEF Running
    <3>3. pc \in [Procs -> Ended \cup Running] /\ out \in [Procs -> Seq(Cell)]
      BY DEF TypeOK
    <3> HIDE DEF db
    <3>4. db \in Seq(Cell)
      BY <2>8 DEF db
    <3> QED
      BY <3>1, <3>2, <3>3, <3>4
  <2>10. TypeOK'
    BY <1>4, <2>3, <2>4, <2>9 DEF TypeOK, FetchFiles, fileVars
  <2>11. LocalInv'
    BY <1>4 DEF TypeOK, LocalInv, FetchFiles, Goto
  <2> QED
    BY <2>10, <2>11
<1> QED
  BY <1>1, <1>2, <1>3, <1>4 DEF Reflect

LEMMA TypeInvWrite ==
  ASSUME ConstantsAssumption, TypeInv, NEW p \in Procs, Write(p)
  PROVE  TypeInv'
<1> USE DEF TypeInv
<1>1. <<>> \in Seq(Cell)
  OBVIOUS
<1>2. CASE OpenForWrite(p)
  <2>1. TypeOK'
    BY <1>1, <1>2 DEF TypeOK, OpenForWrite, Goto, Running, serverVars, readVars, writeVars
  <2>2. LocalInv'
    BY <1>2 DEF TypeOK, LocalInv, OpenForWrite, Goto, readVars
  <2> QED
    BY <2>1, <2>2
<1>3. CASE WriteBlock(p)
  <2> DEFINE cells == NextBlock(out[p], pos[p])
             file  == Put(disk[fd[p]], pos[p], cells)
  <2>1. /\ out[p] \in Seq(Cell) /\ pos[p] \in Nat /\ pos[p] < Len(out[p])
        /\ fd[p] \in Inode /\ disk[fd[p]] \in Seq(Cell)
    BY <1>3 DEF TypeOK, LocalInv, WriteBlock
  <2>2. cells \in Seq(Cell) /\ Len(cells) \in Nat
    BY <2>1, NextBlockType
  <2>3. file \in Seq(Cell)
    BY <2>1, <2>2, PutType
  <2>4. /\ disk' = [disk EXCEPT ![fd[p]] = file]
        /\ pos' = [pos EXCEPT ![p] = pos[p] + Len(cells)]
    BY <1>3 DEF WriteBlock
  <2> HIDE DEF cells, file
  <2>5. disk' \in [Inode -> Seq(Cell)] /\ pos' \in [Procs -> Nat]
    BY <2>1, <2>2, <2>3, <2>4 DEF TypeOK
  <2>6. UNCHANGED <<clock, path, serverVars, dropped, pc, run, readVars, fd, mine, out>>
    BY <1>3 DEF WriteBlock
  <2>7. TypeOK'
    BY <2>5, <2>6 DEF TypeOK, serverVars, readVars
  <2>8. LocalInv'
    BY <1>3 DEF TypeOK, LocalInv, WriteBlock, readVars
  <2> QED
    BY <2>7, <2>8
<1>4. CASE CloseFile(p)
  <2>1. TypeOK'
    BY <1>1, <1>4 DEF TypeOK, CloseFile, Goto, Running, fileVars, serverVars, readVars
  <2>2. LocalInv'
    BY <1>4 DEF TypeOK, LocalInv, CloseFile, Goto, readVars
  <2> QED
    BY <2>1, <2>2
<1> QED
  BY <1>2, <1>3, <1>4 DEF Write

LEMMA TypeInvClose ==
  ASSUME ConstantsAssumption, TypeInv, NEW p \in Procs, Close(p)
  PROVE  TypeInv'
<1> USE DEF TypeInv
<1>1. "done" \in Ended
  BY DEF Ended
<1>2. CASE CloseStream(p)
  <2>1. CASE End(p, "done")
    BY <1>1, <1>2, <2>1, EndType DEF CloseStream, TypeOK, fileVars
  <2>2. CASE mine[p] # NoFetch /\ Goto(p, "drop") /\ UNCHANGED <<run, readVars, fd, mine, writeVars>>
    <3>1. TypeOK'
      BY <1>2, <2>2 DEF TypeOK, CloseStream, Goto, Running, fileVars, serverVars, readVars, writeVars
    <3>2. LocalInv'
      BY <1>2, <2>2 DEF TypeOK, LocalInv, CloseStream, Goto, readVars
    <3> QED
      BY <3>1, <3>2
  <2> QED
    BY <1>2, <2>1, <2>2 DEF CloseStream
<1>3. CASE RemoveInvalid(p)
  <2>1. mine[p] \in FetchId
    BY <1>3 DEF LocalInv, RemoveInvalid
  <2>2. /\ path' \in Inode \cup {NoFile} /\ dropped' \subseteq FetchId
        /\ UNCHANGED <<clock, disk, serverVars>> /\ End(p, "done")
    BY <1>3, <2>1 DEF RemoveInvalid, TypeOK
  <2> QED
    BY <1>1, <2>2, EndType
<1> QED
  BY <1>2, <1>3 DEF Close

LEMMA TypeInvNext == ASSUME ConstantsAssumption, TypeInv, [Next]_vars PROVE TypeInv'
<1>1. ASSUME NEW p \in Procs, Start(p)
      PROVE  TypeInv'
  <2> USE DEF TypeInv
  <2>1. run' \in [Procs -> RunRec] /\ pc' \in [Procs -> Ended \cup Running]
    BY <1>1 DEF TypeOK, Start, Goto, Running, RunRec
  <2>2. TypeOK'
    BY <1>1, <2>1 DEF TypeOK, Start, fileVars, serverVars, readVars, writeVars
  <2>3. LocalInv'
    <3>1. buf[p] = <<>>
      BY <1>1 DEF LocalInv, Start, Ended
    <3> QED
      BY <1>1, <3>1 DEF TypeOK, LocalInv, Start, Goto, readVars
  <2> QED
    BY <2>2, <2>3
<1>2. ASSUME NEW p \in Procs, Step(p)
      PROVE  TypeInv'
  BY <1>2, TypeInvRead, TypeInvLookup, TypeInvReflect, TypeInvWrite, TypeInvClose DEF Step
<1>3. ASSUME NEW p \in Procs, Crash(p)
      PROVE  TypeInv'
  <2>1. "killed" \in Ended
    BY DEF Ended
  <2> QED
    BY <1>3, <2>1, EndType DEF Crash, TypeInv, TypeOK, fileVars
<1>4. CASE Tick
  <2>1. clock' \in Time
    BY <1>4 DEF TypeInv, TypeOK, Tick, Time, ConstantsAssumption
  <2>2. TypeOK'
    BY <1>4, <2>1 DEF TypeInv, TypeOK, Tick, fileVars, serverVars, readVars, writeVars
  <2>3. LocalInv'
    BY <1>4 DEF TypeInv, LocalInv, Tick, readVars
  <2> QED
    BY <2>2, <2>3 DEF TypeInv
<1>5. CASE UNCHANGED vars
  BY <1>5 DEF TypeInv, TypeOK, LocalInv, vars, fileVars, serverVars, readVars, writeVars
<1> QED
  BY <1>1, <1>2, <1>3, <1>4, <1>5 DEF Next

\* The variables of the cache protocol keep their types (TypeOK).
THEOREM TypeCorrect == Spec => []TypeOK
<1>1. Init => TypeInv
  BY ConstantsAssumption, TypeInvInit
<1>2. TypeInv /\ [Next]_vars => TypeInv'
  BY ConstantsAssumption, TypeInvNext
<1>3. TypeInv => TypeOK
  BY DEF TypeInv
<1> QED
  BY <1>1, <1>2, <1>3, PTL DEF Spec

\* No step changes the host of a session that has begun.
LEMMA SessionHosts ==
  ASSUME ConstantsAssumption, TypeInv, [Next]_vars
  PROVE  nFetches <= nFetches' /\ \A f \in 1 .. nFetches : fetch'[f].host = fetch[f].host
<1>1. nFetches \in 0 .. MaxFetch /\ MaxFetch \in Nat
  BY DEF ConstantsAssumption, TypeInv, TypeOK
<1>2. \A f \in 1 .. nFetches : f \in FetchId
  BY <1>1 DEF FetchId
<1>3. ASSUME NEW p \in Procs, Connect(p)
      PROVE  nFetches <= nFetches' /\ \A f \in 1 .. nFetches : fetch'[f].host = fetch[f].host
  <2>1. nFetches' = nFetches + 1
    BY <1>3 DEF Connect
  <2>2. \A f \in FetchId : f # nFetches' => fetch'[f] = fetch[f]
    BY <1>3 DEF Connect, TypeInv, TypeOK
  <2> QED
    BY <1>1, <1>2, <2>1, <2>2
<1>4. ASSUME NEW p \in Procs, FetchFiles(p)
      PROVE  nFetches <= nFetches' /\ \A f \in 1 .. nFetches : fetch'[f].host = fetch[f].host
  <2>1. nFetches' = nFetches
    BY <1>4 DEF FetchFiles
  <2> QED
    BY <1>1, <1>2, <1>4, <2>1, StampedSession
<1>5. CASE UNCHANGED serverVars
  BY <1>1, <1>5 DEF serverVars
<1>6. ASSUME NEW p \in Procs, Step(p)
      PROVE  Connect(p) \/ FetchFiles(p) \/ UNCHANGED serverVars
  BY <1>6 DEF Step, Read, Lookup, Reflect, Write, Close, Open, Missing, ReadBlock, ReadEnd,
              RemoveUnreadable, ServeFromCache, Miss, ListServices, ServerFails, OpenForWrite,
              WriteBlock, CloseFile, CloseStream, RemoveInvalid
<1>7. (\E p \in Procs : Start(p) \/ Crash(p)) \/ Tick \/ UNCHANGED vars => UNCHANGED serverVars
  BY DEF Start, Crash, Tick, vars, serverVars
<1> QED
  BY <1>3, <1>4, <1>5, <1>6, <1>7 DEF Next

----------------------------------------------------------------------------
(* The age of what is served.  A session is stamped while the deadline of  *)
(* its stream has not passed, because the process that holds it is then    *)
(* waiting for the server; the stamp never changes later, also not when    *)
(* another process carries the entry into the file it writes.              *)

StampInv ==
  /\ \A f \in FetchId : fetch[f].ts <= fetch[f].at + StreamDeadline
  /\ \A p \in Procs : pc[p] \in {"list", "files"} =>
       /\ mine[p] \in 1 .. nFetches
       /\ clock <= fetch[mine[p]].at + StreamDeadline

LEMMA StampInvNext ==
  ASSUME ConstantsAssumption, TypeInv, StampInv, [Next]_vars
  PROVE  StampInv'
<1>1. /\ clock \in Int /\ nFetches \in Nat /\ StreamDeadline \in Nat /\ MaxFetch \in Nat
      /\ \A f \in FetchId : fetch[f].ts \in Int /\ fetch[f].at \in Int
  BY DEF TypeInv, TypeOK, FetchRec, Time, ConstantsAssumption
<1>2. ASSUME NEW p \in Procs, Connect(p)
      PROVE  StampInv'
  <2>1. /\ nFetches' = nFetches + 1 /\ nFetches' \in FetchId
        /\ fetch' = [fetch EXCEPT ![nFetches'] =
             [host |-> run[p].host, at |-> clock, ts |-> clock, cut |-> FALSE]]
        /\ fetch'[nFetches'].at = clock /\ fetch'[nFetches'].ts = clock
        /\ \A f \in FetchId \ {nFetches'} : fetch'[f] = fetch[f]
    BY <1>1, <1>2 DEF TypeInv, TypeOK, Connect, FetchId
  <2>2. /\ mine' = [mine EXCEPT ![p] = nFetches'] /\ clock' = clock
        /\ pc' = [pc EXCEPT ![p] = "list"]
    BY <1>2 DEF Connect, Goto
  <2>3. ASSUME NEW q \in Procs, pc'[q] \in {"list", "files"}
        PROVE  mine'[q] \in 1 .. nFetches' /\ clock' <= fetch'[mine'[q]].at + StreamDeadline
    <3>1. CASE q = p
      BY <1>1, <2>1, <2>2, <3>1 DEF TypeInv, TypeOK
    <3>2. CASE q # p
      <4>1. mine'[q] = mine[q] /\ mine[q] \in 1 .. nFetches
            /\ clock <= fetch[mine[q]].at + StreamDeadline
        BY <2>2, <2>3, <3>2 DEF TypeInv, TypeOK, StampInv
      <4>2. mine[q] \in FetchId \ {nFetches'}
        BY <1>1, <2>1, <4>1 DEF FetchId
      <4> QED
        BY <1>1, <2>1, <2>2, <4>1, <4>2
    <3> QED
      BY <3>1, <3>2
  <2>4. ASSUME NEW f \in FetchId
        PROVE  fetch'[f].ts <= fetch'[f].at + StreamDeadline
    BY <1>1, <2>1 DEF StampInv
  <2> QED
    BY <2>3, <2>4 DEF StampInv
<1>3. ASSUME NEW p \in Procs, FetchFiles(p)
      PROVE  StampInv'
  <2>1. mine[p] \in FetchId /\ clock <= fetch[mine[p]].at + StreamDeadline
    BY <1>3 DEF FetchFiles, StampInv, TypeInv, LocalInv
  <2>2. \A f \in FetchId : /\ fetch'[f].at = fetch[f].at
                          /\ fetch'[f].ts = IF f = mine[p] THEN clock ELSE fetch[f].ts
    BY <1>3, StampedSession
  <2>3. pc' \in [Procs -> {"work", "openW"} \cup Ended \cup Running]
        /\ \A q \in Procs : pc'[q] \in {"list", "files"} => pc[q] = pc'[q]
    <3>1. PICK l \in {"work", "openW"} : pc' = [pc EXCEPT ![p] = l]
      BY <1>3 DEF FetchFiles, Goto
    <3> QED
      BY <3>1 DEF TypeInv, TypeOK
  <2>4. mine' = mine /\ clock' = clock /\ nFetches' = nFetches
    BY <1>3 DEF FetchFiles
  <2>5. ASSUME NEW q \in Procs, pc'[q] \in {"list", "files"}
        PROVE  mine'[q] \in 1 .. nFetches' /\ clock' <= fetch'[mine'[q]].at + StreamDeadline
    <3>1. mine[q] \in FetchId /\ mine[q] \in 1 .. nFetches
          /\ clock <= fetch[mine[q]].at + StreamDeadline
      BY <2>3, <2>5 DEF StampInv, TypeInv, LocalInv
    <3> QED
      BY <2>2, <2>4, <3>1
  <2>6. ASSUME NEW f \in FetchId
        PROVE  fetch'[f].ts <= fetch'[f].at + StreamDeadline
    BY <2>1, <2>2 DEF StampInv
  <2> QED
    BY <2>5, <2>6 DEF StampInv
<1>4. CASE Tick
  <2>1. /\ clock' = clock + 1
        /\ \A p \in Procs : pc[p] \in {"list", "files"} =>
                              clock < fetch[mine[p]].at + StreamDeadline
        /\ UNCHANGED <<nFetches, fetch, pc, mine>>
    BY <1>4 DEF Tick, serverVars
  <2>2. \A p \in Procs : pc[p] \in {"list", "files"} => mine[p] \in FetchId
    BY DEF TypeInv, LocalInv
  <2>3. \A p \in Procs : pc[p] \in {"list", "files"} => fetch[mine[p]].at \in Int
    BY <1>1, <2>2
  <2> QED
    BY <1>1, <2>1, <2>3 DEF StampInv
\* every other step of p leaves the sessions and the clock alone, and puts p
\* at "files" only from "list", with the session it has
<1>5. ASSUME UNCHANGED <<clock, nFetches, fetch>>,
             \A q \in Procs : pc'[q] \in {"list", "files"} =>
                pc[q] \in {"list", "files"} /\ mine'[q] = mine[q]
      PROVE  StampInv'
  BY <1>5 DEF StampInv
<1>6. ASSUME NEW p \in Procs,
             Start(p) \/ Read(p) \/ Lookup(p) \/ ListServices(p) \/ ServerFails(p)
               \/ Write(p) \/ Close(p) \/ Crash(p)
      PROVE  StampInv'
  <2>1. UNCHANGED <<clock, nFetches, fetch>>
    BY <1>6 DEF Start, Read, Open, Missing, ReadBlock, ReadEnd, RemoveUnreadable, Lookup,
                ServeFromCache, Miss, ListServices, ServerFails, Write, OpenForWrite,
                WriteBlock, CloseFile, Close, CloseStream, RemoveInvalid, Crash, serverVars
  <2>2. CASE \E l \in Ended : End(p, l)
    <3>1. PICK l \in Ended : pc' = [pc EXCEPT ![p] = l] /\ mine' = [mine EXCEPT ![p] = NoFetch]
      BY <2>2 DEF End, Goto
    <3>2. \A q \in Procs : pc'[q] \in {"list", "files"} => pc[q] \in {"list", "files"} /\ mine'[q] = mine[q]
      BY <3>1 DEF TypeInv, TypeOK, Ended
    <3> QED
      BY <1>5, <2>1, <3>2
  <2>3. CASE mine' = mine /\ (pc' = pc \/ \E l \in Running \ {"list", "files"} : Goto(p, l))
    <3>1. \A q \in Procs : pc'[q] \in {"list", "files"} => pc[q] \in {"list", "files"}
      BY <2>3 DEF TypeInv, TypeOK, Goto
    <3> QED
      BY <1>5, <2>1, <2>3, <3>1
  <2>4. CASE ListServices(p)
    <3>1. \A q \in Procs : pc'[q] \in {"list", "files"} => pc[q] \in {"list", "files"}
      BY <2>4 DEF TypeInv, TypeOK, ListServices, Goto
    <3> QED
      BY <1>5, <2>1, <2>4, <3>1 DEF ListServices
  <2>5. \/ \E l \in Ended : End(p, l)
        \/ mine' = mine /\ (pc' = pc \/ \E l \in Running \ {"list", "files"} : Goto(p, l))
        \/ ListServices(p)
    <3>1. ASSUME Start(p) PROVE mine' = mine /\ \E l \in Running \ {"list", "files"} : Goto(p, l)
      BY <3>1 DEF Start, Running
    <3>2. CASE Read(p)
      BY <3>2 DEF Read, Open, Missing, ReadBlock, ReadEnd, RemoveUnreadable, Ended, Running
    <3>3. CASE Lookup(p) \/ Write(p) \/ Close(p)
      BY <3>3 DEF Lookup, ServeFromCache, Miss, Write, OpenForWrite, WriteBlock, CloseFile,
                  Close, CloseStream, RemoveInvalid, Ended, Running
    <3>4. CASE ServerFails(p) \/ Crash(p)
      BY <3>4 DEF ServerFails, Crash, Ended
    <3> QED
      BY <1>6, <3>1, <3>2, <3>3, <3>4
  <2> QED
    BY <2>2, <2>3, <2>4, <2>5
<1>7. CASE UNCHANGED vars
  BY <1>5, <1>7 DEF vars, serverVars
<1> QED
  BY <1>2, <1>3, <1>4, <1>6, <1>7 DEF Next, Step, Reflect

LEMMA StampInvInit == ASSUME ConstantsAssumption, Init PROVE StampInv
  BY DEF Init, StampInv, ConstantsAssumption

\* What is served is at most Timeout + StreamDeadline old (StalenessBound).
LEMMA ServedIsFresh == ASSUME ConstantsAssumption, TypeInv, StampInv PROVE StalenessBound
<1> SUFFICES ASSUME NEW p \in Procs, Serves(p),
                    ServedEntry(p).head = ServedEntry(p).body
             PROVE  clock - fetch[ServedEntry(p).body].at <= Timeout + StreamDeadline
  BY DEF StalenessBound
<1> DEFINE hosts == HostsOf(buf[p])
           h == run[p].host
           n == CHOOSE i \in 1 .. Len(hosts) : IsFirstFor(hosts, i, h)
<1>1. hosts \in Seq(Entry)
  BY HostsOfType DEF Serves, TypeInv, TypeOK, LocalInv
<1>2. PICK i \in 1 .. Len(hosts) : /\ IsFirstFor(hosts, i, h)
                                   /\ clock - fetch[hosts[i].head].ts <= Timeout
  BY DEF Serves, Hit, isValidHostEntry
<1>3. n \in 1 .. Len(hosts) /\ IsFirstFor(hosts, n, h)
  BY <1>2
<1>4. n = i
  BY <1>1, <1>2, <1>3 DEF IsFirstFor
<1>5. hosts[i] \in Entry
  BY <1>1
<1>6. ServedEntry(p) = hosts[i]
  BY <1>4 DEF ServedEntry
<1> HIDE DEF hosts, n, h
<1>7. /\ fetch[hosts[i].head].ts <= fetch[hosts[i].head].at + StreamDeadline
      /\ fetch[hosts[i].head].ts \in Int /\ fetch[hosts[i].head].at \in Int
  BY <1>5 DEF StampInv, Entry, TypeInv, TypeOK, FetchRec, Time
<1>8. clock \in Int /\ Timeout \in Int /\ StreamDeadline \in Int
  BY DEF TypeInv, TypeOK, Time, ConstantsAssumption
<1>9. hosts[i].head = hosts[i].body
  BY <1>6
<1>10. ASSUME NEW c \in Int, NEW at \in Int, NEW ts \in Int, NEW t \in Int, NEW d \in Int,
              c - ts <= t, ts <= at + d
       PROVE  c - at <= t + d
  BY <1>10
<1>11. clock - fetch[hosts[i].head].at <= Timeout + StreamDeadline
  BY <1>2, <1>7, <1>8, <1>10
<1> QED
  BY <1>6, <1>9, <1>11

\* StalenessBound holds for every number of overlapping invocations.
THEOREM Staleness == Spec => []StalenessBound
<1>1. Init => TypeInv /\ StampInv
  BY ConstantsAssumption, TypeInvInit, StampInvInit
<1>2. TypeInv /\ StampInv /\ [Next]_vars => (TypeInv /\ StampInv)'
  BY ConstantsAssumption, TypeInvNext, StampInvNext
<1>3. TypeInv /\ StampInv => StalenessBound
  BY ConstantsAssumption, ServedIsFresh
<1> QED
  BY <1>1, <1>2, <1>3, PTL DEF Spec

----------------------------------------------------------------------------
(* Invocations that follow one another.                                    *)

\* Head and body of every entry are from one session, and none is from S.
Sound(c, S) ==
  /\ \A j \in 1 .. Len(c) \div 2 :
       c[2*j - 1].k = "head" /\ c[2*j].k = "body" => c[2*j - 1].f = c[2*j].f
  /\ \A i \in 1 .. Len(c) : c[i].k \in {"head", "body"} => c[i].f \notin S

IsPrefixOf(c, d) == Len(c) <= Len(d) /\ \A i \in 1 .. Len(c) : c[i] = d[i]

\* What p reads and writes is the file that the path names.
OneFile(p) ==
  /\ pc[p] = "read" => fd[p] = path /\ IsPrefixOf(buf[p], disk[path])
  /\ pc[p] = "write" => /\ fd[p] = path /\ IsPrefixOf(disk[path], out[p])
                        /\ Len(disk[path]) = pos[p]
  /\ pc[p] # "write" => pos[p] = 0

\* Nothing on its way into or out of the file is mixed or invalidated.
AllSound(p) ==
  /\ path # NoFile => Sound(disk[path], dropped)
  /\ Sound(buf[p], dropped) /\ Sound(out[p], dropped)
  /\ \A i \in 1 .. Len(rest[p]) : /\ rest[p][i].head = rest[p][i].body
                                  /\ rest[p][i].head \notin dropped

\* Sessions are invalidated after they began, and p drops its own last.
Sessions(p) ==
  /\ mine[p] \notin dropped /\ mine[p] \in 0 .. nFetches
  /\ dropped \subseteq 1 .. nFetches
  /\ run[p].gone \subseteq dropped

\* The file is removed before it is looked for again.
Retries(p) ==
  /\ pc[p] \in Ended \cup {"read", "remove"} => ~retried[p]
  /\ pc[p] = "missing" \/ (pc[p] = "open" /\ retried[p]) => path = NoFile
  /\ pc[p] # "exitCache"

SeqInv(p) == OneFile(p) /\ AllSound(p) /\ Sessions(p) /\ Retries(p)

----------------------------------------------------------------------------
LEMMA SoundEmpty == ASSUME NEW S PROVE Sound(<<>>, S)
  BY DEF Sound

LEMMA SoundPrefix ==
  ASSUME NEW c \in Seq(Cell), NEW d \in Seq(Cell), NEW S, Sound(d, S), IsPrefixOf(c, d)
  PROVE  Sound(c, S)
<1>1. ASSUME NEW j \in 1 .. Len(c) \div 2,
             c[2*j - 1].k = "head", c[2*j].k = "body"
      PROVE  c[2*j - 1].f = c[2*j].f
  <2>1. /\ j \in 1 .. Len(d) \div 2
        /\ 2*j - 1 \in 1 .. Len(c) /\ 2*j \in 1 .. Len(c)
    BY DEF IsPrefixOf
  <2>2. c[2*j - 1] = d[2*j - 1] /\ c[2*j] = d[2*j]
    BY <2>1 DEF IsPrefixOf
  <2> QED
    BY <1>1, <2>1, <2>2 DEF Sound
<1>2. ASSUME NEW i \in 1 .. Len(c), c[i].k \in {"head", "body"}
      PROVE  c[i].f \notin S
  BY <1>2 DEF Sound, IsPrefixOf
<1> QED
  BY <1>1, <1>2 DEF Sound

\* A database of whole, valid entries is serialized soundly.
LEMMA SoundSerialized ==
  ASSUME NEW hosts \in Seq(Entry), NEW v \in Versions, NEW S,
         \A i \in 1 .. Len(hosts) : hosts[i].head = hosts[i].body /\ hosts[i].head \notin S
  PROVE  Sound(Serialized(hosts, v), S)
<1> DEFINE n == Len(hosts)
           c == Serialized(hosts, v)
<1>1. n \in Nat /\ Len(c) = 2 * n + 1
  BY DEF Serialized
<1>2. ASSUME NEW j \in 1 .. n
      PROVE  c[2*j - 1].f = hosts[j].head /\ c[2*j].f = hosts[j].body
  <2>1. /\ 2*j - 1 \in 1 .. 2*n + 1 /\ 2*j - 1 # 2*n + 1 /\ (2*j - 1) % 2 = 1
        /\ ((2*j - 1) + 1) \div 2 = j
    BY <1>1
  <2>2. 2*j \in 1 .. 2*n + 1 /\ 2*j # 2*n + 1 /\ (2*j) % 2 # 1 /\ (2*j) \div 2 = j
    BY <1>1
  <2>3. c[2*j - 1] = HeadCell(hosts[j].head)
    BY <2>1 DEF Serialized
  <2>4. c[2*j] = BodyCell(hosts[j].body)
    BY <2>2 DEF Serialized
  <2> QED
    BY <2>3, <2>4 DEF HeadCell, BodyCell
<1>3. ASSUME NEW i \in 1 .. Len(c), c[i].k \in {"head", "body"}
      PROVE  c[i].f \notin S
  <2>1. CASE i = 2*n + 1
    BY <1>1, <1>3, <2>1 DEF Serialized, VerCell
  <2>2. CASE i # 2*n + 1 /\ i % 2 = 1
    <3>1. PICK j \in 1 .. n : i = 2*j - 1
      <4>1. (i + 1) \div 2 \in 1 .. n /\ i = 2 * ((i + 1) \div 2) - 1
        BY <1>1, <2>2
      <4> QED
        BY <4>1
    <3> QED
      BY <1>2, <3>1
  <2>3. CASE i # 2*n + 1 /\ i % 2 # 1
    <3>1. PICK j \in 1 .. n : i = 2*j
      <4>1. i \div 2 \in 1 .. n /\ i = 2 * (i \div 2)
        BY <1>1, <2>3
      <4> QED
        BY <4>1
    <3> QED
      BY <1>2, <3>1
  <2> QED
    BY <2>1, <2>2, <2>3
<1>4. ASSUME NEW j \in 1 .. Len(c) \div 2
      PROVE  c[2*j - 1].f = c[2*j].f
  <2>1. j \in 1 .. n
    BY <1>1
  <2> QED
    BY <1>2, <2>1
<1> SUFFICES Sound(c, S)
  OBVIOUS
<1> HIDE DEF c
<1> QED
  BY <1>3, <1>4 DEF Sound

\* The entries of a sound file.
LEMMA SoundEntries ==
  ASSUME NEW c \in Seq(Cell), Parses(c), NEW S, Sound(c, S), NEW j \in 1 .. Len(HostsOf(c))
  PROVE  /\ HostsOf(c)[j].head = HostsOf(c)[j].body
         /\ HostsOf(c)[j].head \notin S
<1>1. j \in 1 .. Len(c) \div 2 /\ HostsOf(c)[j] = [head |-> c[2*j - 1].f, body |-> c[2*j].f]
  BY HostsOfType
<1>2. 2*j - 1 \in 1 .. Len(c) /\ 2*j \in 1 .. Len(c) /\ 2*j - 1 # Len(c)
  BY <1>1
<1>3. (2*j) % 2 = 0 /\ (2*j - 1) % 2 # 0
  BY <1>1
<1>4. c[2*j - 1].k = "head" /\ c[2*j].k = "body"
  BY <1>2, <1>3 DEF Parses, KindAt
<1>5. c[2*j - 1].f = c[2*j].f
  BY <1>1, <1>4 DEF Sound
<1>6. c[2*j - 1].f \notin S
  <2> DEFINE i == 2*j - 1
  <2>1. i \in 1 .. Len(c) /\ c[i].k = "head"
    BY <1>2, <1>4
  <2> HIDE DEF i
  <2>2. c[i].f \notin S
    BY <2>1 DEF Sound
  <2> QED
    BY <2>2 DEF i
<1>7. HostsOf(c)[j].head = c[2*j - 1].f /\ HostsOf(c)[j].body = c[2*j].f
  BY <1>1
<1> QED
  BY <1>5, <1>6, <1>7

\* The writer of a file that nobody else touches lengthens a prefix.
LEMMA PutPrefix ==
  ASSUME ConstantsAssumption, NEW d \in Seq(Cell), NEW c \in Seq(Cell),
         IsPrefixOf(c, d), Len(c) < Len(d)
  PROVE  LET cells == NextBlock(d, Len(c))
         IN  /\ IsPrefixOf(Put(c, Len(c), cells), d)
             /\ Len(Put(c, Len(c), cells)) = Len(c) + Len(cells)
<1> DEFINE n == Len(c)
           cells == NextBlock(d, n)
           w == Put(c, n, cells)
<1>1. n \in Nat /\ Block \in Nat /\ Block > 0
  BY DEF ConstantsAssumption
<1>2. /\ cells \in Seq(Cell)
      /\ Len(cells) = (IF n + Block > Len(d) THEN Len(d) ELSE n + Block) - n
      /\ \A i \in 1 .. Len(cells) : cells[i] = d[n + i]
  BY <1>1, NextBlockType
<1>3. Len(cells) \in Nat /\ n + Len(cells) <= Len(d) /\ Len(cells) > 0
  BY <1>1, <1>2
<1> HIDE DEF cells
<1>4. w = [j \in 1 .. n + Len(cells) |->
             IF j > n /\ j <= n + Len(cells) THEN cells[j - n]
             ELSE IF j <= n THEN c[j] ELSE Hole]
  BY <1>1, <1>3 DEF Put
<1>5. Len(w) = n + Len(cells)
  BY <1>1, <1>3, <1>4
<1>6. ASSUME NEW j \in 1 .. n + Len(cells)
      PROVE  w[j] = d[j]
  <2>1. CASE j > n
    <3>1. j - n \in 1 .. Len(cells) /\ n + (j - n) = j
      BY <1>1, <1>3, <2>1
    <3> QED
      BY <1>2, <1>4, <2>1, <3>1
  <2>2. CASE ~(j > n)
    <3>1. j \in 1 .. n
      BY <1>1, <1>3, <2>2
    <3> QED
      BY <1>4, <2>2, <3>1 DEF IsPrefixOf
  <2> QED
    BY <2>1, <2>2
<1> QED
  BY <1>3, <1>5, <1>6 DEF IsPrefixOf, cells

\* The reader of such a file has a prefix of it.
LEMMA ReadPrefix ==
  ASSUME ConstantsAssumption, NEW d \in Seq(Cell), NEW c \in Seq(Cell),
         IsPrefixOf(c, d), Len(c) < Len(d)
  PROVE  IsPrefixOf(c \o NextBlock(d, Len(c)), d)
<1> DEFINE n == Len(c)
           cells == NextBlock(d, n)
<1>1. n \in Nat /\ Block \in Nat /\ Block > 0
  BY DEF ConstantsAssumption
<1>2. /\ cells \in Seq(Cell)
      /\ Len(cells) = (IF n + Block > Len(d) THEN Len(d) ELSE n + Block) - n
      /\ \A i \in 1 .. Len(cells) : cells[i] = d[n + i]
  BY <1>1, NextBlockType
<1>3. Len(cells) \in Nat /\ n + Len(cells) <= Len(d)
  BY <1>1, <1>2
<1> HIDE DEF cells
<1>4. /\ Len(c \o cells) = n + Len(cells)
      /\ \A i \in 1 .. n + Len(cells) :
           (c \o cells)[i] = IF i <= n THEN c[i] ELSE cells[i - n]
  BY <1>2, ConcatProperties
<1>5. ASSUME NEW i \in 1 .. n + Len(cells)
      PROVE  (c \o cells)[i] = d[i]
  <2>1. CASE i <= n
    BY <1>1, <1>4, <2>1 DEF IsPrefixOf
  <2>2. CASE ~(i <= n)
    <3>1. i - n \in 1 .. Len(cells) /\ n + (i - n) = i
      BY <1>1, <1>3, <2>2
    <3> QED
      BY <1>2, <1>4, <2>2, <3>1
  <2> QED
    BY <2>1, <2>2
<1> QED
  BY <1>3, <1>4, <1>5 DEF IsPrefixOf, cells
----------------------------------------------------------------------------
(* The invariant, action by action.                                        *)

LEMMA SeqInvInit == ASSUME ConstantsAssumption, Init, NEW p \in Procs PROVE SeqInv(p)
<1>1. path # NoFile => disk[path] = <<Hole>>
  BY DEF Init, Inode, ConstantsAssumption
<1>2. Sound(<<Hole>>, dropped)
  <2>1. Len(<<Hole>>) = 1 /\ <<Hole>>[1].k = "hole" /\ 1 \div 2 = 0
    BY DEF Hole
  <2> QED
    BY <2>1 DEF Sound
<1>3. OneFile(p)
  BY DEF Init, OneFile
<1>4. AllSound(p)
  BY <1>1, <1>2, SoundEmpty DEF Init, AllSound
<1>5. Sessions(p)
  BY DEF Init, Sessions, NoRun, NoFetch
<1>6. Retries(p)
  BY DEF Init, Retries
<1> QED
  BY <1>3, <1>4, <1>5, <1>6 DEF SeqInv

\* The end of the process forgets everything but the file.
LEMMA SeqInvEnd ==
  ASSUME ConstantsAssumption, TypeInv, NEW p \in Procs, SeqInv(p),
         NEW l \in Ended \ {"exitCache"}, End(p, l), UNCHANGED serverVars,
         path' # NoFile => Sound(disk'[path'], dropped'), dropped' \subseteq 1 .. nFetches
  PROVE  SeqInv(p)'
<1>1. /\ pc'[p] = l /\ pos'[p] = 0 /\ buf'[p] = <<>> /\ out'[p] = <<>>
      /\ rest'[p] = <<>> /\ mine'[p] = NoFetch /\ run'[p] = NoRun /\ retried'[p] = FALSE
  BY DEF End, Goto, TypeInv, TypeOK
<1>2. OneFile(p)'
  BY <1>1 DEF OneFile, Ended
<1>3. AllSound(p)'
  BY <1>1, SoundEmpty DEF AllSound
<1>4. Sessions(p)'
  BY <1>1 DEF Sessions, NoFetch, NoRun, serverVars, TypeInv, TypeOK
<1>5. Retries(p)'
  BY <1>1 DEF Retries, Ended
<1> QED
  BY <1>2, <1>3, <1>4, <1>5 DEF SeqInv

LEMMA SeqInvStart ==
  ASSUME ConstantsAssumption, TypeInv, NEW p \in Procs, SeqInv(p), Start(p)
  PROVE  SeqInv(p)'
<1> USE DEF SeqInv
<1>1. /\ pc[p] \in Ended /\ pc'[p] \in {"open", "connect"}
      /\ run'[p].gone = dropped
      /\ UNCHANGED <<clock, fileVars, serverVars, dropped, readVars, fd, mine, writeVars>>
  BY DEF Start, Goto, TypeInv, TypeOK
<1>2. OneFile(p)'
  BY <1>1 DEF OneFile, Ended, fileVars, readVars, writeVars
<1>3. AllSound(p)'
  BY <1>1 DEF AllSound, fileVars, readVars, writeVars
<1>4. Sessions(p)'
  BY <1>1 DEF Sessions, serverVars
<1>5. Retries(p)'
  BY <1>1 DEF Retries, Ended, readVars
<1> QED
  BY <1>2, <1>3, <1>4, <1>5

LEMMA SeqInvRead ==
  ASSUME ConstantsAssumption, TypeInv, NEW p \in Procs, SeqInv(p), Read(p)
  PROVE  SeqInv(p)'
<1> USE DEF SeqInv
<1>1. CASE Open(p)
  <2>1. /\ pc[p] = "open" /\ buf[p] = <<>>
        /\ IF path # NoFile THEN pc'[p] = "read" /\ fd'[p] = path ELSE pc'[p] = "missing"
        /\ UNCHANGED <<fileVars, serverVars, dropped, run, readVars, mine, writeVars>>
    BY <1>1 DEF Open, Goto, TypeInv, TypeOK, LocalInv
  <2>2. path # NoFile => IsPrefixOf(<<>>, disk[path])
    BY DEF IsPrefixOf, TypeInv, TypeOK
  <2>3. OneFile(p)'
    BY <2>1, <2>2 DEF OneFile, fileVars, readVars, writeVars
  <2>4. AllSound(p)' /\ Sessions(p)'
    BY <2>1 DEF AllSound, Sessions, fileVars, readVars, writeVars, serverVars
  <2>5. Retries(p)'
    BY <2>1 DEF Retries, Ended, fileVars, readVars
  <2> QED
    BY <2>3, <2>4, <2>5
<1>2. CASE Missing(p)
  <2>1. /\ pc[p] = "missing" /\ path = NoFile /\ pc'[p] = "decide"
        /\ UNCHANGED <<fileVars, serverVars, dropped, run, readVars, mine, writeVars>>
    BY <1>2 DEF Missing, Goto, TypeInv, TypeOK, Retries
  <2>2. OneFile(p)' /\ Retries(p)'
    BY <2>1 DEF OneFile, Retries, Ended, fileVars, readVars, writeVars
  <2>3. AllSound(p)' /\ Sessions(p)'
    BY <2>1 DEF AllSound, Sessions, fileVars, readVars, writeVars, serverVars
  <2> QED
    BY <2>2, <2>3
<1>3. CASE ReadBlock(p)
  <2> DEFINE d == disk[path]
             b == buf[p]
  <2>1. /\ pc[p] = "read" /\ fd[p] = path /\ path \in Inode /\ d \in Seq(Cell) /\ b \in Seq(Cell)
        /\ IsPrefixOf(b, d) /\ Len(b) < Len(d) /\ b \o NextBlock(d, Len(b)) \in Seq(Cell)
    <3>1. pc[p] = "read" /\ fd[p] = path /\ path \in Inode /\ d \in Seq(Cell)
      BY <1>3 DEF ReadBlock, TypeInv, TypeOK, LocalInv, OneFile
    <3>2. b \in Seq(Cell) /\ IsPrefixOf(b, d) /\ Len(b) < Len(d)
      BY <1>3, <3>1 DEF ReadBlock, TypeInv, TypeOK, OneFile
    <3>3. NextBlock(d, Len(b)) \in Seq(Cell)
      BY <3>1, <3>2, NextBlockType
    <3> QED
      BY <3>1, <3>2, <3>3, ConcatProperties
  <2>2. IsPrefixOf(b \o NextBlock(d, Len(b)), d)
    BY <2>1, ReadPrefix
  <2>3. Sound(b \o NextBlock(d, Len(b)), dropped)
    <3>1. Sound(d, dropped)
      BY <2>1 DEF AllSound, Inode, NoFile
    <3> QED
      BY <2>1, <2>2, <3>1, SoundPrefix
  <2>4. /\ buf'[p] = b \o NextBlock(d, Len(b)) /\ pc'[p] = "read"
        /\ UNCHANGED <<fileVars, serverVars, dropped, pc, run, retried, rest, fd, mine, writeVars>>
    BY <1>3, <2>1 DEF ReadBlock, TypeInv, TypeOK
  <2> HIDE DEF b
  <2>5. OneFile(p)'
    BY <2>1, <2>2, <2>4 DEF OneFile, fileVars, writeVars
  <2>6. AllSound(p)' /\ Sessions(p)'
    BY <2>3, <2>4 DEF AllSound, Sessions, fileVars, serverVars, writeVars
  <2>7. Retries(p)'
    BY <2>4 DEF Retries, fileVars
  <2> QED
    BY <2>5, <2>6, <2>7
<1>4. CASE ReadEnd(p)
  <2>1. /\ pc[p] = "read" /\ pc'[p] \in {"decide", "remove"} /\ ~retried[p]
        /\ UNCHANGED <<fileVars, serverVars, dropped, run, readVars, mine, writeVars>>
    BY <1>4 DEF ReadEnd, Goto, TypeInv, TypeOK, Retries
  <2>2. OneFile(p)' /\ Retries(p)'
    BY <2>1 DEF OneFile, Retries, Ended, fileVars, readVars, writeVars
  <2>3. AllSound(p)' /\ Sessions(p)'
    BY <2>1 DEF AllSound, Sessions, fileVars, readVars, writeVars, serverVars
  <2> QED
    BY <2>2, <2>3
<1>5. CASE RemoveUnreadable(p)
  <2>1. /\ pc[p] = "remove" /\ pc'[p] = "open" /\ path' = NoFile /\ buf'[p] = <<>>
        /\ UNCHANGED <<serverVars, dropped, run, rest, mine, writeVars>>
    BY <1>5 DEF RemoveUnreadable, Goto, TypeInv, TypeOK
  <2>2. OneFile(p)' /\ Retries(p)'
    BY <2>1 DEF OneFile, Retries, Ended, writeVars
  <2>3. AllSound(p)' /\ Sessions(p)'
    BY <2>1, SoundEmpty DEF AllSound, Sessions, writeVars, serverVars
  <2> QED
    BY <2>2, <2>3
<1> QED
  BY <1>1, <1>2, <1>3, <1>4, <1>5 DEF Read

LEMMA SeqInvLookup ==
  ASSUME ConstantsAssumption, TypeInv, NEW p \in Procs, SeqInv(p), Lookup(p)
  PROVE  SeqInv(p)'
<1> USE DEF SeqInv
<1>1. CASE ServeFromCache(p)
  <2>1. /\ pc[p] = "decide" /\ pc'[p] = "work" /\ buf'[p] = <<>>
        /\ UNCHANGED <<fileVars, serverVars, dropped, run, rest, mine, writeVars>>
    BY <1>1 DEF ServeFromCache, Goto, TypeInv, TypeOK
  <2>2. OneFile(p)' /\ Retries(p)'
    BY <2>1 DEF OneFile, Retries, Ended, writeVars
  <2>3. AllSound(p)' /\ Sessions(p)'
    BY <2>1, SoundEmpty DEF AllSound, Sessions, writeVars, serverVars, fileVars
  <2> QED
    BY <2>2, <2>3
<1>2. CASE Miss(p)
  <2> DEFINE hosts == HostsOf(buf[p])
  <2>1. buf[p] \in Seq(Cell) /\ Parses(buf[p]) /\ Sound(buf[p], dropped)
    BY <1>2 DEF Miss, TypeInv, TypeOK, LocalInv, AllSound
  <2>2. hosts \in Seq(Entry)
    BY <2>1, HostsOfType
  <2>3. \A j \in 1 .. Len(hosts) : hosts[j].head = hosts[j].body /\ hosts[j].head \notin dropped
    BY <2>1, SoundEntries
  <2>4. PICK s \in WithoutHost(hosts, run[p].host) : rest' = [rest EXCEPT ![p] = s]
    BY <1>2 DEF Miss
  <2> HIDE DEF hosts
  <2>5. \A i \in 1 .. Len(s) : \E j \in 1 .. Len(hosts) : s[i] = hosts[j]
    BY <2>2, <2>4, WithoutHostType
  <2>6. /\ pc[p] = "decide" /\ pc'[p] = "connect" /\ buf'[p] = <<>> /\ rest'[p] = s
        /\ UNCHANGED <<fileVars, serverVars, dropped, run, mine, writeVars>>
    BY <1>2, <2>4 DEF Miss, Goto, TypeInv, TypeOK
  <2>7. OneFile(p)' /\ Retries(p)'
    BY <2>6 DEF OneFile, Retries, Ended, writeVars
  <2>8. \A i \in 1 .. Len(s) : s[i].head = s[i].body /\ s[i].head \notin dropped
    <3> TAKE i \in 1 .. Len(s)
    <3>1. PICK j \in 1 .. Len(hosts) : s[i] = hosts[j]
      BY <2>5
    <3> QED
      BY <2>3, <3>1
  <2>9. AllSound(p)'
    BY <2>6, <2>8, SoundEmpty DEF AllSound, writeVars, fileVars
  <2>10. Sessions(p)'
    BY <2>6 DEF Sessions, serverVars
  <2> QED
    BY <2>7, <2>9, <2>10
<1> QED
  BY <1>1, <1>2 DEF Lookup

LEMMA SeqInvReflect ==
  ASSUME ConstantsAssumption, TypeInv, NEW p \in Procs, SeqInv(p), Reflect(p)
  PROVE  SeqInv(p)'
<1> USE DEF SeqInv
<1>1. CASE Connect(p)
  <2>1. /\ pc[p] = "connect" /\ pc'[p] = "list" /\ nFetches \in Nat
        /\ nFetches' = nFetches + 1 /\ mine'[p] = nFetches + 1
        /\ UNCHANGED <<fileVars, dropped, run, readVars, writeVars>>
    BY <1>1 DEF Connect, Goto, TypeInv, TypeOK
  <2>2. OneFile(p)' /\ Retries(p)'
    BY <2>1 DEF OneFile, Retries, Ended, readVars, writeVars
  <2>3. AllSound(p)'
    BY <2>1 DEF AllSound, readVars, writeVars, fileVars
  <2>4. Sessions(p)'
    BY <2>1 DEF Sessions
  <2> QED
    BY <2>2, <2>3, <2>4
<1>2. CASE ListServices(p)
  <2>1. /\ pc[p] = "list" /\ pc'[p] = "files"
        /\ UNCHANGED <<fileVars, serverVars, dropped, run, readVars, mine, writeVars>>
    BY <1>2 DEF ListServices, Goto, TypeInv, TypeOK
  <2>2. OneFile(p)' /\ Retries(p)'
    BY <2>1 DEF OneFile, Retries, Ended, readVars, writeVars
  <2>3. AllSound(p)' /\ Sessions(p)'
    BY <2>1 DEF AllSound, Sessions, readVars, writeVars, fileVars, serverVars
  <2> QED
    BY <2>2, <2>3
<1>3. CASE ServerFails(p)
  <2>1. "exitServer" \in Ended \ {"exitCache"}
    BY DEF Ended
  <2> QED
    BY <1>3, <2>1, SeqInvEnd DEF ServerFails, AllSound, Sessions, fileVars
<1>4. CASE FetchFiles(p)
  <2> DEFINE e == [head |-> mine[p], body |-> mine[p]]
             hosts == Append(rest[p], e)
  <2>1. /\ pc[p] = "files" /\ mine[p] \in FetchId /\ rest[p] \in Seq(Entry) /\ e \in Entry
        /\ run[p].build \in Versions
    BY <1>4 DEF FetchFiles, TypeInv, TypeOK, LocalInv, Entry, RunRec
  <2>2. /\ hosts \in Seq(Entry) /\ Len(hosts) = Len(rest[p]) + 1 /\ hosts[Len(rest[p]) + 1] = e
        /\ \A i \in 1 .. Len(rest[p]) : hosts[i] = rest[p][i]
    BY <2>1, AppendProperties
  <2>3. ASSUME NEW i \in 1 .. Len(hosts)
        PROVE  hosts[i].head = hosts[i].body /\ hosts[i].head \notin dropped
    <3>1. CASE i \in 1 .. Len(rest[p])
      BY <2>2, <3>1 DEF AllSound
    <3>2. CASE i = Len(rest[p]) + 1
      <4>1. hosts[i] = e /\ mine[p] \notin dropped
        BY <2>2, <3>2 DEF Sessions
      <4> QED
        BY <4>1
    <3> QED
      BY <2>1, <2>2, <3>1, <3>2
  <2> HIDE DEF hosts
  <2>4. Sound(Serialized(hosts, run[p].build), dropped)
    BY <2>1, <2>2, <2>3, SoundSerialized
  <2>5. /\ pc'[p] \in {"work", "openW"} /\ rest'[p] = <<>>
        /\ out'[p] = out[p] \/ out'[p] = Serialized(hosts, run[p].build)
        /\ UNCHANGED <<fileVars, nFetches, dropped, run, retried, buf, mine, pos>>
    BY <1>4 DEF FetchFiles, Goto, TypeInv, TypeOK, hosts
  <2>6. OneFile(p)' /\ Retries(p)'
    BY <2>1, <2>5 DEF OneFile, Retries, Ended
  <2>7. AllSound(p)' /\ Sessions(p)'
    BY <2>4, <2>5 DEF AllSound, Sessions, fileVars
  <2> QED
    BY <2>6, <2>7
<1> QED
  BY <1>1, <1>2, <1>3, <1>4 DEF Reflect

LEMMA SeqInvWrite ==
  ASSUME ConstantsAssumption, TypeInv, NEW p \in Procs, SeqInv(p), Write(p)
  PROVE  SeqInv(p)'
<1> USE DEF SeqInv
<1>1. CASE OpenForWrite(p)
  <2>1. PICK i \in Inode : /\ path' = i /\ disk' = [disk EXCEPT ![i] = <<>>]
                           /\ fd' = [fd EXCEPT ![p] = i]
    BY <1>1 DEF OpenForWrite
  <2>2. /\ pc[p] = "openW" /\ pc'[p] = "write" /\ fd'[p] = path' /\ disk'[path'] = <<>>
        /\ UNCHANGED <<serverVars, dropped, run, readVars, mine, writeVars>>
    BY <1>1, <2>1 DEF OpenForWrite, Goto, TypeInv, TypeOK
  <2>3. IsPrefixOf(<<>>, out[p]) /\ Len(<<>>) = 0
    BY DEF IsPrefixOf, TypeInv, TypeOK
  <2>4. OneFile(p)' /\ Retries(p)'
    BY <2>2, <2>3 DEF OneFile, Retries, Ended, readVars, writeVars
  <2>5. AllSound(p)' /\ Sessions(p)'
    BY <2>2, SoundEmpty DEF AllSound, Sessions, readVars, writeVars, serverVars
  <2> QED
    BY <2>4, <2>5
<1>2. CASE WriteBlock(p)
  <2> DEFINE c == disk[path]
             d == out[p]
             cells == NextBlock(d, Len(c))
             w == Put(c, Len(c), cells)
  <2>1. /\ pc[p] = "write" /\ fd[p] = path /\ path \in Inode /\ c \in Seq(Cell) /\ d \in Seq(Cell)
        /\ IsPrefixOf(c, d) /\ Len(c) = pos[p] /\ Len(c) < Len(d)
    BY <1>2 DEF WriteBlock, TypeInv, TypeOK, LocalInv, OneFile
  <2>2. IsPrefixOf(w, d) /\ Len(w) = Len(c) + Len(cells)
    BY <2>1, PutPrefix
  <2>3. w \in Seq(Cell)
    BY <2>1, NextBlockType, PutType
  <2>4. Sound(w, dropped)
    <3>1. Sound(d, dropped)
      BY DEF AllSound
    <3> QED
      BY <2>1, <2>2, <2>3, <3>1, SoundPrefix
  <2>5. /\ disk' = [disk EXCEPT ![path] = w] /\ pos' = [pos EXCEPT ![p] = pos[p] + Len(cells)]
        /\ UNCHANGED <<path, serverVars, dropped, pc, run, readVars, fd, mine, out>>
    BY <1>2, <2>1 DEF WriteBlock
  <2>6. /\ disk'[path] = w /\ pos'[p] = Len(w)
    BY <2>1, <2>2, <2>5 DEF TypeInv, TypeOK
  <2>7. OneFile(p)'
    BY <2>1, <2>2, <2>5, <2>6 DEF OneFile
  <2>8. AllSound(p)' /\ Sessions(p)' /\ Retries(p)'
    BY <2>4, <2>5, <2>6 DEF AllSound, Sessions, Retries, readVars, serverVars
  <2> QED
    BY <2>7, <2>8
<1>3. CASE CloseFile(p)
  <2>1. /\ pc[p] \in {"write", "openW"} /\ pc'[p] = "work" /\ out'[p] = <<>> /\ pos'[p] = 0
        /\ UNCHANGED <<fileVars, serverVars, dropped, run, readVars, mine>>
    BY <1>3 DEF CloseFile, Goto, TypeInv, TypeOK
  <2>2. OneFile(p)' /\ Retries(p)'
    BY <2>1 DEF OneFile, Retries, Ended
  <2>3. AllSound(p)' /\ Sessions(p)'
    BY <2>1, SoundEmpty DEF AllSound, Sessions, readVars, fileVars, serverVars
  <2> QED
    BY <2>2, <2>3
<1> QED
  BY <1>1, <1>2, <1>3 DEF Write

LEMMA SeqInvClose ==
  ASSUME ConstantsAssumption, TypeInv, NEW p \in Procs, SeqInv(p), Close(p)
  PROVE  SeqInv(p)'
<1> USE DEF SeqInv
<1>1. "done" \in Ended \ {"exitCache"}
  BY DEF Ended
<1>2. CASE CloseStream(p)
  <2>1. CASE End(p, "done")
    BY <1>1, <1>2, <2>1, SeqInvEnd DEF CloseStream, AllSound, Sessions, fileVars
  <2>2. CASE Goto(p, "drop") /\ UNCHANGED <<run, readVars, fd, mine, writeVars>>
    <3>1. /\ pc[p] = "work" /\ pc'[p] = "drop"
          /\ UNCHANGED <<fileVars, serverVars, dropped, run, readVars, mine, writeVars>>
      BY <1>2, <2>2 DEF CloseStream, Goto, TypeInv, TypeOK
    <3>2. OneFile(p)' /\ Retries(p)'
      BY <3>1 DEF OneFile, Retries, Ended, readVars, writeVars
    <3>3. AllSound(p)' /\ Sessions(p)'
      BY <3>1 DEF AllSound, Sessions, readVars, writeVars, fileVars, serverVars
    <3> QED
      BY <3>2, <3>3
  <2> QED
    BY <1>2, <2>1, <2>2 DEF CloseStream
<1>3. CASE RemoveInvalid(p)
  <2>1. /\ pc[p] = "drop" /\ End(p, "done") /\ path' = NoFile
        /\ dropped' = dropped \cup {mine[p]} /\ UNCHANGED serverVars
    BY <1>3 DEF RemoveInvalid
  <2>2. dropped' \subseteq 1 .. nFetches
    <3>1. mine[p] \in FetchId /\ nFetches \in Nat
      BY <2>1 DEF TypeInv, TypeOK, LocalInv
    <3>2. mine[p] \in 1 .. nFetches
      BY <3>1 DEF FetchId, Sessions
    <3> QED
      BY <2>1, <3>2 DEF Sessions
  <2> QED
    BY <1>1, <2>1, <2>2, SeqInvEnd
<1> QED
  BY <1>2, <1>3 DEF Close

\* With one place of invocation, SeqInv is an invariant.
LEMMA SeqInvNext ==
  ASSUME ConstantsAssumption, NEW p, Procs = {p}, TypeInv, SeqInv(p), [Next]_vars
  PROVE  SeqInv(p)'
<1>1. p \in Procs
  OBVIOUS
<1>2. CASE Start(p)
  BY <1>1, <1>2, SeqInvStart
<1>3. CASE Step(p)
  BY <1>1, <1>3, SeqInvRead, SeqInvLookup, SeqInvReflect, SeqInvWrite, SeqInvClose DEF Step
<1>4. CASE Crash(p)
  <2>1. "killed" \in Ended \ {"exitCache"}
    BY DEF Ended
  <2> QED
    BY <1>1, <1>4, <2>1, SeqInvEnd DEF Crash, SeqInv, AllSound, Sessions, fileVars
<1>5. CASE UNCHANGED <<fileVars, serverVars, dropped, pc, run, readVars, fd, mine, writeVars>>
  BY <1>5 DEF SeqInv, OneFile, AllSound, Sessions, Retries, fileVars, serverVars, readVars, writeVars
<1>6. CASE UNCHANGED vars
  BY <1>5, <1>6 DEF vars
<1> QED
  BY <1>1, <1>2, <1>3, <1>4, <1>5, <1>6 DEF Next, Tick

----------------------------------------------------------------------------
(* The theorems.                                                           *)

\* The entry that is served is one of the entries read from the file.
LEMMA ServedSound ==
  ASSUME TypeInv, NEW p \in Procs, NEW S, Sound(buf[p], S), Serves(p)
  PROVE  /\ ServedEntry(p).head = ServedEntry(p).body
         /\ ServedEntry(p).head \notin S
<1> DEFINE hosts == HostsOf(buf[p])
           i == CHOOSE i \in 1 .. Len(hosts) : IsFirstFor(hosts, i, run[p].host)
<1>1. \E k \in 1 .. Len(hosts) : IsFirstFor(hosts, k, run[p].host)
  BY DEF Serves, Hit, isValidHostEntry
<1>2. i \in 1 .. Len(hosts)
  BY <1>1
<1>3. buf[p] \in Seq(Cell) /\ Parses(buf[p])
  BY DEF Serves, TypeInv, TypeOK, LocalInv
<1>4. ServedEntry(p) = hosts[i]
  BY DEF ServedEntry
<1> HIDE DEF i
<1> QED
  BY <1>2, <1>3, <1>4, SoundEntries

LEMMA SeqInvariance ==
  ASSUME NEW p, Procs = {p}
  PROVE  Spec => [](TypeInv /\ SeqInv(p))
<1> USE ConstantsAssumption
<1>1. Init => TypeInv /\ SeqInv(p)
  BY TypeInvInit, SeqInvInit
<1>2. TypeInv /\ SeqInv(p) /\ [Next]_vars => (TypeInv /\ SeqInv(p))'
  BY TypeInvNext, SeqInvNext
<1> QED
  BY <1>1, <1>2, PTL DEF Spec

\* Invocations that follow one another are served an entry whose time stamp
\* and descriptors are from one session, wherever writers were killed before.
THEOREM SequentialWhole ==
  ASSUME NEW p, Procs = {p}
  PROVE  Spec => []ServedEntryWhole
<1>1. TypeInv /\ SeqInv(p) => ServedEntryWhole
  BY ServedSound DEF ServedEntryWhole, SeqInv, AllSound
<1> QED
  BY <1>1, SeqInvariance, PTL

\* They are never served an entry of a session whose close failed.
THEOREM SequentialInvalidation ==
  ASSUME NEW p, Procs = {p}
  PROVE  Spec => []InvalidatedNotServed
<1>1. TypeInv /\ SeqInv(p) => InvalidatedNotServed
  BY ServedSound DEF InvalidatedNotServed, SeqInv, AllSound, Sessions
<1> QED
  BY <1>1, SeqInvariance, PTL

\* They never give up because of the cache file.
THEOREM SequentialNeverFatal ==
  ASSUME NEW p, Procs = {p}
  PROVE  Spec => []CacheNeverFatal
<1>1. TypeInv /\ SeqInv(p) => CacheNeverFatal
  BY DEF CacheNeverFatal, SeqInv, Retries
<1> QED
  BY <1>1, SeqInvariance, PTL

----------------------------------------------------------------------------
(* The cache file never holds two entries for one host, and none of those  *)
(* that are carried over is of the host that is refreshed.                 *)


\* The heads in a file are of sessions that began, for one host each; fe are
\* the sessions, n is their number.
OneHead(c, fe, n) ==
  /\ \A i \in 1 .. Len(c) : c[i].k = "head" => c[i].f \in 1 .. n
  /\ \A i, j \in 1 .. Len(c) :
       c[i].k = "head" /\ c[j].k = "head" /\ fe[c[i].f].host = fe[c[j].f].host => i = j

\* The same of entries.
OneEach(s, fe, n) ==
  /\ \A i \in 1 .. Len(s) : s[i].head \in 1 .. n
  /\ \A i, j \in 1 .. Len(s) : fe[s[i].head].host = fe[s[j].head].host => i = j

\* Everything on its way into or out of the file.
AllOne(p) ==
  /\ path # NoFile => OneHead(disk[path], fetch, nFetches)
  /\ OneHead(buf[p], fetch, nFetches)
  /\ OneHead(out[p], fetch, nFetches) /\ Parses(out[p])
  /\ OneEach(rest[p], fetch, nFetches)

\* What is carried over is not of the host that is asked.
Others(p) ==
  /\ \A i \in 1 .. Len(rest[p]) : HostOf(rest[p][i]) # run[p].host
  /\ pc[p] \in Ended => rest[p] = <<>>
  /\ pc[p] \in {"list", "files"} => fetch[mine[p]].host = run[p].host

UniqueInv(p) == AllOne(p) /\ Others(p)

----------------------------------------------------------------------------
LEMMA OneEmpty ==
  ASSUME NEW fe, NEW n
  PROVE  OneHead(<<>>, fe, n) /\ OneEach(<<>>, fe, n)
  BY DEF OneHead, OneEach

\* A session that begins, and one that ends, leave the hosts of the others.
LEMMA OneKept ==
  ASSUME NEW fe, NEW n \in Nat, NEW fe2, NEW n2 \in Nat, n <= n2,
         \A f \in 1 .. n : fe2[f].host = fe[f].host
  PROVE  /\ \A c : OneHead(c, fe, n) => OneHead(c, fe2, n2)
         /\ \A s : OneEach(s, fe, n) => OneEach(s, fe2, n2)
<1>1. ASSUME NEW c, OneHead(c, fe, n) PROVE OneHead(c, fe2, n2)
  <2>1. ASSUME NEW i \in 1 .. Len(c), c[i].k = "head"
        PROVE  c[i].f \in 1 .. n /\ c[i].f \in 1 .. n2 /\ fe2[c[i].f].host = fe[c[i].f].host
    <3>1. c[i].f \in 1 .. n
      BY <1>1, <2>1 DEF OneHead
    <3> QED
      BY <3>1
  <2> QED
    BY <1>1, <2>1 DEF OneHead
<1>2. ASSUME NEW s, OneEach(s, fe, n) PROVE OneEach(s, fe2, n2)
  <2>1. ASSUME NEW i \in 1 .. Len(s)
        PROVE  s[i].head \in 1 .. n /\ s[i].head \in 1 .. n2 /\ fe2[s[i].head].host = fe[s[i].head].host
    <3>1. s[i].head \in 1 .. n
      BY <1>2 DEF OneEach
    <3> QED
      BY <3>1
  <2> QED
    BY <1>2, <2>1 DEF OneEach
<1> QED
  BY <1>1, <1>2

LEMMA OnePrefix ==
  ASSUME NEW c \in Seq(Cell), NEW d \in Seq(Cell), NEW fe, NEW n,
         OneHead(d, fe, n), IsPrefixOf(c, d)
  PROVE  OneHead(c, fe, n)
<1>1. \A i \in 1 .. Len(c) : i \in 1 .. Len(d) /\ c[i] = d[i]
  BY DEF IsPrefixOf
<1> QED
  BY <1>1 DEF OneHead

\* Where the heads of a serialized database are.
LEMMA SerializedCells ==
  ASSUME NEW hosts \in Seq(Entry), NEW v \in Versions, NEW i \in 1 .. 2 * Len(hosts) + 1
  PROVE  LET n == Len(hosts)
             c == Serialized(hosts, v)
         IN  /\ Len(c) = 2 * n + 1
             /\ c[i].k = KindAt(i, 2 * n + 1)
             /\ c[i].k = "head" => \E j \in 1 .. n : i = 2 * j - 1 /\ c[i].f = hosts[j].head
<1> DEFINE n == Len(hosts)
           c == Serialized(hosts, v)
<1>1. n \in Nat /\ Len(c) = 2 * n + 1
  BY DEF Serialized
<1>2. CASE i = 2 * n + 1
  <2>1. c[i] = VerCell(v) /\ i % 2 # 0
    BY <1>1, <1>2 DEF Serialized
  <2> QED
    BY <1>1, <1>2, <2>1 DEF VerCell, KindAt
<1>3. CASE i # 2 * n + 1 /\ i % 2 = 1
  <2>1. (i + 1) \div 2 \in 1 .. n /\ i = 2 * ((i + 1) \div 2) - 1 /\ i % 2 # 0
    BY <1>1, <1>3
  <2>2. c[i] = HeadCell(hosts[(i + 1) \div 2].head)
    BY <1>1, <1>3 DEF Serialized
  <2>3. c[i].k = "head" /\ c[i].f = hosts[(i + 1) \div 2].head
    BY <2>2 DEF HeadCell
  <2>4. \E j \in 1 .. n : i = 2 * j - 1 /\ c[i].f = hosts[j].head
    BY <2>1, <2>3
  <2> QED
    BY <1>1, <1>3, <2>1, <2>3, <2>4 DEF KindAt
<1>4. CASE i # 2 * n + 1 /\ i % 2 # 1
  <2>1. c[i] = BodyCell(hosts[i \div 2].body) /\ i % 2 = 0
    BY <1>1, <1>4 DEF Serialized
  <2> QED
    BY <1>1, <2>1 DEF BodyCell, KindAt
<1> QED
  BY <1>2, <1>3, <1>4

LEMMA OneSerialized ==
  ASSUME NEW hosts \in Seq(Entry), NEW v \in Versions, NEW fe, NEW n, OneEach(hosts, fe, n)
  PROVE  OneHead(Serialized(hosts, v), fe, n) /\ Parses(Serialized(hosts, v))
<1> DEFINE c == Serialized(hosts, v)
<1>1. Len(hosts) \in Nat /\ Len(c) = 2 * Len(hosts) + 1
  BY DEF Serialized
<1>2. ASSUME NEW i \in 1 .. Len(c)
      PROVE  /\ c[i].k = KindAt(i, Len(c))
             /\ c[i].k = "head" => \E j \in 1 .. Len(hosts) : i = 2 * j - 1 /\ c[i].f = hosts[j].head
  BY <1>1, SerializedCells
<1> HIDE DEF c
<1>3. ASSUME NEW i \in 1 .. Len(c), NEW k \in 1 .. Len(c),
             c[i].k = "head", c[k].k = "head", fe[c[i].f].host = fe[c[k].f].host
      PROVE  i = k
  <2>1. PICK a \in 1 .. Len(hosts) : i = 2 * a - 1 /\ c[i].f = hosts[a].head
    BY <1>2, <1>3
  <2>2. PICK b \in 1 .. Len(hosts) : k = 2 * b - 1 /\ c[k].f = hosts[b].head
    BY <1>2, <1>3
  <2> QED
    BY <1>3, <2>1, <2>2 DEF OneEach
<1>4. ASSUME NEW i \in 1 .. Len(c), c[i].k = "head" PROVE c[i].f \in 1 .. n
  <2>1. PICK a \in 1 .. Len(hosts) : c[i].f = hosts[a].head
    BY <1>2, <1>4
  <2> QED
    BY <2>1 DEF OneEach
<1>5. OneHead(c, fe, n)
  BY <1>3, <1>4 DEF OneHead
<1>6. Parses(c)
  BY <1>2 DEF Parses
<1> QED
  BY <1>5, <1>6 DEF c

\* The entries of a file with one head for each host.
LEMMA OneOfFile ==
  ASSUME NEW c \in Seq(Cell), Parses(c), NEW fe, NEW n, OneHead(c, fe, n)
  PROVE  OneEach(HostsOf(c), fe, n)
<1>1. ASSUME NEW j \in 1 .. Len(HostsOf(c))
      PROVE  /\ 2 * j - 1 \in 1 .. Len(c) /\ c[2 * j - 1].k = "head"
             /\ HostsOf(c)[j].head = c[2 * j - 1].f
  <2>1. j \in 1 .. Len(c) \div 2 /\ HostsOf(c)[j] = [head |-> c[2*j - 1].f, body |-> c[2*j].f]
    BY HostsOfType
  <2>2. 2*j - 1 \in 1 .. Len(c) /\ 2*j - 1 # Len(c) /\ (2*j - 1) % 2 # 0
    BY <2>1
  <2>3. c[2*j - 1].k = "head"
    BY <2>2 DEF Parses, KindAt
  <2> QED
    BY <2>1, <2>2, <2>3
<1>2. ASSUME NEW j \in 1 .. Len(HostsOf(c)) PROVE HostsOf(c)[j].head \in 1 .. n
  <2> DEFINE i == 2 * j - 1
  <2>1. i \in 1 .. Len(c) /\ c[i].k = "head" /\ HostsOf(c)[j].head = c[i].f
    BY <1>1
  <2> HIDE DEF i
  <2> QED
    BY <2>1 DEF OneHead
<1>3. ASSUME NEW j \in 1 .. Len(HostsOf(c)), NEW k \in 1 .. Len(HostsOf(c)),
             fe[HostsOf(c)[j].head].host = fe[HostsOf(c)[k].head].host
      PROVE  j = k
  <2> DEFINE a == 2 * j - 1
             b == 2 * k - 1
  <2>1. a \in 1 .. Len(c) /\ c[a].k = "head" /\ HostsOf(c)[j].head = c[a].f
    BY <1>1
  <2>2. b \in 1 .. Len(c) /\ c[b].k = "head" /\ HostsOf(c)[k].head = c[b].f
    BY <1>1
  <2> HIDE DEF a, b
  <2>3. a = b
    BY <1>3, <2>1, <2>2 DEF OneHead
  <2>4. Len(HostsOf(c)) \in Nat
    BY HostsOfType
  <2> QED
    BY <2>3, <2>4 DEF a, b
<1> QED
  BY <1>2, <1>3 DEF OneEach

\* What is left of them without one host.
LEMMA OneWithout ==
  ASSUME NEW hosts \in Seq(Entry), NEW h, NEW s \in WithoutHost(hosts, h),
         OneEach(hosts, fetch, nFetches)
  PROVE  /\ OneEach(s, fetch, nFetches)
         /\ \A i \in 1 .. Len(s) : HostOf(s[i]) # h
<1> DEFINE keep == {i \in 1 .. Len(hosts) : HostOf(hosts[i]) # h}
           m == Cardinality(keep)
<1>1. m \in Nat
  <2>1. IsFiniteSet(1 .. Len(hosts))
    BY FS_Interval
  <2>2. IsFiniteSet(keep)
    BY <2>1, FS_Subset
  <2> QED
    BY <2>2, FS_CardinalityType
<1> HIDE DEF m
<1>2. PICK o \in [1 .. m -> keep] : /\ \A i, j \in 1 .. m : i < j => o[i] < o[j]
                                    /\ s = [i \in 1 .. m |-> hosts[o[i]]]
  BY DEF WithoutHost, m
<1>3. Len(s) = m /\ \A i \in 1 .. m : /\ o[i] \in 1 .. Len(hosts) /\ s[i] = hosts[o[i]]
                                      /\ HostOf(hosts[o[i]]) # h
  BY <1>1, <1>2
<1>4. ASSUME NEW i \in 1 .. m, NEW j \in 1 .. m, fetch[s[i].head].host = fetch[s[j].head].host
      PROVE  i = j
  <2>1. o[i] = o[j]
    <3>1. /\ o[i] \in 1 .. Len(hosts) /\ o[j] \in 1 .. Len(hosts)
          /\ s[i] = hosts[o[i]] /\ s[j] = hosts[o[j]]
      BY <1>3
    <3>2. fetch[hosts[o[i]].head].host = fetch[hosts[o[j]].head].host
      BY <1>4, <3>1
    <3> QED
      BY <3>1, <3>2 DEF OneEach
  <2>2. o[i] \in Nat /\ o[j] \in Nat
    BY <1>3
  <2>3. i < j \/ j < i \/ i = j
    BY <1>1
  <2>4. ~(i < j) /\ ~(j < i)
    BY <1>2, <2>1, <2>2
  <2> QED
    BY <2>3, <2>4
<1>5. \A i \in 1 .. m : s[i].head \in 1 .. nFetches
  BY <1>3 DEF OneEach
<1> QED
  BY <1>3, <1>4, <1>5 DEF OneEach

----------------------------------------------------------------------------
(* The invariant, action by action.                                        *)

LEMMA UniqueInvInit == ASSUME ConstantsAssumption, Init, NEW p \in Procs PROVE UniqueInv(p)
<1>1. path # NoFile => disk[path] = <<Hole>>
  BY DEF Init, Inode, ConstantsAssumption
<1>2. OneHead(<<Hole>>, fetch, nFetches)
  <2>1. Len(<<Hole>>) = 1 /\ <<Hole>>[1].k = "hole"
    BY DEF Hole
  <2> QED
    BY <2>1 DEF OneHead
<1>3. AllOne(p)
  BY <1>1, <1>2, OneEmpty, EmptyParses DEF Init, AllOne
<1>4. Others(p)
  BY DEF Init, Others
<1> QED
  BY <1>3, <1>4 DEF UniqueInv

LEMMA UniqueInvEnd ==
  ASSUME TypeInv, NEW p \in Procs, NEW l \in Ended, End(p, l), UNCHANGED serverVars,
         path' # NoFile => OneHead(disk'[path'], fetch, nFetches)
  PROVE  UniqueInv(p)'
<1>1. pc'[p] = l /\ buf'[p] = <<>> /\ out'[p] = <<>> /\ rest'[p] = <<>>
  BY DEF End, Goto, TypeInv, TypeOK
<1>2. AllOne(p)'
  BY <1>1, OneEmpty, EmptyParses DEF AllOne, serverVars
<1>3. Others(p)'
  BY <1>1 DEF Others, Ended
<1> QED
  BY <1>2, <1>3 DEF UniqueInv

LEMMA UniqueInvStart ==
  ASSUME TypeInv, NEW p \in Procs, UniqueInv(p), Start(p)
  PROVE  UniqueInv(p)'
<1>1. /\ pc'[p] \in {"open", "connect"} /\ rest[p] = <<>>
      /\ UNCHANGED <<fileVars, serverVars, readVars, writeVars>>
  BY DEF Start, Goto, TypeInv, TypeOK, UniqueInv, Others
<1>2. AllOne(p)'
  BY <1>1 DEF UniqueInv, AllOne, fileVars, serverVars, readVars, writeVars
<1>3. Others(p)'
  BY <1>1 DEF Others, Ended, readVars
<1> QED
  BY <1>2, <1>3 DEF UniqueInv

LEMMA UniqueInvRead ==
  ASSUME ConstantsAssumption, TypeInv, NEW p \in Procs, SeqInv(p), UniqueInv(p), Read(p)
  PROVE  UniqueInv(p)'
<1> USE DEF UniqueInv
<1>1. CASE Open(p) \/ (Missing(p) /\ path = NoFile) \/ (ReadEnd(p) /\ ~retried[p])
  <2>1. /\ pc'[p] \in {"read", "missing", "decide", "remove"}
        /\ UNCHANGED <<fileVars, serverVars, run, readVars, mine, writeVars>>
    BY <1>1 DEF Open, Missing, ReadEnd, Goto, TypeInv, TypeOK
  <2>2. AllOne(p)'
    BY <2>1 DEF AllOne, fileVars, serverVars, readVars, writeVars
  <2>3. Others(p)'
    BY <2>1 DEF Others, HostOf, Ended, serverVars, readVars
  <2> QED
    BY <2>2, <2>3
<1>2. CASE ReadBlock(p)
  <2> DEFINE d == disk[path]
             b == buf[p]
             w == b \o NextBlock(d, Len(b))
  <2>1. pc[p] = "read" /\ fd[p] = path /\ path \in Inode /\ d \in Seq(Cell)
    BY <1>2 DEF ReadBlock, TypeInv, TypeOK, LocalInv, SeqInv, OneFile
  <2>2. b \in Seq(Cell) /\ IsPrefixOf(b, d) /\ Len(b) < Len(d)
    BY <1>2, <2>1 DEF ReadBlock, TypeInv, TypeOK, SeqInv, OneFile
  <2>3. w \in Seq(Cell)
    <3>1. NextBlock(d, Len(b)) \in Seq(Cell)
      BY <2>1, <2>2, NextBlockType
    <3> QED
      BY <2>2, <3>1, ConcatProperties
  <2>4. IsPrefixOf(w, d)
    BY <2>1, <2>2, ReadPrefix
  <2>5. OneHead(d, fetch, nFetches)
    BY <2>1 DEF AllOne, Inode, NoFile
  <2>6. /\ buf'[p] = w
        /\ UNCHANGED <<fileVars, serverVars, pc, run, rest, mine, writeVars>>
    BY <1>2, <2>1 DEF ReadBlock, TypeInv, TypeOK
  <2> HIDE DEF w
  <2>7. OneHead(w, fetch, nFetches)
    BY <2>1, <2>3, <2>4, <2>5, OnePrefix
  <2>8. AllOne(p)'
    BY <2>6, <2>7 DEF AllOne, fileVars, serverVars, writeVars
  <2>9. Others(p)'
    BY <2>6 DEF Others, HostOf, serverVars
  <2> QED
    BY <2>8, <2>9
<1>3. CASE RemoveUnreadable(p)
  <2>1. /\ pc'[p] = "open" /\ path' = NoFile /\ buf'[p] = <<>>
        /\ UNCHANGED <<serverVars, run, rest, mine, writeVars>>
    BY <1>3 DEF RemoveUnreadable, Goto, TypeInv, TypeOK
  <2>2. AllOne(p)'
    BY <2>1, OneEmpty DEF AllOne, serverVars, writeVars
  <2>3. Others(p)'
    BY <2>1 DEF Others, HostOf, Ended, serverVars
  <2> QED
    BY <2>2, <2>3
<1>4. ASSUME Missing(p) PROVE path = NoFile
  BY <1>4 DEF Missing, SeqInv, Retries
<1>5. ASSUME ReadEnd(p) PROVE ~retried[p]
  BY <1>5 DEF ReadEnd, SeqInv, Retries
<1> QED
  BY <1>1, <1>2, <1>3, <1>4, <1>5 DEF Read

LEMMA UniqueInvLookup ==
  ASSUME TypeInv, NEW p \in Procs, UniqueInv(p), Lookup(p)
  PROVE  UniqueInv(p)'
<1> USE DEF UniqueInv
<1>1. CASE ServeFromCache(p)
  <2>1. /\ pc'[p] = "work" /\ buf'[p] = <<>>
        /\ UNCHANGED <<fileVars, serverVars, run, rest, mine, writeVars>>
    BY <1>1 DEF ServeFromCache, Goto, TypeInv, TypeOK
  <2>2. AllOne(p)'
    BY <2>1, OneEmpty DEF AllOne, fileVars, serverVars, writeVars
  <2>3. Others(p)'
    BY <2>1 DEF Others, HostOf, Ended, serverVars
  <2> QED
    BY <2>2, <2>3
<1>2. CASE Miss(p)
  <2> DEFINE hosts == HostsOf(buf[p])
  <2>1. buf[p] \in Seq(Cell) /\ Parses(buf[p]) /\ OneHead(buf[p], fetch, nFetches)
    BY <1>2 DEF Miss, TypeInv, TypeOK, LocalInv, AllOne
  <2>2. hosts \in Seq(Entry) /\ OneEach(hosts, fetch, nFetches)
    BY <2>1, HostsOfType, OneOfFile
  <2>3. PICK s \in WithoutHost(hosts, run[p].host) : rest' = [rest EXCEPT ![p] = s]
    BY <1>2 DEF Miss
  <2> HIDE DEF hosts
  <2>4. OneEach(s, fetch, nFetches) /\ \A i \in 1 .. Len(s) : HostOf(s[i]) # run[p].host
    BY <2>2, <2>3, OneWithout
  <2>5. /\ pc'[p] = "connect" /\ buf'[p] = <<>> /\ rest'[p] = s
        /\ UNCHANGED <<fileVars, serverVars, run, mine, writeVars>>
    BY <1>2, <2>3 DEF Miss, Goto, TypeInv, TypeOK
  <2>6. AllOne(p)'
    BY <2>4, <2>5, OneEmpty DEF AllOne, fileVars, serverVars, writeVars
  <2>7. Others(p)'
    BY <2>4, <2>5 DEF Others, HostOf, Ended, serverVars
  <2> QED
    BY <2>6, <2>7
<1> QED
  BY <1>1, <1>2 DEF Lookup

\* A step that leaves the hosts of the sessions keeps what is known of the file
\* and of the entries.
LEMMA UniqueInvHosts ==
  ASSUME TypeInv, TypeInv', NEW p \in Procs, UniqueInv(p), nFetches <= nFetches',
         \A f \in 1 .. nFetches : fetch'[f].host = fetch[f].host
  PROVE  /\ \A c : OneHead(c, fetch, nFetches) => OneHead(c, fetch', nFetches')
         /\ \A s : OneEach(s, fetch, nFetches) => OneEach(s, fetch', nFetches')
         /\ \A i \in 1 .. Len(rest[p]) : fetch'[rest[p][i].head].host # run[p].host
<1>1. nFetches \in Nat /\ nFetches' \in Nat
  BY DEF TypeInv, TypeOK
<1>2. \A i \in 1 .. Len(rest[p]) : rest[p][i].head \in 1 .. nFetches
  BY DEF UniqueInv, AllOne, OneEach
<1> QED
  BY <1>1, <1>2, OneKept DEF UniqueInv, Others, HostOf

LEMMA UniqueInvReflect ==
  ASSUME ConstantsAssumption, TypeInv, TypeInv', NEW p \in Procs, SeqInv(p), UniqueInv(p), Reflect(p)
  PROVE  UniqueInv(p)'
<1> USE DEF UniqueInv
<1>1. CASE Connect(p)
  <2>1. /\ pc'[p] = "list" /\ mine'[p] = nFetches' /\ nFetches' = nFetches + 1 /\ nFetches \in Nat
        /\ nFetches' \in FetchId /\ fetch'[nFetches'].host = run[p].host
        /\ \A f \in 1 .. nFetches : fetch'[f].host = fetch[f].host
        /\ UNCHANGED <<fileVars, run, readVars, writeVars>>
    BY <1>1 DEF Connect, Goto, TypeInv, TypeOK, FetchId
  <2>2. /\ \A c : OneHead(c, fetch, nFetches) => OneHead(c, fetch', nFetches')
        /\ \A s : OneEach(s, fetch, nFetches) => OneEach(s, fetch', nFetches')
        /\ \A i \in 1 .. Len(rest[p]) : fetch'[rest[p][i].head].host # run[p].host
    BY <2>1, UniqueInvHosts
  <2>3. AllOne(p)'
    BY <2>1, <2>2 DEF AllOne, fileVars, readVars, writeVars
  <2>4. Others(p)'
    BY <2>1, <2>2 DEF Others, HostOf, Ended, readVars
  <2> QED
    BY <2>3, <2>4
<1>2. CASE ListServices(p)
  <2>1. /\ pc[p] = "list" /\ pc'[p] = "files"
        /\ UNCHANGED <<fileVars, serverVars, run, readVars, mine, writeVars>>
    BY <1>2 DEF ListServices, Goto, TypeInv, TypeOK
  <2>2. AllOne(p)'
    BY <2>1 DEF AllOne, fileVars, serverVars, readVars, writeVars
  <2>3. Others(p)'
    BY <2>1 DEF Others, HostOf, Ended, serverVars, readVars
  <2> QED
    BY <2>2, <2>3
<1>3. CASE ServerFails(p)
  <2>1. "exitServer" \in Ended
    BY DEF Ended
  <2> QED
    BY <1>3, <2>1, UniqueInvEnd DEF ServerFails, AllOne, fileVars
<1>4. CASE FetchFiles(p)
  <2> DEFINE e == [head |-> mine[p], body |-> mine[p]]
             hosts == Append(rest[p], e)
  <2>1. /\ pc[p] = "files" /\ mine[p] \in FetchId /\ rest[p] \in Seq(Entry) /\ e \in Entry
        /\ run[p].build \in Versions /\ mine[p] \in 1 .. nFetches
        /\ fetch[mine[p]].host = run[p].host
    <3>1. pc[p] = "files" /\ mine[p] \in FetchId /\ rest[p] \in Seq(Entry) /\ run[p].build \in Versions
      BY <1>4 DEF FetchFiles, TypeInv, TypeOK, LocalInv, RunRec
    <3>2. mine[p] \in 0 .. nFetches /\ nFetches \in Nat
      BY DEF SeqInv, Sessions, TypeInv, TypeOK
    <3>3. mine[p] \in 1 .. nFetches
      BY <3>1, <3>2 DEF FetchId
    <3> QED
      BY <3>1, <3>3 DEF Entry, Others
  <2>2. /\ hosts \in Seq(Entry) /\ Len(hosts) = Len(rest[p]) + 1 /\ hosts[Len(rest[p]) + 1] = e
        /\ \A i \in 1 .. Len(rest[p]) : hosts[i] = rest[p][i]
    BY <2>1, AppendProperties
  <2>3. /\ nFetches' = nFetches /\ \A f \in FetchId : fetch'[f].host = fetch[f].host
        /\ pc'[p] \in {"work", "openW"} /\ rest'[p] = <<>>
        /\ out'[p] = out[p] \/ out'[p] = Serialized(hosts, run[p].build)
        /\ UNCHANGED <<fileVars, buf>>
    <3>1. \A f \in FetchId : fetch'[f].host = fetch[f].host
      BY <1>4, StampedSession
    <3>2. /\ nFetches' = nFetches /\ pc'[p] \in {"work", "openW"} /\ rest'[p] = <<>>
          /\ out'[p] = out[p] \/ out'[p] = Serialized(hosts, run[p].build)
          /\ UNCHANGED <<fileVars, buf>>
      BY <1>4 DEF FetchFiles, Goto, TypeInv, TypeOK
    <3> QED
      BY <3>1, <3>2
  <2>4. /\ \A c : OneHead(c, fetch, nFetches) => OneHead(c, fetch', nFetches')
        /\ \A s : OneEach(s, fetch, nFetches) => OneEach(s, fetch', nFetches')
    <3>1. nFetches \in 0 .. MaxFetch /\ MaxFetch \in Nat
      BY ConstantsAssumption DEF ConstantsAssumption, TypeInv, TypeOK
    <3>2. \A f \in 1 .. nFetches : f \in FetchId
      BY <3>1 DEF FetchId
    <3> QED
      BY <2>3, <3>1, <3>2, UniqueInvHosts
  <2>5. OneEach(hosts, fetch, nFetches)
    <3> HIDE DEF hosts
    <3>1. ASSUME NEW i \in 1 .. Len(hosts)
          PROVE  \/ i \in 1 .. Len(rest[p]) /\ hosts[i] = rest[p][i] /\ fetch[hosts[i].head].host # run[p].host
                 \/ i = Len(rest[p]) + 1 /\ hosts[i].head = mine[p] /\ fetch[hosts[i].head].host = run[p].host
      <4>1. Len(rest[p]) \in Nat /\ i \in 1 .. Len(rest[p]) + 1
        BY <2>1, <2>2
      <4>2. CASE i \in 1 .. Len(rest[p])
        <5>1. hosts[i] = rest[p][i]
          BY <2>2, <4>2
        <5>2. HostOf(rest[p][i]) # run[p].host
          BY <4>2 DEF Others
        <5> QED
          BY <4>2, <5>1, <5>2 DEF HostOf
      <4>3. CASE i = Len(rest[p]) + 1
        <5>1. hosts[i] = e
          BY <2>2, <4>3
        <5>2. hosts[i].head = mine[p]
          BY <5>1
        <5> QED
          BY <2>1, <4>3, <5>2
      <4> QED
        BY <4>1, <4>2, <4>3
    <3>2. OneEach(rest[p], fetch, nFetches)
      BY DEF AllOne
    <3>3. \A i \in 1 .. Len(hosts) : hosts[i].head \in 1 .. nFetches
      BY <2>1, <3>1, <3>2 DEF OneEach
    <3>4. \A i, j \in 1 .. Len(hosts) : fetch[hosts[i].head].host = fetch[hosts[j].head].host => i = j
      BY <3>1, <3>2 DEF OneEach
    <3> QED
      BY <3>3, <3>4 DEF OneEach
  <2> HIDE DEF hosts
  <2>6. OneHead(Serialized(hosts, run[p].build), fetch, nFetches) /\ Parses(Serialized(hosts, run[p].build))
    BY <2>1, <2>2, <2>5, OneSerialized
  <2>7. AllOne(p)'
    BY <2>3, <2>4, <2>6, OneEmpty DEF AllOne, fileVars
  <2>8. Others(p)'
    BY <2>3 DEF Others, Ended
  <2> QED
    BY <2>7, <2>8
<1> QED
  BY <1>1, <1>2, <1>3, <1>4 DEF Reflect

LEMMA UniqueInvWrite ==
  ASSUME ConstantsAssumption, TypeInv, NEW p \in Procs, SeqInv(p), UniqueInv(p), Write(p)
  PROVE  UniqueInv(p)'
<1> USE DEF UniqueInv
<1>1. CASE OpenForWrite(p)
  <2>1. PICK i \in Inode : path' = i /\ disk' = [disk EXCEPT ![i] = <<>>]
    BY <1>1 DEF OpenForWrite
  <2>2. /\ pc'[p] = "write" /\ disk'[path'] = <<>>
        /\ UNCHANGED <<serverVars, run, readVars, mine, writeVars>>
    BY <1>1, <2>1 DEF OpenForWrite, Goto, TypeInv, TypeOK
  <2>3. AllOne(p)'
    BY <2>2, OneEmpty DEF AllOne, serverVars, readVars, writeVars
  <2>4. Others(p)'
    BY <2>2 DEF Others, HostOf, Ended, serverVars, readVars
  <2> QED
    BY <2>3, <2>4
<1>2. CASE WriteBlock(p)
  <2> DEFINE c == disk[path]
             d == out[p]
             w == Put(c, Len(c), NextBlock(d, Len(c)))
  <2>1. /\ pc[p] = "write" /\ fd[p] = path /\ path \in Inode /\ c \in Seq(Cell) /\ d \in Seq(Cell)
        /\ IsPrefixOf(c, d) /\ Len(c) = pos[p] /\ Len(c) < Len(d)
    BY <1>2 DEF WriteBlock, TypeInv, TypeOK, LocalInv, SeqInv, OneFile
  <2>2. w \in Seq(Cell) /\ IsPrefixOf(w, d)
    BY <2>1, NextBlockType, PutType, PutPrefix
  <2>3. disk'[path] = w /\ UNCHANGED <<path, serverVars, pc, run, readVars, mine, out>>
    BY <1>2, <2>1 DEF WriteBlock, TypeInv, TypeOK
  <2> HIDE DEF w
  <2>4. OneHead(w, fetch, nFetches)
    <3>1. OneHead(d, fetch, nFetches)
      BY DEF AllOne
    <3> QED
      BY <2>1, <2>2, <3>1, OnePrefix
  <2>5. AllOne(p)'
    BY <2>3, <2>4 DEF AllOne, serverVars, readVars
  <2>6. Others(p)'
    BY <2>3 DEF Others, HostOf, serverVars, readVars
  <2> QED
    BY <2>5, <2>6
<1>3. CASE CloseFile(p)
  <2>1. /\ pc'[p] = "work" /\ out'[p] = <<>>
        /\ UNCHANGED <<fileVars, serverVars, run, readVars, mine>>
    BY <1>3 DEF CloseFile, Goto, TypeInv, TypeOK
  <2>2. AllOne(p)'
    BY <2>1, OneEmpty, EmptyParses DEF AllOne, fileVars, serverVars, readVars
  <2>3. Others(p)'
    BY <2>1 DEF Others, HostOf, Ended, serverVars, readVars
  <2> QED
    BY <2>2, <2>3
<1> QED
  BY <1>1, <1>2, <1>3 DEF Write

LEMMA UniqueInvClose ==
  ASSUME TypeInv, NEW p \in Procs, UniqueInv(p), Close(p)
  PROVE  UniqueInv(p)'
<1>1. "done" \in Ended
  BY DEF Ended
<1>2. CASE CloseStream(p) /\ End(p, "done")
  BY <1>1, <1>2, UniqueInvEnd DEF CloseStream, UniqueInv, AllOne, fileVars
<1>3. CASE CloseStream(p) /\ Goto(p, "drop") /\ UNCHANGED <<run, readVars, fd, mine, writeVars>>
  <2>1. /\ pc'[p] = "drop"
        /\ UNCHANGED <<fileVars, serverVars, run, readVars, mine, writeVars>>
    BY <1>3 DEF CloseStream, Goto, TypeInv, TypeOK
  <2>2. AllOne(p)'
    BY <2>1 DEF UniqueInv, AllOne, fileVars, serverVars, readVars, writeVars
  <2>3. Others(p)'
    BY <2>1 DEF UniqueInv, Others, HostOf, Ended, serverVars, readVars
  <2> QED
    BY <2>2, <2>3 DEF UniqueInv
<1>4. CASE RemoveInvalid(p)
  BY <1>1, <1>4, UniqueInvEnd DEF RemoveInvalid
<1> QED
  BY <1>2, <1>3, <1>4 DEF Close, CloseStream

\* With one place of invocation, UniqueInv is an invariant.
LEMMA UniqueInvNext ==
  ASSUME ConstantsAssumption, NEW p, Procs = {p}, TypeInv, TypeInv', SeqInv(p), UniqueInv(p), [Next]_vars
  PROVE  UniqueInv(p)'
<1>1. p \in Procs
  OBVIOUS
<1>2. CASE Start(p)
  BY <1>1, <1>2, UniqueInvStart
<1>3. CASE Step(p)
  BY <1>1, <1>3, UniqueInvRead, UniqueInvLookup, UniqueInvReflect, UniqueInvWrite, UniqueInvClose DEF Step
<1>4. CASE Crash(p)
  <2>1. "killed" \in Ended
    BY DEF Ended
  <2> QED
    BY <1>1, <1>4, <2>1, UniqueInvEnd DEF Crash, UniqueInv, AllOne, fileVars
<1>5. CASE UNCHANGED <<fileVars, serverVars, pc, run, readVars, mine, writeVars>>
  BY <1>5 DEF UniqueInv, AllOne, Others, HostOf, fileVars, serverVars, readVars, writeVars
<1>6. CASE UNCHANGED vars
  BY <1>5, <1>6 DEF vars
<1> QED
  BY <1>1, <1>2, <1>3, <1>4, <1>5, <1>6 DEF Next, Tick

----------------------------------------------------------------------------
\* Invocations that follow one another never write a database with two entries
\* for one host, so that a lookup finds the entry that was refreshed last.
THEOREM SequentialUnique ==
  ASSUME NEW p, Procs = {p}
  PROVE  Spec => []OneEntryPerHost
<1> USE ConstantsAssumption
<1>1. Init => UniqueInv(p)
  BY UniqueInvInit
<1>2. TypeInv /\ SeqInv(p) /\ (TypeInv /\ SeqInv(p))' /\ UniqueInv(p) /\ [Next]_vars => UniqueInv(p)'
  BY UniqueInvNext
<1>3. TypeInv /\ UniqueInv(p) => OneEntryPerHost
  <2> SUFFICES ASSUME TypeInv, UniqueInv(p) PROVE OneEntryPerHost
    OBVIOUS
  <2>1. out[p] \in Seq(Cell) /\ Parses(out[p]) /\ OneHead(out[p], fetch, nFetches)
    BY DEF TypeInv, TypeOK, UniqueInv, AllOne
  <2>2. OneEach(HostsOf(out[p]), fetch, nFetches)
    BY <2>1, OneOfFile
  <2> QED
    BY <2>2 DEF OneEach, OneEntryPerHost, HostOf
<1> QED
  BY <1>1, <1>2, <1>3, SeqInvariance, PTL DEF Spec

----------------------------------------------------------------------------
(* The sessions that entries are from.                                     *)

\* The same with the sessions as a parameter.
Sess(fe, hosts, h) ==
  UNION {{e.head, e.body} : e \in {hosts[i] : i \in {k \in 1 .. Len(hosts) : fe[hosts[k].head].host = h}}}

LEMMA SessionsAre == \A hosts, h : SessionsOf(hosts, h) = Sess(fetch, hosts, h)
  BY DEF SessionsOf, Sess, HostOf

LEMMA SessElement ==
  ASSUME NEW fe, NEW hosts, NEW h, NEW x
  PROVE  x \in Sess(fe, hosts, h) <=>
           \E i \in 1 .. Len(hosts) : fe[hosts[i].head].host = h /\ (x = hosts[i].head \/ x = hosts[i].body)
  BY DEF Sess

LEMMA SessEmpty == \A fe, h : Sess(fe, <<>>, h) = {}
  BY DEF Sess

\* Of what is written, a prefix holds the entry of a host or none.
LEMMA SessPrefix ==
  ASSUME NEW c \in Seq(Cell), NEW d \in Seq(Cell), Parses(c), Parses(d), IsPrefixOf(c, d),
         NEW fe, NEW n, OneHead(d, fe, n), NEW h
  PROVE  Sess(fe, HostsOf(c), h) = {} \/ Sess(fe, HostsOf(c), h) = Sess(fe, HostsOf(d), h)
<1>1. ASSUME NEW j \in 1 .. Len(HostsOf(c))
      PROVE  j \in 1 .. Len(HostsOf(d)) /\ HostsOf(c)[j] = HostsOf(d)[j]
  <2>1. /\ j \in 1 .. Len(c) \div 2
        /\ HostsOf(c)[j] = [head |-> c[2*j - 1].f, body |-> c[2*j].f]
    BY HostsOfType
  <2>2. /\ j \in 1 .. Len(d) \div 2
        /\ 2*j - 1 \in 1 .. Len(c) /\ 2*j \in 1 .. Len(c)
    BY <2>1 DEF IsPrefixOf
  <2>3. HostsOf(d)[j] = [head |-> d[2*j - 1].f, body |-> d[2*j].f] /\ Len(HostsOf(d)) = Len(d) \div 2
    BY <2>2, HostsOfType
  <2>4. c[2*j - 1] = d[2*j - 1] /\ c[2*j] = d[2*j]
    BY <2>2 DEF IsPrefixOf
  <2> QED
    BY <2>1, <2>2, <2>3, <2>4
<1>2. OneEach(HostsOf(d), fe, n)
  BY OneOfFile
<1>3. CASE \E j \in 1 .. Len(HostsOf(c)) : fe[HostsOf(c)[j].head].host = h
  <2> DEFINE s == HostsOf(c)
             t == HostsOf(d)
  <2>1. PICK j \in 1 .. Len(s) : fe[s[j].head].host = h
    BY <1>3
  <2>2. j \in 1 .. Len(s) /\ j \in 1 .. Len(t) /\ s[j] = t[j]
    BY <1>1
  <2>3. \A i \in 1 .. Len(s) : i \in 1 .. Len(t) /\ s[i] = t[i]
    BY <1>1
  <2>4. \A k \in 1 .. Len(t) : fe[t[k].head].host = h => k = j
    BY <1>2, <2>1, <2>2 DEF OneEach
  <2> HIDE DEF s, t
  <2>5. ASSUME NEW x \in Sess(fe, s, h) PROVE x \in Sess(fe, t, h)
    <3>1. PICK i \in 1 .. Len(s) : fe[s[i].head].host = h /\ (x = s[i].head \/ x = s[i].body)
      BY <2>5, SessElement
    <3> QED
      BY <2>3, <3>1, SessElement
  <2>6. ASSUME NEW x \in Sess(fe, t, h) PROVE x \in Sess(fe, s, h)
    <3>1. PICK k \in 1 .. Len(t) : fe[t[k].head].host = h /\ (x = t[k].head \/ x = t[k].body)
      BY <2>6, SessElement
    <3> QED
      BY <2>1, <2>2, <2>4, <3>1, SessElement
  <2> QED
    BY <2>5, <2>6 DEF s, t
<1>4. CASE ~ \E j \in 1 .. Len(HostsOf(c)) : fe[HostsOf(c)[j].head].host = h
  <2>1. \A x : x \notin Sess(fe, HostsOf(c), h)
    BY <1>4, SessElement
  <2> QED
    BY <2>1
<1> QED
  BY <1>3, <1>4

\* Entries without those of one host.
LEMMA SessWithout ==
  ASSUME NEW hosts \in Seq(Entry), NEW g, NEW s \in WithoutHost(hosts, g), NEW h, h # g
  PROVE  Sess(fetch, s, h) = Sess(fetch, hosts, h)
<1> DEFINE keep == {i \in 1 .. Len(hosts) : HostOf(hosts[i]) # g}
           m == Cardinality(keep)
<1>1. IsFiniteSet(keep) /\ m \in Nat
  <2>1. IsFiniteSet(1 .. Len(hosts))
    BY FS_Interval
  <2>2. IsFiniteSet(keep)
    BY <2>1, FS_Subset
  <2> QED
    BY <2>2, FS_CardinalityType
<1>2. PICK o \in [1 .. m -> keep] : /\ \A i, j \in 1 .. m : i < j => o[i] < o[j]
                                    /\ s = [i \in 1 .. m |-> hosts[o[i]]]
  BY DEF WithoutHost
<1>3. Len(s) = m /\ \A i \in 1 .. m : o[i] \in keep /\ s[i] = hosts[o[i]]
  BY <1>1, <1>2
\* An increasing enumeration of as many members is onto.
<1>4. \A k \in keep : \E i \in 1 .. m : o[i] = k
  <2>1. \A i, j \in 1 .. m : o[i] = o[j] => i = j
    <3> TAKE i, j \in 1 .. m
    <3> HAVE o[i] = o[j]
    <3>1. o[i] \in Nat /\ i \in Nat /\ j \in Nat
      BY <1>1, <1>2
    <3> HIDE DEF keep, m
    <3>2. ~(i < j) /\ ~(j < i)
      BY <1>2, <3>1
    <3> QED
      BY <3>1, <3>2
  <2>2. o \in Injection(1 .. m, keep)
    BY <1>2, <2>1 DEF Injection, IsInjective
  <2>3. IsFiniteSet(1 .. m) /\ Cardinality(1 .. m) = m
    BY <1>1, FS_Interval
  <2> HIDE DEF keep
  <2>4. o \in Surjection(1 .. m, keep)
    BY <1>1, <2>2, <2>3, FS_Injection
  <2> QED
    BY <2>4 DEF Surjection
<1> HIDE DEF m
<1>5. ASSUME NEW x \in Sess(fetch, s, h) PROVE x \in Sess(fetch, hosts, h)
  <2>1. PICK i \in 1 .. m : fetch[s[i].head].host = h /\ (x = s[i].head \/ x = s[i].body)
    BY <1>3, <1>5, SessElement
  <2>2. o[i] \in 1 .. Len(hosts) /\ s[i] = hosts[o[i]]
    BY <1>3
  <2> QED
    BY <2>1, <2>2, SessElement
<1>6. ASSUME NEW x \in Sess(fetch, hosts, h) PROVE x \in Sess(fetch, s, h)
  <2>1. PICK k \in 1 .. Len(hosts) : fetch[hosts[k].head].host = h /\ (x = hosts[k].head \/ x = hosts[k].body)
    BY <1>6, SessElement
  <2>2. k \in keep
    BY <2>1 DEF HostOf
  <2>3. PICK i \in 1 .. m : o[i] = k
    BY <1>4, <2>2
  <2>4. i \in 1 .. Len(s) /\ s[i] = hosts[k]
    BY <1>3, <2>3
  <2> QED
    BY <2>1, <2>4, SessElement
<1> QED
  BY <1>5, <1>6

\* Entries with one of another host behind them.
LEMMA SessAppend ==
  ASSUME NEW s \in Seq(Entry), NEW e \in Entry, NEW fe, NEW h,
         \A i \in 1 .. Len(s) : fe[s[i].head].host # fe[e.head].host
  PROVE  Sess(fe, Append(s, e), h) =
           IF h = fe[e.head].host THEN {e.head, e.body} ELSE Sess(fe, s, h)
<1> DEFINE t == Append(s, e)
<1>1. /\ Len(s) \in Nat /\ Len(t) = Len(s) + 1 /\ t[Len(s) + 1] = e
      /\ \A i \in 1 .. Len(s) : t[i] = s[i]
  BY AppendProperties
<1> HIDE DEF t
<1>2. ASSUME NEW x
      PROVE  x \in Sess(fe, t, h) <=>
               \/ x \in Sess(fe, s, h)
               \/ fe[e.head].host = h /\ (x = e.head \/ x = e.body)
  <2>1. ASSUME x \in Sess(fe, t, h)
        PROVE  x \in Sess(fe, s, h) \/ (fe[e.head].host = h /\ (x = e.head \/ x = e.body))
    <3>1. PICK i \in 1 .. Len(t) : fe[t[i].head].host = h /\ (x = t[i].head \/ x = t[i].body)
      BY <2>1, SessElement
    <3>2. i \in 1 .. Len(s) \/ i = Len(s) + 1
      BY <1>1
    <3> QED
      BY <1>1, <3>1, <3>2, SessElement
  <2>2. ASSUME x \in Sess(fe, s, h) PROVE x \in Sess(fe, t, h)
    <3>1. PICK i \in 1 .. Len(s) : fe[s[i].head].host = h /\ (x = s[i].head \/ x = s[i].body)
      BY <2>2, SessElement
    <3>2. i \in 1 .. Len(t) /\ t[i] = s[i]
      BY <1>1
    <3> QED
      BY <3>1, <3>2, SessElement
  <2>3. ASSUME fe[e.head].host = h, x = e.head \/ x = e.body PROVE x \in Sess(fe, t, h)
    <3>1. Len(s) + 1 \in 1 .. Len(t)
      BY <1>1
    <3> QED
      BY <1>1, <2>3, <3>1, SessElement
  <2> QED
    BY <2>1, <2>2, <2>3
<1>3. CASE h = fe[e.head].host
  <2>1. ASSUME NEW x PROVE x \notin Sess(fe, s, h)
    BY <1>3, SessElement
  <2> QED
    BY <1>2, <1>3, <2>1 DEF t
<1>4. CASE h # fe[e.head].host
  BY <1>2, <1>4 DEF t
<1> QED
  BY <1>3, <1>4

\* What is written holds the entries that were given.
LEMMA HostsOfSerialized ==
  ASSUME NEW hosts \in Seq(Entry), NEW v \in Versions
  PROVE  HostsOf(Serialized(hosts, v)) = hosts
<1> DEFINE n == Len(hosts)
           c == Serialized(hosts, v)
<1>1. n \in Nat /\ Len(c) = 2 * n + 1 /\ Len(c) \div 2 = n
  BY DEF Serialized
<1>2. ASSUME NEW j \in 1 .. n
      PROVE  HostsOf(c)[j] = hosts[j]
  <2>1. hosts[j] \in Entry
    BY <1>1
  <2>2. c[2*j - 1] = HeadCell(hosts[j].head)
    <3>1. /\ 2*j - 1 \in 1 .. 2*n + 1 /\ 2*j - 1 # 2*n + 1
          /\ (2*j - 1) % 2 = 1 /\ ((2*j - 1) + 1) \div 2 = j
      BY <1>1
    <3> QED
      BY <3>1 DEF Serialized
  <2>3. c[2*j] = BodyCell(hosts[j].body)
    <3>1. 2*j \in 1 .. 2*n + 1 /\ 2*j # 2*n + 1 /\ (2*j) % 2 # 1 /\ (2*j) \div 2 = j
      BY <1>1
    <3> QED
      BY <3>1 DEF Serialized
  <2>4. HostsOf(c)[j] = [head |-> c[2*j - 1].f, body |-> c[2*j].f]
    BY <1>1 DEF HostsOf
  <2> QED
    BY <2>1, <2>2, <2>3, <2>4 DEF HeadCell, BodyCell, Entry
<1>3. HostsOf(c) = [j \in 1 .. n |-> hosts[j]]
  <2> HIDE DEF c, n
  <2>1. HostsOf(c) = [j \in 1 .. n |-> HostsOf(c)[j]]
    BY <1>1 DEF HostsOf
  <2> QED
    BY <1>2, <2>1
<1>4. hosts = [j \in 1 .. n |-> hosts[j]]
  OBVIOUS
<1> QED
  BY <1>3, <1>4

----------------------------------------------------------------------------
(* What the file says, and which steps leave it alone.                     *)

LEMMA ContentsAre ==
  ASSUME NEW p, Procs = {p}
  PROVE  /\ Contents = IF pc[p] = "write" THEN out[p]
                       ELSE IF path # NoFile /\ Parses(disk[path]) THEN disk[path] ELSE <<>>
         /\ Contents' = IF pc'[p] = "write" THEN out'[p]
                        ELSE IF path' # NoFile /\ Parses(disk'[path']) THEN disk'[path'] ELSE <<>>
<1>1. Place = p
  BY DEF Place
<1> QED
  BY <1>1 DEF Contents

LEMMA StoredAre ==
  /\ Stored = [h \in Hosts |-> Sess(fetch, HostsOf(Contents), h)]
  /\ Stored' = [h \in Hosts |-> Sess(fetch', HostsOf(Contents'), h)]
BY DEF Stored, SessionsOf, Sess, HostOf

LEMMA ContentsType ==
  ASSUME NEW p, Procs = {p}, TypeInv, UniqueInv(p)
  PROVE  /\ Contents \in Seq(Cell) /\ Parses(Contents) /\ OneHead(Contents, fetch, nFetches)
         /\ HostsOf(Contents) \in Seq(Entry) /\ OneEach(HostsOf(Contents), fetch, nFetches)
<1>1. Contents = IF pc[p] = "write" THEN out[p]
                 ELSE IF path # NoFile /\ Parses(disk[path]) THEN disk[path] ELSE <<>>
  BY ContentsAre
<1>2. out[p] \in Seq(Cell) /\ Parses(out[p]) /\ OneHead(out[p], fetch, nFetches)
  BY DEF TypeInv, TypeOK, UniqueInv, AllOne
<1>3. path # NoFile => disk[path] \in Seq(Cell) /\ OneHead(disk[path], fetch, nFetches)
  BY DEF TypeInv, TypeOK, UniqueInv, AllOne
<1>4. <<>> \in Seq(Cell) /\ Parses(<<>>) /\ OneHead(<<>>, fetch, nFetches)
  BY EmptyParses, OneEmpty
<1>5. Contents \in Seq(Cell) /\ Parses(Contents) /\ OneHead(Contents, fetch, nFetches)
  BY <1>1, <1>2, <1>3, <1>4
<1> QED
  BY <1>5, HostsOfType, OneOfFile

LEMMA StoredEmpty ==
  /\ Contents = <<>> => Stored = [h \in Hosts |-> {}]
  /\ Contents' = <<>> => Stored' = [h \in Hosts |-> {}]
<1>1. HostsOf(<<>>) = <<>>
  <2>1. Len(<<>>) \div 2 = 0
    OBVIOUS
  <2> QED
    BY <2>1 DEF HostsOf
<1> QED
  BY <1>1, StoredAre, SessEmpty

\* Nor does one change what entries say.
LEMMA EntriesKept ==
  ASSUME ConstantsAssumption, NEW p, Procs = {p}, TypeInv, TypeInv', [Next]_vars,
         NEW s, OneEach(s, fetch, nFetches), NEW h
  PROVE  Sess(fetch', s, h) = Sess(fetch, s, h)
<1>1. \A i \in 1 .. Len(s) : fetch'[s[i].head].host = fetch[s[i].head].host
  BY SessionHosts DEF OneEach
<1>2. ASSUME NEW x PROVE x \in Sess(fetch', s, h) <=> x \in Sess(fetch, s, h)
  BY <1>1, SessElement
<1> QED
  BY <1>2

\* While the contents stay, so do the sessions they are from.
LEMMA StoredKept ==
  ASSUME ConstantsAssumption, NEW p, Procs = {p}, TypeInv, TypeInv', UniqueInv(p), [Next]_vars,
         Contents' = Contents
  PROVE  Stored' = Stored
<1>1. OneEach(HostsOf(Contents), fetch, nFetches)
  BY ContentsType
<1>2. \A h : Sess(fetch', HostsOf(Contents), h) = Sess(fetch, HostsOf(Contents), h)
  BY <1>1, EntriesKept
<1> QED
  BY <1>2, StoredAre

----------------------------------------------------------------------------
(* The invariant.                                                          *)

\* What is carried over and what is about to be written, with the new entry
\* for the host that is asked.
Carried(p) ==
  \A h \in Hosts \ {run[p].host} : Sess(fetch, rest[p], h) = Stored[h]

AboutToWrite(p) ==
  /\ mine[p] # NoFetch
  /\ \A h \in Hosts : Sess(fetch, HostsOf(out[p]), h) =
                        IF h = run[p].host THEN {mine[p]} ELSE Stored[h]

\* What was read, is carried over and is written agrees with the file.
MapInv(p) ==
  /\ pc[p] = "decide" => buf[p] = Contents
  /\ pc[p] = "remove" => Contents = <<>>
  /\ pc[p] \in {"connect", "list", "files"} /\ ~run[p].noCache => Carried(p)
  /\ pc[p] = "openW" => AboutToWrite(p)
  /\ mine[p] \in {NoFetch, nFetches}

AllInv(p) == TypeInv /\ SeqInv(p) /\ UniqueInv(p) /\ MapInv(p)

\* The steps that change neither the file nor what is being written.
LEMMA ContentsKept ==
  ASSUME ConstantsAssumption, NEW p, Procs = {p}, AllInv(p),
         \/ Start(p) \/ Read(p) \/ Lookup(p) \/ Reflect(p) \/ CloseStream(p)
         \/ WriteBlock(p) \/ Tick \/ UNCHANGED vars
  PROVE  Contents' = Contents
<1> USE DEF AllInv
<1>1. ASSUME pc[p] # "write", pc'[p] # "write", UNCHANGED fileVars
      PROVE  Contents' = Contents
  BY <1>1, ContentsAre DEF fileVars
<1>2. CASE Start(p)
  BY <1>1, <1>2 DEF Start, Goto, Ended, TypeInv, TypeOK
<1>3. CASE Read(p) /\ ~RemoveUnreadable(p)
  BY <1>1, <1>3 DEF Read, Open, Missing, ReadBlock, ReadEnd, End, Goto, TypeInv, TypeOK
<1>4. CASE RemoveUnreadable(p)
  <2>1. Contents = <<>> /\ path' = NoFile /\ pc'[p] # "write"
    BY <1>4 DEF RemoveUnreadable, Goto, TypeInv, TypeOK, MapInv
  <2> QED
    BY <2>1, ContentsAre
<1>5. CASE Lookup(p)
  BY <1>1, <1>5 DEF Lookup, ServeFromCache, Miss, Goto, TypeInv, TypeOK
<1>6. CASE Reflect(p)
  BY <1>1, <1>6 DEF Reflect, Connect, ListServices, ServerFails, FetchFiles, End, Goto, TypeInv, TypeOK
<1>7. CASE CloseStream(p)
  BY <1>1, <1>7 DEF CloseStream, End, Goto, TypeInv, TypeOK
<1>8. CASE WriteBlock(p)
  BY <1>8, ContentsAre DEF WriteBlock
<1>9. CASE Tick \/ UNCHANGED vars
  BY <1>9, ContentsAre DEF Tick, vars, fileVars, writeVars
<1> QED
  BY <1>2, <1>3, <1>4, <1>5, <1>6, <1>7, <1>8, <1>9

LEMMA MapInvInit == ASSUME ConstantsAssumption, Init, NEW p \in Procs PROVE MapInv(p)
  BY DEF Init, MapInv

\* In the positions where nothing is held, only the own session is known.
LEMMA MapInvIdle ==
  ASSUME NEW p \in Procs, MapInv(p),
         pc'[p] \in Ended \cup {"open", "missing", "read", "write", "work", "drop"},
         mine'[p] \in {NoFetch, mine[p]}, nFetches' = nFetches
  PROVE  MapInv(p)'
  BY DEF MapInv, Ended

LEMMA MapInvRead ==
  ASSUME ConstantsAssumption, NEW p, Procs = {p}, AllInv(p), Read(p)
  PROVE  MapInv(p)'
<1> USE DEF AllInv
<1>1. p \in Procs /\ Contents' = Contents
  BY ContentsKept
<1>2. CASE Open(p) \/ ReadBlock(p) \/ RemoveUnreadable(p)
  <2>1. /\ pc'[p] \in {"open", "missing", "read"}
        /\ UNCHANGED <<mine, nFetches>>
    BY <1>1, <1>2 DEF Open, ReadBlock, RemoveUnreadable, Goto, TypeInv, TypeOK, serverVars
  <2> QED
    BY <1>1, <2>1, MapInvIdle
<1>3. CASE Missing(p)
  <2>1. /\ pc[p] = "missing" /\ path = NoFile /\ pc'[p] = "decide" /\ buf'[p] = <<>>
        /\ UNCHANGED <<mine, nFetches>>
    BY <1>1, <1>3 DEF Missing, Goto, TypeInv, TypeOK, LocalInv, SeqInv, Retries, serverVars, readVars
  <2>2. Contents = <<>>
    BY <2>1, ContentsAre
  <2> QED
    BY <1>1, <2>1, <2>2 DEF MapInv
<1>4. CASE ReadEnd(p)
  <2>1. /\ pc[p] = "read" /\ fd[p] = path /\ path \in Inode /\ path # NoFile /\ ~retried[p]
        /\ buf[p] \in Seq(Cell) /\ disk[path] \in Seq(Cell) /\ IsPrefixOf(buf[p], disk[path])
        /\ Len(buf[p]) >= Len(disk[path])
    <3>1. pc[p] = "read" /\ fd[p] = path /\ ~retried[p] /\ IsPrefixOf(buf[p], disk[path])
      BY <1>4 DEF ReadEnd, SeqInv, OneFile, Retries
    <3>2. path \in Inode /\ path # NoFile
      BY <1>1, <3>1 DEF TypeInv, LocalInv, Inode, NoFile
    <3>3. Len(buf[p]) >= Len(disk[path])
      BY <1>4, <3>1 DEF ReadEnd
    <3> QED
      BY <1>1, <3>1, <3>2, <3>3 DEF TypeInv, TypeOK
  <2>2. buf[p] = disk[path]
    <3>1. Len(buf[p]) = Len(disk[path]) /\ \A i \in 1 .. Len(buf[p]) : buf[p][i] = disk[path][i]
      BY <2>1 DEF IsPrefixOf
    <3> QED
      BY <2>1, <3>1, SeqEqual
  <2>3. Contents = IF Parses(buf[p]) THEN buf[p] ELSE <<>>
    BY <2>1, <2>2, ContentsAre
  <2>4. /\ \/ Parses(buf[p]) /\ pc'[p] = "decide"
           \/ ~Parses(buf[p]) /\ pc'[p] = "remove"
        /\ UNCHANGED <<buf, mine, nFetches>>
    BY <1>1, <1>4, <2>1 DEF ReadEnd, Goto, TypeInv, TypeOK, serverVars, readVars
  <2> QED
    BY <1>1, <2>3, <2>4 DEF MapInv
<1> QED
  BY <1>2, <1>3, <1>4 DEF Read

LEMMA MapInvLookup ==
  ASSUME ConstantsAssumption, NEW p, Procs = {p}, AllInv(p), TypeInv', [Next]_vars, Lookup(p)
  PROVE  MapInv(p)'
<1> USE DEF AllInv
<1>1. p \in Procs
  OBVIOUS
<1>2. CASE ServeFromCache(p)
  <2>1. pc'[p] = "work" /\ UNCHANGED <<mine, nFetches>>
    BY <1>1, <1>2 DEF ServeFromCache, Goto, TypeInv, TypeOK, serverVars
  <2> QED
    BY <1>1, <2>1, MapInvIdle
<1>3. CASE Miss(p)
  <2> DEFINE hosts == HostsOf(Contents)
  <2>1. /\ pc[p] = "decide" /\ buf[p] = Contents /\ hosts \in Seq(Entry)
        /\ Stored' = Stored
    BY <1>3, ContentsType, ContentsKept, StoredKept DEF Miss, MapInv
  <2>2. PICK s \in WithoutHost(hosts, run[p].host) : rest' = [rest EXCEPT ![p] = s]
    BY <1>3, <2>1 DEF Miss
  <2>3. /\ pc'[p] = "connect" /\ rest'[p] = s
        /\ UNCHANGED <<run, mine, fetch, nFetches>>
    BY <1>1, <1>3, <2>2 DEF Miss, Goto, TypeInv, TypeOK, serverVars
  <2>4. ASSUME NEW h \in Hosts \ {run[p].host} PROVE Sess(fetch, s, h) = Stored[h]
    <3>1. Stored[h] = Sess(fetch, hosts, h)
      BY StoredAre
    <3> HIDE DEF hosts
    <3>2. Sess(fetch, s, h) = Sess(fetch, hosts, h)
      BY <2>1, <2>2, SessWithout
    <3> QED
      BY <3>1, <3>2
  <2>5. Carried(p)'
    BY <2>1, <2>3, <2>4 DEF Carried
  <2> QED
    BY <2>3, <2>5 DEF MapInv
<1> QED
  BY <1>2, <1>3 DEF Lookup

LEMMA MapInvReflect ==
  ASSUME ConstantsAssumption, NEW p, Procs = {p}, AllInv(p), TypeInv', [Next]_vars, Reflect(p)
  PROVE  MapInv(p)'
<1> USE DEF AllInv
<1>1. p \in Procs /\ Stored' = Stored
  BY ContentsKept, StoredKept
<1>2. CASE Connect(p)
  <2>1. /\ pc[p] = "connect" /\ pc'[p] = "list" /\ mine'[p] = nFetches'
        /\ UNCHANGED <<run, rest>>
    BY <1>1, <1>2 DEF Connect, Goto, TypeInv, TypeOK, readVars
  <2>2. ASSUME NEW h PROVE Sess(fetch', rest[p], h) = Sess(fetch, rest[p], h)
    <3>1. OneEach(rest[p], fetch, nFetches)
      BY DEF UniqueInv, AllOne
    <3> QED
      BY <3>1, EntriesKept
  <2>3. Carried(p) => Carried(p)'
    BY <1>1, <2>1, <2>2 DEF Carried
  <2> QED
    BY <2>1, <2>3 DEF MapInv
<1>3. CASE ListServices(p)
  <2>1. /\ pc[p] = "list" /\ pc'[p] = "files"
        /\ UNCHANGED <<run, rest, fetch, nFetches, mine>>
    BY <1>1, <1>3 DEF ListServices, Goto, TypeInv, TypeOK, serverVars, readVars
  <2>2. Carried(p) => Carried(p)'
    BY <1>1, <2>1 DEF Carried
  <2> QED
    BY <2>1, <2>2 DEF MapInv
<1>4. CASE ServerFails(p)
  <2>1. pc'[p] \in Ended /\ mine'[p] = NoFetch /\ nFetches' = nFetches
    BY <1>1, <1>4 DEF ServerFails, End, Goto, Ended, TypeInv, TypeOK, serverVars
  <2> QED
    BY <1>1, <2>1, MapInvIdle
<1>5. CASE FetchFiles(p) /\ run[p].noCache
  <2>1. pc'[p] = "work" /\ UNCHANGED <<mine, nFetches>>
    BY <1>1, <1>5 DEF FetchFiles, Goto, TypeInv, TypeOK
  <2> QED
    BY <1>1, <2>1, MapInvIdle
<1>6. CASE FetchFiles(p) /\ ~run[p].noCache
  <2> DEFINE e == [head |-> mine[p], body |-> mine[p]]
             s == rest[p]
             hosts == Append(s, e)
             fe2 == fetch'
  <2>1. /\ pc[p] = "files" /\ mine[p] \in FetchId /\ mine[p] # NoFetch
        /\ s \in Seq(Entry) /\ e \in Entry /\ hosts \in Seq(Entry) /\ run[p].build \in Versions
    BY <1>1, <1>6, AppendProperties DEF FetchFiles, TypeInv, TypeOK, LocalInv, RunRec, Entry, FetchId, NoFetch
  <2>2. /\ pc'[p] = "openW" /\ out'[p] = Serialized(hosts, run[p].build)
        /\ UNCHANGED <<run, mine, nFetches>>
        /\ \A f \in FetchId : fe2[f].host = fetch[f].host
    <3>1. \A f \in FetchId : fe2[f].host = fetch[f].host
      BY <1>1, <1>6, StampedSession
    <3>2. /\ pc'[p] = "openW" /\ out'[p] = Serialized(hosts, run[p].build)
          /\ UNCHANGED <<run, mine, nFetches>>
      BY <1>1, <1>6 DEF FetchFiles, Goto, TypeInv, TypeOK
    <3> QED
      BY <3>1, <3>2
  <2>3. HostsOf(out'[p]) = hosts
    BY <2>1, <2>2, HostsOfSerialized
  <2>4. fe2[e.head].host = run[p].host /\ \A i \in 1 .. Len(s) : fe2[s[i].head].host # fe2[e.head].host
    <3>1. fe2[mine[p]].host = run[p].host
      BY <2>1, <2>2 DEF UniqueInv, Others
    <3>2. \A i \in 1 .. Len(s) : s[i].head \in FetchId
      <4>1. \A i \in 1 .. Len(s) : s[i] \in Entry
        BY <2>1, ElementOfSeq
      <4> QED
        BY <4>1 DEF Entry
    <3>3. \A i \in 1 .. Len(s) : fetch[s[i].head].host # run[p].host
      BY DEF UniqueInv, Others, HostOf
    <3> QED
      BY <2>2, <3>1, <3>2, <3>3
  <2>5. ASSUME NEW h PROVE Sess(fe2, s, h) = Sess(fetch, s, h)
    <3>1. OneEach(s, fetch, nFetches)
      BY DEF UniqueInv, AllOne
    <3> QED
      BY <3>1, EntriesKept
  <2>6. Carried(p)
    BY <1>6, <2>1 DEF MapInv
  <2>7. ASSUME NEW h \in Hosts
        PROVE  Sess(fe2, hosts, h) = IF h = run[p].host THEN {mine[p]} ELSE Stored[h]
    <3>1. Sess(fe2, hosts, h) = IF h = fe2[e.head].host THEN {e.head, e.body} ELSE Sess(fe2, s, h)
      <4> HIDE DEF s, e, fe2
      <4> QED
        BY <2>1, <2>4, SessAppend DEF hosts
    <3>2. h # run[p].host => Sess(fe2, s, h) = Stored[h]
      BY <2>5, <2>6 DEF Carried
    <3> HIDE DEF s, hosts, fe2
    <3> QED
      BY <2>4, <3>1, <3>2
  <2>8. AboutToWrite(p)'
    <3> HIDE DEF s, hosts
    <3> QED
      BY <1>1, <2>1, <2>2, <2>3, <2>7 DEF AboutToWrite
  <2> QED
    BY <2>2, <2>8 DEF MapInv
<1> QED
  BY <1>2, <1>3, <1>4, <1>5, <1>6 DEF Reflect

LEMMA MapInvRest ==
  ASSUME ConstantsAssumption, NEW p, Procs = {p}, AllInv(p),
         Start(p) \/ Write(p) \/ Close(p) \/ Crash(p)
  PROVE  MapInv(p)'
<1> USE DEF AllInv
<1>1. p \in Procs
  OBVIOUS
<1>2. CASE Start(p) /\ pc'[p] = "connect"
  <2>1. run'[p].noCache /\ UNCHANGED <<mine, nFetches>>
    BY <1>1, <1>2 DEF Start, Goto, TypeInv, TypeOK, serverVars
  <2> QED
    BY <1>2, <2>1 DEF MapInv
<1>3. CASE (Start(p) /\ pc'[p] = "open") \/ Write(p)
  <2>1. pc'[p] \in {"open", "write", "work"} /\ UNCHANGED <<mine, nFetches>>
    BY <1>1, <1>3 DEF Start, Write, OpenForWrite, WriteBlock, CloseFile, Goto, TypeInv, TypeOK, serverVars
  <2> QED
    BY <1>1, <2>1, MapInvIdle
<1>4. CASE Close(p) \/ Crash(p)
  <2>1. pc'[p] \in Ended \cup {"drop"} /\ mine'[p] \in {NoFetch, mine[p]} /\ nFetches' = nFetches
    BY <1>1, <1>4 DEF Close, CloseStream, RemoveInvalid, Crash, End, Goto, Ended, TypeInv, TypeOK, serverVars
  <2> QED
    BY <1>1, <2>1, MapInvIdle
<1>5. Start(p) => pc'[p] \in {"connect", "open"}
  BY <1>1 DEF Start, Goto, TypeInv, TypeOK
<1> QED
  BY <1>2, <1>3, <1>4, <1>5

LEMMA MapInvNext ==
  ASSUME ConstantsAssumption, NEW p, Procs = {p}, AllInv(p), TypeInv', [Next]_vars
  PROVE  MapInv(p)'
<1>1. CASE Start(p) \/ Step(p) \/ Crash(p)
  BY <1>1, MapInvRead, MapInvLookup, MapInvReflect, MapInvRest DEF Step
<1>2. CASE Tick \/ UNCHANGED vars
  <2>1. /\ Contents' = Contents /\ Stored' = Stored
        /\ UNCHANGED <<pc, buf, run, rest, fetch, nFetches, mine, out>>
    BY <1>2, ContentsKept, StoredKept DEF AllInv, Tick, vars, serverVars, readVars, writeVars
  <2> QED
    BY <2>1 DEF AllInv, MapInv, Carried, AboutToWrite
<1> QED
  BY <1>1, <1>2 DEF Next

----------------------------------------------------------------------------
(* The refinement.                                                         *)

ServedStored(p) == Served = {} \/ Served = Stored[run[p].host]

LEMMA ServedIsStored ==
  ASSUME NEW p, Procs = {p}, AllInv(p)
  PROVE  ServedStored(p)
<1> USE DEF AllInv
<1>1. p \in Procs /\ Place = p
  BY DEF Place
<1>2. CASE ~Serves(p)
  BY <1>1, <1>2 DEF Served, ServedStored
<1>3. CASE Serves(p)
  <2> DEFINE hosts == HostsOf(buf[p])
             h == run[p].host
             i == CHOOSE i \in 1 .. Len(hosts) : IsFirstFor(hosts, i, h)
  <2>1. pc[p] = "decide" /\ \E k \in 1 .. Len(hosts) : IsFirstFor(hosts, k, h)
    BY <1>3 DEF Serves, Hit, isValidHostEntry
  <2>2. i \in 1 .. Len(hosts) /\ fetch[hosts[i].head].host = h
    BY <2>1 DEF IsFirstFor, HostOf
  <2>3. ServedEntry(p) = hosts[i]
    BY DEF ServedEntry
  <2>4. hosts = HostsOf(Contents) /\ OneEach(hosts, fetch, nFetches)
    BY <2>1, ContentsType DEF MapInv
  <2>5. h \in Hosts
    BY <1>1 DEF TypeInv, TypeOK, RunRec
  <2>6. Stored[h] = Sess(fetch, hosts, h)
    BY <2>4, <2>5, StoredAre
  <2>7. Served = {hosts[i].head, hosts[i].body}
    BY <1>1, <1>3, <2>3 DEF Served
  <2> HIDE DEF hosts, h, i
  <2>8. \A k \in 1 .. Len(hosts) : fetch[hosts[k].head].host = h => k = i
    BY <2>2, <2>4 DEF OneEach
  <2>9. ASSUME NEW x PROVE x \in Sess(fetch, hosts, h) <=> x \in {hosts[i].head, hosts[i].body}
    BY <2>2, <2>8, SessElement
  <2> QED
    BY <2>6, <2>7, <2>9 DEF ServedStored, h
<1> QED
  BY <1>2, <1>3

LEMMA MapInit == ASSUME ConstantsAssumption, NEW p, Procs = {p}, Init PROVE Map!Init
<1>1. p \in Procs /\ Place = p
  BY DEF Place
<1>2. nFetches = 0 /\ dropped = {}
  BY DEF Init
<1>3. Contents = <<>>
  <2>1. path # NoFile => disk[path] = <<Hole>>
    BY DEF Init, Inode, ConstantsAssumption
  <2>2. ~Parses(<<Hole>>)
    <3>1. Len(<<Hole>>) = 1 /\ <<Hole>>[1].k = "hole"
      BY DEF Hole
    <3> QED
      BY <3>1 DEF Parses, KindAt
  <2>3. pc[p] = "idle"
    BY <1>1 DEF Init
  <2> QED
    BY <2>1, <2>2, <2>3, ContentsAre
<1>4. Stored = [h \in Hosts |-> {}]
  BY <1>3, StoredEmpty
<1>5. Served = {}
  BY <1>1 DEF Served, Serves, Init
<1> QED
  BY <1>2, <1>4, <1>5 DEF Map!Init, Map!Nothing

\* A step that changes none of the map's entries.
LEMMA MapQuiet ==
  ASSUME NEW p \in Procs, TypeInv', ServedStored(p)', UNCHANGED <<nFetches, dropped, Stored>>
  PROVE  [Map!Next]_(Map!vars)
<1>1. CASE Served' = {}
  BY <1>1 DEF Map!Next, Map!Return
<1>2. CASE Served' # {}
  <2>1. run'[p].host \in Hosts
    BY DEF TypeInv, TypeOK, RunRec
  <2>2. Served' = Stored'[run'[p].host]
    BY <1>2 DEF ServedStored
  <2>3. Map!Serve(run'[p].host)
    BY <2>2 DEF Map!Serve
  <2> QED
    BY <2>1, <2>3 DEF Map!Next
<1> QED
  BY <1>1, <1>2

\* The file is left as it is in the middle of a write.
LEMMA MapLose ==
  ASSUME ConstantsAssumption, NEW p, Procs = {p}, AllInv(p), pc[p] = "write",
         pc'[p] \notin {"write", "decide"}, UNCHANGED <<fileVars, serverVars, dropped>>
  PROVE  [Map!Next]_(Map!vars)
<1> USE DEF AllInv
<1>1. p \in Procs /\ Place = p
  BY DEF Place
<1> DEFINE c == IF path # NoFile /\ Parses(disk[path]) THEN disk[path] ELSE <<>>
           d == out[p]
<1>2. Contents = d /\ Contents' = c
  BY ContentsAre DEF fileVars
<1>3. /\ c \in Seq(Cell) /\ d \in Seq(Cell) /\ Parses(c) /\ Parses(d) /\ IsPrefixOf(c, d)
      /\ OneHead(d, fetch, nFetches)
  <2>1. d \in Seq(Cell) /\ Parses(d) /\ OneHead(d, fetch, nFetches)
    BY <1>2, ContentsType
  <2>2. path # NoFile => disk[path] \in Seq(Cell)
    BY DEF TypeInv, TypeOK
  <2>3. IsPrefixOf(disk[path], d)
    BY DEF SeqInv, OneFile
  <2>4. IsPrefixOf(<<>>, d)
    BY <2>1 DEF IsPrefixOf
  <2> QED
    BY <2>1, <2>2, <2>3, <2>4, EmptyParses
<1>4. /\ Stored = [h \in Hosts |-> Sess(fetch, HostsOf(d), h)]
      /\ Stored' = [h \in Hosts |-> Sess(fetch, HostsOf(c), h)]
  BY <1>2, StoredAre DEF serverVars
<1> HIDE DEF c, d
<1>5. \A h \in Hosts : \/ Sess(fetch, HostsOf(c), h) = {}
                       \/ Sess(fetch, HostsOf(c), h) = Sess(fetch, HostsOf(d), h)
  BY <1>3, SessPrefix
<1>6. PICK S \in SUBSET Hosts : S = {h \in Hosts : Sess(fetch, HostsOf(c), h) = {}}
  OBVIOUS
<1>7. Stored' = [h \in Hosts |-> IF h \in S THEN {} ELSE Stored[h]]
  BY <1>4, <1>5, <1>6
<1>8. Served = {} /\ Served' = {}
  BY <1>1 DEF Served, Serves
<1>9. Map!Lose
  BY <1>7, <1>8 DEF Map!Lose, serverVars
<1> QED
  BY <1>9 DEF Map!Next

LEMMA MapStep ==
  ASSUME ConstantsAssumption, NEW p, Procs = {p}, AllInv(p), TypeInv', ServedStored(p)', [Next]_vars
  PROVE  [Map!Next]_(Map!vars)
<1> USE DEF AllInv
<1>1. p \in Procs /\ Place = p
  BY DEF Place
<1>2. ASSUME pc[p] # "decide", pc'[p] # "decide" PROVE Served = {} /\ Served' = {}
  BY <1>1, <1>2 DEF Served, Serves
<1>3. CASE Connect(p)
  <2>1. /\ pc[p] = "connect" /\ pc'[p] = "list" /\ nFetches' = nFetches + 1 /\ dropped' = dropped
    BY <1>1, <1>3 DEF Connect, Goto, TypeInv, TypeOK
  <2>2. Stored' = Stored
    BY <1>3, ContentsKept, StoredKept DEF Reflect
  <2>3. Map!Begin
    BY <1>2, <2>1, <2>2 DEF Map!Begin
  <2> QED
    BY <2>3 DEF Map!Next
<1>4. CASE OpenForWrite(p)
  <2>1. /\ pc[p] = "openW" /\ pc'[p] = "write" /\ out'[p] = out[p]
        /\ UNCHANGED <<serverVars, dropped, run, mine>>
    BY <1>1, <1>4 DEF OpenForWrite, Goto, TypeInv, TypeOK, writeVars
  <2>2. AboutToWrite(p) /\ mine[p] = nFetches /\ nFetches \in Nat /\ nFetches > 0 /\ nFetches \notin dropped
    <3>1. AboutToWrite(p) /\ mine[p] # 0 /\ mine[p] = nFetches
      BY <2>1 DEF MapInv, AboutToWrite, NoFetch
    <3>2. mine[p] \notin dropped
      BY DEF SeqInv, Sessions
    <3>3. nFetches \in Nat
      BY DEF TypeInv, TypeOK
    <3> QED
      BY <3>1, <3>2, <3>3
  <2>3. Contents' = out[p]
    BY <2>1, ContentsAre
  <2>4. run[p].host \in Hosts
    BY <1>1 DEF TypeInv, TypeOK, RunRec
  <2>5. Stored' = [h \in Hosts |-> IF h = run[p].host THEN {nFetches} ELSE Stored[h]]
    BY <2>1, <2>2, <2>3, StoredAre DEF AboutToWrite, serverVars
  <2>6. Stored = [h \in Hosts |-> Stored[h]]
    BY StoredAre
  <2>7. Stored' = [Stored EXCEPT ![run[p].host] = {nFetches}]
    BY <2>5, <2>6
  <2>8. Map!Store(run[p].host)
    BY <1>2, <2>1, <2>2, <2>7 DEF Map!Store, serverVars
  <2> QED
    BY <2>4, <2>8 DEF Map!Next
<1>5. CASE CloseFile(p) \/ Crash(p)
  <2>1. /\ pc'[p] \in {"work", "killed"}
        /\ UNCHANGED <<fileVars, serverVars, dropped>>
    BY <1>1, <1>5 DEF CloseFile, Crash, End, Goto, TypeInv, TypeOK
  <2>2. CASE pc[p] = "write"
    BY <2>1, <2>2, MapLose
  <2>3. CASE pc[p] # "write"
    <3>1. Contents' = Contents
      BY <2>1, <2>3, ContentsAre DEF fileVars
    <3>2. Stored' = Stored
      BY <3>1, StoredKept
    <3> QED
      BY <1>1, <2>1, <3>2, MapQuiet DEF serverVars
  <2> QED
    BY <2>2, <2>3
<1>6. CASE RemoveInvalid(p)
  <2>1. /\ pc[p] = "drop" /\ pc'[p] = "done" /\ path' = NoFile /\ nFetches' = nFetches
        /\ dropped' = dropped \cup {mine[p]}
    BY <1>1, <1>6 DEF RemoveInvalid, End, Goto, TypeInv, TypeOK, serverVars
  <2>2. mine[p] = nFetches
    BY <1>1, <2>1 DEF MapInv, TypeInv, LocalInv, FetchId, NoFetch
  <2>3. Stored' = [h \in Hosts |-> {}]
    <3>1. Contents' = <<>>
      BY <2>1, ContentsAre
    <3> QED
      BY <3>1, StoredEmpty
  <2>4. Map!Invalidate
    BY <1>2, <2>1, <2>2, <2>3 DEF Map!Invalidate, Map!Nothing
  <2> QED
    BY <2>4 DEF Map!Next
<1>7. CASE \/ Start(p) \/ Read(p) \/ Lookup(p) \/ (Reflect(p) /\ ~Connect(p)) \/ CloseStream(p)
           \/ WriteBlock(p) \/ Tick \/ UNCHANGED vars
  <2>1. Stored' = Stored
    BY <1>7, ContentsKept, StoredKept
  <2>2. UNCHANGED <<nFetches, dropped>>
    BY <1>7 DEF Start, Read, Open, Missing, ReadBlock, ReadEnd, RemoveUnreadable, Lookup, ServeFromCache,
                Miss, Reflect, ListServices, ServerFails, FetchFiles, CloseStream, WriteBlock, Tick, vars,
                serverVars
  <2> QED
    BY <1>1, <2>1, <2>2, MapQuiet
<1> QED
  BY <1>3, <1>4, <1>5, <1>6, <1>7 DEF Next, Step, Write, Close

\* Invocations that follow one another see a map that is changed in one step:
\* what is served is what the last session for the host has stored and was not
\* invalidated, and a killed writer loses entries but never brings one back.
THEOREM SequentialMap ==
  ASSUME NEW p, Procs = {p}
  PROVE  Spec => ActsAsMap
<1> USE ConstantsAssumption
<1>1. Init => UniqueInv(p) /\ MapInv(p) /\ Map!Init
  BY UniqueInvInit, MapInvInit, MapInit
<1>2. AllInv(p) /\ (TypeInv /\ SeqInv(p))' /\ [Next]_vars => (UniqueInv(p) /\ MapInv(p))'
  BY UniqueInvNext, MapInvNext DEF AllInv
<1>3. TypeInv /\ SeqInv(p) /\ UniqueInv(p) /\ MapInv(p) <=> AllInv(p)
  BY DEF AllInv
<1>4. AllInv(p) => ServedStored(p)
  BY ServedIsStored
<1>5. AllInv(p) /\ TypeInv' /\ ServedStored(p)' /\ [Next]_vars => [Map!Next]_(Map!vars)
  BY MapStep
<1> QED
  BY <1>1, <1>2, <1>3, <1>4, <1>5, SeqInvariance, PTL DEF Spec, ActsAsMap, Map!Spec

----------------------------------------------------------------------------
(* Invocations that overlap, any number of them, killed anywhere, as long  *)
(* as a database with an entry for every host fits into one block:         *)
(* processes can truncate, overwrite and remove the file under each other, *)
(* but what they leave is either one database that was written as a whole, *)
(* or cannot be parsed.                                                    *)

FitsOneBlock == IsFiniteSet(Hosts) /\ 2 * Cardinality(Hosts) + 1 <= Block

\* A cell that can only be the last one of a database.
Terminated(c) == Len(c) > 0 => \E i \in 1 .. Len(c) : c[i].k \in {"ver", "hole"}

\* What is in a file or was read from one: of sessions fe, n of them.
Whole(c, fe, n) == Terminated(c) /\ (Parses(c) => Sound(c, {}) /\ OneHead(c, fe, n))

\* What is written.
Database(c, fe, n) ==
  /\ Parses(c) /\ Sound(c, {}) /\ OneHead(c, fe, n)
  /\ Len(c) <= Block /\ (Len(c) > 0 => c[Len(c)].k = "ver")

OnDisk == \A i \in Inode : Whole(disk[i], fetch, nFetches) /\ Len(disk[i]) <= Block

\* It is written at once.
Writes(p) ==
  /\ Database(out[p], fetch, nFetches)
  /\ pos[p] = 0 \/ (pc[p] = "write" /\ pos[p] = Len(out[p]))

Carries(p) ==
  /\ OneEach(rest[p], fetch, nFetches)
  /\ \A i \in 1 .. Len(rest[p]) : rest[p][i].head = rest[p][i].body
  /\ Others(p)
  /\ pc[p] \in {"list", "files"} => mine[p] \in 1 .. nFetches

Holds(p) == Whole(buf[p], fetch, nFetches) /\ Writes(p) /\ Carries(p)

OverlapInv == OnDisk /\ \A p \in Procs : Holds(p)

----------------------------------------------------------------------------
(* Files and databases.                                                    *)

LEMMA EmptyWhole ==
  ASSUME ConstantsAssumption, NEW fe, NEW n
  PROVE  Whole(<<>>, fe, n) /\ Database(<<>>, fe, n)
<1>1. Len(<<>>) = 0 /\ 0 <= Block
  BY DEF ConstantsAssumption
<1> QED
  BY <1>1, SoundEmpty, OneEmpty, EmptyParses DEF Whole, Terminated, Database

\* What was whole stays so when sessions begin.
LEMMA WholeKept ==
  ASSUME NEW fe, NEW n \in Nat, NEW fe2, NEW n2 \in Nat, n <= n2,
         \A f \in 1 .. n : fe2[f].host = fe[f].host
  PROVE  /\ \A c : Whole(c, fe, n) => Whole(c, fe2, n2)
         /\ \A c : Database(c, fe, n) => Database(c, fe2, n2)
         /\ \A s : OneEach(s, fe, n) => OneEach(s, fe2, n2)
<1>1. /\ \A c : OneHead(c, fe, n) => OneHead(c, fe2, n2)
      /\ \A s : OneEach(s, fe, n) => OneEach(s, fe2, n2)
  BY OneKept
<1> QED
  BY <1>1 DEF Whole, Database

\* A database that is written over whatever is in the file takes its place, or
\* leaves something behind it that does not parse.
LEMMA PutWhole ==
  ASSUME NEW c \in Seq(Cell), Len(c) <= Block, NEW d \in Seq(Cell), Len(d) > 0,
         NEW fe, NEW n, Database(d, fe, n)
  PROVE  Whole(Put(c, 0, d), fe, n) /\ Len(Put(c, 0, d)) <= Block
<1> DEFINE w == Put(c, 0, d)
           len == IF Len(d) > Len(c) THEN Len(d) ELSE Len(c)
<1>1. Len(c) \in Nat /\ Len(d) \in Nat /\ Len(d) <= Block
  BY DEF Database
<1>2. w \in Seq(Cell)
  BY PutType
<1>3. w = [j \in 1 .. len |-> IF j > 0 /\ j <= Len(d) THEN d[j] ELSE IF j <= Len(c) THEN c[j] ELSE Hole]
  BY <1>1 DEF Put
<1>4. Len(w) = len /\ \A j \in 1 .. Len(d) : j \in 1 .. len /\ w[j] = d[j]
  BY <1>1, <1>3
<1> HIDE DEF w
<1>5. Len(d) \in 1 .. Len(w) /\ w[Len(d)].k = "ver"
  BY <1>1, <1>4 DEF Database
<1>6. Terminated(w)
  BY <1>5 DEF Terminated
<1>7. ASSUME Parses(w) PROVE Sound(w, {}) /\ OneHead(w, fe, n)
  <2>1. w[Len(d)].k = KindAt(Len(d), Len(w))
    BY <1>5, <1>7 DEF Parses
  <2>2. Len(d) = Len(w)
    BY <1>5, <2>1 DEF KindAt
  <2>3. IsPrefixOf(w, d)
    BY <1>1, <1>4, <2>2 DEF IsPrefixOf
  <2> QED
    BY <1>2, <2>3, SoundPrefix, OnePrefix DEF Database
<1> QED
  BY <1>1, <1>4, <1>6, <1>7 DEF Whole, w

\* A file is read at once; what another process has written meanwhile does not
\* parse behind it.
LEMMA ReadWhole ==
  ASSUME ConstantsAssumption, NEW b \in Seq(Cell), NEW d \in Seq(Cell), Len(b) < Len(d), Len(d) <= Block,
         NEW fe, NEW n, Whole(b, fe, n), Whole(d, fe, n)
  PROVE  Whole(b \o NextBlock(d, Len(b)), fe, n)
<1> DEFINE cells == NextBlock(d, Len(b))
           w == b \o cells
<1>1. Len(b) \in Nat /\ Len(d) \in Nat /\ Block \in Nat /\ Block > 0
  BY DEF ConstantsAssumption
<1>2. /\ cells \in Seq(Cell)
      /\ Len(cells) = (IF Len(b) + Block > Len(d) THEN Len(d) ELSE Len(b) + Block) - Len(b)
      /\ \A i \in 1 .. Len(cells) : cells[i] = d[Len(b) + i]
  BY <1>1, NextBlockType
<1>3. Len(cells) \in Nat /\ Len(cells) > 0 /\ (Len(b) = 0 => Len(cells) = Len(d))
  BY <1>1, <1>2
<1> HIDE DEF cells
<1>4. /\ w \in Seq(Cell) /\ Len(w) = Len(b) + Len(cells)
      /\ \A i \in 1 .. Len(b) + Len(cells) : w[i] = IF i <= Len(b) THEN b[i] ELSE cells[i - Len(b)]
  BY <1>2, ConcatProperties
<1> HIDE DEF w
<1>5. CASE Len(b) = 0
  <2>1. Len(w) = Len(d) /\ \A i \in 1 .. Len(w) : w[i] = d[i]
    BY <1>1, <1>2, <1>3, <1>4, <1>5
  <2>2. w = d
    BY <1>4, <2>1, SeqEqual
  <2> QED
    BY <2>2 DEF w, cells
<1>6. CASE Len(b) > 0
  <2>1. PICK i \in 1 .. Len(b) : b[i].k \in {"ver", "hole"}
    BY <1>6 DEF Whole, Terminated
  <2>2. i \in 1 .. Len(w) /\ i # Len(w) /\ w[i] = b[i]
    BY <1>1, <1>3, <1>4
  <2>3. ~Parses(w)
    BY <2>1, <2>2 DEF Parses, KindAt
  <2>4. Terminated(w)
    BY <2>1, <2>2 DEF Terminated
  <2> QED
    BY <2>3, <2>4 DEF Whole, w, cells
<1> QED
  BY <1>1, <1>5, <1>6

\* Entries of different hosts are at most as many as hosts.
LEMMA EntriesFit ==
  ASSUME ConstantsAssumption, FitsOneBlock, TypeInv, NEW hosts \in Seq(Entry), OneEach(hosts, fetch, nFetches)
  PROVE  2 * Len(hosts) + 1 <= Block
<1> DEFINE n == Len(hosts)
           f == [i \in 1 .. n |-> fetch[hosts[i].head].host]
<1>1. ASSUME NEW i \in 1 .. n PROVE f[i] \in Hosts
  <2>1. hosts[i] \in Entry
    OBVIOUS
  <2>2. hosts[i].head \in FetchId
    BY <2>1 DEF Entry
  <2>3. fetch[hosts[i].head] \in FetchRec
    BY <2>2 DEF TypeInv, TypeOK
  <2> QED
    BY <2>3 DEF FetchRec
<1>2. \A i, j \in 1 .. n : f[i] = f[j] => i = j
  BY DEF OneEach
<1>3. f \in Injection(1 .. n, Hosts)
  <2> HIDE DEF f
  <2>1. f \in [1 .. n -> Hosts]
    BY <1>1 DEF f
  <2> QED
    BY <1>2, <2>1 DEF Injection, IsInjective
<1>4. IsFiniteSet(Hosts) /\ 2 * Cardinality(Hosts) + 1 <= Block
  BY DEF FitsOneBlock
<1>5. Cardinality(1 .. n) <= Cardinality(Hosts)
  <2> HIDE DEF f, n
  <2>1. IsFiniteSet(Hosts) /\ f \in Injection(1 .. n, Hosts)
    BY <1>3, <1>4
  <2> QED
    BY ONLY <2>1, FS_Injection
<1>6. n \in Nat /\ Cardinality(1 .. n) = n
  <2>1. n \in Nat
    OBVIOUS
  <2> HIDE DEF n
  <2>2. Cardinality(1 .. n) = IF 1 > n THEN 0 ELSE n - 1 + 1
    BY <2>1, FS_Interval
  <2> QED
    BY <2>1, <2>2
<1>7. Cardinality(Hosts) \in Nat
  BY <1>4, FS_CardinalityType
<1>8. Block \in Nat
  BY DEF ConstantsAssumption
<1> QED
  BY <1>4, <1>5, <1>6, <1>7, <1>8

LEMMA SerializedDatabase ==
  ASSUME ConstantsAssumption, FitsOneBlock, TypeInv, NEW hosts \in Seq(Entry), NEW v \in Versions,
         OneEach(hosts, fetch, nFetches), \A i \in 1 .. Len(hosts) : hosts[i].head = hosts[i].body
  PROVE  Database(Serialized(hosts, v), fetch, nFetches)
<1> DEFINE c == Serialized(hosts, v)
           m == 2 * Len(hosts) + 1
<1>1. m \in 1 .. m /\ m <= Block /\ m % 2 # 0
  BY EntriesFit
<1>2. Len(c) = m /\ c[m].k = "ver"
  BY <1>1, SerializedCells DEF KindAt
<1>3. Sound(c, {})
  BY SoundSerialized
<1>4. OneHead(c, fetch, nFetches) /\ Parses(c)
  BY OneSerialized
<1> HIDE DEF c, m
<1> QED
  BY <1>1, <1>2, <1>3, <1>4 DEF Database, c

----------------------------------------------------------------------------
(* The invariant, action by action.                                        *)

LEMMA OverlapInvInit == ASSUME ConstantsAssumption, Init PROVE OverlapInv
<1>1. Block \in Nat /\ Block > 0
  BY DEF ConstantsAssumption
<1>2. Whole(<<Hole>>, fetch, nFetches) /\ Len(<<Hole>>) <= Block
  <2>1. Len(<<Hole>>) = 1 /\ <<Hole>>[1].k = "hole" /\ 1 \in 1 .. 1
    BY DEF Hole
  <2>2. ~Parses(<<Hole>>)
    BY <2>1 DEF Parses, KindAt
  <2>3. Terminated(<<Hole>>)
    BY <2>1 DEF Terminated
  <2> QED
    BY <1>1, <2>1, <2>2, <2>3 DEF Whole
<1>3. Whole(<<>>, fetch, nFetches) /\ Len(<<>>) <= Block
  BY <1>1, EmptyWhole
<1>4. \A i \in Inode : disk[i] = <<Hole>> \/ disk[i] = <<>>
  BY DEF Init
<1>5. OnDisk
  BY <1>2, <1>3, <1>4 DEF OnDisk
<1>6. ASSUME NEW p \in Procs PROVE Holds(p)
  <2>1. pc[p] = "idle" /\ buf[p] = <<>> /\ rest[p] = <<>> /\ out[p] = <<>> /\ pos[p] = 0
    BY DEF Init
  <2>2. Whole(buf[p], fetch, nFetches) /\ Writes(p)
    BY <2>1, EmptyWhole DEF Writes
  <2>3. Carries(p)
    BY <2>1, OneEmpty DEF Carries, Others
  <2> QED
    BY <2>2, <2>3 DEF Holds
<1> QED
  BY <1>5, <1>6 DEF OverlapInv

\* Most steps of a process only forget.
Forgets(p) ==
  /\ UNCHANGED serverVars
  /\ buf'[p] \in {buf[p], <<>>} /\ out'[p] \in {out[p], <<>>} /\ pos'[p] = 0
  /\ rest'[p] = <<>> \/ (rest'[p] = rest[p] /\ run'[p] = run[p] /\ pc'[p] \notin Ended)
  /\ pc'[p] \in {"list", "files"} =>
       pc[p] \in {"list", "files"} /\ mine'[p] = mine[p] /\ run'[p] = run[p]

LEMMA HoldsForgets ==
  ASSUME ConstantsAssumption, NEW p \in Procs, Holds(p), Forgets(p)
  PROVE  Holds(p)'
<1>1. Whole(<<>>, fetch, nFetches) /\ Database(<<>>, fetch, nFetches) /\ OneEach(<<>>, fetch, nFetches)
  BY EmptyWhole, OneEmpty
<1>2. Whole(buf[p], fetch, nFetches)' /\ Writes(p)'
  BY <1>1 DEF Holds, Writes, Forgets, serverVars
<1>3. fetch' = fetch /\ nFetches' = nFetches
  BY DEF Forgets, serverVars
<1>4. pc'[p] \in {"list", "files"} =>
        mine'[p] \in 1 .. nFetches' /\ fetch'[mine'[p]].host = run'[p].host
  <2>1. pc[p] \in {"list", "files"} =>
          mine[p] \in 1 .. nFetches /\ fetch[mine[p]].host = run[p].host
    BY DEF Holds, Carries, Others
  <2> QED
    BY <1>3, <2>1 DEF Forgets
<1>5. ASSUME rest'[p] = <<>> PROVE Carries(p)'
  <2>1. OneEach(rest'[p], fetch', nFetches') /\ Len(rest'[p]) = 0
    BY <1>1, <1>3, <1>5
  <2>2. \A i \in 1 .. Len(rest'[p]) : FALSE
    BY <2>1
  <2> QED
    BY <1>4, <1>5, <2>1, <2>2 DEF Carries, Others
<1>6. ASSUME rest'[p] = rest[p], run'[p] = run[p], pc'[p] \notin Ended PROVE Carries(p)'
  <2>1. /\ OneEach(rest[p], fetch, nFetches)
        /\ \A i \in 1 .. Len(rest[p]) : rest[p][i].head = rest[p][i].body
        /\ \A i \in 1 .. Len(rest[p]) : fetch[rest[p][i].head].host # run[p].host
    BY DEF Holds, Carries, Others, HostOf
  <2>2. OneEach(rest'[p], fetch', nFetches')
    BY <1>3, <1>6, <2>1
  <2>3. \A i \in 1 .. Len(rest'[p]) : rest'[p][i].head = rest'[p][i].body
    BY <1>6, <2>1
  <2>4. \A i \in 1 .. Len(rest'[p]) : fetch'[rest'[p][i].head].host # run'[p].host
    BY <1>3, <1>6, <2>1
  <2> QED
    BY <1>4, <1>6, <2>2, <2>3, <2>4 DEF Carries, Others, HostOf
<1> QED
  BY <1>2, <1>5, <1>6 DEF Holds, Forgets

\* What a process has is not touched by the steps of others.
LEMMA OwnSteps ==
  ASSUME TypeInv, NEW p \in Procs, Start(p) \/ Step(p) \/ Crash(p), NEW q \in Procs, q # p
  PROVE  UNCHANGED <<pc[q], run[q], buf[q], rest[q], mine[q], out[q], pos[q]>>
<1> USE DEF TypeInv, TypeOK, readVars, writeVars
<1>1. ASSUME NEW l, End(p, l) PROVE UNCHANGED <<pc[q], run[q], buf[q], rest[q], mine[q], out[q], pos[q]>>
  BY <1>1 DEF End, Goto
<1>2. ASSUME NEW l, Goto(p, l) PROVE pc'[q] = pc[q]
  BY <1>2 DEF Goto
<1>3. CASE Start(p)
  BY <1>2, <1>3 DEF Start
<1>4. CASE Read(p)
  BY <1>1, <1>2, <1>4 DEF Read, Open, Missing, ReadBlock, ReadEnd, RemoveUnreadable
<1>5. CASE Lookup(p)
  BY <1>2, <1>5 DEF Lookup, ServeFromCache, Miss
<1>6. CASE Reflect(p)
  BY <1>1, <1>2, <1>6 DEF Reflect, Connect, ListServices, ServerFails, FetchFiles
<1>7. CASE Write(p)
  BY <1>2, <1>7 DEF Write, OpenForWrite, WriteBlock, CloseFile
<1>8. CASE Close(p) \/ Crash(p)
  BY <1>1, <1>2, <1>8 DEF Close, CloseStream, RemoveInvalid, Crash
<1> QED
  BY <1>3, <1>4, <1>5, <1>6, <1>7, <1>8 DEF Step

LEMMA HoldsOther ==
  ASSUME ConstantsAssumption, TypeInv, TypeInv', [Next]_vars, NEW q \in Procs, Holds(q),
         UNCHANGED <<pc[q], run[q], buf[q], rest[q], mine[q], out[q], pos[q]>>
  PROVE  Holds(q)'
<1>1. /\ nFetches \in Nat /\ nFetches' \in Nat /\ nFetches <= nFetches'
      /\ \A f \in 1 .. nFetches : fetch'[f].host = fetch[f].host
  <2>1. nFetches \in Nat /\ nFetches' \in Nat
    BY DEF TypeInv, TypeOK
  <2> QED
    BY <2>1, SessionHosts
<1>2. /\ \A c : Whole(c, fetch, nFetches) => Whole(c, fetch', nFetches')
      /\ \A c : Database(c, fetch, nFetches) => Database(c, fetch', nFetches')
      /\ \A s : OneEach(s, fetch, nFetches) => OneEach(s, fetch', nFetches')
  BY <1>1, WholeKept
<1>3. Whole(buf[q], fetch, nFetches)' /\ Writes(q)'
  BY <1>2 DEF Holds, Writes
<1>4. \A i \in 1 .. Len(rest[q]) : rest[q][i].head \in 1 .. nFetches
  BY DEF Holds, Carries, OneEach
<1>5. Others(q)'
  <2>1. Others(q) /\ (pc[q] \in {"list", "files"} => mine[q] \in 1 .. nFetches)
    BY DEF Holds, Carries
  <2>2. ASSUME NEW i \in 1 .. Len(rest[q]) PROVE fetch'[rest[q][i].head].host # run[q].host
    BY <1>1, <1>4, <2>1 DEF Others, HostOf
  <2>3. pc[q] \in {"list", "files"} => fetch'[mine[q]].host = run[q].host
    BY <1>1, <2>1 DEF Others
  <2>4. pc[q] \in Ended => rest[q] = <<>>
    BY <2>1 DEF Others
  <2> QED
    BY <2>2, <2>3, <2>4 DEF Others, HostOf
<1>6. Carries(q)'
  BY <1>1, <1>2, <1>5 DEF Holds, Carries
<1> QED
  BY <1>3, <1>6 DEF Holds

\* Only an open for writing and a write change what is on disk.
LEMMA OnDiskKept ==
  ASSUME ConstantsAssumption, TypeInv, TypeInv', [Next]_vars, OnDisk, disk' = disk
  PROVE  OnDisk'
<1>1. /\ nFetches \in Nat /\ nFetches' \in Nat /\ nFetches <= nFetches'
      /\ \A f \in 1 .. nFetches : fetch'[f].host = fetch[f].host
  <2>1. nFetches \in Nat /\ nFetches' \in Nat
    BY DEF TypeInv, TypeOK
  <2> QED
    BY <2>1, SessionHosts
<1>2. \A c : Whole(c, fetch, nFetches) => Whole(c, fetch', nFetches')
  BY <1>1, WholeKept
<1> QED
  BY <1>2 DEF OnDisk

LEMMA StepForgets ==
  ASSUME TypeInv, NEW p \in Procs, Holds(p),
         \/ Start(p) \/ Open(p) \/ Missing(p) \/ ReadEnd(p) \/ RemoveUnreadable(p)
         \/ ServeFromCache(p) \/ ListServices(p) \/ ServerFails(p)
         \/ OpenForWrite(p) \/ CloseFile(p) \/ Close(p) \/ Crash(p)
  PROVE  Forgets(p)
<1>1. /\ pc[p] # "write" => pos[p] = 0
      /\ pc[p] \in Ended => rest[p] = <<>>
  BY DEF Holds, Writes, Carries, Others
<1>2. ASSUME NEW l \in Ended, End(p, l), UNCHANGED serverVars PROVE Forgets(p)
  <2>1. pc'[p] = l /\ buf'[p] = <<>> /\ out'[p] = <<>> /\ pos'[p] = 0 /\ rest'[p] = <<>>
    BY <1>2 DEF End, Goto, TypeInv, TypeOK
  <2> QED
    BY <1>2, <2>1 DEF Forgets, Ended
<1>3. ASSUME NEW l \in Running \ {"list", "files"}, Goto(p, l), pc[p] # "write",
             buf' \in {buf, [buf EXCEPT ![p] = <<>>]}, UNCHANGED <<serverVars, run, rest, writeVars>>
      PROVE  Forgets(p)
  <2>1. /\ pc'[p] = l /\ l \notin Ended /\ l \notin {"list", "files"}
        /\ buf'[p] \in {buf[p], <<>>} /\ UNCHANGED <<run, rest, out, pos>>
    BY <1>3 DEF Goto, TypeInv, TypeOK, Running, Ended, writeVars
  <2> QED
    BY <1>1, <1>3, <2>1 DEF Forgets
<1>4. CASE Start(p)
  <2>1. pc[p] \in Ended /\ pc'[p] \in {"open", "connect"} /\ UNCHANGED <<serverVars, readVars, writeVars>>
    BY <1>4 DEF Start, Goto, TypeInv, TypeOK
  <2> QED
    BY <1>1, <2>1 DEF Forgets, Ended, readVars, writeVars
<1>5. CASE Open(p) \/ RemoveUnreadable(p) \/ ServeFromCache(p) \/ OpenForWrite(p)
  BY <1>3, <1>5 DEF Open, RemoveUnreadable, ServeFromCache, OpenForWrite, Running, readVars
<1>6. CASE Missing(p)
  BY <1>2, <1>3, <1>6 DEF Missing, Running, Ended, readVars
<1>7. CASE ReadEnd(p)
  BY <1>2, <1>3, <1>7 DEF ReadEnd, Running, Ended, readVars
<1>8. CASE ServerFails(p) \/ Crash(p)
  BY <1>2, <1>8 DEF ServerFails, Crash, Ended
<1>9. CASE Close(p)
  BY <1>2, <1>3, <1>9 DEF Close, CloseStream, RemoveInvalid, Running, Ended, readVars
<1>10. CASE ListServices(p)
  <2>1. pc[p] = "list" /\ pc'[p] = "files" /\ UNCHANGED <<serverVars, run, readVars, mine, writeVars>>
    BY <1>10 DEF ListServices, Goto, TypeInv, TypeOK
  <2> QED
    BY <1>1, <2>1 DEF Forgets, Ended, readVars, writeVars
<1>11. CASE CloseFile(p)
  <2>1. pc'[p] = "work" /\ out'[p] = <<>> /\ pos'[p] = 0 /\ UNCHANGED <<serverVars, run, readVars, mine>>
    BY <1>11 DEF CloseFile, Goto, TypeInv, TypeOK
  <2> QED
    BY <2>1 DEF Forgets, Ended, readVars
<1> QED
  BY <1>4, <1>5, <1>6, <1>7, <1>8, <1>9, <1>10, <1>11

LEMMA HoldsReadBlock ==
  ASSUME ConstantsAssumption, TypeInv, NEW p \in Procs, Holds(p), OnDisk, ReadBlock(p)
  PROVE  Holds(p)'
<1> DEFINE d == disk[fd[p]]
           b == buf[p]
<1>1. d \in Seq(Cell) /\ b \in Seq(Cell) /\ Len(b) < Len(d) /\ fd[p] \in Inode
  BY DEF ReadBlock, TypeInv, TypeOK, LocalInv
<1>2. Whole(d, fetch, nFetches) /\ Len(d) <= Block /\ Whole(b, fetch, nFetches)
  BY <1>1 DEF OnDisk, Holds
<1>3. Whole(b \o NextBlock(d, Len(b)), fetch, nFetches)
  BY <1>1, <1>2, ReadWhole
<1>4. buf'[p] = b \o NextBlock(d, Len(b)) /\ UNCHANGED <<serverVars, pc, run, rest, mine, writeVars>>
  BY DEF ReadBlock, TypeInv, TypeOK
<1> HIDE DEF b, d
<1>5. Whole(buf[p], fetch, nFetches)'
  BY <1>3, <1>4 DEF serverVars
<1>6. Writes(p)' /\ Carries(p)'
  BY <1>4 DEF Holds, Writes, Carries, Others, HostOf, serverVars, writeVars
<1> QED
  BY <1>5, <1>6 DEF Holds

LEMMA HoldsMiss ==
  ASSUME ConstantsAssumption, TypeInv, NEW p \in Procs, Holds(p), Miss(p)
  PROVE  Holds(p)'
<1> DEFINE hosts == HostsOf(buf[p])
<1>1. /\ buf[p] \in Seq(Cell) /\ Parses(buf[p])
      /\ Sound(buf[p], {}) /\ OneHead(buf[p], fetch, nFetches)
  BY DEF Miss, TypeInv, TypeOK, LocalInv, Holds, Whole
<1>2. hosts \in Seq(Entry) /\ OneEach(hosts, fetch, nFetches)
  BY <1>1, HostsOfType, OneOfFile
<1>3. \A j \in 1 .. Len(hosts) : hosts[j].head = hosts[j].body
  BY <1>1, SoundEntries
<1>4. PICK s \in WithoutHost(hosts, run[p].host) : rest' = [rest EXCEPT ![p] = s]
  BY DEF Miss
<1>5. /\ pc[p] = "decide" /\ pc'[p] = "connect" /\ buf'[p] = <<>> /\ rest'[p] = s
      /\ UNCHANGED <<serverVars, run, mine, writeVars>>
  BY <1>4 DEF Miss, Goto, TypeInv, TypeOK
<1> HIDE DEF hosts
<1>6. OneEach(s, fetch, nFetches) /\ \A i \in 1 .. Len(s) : HostOf(s[i]) # run[p].host
  BY <1>2, <1>4, OneWithout
<1>7. \A i \in 1 .. Len(s) : \E j \in 1 .. Len(hosts) : s[i] = hosts[j]
  BY <1>2, <1>4, WithoutHostType
<1>8. \A i \in 1 .. Len(s) : s[i].head = s[i].body
  BY <1>3, <1>7
<1>9. Whole(buf[p], fetch, nFetches)' /\ Writes(p)'
  BY <1>5, EmptyWhole DEF Holds, Writes, serverVars, writeVars
<1>10. Carries(p)'
  BY <1>5, <1>6, <1>8 DEF Carries, Others, HostOf, Ended, serverVars
<1> QED
  BY <1>9, <1>10 DEF Holds

LEMMA HoldsConnect ==
  ASSUME ConstantsAssumption, TypeInv, TypeInv', NEW p \in Procs, Holds(p), Connect(p), [Next]_vars
  PROVE  Holds(p)'
<1>1. /\ nFetches \in Nat /\ nFetches' = nFetches + 1 /\ nFetches' \in 1 .. nFetches'
      /\ pc[p] = "connect" /\ pc'[p] = "list" /\ mine'[p] = nFetches'
      /\ fetch'[nFetches'].host = run[p].host
      /\ UNCHANGED <<run, readVars, writeVars>>
  BY DEF Connect, Goto, TypeInv, TypeOK, FetchId
<1>2. nFetches <= nFetches' /\ \A f \in 1 .. nFetches : fetch'[f].host = fetch[f].host
  BY SessionHosts
<1>3. /\ \A c : Whole(c, fetch, nFetches) => Whole(c, fetch', nFetches')
      /\ \A c : Database(c, fetch, nFetches) => Database(c, fetch', nFetches')
      /\ \A s : OneEach(s, fetch, nFetches) => OneEach(s, fetch', nFetches')
  <2>1. nFetches \in Nat /\ nFetches' \in Nat
    BY <1>1
  <2> QED
    BY <1>2, <2>1, WholeKept
<1>4. Whole(buf[p], fetch, nFetches)' /\ Writes(p)'
  BY <1>1, <1>3 DEF Holds, Writes, readVars, writeVars
<1>5. ASSUME NEW i \in 1 .. Len(rest[p]) PROVE fetch'[rest[p][i].head].host # run[p].host
  <2>1. rest[p][i].head \in 1 .. nFetches
    BY DEF Holds, Carries, OneEach
  <2> QED
    BY <1>2, <2>1 DEF Holds, Carries, Others, HostOf
<1>6. Others(p)'
  BY <1>1, <1>5 DEF Others, HostOf, Ended, readVars
<1>7. Carries(p)'
  BY <1>1, <1>3, <1>6 DEF Holds, Carries, readVars
<1> QED
  BY <1>4, <1>7 DEF Holds

LEMMA HoldsFetchFiles ==
  ASSUME ConstantsAssumption, FitsOneBlock, TypeInv, TypeInv', NEW p \in Procs, Holds(p),
         FetchFiles(p), [Next]_vars
  PROVE  Holds(p)'
<1> DEFINE e == [head |-> mine[p], body |-> mine[p]]
           hosts == Append(rest[p], e)
           db == Serialized(hosts, run[p].build)
<1>1. /\ pc[p] = "files" /\ mine[p] \in 1 .. nFetches /\ fetch[mine[p]].host = run[p].host
      /\ \A i \in 1 .. Len(rest[p]) : HostOf(rest[p][i]) # run[p].host
      /\ \A i \in 1 .. Len(rest[p]) : rest[p][i].head = rest[p][i].body
      /\ OneEach(rest[p], fetch, nFetches)
  BY DEF FetchFiles, Holds, Carries, Others
<1>2. mine[p] \in FetchId /\ rest[p] \in Seq(Entry) /\ run[p].build \in Versions /\ Len(rest[p]) \in Nat
  <2>1. mine[p] \in FetchId
    BY <1>1 DEF TypeInv, LocalInv
  <2>2. run[p] \in RunRec
    BY DEF TypeInv, TypeOK
  <2>3. rest[p] \in Seq(Entry)
    BY DEF TypeInv, TypeOK
  <2> QED
    BY <2>1, <2>2, <2>3 DEF RunRec
<1>3. e \in Entry
  BY <1>2 DEF Entry
<1>4. /\ hosts \in Seq(Entry) /\ Len(hosts) = Len(rest[p]) + 1 /\ hosts[Len(rest[p]) + 1] = e
      /\ \A i \in 1 .. Len(rest[p]) : hosts[i] = rest[p][i]
  BY <1>2, <1>3, AppendProperties
<1>5. e.head = mine[p] /\ e.body = mine[p]
  OBVIOUS
<1>6. /\ pc'[p] \in {"work", "openW"} /\ rest'[p] = <<>>
      /\ out'[p] \in {out[p], db} /\ UNCHANGED <<nFetches, buf, pos>>
  BY DEF FetchFiles, Goto, TypeInv, TypeOK
<1> HIDE DEF e, hosts, db
<1>7. ASSUME NEW i \in 1 .. Len(hosts)
      PROVE  \/ /\ i \in 1 .. Len(rest[p]) /\ hosts[i] = rest[p][i]
                /\ fetch[hosts[i].head].host # run[p].host
             \/ i = Len(rest[p]) + 1 /\ hosts[i] = e /\ fetch[hosts[i].head].host = run[p].host
  <2>1. CASE i \in 1 .. Len(rest[p])
    <3>1. hosts[i] = rest[p][i]
      BY <1>4, <2>1
    <3> QED
      BY <1>1, <2>1, <3>1 DEF HostOf
  <2>2. CASE i = Len(rest[p]) + 1
    BY <1>1, <1>4, <1>5, <2>2
  <2> QED
    BY <1>2, <1>4, <2>1, <2>2
<1>8. OneEach(hosts, fetch, nFetches)
  <2>1. \A i \in 1 .. Len(hosts) : hosts[i].head \in 1 .. nFetches
    BY <1>1, <1>5, <1>7 DEF OneEach
  <2>2. \A i, j \in 1 .. Len(hosts) : fetch[hosts[i].head].host = fetch[hosts[j].head].host => i = j
    BY <1>1, <1>7 DEF OneEach
  <2> QED
    BY <2>1, <2>2 DEF OneEach
<1>9. \A i \in 1 .. Len(hosts) : hosts[i].head = hosts[i].body
  BY <1>1, <1>5, <1>7
<1>10. Database(db, fetch, nFetches)
  BY <1>2, <1>4, <1>8, <1>9, SerializedDatabase DEF db
<1>11. /\ \A c : Whole(c, fetch, nFetches) => Whole(c, fetch', nFetches')
       /\ \A c : Database(c, fetch, nFetches) => Database(c, fetch', nFetches')
  <2>1. nFetches \in Nat /\ nFetches' \in Nat
    BY DEF TypeInv, TypeOK
  <2>2. nFetches <= nFetches' /\ \A f \in 1 .. nFetches : fetch'[f].host = fetch[f].host
    BY SessionHosts
  <2> QED
    BY <2>1, <2>2, WholeKept
<1>12. Whole(buf[p], fetch, nFetches)' /\ Writes(p)'
  BY <1>1, <1>6, <1>10, <1>11 DEF Holds, Writes
<1>13. Carries(p)'
  BY <1>6, OneEmpty DEF Carries, Others, Ended
<1> QED
  BY <1>12, <1>13 DEF Holds

LEMMA WriteAtOnce ==
  ASSUME ConstantsAssumption, TypeInv, NEW p \in Procs, Holds(p), OnDisk, WriteBlock(p)
  PROVE  Holds(p)' /\ OnDisk'
<1> DEFINE d == out[p]
           i == fd[p]
           w == Put(disk[i], 0, d)
<1>1. /\ pc[p] = "write" /\ pos[p] = 0 /\ Len(d) > 0 /\ Len(d) <= Block
      /\ Database(d, fetch, nFetches)
  BY DEF WriteBlock, Holds, Writes, Database
<1>2. d \in Seq(Cell) /\ i \in Inode /\ disk[i] \in Seq(Cell) /\ Block \in Nat
  BY <1>1 DEF TypeInv, TypeOK, LocalInv, ConstantsAssumption
<1>3. NextBlock(d, 0) = d
  <2>1. /\ NextBlock(d, 0) \in Seq(Cell) /\ Len(NextBlock(d, 0)) = Len(d)
        /\ \A k \in 1 .. Len(NextBlock(d, 0)) : NextBlock(d, 0)[k] = d[0 + k]
    BY <1>1, <1>2, NextBlockType
  <2>2. \A k \in 1 .. Len(NextBlock(d, 0)) : NextBlock(d, 0)[k] = d[k]
    BY <2>1
  <2> QED
    BY <1>2, <2>1, <2>2, SeqEqual
<1>4. /\ disk' = [disk EXCEPT ![i] = w] /\ pos'[p] = Len(d)
      /\ UNCHANGED <<serverVars, pc, run, readVars, mine, out>>
  <2> DEFINE cells == NextBlock(d, pos[p])
  <2>1. /\ disk' = [disk EXCEPT ![i] = Put(disk[i], pos[p], cells)]
        /\ pos' = [pos EXCEPT ![p] = pos[p] + Len(cells)]
        /\ UNCHANGED <<serverVars, pc, run, readVars, mine, out>>
    BY DEF WriteBlock
  <2>2. cells = d
    BY <1>1, <1>3
  <2>3. pos \in [Procs -> Nat] /\ Len(d) \in Nat
    BY <1>2 DEF TypeInv, TypeOK
  <2> HIDE DEF cells, d, i
  <2>4. pos'[p] = 0 + Len(d)
    BY <1>1, <2>1, <2>2, <2>3
  <2> QED
    BY <1>1, <2>1, <2>2, <2>3, <2>4
<1>5. Whole(w, fetch, nFetches) /\ Len(w) <= Block
  <2>1. Len(disk[i]) <= Block
    BY <1>2 DEF OnDisk
  <2> QED
    BY <1>1, <1>2, <2>1, PutWhole
<1> HIDE DEF w, d, i
<1>6. OnDisk'
  BY <1>2, <1>4, <1>5 DEF OnDisk, serverVars, TypeInv, TypeOK
<1>7. Whole(buf[p], fetch, nFetches)' /\ Writes(p)'
  BY <1>1, <1>4 DEF Holds, Writes, readVars, serverVars, d
<1>8. Carries(p)'
  BY <1>4 DEF Holds, Carries, Others, HostOf, readVars, serverVars
<1> QED
  BY <1>6, <1>7, <1>8 DEF Holds

\* OverlapInv is an invariant of any number of processes.
LEMMA OverlapInvNext ==
  ASSUME ConstantsAssumption, FitsOneBlock, TypeInv, TypeInv', OverlapInv, [Next]_vars
  PROVE  OverlapInv'
<1>1. OnDisk /\ \A p \in Procs : Holds(p)
  BY DEF OverlapInv
<1>2. ASSUME NEW p \in Procs, Start(p) \/ Step(p) \/ Crash(p)
      PROVE  Holds(p)' /\ OnDisk'
  <2>1. CASE WriteBlock(p)
    BY <1>1, <2>1, WriteAtOnce
  <2>2. CASE ~WriteBlock(p)
    <3>1. Holds(p)'
      <4>1. \/ Start(p) \/ Open(p) \/ Missing(p) \/ ReadEnd(p) \/ RemoveUnreadable(p)
            \/ ServeFromCache(p) \/ ListServices(p) \/ ServerFails(p)
            \/ OpenForWrite(p) \/ CloseFile(p) \/ Close(p) \/ Crash(p)
            \/ ReadBlock(p) \/ Miss(p) \/ Connect(p) \/ FetchFiles(p)
        BY <1>2, <2>2 DEF Step, Read, Lookup, Reflect, Write
      <4> QED
        BY <1>1, <4>1, StepForgets, HoldsForgets, HoldsReadBlock, HoldsMiss, HoldsConnect, HoldsFetchFiles
    <3>2. OnDisk'
      <4>1. CASE OpenForWrite(p)
        <5>1. PICK i \in Inode : disk' = [disk EXCEPT ![i] = <<>>]
          BY <4>1 DEF OpenForWrite
        <5>2. UNCHANGED serverVars
          BY <4>1 DEF OpenForWrite
        <5>3. Whole(<<>>, fetch, nFetches) /\ Len(<<>>) <= Block
          BY EmptyWhole DEF ConstantsAssumption
        <5> QED
          BY <1>1, <5>1, <5>2, <5>3 DEF OnDisk, serverVars, TypeInv, TypeOK
      <4>2. CASE ~OpenForWrite(p)
        <5>1. disk' = disk
          BY <1>2, <2>2, <4>2
             DEF Start, Step, Read, Lookup, Reflect, Write, Close, Open, Missing, ReadBlock, ReadEnd,
                 RemoveUnreadable, ServeFromCache, Miss, Connect, ListServices, ServerFails,
                 FetchFiles, CloseFile, CloseStream, RemoveInvalid, Crash, fileVars
        <5> QED
          BY <1>1, <5>1, OnDiskKept
      <4> QED
        BY <4>1, <4>2
    <3> QED
      BY <3>1, <3>2
  <2> QED
    BY <2>1, <2>2
<1>3. ASSUME NEW p \in Procs, Start(p) \/ Step(p) \/ Crash(p)
      PROVE  OverlapInv'
  <2>1. ASSUME NEW q \in Procs PROVE Holds(q)'
    <3>1. CASE q = p
      BY <1>2, <1>3, <3>1
    <3>2. CASE q # p
      <4>1. UNCHANGED <<pc[q], run[q], buf[q], rest[q], mine[q], out[q], pos[q]>>
        BY <1>3, <3>2, OwnSteps
      <4> QED
        BY <1>1, <4>1, HoldsOther
    <3> QED
      BY <3>1, <3>2
  <2> QED
    BY <1>2, <1>3, <2>1 DEF OverlapInv
<1>4. CASE Tick \/ UNCHANGED vars
  <2>1. UNCHANGED <<fileVars, serverVars, pc, run, readVars, mine, writeVars>>
    BY <1>4 DEF Tick, vars
  <2>2. OnDisk'
    BY <1>1, <2>1, OnDiskKept DEF fileVars
  <2>3. \A p \in Procs : Holds(p)'
    BY <1>1, <2>1 DEF Holds, Writes, Carries, Others, HostOf, serverVars, readVars, writeVars
  <2> QED
    BY <2>2, <2>3 DEF OverlapInv
<1> QED
  BY <1>3, <1>4 DEF Next

----------------------------------------------------------------------------
(* The theorems.                                                           *)

LEMMA OverlapInvariance == FitsOneBlock => (Spec => [](TypeInv /\ OverlapInv))
<1> SUFFICES ASSUME FitsOneBlock PROVE Spec => [](TypeInv /\ OverlapInv)
  OBVIOUS
<1>1. Init => TypeInv /\ OverlapInv
  BY ConstantsAssumption, TypeInvInit, OverlapInvInit
<1>2. TypeInv /\ OverlapInv /\ [Next]_vars => (TypeInv /\ OverlapInv)'
  BY ConstantsAssumption, TypeInvNext, OverlapInvNext
<1> QED
  BY <1>1, <1>2, PTL DEF Spec

\* However invocations overlap, and wherever they are killed, time stamp and
\* descriptors of an entry that is served are from one session
\* (ServedEntryWhole), if a write is a single system call.
THEOREM OverlapWhole ==
  ASSUME FitsOneBlock
  PROVE  Spec => []ServedEntryWhole
<1>1. TypeInv /\ OverlapInv => ServedEntryWhole
  <2> SUFFICES ASSUME TypeInv, OverlapInv, NEW p \in Procs, Serves(p)
               PROVE  ServedEntry(p).head = ServedEntry(p).body
    BY DEF ServedEntryWhole
  <2>1. Parses(buf[p])
    BY DEF Serves, TypeInv, LocalInv
  <2>2. Sound(buf[p], {})
    BY <2>1 DEF OverlapInv, Holds, Whole
  <2> QED
    BY <2>2, ServedSound
<1> QED
  BY <1>1, OverlapInvariance, PTL

\* Under the same condition overlapping invocations never write a database with
\* two entries for one host (OneEntryPerHost).
THEOREM OverlapUnique ==
  ASSUME FitsOneBlock
  PROVE  Spec => []OneEntryPerHost
<1>1. TypeInv /\ OverlapInv => OneEntryPerHost
  <2> SUFFICES ASSUME TypeInv, OverlapInv, NEW p \in Procs
               PROVE  OneEach(HostsOf(out[p]), fetch, nFetches)
    BY DEF OneEach, OneEntryPerHost, HostOf
  <2>1. out[p] \in Seq(Cell) /\ Parses(out[p]) /\ OneHead(out[p], fetch, nFetches)
    BY DEF TypeInv, TypeOK, OverlapInv, Holds, Writes, Database
  <2> QED
    BY <2>1, OneOfFile
<1> QED
  BY <1>1, OverlapInvariance, PTL
=============================================================================
