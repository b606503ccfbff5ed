----------------------------- MODULE Reflection -----------------------------
(***************************************************************************)
(* One reflection session of gWhisper: how DescDbProxy collects the entry  *)
(* of a host.                                                              *)
(*                                                                         *)
(* fetchDescNamesFromReflection lists the services of the server and looks *)
(* each one up in a DescriptorPool, which loads what it needs from the     *)
(* ProtoReflectionDescriptorDatabase: from its cache, or by a request on   *)
(* the reflection stream.  For a service that is found, the names of its   *)
(* file and of all files that this one imports are collected, and at last  *)
(* repopulateLocalDb fetches each named file from the database.            *)
(*                                                                         *)
(* The stream may break at any request; it is never opened again.          *)
(***************************************************************************)
EXTENDS Integers, Sequences

CONSTANTS
  Files,      \* proto files of the server
  NoFile,     \* the file of a service without descriptor
  Services,   \* services that the server lists
  Graphs      \* what its files may import: functions from Files to sequences

ASSUME ReflectionAssumption ==
  /\ NoFile \notin Files /\ Files \cap Services = {}
  /\ Graphs \subseteq [Files -> Seq(Files)]

VARIABLES
  imports,    \* imports of the server's files
  fileOf,     \* the file that defines a service
  stream,     \* the reflection stream: "none", "open", "broken" or "closed"
  opens,      \* how often it was opened
  refused,    \* files and services about which the server reported an error
  known,      \* known_files_: the files in cached_db_
  missing,    \* missing_symbols_
  built,      \* files that the pool has built
  bad,        \* files that the pool knows to be bad
  pc,         \* what is being done
  left,       \* services still to be looked up
  cur,        \* the service that is looked up
  found,      \* services that were found
  want,       \* files the pool still has to load for it
  cand,       \* files it has loaded for it
  names,      \* m_descNames
  roots,      \* dependencies of its file that getDependencies is still to be called for
  todo,       \* todoList
  done,       \* doneList
  entry,      \* the files in the host entry
  invalid     \* the close of the stream has failed, the cache file is removed

serverVars == <<imports, fileOf>>
streamVars == <<stream, opens, refused>>
dbVars     == <<known, missing>>
poolVars   == <<built, bad, want, cand>>
loopVars   == <<left, cur, found>>
depVars    == <<names, roots, todo, done>>
resultVars == <<entry, invalid>>
vars == <<serverVars, streamVars, dbVars, poolVars, pc, loopVars, depVars, resultVars>>

Closed(S) == \A f \in S : \A i \in DOMAIN imports[f] : imports[f][i] \in S

\* The files reachable from R over imports: the smallest closed set around R.
Closure(R) == {f \in Files : \A S \in SUBSET Files : R \subseteq S /\ Closed(S) => f \in S}

Children(f) == {imports[f][i] : i \in DOMAIN imports[f]}

Final == {"closed", "exitList", "exitFile"}

Init ==
  /\ imports \in Graphs /\ fileOf \in [Services -> Files \cup {NoFile}]
  /\ stream = "none" /\ opens = 0 /\ refused = {}
  /\ known = {} /\ missing = {}
  /\ built = {} /\ bad = {} /\ want = {} /\ cand = {}
  /\ pc = "list"
  /\ left = {} /\ cur \in Services /\ found = {}
  /\ names = {} /\ roots = {} /\ todo = <<>> /\ done = {}
  /\ entry = {} /\ invalid = FALSE

----------------------------------------------------------------------------
(* ProtoReflectionDescriptorDatabase.                                      *)

\* Mutant: after a failure the stream is opened again.
DoOneRequest_Reopens(ok) ==
  /\ stream' = IF ok THEN "open" ELSE "none"
  /\ opens' = IF stream = "none" THEN opens + 1 ELSE opens

\* A request and its response, or a Write or Read that fails, on the stream
\* that GetStream opens the first time.
DoOneRequest(ok) ==
  /\ ok => stream # "broken"
  /\ stream' = IF ok THEN "open" ELSE "broken"
  /\ opens' = IF stream \in {"none", "closed"} THEN opens + 1 ELSE opens

\* The files of a response: the one that is asked for, and as many of those it
\* imports as the server cares to send along.
AddFileFromResponse(files) == known' = known \cup files

Responses(f) == {R \in SUBSET Closure({f}) : f \in R}

\* The server is asked for a file; whether it can be had.
RequestFile(f, ok) ==
  \/ ok /\ DoOneRequest(TRUE) /\ UNCHANGED refused
        /\ \E files \in Responses(f) : AddFileFromResponse(files)
  \/ ~ok /\ DoOneRequest(TRUE) /\ refused' = refused \cup {f} /\ UNCHANGED known
  \/ ~ok /\ DoOneRequest(FALSE) /\ UNCHANGED <<refused, known>>

\* Mutant: the database does not look at the files it has.
FindFileByName_Uncached(f, ok) == RequestFile(f, ok)

\* FindFileByName(f): whether the file is returned.
FindFileByName(f, ok) ==
  IF f \in known THEN ok /\ UNCHANGED <<streamVars, known>> ELSE RequestFile(f, ok)

\* FindFileContainingSymbol(s), for a service s.
FindFileContainingSymbol(s, ok) ==
  IF fileOf[s] \in known
  THEN ok /\ UNCHANGED <<streamVars, dbVars>>
  ELSE /\ s \notin missing
       /\ \/ /\ ok /\ fileOf[s] # NoFile /\ DoOneRequest(TRUE)
             /\ \E files \in Responses(fileOf[s]) : AddFileFromResponse(files)
             /\ UNCHANGED <<refused, missing>>
          \/ /\ ~ok /\ DoOneRequest(TRUE)
             /\ refused' = refused \cup {s} /\ missing' \in {missing, missing \cup {s}}
             /\ UNCHANGED known
          \/ ~ok /\ DoOneRequest(FALSE) /\ UNCHANGED <<refused, dbVars>>

\* Mutant: the status of the stream is lost when it is closed.
closeDescDbStream_NoStatus(ok) == ok /\ stream' = "closed" /\ UNCHANGED <<opens, refused>>

\* Finish() reports a stream that broke; any other one may fail to close too.
closeDescDbStream(ok) ==
  /\ ok => stream # "broken"
  /\ stream' = "closed"
  /\ UNCHANGED <<opens, refused>>

----------------------------------------------------------------------------
(* fetchDescNamesFromReflection.                                           *)

\* GetServices; without it gWhisper exits.
ListServices ==
  /\ pc = "list"
  /\ \/ DoOneRequest(TRUE) /\ left' = Services /\ pc' = "services"
     \/ DoOneRequest(TRUE) /\ pc' = "exitList" /\ UNCHANGED left
     \/ DoOneRequest(FALSE) /\ pc' = "exitList" /\ UNCHANGED left
  /\ UNCHANGED <<serverVars, refused, dbVars, poolVars, cur, found, depVars, resultVars>>

\* The next service is looked up, first among the files the pool has built.
NextService ==
  /\ pc = "services"
  /\ \E s \in left :
       /\ left' = left \ {s} /\ cur' = s
       /\ IF fileOf[s] \in built
          THEN found' = found \cup {s} /\ pc' = "names"
          ELSE UNCHANGED found /\ pc' = "symbol"
  /\ UNCHANGED <<serverVars, streamVars, dbVars, poolVars, depVars, resultVars>>

AllServices ==
  /\ pc = "services" /\ left = {}
  /\ pc' = "repopulate"
  /\ UNCHANGED <<serverVars, streamVars, dbVars, poolVars, loopVars, depVars, resultVars>>

\* Mutant: a service that is not found is not skipped.
FindSymbol_NoSkip ==
  /\ pc = "symbol"
  /\ \E ok \in BOOLEAN : FindFileContainingSymbol(cur, ok)
  /\ pc' = "build" /\ want' = {fileOf[cur]} /\ cand' = {}
  /\ UNCHANGED <<serverVars, built, bad, loopVars, depVars, resultVars>>

\* The pool asks the database for the file of the service; a service that is
\* not found is skipped.
FindSymbol ==
  /\ pc = "symbol"
  /\ \E ok \in BOOLEAN :
       /\ FindFileContainingSymbol(cur, ok)
       /\ pc' = IF ok THEN "build" ELSE "services"
       /\ want' = IF ok THEN {fileOf[cur]} ELSE {}
  /\ cand' = {}
  /\ UNCHANGED <<serverVars, built, bad, loopVars, depVars, resultVars>>

\* The pool loads a file of the service, and has to load what it imports.  If
\* one of them is not to be had, the service is not found.
LoadFile ==
  /\ pc = "build"
  /\ \E f \in want : \E ok \in BOOLEAN :
       /\ IF f \in bad THEN ~ok /\ UNCHANGED <<streamVars, known>> ELSE FindFileByName(f, ok)
       /\ IF ok
          THEN /\ cand' = cand \cup {f}
               /\ want' = (want \cup Children(f)) \ (cand' \cup built)
               /\ UNCHANGED <<pc, bad>>
          ELSE /\ bad' = bad \cup {f, fileOf[cur]}
               /\ pc' = "services"
               /\ want' = {} /\ cand' = {}
  /\ UNCHANGED <<serverVars, missing, built, loopVars, depVars, resultVars>>

FileBuilt ==
  /\ pc = "build" /\ want = {}
  /\ built' = built \cup cand /\ cand' = {}
  /\ found' = found \cup {cur}
  /\ pc' = "names"
  /\ UNCHANGED <<serverVars, streamVars, dbVars, bad, want, left, cur, depVars, resultVars>>

\* The name of its file, and getDependencies for each file it imports.
InsertName ==
  /\ pc = "names"
  /\ names' = names \cup {fileOf[cur]}
  /\ roots' = Children(fileOf[cur])
  /\ pc' = "deps"
  /\ UNCHANGED <<serverVars, streamVars, dbVars, poolVars, loopVars, todo, done, resultVars>>

CallGetDependencies ==
  /\ pc = "deps" /\ todo = <<>>
  /\ \E r \in roots : roots' = roots \ {r} /\ todo' = <<r>>
  /\ done' = {}
  /\ UNCHANGED <<serverVars, streamVars, dbVars, poolVars, pc, loopVars, names, resultVars>>

\* Mutants: a file that is done stays at the front; only the direct imports of
\* a file are followed.
getDependencies_NoPop ==
  /\ pc = "deps" /\ todo # <<>> /\ Head(todo) \notin done
  /\ todo' = Tail(todo \o imports[Head(todo)])
  /\ names' = names \cup {Head(todo)}
  /\ done' = done \cup {Head(todo)}
  /\ UNCHANGED <<serverVars, streamVars, dbVars, poolVars, pc, loopVars, roots, resultVars>>

getDependencies_Direct ==
  /\ pc = "deps" /\ todo # <<>>
  /\ todo' = Tail(todo)
  /\ names' = names \cup {Head(todo)}
  /\ done' = done \cup {Head(todo)}
  /\ UNCHANGED <<serverVars, streamVars, dbVars, poolVars, pc, loopVars, roots, resultVars>>

\* One turn of the loop over the todoList.
getDependencies ==
  /\ pc = "deps" /\ todo # <<>>
  /\ IF Head(todo) \in done
     THEN todo' = Tail(todo) /\ UNCHANGED <<names, done>>
     ELSE /\ todo' = Tail(todo \o imports[Head(todo)])
          /\ names' = names \cup {Head(todo)}
          /\ done' = done \cup {Head(todo)}
  /\ UNCHANGED <<serverVars, streamVars, dbVars, poolVars, pc, loopVars, roots, resultVars>>

ServiceDone ==
  /\ pc = "deps" /\ todo = <<>> /\ roots = {}
  /\ pc' = "services"
  /\ UNCHANGED <<serverVars, streamVars, dbVars, poolVars, loopVars, depVars, resultVars>>

----------------------------------------------------------------------------
(* repopulateLocalDb and the end of the session.                           *)

\* A named file is fetched for the entry; without it gWhisper exits.
FetchFile ==
  /\ pc = "repopulate"
  /\ \E f \in names \ entry : \E ok \in BOOLEAN :
       /\ FindFileByName(f, ok)
       /\ IF ok THEN entry' = entry \cup {f} /\ UNCHANGED pc
                ELSE pc' = "exitFile" /\ UNCHANGED entry
  /\ UNCHANGED <<serverVars, missing, poolVars, loopVars, depVars, invalid>>

Stored ==
  /\ pc = "repopulate" /\ names = entry
  /\ pc' = "stored"
  /\ UNCHANGED <<serverVars, streamVars, dbVars, poolVars, loopVars, depVars, resultVars>>

\* DescDbProxy::closeDescDbStream.
Close ==
  /\ pc = "stored"
  /\ \E ok \in BOOLEAN : closeDescDbStream(ok) /\ invalid' = ~ok
  /\ pc' = "closed"
  /\ UNCHANGED <<serverVars, dbVars, poolVars, loopVars, depVars, entry>>

Next == ListServices \/ NextService \/ AllServices \/ FindSymbol \/ LoadFile \/ FileBuilt
          \/ InsertName \/ CallGetDependencies \/ getDependencies \/ ServiceDone
          \/ FetchFile \/ Stored \/ Close

Spec == Init /\ [][Next]_vars

\* A request is answered or fails: gWhisper never waits longer than for the
\* deadline of the stream.
FairSpec == Spec /\ WF_vars(Next)

----------------------------------------------------------------------------
(* Properties.                                                             *)

\* Type invariant: the variables of a session have their types.
TypeOK ==
  /\ imports \in [Files -> Seq(Files)] /\ fileOf \in [Services -> Files \cup {NoFile}]
  /\ stream \in {"none", "open", "broken", "closed"} /\ opens \in Nat
  /\ refused \subseteq Files \cup Services
  /\ known \subseteq Files /\ missing \subseteq Services
  /\ built \subseteq Files /\ bad \subseteq Files /\ want \subseteq Files /\ cand \subseteq Files
  /\ pc \in {"list", "services", "symbol", "build", "names", "deps", "repopulate", "stored"} \cup Final
  /\ left \subseteq Services /\ cur \in Services /\ found \subseteq Services
  /\ names \subseteq Files /\ roots \subseteq Files /\ todo \in Seq(Files) /\ done \subseteq Files
  /\ entry \subseteq Files /\ invalid \in BOOLEAN

FilesOf(T) == {fileOf[s] : s \in T}

\* The entry of a host holds the files of the services that were found, all
\* they import, directly or not, and nothing else: a pool over the entry can
\* build each of them (DescDbProxy.cpp:203, "all proto files used").
EntryComplete ==
  pc \in {"stored", "closed"} => entry = Closure(FilesOf(found)) /\ NoFile \notin FilesOf(found)

\* Every file that was named is still to be had when it is fetched: a session
\* whose stream breaks yields a smaller entry, it never ends the program.
NamedFilesKnown == pc # "exitFile"

\* The ClientContext of the stream is used for one stream only.
StreamOpenedOnce == opens <= 1

\* A service that is missing from an entry although the server has not refused
\* the service, nor a file it needs.
Short(s) ==
  /\ s \notin found
  /\ s \notin refused
  /\ fileOf[s] \in Files => Closure({fileOf[s]}) \cap refused = {}

\* Services that are missing because the stream broke are not missing for the
\* lifetime of the cache entry: closing such a stream fails, and the cache file
\* is removed (DescDbProxy.cpp:384-390).
CutShortInvalidated ==
  pc = "closed" /\ ~invalid => \A s \in Services : ~Short(s)

\* A session ends.
SessionEnds == <>(pc \in Final)

\* A session delivers an entry as the descriptor cache expects it.
HE == INSTANCE HostEntry WITH
        entry <- IF pc \in {"stored", "closed"} THEN entry ELSE {},
        short <- pc \in {"stored", "closed"} /\ \E s \in Services : Short(s),
        state <- CASE pc = "stored" -> "stored"
                   [] pc = "closed" -> IF invalid THEN "invalid" ELSE "kept"
                   [] pc \in {"exitList", "exitFile"} -> "failed"
                   [] OTHER -> "fetching"
DeliversEntry == HE!Spec
=============================================================================
