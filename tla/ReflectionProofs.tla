-------------------------- MODULE ReflectionProofs --------------------------
(***************************************************************************)
(* Theorems about Reflection, for all files, services and import graphs:   *)
(* its safety properties, and that a session implements HostEntry.         *)
(*                                                                         *)
(* That a file is reachable is said without the closure: it is in every    *)
(* closed set that contains the start.  The closure itself is one.         *)
(***************************************************************************)
EXTENDS Reflection, SequenceTheorems, TLAPS

----------------------------------------------------------------------------
(* The closure, and the todoList.                                          *)

\* The closure is a closed set.
LEMMA ClosureClosed ==
  ASSUME TypeOK, NEW X \in SUBSET Files
  PROVE  Closure(X) \in SUBSET Files /\ X \subseteq Closure(X) /\ Closed(Closure(X))
<1>1. Closure(X) \in SUBSET Files /\ X \subseteq Closure(X)
  BY DEF Closure
<1>2. ASSUME NEW f \in Closure(X), NEW i \in DOMAIN imports[f],
             NEW S \in SUBSET Files, X \subseteq S, Closed(S)
      PROVE  imports[f][i] \in S
  BY <1>2 DEF Closure, Closed
<1>3. ASSUME NEW f \in Closure(X), NEW i \in DOMAIN imports[f]
      PROVE  imports[f][i] \in Files
  <2>1. imports[f] \in Seq(Files) BY <1>1 DEF TypeOK
  <2> QED BY <2>1
<1> QED BY <1>1, <1>2, <1>3 DEF Closure, Closed

\* The todoList after a turn of the loop of getDependencies.
Turn(t, u) == Tail(t \o u)

\* One turn of the loop of getDependencies keeps every element but the first
\* and adds the imports.
LEMMA TurnElements ==
  ASSUME NEW T, NEW t \in Seq(T), t # <<>>, NEW u \in Seq(T),
         NEW v, v = Turn(t, u)
  PROVE  /\ v \in Seq(T)
         /\ \A j \in DOMAIN t : t[j] = Head(t) \/ \E k \in DOMAIN v : v[k] = t[j]
         /\ \A i \in DOMAIN u : \E k \in DOMAIN v : v[k] = u[i]
<1> DEFINE w == t \o u
<1>1. w \in Seq(T) /\ Len(w) = Len(t) + Len(u) /\ Len(t) \in Nat \ {0} /\ Len(u) \in Nat
  BY EmptySeq
<1>2. /\ \A j \in 1 .. Len(t) : w[j] = t[j]
      /\ \A i \in 1 .. Len(u) : w[Len(t) + i] = u[i]
  BY <1>1
<1>3. DOMAIN t = 1 .. Len(t) /\ DOMAIN u = 1 .. Len(u) /\ Head(t) = t[1]
  OBVIOUS
<1>4. v = Tail(w)
  BY Zenon DEF w, Turn
<1> HIDE DEF w
<1>5. /\ v \in Seq(T) /\ DOMAIN v = 1 .. Len(w) - 1
      /\ \A k \in 1 .. Len(w) - 1 : v[k] = w[k + 1]
  BY <1>1, <1>4
<1>6. ASSUME NEW j \in DOMAIN t, t[j] # Head(t)
      PROVE  \E k \in DOMAIN v : v[k] = t[j]
  <2>1. j \in 1 .. Len(t) /\ j # 1 BY <1>3, <1>6
  <2>2. j - 1 \in 1 .. Len(w) - 1 /\ (j - 1) + 1 = j BY <2>1, <1>1
  <2>3. v[j - 1] = t[j] BY <2>1, <2>2, <1>2, <1>5
  <2> QED BY <2>2, <2>3, <1>5
<1>7. ASSUME NEW i \in DOMAIN u
      PROVE  \E k \in DOMAIN v : v[k] = u[i]
  <2>1. i \in 1 .. Len(u) BY <1>3
  <2>2. /\ Len(t) + i - 1 \in 1 .. Len(w) - 1
        /\ (Len(t) + i - 1) + 1 = Len(t) + i
    BY <2>1, <1>1
  <2>3. v[Len(t) + i - 1] = u[i] BY <2>1, <2>2, <1>2, <1>5
  <2> QED BY <2>2, <2>3, <1>5
<1> QED BY <1>5, <1>6, <1>7

LEMMA TailElements ==
  ASSUME NEW T, NEW t \in Seq(T), t # <<>>
  PROVE  /\ Tail(t) \in Seq(T) /\ Head(t) \in T
         /\ \A j \in DOMAIN t : t[j] = Head(t) \/ \E k \in DOMAIN Tail(t) : Tail(t)[k] = t[j]
<1>1. Tail(t) \in Seq(T) /\ Head(t) \in T /\ Len(t) \in Nat \ {0}
  BY EmptySeq
<1>2. /\ DOMAIN t = 1 .. Len(t) /\ Head(t) = t[1]
      /\ DOMAIN Tail(t) = 1 .. Len(t) - 1
      /\ \A k \in 1 .. Len(t) - 1 : Tail(t)[k] = t[k + 1]
  BY <1>1
<1>3. ASSUME NEW j \in DOMAIN t, t[j] # Head(t)
      PROVE  \E k \in DOMAIN Tail(t) : Tail(t)[k] = t[j]
  <2>1. j - 1 \in 1 .. Len(t) - 1 /\ (j - 1) + 1 = j BY <1>1, <1>2, <1>3
  <2> QED BY <2>1, <1>2
<1> QED BY <1>1, <1>3

----------------------------------------------------------------------------
(* Types.                                                                  *)

\* A file is only built and named for a service that has one.
Typed == TypeOK /\ (pc \in {"build", "names"} => fileOf[cur] \in Files)

\* What the actions of the database return.
LEMMA RequestTypes ==
  ASSUME TypeOK, NEW ok \in BOOLEAN, DoOneRequest(ok)
  PROVE  stream' \in {"open", "broken"} /\ opens' \in Nat
BY DEF TypeOK, DoOneRequest

LEMMA FileTypes ==
  ASSUME TypeOK, NEW f \in Files, NEW ok \in BOOLEAN, FindFileByName(f, ok)
  PROVE  /\ stream' \in {"none", "open", "broken", "closed"} /\ opens' \in Nat
         /\ known' \subseteq Files /\ refused' \subseteq Files \cup Services
<1>1. CASE f \in known
  BY <1>1 DEF FindFileByName, TypeOK, streamVars
<1>2. CASE f \notin known
  <2>1. RequestFile(f, ok) BY <1>2 DEF FindFileByName
  <2>2. PICK o \in BOOLEAN : DoOneRequest(o) BY <2>1 DEF RequestFile
  <2>3. known' \subseteq Files /\ refused' \subseteq Files \cup Services
    BY <2>1 DEF RequestFile, AddFileFromResponse, Responses, Closure, TypeOK
  <2> QED BY <2>2, <2>3, RequestTypes
<1> QED BY <1>1, <1>2

LEMMA SymbolTypes ==
  ASSUME TypeOK, NEW ok \in BOOLEAN, FindFileContainingSymbol(cur, ok)
  PROVE  /\ stream' \in {"none", "open", "broken", "closed"} /\ opens' \in Nat
         /\ known' \subseteq Files /\ refused' \subseteq Files \cup Services
         /\ missing' \subseteq Services
         /\ ok => fileOf[cur] \in Files
<1>1. CASE fileOf[cur] \in known
  BY <1>1 DEF FindFileContainingSymbol, TypeOK, streamVars, dbVars
<1>2. CASE fileOf[cur] \notin known
  <2>1. PICK o \in BOOLEAN : DoOneRequest(o) BY <1>2 DEF FindFileContainingSymbol
  <2>2. /\ known' \subseteq Files /\ refused' \subseteq Files \cup Services
        /\ missing' \subseteq Services
        /\ ok => fileOf[cur] \in Files
    BY <1>2 DEF FindFileContainingSymbol, AddFileFromResponse, Responses, Closure, TypeOK, dbVars
  <2> QED BY <2>1, <2>2, RequestTypes
<1> QED BY <1>1, <1>2

LEMMA TypeInit == Init => Typed
<1> SUFFICES ASSUME Init PROVE Typed
  OBVIOUS
<1>1. imports \in [Files -> Seq(Files)] BY ReflectionAssumption DEF Init
<1>2. todo \in Seq(Files) BY EmptySeq DEF Init
<1> QED BY <1>1, <1>2 DEF Init, Typed, TypeOK

LEMMA TypeStep == Typed /\ [Next]_vars => Typed'
<1> SUFFICES ASSUME Typed, [Next]_vars PROVE Typed'
  OBVIOUS
<1> TypeOK
  BY DEF Typed
<1>1. CASE ListServices
  <2>1. PICK ok \in BOOLEAN : DoOneRequest(ok) BY <1>1 DEF ListServices
  <2>2. stream' \in {"open", "broken"} /\ opens' \in Nat BY <2>1, RequestTypes
  <2>3. left' \in {left, Services} /\ pc' \in {"services", "exitList"} BY <1>1 DEF ListServices
  <2> QED BY <1>1, <2>2, <2>3 DEF ListServices, Typed, TypeOK, Final, serverVars, dbVars, poolVars,
        depVars, resultVars
<1>2. CASE NextService
  BY <1>2 DEF NextService, Typed, TypeOK, Final, serverVars, streamVars, dbVars, poolVars, depVars,
       resultVars
<1>3. CASE AllServices
  BY <1>3 DEF AllServices, Typed, TypeOK, Final, serverVars, streamVars, dbVars, poolVars, loopVars,
       depVars, resultVars
<1>4. CASE FindSymbol
  <2>1. PICK ok \in BOOLEAN : /\ FindFileContainingSymbol(cur, ok)
                              /\ pc' = IF ok THEN "build" ELSE "services"
                              /\ want' = IF ok THEN {fileOf[cur]} ELSE {}
    BY <1>4 DEF FindSymbol
  <2> QED BY <1>4, <2>1, SymbolTypes DEF FindSymbol, Typed, TypeOK, Final, serverVars, loopVars,
        depVars, resultVars
<1>5. CASE LoadFile
  <2>1. PICK f \in want, ok \in BOOLEAN :
          /\ IF f \in bad THEN ~ok /\ UNCHANGED <<streamVars, known>> ELSE FindFileByName(f, ok)
          /\ IF ok
             THEN /\ cand' = cand \cup {f}
                  /\ want' = (want \cup Children(f)) \ (cand' \cup built)
                  /\ UNCHANGED <<pc, bad>>
             ELSE /\ bad' = bad \cup {f, fileOf[cur]}
                  /\ pc' = "services"
                  /\ want' = {} /\ cand' = {}
    BY <1>5 DEF LoadFile
  <2>2. f \in Files /\ fileOf[cur] \in Files /\ imports[f] \in Seq(Files)
    BY <1>5 DEF Typed, TypeOK, LoadFile
  <2>3. /\ stream' \in {"none", "open", "broken", "closed"} /\ opens' \in Nat
        /\ known' \subseteq Files /\ refused' \subseteq Files \cup Services
    BY <2>1, <2>2, FileTypes DEF TypeOK, streamVars
  <2>4. Children(f) \subseteq Files BY <2>2 DEF Children
  <2>5. want' \subseteq Files /\ cand' \subseteq Files /\ bad' \subseteq Files
    BY <2>1, <2>2, <2>4 DEF TypeOK
  <2>6. pc' \in {"build", "services"} BY <1>5, <2>1 DEF LoadFile
  <2> QED BY <1>5, <2>2, <2>3, <2>5, <2>6 DEF LoadFile, Typed, TypeOK, Final, serverVars, loopVars,
        depVars, resultVars
<1>6. CASE FileBuilt
  BY <1>6 DEF FileBuilt, Typed, TypeOK, Final, serverVars, streamVars, dbVars, depVars, resultVars
<1>7. CASE InsertName
  <2>1. fileOf[cur] \in Files /\ imports[fileOf[cur]] \in Seq(Files)
    BY <1>7 DEF InsertName, Typed, TypeOK
  <2>2. Children(fileOf[cur]) \subseteq Files BY <2>1 DEF Children
  <2> QED BY <1>7, <2>1, <2>2 DEF InsertName, Typed, TypeOK, Final, serverVars, streamVars, dbVars,
        poolVars, loopVars, resultVars
<1>8. CASE CallGetDependencies
  <2>1. todo' \in Seq(Files) /\ roots' \subseteq Files
    BY <1>8 DEF CallGetDependencies, TypeOK
  <2> QED BY <1>8, <2>1 DEF CallGetDependencies, Typed, TypeOK, Final, serverVars, streamVars, dbVars,
        poolVars, loopVars, resultVars
<1>9. CASE getDependencies
  <2>1. /\ todo # <<>> /\ Head(todo) \in Files /\ imports[Head(todo)] \in Seq(Files)
        /\ todo' \in {Tail(todo), Tail(todo \o imports[Head(todo)])}
        /\ names' \subseteq names \cup {Head(todo)} /\ done' \subseteq done \cup {Head(todo)}
    BY <1>9, TailElements DEF getDependencies, TypeOK
  <2>2. Tail(todo) \in Seq(Files) BY <2>1, TailElements DEF TypeOK
  <2>3. Tail(todo \o imports[Head(todo)]) \in Seq(Files) BY <2>1, TurnElements DEF TypeOK
  <2> QED BY <1>9, <2>1, <2>2, <2>3 DEF getDependencies, Typed, TypeOK, Final, serverVars, streamVars,
        dbVars, poolVars, loopVars, resultVars
<1>10. CASE ServiceDone
  BY <1>10 DEF ServiceDone, Typed, TypeOK, Final, serverVars, streamVars, dbVars, poolVars, loopVars,
       depVars, resultVars
<1>11. CASE FetchFile
  <2>1. PICK f \in names \ entry, ok \in BOOLEAN :
          /\ FindFileByName(f, ok)
          /\ IF ok THEN entry' = entry \cup {f} /\ UNCHANGED pc
                   ELSE pc' = "exitFile" /\ UNCHANGED entry
    BY <1>11 DEF FetchFile
  <2>2. f \in Files BY DEF TypeOK
  <2> QED BY <1>11, <2>1, <2>2, FileTypes DEF FetchFile, Typed, TypeOK, Final, serverVars, poolVars,
        loopVars, depVars
<1>12. CASE Stored
  BY <1>12 DEF Stored, Typed, TypeOK, Final, serverVars, streamVars, dbVars, poolVars, loopVars,
       depVars, resultVars
<1>13. CASE Close
  BY <1>13 DEF Close, closeDescDbStream, Typed, TypeOK, Final, serverVars, dbVars, poolVars, loopVars,
       depVars
<1>14. CASE UNCHANGED vars
  BY <1>14 DEF vars, Typed, TypeOK, Final, serverVars, streamVars, dbVars, poolVars, loopVars, depVars,
       resultVars
<1> QED BY <1>1, <1>2, <1>3, <1>4, <1>5, <1>6, <1>7, <1>8, <1>9, <1>10, <1>11, <1>12, <1>13, <1>14
      DEF Next

\* The variables of a session have their types.
THEOREM SessionTypes == Spec => []TypeOK
<1>1. Typed => TypeOK
  BY DEF Typed
<1> QED BY <1>1, TypeInit, TypeStep, PTL DEF Spec

----------------------------------------------------------------------------
(* The stream.                                                             *)

StreamInv ==
  /\ opens <= 1
  /\ stream = "none" => opens = 0
  /\ stream = "closed" => pc = "closed"

LEMMA RequestStream ==
  ASSUME TypeOK, StreamInv, pc # "closed", NEW ok \in BOOLEAN, DoOneRequest(ok)
  PROVE  opens' <= 1 /\ stream' \in {"open", "broken"}
BY DEF StreamInv, DoOneRequest, TypeOK

LEMMA FileStream ==
  ASSUME TypeOK, StreamInv, pc # "closed", NEW f, NEW ok \in BOOLEAN, FindFileByName(f, ok)
  PROVE  opens' <= 1 /\ (stream' = "none" => opens' = 0) /\ stream' # "closed"
<1>1. CASE f \in known
  BY <1>1 DEF FindFileByName, streamVars, StreamInv
<1>2. CASE f \notin known
  <2>1. PICK o \in BOOLEAN : DoOneRequest(o) BY <1>2 DEF FindFileByName, RequestFile
  <2> QED BY <2>1, RequestStream
<1> QED BY <1>1, <1>2

LEMMA StreamStep == Typed /\ StreamInv /\ [Next]_vars => StreamInv'
<1> SUFFICES ASSUME Typed, StreamInv, [Next]_vars PROVE StreamInv'
  OBVIOUS
<1> TypeOK
  BY DEF Typed
<1>1. CASE ListServices
  <2>1. PICK ok \in BOOLEAN : DoOneRequest(ok) BY <1>1 DEF ListServices
  <2>2. pc # "closed" BY <1>1 DEF ListServices
  <2> QED BY <2>1, <2>2, RequestStream DEF StreamInv
<1>2. CASE FindSymbol
  <2>1. PICK ok \in BOOLEAN : FindFileContainingSymbol(cur, ok) BY <1>2 DEF FindSymbol
  <2>2. pc # "closed" BY <1>2 DEF FindSymbol
  <2>3. CASE fileOf[cur] \in known
    BY <2>1, <2>2, <2>3 DEF FindFileContainingSymbol, streamVars, StreamInv
  <2>4. CASE fileOf[cur] \notin known
    <3>1. PICK o \in BOOLEAN : DoOneRequest(o) BY <2>1, <2>4 DEF FindFileContainingSymbol
    <3> QED BY <3>1, <2>2, RequestStream DEF StreamInv
  <2> QED BY <2>3, <2>4
<1>3. CASE LoadFile
  <2>1. pc # "closed" BY <1>3 DEF LoadFile
  <2>2. PICK f \in want, ok \in BOOLEAN : UNCHANGED streamVars \/ FindFileByName(f, ok)
    BY <1>3 DEF LoadFile
  <2>3. CASE UNCHANGED streamVars
    BY <2>1, <2>3 DEF streamVars, StreamInv
  <2> QED BY <2>1, <2>2, <2>3, FileStream DEF StreamInv
<1>4. CASE FetchFile
  <2>1. pc # "closed" BY <1>4 DEF FetchFile
  <2>2. PICK f \in names \ entry, ok \in BOOLEAN : FindFileByName(f, ok) BY <1>4 DEF FetchFile
  <2> QED BY <2>1, <2>2, FileStream DEF StreamInv
<1>5. CASE Close
  BY <1>5 DEF Close, closeDescDbStream, StreamInv
<1>6. CASE UNCHANGED <<streamVars, pc>>
  BY <1>6 DEF StreamInv, streamVars
<1>7. CASE UNCHANGED streamVars /\ pc # "closed"
  BY <1>7 DEF StreamInv, streamVars
<1>8. NextService \/ AllServices \/ FileBuilt \/ InsertName \/ CallGetDependencies \/ getDependencies
        \/ ServiceDone \/ Stored => UNCHANGED streamVars /\ pc # "closed"
  BY DEF NextService, AllServices, FileBuilt, InsertName, CallGetDependencies, getDependencies,
         ServiceDone, Stored
<1> QED BY <1>1, <1>2, <1>3, <1>4, <1>5, <1>6, <1>7, <1>8 DEF Next, vars

\* The reflection stream is opened once, so that its ClientContext is not used
\* for a second one.
THEOREM OneStream == Spec => []StreamOpenedOnce
<1>1. Init => Typed /\ StreamInv
  BY TypeInit DEF Init, StreamInv
<1>2. Typed /\ StreamInv => StreamOpenedOnce
  BY DEF StreamInv, StreamOpenedOnce
<1> QED BY <1>1, <1>2, TypeStep, StreamStep, PTL DEF Spec

----------------------------------------------------------------------------
(* The pool: what it has built is closed and known to the database.        *)

PoolInv ==
  /\ Closed(built) /\ built \subseteq known /\ cand \subseteq known
  /\ \A f \in cand : \A i \in DOMAIN imports[f] : imports[f][i] \in cand \cup want \cup built
  /\ pc = "build" => fileOf[cur] \in cand \cup want \cup built
  /\ pc # "build" => want = {} /\ cand = {}
  /\ FilesOf(found) \subseteq built

LEMMA ServerFixed == [Next]_vars => imports' = imports /\ fileOf' = fileOf
BY DEF Next, vars, serverVars, ListServices, NextService, AllServices, FindSymbol, LoadFile, FileBuilt,
       InsertName, CallGetDependencies, getDependencies, ServiceDone, FetchFile, Stored, Close

LEMMA KnownGrows ==
  ASSUME NEW f, NEW ok \in BOOLEAN, FindFileByName(f, ok)
  PROVE  known \subseteq known' /\ (ok => f \in known')
<1>1. CASE f \in known
  BY <1>1 DEF FindFileByName
<1>2. CASE f \notin known
  BY <1>2 DEF FindFileByName, RequestFile, Responses, AddFileFromResponse
<1> QED BY <1>1, <1>2

LEMMA PoolStep == Typed /\ PoolInv /\ [Next]_vars => PoolInv'
<1> SUFFICES ASSUME Typed, PoolInv, [Next]_vars PROVE PoolInv'
  OBVIOUS
<1> imports' = imports /\ fileOf' = fileOf
  BY ServerFixed
<1>1. CASE FindSymbol
  <2>1. PICK ok \in BOOLEAN : /\ FindFileContainingSymbol(cur, ok)
                              /\ pc' = IF ok THEN "build" ELSE "services"
                              /\ want' = IF ok THEN {fileOf[cur]} ELSE {}
    BY <1>1 DEF FindSymbol
  <2>2. known \subseteq known'
    BY <2>1 DEF FindFileContainingSymbol, AddFileFromResponse, dbVars
  <2> QED BY <1>1, <2>1, <2>2 DEF FindSymbol, PoolInv, Closed, FilesOf, loopVars
<1>2. CASE LoadFile
  <2>1. PICK f \in want, ok \in BOOLEAN :
          /\ IF f \in bad THEN ~ok /\ UNCHANGED <<streamVars, known>> ELSE FindFileByName(f, ok)
          /\ IF ok
             THEN /\ cand' = cand \cup {f}
                  /\ want' = (want \cup Children(f)) \ (cand' \cup built)
                  /\ UNCHANGED <<pc, bad>>
             ELSE /\ bad' = bad \cup {f, fileOf[cur]}
                  /\ pc' = "services"
                  /\ want' = {} /\ cand' = {}
    BY <1>2 DEF LoadFile
  <2>2. known \subseteq known' /\ (ok => f \in known')
    BY <2>1, KnownGrows
  <2>3. built' = built /\ found' = found /\ cur' = cur /\ pc = "build"
    BY <1>2 DEF LoadFile, loopVars
  <2>4. CASE ok
    <3>1. /\ cand' = cand \cup {f} /\ want' = (want \cup Children(f)) \ (cand' \cup built)
          /\ pc' = "build"
      BY <2>1, <2>3, <2>4
    <3>2. \A g \in cand' : \A i \in DOMAIN imports[g] : imports[g][i] \in cand' \cup want' \cup built'
      BY <3>1, <2>3 DEF PoolInv, Children
    <3>3. cand' \subseteq known' /\ built' \subseteq known' BY <3>1, <2>2, <2>3, <2>4 DEF PoolInv
    <3>4. fileOf[cur] \in cand' \cup want' \cup built' BY <3>1, <2>3 DEF PoolInv
    <3>5. Closed(built)' /\ FilesOf(found)' \subseteq built' BY <2>3 DEF PoolInv, Closed, FilesOf
    <3> QED BY <3>1, <3>2, <3>3, <3>4, <3>5, <2>3 DEF PoolInv
  <2>5. CASE ~ok
    BY <2>1, <2>2, <2>3, <2>5 DEF PoolInv, Closed, FilesOf
  <2> QED BY <2>4, <2>5
<1>3. CASE FileBuilt
  BY <1>3 DEF FileBuilt, PoolInv, Closed, FilesOf, dbVars
<1>4. CASE NextService
  <2>1. PICK s \in left : IF fileOf[s] \in built
                          THEN found' = found \cup {s} /\ pc' = "names"
                          ELSE UNCHANGED found /\ pc' = "symbol"
    BY <1>4 DEF NextService
  <2>2. FilesOf(found') \subseteq built
    BY <2>1 DEF PoolInv, FilesOf
  <2>3. UNCHANGED <<known, built, want, cand>> /\ pc = "services" /\ pc' # "build"
    BY <1>4, <2>1 DEF NextService, dbVars, poolVars
  <2> QED BY <2>2, <2>3 DEF PoolInv, Closed, FilesOf
<1>5. CASE FetchFile
  <2>1. PICK f \in names \ entry, ok \in BOOLEAN : FindFileByName(f, ok) BY <1>5 DEF FetchFile
  <2>2. known \subseteq known' BY <2>1, KnownGrows
  <2>3. UNCHANGED <<built, want, cand, found>> /\ pc = "repopulate" /\ pc' \in {"repopulate", "exitFile"}
    BY <1>5 DEF FetchFile, poolVars, loopVars
  <2> QED BY <2>2, <2>3 DEF PoolInv, Closed, FilesOf
<1>6. CASE UNCHANGED <<known, built, want, cand, found>> /\ pc # "build" /\ pc' # "build"
  BY <1>6 DEF PoolInv, Closed, FilesOf
<1>7. CASE UNCHANGED vars
  BY <1>7 DEF PoolInv, Closed, FilesOf, vars, dbVars, poolVars, loopVars
<1>8. ListServices \/ AllServices \/ InsertName \/ CallGetDependencies \/ getDependencies \/ ServiceDone
        \/ Stored \/ Close
        => UNCHANGED <<known, built, want, cand, found>> /\ pc # "build" /\ pc' # "build"
  BY DEF ListServices, AllServices, InsertName, CallGetDependencies, getDependencies, ServiceDone,
         Stored, Close, dbVars, poolVars, loopVars
<1> QED BY <1>1, <1>2, <1>3, <1>4, <1>5, <1>6, <1>7, <1>8 DEF Next

----------------------------------------------------------------------------
(* The names: all of them are reachable, and when getDependencies has come *)
(* to its end they are closed.                                             *)

\* Whatever is named, or still to be visited, is in every closed set that
\* contains the files of the services.
ReachInv ==
  \A S \in SUBSET Files : FilesOf(found) \subseteq S /\ Closed(S) =>
    names \subseteq S /\ roots \subseteq S /\ todo \in Seq(S)

\* The file whose name comes next.
Next1 == IF pc = "names" THEN {fileOf[cur]} ELSE {}

Pending(c) == c \in names \/ c \in roots \/ \E j \in DOMAIN todo : todo[j] = c

PendingInv ==
  /\ \A f \in names : \A i \in DOMAIN imports[f] : Pending(imports[f][i])
  /\ done \subseteq names
  /\ FilesOf(found) \subseteq names \cup Next1
  /\ pc = "names" => cur \in found
  /\ pc # "deps" => todo = <<>> /\ roots = {}

LEMMA ReachStep == Typed /\ Typed' /\ ReachInv /\ PendingInv /\ [Next]_vars => ReachInv'
<1> SUFFICES ASSUME Typed, Typed', ReachInv, PendingInv, [Next]_vars,
                    NEW S \in SUBSET Files, FilesOf(found)' \subseteq S, Closed(S)'
             PROVE  names' \subseteq S /\ roots' \subseteq S /\ todo' \in Seq(S)
  BY DEF ReachInv
<1> imports' = imports /\ fileOf' = fileOf
  BY ServerFixed
<1>1. Closed(S)
  BY DEF Closed
<1>2. found \subseteq found'
  BY DEF Next, vars, loopVars, ListServices, NextService, AllServices, FindSymbol, LoadFile,
         FileBuilt, InsertName, CallGetDependencies, getDependencies, ServiceDone, FetchFile, Stored, Close
<1>3. names \subseteq S /\ roots \subseteq S /\ todo \in Seq(S)
  BY <1>1, <1>2 DEF ReachInv, FilesOf
<1>4. CASE InsertName
  <2>1. fileOf[cur] \in S
    BY <1>2, <1>4 DEF InsertName, PendingInv, FilesOf, loopVars
  <2>2. Children(fileOf[cur]) \subseteq S
    BY <2>1, <1>1 DEF Closed, Children
  <2> QED BY <2>1, <2>2, <1>3, <1>4 DEF InsertName
<1>5. CASE CallGetDependencies
  BY <1>3, <1>5 DEF CallGetDependencies
<1>6. CASE getDependencies
  <2>1. todo # <<>> BY <1>6 DEF getDependencies
  <2>2. Head(todo) \in S /\ Tail(todo) \in Seq(S) BY <2>1, <1>3, TailElements
  <2>3. imports[Head(todo)] \in Seq(S)
    <3>1. imports[Head(todo)] \in Seq(Files) BY <2>2 DEF Typed, TypeOK
    <3>2. \A i \in DOMAIN imports[Head(todo)] : imports[Head(todo)][i] \in S
      BY <2>2, <1>1 DEF Closed
    <3> QED BY <3>1, <3>2
  <2>4. Tail(todo \o imports[Head(todo)]) \in Seq(S) BY <2>1, <2>3, <1>3, TurnElements
  <2> QED BY <2>2, <2>4, <1>3, <1>6 DEF getDependencies
<1>7. CASE UNCHANGED <<names, roots, todo>>
  BY <1>3, <1>7
<1>8. \/ InsertName \/ CallGetDependencies \/ getDependencies
      \/ UNCHANGED <<names, roots, todo>>
  BY DEF Next, vars, depVars, ListServices, NextService, AllServices, FindSymbol, LoadFile, FileBuilt,
         ServiceDone, FetchFile, Stored, Close
<1> QED BY <1>4, <1>5, <1>6, <1>7, <1>8

LEMMA PendingStep == Typed /\ PendingInv /\ [Next]_vars => PendingInv'
<1> SUFFICES ASSUME Typed, PendingInv, [Next]_vars PROVE PendingInv'
  OBVIOUS
<1> imports' = imports /\ fileOf' = fileOf
  BY ServerFixed
<1>1. CASE NextService
  <2>1. PICK s \in left : /\ cur' = s
                          /\ \/ found' = found \cup {s} /\ pc' = "names"
                             \/ found' = found /\ pc' = "symbol"
    BY <1>1 DEF NextService
  <2>2. pc = "services" /\ UNCHANGED <<names, roots, todo, done>>
    BY <1>1 DEF NextService, depVars
  <2> QED BY <2>1, <2>2 DEF PendingInv, Pending, FilesOf, Next1
<1>2. CASE FileBuilt
  <2>1. /\ pc = "build" /\ pc' = "names" /\ cur' = cur /\ found' = found \cup {cur}
        /\ UNCHANGED <<names, roots, todo, done>>
    BY <1>2 DEF FileBuilt, depVars
  <2> QED BY <2>1 DEF PendingInv, Pending, FilesOf, Next1
<1>3. CASE InsertName
  <2>1. /\ pc = "names" /\ pc' = "deps" /\ UNCHANGED <<cur, found, todo, done>>
        /\ names' = names \cup {fileOf[cur]} /\ roots' = Children(fileOf[cur])
        /\ todo = <<>> /\ roots = {}
    BY <1>3 DEF InsertName, loopVars, PendingInv
  <2>2. \A f \in names' : \A i \in DOMAIN imports[f] : Pending(imports[f][i])'
    BY <2>1 DEF PendingInv, Pending, Children
  <2>3. FilesOf(found)' \subseteq names' \cup Next1'
    BY <2>1 DEF PendingInv, FilesOf, Next1
  <2> QED BY <2>1, <2>2, <2>3 DEF PendingInv
<1>4. CASE CallGetDependencies
  <2>1. PICK r \in roots : roots' = roots \ {r} /\ todo' = <<r>>
    BY <1>4 DEF CallGetDependencies
  <2>2. pc = "deps" /\ done' = {} /\ UNCHANGED <<pc, names, cur, found>> /\ todo = <<>>
    BY <1>4 DEF CallGetDependencies, loopVars
  <2>3. ASSUME NEW c, Pending(c) PROVE Pending(c)'
    BY <2>1, <2>2, <2>3 DEF Pending
  <2>4. FilesOf(found)' \subseteq names' \cup Next1'
    BY <2>2 DEF PendingInv, FilesOf, Next1
  <2>5. \A f \in names' : \A i \in DOMAIN imports[f] : Pending(imports[f][i])'
    BY <2>2, <2>3 DEF PendingInv
  <2> QED BY <2>2, <2>4, <2>5 DEF PendingInv
<1>5. CASE getDependencies
  <2>1. pc = "deps" /\ UNCHANGED <<pc, cur, found, roots>> /\ todo # <<>> /\ todo \in Seq(Files)
    BY <1>5 DEF getDependencies, loopVars, Typed, TypeOK
  <2>2. imports[Head(todo)] \in Seq(Files)
    BY <2>1, TailElements DEF Typed, TypeOK
  <2>3. names \subseteq names' /\ Head(todo) \in names' /\ done' \subseteq names'
    BY <1>5 DEF getDependencies, PendingInv
  <2>4. \A j \in DOMAIN todo : todo[j] = Head(todo) \/ \E k \in DOMAIN todo' : todo'[k] = todo[j]
    <3>1. CASE todo' = Tail(todo)
      BY <3>1, <2>1, TailElements, Zenon
    <3>2. CASE todo' = Turn(todo, imports[Head(todo)])
      BY <3>2, <2>1, <2>2, TurnElements
    <3> QED BY <1>5, <3>1, <3>2, Zenon DEF getDependencies, Turn
  <2>5. ASSUME NEW c, Pending(c) PROVE Pending(c)'
    BY <2>1, <2>3, <2>4, <2>5 DEF Pending
  <2>6. ASSUME NEW f \in names', NEW i \in DOMAIN imports[f] PROVE Pending(imports[f][i])'
    <3>1. CASE f \in names
      BY <3>1, <2>5 DEF PendingInv
    <3>2. CASE f \notin names
      <4>1. f = Head(todo) /\ Head(todo) \notin done
        BY <1>5, <3>2 DEF getDependencies
      <4> todo' = Turn(todo, imports[Head(todo)])
        BY <1>5, <4>1, Zenon DEF getDependencies, Turn
      <4>2. \E k \in DOMAIN todo' : todo'[k] = imports[f][i]
        BY <4>1, <2>1, <2>2, TurnElements
      <4> QED BY <4>2 DEF Pending
    <3> QED BY <3>1, <3>2
  <2>7. FilesOf(found)' \subseteq names' \cup Next1'
    BY <2>1, <2>3 DEF PendingInv, FilesOf, Next1
  <2> QED BY <2>1, <2>3, <2>6, <2>7 DEF PendingInv
<1>6. CASE ServiceDone
  <2>1. /\ pc = "deps" /\ pc' = "services" /\ UNCHANGED <<cur, found, names, roots, todo, done>>
        /\ todo = <<>> /\ roots = {}
    BY <1>6 DEF ServiceDone, loopVars, depVars
  <2> QED BY <2>1 DEF PendingInv, Pending, FilesOf, Next1
<1>7. CASE /\ UNCHANGED <<found, names, roots, todo, done>>
           /\ pc \notin {"names", "deps"} /\ pc' \notin {"names", "deps"}
  BY <1>7 DEF PendingInv, Pending, FilesOf, Next1
<1>8. CASE UNCHANGED vars
  BY <1>8 DEF vars, loopVars, depVars, PendingInv, Pending, FilesOf, Next1
<1>9. ListServices \/ AllServices \/ FindSymbol \/ LoadFile \/ FetchFile \/ Stored \/ Close =>
        /\ UNCHANGED <<found, names, roots, todo, done>>
        /\ pc \notin {"names", "deps"} /\ pc' \notin {"names", "deps"}
  BY DEF ListServices, AllServices, FindSymbol, LoadFile, FetchFile, Stored, Close, loopVars, depVars
<1> QED BY <1>1, <1>2, <1>3, <1>4, <1>5, <1>6, <1>7, <1>8, <1>9 DEF Next

----------------------------------------------------------------------------
(* The entry.                                                              *)

EntryInv ==
  /\ entry \subseteq names
  /\ pc \in {"stored", "closed"} => entry = names
  /\ pc # "exitFile"

\* A named file has been built by the pool, so that the database knows it.
LEMMA NamesKnown == Typed /\ PoolInv /\ ReachInv => names \subseteq known
BY DEF Typed, TypeOK, PoolInv, ReachInv

LEMMA EntryStep == Typed /\ PoolInv /\ ReachInv /\ EntryInv /\ [Next]_vars => EntryInv'
<1> SUFFICES ASSUME Typed, PoolInv, ReachInv, EntryInv, [Next]_vars PROVE EntryInv'
  OBVIOUS
<1>1. CASE FetchFile
  <2>1. PICK f \in names \ entry, ok \in BOOLEAN :
          /\ FindFileByName(f, ok)
          /\ IF ok THEN entry' = entry \cup {f} /\ UNCHANGED pc
                   ELSE pc' = "exitFile" /\ UNCHANGED entry
    BY <1>1 DEF FetchFile
  <2>2. f \in known BY NamesKnown
  <2>3. ok BY <2>1, <2>2 DEF FindFileByName
  <2> QED BY <1>1, <2>1, <2>3 DEF FetchFile, EntryInv, depVars
<1>2. CASE Stored
  BY <1>2 DEF Stored, EntryInv, depVars, resultVars
<1>3. CASE UNCHANGED <<names, entry, pc>>
  BY <1>3 DEF EntryInv
<1>4. CASE Close
  BY <1>4 DEF Close, EntryInv, depVars
<1>5. CASE /\ UNCHANGED entry /\ names \subseteq names'
           /\ pc' \notin {"stored", "closed", "exitFile"}
  BY <1>5 DEF EntryInv
<1>6. InsertName \/ getDependencies =>
        /\ UNCHANGED entry /\ names \subseteq names'
        /\ pc' \notin {"stored", "closed", "exitFile"}
  BY DEF InsertName, getDependencies, resultVars
<1>7. ListServices \/ NextService \/ AllServices \/ FindSymbol \/ LoadFile \/ FileBuilt
        \/ CallGetDependencies \/ ServiceDone =>
        /\ UNCHANGED entry /\ names \subseteq names'
        /\ pc' \notin {"stored", "closed", "exitFile"}
  BY DEF ListServices, NextService, AllServices, FindSymbol, LoadFile, FileBuilt,
         CallGetDependencies, ServiceDone, resultVars, depVars
<1> QED BY <1>1, <1>2, <1>3, <1>4, <1>5, <1>6, <1>7 DEF Next, vars, depVars, resultVars

\* The parts of the inductive invariant that the entry depends on.
Inv == Typed /\ PoolInv /\ ReachInv /\ PendingInv /\ EntryInv

LEMMA InvInit == Init => Inv
<1> SUFFICES ASSUME Init PROVE Inv
  OBVIOUS
<1>1. Typed BY TypeInit
<1>2. FilesOf(found) = {} /\ Next1 = {} BY DEF Init, FilesOf, Next1
<1>3. PoolInv BY <1>2 DEF Init, PoolInv, Closed
<1>4. ReachInv BY EmptySeq DEF Init, ReachInv
<1>5. PendingInv BY <1>2 DEF Init, PendingInv
<1>6. EntryInv BY DEF Init, EntryInv
<1> QED BY <1>1, <1>3, <1>4, <1>5, <1>6 DEF Inv

LEMMA InvStep == Inv /\ [Next]_vars => Inv'
BY TypeStep, PoolStep, ReachStep, PendingStep, EntryStep DEF Inv

\* The entry is what the services that were found need.
FullEntry == entry = Closure(FilesOf(found)) /\ FilesOf(found) \subseteq Files

LEMMA EntryIsClosure == Inv /\ pc \in {"stored", "closed"} => FullEntry
<1> SUFFICES ASSUME Inv, pc \in {"stored", "closed"} PROVE FullEntry
  OBVIOUS
<1>1. entry = names /\ FilesOf(found) \subseteq names /\ names \subseteq Files
  BY DEF Inv, EntryInv, PendingInv, Next1, Typed, TypeOK
<1>2. Closed(names)
  <2>1. roots = {} /\ todo = <<>> BY DEF Inv, PendingInv
  <2>2. \A c : Pending(c) => c \in names BY <2>1 DEF Pending
  <2> QED BY <2>2 DEF Closed, Inv, PendingInv
<1>3. \A S \in SUBSET Files : FilesOf(found) \subseteq S /\ Closed(S) => names \subseteq S
  BY DEF Inv, ReachInv
<1> QED BY <1>1, <1>2, <1>3 DEF Closure, FullEntry

\* The entry consists of the files of the services that were found and of all
\* they import, whatever the imports are.
THEOREM CompleteEntry == Spec => []EntryComplete
<1>1. Inv => EntryComplete
  BY EntryIsClosure, ReflectionAssumption DEF EntryComplete, FullEntry
<1> QED BY <1>1, InvInit, InvStep, PTL DEF Spec

\* repopulateLocalDb finds every file that was named, also on a broken stream.
THEOREM NamedFiles == Spec => []NamedFilesKnown
<1>1. Inv => NamedFilesKnown
  BY DEF Inv, EntryInv, NamedFilesKnown
<1> QED BY <1>1, InvInit, InvStep, PTL DEF Spec

----------------------------------------------------------------------------
(* Entries that are cut short.                                             *)

\* Whoever needs f needs a file that the server has refused.
Hit(f) == \A S \in SUBSET Files : f \in S /\ Closed(S) => \E g \in S : g \in refused

Accounted(s) ==
  \/ s \in left \cup found \cup refused
  \/ s = cur /\ pc \in {"symbol", "build"}
  \/ fileOf[s] \in Files /\ Hit(fileOf[s])

\* The stream has not broken, as far as the close could tell.
Whole == stream # "broken" /\ ~(pc = "closed" /\ invalid)

ShortInv ==
  /\ Whole /\ pc \notin {"list", "exitList"} => \A s \in Services : Accounted(s)
  /\ Whole => \A f \in bad : Hit(f)
  /\ pc = "build" =>
       \A S \in SUBSET Files : fileOf[cur] \in S /\ Closed(S) => want \subseteq S
  /\ pc \in {"repopulate", "stored", "closed", "exitFile"} => left = {}
  /\ pc = "closed" => stream = "closed"

\* A broken stream stays broken until it is closed, and then the close fails.
LEMMA WholeBefore == [Next]_vars /\ Whole' => Whole /\ refused \subseteq refused'
<1> SUFFICES ASSUME [Next]_vars, Whole' PROVE Whole /\ refused \subseteq refused'
  OBVIOUS
<1>1. \A ok \in BOOLEAN : DoOneRequest(ok) => stream # "broken"
  BY DEF DoOneRequest, Whole
<1>2. \A f : \A ok \in BOOLEAN : FindFileByName(f, ok) => stream # "broken" /\ refused \subseteq refused'
  BY <1>1 DEF FindFileByName, RequestFile, streamVars, Whole
<1>3. CASE ListServices
  BY <1>1, <1>3 DEF ListServices, Whole
<1>4. CASE FindSymbol
  BY <1>1, <1>4 DEF FindSymbol, FindFileContainingSymbol, streamVars, Whole
<1>5. CASE LoadFile
  BY <1>2, <1>5 DEF LoadFile, streamVars, Whole
<1>6. CASE FetchFile
  BY <1>2, <1>6 DEF FetchFile, Whole
<1>7. CASE Close
  BY <1>7 DEF Close, closeDescDbStream, Whole
<1>8. CASE UNCHANGED vars
  BY <1>8 DEF vars, streamVars, resultVars, Whole
<1>9. CASE NextService \/ AllServices \/ FileBuilt \/ InsertName \/ CallGetDependencies
             \/ getDependencies \/ ServiceDone \/ Stored
  BY <1>9 DEF NextService, AllServices, FileBuilt, InsertName, CallGetDependencies, getDependencies,
       ServiceDone, Stored, streamVars, Whole
<1> QED BY <1>3, <1>4, <1>5, <1>6, <1>7, <1>8, <1>9 DEF Next

LEMMA HitGrows ==
  ASSUME [Next]_vars, refused \subseteq refused', NEW f, Hit(f)
  PROVE  Hit(f)'
<1> imports' = imports
  BY ServerFixed
<1> QED BY DEF Hit, Closed

LEMMA ShortStep == Typed /\ ShortInv /\ [Next]_vars => ShortInv'
<1> SUFFICES ASSUME Typed, ShortInv, [Next]_vars PROVE ShortInv'
  OBVIOUS
<1> imports' = imports /\ fileOf' = fileOf
  BY ServerFixed
<1> DEFINE KeepsAccounts == Whole' /\ pc' \notin {"list", "exitList"} => \A s \in Services : Accounted(s)'
           KeepsBad == Whole' => \A f \in bad' : Hit(f)'
           KeepsWant == pc' = "build" =>
             \A S \in SUBSET Files : fileOf'[cur'] \in S /\ Closed(S)' => want' \subseteq S
           KeepsRest == /\ pc' \in {"repopulate", "stored", "closed", "exitFile"} => left' = {}
                        /\ pc' = "closed" => stream' = "closed"
<1>0. Whole' => Whole /\ refused \subseteq refused' /\ (\A f : Hit(f) => Hit(f)')
  BY WholeBefore, HitGrows
<1>a. ASSUME bad' = bad PROVE KeepsBad
  BY <1>0, <1>a DEF ShortInv
<1>b. ASSUME KeepsAccounts, KeepsBad, KeepsWant, KeepsRest PROVE ShortInv'
  BY <1>b DEF ShortInv
<1> HIDE DEF KeepsAccounts, KeepsBad, KeepsWant, KeepsRest
<1>1. CASE ListServices
  <2>1. KeepsAccounts
    BY <1>1 DEF KeepsAccounts, ListServices, Accounted
  <2>2. KeepsWant /\ KeepsRest BY <1>1 DEF ListServices, KeepsWant, KeepsRest
  <2> QED BY <1>1, <1>a, <1>b, <2>1, <2>2 DEF ListServices, poolVars
<1>2. CASE NextService
  <2>1. /\ left' = left \ {cur'} /\ pc = "services"
        /\ \/ found' = found \cup {cur'} /\ pc' = "names"
           \/ found' = found /\ pc' = "symbol"
        /\ refused' = refused
    BY <1>2 DEF NextService, streamVars
  <2>2. KeepsAccounts
    BY <1>0, <2>1 DEF KeepsAccounts, ShortInv, Accounted
  <2>3. KeepsWant /\ KeepsRest BY <2>1 DEF KeepsWant, KeepsRest
  <2> QED BY <1>2, <1>a, <1>b, <2>2, <2>3 DEF NextService, poolVars
<1>3. CASE FindSymbol
  <2>1. PICK ok \in BOOLEAN : /\ FindFileContainingSymbol(cur, ok)
                              /\ pc' = IF ok THEN "build" ELSE "services"
                              /\ want' = IF ok THEN {fileOf[cur]} ELSE {}
    BY <1>3 DEF FindSymbol
  <2>2. UNCHANGED <<left, cur, found, bad>> /\ pc = "symbol"
    BY <1>3 DEF FindSymbol, loopVars
  <2>3. Whole' /\ ~ok => cur \in refused'
    <3>1. ASSUME Whole', ~ok PROVE ~DoOneRequest(FALSE)
      BY <3>1 DEF DoOneRequest, Whole
    <3> QED BY <2>1, <3>1 DEF FindFileContainingSymbol
  <2>4. KeepsAccounts
    BY <1>0, <2>1, <2>2, <2>3 DEF KeepsAccounts, ShortInv, Accounted
  <2>5. KeepsWant BY <2>1, <2>2 DEF KeepsWant
  <2>6. KeepsRest BY <2>1 DEF KeepsRest
  <2> QED BY <1>a, <1>b, <2>2, <2>4, <2>5, <2>6
<1>4. CASE LoadFile
  <2>1. PICK f \in want, ok \in BOOLEAN :
          /\ IF f \in bad THEN ~ok /\ UNCHANGED <<streamVars, known>> ELSE FindFileByName(f, ok)
          /\ IF ok
             THEN /\ cand' = cand \cup {f}
                  /\ want' = (want \cup Children(f)) \ (cand' \cup built)
                  /\ UNCHANGED <<pc, bad>>
             ELSE /\ bad' = bad \cup {f, fileOf[cur]}
                  /\ pc' = "services"
                  /\ want' = {} /\ cand' = {}
    BY <1>4 DEF LoadFile
  <2>2. UNCHANGED <<left, cur, found>> /\ pc = "build" /\ fileOf[cur] \in Files
    BY <1>4 DEF LoadFile, loopVars, Typed
  <2>3. CASE ok
    <3>1. pc' = "build" /\ bad' = bad BY <2>1, <2>2, <2>3
    <3>2. KeepsAccounts BY <1>0, <2>2, <3>1 DEF KeepsAccounts, ShortInv, Accounted
    <3>3. ASSUME NEW S \in SUBSET Files, fileOf[cur] \in S, Closed(S)
          PROVE  want' \subseteq S
      <4>1. want \subseteq S /\ f \in S BY <3>3, <2>2 DEF ShortInv
      <4>2. Children(f) \subseteq S BY <4>1, <3>3 DEF Closed, Children
      <4> QED BY <2>1, <2>3, <4>1, <4>2
    <3>4. KeepsWant BY <2>2, <3>3 DEF KeepsWant, Closed
    <3>5. KeepsRest BY <3>1 DEF KeepsRest
    <3> QED BY <1>a, <1>b, <3>1, <3>2, <3>4, <3>5
  <2>4. CASE ~ok
    <3>1. pc' = "services" /\ bad' = bad \cup {f, fileOf[cur]} BY <2>1, <2>4
    <3>2. Whole' => Hit(f)'
      <4>1. CASE f \in bad BY <1>0, <4>1 DEF ShortInv
      <4>2. CASE f \notin bad
        <5>1. Whole' => ~DoOneRequest(FALSE) BY DEF DoOneRequest, Whole
        <5>2. Whole' => f \in refused' BY <2>1, <2>4, <4>2, <5>1 DEF FindFileByName, RequestFile
        <5> QED BY <5>2 DEF Hit
      <4> QED BY <4>1, <4>2
    <3>3. Whole' => Hit(fileOf[cur])'
      <4> SUFFICES ASSUME Whole', NEW S \in SUBSET Files, fileOf[cur] \in S, Closed(S)'
                   PROVE  \E g \in S : g \in refused'
        BY <2>2 DEF Hit
      <4>1. Closed(S) BY DEF Closed
      <4>2. f \in S BY <4>1, <2>2 DEF ShortInv
      <4> QED BY <3>2, <4>2 DEF Hit
    <3>4. KeepsAccounts BY <1>0, <2>2, <3>1, <3>3 DEF KeepsAccounts, ShortInv, Accounted
    <3>5. KeepsBad BY <1>0, <2>2, <3>1, <3>2, <3>3 DEF KeepsBad, ShortInv
    <3>6. KeepsWant /\ KeepsRest BY <3>1 DEF KeepsWant, KeepsRest
    <3> QED BY <1>b, <3>4, <3>5, <3>6
  <2> QED BY <2>3, <2>4
<1>5. CASE FileBuilt
  <2>1. /\ UNCHANGED <<left, cur, bad, refused>> /\ pc = "build" /\ pc' = "names"
        /\ found' = found \cup {cur}
    BY <1>5 DEF FileBuilt, streamVars
  <2>2. KeepsAccounts BY <1>0, <2>1 DEF KeepsAccounts, ShortInv, Accounted
  <2>3. KeepsWant /\ KeepsRest BY <2>1 DEF KeepsWant, KeepsRest
  <2> QED BY <1>a, <1>b, <2>1, <2>2, <2>3
<1>6. CASE UNCHANGED vars
  <2>1. UNCHANGED <<left, cur, found, bad, refused, pc, want, stream>>
    BY <1>6 DEF vars, loopVars, poolVars, streamVars
  <2>2. KeepsAccounts BY <1>0, <2>1 DEF KeepsAccounts, ShortInv, Accounted
  <2>3. KeepsWant BY <2>1 DEF KeepsWant, ShortInv, Closed
  <2>4. KeepsRest BY <2>1 DEF KeepsRest, ShortInv
  <2> QED BY <1>a, <1>b, <2>1, <2>2, <2>3, <2>4
<1>7. ASSUME UNCHANGED <<left, cur, found, bad>>, pc' \notin {"list", "exitList", "build"},
             pc \notin {"list", "exitList", "symbol", "build"},
             pc' \in {"repopulate", "stored", "closed", "exitFile"} => left = {},
             pc' = "closed" => stream' = "closed"
      PROVE  ShortInv'
  <2>1. KeepsAccounts BY <1>0, <1>7 DEF KeepsAccounts, ShortInv, Accounted
  <2>2. KeepsWant /\ KeepsRest BY <1>7 DEF KeepsWant, KeepsRest
  <2> QED BY <1>a, <1>b, <1>7, <2>1, <2>2
<1>8. CASE AllServices \/ InsertName \/ CallGetDependencies \/ getDependencies \/ ServiceDone
  <2>1. UNCHANGED <<left, cur, found, bad>>
    BY <1>8 DEF AllServices, InsertName, CallGetDependencies, getDependencies, ServiceDone,
         loopVars, poolVars
  <2>2. /\ pc \in {"services", "names", "deps"} /\ pc' \in {"repopulate", "deps", "services"}
        /\ pc' = "repopulate" => left = {}
    BY <1>8 DEF AllServices, InsertName, CallGetDependencies, getDependencies, ServiceDone
  <2> QED BY <1>7, <2>1, <2>2
<1>9. CASE FetchFile \/ Stored \/ Close
  <2>1. UNCHANGED <<left, cur, found, bad>>
    BY <1>9 DEF FetchFile, Stored, Close, loopVars, poolVars
  <2>2. /\ pc \in {"repopulate", "stored"} /\ pc' \in {"repopulate", "stored", "exitFile", "closed"}
        /\ pc' = "closed" => stream' = "closed"
    BY <1>9 DEF FetchFile, Stored, Close, closeDescDbStream
  <2>3. left = {} BY <2>2 DEF ShortInv
  <2> QED BY <1>7, <2>1, <2>2, <2>3
<1> QED BY <1>1, <1>2, <1>3, <1>4, <1>5, <1>6, <1>8, <1>9 DEF Next

LEMMA NoneShort ==
  ASSUME Typed, ShortInv, pc \in {"stored", "closed"}, Whole, NEW s \in Services
  PROVE  ~Short(s)
<1>1. s \in found \/ s \in refused \/ (fileOf[s] \in Files /\ Hit(fileOf[s]))
  BY DEF ShortInv, Accounted
<1>2. ASSUME fileOf[s] \in Files, Hit(fileOf[s])
      PROVE  Closure({fileOf[s]}) \cap refused # {}
  <2>1. /\ Closure({fileOf[s]}) \in SUBSET Files /\ {fileOf[s]} \subseteq Closure({fileOf[s]})
        /\ Closed(Closure({fileOf[s]}))
    BY <1>2, ClosureClosed DEF Typed
  <2> QED BY <1>2, <2>1 DEF Hit
<1> QED BY <1>1, <1>2 DEF Short

\* An entry that lacks a service because the stream broke is invalidated.
THEOREM CutShort == Spec => []CutShortInvalidated
<1>1. Init => Typed /\ ShortInv
  BY TypeInit DEF Init, ShortInv
<1>2. Typed /\ ShortInv => CutShortInvalidated
  <2> SUFFICES ASSUME Typed, ShortInv, pc = "closed", ~invalid, NEW s \in Services
               PROVE  ~Short(s)
    BY DEF CutShortInvalidated
  <2>1. Whole BY DEF Whole, ShortInv
  <2> QED BY <2>1, NoneShort
<1> QED BY <1>1, <1>2, TypeStep, ShortStep, PTL DEF Spec

----------------------------------------------------------------------------
(* A session implements HostEntry.                                         *)

LEMMA StoredIsFull == (Inv /\ pc \in {"stored", "closed"} => FullEntry)'
BY EntryIsClosure, PTL

LEMMA HostEntryInit == Init => HE!Init
BY DEF Init, HE!Init

LEMMA HostEntryStep ==
  ASSUME Inv, Inv', ShortInv, [Next]_vars
  PROVE  [HE!Next]_(HE!vars)
<1> imports' = imports /\ fileOf' = fileOf
  BY ServerFixed
<1>1. CASE ListServices
  <2>1. pc = "list" /\ pc' \in {"services", "exitList"} BY <1>1 DEF ListServices
  <2>2. CASE pc' = "services" BY <2>1, <2>2 DEF HE!vars
  <2>3. CASE pc' = "exitList" BY <2>1, <2>3 DEF HE!Next, HE!Fail
  <2> QED BY <2>1, <2>2, <2>3
<1>2. CASE Stored
  <2>1. pc = "repopulate" /\ pc' = "stored" BY <1>2 DEF Stored
  <2>2. entry' = Closure(FilesOf(found))' /\ FilesOf(found)' \subseteq Files
    BY <2>1, StoredIsFull DEF FullEntry
  <2>3. found' \in SUBSET {s \in Services : fileOf[s] \in Files}
    BY <2>2 DEF Inv, Typed, TypeOK, FilesOf
  <2>4. entry' = HE!Closure(HE!FilesOf(found'))
    BY <2>2 DEF Closure, HE!Closure, FilesOf, HE!FilesOf, Closed, HE!Closed
  <2>5. HE!Store
    BY <2>1, <2>3, <2>4 DEF HE!Store
  <2> QED BY <2>5 DEF HE!Next
<1>3. CASE Close
  <2>1. PICK ok \in BOOLEAN : closeDescDbStream(ok) /\ invalid' = ~ok
    BY <1>3 DEF Close
  <2>2. /\ pc = "stored" /\ pc' = "closed" /\ UNCHANGED <<entry, found, refused>>
    BY <1>3 DEF Close, closeDescDbStream, loopVars
  <2>3. (\E s \in Services : Short(s))' <=> (\E s \in Services : Short(s))
    BY <2>2 DEF Short, Closure, Closed
  <2>4. CASE ok
    <3>1. Whole BY <2>1, <2>2, <2>4 DEF closeDescDbStream, Whole
    <3>2. \A s \in Services : ~Short(s) BY <3>1, <2>2, NoneShort DEF Inv
    <3> QED BY <2>1, <2>2, <2>3, <2>4, <3>2 DEF HE!Next, HE!Keep
  <2>5. CASE ~ok
    BY <2>1, <2>2, <2>3, <2>5 DEF HE!Next, HE!Invalidate
  <2> QED BY <2>4, <2>5
<1>4. CASE UNCHANGED vars
  <2>1. UNCHANGED <<pc, entry, invalid, found, refused>>
    BY <1>4 DEF vars, resultVars, loopVars, streamVars
  <2>2. (\E s \in Services : Short(s))' <=> (\E s \in Services : Short(s))
    BY <2>1 DEF Short, Closure, Closed
  <2> QED BY <2>1, <2>2 DEF HE!vars
<1>5. CASE /\ pc \in {"services", "symbol", "build", "names", "deps", "repopulate"}
           /\ pc' \in {"services", "symbol", "build", "names", "deps", "repopulate"}
  BY <1>5 DEF HE!vars
<1>6. NextService \/ AllServices \/ FindSymbol \/ LoadFile \/ FileBuilt \/ InsertName
        \/ CallGetDependencies \/ getDependencies \/ ServiceDone =>
        /\ pc \in {"services", "symbol", "build", "names", "deps", "repopulate"}
        /\ pc' \in {"services", "symbol", "build", "names", "deps", "repopulate"}
  BY DEF NextService, AllServices, FindSymbol, LoadFile, FileBuilt, InsertName, CallGetDependencies,
         getDependencies, ServiceDone
<1>7. FetchFile =>
        /\ pc \in {"services", "symbol", "build", "names", "deps", "repopulate"}
        /\ pc' \in {"services", "symbol", "build", "names", "deps", "repopulate"}
  BY DEF FetchFile, Inv, EntryInv
<1> QED BY <1>1, <1>2, <1>3, <1>4, <1>5, <1>6, <1>7 DEF Next

\* A session delivers an entry as the descriptor cache expects it: every
\* behaviour of Reflection is, seen from there, one of HostEntry.
THEOREM Implementation == Spec => DeliversEntry
<1>1. Init => Inv /\ ShortInv
  BY InvInit DEF Init, ShortInv
<1>2. Inv /\ ShortInv /\ [Next]_vars => Inv' /\ ShortInv'
  BY InvStep, ShortStep DEF Inv
<1>3. Inv /\ Inv' /\ ShortInv /\ [Next]_vars => [HE!Next]_(HE!vars)
  BY HostEntryStep
<1> QED BY <1>1, <1>2, <1>3, HostEntryInit, PTL DEF Spec, DeliversEntry, HE!Spec
=============================================================================
