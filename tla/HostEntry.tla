----------------------------- MODULE HostEntry -----------------------------
(***************************************************************************)
(* What the descriptor cache expects of a reflection session: it delivers, *)
(* in one step, the files of some of the services of the server together   *)
(* with everything they import; the entry is kept afterwards only if       *)
(* nothing is missing but what the server itself has refused.              *)
(***************************************************************************)
CONSTANTS Files, Services

VARIABLES
  imports,   \* the files that a file of the server imports
  fileOf,    \* the file in which a service is defined
  entry,     \* the files in the entry
  short,     \* the entry lacks a service although the server did not refuse it
  state      \* of the entry

vars == <<imports, fileOf, entry, short, state>>

Closed(S) == \A f \in S : \A i \in DOMAIN imports[f] : imports[f][i] \in S

\* The files reachable from R over imports: the smallest closed set around R.
Closure(R) == {f \in Files : \A S \in SUBSET Files : R \subseteq S /\ Closed(S) => f \in S}

FilesOf(T) == {fileOf[s] : s \in T}

Init == entry = {} /\ short = FALSE /\ state = "fetching"

\* The services that were found, and whether that is all there is.
Store ==
  /\ state = "fetching" /\ state' = "stored"
  /\ \E found \in SUBSET {s \in Services : fileOf[s] \in Files} :
       entry' = Closure(FilesOf(found))
  /\ short' \in BOOLEAN
  /\ UNCHANGED <<imports, fileOf>>

Fail == state = "fetching" /\ state' = "failed" /\ UNCHANGED <<imports, fileOf, entry, short>>

Keep == /\ state = "stored" /\ ~short
        /\ state' = "kept" /\ UNCHANGED <<imports, fileOf, entry, short>>

Invalidate == /\ state = "stored"
              /\ state' = "invalid" /\ UNCHANGED <<imports, fileOf, entry, short>>

Next == Store \/ Fail \/ Keep \/ Invalidate

Spec == Init /\ [][Next]_vars
=============================================================================
