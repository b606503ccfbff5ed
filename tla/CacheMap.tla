------------------------------ MODULE CacheMap ------------------------------
(***************************************************************************)
(* What the descriptor cache promises to invocations that follow one       *)
(* another: a map from hosts to entries that is changed in one step.       *)
(* Entries may get lost, all or some of them, but one that is found is as  *)
(* it was stored by the last session that stored one for the host.         *)
(***************************************************************************)
EXTENDS Naturals

CONSTANTS Hosts

VARIABLES
  begun,    \* number of reflection sessions begun
  stored,   \* the sessions that the entry of a host is from: one, or none
  invalid,  \* sessions that were invalidated
  served    \* the sessions that what is served is from, or none

vars == <<begun, stored, invalid, served>>

Nothing == [h \in Hosts |-> {}]

Init == begun = 0 /\ stored = Nothing /\ invalid = {} /\ served = {}

Begin == begun' = begun + 1 /\ UNCHANGED <<invalid, served, stored>>

\* The session that began last stores what it has fetched.
Store(h) ==
  /\ begun > 0 /\ begun \notin invalid
  /\ UNCHANGED <<begun, invalid, served>>
  /\ stored' = [stored EXCEPT ![h] = {begun}]

\* An invocation is killed while it stores, or cannot write.
Lose ==
  /\ UNCHANGED <<begun, invalid, served>>
  /\ \E S \in SUBSET Hosts : stored' = [h \in Hosts |-> IF h \in S THEN {} ELSE stored[h]]

\* The session that began last has failed, and everything is thrown away.
Invalidate ==
  /\ invalid' = invalid \cup {begun} /\ UNCHANGED <<begun, served>>
  /\ stored' = Nothing

\* An entry may be served, unless it is too old or of another build.
Serve(h) == UNCHANGED <<begun, invalid>> /\ served' = stored[h] /\ UNCHANGED stored

Return == UNCHANGED <<begun, invalid>> /\ served' = {} /\ UNCHANGED stored

Next ==
  \/ Begin \/ Lose \/ Invalidate \/ Return
  \/ \E h \in Hosts : Store(h) \/ Serve(h)

Spec == Init /\ [][Next]_vars
=============================================================================
