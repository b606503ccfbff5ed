---------------------------- MODULE MCReflection ----------------------------
(* Instances of Reflection for TLC: every acyclic import graph of a few     *)
(* files.                                                                   *)
EXTENDS Reflection, SequencesExt

CONSTANTS NFiles, s1, s2

\* A file imports files with smaller numbers.
MCGraphs ==
  {[f \in Files |-> SetToSeq({g \in 1 .. f - 1 : <<g, f>> \in E})] :
     E \in SUBSET {e \in (1 .. NFiles) \X (1 .. NFiles) : e[1] < e[2]}}
=============================================================================
