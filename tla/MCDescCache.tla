---------------------------- MODULE MCDescCache ----------------------------
(* Instances of DescCache for TLC; the .cfg files give the constants.      *)
EXTENDS DescCache, TLC

CONSTANTS p1, p2, h1, h2, v1, v2

SymProcs == Permutations({p1, p2})

(***************************************************************************)
(* States that differ only in what nothing can read any more are the same: *)
(* the contents of a file that has no name and is not open, and what is    *)
(* known of a reflection session no cell and no process refers to.         *)
(***************************************************************************)
LiveDisk == [i \in Inode |->
               IF i = path \/ \E p \in Procs : fd[p] = i THEN disk[i] ELSE <<>>]

FetchesIn(c) == {c[i].f : i \in {j \in 1 .. Len(c) : c[j].k \in {"head", "body"}}}

LiveFetches ==
  UNION ({FetchesIn(LiveDisk[i]) : i \in Inode}
         \cup {FetchesIn(buf[p]) \cup FetchesIn(out[p]) \cup {mine[p]} : p \in Procs}
         \cup {UNION {{rest[p][i].head, rest[p][i].body} : i \in 1 .. Len(rest[p])} : p \in Procs})

LiveState ==
  <<clock, path, LiveDisk, nFetches,
    [f \in FetchId \cap LiveFetches |-> fetch[f]], dropped \cap LiveFetches,
    pc, [p \in Procs |-> [run[p] EXCEPT !.gone = @ \cap LiveFetches]],
    retried, fd, buf, rest, mine, out, pos>>
=============================================================================
