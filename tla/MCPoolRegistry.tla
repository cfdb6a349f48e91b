--------------------------- MODULE MCPoolRegistry ---------------------------
(***************************************************************************)
(* PoolRegistry for TLC: names of paths, objects and a thread.             *)
(***************************************************************************)
EXTENDS PoolRegistry, TLC

CONSTANTS p1, p2, d1, d2, d3, t1

Symmetric == Permutations({p1, p2}) \cup Permutations({d1, d2, d3})

=============================================================================
