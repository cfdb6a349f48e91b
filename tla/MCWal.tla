------------------------------- MODULE MCWal -------------------------------
(* Two connections of one pool, each of which reads, writes and runs       *)
(* checkpoints.                                                            *)
EXTENDS Wal, TLC
CONSTANTS a, b
Both == {a, b}
Symmetric == Permutations(Both)
=============================================================================
