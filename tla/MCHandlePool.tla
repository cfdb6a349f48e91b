---------------------------- MODULE MCHandlePool ----------------------------
(***************************************************************************)
(* HandlePool for TLC: the names of the threads.  Threads that do not      *)
(* close are alike.                                                        *)
(***************************************************************************)
EXTENDS HandlePool, TLC

CONSTANTS u1, u2, u3

Perms == Permutations({u2, u3})

=============================================================================
