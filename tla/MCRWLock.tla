------------------------------ MODULE MCRWLock ------------------------------
(***************************************************************************)
(* RWLock for TLC: the names of the threads.                               *)
(***************************************************************************)
EXTENDS RWLock

CONSTANTS t1, t2, t3

=============================================================================
