---------------------------- MODULE MCTimedQueue ----------------------------
(***************************************************************************)
(* TimedQueue for TLC: the names of the databases.                         *)
(***************************************************************************)
EXTENDS TimedQueue

CONSTANTS k1, k2, k3

=============================================================================
