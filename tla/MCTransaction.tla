---------------------------- MODULE MCTransaction ----------------------------
(***************************************************************************)
(* Transaction for TLC: a thread that runs transactions, one that begins   *)
(* and ends them by hand, and one that writes and inserts.                 *)
(***************************************************************************)
EXTENDS Transaction

CONSTANTS u1, u2, u3

=============================================================================
