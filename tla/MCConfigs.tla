------------------------------ MODULE MCConfigs ------------------------------
(***************************************************************************)
(* Configs for TLC: the names of the threads.                              *)
(***************************************************************************)
EXTENDS Configs

CONSTANTS u1, u2

=============================================================================
