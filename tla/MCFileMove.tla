----------------------------- MODULE MCFileMove -----------------------------
(***************************************************************************)
(* FileMove for TLC.                                                       *)
(***************************************************************************)
EXTENDS FileMove

=============================================================================
