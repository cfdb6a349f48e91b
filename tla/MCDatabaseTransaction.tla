------------------------ MODULE MCDatabaseTransaction ------------------------
(***************************************************************************)
(* DatabaseTransaction for TLC: threads are alike, and so are handles.     *)
(***************************************************************************)
EXTENDS DatabaseTransaction, TLC

CONSTANTS u1, u2, u3, h1, h2, h3

Perms == Permutations({u1, u2, u3}) \cup Permutations({h1, h2, h3})

=============================================================================
