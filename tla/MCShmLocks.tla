----------------------------- MODULE MCShmLocks -----------------------------
(* Three connections, one of them on the main thread, and a checkpointer   *)
(* among them; READ_LOCK(0), which checkpoints hold for long, and one more.*)
EXTENDS ShmLocks
CONSTANTS a, b, m
MCConns == {a, b, m}
MCMain == {m}
=============================================================================
