-------------------------- MODULE AbstractSnapshots --------------------------
(***************************************************************************)
(* What the write-ahead log promises to the connections of a database: a   *)
(* transaction reads one committed version from its first page to its      *)
(* last, a commit adds a version after the newest one and never forks, and *)
(* a crash loses no version that was made durable.                         *)
(***************************************************************************)
EXTENDS Naturals, Sequences

CONSTANTS Conns,      \* connections
          Images,     \* contents of the whole database
          NoImage     \* not one of Images: outside a transaction

VARIABLES versions,   \* the committed contents, oldest first
          stable,     \* how many of them a loss of power leaves
          pending,    \* content whose commit record is written, or NoImage
          view        \* what each connection reads

vars == <<versions, stable, pending, view>>

Newest == versions[Len(versions)]

Init == /\ versions \in [{1} -> Images]
        /\ stable = 1
        /\ pending = NoImage
        /\ view = [c \in Conns |-> NoImage]

(* A transaction starts on the newest version. *)
Begin(c) == /\ view[c] = NoImage
            /\ view' = [view EXCEPT ![c] = Newest]
            /\ UNCHANGED <<versions, stable, pending>>

End(c) == /\ view[c] # NoImage
          /\ view' = [view EXCEPT ![c] = NoImage]
          /\ UNCHANGED <<versions, stable, pending>>

(* Only a transaction that reads the newest version may write. *)
Prepare(c) == /\ view[c] = Newest
              /\ pending = NoImage
              /\ pending' \in Images
              /\ UNCHANGED <<versions, stable, view>>

Commit(c) == /\ pending # NoImage
             /\ view[c] = Newest
             /\ versions' = Append(versions, pending)
             /\ stable' \in {stable, Len(versions')}
             /\ pending' = NoImage
             /\ view' = [view EXCEPT ![c] = pending]

Harden == /\ stable' = Len(versions)
          /\ UNCHANGED <<versions, pending, view>>

(* What was never made durable may be lost, and a commit that was not      *)
(* answered may turn out to have happened.                                 *)
Crash == /\ \/ \E n \in stable .. Len(versions) : versions' = SubSeq(versions, 1, n)
            \/ pending # NoImage /\ versions' = Append(versions, pending)
         /\ pending' = NoImage
         /\ view' = [c \in Conns |-> NoImage]
         /\ UNCHANGED stable

Next == \/ \E c \in Conns : Begin(c) \/ End(c) \/ Prepare(c) \/ Commit(c)
        \/ Harden
        \/ Crash

Spec == Init /\ [][Next]_vars
=============================================================================
