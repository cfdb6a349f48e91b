---------------------------- MODULE AbstractPool ----------------------------
(***************************************************************************)
(* What WCDB's HandlePool promises the threads of an application: a handle *)
(* (a SQLite connection) is used by one thread at a time, and while the    *)
(* database is being closed or is blockaded no handle is out and none can  *)
(* be obtained.  How the pool gets there (free list, read-write lock,      *)
(* counters) is in HandlePool.tla, which is checked to implement this.     *)
(***************************************************************************)
CONSTANTS Threads, Handles

VARIABLES
    held,       \* held[t]: the handles thread t has obtained and not given back
    sealedBy    \* the threads that have the whole pool to themselves

poolVars == <<held, sealedBy>>

TypeOK ==
    /\ held \in [Threads -> SUBSET Handles]
    /\ sealedBy \in SUBSET Threads

Init ==
    /\ held = [t \in Threads |-> {}]
    /\ sealedBy = {}

Obtain(t, h) ==
    /\ sealedBy = {}
    /\ \A u \in Threads : h \notin held[u]
    /\ held' = [held EXCEPT ![t] = @ \cup {h}]
    /\ UNCHANGED sealedBy

GiveBack(t, h) ==
    /\ h \in held[t]
    /\ held' = [held EXCEPT ![t] = @ \ {h}]
    /\ UNCHANGED sealedBy

\* Closing, or the blockade, begins when every handle is back.
Seal(t) ==
    /\ sealedBy = {}
    /\ \A u \in Threads : held[u] = {}
    /\ sealedBy' = {t}
    /\ UNCHANGED held

Unseal(t) ==
    /\ t \in sealedBy
    /\ sealedBy' = sealedBy \ {t}
    /\ UNCHANGED held

Next == \E t \in Threads :
    \/ \E h \in Handles : Obtain(t, h) \/ GiveBack(t, h)
    \/ Seal(t)
    \/ Unseal(t)

Spec == Init /\ [][Next]_poolVars

=============================================================================
