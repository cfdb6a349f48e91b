---------------------------- MODULE PoolRegistry ----------------------------
(***************************************************************************)
(* The table of pools by path (HandlePool::GetPool in                      *)
(* objc/WCDB/core/handle_pool.cpp), under s_mutex in every step.           *)
(*                                                                         *)
(* A holder is an object with an m_pool: a Database or a Transaction.      *)
(* GetPool makes a Recyclable (util/recyclable.hpp), here a lease; a       *)
(* getTransaction copies it, and when its last copy goes the recycler      *)
(* takes one reference off the entry of the pool's path.                   *)
(*                                                                         *)
(* A thread in a transaction keeps its connection in a table by path       *)
(* (s_threadedHandle), and the connection goes back through a raw pointer  *)
(* to its pool.  A connection used within one call, or by a Transaction,   *)
(* goes back before the lease it came by, and is left out.                 *)
(***************************************************************************)
EXTENDS Integers, FiniteSets

CONSTANTS
    Paths,
    Holders,
    Copies,     \* bound: pools of a path that exist or are pointed to at once
    Threads,
    Tags,       \* the tags the application gives; empty: it gives none
    NULL

InvalidTag == 0

\* A pool is named after its path, which never changes.
Pools == Paths \X Copies
path(pool) == pool[1]

\* A lease for each holder at most.
Leases == 1 .. Cardinality(Holders)

ASSUME RegistryAssumption ==
    /\ IsFiniteSet(Holders)
    /\ NULL \notin Pools \cup Leases

VARIABLES
    s_pools,    \* s_pools[path]: the pool of the entry, or NULL
    reference,  \* reference[path]: the count in the entry
    tag,        \* tag[pool]: field of the pool
    lease,      \* lease[holder]: the lease it has a copy of, or NULL
    poolOf,     \* poolOf[lease]: the pool the lease is for, or NULL
    threaded,   \* threaded[t][path]: the pool of t's connection, or NULL
    purging,    \* pools PurgeFreeHandlesInAllPool has a pointer to
    undefined,  \* what was used that is not there: "entry" or "pool"
    byTag,      \* history: whether a GetPool(tag) has found a pool
    abandoned   \* history: <<t, path>>: nothing of path was left meanwhile

table == <<s_pools, reference, tag>>
objects == <<lease, poolOf>>
outside == <<threaded, purging>>
vars == <<s_pools, reference, tag, lease, poolOf, threaded, purging,
          undefined, byTag, abandoned>>

InUse == {lease[d] : d \in Holders} \ {NULL}
Live(d) == lease[d] # NULL
CoreOf(d) == poolOf[lease[d]]

Registered == {s_pools[p] : p \in Paths} \ {NULL}

\* The pools that exist: registered, referred to by a lease, or being purged.
Existing == Registered \cup {poolOf[l] : l \in InUse} \cup purging

\* An address somebody still points to is not given to a new pool.
Unused == Pools \ (Existing \cup {threaded[t][p] : t \in Threads, p \in Paths})

Init ==
    /\ s_pools = [p \in Paths |-> NULL]
    /\ reference = [p \in Paths |-> 0]
    /\ tag = [q \in Pools |-> InvalidTag]
    /\ lease = [d \in Holders |-> NULL]
    /\ poolOf = [l \in Leases |-> NULL]
    /\ threaded = [t \in Threads |-> [p \in Paths |-> NULL]]
    /\ purging = {}
    /\ undefined = {}
    /\ byTag = FALSE
    /\ abandoned = {}

\* Which free name a lease or a pool gets makes no difference.
NewLease(d, pool) == LET l == CHOOSE l \in Leases \ InUse : TRUE IN
    /\ lease' = [lease EXCEPT ![d] = l]
    /\ poolOf' = [poolOf EXCEPT ![l] = pool]

\* A pool of the path with its entry, which has one lease.
NewPool(d, p) == LET free == {q \in Unused : path(q) = p}
                    pool == CHOOSE q \in free : TRUE IN
    /\ free # {}
    /\ s_pools' = [s_pools EXCEPT ![p] = pool]
    /\ tag' = [tag EXCEPT ![pool] = InvalidTag]
    /\ reference' = [reference EXCEPT ![p] = 1]
    /\ NewLease(d, pool)

\* Slip: a pool that is there is not counted again.
GetPoolUncounted(d, p) ==
    /\ undefined = {}
    /\ ~Live(d)
    /\ IF s_pools[p] = NULL
       THEN NewPool(d, p)
       ELSE NewLease(d, s_pools[p]) /\ UNCHANGED <<s_pools, tag, reference>>
    /\ UNCHANGED <<outside, undefined, byTag, abandoned>>

\* GetPool(path, defaultConfigs)
GetPool(d, p) ==
    /\ undefined = {}
    /\ ~Live(d)
    /\ \/ s_pools[p] = NULL /\ NewPool(d, p)
       \/ /\ s_pools[p] # NULL
          /\ reference' = [reference EXCEPT ![p] = @ + 1]
          /\ NewLease(d, s_pools[p])
          /\ UNCHANGED <<s_pools, tag>>
    /\ UNCHANGED <<outside, undefined, byTag, abandoned>>

\* GetPool(tag).  The loop variable is a copy of the entry, so the ++ is done
\* to the copy; the first pool found depends on the order of the table.
GetPoolByTag(d, wanted) ==
    /\ undefined = {}
    /\ ~Live(d)
    /\ wanted # InvalidTag
    /\ \E p \in Paths :
        /\ s_pools[p] # NULL
        /\ tag[s_pools[p]] = wanted
        /\ NewLease(d, s_pools[p])
    /\ byTag' = TRUE
    /\ UNCHANGED <<table, outside, undefined, abandoned>>

\* Database::setTag: the tag is the pool's.
SetTag(d, wanted) ==
    /\ undefined = {}
    /\ Live(d)
    /\ tag' = [tag EXCEPT ![CoreOf(d)] = wanted]
    /\ UNCHANGED <<s_pools, reference, objects, outside, undefined, byTag, abandoned>>

\* getTransaction: a second object with a copy of the same Recyclable.
GetTransaction(d, transaction) ==
    /\ undefined = {}
    /\ Live(d)
    /\ ~Live(transaction)
    /\ lease' = [lease EXCEPT ![transaction] = lease[d]]
    /\ UNCHANGED <<table, poolOf, outside, undefined, byTag, abandoned>>

\* The recycler: it finds the entry by path, and takes it to be there.
Recycle(p) ==
    \/ /\ s_pools[p] = NULL
       /\ undefined' = {"entry"}
       /\ UNCHANGED <<s_pools, reference>>
    \/ /\ s_pools[p] # NULL
       /\ reference' = [reference EXCEPT ![p] = @ - 1]
       /\ s_pools' = [s_pools EXCEPT ![p] = IF reference'[p] = 0 THEN NULL ELSE @]
       /\ UNCHANGED undefined

\* The threads left with a connection of a path nobody has open.
Abandon == abandoned' = abandoned \cup
    {q \in Threads \X Paths :
        /\ threaded[q[1]][q[2]] # NULL
        /\ \A d \in Holders : lease'[d] # NULL => path(poolOf[lease'[d]]) # q[2]}

\* What nobody has a pointer to is destroyed, with its fields.
Destroy ==
    /\ poolOf' = [l \in Leases |-> IF \E d \in Holders : lease'[d] = l THEN poolOf[l] ELSE NULL]
    /\ tag' = [q \in Pools |-> IF q \in Existing' THEN tag[q] ELSE InvalidTag]

\* Slip: every copy of a Recyclable recycles.
DeallocRecyclesAlways(d) ==
    /\ undefined = {}
    /\ Live(d)
    /\ lease' = [lease EXCEPT ![d] = NULL]
    /\ Recycle(path(CoreOf(d)))
    /\ Abandon
    /\ UNCHANGED <<outside, byTag>>
    /\ Destroy

\* Slip: the lease ends and the recycler is not called.
DeallocForgetsRecycler(d) ==
    /\ undefined = {}
    /\ Live(d)
    /\ lease' = [lease EXCEPT ![d] = NULL]
    /\ UNCHANGED <<table, poolOf, outside, undefined, byTag, abandoned>>

\* An object goes; the last copy of its lease recycles.
Dealloc(d) ==
    /\ undefined = {}
    /\ Live(d)
    /\ lease' = [lease EXCEPT ![d] = NULL]
    /\ \/ /\ \E e \in Holders \ {d} : lease[e] = lease[d]
          /\ UNCHANGED <<s_pools, reference, undefined>>
       \/ /\ \A e \in Holders \ {d} : lease[e] # lease[d]
          /\ Recycle(path(CoreOf(d)))
    /\ Abandon
    /\ UNCHANGED <<outside, byTag>>
    /\ Destroy

\* Database::begin: the connection stays with the thread, by path.  In a
\* transaction BEGIN fails and nothing is kept.
Begin(t, d) ==
    /\ undefined = {}
    /\ Live(d)
    /\ LET p == path(CoreOf(d))
       IN /\ threaded[t][p] = NULL
          /\ threaded' = [threaded EXCEPT ![t][p] = CoreOf(d)]
          /\ abandoned' = abandoned \ {<<t, p>>}
    /\ UNCHANGED <<table, objects, purging, undefined, byTag>>

\* The recycler of a connection: flowBack of the pool it was made by.
FlowBack(t, ps) ==
    /\ threaded' = [threaded EXCEPT ![t] = [p \in Paths |-> IF p \in ps THEN NULL ELSE @[p]]]
    /\ undefined' = IF \E p \in ps : threaded[t][p] \notin Existing \cup {NULL}
                    THEN {"pool"} ELSE {}
    /\ UNCHANGED <<table, objects, purging, byTag, abandoned>>

\* commit and rollback, by any database of the path.
EndTransaction(t, d) ==
    /\ undefined = {}
    /\ Live(d)
    /\ threaded[t][path(CoreOf(d))] # NULL
    /\ FlowBack(t, {path(CoreOf(d))})

\* The table goes with its thread.
ThreadExit(t) ==
    /\ undefined = {}
    /\ \E p \in Paths : threaded[t][p] # NULL
    /\ FlowBack(t, Paths)

PurgeFreeHandlesInAllPool ==
    /\ undefined = {}
    /\ purging = {}
    /\ purging' = Registered
    /\ UNCHANGED <<table, objects, threaded, undefined, byTag, abandoned>>

Purged ==
    /\ undefined = {}
    /\ purging' = {}
    /\ UNCHANGED <<s_pools, reference, lease, threaded, undefined, byTag, abandoned>>
    /\ Destroy

Next ==
    \/ \E d \in Holders :
        \/ \E p \in Paths : GetPool(d, p)
        \/ \E wanted \in Tags : GetPoolByTag(d, wanted) \/ SetTag(d, wanted)
        \/ \E transaction \in Holders : GetTransaction(d, transaction)
        \/ \E t \in Threads : Begin(t, d) \/ EndTransaction(t, d)
        \/ Dealloc(d)
    \/ \E t \in Threads : ThreadExit(t)
    \/ PurgeFreeHandlesInAllPool
    \/ Purged

Spec == Init /\ [][Next]_vars

-----------------------------------------------------------------------------

(* The shape of the state.                                                 *)
TypeOK ==
    /\ s_pools \in [Paths -> Pools \cup {NULL}]
    /\ reference \in [Paths -> Nat]
    /\ tag \in [Pools -> Tags \cup {InvalidTag}]
    /\ lease \in [Holders -> Leases \cup {NULL}]
    /\ poolOf \in [Leases -> Pools \cup {NULL}]
    /\ threaded \in [Threads -> [Paths -> Pools \cup {NULL}]]
    /\ purging \subseteq Pools
    /\ undefined \subseteq {"entry", "pool"}
    /\ byTag \in BOOLEAN
    /\ abandoned \subseteq Threads \X Paths

(* WCTDatabase+Database.h: "all database objects with same path share the  *)
(* same core".                                                             *)
OneCorePerPath == \A d, e \in Holders :
    Live(d) /\ Live(e) /\ path(CoreOf(d)) = path(CoreOf(e))
        => CoreOf(d) = CoreOf(e)

LeasesOf(p) == {l \in InUse : path(poolOf[l]) = p}

(* Opened by path only, the objects of a path share one core, and an entry *)
(* is there exactly as long as a lease is, with the number of leases as    *)
(* its count: no pool is dropped under an object, none is kept after the   *)
(* last, and the recycler finds the entry it counts down.                  *)
ReferencesCounted ==
    /\ TypeOK
    /\ ~byTag => /\ OneCorePerPath
                 /\ "entry" \notin undefined
                 /\ \A p \in Paths :
                     /\ reference[p] = Cardinality(LeasesOf(p))
                     /\ s_pools[p] = NULL <=> LeasesOf(p) = {}

(* Tags or not, no entry counts more leases than there are: the last one   *)
(* to go always frees the pool.                                            *)
NeverOverCounted == \A p \in Paths :
    reference[p] <= Cardinality(LeasesOf(p))

(* The connection of a transaction goes back to the pool that everybody    *)
(* who opens the path uses, through whatever objects the transaction is    *)
(* begun and ended, as long as the path is never closed in between         *)
(* (database_transaction.cpp:40-89, handle_pool.cpp:171-174).              *)
HandleHome == ~byTag => \A t \in Threads, p \in Paths :
    threaded[t][p] # NULL /\ <<t, p>> \notin abandoned => threaded[t][p] = s_pools[p]

(* No connection goes back to a pool that is gone.                         *)
PoolOutlivesHandle == "pool" \notin undefined

=============================================================================
