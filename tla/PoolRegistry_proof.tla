--------------------------- MODULE PoolRegistry_proof ---------------------------
(***************************************************************************)
(* PoolRegistry for any paths, any finite set of objects and any threads:  *)
(* the count of an entry is the number of leases of its path as long as    *)
(* nobody looks a pool up by tag, never more than it even then, and a      *)
(* connection goes back to the pool that everybody uses.                   *)
(***************************************************************************)
EXTENDS PoolRegistry, FiniteSetTheorems, TLAPS

(* Every name leads where it says: an entry and a kept connection to pools *)
(* of their path, a lease that somebody has to a pool.                     *)
Named ==
    /\ \A p \in Paths : s_pools[p] # NULL => path(s_pools[p]) = p
    /\ \A t \in Threads, p \in Paths : threaded[t][p] # NULL => path(threaded[t][p]) = p
    /\ \A l \in InUse : poolOf[l] \in Pools

(* An entry is there exactly as long as its count is not zero.             *)
Entered == \A p \in Paths : s_pools[p] = NULL <=> reference[p] = 0

(* By path only, every lease is for the pool of its path's entry, and the  *)
(* entry counts it.                                                        *)
Counted == ~byTag =>
    /\ "entry" \notin undefined
    /\ \A l \in InUse : poolOf[l] = s_pools[path(poolOf[l])]
    /\ \A p \in Paths : reference[p] = Cardinality(LeasesOf(p))

IInv == TypeOK /\ Named /\ Entered /\ NeverOverCounted /\ Counted /\ HandleHome

-----------------------------------------------------------------------------
(* Leases.                                                                 *)

LEMMA LeasesFinite ==
    ASSUME TypeOK
    PROVE  /\ Cardinality(Holders) \in Nat
           /\ IsFiniteSet(Leases) /\ Cardinality(Leases) = Cardinality(Holders)
           /\ InUse \subseteq Leases
           /\ \A p \in Paths : /\ LeasesOf(p) \subseteq InUse
                               /\ IsFiniteSet(LeasesOf(p))
                               /\ Cardinality(LeasesOf(p)) \in Nat
<1>1. Cardinality(Holders) \in Nat
  BY RegistryAssumption, FS_CardinalityType
<1>2. IsFiniteSet(Leases) /\ Cardinality(Leases) = Cardinality(Holders)
  <2>1. PICK n \in Nat : n = Cardinality(Holders) /\ Leases = 1 .. n
    BY <1>1 DEF Leases
  <2>2. IsFiniteSet(1 .. n) /\ Cardinality(1 .. n) = n
    BY FS_Interval
  <2> QED
    BY <2>1, <2>2
<1>3. InUse \subseteq Leases
  BY DEF InUse, TypeOK
<1>4. \A p \in Paths : LeasesOf(p) \subseteq InUse
  BY DEF LeasesOf
<1>5. \A p \in Paths : IsFiniteSet(LeasesOf(p))
  BY <1>2, <1>3, <1>4, FS_Subset
<1> QED
  BY <1>1, <1>2, <1>3, <1>4, <1>5, FS_CardinalityType

(* An object that has no lease leaves one for itself.                      *)
LEMMA LeaseFree ==
    ASSUME TypeOK, NEW d \in Holders, ~Live(d)
    PROVE  \E l \in Leases : l \notin InUse
<1> DEFINE others == Holders \ {d}
           taken == {lease[e] : e \in others}
           at == [e \in others |-> lease[e]]
<1>1. IsFiniteSet(others) /\ Cardinality(others) = Cardinality(Holders) - 1
  BY RegistryAssumption, FS_RemoveElement
<1>2. at \in Surjection(others, taken)
  BY DEF Surjection
<1>3. IsFiniteSet(taken) /\ Cardinality(taken) =< Cardinality(others)
  BY <1>1, <1>2, FS_Surjection
<1>4. Cardinality(taken) \in Nat
  BY <1>3, FS_CardinalityType
<1>5. InUse \subseteq taken
  BY DEF InUse, Live
<1> HIDE DEF taken
<1>6. ~(Leases \subseteq taken)
  <2>1. Leases \subseteq taken => Cardinality(Leases) =< Cardinality(taken)
    BY <1>3, FS_Subset
  <2> QED
    BY <1>1, <1>3, <1>4, <2>1, LeasesFinite
<1> QED
  BY <1>5, <1>6

(* A new lease is one more of its path, and changes no other.              *)
LEMMA NewLeaseCounts ==
    ASSUME TypeOK, NEW d \in Holders, ~Live(d), NEW pool \in Pools, NewLease(d, pool)
    PROVE  \E l \in Leases \ InUse :
             /\ lease' = [lease EXCEPT ![d] = l]
             /\ poolOf' = [poolOf EXCEPT ![l] = pool]
             /\ InUse' = InUse \cup {l}
             /\ \A k \in InUse : poolOf'[k] = poolOf[k]
             /\ poolOf'[l] = pool
             /\ \A p \in Paths : LeasesOf(p)' =
                    IF p = path(pool) THEN LeasesOf(p) \cup {l} ELSE LeasesOf(p)
             /\ \A p \in Paths : l \notin LeasesOf(p)
<1>1. PICK l \in Leases \ InUse :
        /\ lease' = [lease EXCEPT ![d] = l]
        /\ poolOf' = [poolOf EXCEPT ![l] = pool]
  BY LeaseFree DEF NewLease
<1>2. InUse' = InUse \cup {l}
  BY <1>1, RegistryAssumption DEF InUse, TypeOK, Live
<1>3. /\ \A k \in InUse : poolOf'[k] = poolOf[k]
      /\ poolOf'[l] = pool
  BY <1>1, LeasesFinite DEF TypeOK
<1>4. \A p : LeasesOf(p)' = IF p = path(pool) THEN LeasesOf(p) \cup {l} ELSE LeasesOf(p)
  BY <1>2, <1>3 DEF LeasesOf
<1>5. \A p : l \notin LeasesOf(p)
  BY <1>1 DEF LeasesOf
<1> QED
  BY <1>1, <1>2, <1>3, <1>4, <1>5

(* What is destroyed nobody has a lease for.                               *)
LEMMA DestroyKeeps ==
    ASSUME TypeOK, Destroy, lease' \in [Holders -> Leases \cup {NULL}]
    PROVE  /\ poolOf' \in [Leases -> Pools \cup {NULL}]
           /\ tag' \in [Pools -> Tags \cup {InvalidTag}]
           /\ \A k \in InUse' : poolOf'[k] = poolOf[k]
<1>1. poolOf' \in [Leases -> Pools \cup {NULL}]
  BY DEF Destroy, TypeOK
<1>2. tag' \in [Pools -> Tags \cup {InvalidTag}]
  BY DEF Destroy, TypeOK
<1>3. \A k \in InUse' : poolOf'[k] = poolOf[k]
  BY DEF Destroy, InUse
<1> QED
  BY <1>1, <1>2, <1>3

(* A lease goes with its last copy, and no sooner.                         *)
LEMMA DeallocCounts ==
    ASSUME TypeOK, NEW d \in Holders, Live(d), Destroy,
           lease' = [lease EXCEPT ![d] = NULL]
    PROVE  /\ lease[d] \in InUse
           /\ \A k \in InUse' : k \in InUse /\ poolOf'[k] = poolOf[k]
           /\ (\E e \in Holders \ {d} : lease[e] = lease[d]) => InUse' = InUse
           /\ (\A e \in Holders \ {d} : lease[e] # lease[d]) =>
                 InUse' = InUse \ {lease[d]}
<1>1. \A e \in Holders : lease'[e] = IF e = d THEN NULL ELSE lease[e]
  BY DEF TypeOK
<1>2. lease' \in [Holders -> Leases \cup {NULL}]
  BY DEF TypeOK
<1>3. \A k \in InUse' : poolOf'[k] = poolOf[k]
  BY <1>2, DestroyKeeps
<1>4. lease[d] \in InUse /\ InUse' \subseteq InUse
  BY <1>1 DEF InUse, Live
<1>5. (\E e \in Holders \ {d} : lease[e] = lease[d]) => InUse' = InUse
  BY <1>1 DEF InUse, Live
<1>6. (\A e \in Holders \ {d} : lease[e] # lease[d]) => InUse' = InUse \ {lease[d]}
  BY <1>1 DEF InUse, Live
<1> QED
  BY <1>3, <1>4, <1>5, <1>6

-----------------------------------------------------------------------------
(* One operation after the other.                                          *)

(* A step that changes no lease, no entry and no kept connection.          *)
LEMMA QuietPreserves ==
    ASSUME IInv, TypeOK', UNCHANGED <<s_pools, reference, threaded, undefined, byTag,
                                      abandoned>>,
           InUse' = InUse,
           \A k \in InUse : poolOf'[k] = poolOf[k]
    PROVE  IInv'
<1>1. \A p : LeasesOf(p)' = LeasesOf(p)
  BY DEF LeasesOf
<1>2. Named' /\ Entered' /\ HandleHome'
  BY DEF IInv, Named, Entered, HandleHome
<1>3. NeverOverCounted'
  BY <1>1 DEF IInv, NeverOverCounted
<1>4. Counted'
  BY <1>1 DEF IInv, Counted
<1> QED
  BY <1>2, <1>3, <1>4 DEF IInv

LEMMA GetPoolPreserves ==
    ASSUME IInv, NEW d \in Holders, NEW p \in Paths, GetPool(d, p)
    PROVE  IInv'
<1> USE DEF IInv
<1>1. PICK pool \in Pools :
        /\ path(pool) = p /\ s_pools' = [s_pools EXCEPT ![p] = pool]
        /\ s_pools[p] = NULL \/ s_pools[p] = pool
        /\ reference' = [reference EXCEPT ![p] = reference[p] + 1]
        /\ NewLease(d, pool)
        /\ tag' \in [Pools -> Tags \cup {InvalidTag}]
  <2>1. CASE s_pools[p] = NULL /\ NewPool(d, p)
    <3> DEFINE free == {q \in Unused : path(q) = p}
               pool == CHOOSE q \in free : TRUE
    <3>1. free # {} /\ free \subseteq Pools
      BY <2>1 DEF NewPool, Unused
    <3>2. pool \in free
      BY <3>1
    <3>3. path(pool) = p /\ pool \in Pools
      BY <3>1, <3>2
    <3>4. /\ s_pools' = [s_pools EXCEPT ![p] = pool]
          /\ tag' = [tag EXCEPT ![pool] = InvalidTag]
          /\ reference' = [reference EXCEPT ![p] = 1]
          /\ NewLease(d, pool)
      BY <2>1 DEF NewPool
    <3> HIDE DEF pool
    <3>5. reference[p] + 1 = 1
      BY <2>1 DEF Entered
    <3>6. tag' \in [Pools -> Tags \cup {InvalidTag}]
      BY <3>4 DEF TypeOK
    <3> QED
      BY <2>1, <3>3, <3>4, <3>5, <3>6
  <2>2. CASE /\ s_pools[p] # NULL
             /\ reference' = [reference EXCEPT ![p] = @ + 1]
             /\ NewLease(d, s_pools[p])
             /\ UNCHANGED <<s_pools, tag>>
    <3>1. s_pools[p] \in Pools /\ path(s_pools[p]) = p
      BY <2>2 DEF TypeOK, Named
    <3>2. s_pools' = [s_pools EXCEPT ![p] = s_pools[p]]
      BY <2>2 DEF TypeOK
    <3>3. tag' \in [Pools -> Tags \cup {InvalidTag}]
      BY <2>2 DEF TypeOK
    <3> QED
      BY <2>2, <3>1, <3>2, <3>3
  <2> QED
    BY <2>1, <2>2 DEF GetPool
<1>2. /\ ~Live(d) /\ "entry" \notin undefined
      /\ UNCHANGED <<threaded, purging, undefined, byTag, abandoned>>
  BY DEF GetPool, outside
<1>3. PICK l \in Leases \ InUse :
        /\ lease' = [lease EXCEPT ![d] = l]
        /\ poolOf' = [poolOf EXCEPT ![l] = pool]
        /\ InUse' = InUse \cup {l}
        /\ \A k \in InUse : poolOf'[k] = poolOf[k]
        /\ poolOf'[l] = pool
        /\ LeasesOf(p)' = LeasesOf(p) \cup {l} /\ l \notin LeasesOf(p)
        /\ \A q \in Paths \ {p} : LeasesOf(q)' = LeasesOf(q)
  BY <1>1, <1>2, NewLeaseCounts
<1>4. TypeOK'
  <2>1. /\ s_pools' \in [Paths -> Pools \cup {NULL}]
        /\ reference' \in [Paths -> Nat]
    BY <1>1 DEF TypeOK
  <2>2. /\ lease' \in [Holders -> Leases \cup {NULL}]
        /\ poolOf' \in [Leases -> Pools \cup {NULL}]
    BY <1>3 DEF TypeOK
  <2> QED
    BY <1>1, <1>2, <2>1, <2>2 DEF TypeOK
<1>5. Cardinality(LeasesOf(p)') = Cardinality(LeasesOf(p)) + 1
  <2>1. IsFiniteSet(LeasesOf(p))
    BY LeasesFinite
  <2>2. LeasesOf(p)' = LeasesOf(p) \cup {l} /\ l \notin LeasesOf(p)
    BY <1>3
  <2> QED
    BY <2>1, <2>2, FS_AddElement
<1>6. /\ reference'[p] = reference[p] + 1 /\ reference[p] \in Nat
      /\ \A q \in Paths \ {p} : reference'[q] = reference[q]
      /\ s_pools'[p] = pool
      /\ \A q \in Paths \ {p} : s_pools'[q] = s_pools[q]
      /\ pool # NULL
  BY <1>1, RegistryAssumption DEF TypeOK
<1>7. Named'
  BY <1>1, <1>2, <1>3, <1>6 DEF Named
<1>8. Entered'
  <2>1. reference'[p] # 0
    BY <1>6
  <2> QED
    BY <1>6, <2>1 DEF Entered
<1>9. NeverOverCounted'
  <2>1. reference'[p] =< Cardinality(LeasesOf(p)')
    BY <1>5, <1>6, LeasesFinite DEF NeverOverCounted
  <2>2. \A q \in Paths \ {p} : reference'[q] =< Cardinality(LeasesOf(q)')
    BY <1>1, <1>3, <1>6 DEF NeverOverCounted
  <2> QED
    BY <2>1, <2>2 DEF NeverOverCounted
<1>10. Counted'
  <2> SUFFICES ASSUME ~byTag
               PROVE  /\ \A k \in InUse' : poolOf'[k] = s_pools'[path(poolOf'[k])]
                      /\ \A q \in Paths : reference'[q] = Cardinality(LeasesOf(q)')
    BY <1>2 DEF Counted
  <2>1. /\ \A k \in InUse : poolOf[k] = s_pools[path(poolOf[k])] /\ poolOf[k] \in Pools
        /\ \A q \in Paths : reference[q] = Cardinality(LeasesOf(q))
    BY DEF Counted, Named
  <2>2. ASSUME NEW k \in InUse
        PROVE  poolOf'[k] = s_pools'[path(poolOf'[k])]
    <3>1. poolOf'[k] = poolOf[k] /\ path(poolOf[k]) \in Paths
      BY <1>3, <2>1 DEF Pools, path
    <3>2. CASE path(poolOf[k]) # p
      BY <1>6, <2>1, <3>1, <3>2
    <3>3. CASE path(poolOf[k]) = p
      <4>1. poolOf[k] = s_pools[p] /\ poolOf[k] # NULL
        BY <2>1, <3>3, RegistryAssumption
      <4>2. s_pools[p] = pool
        BY <1>1, <4>1
      <4> QED
        BY <1>6, <3>1, <3>3, <4>1, <4>2
    <3> QED
      BY <3>2, <3>3
  <2>3. poolOf'[l] = s_pools'[path(poolOf'[l])]
    BY <1>1, <1>3, <1>6
  <2>4. \A q \in Paths : reference'[q] = Cardinality(LeasesOf(q)')
    <3>1. ASSUME NEW q \in Paths \ {p}
          PROVE  reference'[q] = Cardinality(LeasesOf(q)')
      BY <1>3, <1>6, <2>1
    <3> QED
      BY <1>5, <1>6, <2>1, <3>1
  <2> QED
    BY <1>3, <2>2, <2>3, <2>4
<1>11. HandleHome'
  <2> SUFFICES ASSUME ~byTag, NEW t \in Threads, NEW q \in Paths,
                      threaded[t][q] # NULL, <<t, q>> \notin abandoned
               PROVE  threaded[t][q] = s_pools'[q]
    BY <1>2 DEF HandleHome
  <2>1. threaded[t][q] = s_pools[q]
    BY DEF HandleHome
  <2> QED
    BY <1>1, <1>6, <2>1
<1> QED
  BY <1>4, <1>7, <1>8, <1>9, <1>10, <1>11

LEMMA GetPoolByTagPreserves ==
    ASSUME IInv, NEW d \in Holders, NEW wanted \in Tags, GetPoolByTag(d, wanted)
    PROVE  IInv'
<1> USE DEF IInv
<1>1. PICK p \in Paths : s_pools[p] # NULL /\ NewLease(d, s_pools[p])
  BY DEF GetPoolByTag
<1>2. /\ ~Live(d) /\ byTag' = TRUE
      /\ UNCHANGED <<s_pools, reference, tag, threaded, purging, undefined, abandoned>>
  BY DEF GetPoolByTag, table, outside
<1>3. s_pools[p] \in Pools
  BY <1>1 DEF TypeOK
<1>4. PICK l \in Leases \ InUse :
        /\ lease' = [lease EXCEPT ![d] = l]
        /\ poolOf' = [poolOf EXCEPT ![l] = s_pools[p]]
        /\ InUse' = InUse \cup {l}
        /\ \A k \in InUse : poolOf'[k] = poolOf[k]
        /\ poolOf'[l] = s_pools[p]
        /\ \A q \in Paths : LeasesOf(q)' =
               IF q = path(s_pools[p]) THEN LeasesOf(q) \cup {l} ELSE LeasesOf(q)
        /\ \A q \in Paths : l \notin LeasesOf(q)
  BY <1>1, <1>2, <1>3, NewLeaseCounts
<1>5. TypeOK'
  <2>1. /\ lease' \in [Holders -> Leases \cup {NULL}]
        /\ poolOf' \in [Leases -> Pools \cup {NULL}]
    BY <1>3, <1>4 DEF TypeOK
  <2> QED
    BY <1>2, <2>1 DEF TypeOK
<1>6. Named' /\ Entered' /\ Counted' /\ HandleHome'
  BY <1>2, <1>3, <1>4 DEF Named, Entered, Counted, HandleHome
<1>7. NeverOverCounted'
  <2> SUFFICES ASSUME NEW q \in Paths
               PROVE  reference[q] =< Cardinality(LeasesOf(q)')
    BY <1>2 DEF NeverOverCounted
  <2>1. reference[q] =< Cardinality(LeasesOf(q)) /\ reference[q] \in Nat
    BY DEF NeverOverCounted, TypeOK
  <2>2. IsFiniteSet(LeasesOf(q)) /\ Cardinality(LeasesOf(q)) \in Nat
    BY LeasesFinite
  <2>3. CASE LeasesOf(q)' = LeasesOf(q)
    BY <2>1, <2>3
  <2>4. CASE LeasesOf(q)' = LeasesOf(q) \cup {l}
    <3>1. Cardinality(LeasesOf(q)') = Cardinality(LeasesOf(q)) + 1
      BY <1>4, <2>2, <2>4, FS_AddElement
    <3> QED
      BY <2>1, <2>2, <3>1
  <2> QED
    BY <1>4, <2>3, <2>4
<1> QED
  BY <1>5, <1>6, <1>7

LEMMA DeallocPreserves ==
    ASSUME IInv, NEW d \in Holders, Dealloc(d)
    PROVE  IInv'
<1> USE DEF IInv
<1>1. /\ Live(d) /\ undefined = {} /\ Destroy /\ Abandon
      /\ lease' = [lease EXCEPT ![d] = NULL]
      /\ UNCHANGED <<threaded, purging, byTag>>
  BY DEF Dealloc, outside
<1>2. PICK l \in InUse :
        /\ l = lease[d]
        /\ \A k \in InUse' : k \in InUse /\ poolOf'[k] = poolOf[k]
        /\ (\E e \in Holders \ {d} : lease[e] = l) => InUse' = InUse
        /\ (\A e \in Holders \ {d} : lease[e] # l) => InUse' = InUse \ {l}
  BY <1>1, DeallocCounts
<1>3. PICK p \in Paths : p = path(CoreOf(d)) /\ p = path(poolOf[l])
  BY <1>2 DEF Named, CoreOf, Pools, path
<1>4. /\ lease' \in [Holders -> Leases \cup {NULL}]
      /\ poolOf' \in [Leases -> Pools \cup {NULL}]
      /\ tag' \in [Pools -> Tags \cup {InvalidTag}]
      /\ abandoned' \subseteq Threads \X Paths
  <2>1. lease' \in [Holders -> Leases \cup {NULL}]
    BY <1>1 DEF TypeOK
  <2>2. abandoned' \subseteq Threads \X Paths
    BY <1>1 DEF Abandon, TypeOK
  <2> QED
    BY <1>1, <2>1, <2>2, DestroyKeeps
\* A kept connection whose path is closed now is abandoned.
<1>5. /\ abandoned \subseteq abandoned'
      /\ \A t \in Threads, q \in Paths :
           threaded[t][q] # NULL /\ LeasesOf(q)' = {} => <<t, q>> \in abandoned'
  <2>1. abandoned \subseteq abandoned'
    BY <1>1 DEF Abandon
  <2>2. ASSUME NEW t \in Threads, NEW q \in Paths,
               threaded[t][q] # NULL, LeasesOf(q)' = {}
        PROVE  <<t, q>> \in abandoned'
    <3>1. ASSUME NEW e \in Holders, lease'[e] # NULL
          PROVE  path(poolOf[lease'[e]]) # q
      <4>1. lease'[e] \in InUse'
        BY <3>1 DEF InUse
      <4>2. poolOf'[lease'[e]] = poolOf[lease'[e]]
        BY <1>2, <4>1
      <4> QED
        BY <2>2, <4>1, <4>2 DEF LeasesOf
    <3>2. <<t, q>> \in Threads \X Paths
      OBVIOUS
    <3> QED
      BY <1>1, <2>2, <3>1, <3>2 DEF Abandon
  <2> QED
    BY <2>1, <2>2
\* Not the last copy of its lease.
<1>6. CASE \E e \in Holders \ {d} : lease[e] = l
  <2>1. UNCHANGED <<s_pools, reference, undefined>> /\ InUse' = InUse
    BY <1>2, <1>6 DEF Dealloc
  <2>2. TypeOK'
    BY <1>1, <1>4, <2>1 DEF TypeOK
  <2>3. \A q : LeasesOf(q)' = LeasesOf(q)
    BY <1>2, <2>1 DEF LeasesOf
  <2>4. Named' /\ Entered'
    BY <1>1, <1>2, <2>1 DEF Named, Entered
  <2>5. HandleHome'
    BY <1>1, <1>5, <2>1 DEF HandleHome
  <2>6. NeverOverCounted'
    BY <2>1, <2>3 DEF NeverOverCounted
  <2>7. Counted'
    BY <1>1, <1>2, <2>1, <2>3 DEF Counted
  <2> QED
    BY <2>2, <2>4, <2>5, <2>6, <2>7
\* The last one: the recycler counts the entry of the path down.
<1>7. CASE \A e \in Holders \ {d} : lease[e] # l
  <2>1. InUse' = InUse \ {l} /\ Recycle(p)
    BY <1>2, <1>3, <1>7 DEF Dealloc
  <2>2. /\ LeasesOf(p)' = LeasesOf(p) \ {l} /\ l \in LeasesOf(p)
        /\ \A q \in Paths \ {p} : LeasesOf(q)' = LeasesOf(q)
    BY <1>2, <1>3, <2>1 DEF LeasesOf
  <2>3. /\ Cardinality(LeasesOf(p)') = Cardinality(LeasesOf(p)) - 1
        /\ Cardinality(LeasesOf(p)) \in Nat /\ Cardinality(LeasesOf(p)') \in Nat
        /\ Cardinality(LeasesOf(p)') = 0 => LeasesOf(p)' = {}
    <3>1. IsFiniteSet(LeasesOf(p)) /\ Cardinality(LeasesOf(p)) \in Nat
      BY <1>3, LeasesFinite
    <3>2. /\ IsFiniteSet(LeasesOf(p) \ {l})
          /\ Cardinality(LeasesOf(p) \ {l}) = Cardinality(LeasesOf(p)) - 1
      BY <2>2, <3>1, FS_RemoveElement
    <3>3. /\ Cardinality(LeasesOf(p) \ {l}) \in Nat
          /\ Cardinality(LeasesOf(p) \ {l}) = 0 => LeasesOf(p) \ {l} = {}
      BY <3>2, FS_CardinalityType, FS_EmptySet
    <3> QED
      BY <2>2, <3>1, <3>2, <3>3
  <2>4. reference[p] \in Nat /\ reference[p] =< Cardinality(LeasesOf(p))
    BY <1>3 DEF TypeOK, NeverOverCounted
  \* The entry is gone: the tag has brought an object to a pool it does not count.
  <2>5. CASE s_pools[p] = NULL
    <3>1. undefined' = {"entry"} /\ UNCHANGED <<s_pools, reference>>
      BY <2>1, <2>5 DEF Recycle
    <3>2. byTag /\ byTag'
      <4>1. reference[p] = 0
        BY <1>3, <2>5 DEF Entered
      <4>2. Cardinality(LeasesOf(p)) # 0
        BY <2>3
      <4> QED
        BY <1>1, <1>3, <4>1, <4>2 DEF Counted
    <3>3. TypeOK'
      BY <1>1, <1>4, <3>1 DEF TypeOK
    <3>4. Named' /\ Entered' /\ Counted' /\ HandleHome'
      BY <1>1, <1>2, <3>1, <3>2 DEF Named, Entered, Counted, HandleHome
    <3>5. NeverOverCounted'
      <4>1. reference[p] = 0
        BY <1>3, <2>5 DEF Entered
      <4>2. reference'[p] =< Cardinality(LeasesOf(p)')
        BY <2>3, <3>1, <4>1
      <4>3. \A q \in Paths \ {p} : reference'[q] =< Cardinality(LeasesOf(q)')
        BY <2>2, <3>1 DEF NeverOverCounted
      <4> QED
        BY <4>2, <4>3 DEF NeverOverCounted
    <3> QED
      BY <3>3, <3>4, <3>5
  <2>6. CASE s_pools[p] # NULL
    <3>1. /\ reference' = [reference EXCEPT ![p] = @ - 1]
          /\ s_pools' = [s_pools EXCEPT ![p] = IF reference'[p] = 0 THEN NULL ELSE @]
          /\ undefined' = undefined
      BY <2>1, <2>6 DEF Recycle
    <3>2. reference[p] # 0
      BY <1>3, <2>6 DEF Entered
    <3>3. /\ reference'[p] = reference[p] - 1 /\ reference'[p] \in Nat
          /\ \A q \in Paths \ {p} : reference'[q] = reference[q]
      <4>1. /\ reference'[p] = reference[p] - 1
            /\ \A q \in Paths \ {p} : reference'[q] = reference[q]
        BY <3>1 DEF TypeOK
      <4> QED
        BY <2>4, <3>2, <4>1
    <3>4. /\ s_pools'[p] = IF reference'[p] = 0 THEN NULL ELSE s_pools[p]
          /\ \A q \in Paths \ {p} : s_pools'[q] = s_pools[q]
      BY <1>3, <3>1 DEF TypeOK
    <3>5. TypeOK'
      <4>1. reference' \in [Paths -> Nat]
        BY <1>3, <3>1, <3>3 DEF TypeOK
      <4>2. s_pools' \in [Paths -> Pools \cup {NULL}]
        BY <1>3, <3>1 DEF TypeOK
      <4> QED
        BY <1>1, <1>4, <3>1, <4>1, <4>2 DEF TypeOK
    <3>6. Named'
      BY <1>1, <1>2, <3>4 DEF Named
    <3>7. Entered'
      BY <2>6, <3>3, <3>4 DEF Entered
    <3>8. NeverOverCounted'
      <4>1. reference'[p] =< Cardinality(LeasesOf(p)')
        BY <2>3, <2>4, <3>3
      <4> QED
        BY <2>2, <3>3, <4>1 DEF NeverOverCounted
    <3>9. ASSUME ~byTag
          PROVE  /\ \A k \in InUse : poolOf[k] = s_pools[path(poolOf[k])]
                 /\ \A q \in Paths : reference[q] = Cardinality(LeasesOf(q))
                 /\ reference'[p] = Cardinality(LeasesOf(p)')
                 /\ reference'[p] = 0 => LeasesOf(p)' = {}
      <4>1. /\ \A k \in InUse : poolOf[k] = s_pools[path(poolOf[k])]
            /\ \A q \in Paths : reference[q] = Cardinality(LeasesOf(q))
        BY <3>9 DEF Counted
      <4>2. reference'[p] = Cardinality(LeasesOf(p)')
        BY <1>3, <2>3, <3>3, <4>1
      <4> QED
        BY <2>3, <4>1, <4>2
    <3>10. Counted'
      <4> SUFFICES ASSUME ~byTag
                   PROVE  /\ \A k \in InUse' : poolOf'[k] = s_pools'[path(poolOf'[k])]
                          /\ \A q \in Paths : reference'[q] = Cardinality(LeasesOf(q)')
        BY <1>1, <3>1 DEF Counted
      <4>1. ASSUME NEW k \in InUse'
            PROVE  poolOf'[k] = s_pools'[path(poolOf'[k])]
        <5>1. k \in InUse /\ poolOf'[k] = poolOf[k] /\ poolOf[k] = s_pools[path(poolOf[k])]
          BY <1>2, <3>9
        <5>2. path(poolOf[k]) \in Paths
          BY <5>1 DEF Named, Pools, path
        <5>3. CASE path(poolOf[k]) # p
          BY <3>4, <5>1, <5>2, <5>3
        <5>4. CASE path(poolOf[k]) = p
          <6>1. k \in LeasesOf(p)'
            BY <5>1, <5>4 DEF LeasesOf
          <6>2. reference'[p] # 0
            BY <3>9, <6>1
          <6> QED
            BY <3>4, <5>1, <5>4, <6>2
        <5> QED
          BY <5>3, <5>4
      <4>2. ASSUME NEW q \in Paths
            PROVE  reference'[q] = Cardinality(LeasesOf(q)')
        <5>1. CASE q = p
          BY <3>9, <5>1
        <5>2. CASE q # p
          BY <2>2, <3>3, <3>9, <5>2
        <5> QED
          BY <5>1, <5>2
      <4> QED
        BY <4>1, <4>2
    <3>11. HandleHome'
      <4> SUFFICES ASSUME ~byTag, NEW t \in Threads, NEW q \in Paths,
                          threaded[t][q] # NULL, <<t, q>> \notin abandoned'
                   PROVE  threaded[t][q] = s_pools'[q]
        BY <1>1 DEF HandleHome
      <4>1. threaded[t][q] = s_pools[q]
        BY <1>5 DEF HandleHome
      <4>2. q = p => LeasesOf(p)' # {}
        BY <1>5
      <4>3. q = p => reference'[p] # 0
        BY <3>9, <4>2
      <4> QED
        BY <3>4, <4>1, <4>3
    <3> QED
      BY <3>5, <3>6, <3>7, <3>8, <3>10, <3>11
  <2> QED
    BY <2>5, <2>6
<1> QED
  BY <1>6, <1>7

LEMMA BeginPreserves ==
    ASSUME IInv, NEW t \in Threads, NEW d \in Holders, Begin(t, d)
    PROVE  IInv'
<1> USE DEF IInv
<1>1. PICK pool \in Pools, p \in Paths : pool = CoreOf(d) /\ p = path(pool)
  BY DEF Begin, Live, CoreOf, InUse, Named, Pools, path
<1>2. /\ threaded' = [threaded EXCEPT ![t][p] = pool]
      /\ abandoned' = abandoned \ {<<t, p>>}
      /\ UNCHANGED <<s_pools, reference, tag, lease, poolOf, purging, undefined, byTag>>
  BY <1>1 DEF Begin, table, objects
<1>3. \A u \in Threads, q \in Paths :
        threaded'[u][q] = IF u = t /\ q = p THEN pool ELSE threaded[u][q]
  BY <1>2 DEF TypeOK
<1>4. TypeOK'
  <2>1. threaded' \in [Threads -> [Paths -> Pools \cup {NULL}]]
    BY <1>2 DEF TypeOK
  <2> QED
    BY <1>2, <2>1 DEF TypeOK
<1>5. InUse' = InUse /\ \A q : LeasesOf(q)' = LeasesOf(q)
  BY <1>2 DEF InUse, LeasesOf
<1>6. Named'
  BY <1>1, <1>2, <1>3, <1>5 DEF Named
<1>7. Entered' /\ NeverOverCounted' /\ Counted'
  BY <1>2, <1>5 DEF Entered, NeverOverCounted, Counted
<1>8. HandleHome'
  <2> SUFFICES ASSUME ~byTag, NEW u \in Threads, NEW q \in Paths,
                      threaded'[u][q] # NULL, <<u, q>> \notin abandoned'
               PROVE  threaded'[u][q] = s_pools[q]
    BY <1>2 DEF HandleHome
  <2>1. CASE u = t /\ q = p
    <3>1. lease[d] \in InUse /\ poolOf[lease[d]] = pool
      BY <1>1 DEF Begin, Live, InUse, CoreOf
    <3>2. pool = s_pools[p]
      BY <1>1, <3>1 DEF Counted
    <3> QED
      BY <1>3, <2>1, <3>2
  <2>2. CASE ~(u = t /\ q = p)
    <3>1. threaded'[u][q] = threaded[u][q] /\ <<u, q>> \notin abandoned
      BY <1>2, <1>3, <2>2
    <3> QED
      BY <3>1 DEF HandleHome
  <2> QED
    BY <2>1, <2>2
<1> QED
  BY <1>4, <1>6, <1>7, <1>8

LEMMA FlowBackPreserves ==
    ASSUME IInv, NEW t \in Threads, NEW ps, undefined = {}, FlowBack(t, ps)
    PROVE  IInv'
<1> USE DEF IInv
<1>1. /\ UNCHANGED <<s_pools, reference, tag, lease, poolOf, purging, byTag, abandoned>>
      /\ undefined' \in {{}, {"pool"}}
      /\ threaded' = [threaded EXCEPT ![t] =
                        [p \in Paths |-> IF p \in ps THEN NULL ELSE threaded[t][p]]]
  BY DEF FlowBack, table, objects
<1>2. \A u \in Threads, q \in Paths : threaded'[u][q] \in {threaded[u][q], NULL}
  BY <1>1 DEF TypeOK
<1>3. TypeOK'
  <2>1. threaded' \in [Threads -> [Paths -> Pools \cup {NULL}]]
    BY <1>1 DEF TypeOK
  <2>2. undefined' \subseteq {"entry", "pool"}
    BY <1>1
  <2> QED
    BY <1>1, <2>1, <2>2 DEF TypeOK
<1>4. InUse' = InUse /\ \A q : LeasesOf(q)' = LeasesOf(q)
  BY <1>1 DEF InUse, LeasesOf
<1>5. Named'
  BY <1>1, <1>2, <1>4 DEF Named
<1>6. Entered' /\ NeverOverCounted'
  BY <1>1, <1>4 DEF Entered, NeverOverCounted
<1>7. Counted'
  BY <1>1, <1>4 DEF Counted
<1>8. HandleHome'
  BY <1>1, <1>2 DEF HandleHome
<1> QED
  BY <1>3, <1>5, <1>6, <1>7, <1>8

LEMMA StepPreserves ==
    ASSUME IInv, [Next]_vars
    PROVE  IInv'
<1> USE DEF IInv
<1>1. CASE UNCHANGED vars
  <2>1. /\ UNCHANGED <<s_pools, reference, tag, lease, poolOf, threaded, purging,
                       undefined, byTag, abandoned>>
    BY <1>1 DEF vars
  <2>2. TypeOK'
    BY <2>1 DEF TypeOK
  <2>3. InUse' = InUse
    BY <2>1 DEF InUse
  <2> QED
    BY <2>1, <2>2, <2>3, QuietPreserves
<1>2. ASSUME NEW d \in Holders, NEW wanted \in Tags, SetTag(d, wanted)
      PROVE  IInv'
  <2>1. /\ UNCHANGED <<s_pools, reference, lease, poolOf, threaded, purging,
                       undefined, byTag, abandoned>>
        /\ tag' = [tag EXCEPT ![CoreOf(d)] = wanted]
    BY <1>2 DEF SetTag, objects, outside
  <2>2. TypeOK'
    BY <2>1 DEF TypeOK
  <2>3. InUse' = InUse
    BY <2>1 DEF InUse
  <2> QED
    BY <2>1, <2>2, <2>3, QuietPreserves
<1>3. ASSUME NEW d \in Holders, NEW transaction \in Holders, GetTransaction(d, transaction)
      PROVE  IInv'
  <2>1. /\ UNCHANGED <<s_pools, reference, tag, poolOf, threaded, purging,
                       undefined, byTag, abandoned>>
        /\ lease' = [lease EXCEPT ![transaction] = lease[d]]
        /\ lease[d] # NULL /\ lease[transaction] = NULL
    BY <1>3 DEF GetTransaction, table, outside, Live
  <2>2. TypeOK'
    BY <2>1 DEF TypeOK
  <2>3. \A e \in Holders : lease'[e] = IF e = transaction THEN lease[d] ELSE lease[e]
    BY <2>1 DEF TypeOK
  <2>4. InUse' = InUse
    BY <2>1, <2>3 DEF InUse
  <2> QED
    BY <2>1, <2>2, <2>4, QuietPreserves
<1>4. CASE PurgeFreeHandlesInAllPool
  <2>1. /\ UNCHANGED <<s_pools, reference, tag, lease, poolOf, threaded,
                       undefined, byTag, abandoned>>
        /\ purging' = Registered
    BY <1>4 DEF PurgeFreeHandlesInAllPool, table, objects
  <2>2. TypeOK'
    BY <2>1 DEF TypeOK, Registered
  <2>3. InUse' = InUse
    BY <2>1 DEF InUse
  <2> QED
    BY <2>1, <2>2, <2>3, QuietPreserves
<1>5. CASE Purged
  <2>1. /\ UNCHANGED <<s_pools, reference, lease, threaded, undefined, byTag, abandoned>>
        /\ purging' = {} /\ Destroy
    BY <1>5 DEF Purged
  <2>2. /\ poolOf' \in [Leases -> Pools \cup {NULL}]
        /\ tag' \in [Pools -> Tags \cup {InvalidTag}]
        /\ \A k \in InUse' : poolOf'[k] = poolOf[k]
    BY <2>1, DestroyKeeps DEF TypeOK
  <2>3. TypeOK'
    BY <2>1, <2>2 DEF TypeOK
  <2>4. InUse' = InUse
    BY <2>1 DEF InUse
  <2> QED
    BY <2>1, <2>2, <2>3, <2>4, QuietPreserves
<1>6. ASSUME NEW t \in Threads, NEW d \in Holders, EndTransaction(t, d)
      PROVE  IInv'
  BY <1>6, FlowBackPreserves DEF EndTransaction
<1>7. ASSUME NEW t \in Threads, ThreadExit(t)
      PROVE  IInv'
  BY <1>7, FlowBackPreserves DEF ThreadExit
<1> HIDE DEF IInv
<1> QED
  BY <1>1, <1>2, <1>3, <1>4, <1>5, <1>6, <1>7, GetPoolPreserves, GetPoolByTagPreserves,
     DeallocPreserves, BeginPreserves DEF Next

LEMMA InitEstablishes == Init => IInv
<1> SUFFICES ASSUME Init PROVE IInv
  OBVIOUS
<1>1. TypeOK
  BY DEF Init, TypeOK, InvalidTag
<1>2. InUse = {}
  BY DEF Init, InUse
<1>3. \A p : LeasesOf(p) = {}
  BY <1>2 DEF LeasesOf
<1>4. Named /\ Entered /\ HandleHome
  BY <1>2 DEF Init, Named, Entered, HandleHome
<1>5. NeverOverCounted /\ Counted
  BY <1>2, <1>3, FS_EmptySet DEF Init, NeverOverCounted, Counted
<1> QED
  BY <1>1, <1>4, <1>5 DEF IInv

(* The inductive invariant: names lead to pools of their path, an entry is *)
(* there while its count is not zero, and opened by path only it counts    *)
(* exactly the leases, which are all for its pool.                         *)
THEOREM Invariance == Spec => []IInv
<1>1. IInv /\ [Next]_vars => IInv'
  BY StepPreserves
<1> QED
  BY <1>1, InitEstablishes, PTL DEF Spec

(* Opened by path only, the objects of a path share one core, and an entry *)
(* is there exactly as long as a lease is, with the number of leases as    *)
(* its count (handle_pool.cpp:28-69).                                      *)
THEOREM ReferencesAlwaysCounted == Spec => []ReferencesCounted
<1>1. IInv => ReferencesCounted
  <2> SUFFICES ASSUME IInv, ~byTag
               PROVE  /\ OneCorePerPath
                      /\ "entry" \notin undefined
                      /\ \A p \in Paths :
                          /\ reference[p] = Cardinality(LeasesOf(p))
                          /\ s_pools[p] = NULL <=> LeasesOf(p) = {}
    BY DEF ReferencesCounted, IInv
  <2>1. /\ "entry" \notin undefined
        /\ \A l \in InUse : poolOf[l] = s_pools[path(poolOf[l])]
        /\ \A p \in Paths : reference[p] = Cardinality(LeasesOf(p))
    BY DEF IInv, Counted
  <2>2. OneCorePerPath
    BY <2>1 DEF OneCorePerPath, Live, CoreOf, InUse
  <2>3. \A p \in Paths : s_pools[p] = NULL <=> LeasesOf(p) = {}
    BY <2>1, LeasesFinite, FS_EmptySet DEF IInv, Entered
  <2> QED
    BY <2>1, <2>2, <2>3
<1> QED
  BY <1>1, Invariance, PTL

(* Tags or not, no entry counts more leases than there are: the last one   *)
(* to go always frees the pool.                                            *)
THEOREM NeverOver == Spec => []NeverOverCounted
BY Invariance, PTL DEF IInv

(* The connection of a transaction goes back to the pool that everybody    *)
(* who opens the path uses, unless the path was closed meanwhile.          *)
THEOREM HandlesGoHome == Spec => []HandleHome
BY Invariance, PTL DEF IInv

===============================================================================
