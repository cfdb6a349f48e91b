--------------------------- MODULE HandlePool_proof ---------------------------
(***************************************************************************)
(* HandlePool for any finite set of threads and any sizes: a handle has one*)
(* user, the counter of handles is exact, nothing is in use while onDrained*)
(* runs, and every step is a step of AbstractPool or none.                 *)
(*                                                                         *)
(* The lock counts and knows no owner, so what it protects rests on Locked:*)
(* its counters are the number of read locks the threads hold (one for each*)
(* handle, one for being inside an operation), of threads that have the    *)
(* pool to themselves, and of threads that wait for it.                    *)
(***************************************************************************)
EXTENDS HandlePool, FiniteSetTheorems, TLAPS

(* Where a thread can be in which operation, and with which handle.        *)
StructuredAt(t) ==
    /\ pc[t] = "idle" => op[t] = "none" /\ wrap[t] = NoHandle
    /\ pc[t] = "lockRead" =>
           op[t] \in {"flowOut", "purgeFreeHandles", "fillOne"} /\ wrap[t] = NoHandle
    /\ pc[t] \in {"popBack", "checkMax"} => op[t] = "flowOut" /\ wrap[t] = NoHandle
    /\ pc[t] = "generate" => op[t] \in {"flowOut", "fillOne"} /\ wrap[t] = NoHandle
    /\ pc[t] = "countUp" => op[t] \in {"flowOut", "fillOne"} /\ wrap[t] # NoHandle
    /\ pc[t] = "invoke" => op[t] = "flowOut" /\ wrap[t] # NoHandle
    /\ pc[t] = "pushBack" => op[t] = "fillOne" /\ wrap[t] # NoHandle
    /\ pc[t] = "unlockRead" =>
        /\ op[t] \in {"flowOut", "purgeFreeHandles", "fillOne", "flowBack"}
        /\ op[t] \in {"flowOut", "purgeFreeHandles"} => wrap[t] = NoHandle
        /\ op[t] = "flowBack" => wrap[t] # NoHandle
    /\ pc[t] = "countDown" => op[t] = "flowBack" /\ wrap[t] # NoHandle /\ inserted[t] = FALSE
    /\ pc[t] = "release" => op[t] \in {"flowBack", "fillOne"} /\ wrap[t] # NoHandle
    /\ pc[t] \in {"clear", "subtract"} =>
           op[t] \in {"purgeFreeHandles", "drain"} /\ wrap[t] = NoHandle
    /\ pc[t] \in {"onDrained", "unlockWrite"} => op[t] = "drain" /\ wrap[t] = NoHandle
    /\ pc[t] \in {"lockWrite", "waitWrite"} =>
           op[t] \in {"drain", "blockade"} /\ wrap[t] = NoHandle /\ t \in Closers
    /\ Cardinality(held[t]) <= MaxHold
    /\ op[t] = "flowOut" => Cardinality(held[t]) < MaxHold

Structured == \A t \in Threads : StructuredAt(t)

\* A handle on its way to somebody: nobody else may have it.
Fresh(t) ==
    \/ pc[t] \in {"countUp", "invoke"} /\ op[t] = "flowOut"
    \/ pc[t] = "pushBack"

(* Each open handle has one place, while it is not on its way out.         *)
Sole ==
    /\ \A i, j \in DOMAIN m_handles : m_handles[i] = m_handles[j] => i = j
    /\ \A t \in Threads :
        /\ held[t] \cap Elements(m_handles) = {}
        /\ Fresh(t) => wrap[t] \notin Elements(m_handles)
        /\ \A u \in Threads \ {t} : held[t] \cap held[u] = {}
        /\ \A u \in Threads : Fresh(t) => wrap[t] \notin held[u]
        /\ \A u \in Threads \ {t} : Fresh(t) /\ Fresh(u) => wrap[t] # wrap[u]

\* The read locks: of an operation, and of each handle that is out.
Inside(t) ==
    \/ pc[t] \in {"popBack", "checkMax", "generate", "countUp", "invoke",
                  "pushBack", "unlockRead"}
    \/ pc[t] \in {"clear", "subtract"} /\ op[t] = "purgeFreeHandles"
Reads == Out \cup {p \in Threads \X {NoHandle} : Inside(p[1])}

Waiting == {t \in Threads : pc[t] = "waitWrite"}

(* The counters of the lock, and what a writer can rely on.                *)
Locked ==
    /\ m_reader = Cardinality(Reads)
    /\ m_writer = Cardinality(Sealing)
    /\ m_pending = Cardinality(Waiting)
    /\ m_writer > 0 => m_reader = 0
    /\ \A t \in blockading : pc[t] \in {"idle", "lockWrite", "waitWrite"}

(* What drain has emptied stays empty until it is through.                 *)
Drained == \A t \in Threads :
    op[t] = "drain" /\ pc[t] \in {"subtract", "onDrained"} => m_handles = <<>>

IInv == TypeOK /\ Structured /\ Sole /\ Locked /\ Drained

-----------------------------------------------------------------------------
(* The free list.                                                          *)

LEMMA PushElements ==
    ASSUME NEW list \in Seq(Handles), NEW h \in Handles
    PROVE  /\ Append(list, h) \in Seq(Handles)
           /\ Len(Append(list, h)) = Len(list) + 1
           /\ Elements(Append(list, h)) = Elements(list) \cup {h}
           /\ \A i \in 1..Len(list) : Append(list, h)[i] = list[i]
           /\ Append(list, h)[Len(list) + 1] = h
<1>1. /\ Append(list, h) \in Seq(Handles)
      /\ Len(Append(list, h)) = Len(list) + 1
      /\ \A i \in 1..Len(list) : Append(list, h)[i] = list[i]
      /\ Append(list, h)[Len(list) + 1] = h
      /\ DOMAIN list = 1..Len(list)
      /\ DOMAIN Append(list, h) = 1..(Len(list) + 1)
      /\ Len(list) \in Nat
  OBVIOUS
<1>2. Elements(Append(list, h)) \subseteq Elements(list) \cup {h}
  BY <1>1 DEF Elements
<1>3. Elements(list) \subseteq Elements(Append(list, h))
  <2> SUFFICES ASSUME NEW i \in 1..Len(list)
               PROVE  list[i] \in Elements(Append(list, h))
    BY <1>1 DEF Elements
  <2>1. i \in 1..(Len(list) + 1) /\ Append(list, h)[i] = list[i]
    BY <1>1
  <2> QED
    BY <1>1, <2>1 DEF Elements
<1>4. h \in Elements(Append(list, h))
  BY <1>1 DEF Elements
<1> QED
  BY <1>1, <1>2, <1>3, <1>4

LEMMA PopElements ==
    ASSUME NEW list \in Seq(Handles), list # <<>>,
           \A i, j \in DOMAIN list : list[i] = list[j] => i = j
    PROVE  LET front == SubSeq(list, 1, Len(list) - 1)
               last == list[Len(list)]
           IN  /\ front \in Seq(Handles)
               /\ Len(front) = Len(list) - 1
               /\ last \in Elements(list) /\ last \in Handles
               /\ last \notin Elements(front)
               /\ Elements(front) \subseteq Elements(list)
               /\ \A i, j \in DOMAIN front : front[i] = front[j] => i = j
<1> DEFINE front == SubSeq(list, 1, Len(list) - 1)
           last == list[Len(list)]
<1>1. /\ Len(list) \in Nat \ {0}
      /\ DOMAIN list = 1..Len(list)
      /\ \A i \in 1..Len(list) : list[i] \in Handles
  OBVIOUS
<1>2. /\ front \in Seq(Handles)
      /\ Len(front) = Len(list) - 1
      /\ DOMAIN front = 1..(Len(list) - 1)
      /\ \A i \in 1..(Len(list) - 1) : front[i] = list[i]
  BY <1>1
<1>3. last \in Elements(list) /\ last \in Handles
  BY <1>1 DEF Elements
<1> HIDE DEF front
<1>4. last \notin Elements(front)
  BY <1>1, <1>2 DEF Elements
<1>5. Elements(front) \subseteq Elements(list)
  BY <1>1, <1>2 DEF Elements
<1>6. \A i, j \in DOMAIN front : front[i] = front[j] => i = j
  BY <1>1, <1>2
<1> QED
  BY <1>2, <1>3, <1>4, <1>5, <1>6 DEF front

-----------------------------------------------------------------------------
(* There is always a name for one more connection.                         *)

LEMMA HandlesFinite ==
    /\ IsFiniteSet(Handles)
    /\ Handles \subseteq Nat \ {NoHandle}
    /\ Cardinality(Threads) \in Nat
    /\ Cardinality(Handles) =
           HardwareConcurrency + Cardinality(Threads) * MaxHold + Cardinality(Threads)
<1>1. Cardinality(Threads) \in Nat
  BY PoolAssumption, FS_CardinalityType
<1>2. /\ Cardinality(Threads) * MaxHold \in Nat
      /\ Cardinality(Threads) * (MaxHold + 1) =
             Cardinality(Threads) * MaxHold + Cardinality(Threads)
  BY <1>1, PoolAssumption
<1>3. PICK n \in Nat :
        /\ n = HardwareConcurrency + Cardinality(Threads) * MaxHold + Cardinality(Threads)
        /\ Handles = 1..n
  BY <1>1, <1>2, PoolAssumption DEF Handles
<1>4. IsFiniteSet(1..n) /\ Cardinality(1..n) = n
  BY FS_Interval
<1> QED
  BY <1>1, <1>3, <1>4 DEF NoHandle

LEMMA OutBounded ==
    ASSUME TypeOK, Structured
    PROVE  LET out == UNION {held[t] : t \in Threads}
           IN  /\ IsFiniteSet(out)
               /\ Cardinality(out) <= Cardinality(Threads) * MaxHold
<1> DEFINE out == UNION {held[t] : t \in Threads}
           each == [t \in Threads |->
                      CHOOSE f : f \in Bijection(1..Cardinality(held[t]), held[t])]
           Slots == Threads \X (1..MaxHold)
           at == [s \in Slots |-> IF s[2] <= Cardinality(held[s[1]])
                                  THEN each[s[1]][s[2]] ELSE NoHandle]
           Reached == {at[s] : s \in Slots}
<1>1. ASSUME NEW t \in Threads
      PROVE  /\ IsFiniteSet(held[t])
             /\ Cardinality(held[t]) \in 0..MaxHold
             /\ each[t] \in Bijection(1..Cardinality(held[t]), held[t])
  <2>1. IsFiniteSet(held[t])
    BY HandlesFinite, FS_Subset DEF TypeOK
  <2>2. /\ Cardinality(held[t]) \in Nat
        /\ ExistsBijection(1..Cardinality(held[t]), held[t])
    BY <2>1, FS_CardinalityType
  <2> QED
    BY <2>1, <2>2, PoolAssumption DEF Structured, StructuredAt, ExistsBijection
<1>2. IsFiniteSet(Slots) /\ Cardinality(Slots) = Cardinality(Threads) * MaxHold
  <2>1. IsFiniteSet(1..MaxHold) /\ Cardinality(1..MaxHold) = MaxHold
    BY PoolAssumption, FS_Interval
  <2> QED
    BY <2>1, PoolAssumption, FS_Product
<1>3. IsFiniteSet(Reached) /\ Cardinality(Reached) <= Cardinality(Slots)
  <2>1. at \in Surjection(Slots, Reached)
    BY DEF Surjection
  <2> QED
    BY <1>2, <2>1, FS_Surjection
<1>4. out \subseteq Reached
  <2> SUFFICES ASSUME NEW t \in Threads, NEW h \in held[t]
               PROVE  h \in Reached
    OBVIOUS
  <2>1. PICK i \in 1..Cardinality(held[t]) : each[t][i] = h
    BY <1>1 DEF Bijection, Surjection
  <2>2. i \in 1..MaxHold /\ i <= Cardinality(held[t])
    <3>1. Cardinality(held[t]) \in 0..MaxHold
      BY <1>1
    <3> QED
      BY <3>1, PoolAssumption
  <2>3. <<t, i>> \in Slots /\ at[<<t, i>>] = h
    BY <2>1, <2>2
  <2> QED
    BY <2>3
<1>5. IsFiniteSet(out) /\ Cardinality(out) <= Cardinality(Reached)
  BY <1>3, <1>4, FS_Subset
<1>6. Cardinality(out) \in Nat /\ Cardinality(Reached) \in Nat
  BY <1>3, <1>5, FS_CardinalityType
<1> QED
  BY <1>2, <1>3, <1>5, <1>6, HandlesFinite, PoolAssumption

LEMMA NewHandleFree ==
    ASSUME TypeOK, Structured, NEW t \in Threads, wrap[t] = NoHandle
    PROVE  NewHandle \in Handles \ Open
<1> DEFINE listed == Elements(m_handles)
           out == UNION {held[u] : u \in Threads}
           others == Threads \ {t}
           wrapped == {wrap[u] : u \in others}
<1>1. /\ IsFiniteSet(listed)
      /\ Cardinality(listed) \in Nat
      /\ Cardinality(listed) <= HardwareConcurrency
  <2> DEFINE at == [i \in DOMAIN m_handles |-> m_handles[i]]
  <2>1. PICK n \in Nat : /\ n = Len(m_handles)
                         /\ DOMAIN m_handles = 1..n
    BY DEF TypeOK
  <2>2. IsFiniteSet(1..n) /\ Cardinality(1..n) = n
    BY FS_Interval
  <2>3. at \in Surjection(1..n, listed)
    BY <2>1 DEF Surjection, Elements
  <2>4. IsFiniteSet(listed) /\ Cardinality(listed) <= n
    BY <2>2, <2>3, FS_Surjection
  <2> QED
    BY <2>1, <2>4, FS_CardinalityType, PoolAssumption DEF TypeOK
<1>2. /\ IsFiniteSet(out)
      /\ Cardinality(out) \in Nat
      /\ Cardinality(out) <= Cardinality(Threads) * MaxHold
  BY OutBounded, FS_CardinalityType
<1>3. /\ IsFiniteSet(wrapped)
      /\ Cardinality(wrapped) \in Nat
      /\ Cardinality(wrapped) <= Cardinality(Threads) - 1
  <2> DEFINE at == [u \in others |-> wrap[u]]
  <2>1. IsFiniteSet(others) /\ Cardinality(others) = Cardinality(Threads) - 1
    BY PoolAssumption, FS_RemoveElement
  <2>2. at \in Surjection(others, wrapped)
    BY DEF Surjection
  <2>3. IsFiniteSet(wrapped) /\ Cardinality(wrapped) <= Cardinality(others)
    BY <2>1, <2>2, FS_Surjection
  <2> QED
    BY <2>1, <2>3, FS_CardinalityType
<1> HIDE DEF listed, out, wrapped
<1>4. /\ IsFiniteSet(listed \cup out)
      /\ Cardinality(listed \cup out) \in Nat
      /\ Cardinality(listed \cup out) <= Cardinality(listed) + Cardinality(out)
  <2>1. IsFiniteSet(listed \cap out)
    BY <1>1, FS_Intersection
  <2> QED
    BY <1>1, <1>2, <2>1, FS_Union, FS_CardinalityType
<1> DEFINE kept == listed \cup out
<1> HIDE DEF kept
<1>5. /\ IsFiniteSet(kept \cup wrapped)
      /\ Cardinality(kept \cup wrapped)
             <= Cardinality(listed) + Cardinality(out) + Cardinality(wrapped)
  <2>1. IsFiniteSet(kept \cap wrapped) /\ Cardinality(kept \cap wrapped) \in Nat
    BY <1>3, FS_Intersection, FS_CardinalityType
  <2>2. IsFiniteSet(kept) /\ Cardinality(kept) \in Nat
        /\ Cardinality(kept) <= Cardinality(listed) + Cardinality(out)
    BY <1>4 DEF kept
  <2>3. /\ IsFiniteSet(kept \cup wrapped)
        /\ Cardinality(kept \cup wrapped) =
              Cardinality(kept) + Cardinality(wrapped) - Cardinality(kept \cap wrapped)
    BY <1>3, <2>2, FS_Union
  <2> QED
    BY <1>1, <1>2, <1>3, <2>1, <2>2, <2>3
<1>6. Cardinality(kept \cup wrapped) < Cardinality(Handles)
  <2>1. Cardinality(Threads) * MaxHold \in Nat
    BY HandlesFinite, PoolAssumption
  <2>2. Cardinality(kept \cup wrapped) \in Nat
    BY <1>5, FS_CardinalityType
  <2> QED
    BY <1>1, <1>2, <1>3, <1>5, <2>1, <2>2, HandlesFinite, PoolAssumption
<1>7. ~(Handles \subseteq kept \cup wrapped)
  <2>1. Handles \subseteq kept \cup wrapped =>
          Cardinality(Handles) <= Cardinality(kept \cup wrapped)
    BY <1>5, FS_Subset
  <2>2. Cardinality(Handles) \in Nat /\ Cardinality(kept \cup wrapped) \in Nat
    BY <1>5, HandlesFinite, FS_CardinalityType
  <2> QED
    BY <1>6, <2>1, <2>2
<1>8. ASSUME NEW h \in Open
      PROVE  h \in kept \cup wrapped
  <2>1. CASE h \in Elements(m_handles)
    BY <2>1 DEF kept, listed
  <2>2. CASE \E u \in Threads : h \in held[u]
    BY <2>2 DEF kept, out
  <2>3. CASE \E u \in Threads \ {t} : h = wrap[u]
    BY <2>3 DEF wrapped
  <2>4. \/ h \in Elements(m_handles)
        \/ \E u \in Threads : h \in held[u]
        \/ \E u \in Threads : h = wrap[u]
    BY DEF Open
  <2>5. h # NoHandle
    BY DEF Open
  <2> QED
    BY <2>1, <2>2, <2>3, <2>4, <2>5
<1>9. \E h \in Handles : h \notin Open
  BY <1>7, <1>8
<1> QED
  BY <1>9 DEF NewHandle

-----------------------------------------------------------------------------

(* A step of one thread leaves the others where they are, with what they   *)
(* have.                                                                   *)
LEMMA OthersStay ==
    ASSUME TypeOK, NEW t \in Threads, Calls(t) \/ Proceed(t)
    PROVE  \A u \in Threads \ {t} :
             /\ pc'[u] = pc[u]
             /\ op'[u] = op[u]
             /\ wrap'[u] = wrap[u]
             /\ size'[u] = size[u]
             /\ inserted'[u] = inserted[u]
             /\ held'[u] = held[u]
<1> USE DEF TypeOK, Goto, Return, lockVars, poolVars, locals
<1>1. CASE Calls(t)
  BY <1>1 DEF Calls, CallFlowOut, CallPurge, CallCanOpen, CallClose, CallBlockade,
              SetConfig, Call
<1>2. CASE LockRead(t) \/ PopBack(t) \/ CheckMax(t) \/ Generate(t) \/ CountUp(t)
  BY <1>2 DEF LockRead, PopBack, CheckMax, Generate, CountUp
<1>3. CASE Invoke(t) \/ FillPush(t) \/ FlowBack(t)
  BY <1>3 DEF Invoke, FillPush, FlowBack, Push
<1>4. CASE UnlockRead(t) \/ CountDown(t) \/ Release(t) \/ Clear(t) \/ Subtract(t)
           \/ OnDrained(t)
  BY <1>4 DEF UnlockRead, CountDown, Release, Clear, Subtract, OnDrained
<1>5. CASE LockWrite(t) \/ WaitWrite(t) \/ UnlockWrite(t) \/ Unblockade(t)
  BY <1>5 DEF LockWrite, WaitWrite, HaveWrite, UnlockWrite, Unblockade
<1> QED
  BY <1>1, <1>2, <1>3, <1>4, <1>5 DEF Proceed

LEMMA HeldCounts ==
    ASSUME TypeOK, NEW t \in Threads, NEW h
    PROVE  /\ Cardinality(held[t]) \in Nat
           /\ Cardinality(held[t] \cup {h}) \in 0..(Cardinality(held[t]) + 1)
           /\ Cardinality(held[t] \ {h}) \in 0..Cardinality(held[t])
<1>1. IsFiniteSet(held[t])
  BY HandlesFinite, FS_Subset DEF TypeOK
<1>2. Cardinality(held[t]) \in Nat
  BY <1>1, FS_CardinalityType
<1>3. Cardinality(held[t] \cup {h}) \in {Cardinality(held[t]), Cardinality(held[t]) + 1}
  BY <1>1, FS_AddElement
<1>4. Cardinality(held[t] \ {h}) \in {Cardinality(held[t]), Cardinality(held[t]) - 1}
  BY <1>1, FS_RemoveElement
<1>5. /\ Cardinality(held[t] \cup {h}) \in Nat
      /\ Cardinality(held[t] \ {h}) \in Nat
  BY <1>1, FS_AddElement, FS_RemoveElement, FS_CardinalityType
<1> QED
  BY <1>2, <1>3, <1>4, <1>5

(* What happens to the free list where a handle is given back.             *)
LEMMA PushTypes ==
    ASSUME TypeOK, NEW t \in Threads, NEW h \in Handles, Push(t, h)
    PROVE  /\ m_handles' \in Seq(Handles)
           /\ Len(m_handles') <= HardwareConcurrency
           /\ inserted' \in [Threads -> BOOLEAN]
<1>1. inserted' = [inserted EXCEPT ![t] = Len(m_handles) < HardwareConcurrency]
  BY DEF Push
<1>2. inserted'[t] = (Len(m_handles) < HardwareConcurrency)
  BY <1>1 DEF TypeOK
<1>3. CASE Len(m_handles) < HardwareConcurrency
  <2>1. m_handles' = Append(m_handles, h)
    BY <1>2, <1>3 DEF Push
  <2> QED
    BY <1>1, <1>3, <2>1, PushElements, PoolAssumption DEF TypeOK
<1>4. CASE ~(Len(m_handles) < HardwareConcurrency)
  <2>1. m_handles' = m_handles
    BY <1>2, <1>4 DEF Push
  <2> QED
    BY <1>1, <2>1 DEF TypeOK
<1> QED
  BY <1>3, <1>4

LEMMA TypePreserved ==
    ASSUME IInv, [Next]_vars
    PROVE  TypeOK'
<1> USE PoolAssumption DEF IInv
<1>1. CASE UNCHANGED vars
  BY <1>1 DEF vars, lockVars, poolVars, locals, TypeOK, Lock!TypeOK
<1>2. ASSUME NEW t \in Threads, Calls(t) \/ Proceed(t)
      PROVE  TypeOK'
  <2> USE DEF TypeOK, Lock!TypeOK, PCs, Operations, Goto, Return,
              lockVars, poolVars, locals
  <2>1. CASE Calls(t)
    <3>1. CASE SetConfig(t)
      BY <3>1 DEF SetConfig
    <3>2. ASSUME NEW name \in Operations, NEW where \in PCs, Call(t, name, where)
          PROVE  TypeOK'
      BY <3>2 DEF Call
    <3> QED
      BY <2>1, <3>1, <3>2
         DEF Calls, CallFlowOut, CallPurge, CallCanOpen, CallClose, CallBlockade
  <2>2. CASE LockRead(t)
    <3>1. pc' \in [Threads -> PCs]
      BY <2>2 DEF LockRead
    <3> QED
      BY <2>2, <3>1 DEF LockRead, Lock!AcquireRead
  <2>3. CASE PopBack(t)
    <3>1. CASE m_handles = <<>> /\ UNCHANGED <<m_handles, wrap>>
      BY <2>3, <3>1 DEF PopBack
    <3>2. CASE /\ m_handles # <<>>
               /\ wrap' = [wrap EXCEPT ![t] = m_handles[Len(m_handles)]]
               /\ m_handles' = SubSeq(m_handles, 1, Len(m_handles) - 1)
      <4>1. /\ m_handles[Len(m_handles)] \in Handles
            /\ m_handles' \in Seq(Handles)
            /\ Len(m_handles') = Len(m_handles) - 1
        BY <3>2, PopElements DEF Sole
      <4>2. pc' \in [Threads -> PCs] /\ wrap' \in [Threads -> Handles \cup {NoHandle}]
        BY <2>3, <3>2, <4>1 DEF PopBack
      <4> QED
        BY <2>3, <4>1, <4>2 DEF PopBack
    <3> QED
      BY <2>3, <3>1, <3>2 DEF PopBack
  <2>4. CASE CheckMax(t)
    BY <2>4 DEF CheckMax
  <2>5. CASE Generate(t)
    <3>1. NewHandle \in Handles
      BY <2>5, NewHandleFree DEF Generate, Structured, StructuredAt
    <3>2. pc' \in [Threads -> PCs]
      BY <2>5 DEF Generate
    <3>3. wrap' \in [Threads -> Handles \cup {NoHandle}]
      <4>1. wrap' = wrap \/ wrap' = [wrap EXCEPT ![t] = NewHandle]
        BY <2>5 DEF Generate
      <4> QED
        BY <3>1, <4>1
    <3>4. configs' \in [Handles -> 0..MaxConfigs]
      BY <2>5, <3>1 DEF Generate
    <3> QED
      BY <2>5, <3>2, <3>3, <3>4 DEF Generate
  <2>6. CASE CountUp(t)
    BY <2>6 DEF CountUp
  <2>7. CASE Invoke(t)
    <3>1. wrap[t] \in Handles
      BY <2>7 DEF Invoke, Structured, StructuredAt
    <3>2. /\ pc' \in [Threads -> PCs]
          /\ op' \in [Threads -> Operations]
          /\ wrap' \in [Threads -> Handles \cup {NoHandle}]
      BY <2>7 DEF Invoke
    <3>3. configs' \in [Handles -> 0..MaxConfigs]
      BY <2>7, <3>1 DEF Invoke, RunsConfigs, RefusesConfigs
    <3>4. held' \in [Threads -> SUBSET Handles]
      <4>1. held' = held \/ held' = [held EXCEPT ![t] = held[t] \cup {wrap[t]}]
        BY <2>7 DEF Invoke
      <4>2. held \in [Threads -> SUBSET Handles]
        OBVIOUS
      <4>3. held[t] \cup {wrap[t]} \in SUBSET Handles
        BY <3>1, <4>2
      <4> HIDE DEF TypeOK
      <4> QED
        BY <4>1, <4>2, <4>3
    <3>5. refused' \in Nat
      BY <2>7 DEF Invoke
    <3> QED
      BY <2>7, <3>2, <3>3, <3>4, <3>5 DEF Invoke
  <2>8. CASE FillPush(t)
    <3>1. wrap[t] \in Handles
      BY <2>8 DEF FillPush, Structured, StructuredAt
    <3> QED
      BY <2>8, <3>1, PushTypes DEF FillPush
  <2>9. CASE FlowBack(t)
    <3>1. PICK h \in held[t] :
            /\ held' = [held EXCEPT ![t] = @ \ {h}]
            /\ wrap' = [wrap EXCEPT ![t] = h]
            /\ Push(t, h)
      BY <2>9 DEF FlowBack
    <3>2. h \in Handles
      BY <3>1
    <3> QED
      BY <2>9, <3>1, <3>2, PushTypes DEF FlowBack
  <2>10. CASE UnlockRead(t)
    <3>1. pc' \in [Threads -> PCs] /\ op' \in [Threads -> Operations]
      BY <2>10 DEF UnlockRead
    <3> QED
      BY <2>10, <3>1 DEF UnlockRead, Lock!ReleaseRead
  <2>11. CASE CountDown(t)
    BY <2>11 DEF CountDown
  <2>12. CASE Release(t)
    BY <2>12 DEF Release
  <2>13. CASE Clear(t)
    BY <2>13 DEF Clear
  <2>14. CASE Subtract(t)
    BY <2>14 DEF Subtract
  <2>15. CASE OnDrained(t)
    BY <2>15 DEF OnDrained
  <2>16. CASE LockWrite(t)
    <3>1. /\ pc' \in [Threads -> PCs]
          /\ op' \in [Threads -> Operations]
      BY <2>16 DEF LockWrite, HaveWrite
    <3>2. blockading' \subseteq Closers
      BY <2>16 DEF LockWrite, HaveWrite, Structured, StructuredAt
    <3>3. Lock!TypeOK'
      BY <2>16 DEF LockWrite, Lock!AcquireWrite, Lock!Announce, Lock!WriteBlocked
    <3> QED
      BY <2>16, <3>1, <3>2, <3>3 DEF LockWrite
  <2>17. CASE WaitWrite(t)
    <3>1. /\ pc' \in [Threads -> PCs]
          /\ op' \in [Threads -> Operations]
      BY <2>17 DEF WaitWrite, HaveWrite
    <3>2. blockading' \subseteq Closers
      BY <2>17 DEF WaitWrite, HaveWrite, Structured, StructuredAt
    <3>3. Lock!TypeOK'
      BY <2>17 DEF WaitWrite, Lock!AcquireAnnounced, Lock!WriteBlocked
    <3> QED
      BY <2>17, <3>1, <3>2, <3>3 DEF WaitWrite
  <2>18. CASE UnlockWrite(t)
    BY <2>18 DEF UnlockWrite, Lock!ReleaseWrite
  <2>19. CASE Unblockade(t)
    BY <2>19 DEF Unblockade, Lock!ReleaseWrite
  <2> QED
    BY <1>2, <2>1, <2>2, <2>3, <2>4, <2>5, <2>6, <2>7, <2>8, <2>9, <2>10, <2>11,
       <2>12, <2>13, <2>14, <2>15, <2>16, <2>17, <2>18, <2>19 DEF Proceed
<1> QED
  BY <1>1, <1>2 DEF Next

LEMMA StructurePreserved ==
    ASSUME IInv, [Next]_vars
    PROVE  Structured'
<1>1. CASE UNCHANGED vars
  BY <1>1 DEF vars, poolVars, locals, IInv, Structured, StructuredAt
<1>2. ASSUME NEW t \in Threads, Calls(t) \/ Proceed(t)
      PROVE  Structured'
  <2>1. \A u \in Threads \ {t} : StructuredAt(u)'
    BY <1>2, OthersStay DEF IInv, Structured, StructuredAt
  <2> SUFFICES StructuredAt(t)'
    BY <2>1 DEF Structured
  <2> USE DEF Goto, Return, lockVars, poolVars, locals
  <2>2. StructuredAt(t)
    BY DEF IInv, Structured
  <2>3. CASE Calls(t)
    <3>1. CASE SetConfig(t)
      BY <2>2, <3>1 DEF SetConfig, StructuredAt
    <3>2. ASSUME NEW name \in Operations, NEW where \in PCs, Call(t, name, where),
                 \/ name \in {"flowOut", "purgeFreeHandles", "fillOne"}
                    /\ where = "lockRead" /\ MayRead(t)
                 \/ name \in {"drain", "blockade"} /\ where = "lockWrite" /\ t \in Closers
          PROVE  StructuredAt(t)'
      <4>1. /\ pc[t] = "idle" /\ pc'[t] = where
            /\ op'[t] = name /\ wrap'[t] = wrap[t] /\ held'[t] = held[t]
        BY <3>2 DEF Call, IInv, TypeOK
      <4>2. Cardinality(held[t]) \in Nat
        BY HeldCounts DEF IInv
      <4> QED
        BY <2>2, <3>2, <4>1, <4>2 DEF StructuredAt, MayRead
    <3> QED
      BY <2>3, <3>1, <3>2
         DEF Calls, CallFlowOut, CallPurge, CallCanOpen, CallClose, CallBlockade,
             Operations, PCs
  <2>4. CASE LockRead(t)
    <3>1. /\ pc[t] = "lockRead"
          /\ \/ op[t] = "flowOut" /\ pc'[t] = "popBack"
             \/ op[t] = "purgeFreeHandles" /\ pc'[t] = "clear"
             \/ op[t] = "fillOne" /\ pc'[t] = "generate"
          /\ op'[t] = op[t] /\ wrap'[t] = wrap[t] /\ held'[t] = held[t]
      BY <2>4 DEF LockRead, IInv, TypeOK
    <3> QED
      BY <2>2, <3>1 DEF StructuredAt
  <2>5. CASE PopBack(t)
    <3>1. m_handles # <<>> => m_handles[Len(m_handles)] # NoHandle
      BY PopElements, HandlesFinite DEF IInv, TypeOK, Sole
    <3>2. /\ pc[t] = "popBack"
          /\ \/ pc'[t] = "checkMax" /\ wrap'[t] = wrap[t]
             \/ pc'[t] = "invoke" /\ wrap'[t] # NoHandle
          /\ op'[t] = op[t] /\ held'[t] = held[t]
      BY <2>5, <3>1 DEF PopBack, IInv, TypeOK
    <3> QED
      BY <2>2, <3>2 DEF StructuredAt
  <2>6. CASE CheckMax(t)
    <3>1. /\ pc[t] = "checkMax"
          /\ pc'[t] \in {"generate", "unlockRead"}
          /\ op'[t] = op[t] /\ wrap'[t] = wrap[t] /\ held'[t] = held[t]
      BY <2>6 DEF CheckMax, IInv, TypeOK
    <3> QED
      BY <2>2, <3>1 DEF StructuredAt
  <2>7. CASE Generate(t)
    <3>1. pc[t] = "generate" => NewHandle # NoHandle
      BY <2>2, NewHandleFree, HandlesFinite DEF IInv, StructuredAt
    <3>2. /\ pc[t] = "generate"
          /\ \/ /\ pc'[t] = IF op[t] = "flowOut" THEN "countUp" ELSE "pushBack"
                /\ wrap'[t] # NoHandle
             \/ pc'[t] = "unlockRead" /\ wrap'[t] = wrap[t]
          /\ op'[t] = op[t] /\ held'[t] = held[t]
      BY <2>7, <3>1 DEF Generate, IInv, TypeOK
    <3> QED
      BY <2>2, <3>2 DEF StructuredAt
  <2>8. CASE CountUp(t)
    <3>1. /\ pc[t] = "countUp"
          /\ pc'[t] = IF op[t] = "flowOut" THEN "invoke" ELSE "unlockRead"
          /\ op'[t] = op[t] /\ wrap'[t] = wrap[t] /\ held'[t] = held[t]
      BY <2>8 DEF CountUp, IInv, TypeOK
    <3> QED
      BY <2>2, <3>1 DEF StructuredAt
  <2>9. CASE Invoke(t)
    <3>1. /\ Cardinality(held[t]) \in Nat
          /\ Cardinality(held[t] \cup {wrap[t]}) \in 0..(Cardinality(held[t]) + 1)
      BY HeldCounts DEF IInv
    <3>2. /\ pc[t] = "invoke"
          /\ wrap'[t] = NoHandle
          /\ \/ /\ pc'[t] = "idle" /\ op'[t] = "none"
                /\ held'[t] = held[t] \cup {wrap[t]}
             \/ pc'[t] = "unlockRead" /\ op'[t] = op[t] /\ held'[t] = held[t]
      BY <2>9 DEF Invoke, IInv, TypeOK
    <3>3. /\ Cardinality(held'[t]) <= MaxHold
          /\ op'[t] = "flowOut" => Cardinality(held'[t]) < MaxHold
      <4>1. CASE held'[t] = held[t] \cup {wrap[t]} /\ op'[t] = "none"
        BY <2>2, <3>1, <3>2, <4>1, PoolAssumption DEF StructuredAt
      <4>2. CASE held'[t] = held[t] /\ op'[t] = op[t]
        BY <2>2, <4>2 DEF StructuredAt
      <4> QED
        BY <3>2, <4>1, <4>2
    <3> QED
      BY <2>2, <3>2, <3>3 DEF StructuredAt
  <2>10. CASE FillPush(t)
    <3>1. /\ pc[t] = "pushBack"
          /\ pc'[t] \in {"countUp", "unlockRead"}
          /\ op'[t] = op[t] /\ wrap'[t] = wrap[t] /\ held'[t] = held[t]
      BY <2>10 DEF FillPush, IInv, TypeOK
    <3> QED
      BY <2>2, <3>1 DEF StructuredAt
  <2>11. CASE FlowBack(t)
    <3>1. ASSUME NEW h \in held[t]
          PROVE  /\ h # NoHandle
                 /\ Cardinality(held[t]) \in Nat
                 /\ Cardinality(held[t] \ {h}) \in 0..Cardinality(held[t])
      BY HeldCounts, HandlesFinite DEF IInv, TypeOK
    <3>2. /\ pc'[t] = "unlockRead" /\ op'[t] = "flowBack"
          /\ \E h \in held[t] : wrap'[t] = h /\ held'[t] = held[t] \ {h}
      BY <2>11 DEF FlowBack, IInv, TypeOK
    <3>3. Cardinality(held'[t]) <= MaxHold /\ wrap'[t] # NoHandle
      BY <2>2, <3>1, <3>2, PoolAssumption DEF StructuredAt
    <3> QED
      BY <2>2, <3>2, <3>3 DEF StructuredAt
  <2>12. CASE UnlockRead(t)
    <3>1. /\ pc[t] = "unlockRead"
          /\ \/ /\ wrap[t] = NoHandle
                /\ pc'[t] = "idle" /\ op'[t] = "none"
             \/ /\ wrap[t] # NoHandle /\ op'[t] = op[t]
                /\ pc'[t] = IF op[t] = "flowBack" /\ ~inserted[t] THEN "countDown" ELSE "release"
          /\ wrap'[t] = wrap[t] /\ held'[t] = held[t] /\ inserted'[t] = inserted[t]
      BY <2>12 DEF UnlockRead, IInv, TypeOK
    <3> QED
      BY <2>2, <3>1 DEF StructuredAt
  <2>13. CASE CountDown(t)
    <3>1. /\ pc[t] = "countDown"
          /\ pc'[t] = "release"
          /\ op'[t] = op[t] /\ wrap'[t] = wrap[t] /\ held'[t] = held[t]
      BY <2>13 DEF CountDown, IInv, TypeOK
    <3> QED
      BY <2>2, <3>1 DEF StructuredAt
  <2>14. CASE Release(t)
    <3>1. /\ pc'[t] = "idle" /\ op'[t] = "none" /\ wrap'[t] = NoHandle
          /\ held'[t] = held[t]
      BY <2>14 DEF Release, IInv, TypeOK
    <3> QED
      BY <2>2, <3>1 DEF StructuredAt
  <2>15. CASE Clear(t)
    <3>1. /\ pc[t] = "clear" /\ pc'[t] = "subtract"
          /\ op'[t] = op[t] /\ wrap'[t] = wrap[t] /\ held'[t] = held[t]
      BY <2>15 DEF Clear, IInv, TypeOK
    <3> QED
      BY <2>2, <3>1 DEF StructuredAt
  <2>16. CASE Subtract(t)
    <3>1. /\ pc[t] = "subtract"
          /\ pc'[t] = IF op[t] = "drain" THEN "onDrained" ELSE "unlockRead"
          /\ op'[t] = op[t] /\ wrap'[t] = wrap[t] /\ held'[t] = held[t]
      BY <2>16 DEF Subtract, IInv, TypeOK
    <3> QED
      BY <2>2, <3>1 DEF StructuredAt
  <2>17. CASE OnDrained(t)
    <3>1. /\ pc[t] = "onDrained" /\ pc'[t] = "unlockWrite"
          /\ op'[t] = op[t] /\ wrap'[t] = wrap[t] /\ held'[t] = held[t]
      BY <2>17 DEF OnDrained, IInv, TypeOK
    <3> QED
      BY <2>2, <3>1 DEF StructuredAt
  <2>18. CASE LockWrite(t)
    <3>1. /\ pc[t] = "lockWrite"
          /\ \/ op[t] = "drain" /\ pc'[t] = "clear" /\ op'[t] = op[t]
             \/ pc'[t] = "idle" /\ op'[t] = "none"
             \/ pc'[t] = "waitWrite" /\ op'[t] = op[t]
          /\ wrap'[t] = wrap[t] /\ held'[t] = held[t]
      BY <2>18 DEF LockWrite, HaveWrite, IInv, TypeOK
    <3> QED
      BY <2>2, <3>1 DEF StructuredAt
  <2>19. CASE WaitWrite(t)
    <3>1. /\ pc[t] = "waitWrite"
          /\ \/ op[t] = "drain" /\ pc'[t] = "clear" /\ op'[t] = op[t]
             \/ pc'[t] = "idle" /\ op'[t] = "none"
          /\ wrap'[t] = wrap[t] /\ held'[t] = held[t]
      BY <2>19 DEF WaitWrite, HaveWrite, IInv, TypeOK
    <3> QED
      BY <2>2, <3>1 DEF StructuredAt
  <2>20. CASE UnlockWrite(t)
    <3>1. /\ pc[t] = "unlockWrite"
          /\ pc'[t] = "idle" /\ op'[t] = "none"
          /\ wrap'[t] = wrap[t] /\ held'[t] = held[t]
      BY <2>20 DEF UnlockWrite, IInv, TypeOK
    <3> QED
      BY <2>2, <3>1 DEF StructuredAt
  <2>21. CASE Unblockade(t)
    <3>1. /\ pc[t] = "idle" /\ pc'[t] = "idle"
          /\ op'[t] = op[t] /\ wrap'[t] = wrap[t] /\ held'[t] = held[t]
      BY <2>21 DEF Unblockade, IInv, TypeOK
    <3> QED
      BY <2>2, <3>1 DEF StructuredAt
  <2> QED
    BY <1>2, <2>3, <2>4, <2>5, <2>6, <2>7, <2>8, <2>9, <2>10, <2>11, <2>12, <2>13, <2>14, <2>15, <2>16, <2>17, <2>18, <2>19, <2>20, <2>21
       DEF Proceed
<1> QED
  BY <1>1, <1>2 DEF Next

-----------------------------------------------------------------------------
(* The lock.                                                               *)

LEMMA ReadsMembers ==
    ASSUME TypeOK
    PROVE  \A u \in Threads : \A h :
             /\ h \in held[u] => h \in Handles /\ h # NoHandle
             /\ <<u, h>> \in Reads <=> h \in held[u] \/ (h = NoHandle /\ Inside(u))
BY HandlesFinite DEF TypeOK, Reads, Out

LEMMA CountsFinite ==
    ASSUME TypeOK
    PROVE  /\ IsFiniteSet(Reads) /\ Cardinality(Reads) \in Nat
           /\ IsFiniteSet(Sealing) /\ Cardinality(Sealing) \in Nat
           /\ IsFiniteSet(Waiting) /\ Cardinality(Waiting) \in Nat
<1>1. IsFiniteSet(Reads)
  <2>1. IsFiniteSet(Threads \X (Handles \cup {NoHandle}))
    BY HandlesFinite, FS_AddElement, FS_Product, PoolAssumption
  <2>2. Reads \subseteq Threads \X (Handles \cup {NoHandle})
    BY DEF Reads, Out
  <2> QED
    BY <2>1, <2>2, FS_Subset
<1>2. IsFiniteSet(Sealing) /\ IsFiniteSet(Waiting)
  <2>1. Sealing \subseteq Threads /\ Waiting \subseteq Threads
    BY PoolAssumption DEF TypeOK, Sealing, Waiting
  <2> QED
    BY <2>1, FS_Subset, PoolAssumption
<1> QED
  BY <1>1, <1>2, FS_CardinalityType

(* A thread that has the pool to itself does: no handle is out and nobody  *)
(* is inside an operation.                                                 *)
LEMMA SealingAlone ==
    ASSUME TypeOK, Locked, NEW s \in Sealing
    PROVE  /\ m_writer > 0 /\ m_reader = 0
           /\ Sealing = {s}
           /\ \A u \in Threads : held[u] = {} /\ ~Inside(u)
<1>1. m_writer > 0
  <2>1. Cardinality(Sealing) # 0
    BY CountsFinite, FS_EmptySet
  <2> QED
    BY <2>1, CountsFinite DEF Locked
<1>2. m_reader = 0
  BY <1>1 DEF Locked
<1>3. Reads = {}
  BY <1>2, CountsFinite, FS_EmptySet DEF Locked
<1>4. \A u \in Threads : held[u] = {} /\ ~Inside(u)
  BY <1>3, ReadsMembers
<1>5. Sealing = {s}
  <2>1. Cardinality(Sealing) = 1
    BY <1>1 DEF Locked, TypeOK, Lock!TypeOK
  <2> QED
    BY <2>1, CountsFinite, FS_Singleton
<1> QED
  BY <1>1, <1>2, <1>4, <1>5

LEMMA ReaderPresent ==
    ASSUME TypeOK, Locked, NEW u \in Threads, Inside(u) \/ held[u] # {}
    PROVE  Sealing = {} /\ m_writer = 0 /\ m_reader > 0
<1>1. Sealing = {}
  BY SealingAlone
<1>2. m_writer = 0
  BY <1>1, FS_EmptySet DEF Locked
<1>3. Reads # {}
  BY ReadsMembers
<1>4. Cardinality(Reads) # 0
  BY <1>3, CountsFinite, FS_EmptySet
<1> QED
  BY <1>1, <1>2, <1>4, CountsFinite DEF Locked

(* How a step of one thread changes the number of read locks.              *)
LEMMA ReadsCounts ==
    ASSUME TypeOK, TypeOK', NEW t \in Threads,
           \A u \in Threads \ {t} :
             pc'[u] = pc[u] /\ op'[u] = op[u] /\ held'[u] = held[u]
    PROVE  /\ held'[t] = held[t] /\ (Inside(t)' <=> Inside(t)) =>
                  Cardinality(Reads') = Cardinality(Reads)
           /\ held'[t] = held[t] /\ Inside(t)' /\ ~Inside(t) =>
                  Cardinality(Reads') = Cardinality(Reads) + 1
           /\ held'[t] = held[t] /\ ~Inside(t)' /\ Inside(t) =>
                  Cardinality(Reads') = Cardinality(Reads) - 1
           /\ \A h \in Handles \ held[t] :
                held'[t] = held[t] \cup {h} /\ ~Inside(t)' /\ Inside(t) =>
                  Cardinality(Reads') = Cardinality(Reads)
           /\ \A h \in held[t] :
                held'[t] = held[t] \ {h} /\ Inside(t)' /\ ~Inside(t) =>
                  Cardinality(Reads') = Cardinality(Reads)
<1>1. \A u \in Threads : \A h : <<u, h>> \in Reads <=>
                              h \in held[u] \/ (h = NoHandle /\ Inside(u))
  BY ReadsMembers
<1>2. \A u \in Threads : \A h : <<u, h>> \in Reads' <=>
                              h \in held'[u] \/ (h = NoHandle /\ Inside(u)')
  BY HandlesFinite DEF TypeOK, Reads, Out
<1>3. \A u \in Threads \ {t} : Inside(u)' <=> Inside(u)
  BY DEF Inside
<1>4. NoHandle \notin held[t] /\ NoHandle \notin held'[t]
  BY HandlesFinite DEF TypeOK
<1>5. /\ Reads \subseteq Threads \X (Handles \cup {NoHandle})
      /\ Reads' \subseteq Threads \X (Handles \cup {NoHandle})
  BY DEF Reads, Out
<1>6. ASSUME held'[t] = held[t], Inside(t)' <=> Inside(t)
      PROVE  Reads' = Reads
  <2>1. \A u \in Threads : \A h : <<u, h>> \in Reads' <=> <<u, h>> \in Reads
    <3> SUFFICES ASSUME NEW u \in Threads, NEW h
                 PROVE  <<u, h>> \in Reads' <=> <<u, h>> \in Reads
      OBVIOUS
    <3>1. held'[u] = held[u] /\ (Inside(u)' <=> Inside(u))
      BY <1>3, <1>6
    <3> QED
      BY <1>1, <1>2, <3>1
  <2> QED
    BY <1>5, <2>1
<1>7. ASSUME held'[t] = held[t], Inside(t)', ~Inside(t)
      PROVE  Cardinality(Reads') = Cardinality(Reads) + 1
  <2>1. Reads' = Reads \cup {<<t, NoHandle>>} /\ <<t, NoHandle>> \notin Reads
    BY <1>1, <1>2, <1>3, <1>4, <1>5, <1>7
  <2> QED
    BY <2>1, CountsFinite, FS_AddElement
<1>8. ASSUME held'[t] = held[t], ~Inside(t)', Inside(t)
      PROVE  Cardinality(Reads') = Cardinality(Reads) - 1
  <2>1. Reads' = Reads \ {<<t, NoHandle>>} /\ <<t, NoHandle>> \in Reads
    BY <1>1, <1>2, <1>3, <1>4, <1>5, <1>8
  <2> QED
    BY <2>1, CountsFinite, FS_RemoveElement
<1>9. ASSUME NEW h \in Handles \ held[t], held'[t] = held[t] \cup {h},
             ~Inside(t)', Inside(t)
      PROVE  Cardinality(Reads') = Cardinality(Reads)
  <2> DEFINE middle == Reads \ {<<t, NoHandle>>}
  <2>1. /\ <<t, NoHandle>> \in Reads
        /\ <<t, h>> \notin middle
        /\ Reads' = middle \cup {<<t, h>>}
    BY <1>1, <1>2, <1>3, <1>4, <1>5, <1>9
  <2>2. IsFiniteSet(middle) /\ Cardinality(middle) = Cardinality(Reads) - 1
    BY <2>1, CountsFinite, FS_RemoveElement
  <2>3. Cardinality(Reads') = Cardinality(middle) + 1
    BY <2>1, <2>2, FS_AddElement
  <2> QED
    BY <2>2, <2>3, CountsFinite
<1>10. ASSUME NEW h \in held[t], held'[t] = held[t] \ {h}, Inside(t)', ~Inside(t)
       PROVE  Cardinality(Reads') = Cardinality(Reads)
  <2> DEFINE middle == Reads \ {<<t, h>>}
  <2>1. /\ <<t, h>> \in Reads
        /\ <<t, NoHandle>> \notin middle
        /\ Reads' = middle \cup {<<t, NoHandle>>}
    BY <1>1, <1>2, <1>3, <1>4, <1>5, <1>10
  <2>2. IsFiniteSet(middle) /\ Cardinality(middle) = Cardinality(Reads) - 1
    BY <2>1, CountsFinite, FS_RemoveElement
  <2>3. Cardinality(Reads') = Cardinality(middle) + 1
    BY <2>1, <2>2, FS_AddElement
  <2> QED
    BY <2>2, <2>3, CountsFinite
<1> QED
  BY <1>6, <1>7, <1>8, <1>9, <1>10

(* A step that takes no lock and gives none up.                            *)
LEMMA QuietLocked ==
    ASSUME IInv, TypeOK', NEW t \in Threads, Calls(t) \/ Proceed(t),
           UNCHANGED <<lockVars, blockading>>,
           held'[t] = held[t],
           Inside(t)' <=> Inside(t),
           t \in Sealing' <=> t \in Sealing,
           pc'[t] = "waitWrite" <=> pc[t] = "waitWrite",
           t \in blockading => pc'[t] \in {"idle", "lockWrite", "waitWrite"}
    PROVE  Locked'
<1> USE DEF IInv
<1>1. \A u \in Threads \ {t} : pc'[u] = pc[u] /\ op'[u] = op[u] /\ held'[u] = held[u]
  BY OthersStay
<1>2. Cardinality(Reads') = Cardinality(Reads)
  BY <1>1, ReadsCounts
<1>3. Sealing' = Sealing
  BY <1>1, PoolAssumption DEF Sealing, TypeOK
<1>4. Waiting' = Waiting
  BY <1>1 DEF Waiting
<1>5. \A u \in blockading' : pc'[u] \in {"idle", "lockWrite", "waitWrite"}
  BY <1>1, PoolAssumption DEF Locked, TypeOK
<1> QED
  BY <1>2, <1>3, <1>4, <1>5 DEF Locked, lockVars

(* A step that takes a read lock, gives one up, or passes one on.          *)
LEMMA ReaderLocked ==
    ASSUME IInv, TypeOK', NEW t \in Threads, Calls(t) \/ Proceed(t),
           UNCHANGED <<m_writer, m_pending, blockading>>,
           m_reader' = Cardinality(Reads'),
           m_writer = 0,
           pc[t] \notin {"waitWrite", "clear", "subtract", "onDrained", "unlockWrite"},
           pc'[t] # "waitWrite",
           op'[t] # "drain"
    PROVE  Locked'
<1> USE DEF IInv
<1>1. \A u \in Threads \ {t} : pc'[u] = pc[u] /\ op'[u] = op[u] /\ held'[u] = held[u]
  BY OthersStay
<1>2. Sealing = {}
  BY SealingAlone
<1>3. Sealing' = Sealing
  BY <1>1, <1>2, PoolAssumption DEF Sealing, TypeOK
<1>4. Waiting' = Waiting
  BY <1>1 DEF Waiting
<1>5. blockading = {}
  BY <1>2 DEF Sealing
<1>6. /\ m_writer' = Cardinality(Sealing')
      /\ m_pending' = Cardinality(Waiting')
  BY <1>3, <1>4 DEF Locked
<1>7. m_writer' > 0 => m_reader' = 0
  OBVIOUS
<1>8. blockading' = {}
  BY <1>5
<1> QED
  BY <1>6, <1>7, <1>8 DEF Locked

(* A step of a closer that is alone in the pool, before it or after it.    *)
LEMMA WriterLocked ==
    ASSUME IInv, TypeOK', NEW t \in Threads, Calls(t) \/ Proceed(t),
           m_reader' = m_reader, held'[t] = held[t],
           ~Inside(t), ~Inside(t)',
           m_writer' = Cardinality(Sealing'),
           m_pending' = Cardinality(Waiting'),
           m_writer' > 0 => m_reader = 0,
           blockading' \ {t} \subseteq blockading,
           t \in blockading' => pc'[t] \in {"idle", "lockWrite", "waitWrite"}
    PROVE  Locked'
<1> USE DEF IInv
<1>1. \A u \in Threads \ {t} : pc'[u] = pc[u] /\ op'[u] = op[u] /\ held'[u] = held[u]
  BY OthersStay
<1>2. Cardinality(Reads') = Cardinality(Reads)
  BY <1>1, ReadsCounts
<1>3. \A u \in blockading' : pc'[u] \in {"idle", "lockWrite", "waitWrite"}
  BY <1>1, PoolAssumption DEF Locked, TypeOK
<1> QED
  BY <1>2, <1>3 DEF Locked

(* A closer gets the pool when nobody has a handle or is inside, ...        *)
LEMMA SealTaken ==
    ASSUME IInv, NEW t \in Threads, Calls(t) \/ Proceed(t),
           (LockWrite(t) /\ Lock!AcquireWrite) \/ WaitWrite(t)
    PROVE  /\ m_writer' = 1 /\ m_reader = 0 /\ UNCHANGED <<m_reader, held>>
           /\ pc[t] \in {"lockWrite", "waitWrite"} /\ pc'[t] \in {"clear", "idle"}
           /\ pc[t] = "lockWrite" => m_pending' = m_pending
           /\ pc[t] = "waitWrite" => m_pending' = m_pending - 1
           /\ t \in blockading' => pc'[t] = "idle"
           /\ Sealing = {} /\ Sealing' = {t}
           /\ blockading' \subseteq {t}
           /\ ~Inside(t) /\ ~Inside(t)'
<1>1. /\ m_writer = 0 /\ m_writer' = 1 /\ m_reader = 0 /\ UNCHANGED <<m_reader, held>>
      /\ pc[t] \in {"lockWrite", "waitWrite"}
      /\ pc[t] = "lockWrite" => m_pending' = m_pending
      /\ pc[t] = "waitWrite" => m_pending' = m_pending - 1
      /\ \/ op'[t] = "drain" /\ pc'[t] = "clear" /\ blockading' = blockading
         \/ op'[t] = "none" /\ pc'[t] = "idle" /\ blockading' = blockading \cup {t}
  BY DEF LockWrite, WaitWrite, HaveWrite, Lock!AcquireWrite, Lock!Announce,
         Lock!AcquireAnnounced, Lock!WriteBlocked, IInv, TypeOK, Lock!TypeOK,
         Goto, Return, poolVars
<1>2. ~Inside(t) /\ ~Inside(t)'
  BY <1>1 DEF Inside
<1>3. Sealing = {}
  BY <1>1, SealingAlone DEF IInv
<1>4. blockading = {}
  BY <1>3 DEF Sealing
<1>5. \A u \in Threads \ {t} : pc'[u] = pc[u] /\ op'[u] = op[u]
  BY OthersStay DEF IInv
<1>6. Sealing' = {t}
  BY <1>1, <1>3, <1>4, <1>5 DEF Sealing
<1> QED
  BY <1>1, <1>2, <1>3, <1>4, <1>6

(* ... and gives it up for everybody.                                       *)
LEMMA SealGivenUp ==
    ASSUME IInv, NEW t \in Threads, Calls(t) \/ Proceed(t),
           UnlockWrite(t) \/ Unblockade(t)
    PROVE  /\ m_writer' = 0 /\ UNCHANGED <<m_reader, m_pending, held>>
           /\ pc[t] # "waitWrite" /\ pc'[t] = "idle"
           /\ Sealing = {t} /\ Sealing' = {}
           /\ blockading' \subseteq blockading
           /\ ~Inside(t) /\ ~Inside(t)'
<1>1. StructuredAt(t)
  BY DEF IInv, Structured
<1>2. /\ m_writer' = m_writer - 1
      /\ UNCHANGED <<m_reader, m_pending, held>>
      /\ \/ pc[t] = "unlockWrite" /\ blockading' = blockading
         \/ /\ pc[t] = "idle" /\ t \in blockading
            /\ blockading' = blockading \ {t}
      /\ pc'[t] = "idle" /\ op'[t] = "none"
  BY <1>1 DEF UnlockWrite, Unblockade, Lock!ReleaseWrite, IInv, TypeOK,
              StructuredAt, Goto, Return, poolVars
<1>3. t \in Sealing /\ ~Inside(t) /\ ~Inside(t)'
  BY <1>1, <1>2 DEF Sealing, Inside, StructuredAt
<1>4. Sealing = {t} /\ m_writer = 1
  BY <1>3, SealingAlone DEF IInv, TypeOK, Lock!TypeOK
<1>5. blockading' = {}
  <2>1. blockading \subseteq {t}
    BY <1>4 DEF Sealing
  <2>2. t \in blockading => pc[t] # "unlockWrite"
    BY DEF IInv, Locked
  <2> QED
    BY <1>2, <2>1, <2>2
<1>6. \A u \in Threads \ {t} : pc'[u] = pc[u] /\ op'[u] = op[u] /\ u \notin Sealing
  BY <1>4, OthersStay DEF IInv
<1>7. Sealing' = {}
  BY <1>2, <1>5, <1>6 DEF Sealing
<1> QED
  BY <1>2, <1>3, <1>4, <1>5, <1>7

LEMMA LockedPreserved ==
    ASSUME IInv, [Next]_vars
    PROVE  Locked'
<1>1. CASE UNCHANGED vars
  BY <1>1 DEF vars, lockVars, poolVars, locals, IInv, Locked, Reads, Out, Inside,
              Sealing, Waiting
<1>2. ASSUME NEW t \in Threads, Calls(t) \/ Proceed(t)
      PROVE  Locked'
  <2> USE DEF Goto, Return, lockVars, poolVars, locals
  <2>1. TypeOK'
    BY <1>2, TypePreserved DEF Next
  <2>2. /\ StructuredAt(t)
        /\ t \in blockading => pc[t] \in {"idle", "lockWrite", "waitWrite"}
    BY DEF IInv, Structured, Locked
  <2>3. \A u \in Threads \ {t} :
          pc'[u] = pc[u] /\ op'[u] = op[u] /\ held'[u] = held[u]
    BY <1>2, OthersStay DEF IInv
  <2>4. CASE Calls(t)
    <3>1. /\ UNCHANGED <<lockVars, blockading>> /\ held' = held
          /\ \/ pc'[t] = pc[t] /\ op'[t] = op[t]
             \/ pc[t] = "idle" /\ pc'[t] = "lockRead" /\ t \notin blockading
             \/ pc[t] = "idle" /\ pc'[t] = "lockWrite"
      BY <2>4 DEF Calls, CallFlowOut, CallPurge, CallCanOpen, CallClose,
                  CallBlockade, SetConfig, Call, MayRead, IInv, TypeOK
    <3>2. /\ Inside(t)' <=> Inside(t)
          /\ t \in Sealing' <=> t \in Sealing
          /\ pc'[t] = "waitWrite" <=> pc[t] = "waitWrite"
          /\ t \in blockading => pc'[t] \in {"idle", "lockWrite", "waitWrite"}
      BY <2>2, <3>1 DEF Inside, Sealing
    <3> QED
      BY <1>2, <2>1, <3>1, <3>2, QuietLocked
  <2>5. CASE PopBack(t) \/ CheckMax(t) \/ Generate(t) \/ CountUp(t) \/ FillPush(t)
    <3>1. /\ UNCHANGED <<lockVars, blockading>> /\ held' = held
          /\ pc[t] \in {"popBack", "checkMax", "generate", "countUp", "pushBack"}
          /\ pc'[t] \in {"checkMax", "generate", "countUp", "invoke", "pushBack",
                         "unlockRead"}
      BY <2>5 DEF PopBack, CheckMax, Generate, CountUp, FillPush, IInv, TypeOK
    <3>2. /\ Inside(t) /\ Inside(t)'
          /\ t \notin Sealing /\ t \notin Sealing'
      BY <2>2, <3>1 DEF Inside, Sealing
    <3> QED
      BY <1>2, <2>1, <2>2, <3>1, <3>2, QuietLocked
  <2>6. CASE CountDown(t) \/ Release(t)
    <3>1. /\ UNCHANGED <<lockVars, blockading>> /\ held' = held
          /\ pc[t] \in {"countDown", "release"}
          /\ pc'[t] \in {"release", "idle"}
      BY <2>6 DEF CountDown, Release, IInv, TypeOK
    <3>2. /\ ~Inside(t) /\ ~Inside(t)'
          /\ t \notin Sealing /\ t \notin Sealing'
      BY <2>2, <3>1 DEF Inside, Sealing
    <3> QED
      BY <1>2, <2>1, <2>2, <3>1, <3>2, QuietLocked
  <2>7. CASE Clear(t) \/ Subtract(t) \/ OnDrained(t)
    <3>1. /\ UNCHANGED <<lockVars, blockading>> /\ held' = held /\ op'[t] = op[t]
          /\ \/ pc[t] = "clear" /\ pc'[t] = "subtract"
             \/ /\ pc[t] = "subtract"
                /\ pc'[t] = IF op[t] = "drain" THEN "onDrained" ELSE "unlockRead"
             \/ pc[t] = "onDrained" /\ pc'[t] = "unlockWrite"
      BY <2>7 DEF Clear, Subtract, OnDrained, IInv, TypeOK
    <3>2. /\ Inside(t)' <=> Inside(t)
          /\ t \in Sealing' <=> t \in Sealing
      BY <2>2, <3>1 DEF Inside, Sealing, StructuredAt
    <3> QED
      BY <1>2, <2>1, <2>2, <3>1, <3>2, QuietLocked
  <2>8. CASE Invoke(t)
    <3>1. /\ UNCHANGED <<lockVars, blockading>>
          /\ pc[t] = "invoke" /\ Inside(t)
          /\ \/ /\ held'[t] = held[t] \cup {wrap[t]}
                /\ pc'[t] = "idle" /\ op'[t] = "none"
             \/ /\ held'[t] = held[t]
                /\ pc'[t] = "unlockRead" /\ op'[t] = op[t]
      BY <2>8 DEF Invoke, IInv, TypeOK, Inside
    <3>2. CASE held'[t] = held[t] /\ pc'[t] = "unlockRead" /\ op'[t] = op[t]
      <4>1. Inside(t)' /\ t \notin Sealing /\ t \notin Sealing'
        BY <2>2, <3>1, <3>2 DEF Inside, Sealing
      <4> QED
        BY <1>2, <2>1, <2>2, <3>1, <3>2, <4>1, QuietLocked
    <3>3. CASE held'[t] = held[t] \cup {wrap[t]} /\ pc'[t] = "idle" /\ op'[t] = "none"
      <4>1. wrap[t] \in Handles \ held[t]
        BY <2>2, <3>1, PoolAssumption DEF IInv, TypeOK, StructuredAt, Sole, Fresh
      <4>2. ~Inside(t)'
        BY <3>3 DEF Inside
      <4>3. Cardinality(Reads') = Cardinality(Reads)
        BY <2>1, <2>3, <3>1, <3>3, <4>1, <4>2, ReadsCounts DEF IInv
      <4>4. m_writer = 0
        BY <3>1, ReaderPresent DEF IInv
      <4>5. m_reader' = Cardinality(Reads')
        BY <3>1, <4>3 DEF IInv, Locked
      <4> QED
        BY <1>2, <2>1, <3>1, <3>3, <4>4, <4>5, ReaderLocked
    <3> QED
      BY <3>1, <3>2, <3>3
  <2>9. CASE LockRead(t)
    <3>1. /\ m_writer = 0 /\ m_reader' = m_reader + 1
          /\ UNCHANGED <<m_writer, m_pending, blockading>> /\ held' = held
          /\ pc[t] = "lockRead" /\ op'[t] = op[t]
          /\ \/ pc'[t] \in {"popBack", "generate"}
             \/ pc'[t] = "clear" /\ op[t] = "purgeFreeHandles"
      BY <2>9 DEF LockRead, Lock!AcquireRead, Lock!ReadBlocked, IInv, TypeOK, Lock!TypeOK
    <3>2. ~Inside(t) /\ Inside(t)' /\ op'[t] # "drain"
      BY <2>2, <3>1 DEF Inside, StructuredAt
    <3>3. Cardinality(Reads') = Cardinality(Reads) + 1
      BY <2>1, <2>3, <3>1, <3>2, ReadsCounts DEF IInv
    <3>4. m_reader' = Cardinality(Reads') /\ pc'[t] # "waitWrite"
      BY <3>1, <3>3 DEF IInv, Locked
    <3> QED
      BY <1>2, <2>1, <3>1, <3>2, <3>4, ReaderLocked
  <2>10. CASE FlowBack(t)
    <3>1. PICK h \in held[t] : held'[t] = held[t] \ {h}
      BY <2>10 DEF FlowBack, IInv, TypeOK
    <3>2. /\ UNCHANGED <<lockVars, blockading>>
          /\ pc[t] = "idle" /\ pc'[t] = "unlockRead" /\ op'[t] = "flowBack"
          /\ ~Inside(t) /\ Inside(t)'
      BY <2>10 DEF FlowBack, IInv, TypeOK, Inside
    <3>3. Cardinality(Reads') = Cardinality(Reads)
      BY <2>1, <2>3, <3>1, <3>2, ReadsCounts DEF IInv
    <3>4. m_writer = 0
      BY <3>1, ReaderPresent DEF IInv
    <3>5. m_reader' = Cardinality(Reads')
      BY <3>2, <3>3 DEF IInv, Locked
    <3> QED
      BY <1>2, <2>1, <3>2, <3>4, <3>5, ReaderLocked
  <2>11. CASE UnlockRead(t)
    <3>1. /\ m_reader' = m_reader - 1
          /\ UNCHANGED <<m_writer, m_pending, blockading>> /\ held' = held
          /\ pc[t] = "unlockRead" /\ Inside(t)
          /\ pc'[t] \in {"idle", "countDown", "release"}
          /\ op'[t] \in {op[t], "none"}
      BY <2>11 DEF UnlockRead, Lock!ReleaseRead, IInv, TypeOK, Inside
    <3>2. ~Inside(t)' /\ op'[t] # "drain"
      BY <2>2, <3>1 DEF Inside, StructuredAt
    <3>3. Cardinality(Reads') = Cardinality(Reads) - 1
      BY <2>1, <2>3, <3>1, <3>2, ReadsCounts DEF IInv
    <3>4. m_writer = 0
      BY <3>1, ReaderPresent DEF IInv
    <3>5. m_reader' = Cardinality(Reads') /\ pc'[t] # "waitWrite"
      BY <3>1, <3>3 DEF IInv, Locked
    <3> QED
      BY <1>2, <2>1, <3>1, <3>2, <3>4, <3>5, ReaderLocked
  <2>12. CASE LockWrite(t) /\ Lock!Announce
    <3>1. /\ m_pending' = m_pending + 1
          /\ UNCHANGED <<m_reader, m_writer, blockading>> /\ held' = held
          /\ pc[t] = "lockWrite" /\ pc'[t] = "waitWrite" /\ op'[t] = op[t]
      BY <2>12 DEF LockWrite, Lock!Announce, Lock!AcquireWrite, IInv, TypeOK, Lock!TypeOK
    <3>2. ~Inside(t) /\ ~Inside(t)'
      BY <3>1 DEF Inside
    <3>3. Sealing' = Sealing
      BY <2>3, <3>1, PoolAssumption DEF Sealing, IInv, TypeOK
    <3>4. Waiting' = Waiting \cup {t} /\ t \notin Waiting
      BY <2>3, <3>1 DEF Waiting
    <3>5. Cardinality(Waiting') = Cardinality(Waiting) + 1
      BY <3>4, CountsFinite, FS_AddElement DEF IInv
    <3>6. /\ m_writer' = Cardinality(Sealing')
          /\ m_pending' = Cardinality(Waiting')
          /\ m_writer' > 0 => m_reader = 0
      BY <3>1, <3>3, <3>5 DEF IInv, Locked
    <3> QED
      BY <1>2, <2>1, <3>1, <3>2, <3>6, WriterLocked
  <2>13. CASE (LockWrite(t) /\ Lock!AcquireWrite) \/ WaitWrite(t)
    <3>1. /\ m_writer' = 1 /\ m_reader = 0 /\ UNCHANGED <<m_reader, held>>
          /\ pc[t] \in {"lockWrite", "waitWrite"} /\ pc'[t] \in {"clear", "idle"}
          /\ pc[t] = "lockWrite" => m_pending' = m_pending
          /\ pc[t] = "waitWrite" => m_pending' = m_pending - 1
          /\ t \in blockading' => pc'[t] = "idle"
          /\ Sealing = {} /\ Sealing' = {t}
          /\ blockading' \subseteq {t}
          /\ ~Inside(t) /\ ~Inside(t)'
      BY <1>2, <2>13, SealTaken
    <3>2. m_writer' = Cardinality(Sealing')
      BY <3>1, FS_Singleton
    <3>3. Waiting' = Waiting \ {t}
      BY <2>3, <3>1 DEF Waiting
    <3>4. m_pending' = Cardinality(Waiting')
      <4>1. CASE pc[t] = "lockWrite"
        <5>1. t \notin Waiting
          BY <4>1 DEF Waiting
        <5>2. Waiting' = Waiting
          BY <3>3, <5>1
        <5> QED
          BY <3>1, <4>1, <5>2 DEF IInv, Locked
      <4>2. CASE pc[t] = "waitWrite"
        <5>1. t \in Waiting
          BY <4>2 DEF Waiting
        <5>2. Cardinality(Waiting') = Cardinality(Waiting) - 1
          BY <3>3, <5>1, CountsFinite, FS_RemoveElement DEF IInv
        <5> QED
          BY <3>1, <4>2, <5>2 DEF IInv, Locked
      <4> QED
        BY <3>1, <4>1, <4>2
    <3> QED
      BY <1>2, <2>1, <3>1, <3>2, <3>4, WriterLocked
  <2>14. CASE UnlockWrite(t) \/ Unblockade(t)
    <3>1. /\ m_writer' = 0 /\ UNCHANGED <<m_reader, m_pending, held>>
          /\ pc[t] # "waitWrite" /\ pc'[t] = "idle"
          /\ Sealing = {t} /\ Sealing' = {}
          /\ blockading' \subseteq blockading
          /\ ~Inside(t) /\ ~Inside(t)'
      BY <1>2, <2>14, SealGivenUp
    <3>2. m_writer' = Cardinality(Sealing')
      BY <3>1, FS_EmptySet
    <3>3. Waiting' = Waiting
      BY <2>3, <3>1 DEF Waiting
    <3>4. m_pending' = Cardinality(Waiting')
      BY <3>1, <3>3 DEF IInv, Locked
    <3>5. /\ m_writer' > 0 => m_reader = 0
          /\ blockading' \ {t} \subseteq blockading
      BY <3>1
    <3> QED
      BY <1>2, <2>1, <3>1, <3>2, <3>4, <3>5, WriterLocked
  <2>15. LockWrite(t) => Lock!AcquireWrite \/ Lock!Announce
    BY DEF LockWrite
  <2> QED
    BY <1>2, <2>4, <2>5, <2>6, <2>7, <2>8, <2>9, <2>10, <2>11, <2>12, <2>13, <2>14,
       <2>15 DEF Proceed
<1> QED
  BY <1>1, <1>2 DEF Next

-----------------------------------------------------------------------------
(* One place for each handle.                                              *)

LEMMA PushList ==
    ASSUME TypeOK, Sole, NEW t \in Threads, NEW h \in Handles, Push(t, h),
           h \notin Elements(m_handles)
    PROVE  /\ Elements(m_handles') \subseteq Elements(m_handles) \cup {h}
           /\ \A i, j \in DOMAIN m_handles' : m_handles'[i] = m_handles'[j] => i = j
<1>1. m_handles' = Append(m_handles, h) \/ m_handles' = m_handles
  BY DEF Push
<1>2. CASE m_handles' = m_handles
  BY <1>2 DEF Sole
<1>3. CASE m_handles' = Append(m_handles, h)
  <2>1. /\ Len(m_handles) \in Nat
        /\ DOMAIN m_handles = 1..Len(m_handles)
        /\ m_handles' \in Seq(Handles)
        /\ Len(m_handles') = Len(m_handles) + 1
        /\ DOMAIN m_handles' = 1..(Len(m_handles) + 1)
        /\ \A i \in 1..Len(m_handles) : m_handles'[i] = m_handles[i]
        /\ m_handles'[Len(m_handles) + 1] = h
        /\ Elements(m_handles') = Elements(m_handles) \cup {h}
    BY <1>3, PushElements DEF TypeOK
  <2>2. \A i \in 1..Len(m_handles) : m_handles[i] # h
    BY <2>1 DEF Elements
  <2>3. \A i, j \in 1..Len(m_handles) : m_handles[i] = m_handles[j] => i = j
    BY <2>1 DEF Sole
  <2>4. \A i \in 1..(Len(m_handles) + 1) : i \in 1..Len(m_handles) \/ i = Len(m_handles) + 1
    BY <2>1
  <2> QED
    BY <2>1, <2>2, <2>3, <2>4
<1> QED
  BY <1>1, <1>2, <1>3

(* A step in which no handle changes hands, except that the list may lose  *)
(* some.                                                                   *)
LEMMA QuietSole ==
    ASSUME IInv, NEW t \in Threads, Calls(t) \/ Proceed(t),
           m_handles' = m_handles \/ m_handles' = <<>>,
           held'[t] = held[t],
           Fresh(t)' => Fresh(t) /\ wrap'[t] = wrap[t]
    PROVE  Sole'
<1> USE DEF IInv
<1>1. \A u \in Threads :
        /\ held'[u] = held[u]
        /\ Fresh(u)' => Fresh(u) /\ wrap'[u] = wrap[u]
  BY OthersStay DEF Fresh
<1>2. /\ Elements(m_handles') \subseteq Elements(m_handles)
      /\ \A i, j \in DOMAIN m_handles' : m_handles'[i] = m_handles'[j] => i = j
  <2>1. CASE m_handles' = m_handles
    BY <2>1 DEF Sole
  <2>2. CASE m_handles' = <<>>
    BY <2>2 DEF Elements
  <2> QED
    BY <2>1, <2>2
<1> HIDE DEF IInv
<1>3. Sole
  BY DEF IInv
<1> QED
  BY <1>1, <1>2, <1>3 DEF Sole

LEMMA SolePreserved ==
    ASSUME IInv, [Next]_vars
    PROVE  Sole'
<1>1. CASE UNCHANGED vars
  BY <1>1 DEF vars, poolVars, locals, IInv, Sole, Fresh
<1>2. ASSUME NEW t \in Threads, Calls(t) \/ Proceed(t)
      PROVE  Sole'
  <2> USE DEF Goto, Return, lockVars, poolVars, locals
  <2>1. StructuredAt(t) /\ Sole
    BY DEF IInv, Structured
  <2>2. \A u \in Threads \ {t} :
          /\ wrap'[u] = wrap[u] /\ held'[u] = held[u]
          /\ Fresh(u)' <=> Fresh(u)
    BY <1>2, OthersStay DEF IInv, Fresh
  <2>3. CASE \/ Calls(t) \/ LockRead(t) \/ CheckMax(t) \/ UnlockRead(t) \/ CountDown(t)
             \/ Release(t) \/ Clear(t) \/ Subtract(t) \/ OnDrained(t) \/ LockWrite(t)
             \/ WaitWrite(t) \/ UnlockWrite(t) \/ Unblockade(t)
    <3>1. m_handles' = m_handles \/ m_handles' = <<>>
      BY <2>3 DEF Calls, CallFlowOut, CallPurge, CallCanOpen, CallClose, CallBlockade,
                  SetConfig, Call, LockRead, CheckMax, UnlockRead, CountDown, Release,
                  Clear, Subtract, OnDrained, LockWrite, WaitWrite, UnlockWrite, Unblockade
    <3>2. held'[t] = held[t]
      BY <2>3 DEF Calls, CallFlowOut, CallPurge, CallCanOpen, CallClose, CallBlockade,
                  SetConfig, Call, LockRead, CheckMax, UnlockRead, CountDown, Release,
                  Clear, Subtract, OnDrained, LockWrite, WaitWrite, UnlockWrite, Unblockade
    <3>3. ~Fresh(t)' \/ UNCHANGED pc
      <4>1. CASE Calls(t)
        BY <4>1 DEF Calls, CallFlowOut, CallPurge, CallCanOpen, CallClose, CallBlockade,
                    SetConfig, Call, IInv, TypeOK, Fresh
      <4>2. CASE LockRead(t) \/ CheckMax(t) \/ UnlockRead(t) \/ CountDown(t) \/ Release(t)
        BY <4>2 DEF LockRead, CheckMax, UnlockRead, CountDown, Release, IInv, TypeOK, Fresh
      <4>3. CASE Clear(t) \/ Subtract(t) \/ OnDrained(t)
        BY <4>3 DEF Clear, Subtract, OnDrained, IInv, TypeOK, Fresh
      <4>4. CASE LockWrite(t) \/ WaitWrite(t) \/ UnlockWrite(t) \/ Unblockade(t)
        BY <4>4 DEF LockWrite, WaitWrite, HaveWrite, UnlockWrite, Unblockade, IInv, TypeOK,
                    Fresh
      <4> QED
        BY <2>3, <4>1, <4>2, <4>3, <4>4
    <3>4. UNCHANGED pc => UNCHANGED <<op, wrap>>
      BY <2>3 DEF Calls, CallFlowOut, CallPurge, CallCanOpen, CallClose, CallBlockade,
                  SetConfig, Call, LockRead, CheckMax, UnlockRead, CountDown, Release,
                  Clear, Subtract, OnDrained, LockWrite, WaitWrite, HaveWrite, UnlockWrite,
                  Unblockade, IInv, TypeOK
    <3>5. Fresh(t)' => Fresh(t) /\ wrap'[t] = wrap[t]
      BY <3>3, <3>4 DEF Fresh
    <3> QED
      BY <1>2, <3>1, <3>2, <3>5, QuietSole
  <2>4. CASE PopBack(t)
    <3>1. CASE m_handles = <<>> /\ UNCHANGED <<m_handles, wrap>>
      <4>1. held'[t] = held[t] /\ (pc'[t] = "checkMax" \/ pc'[t] = "invoke")
        BY <2>4 DEF PopBack, IInv, TypeOK
      <4>2. pc'[t] = "checkMax"
        BY <2>4, <3>1 DEF PopBack, IInv, TypeOK
      <4>3. ~Fresh(t)'
        BY <4>2 DEF Fresh
      <4> QED
        BY <1>2, <3>1, <4>1, <4>3, QuietSole
    <3>2. CASE /\ m_handles # <<>>
               /\ wrap' = [wrap EXCEPT ![t] = m_handles[Len(m_handles)]]
               /\ m_handles' = SubSeq(m_handles, 1, Len(m_handles) - 1)
      <4>1. /\ m_handles[Len(m_handles)] \in Elements(m_handles)
            /\ m_handles[Len(m_handles)] \notin Elements(m_handles')
            /\ Elements(m_handles') \subseteq Elements(m_handles)
            /\ \A i, j \in DOMAIN m_handles' : m_handles'[i] = m_handles'[j] => i = j
        BY <2>1, <3>2, PopElements DEF IInv, TypeOK, Sole
      <4>2. wrap'[t] = m_handles[Len(m_handles)] /\ held'[t] = held[t]
        BY <2>4, <3>2 DEF PopBack, IInv, TypeOK
      <4>3. /\ wrap'[t] \in Elements(m_handles)
            /\ wrap'[t] \notin Elements(m_handles')
        BY <4>1, <4>2
      <4> QED
        BY <2>1, <2>2, <4>1, <4>2, <4>3 DEF Sole
    <3> QED
      BY <2>4, <3>1, <3>2 DEF PopBack
  <2>5. CASE Generate(t)
    <3>1. m_handles' = m_handles /\ held'[t] = held[t]
      BY <2>5 DEF Generate
    <3>2. CASE pc' = [pc EXCEPT ![t] = "unlockRead"]
      <4>1. ~Fresh(t)'
        BY <3>2 DEF Fresh, IInv, TypeOK
      <4> QED
        BY <1>2, <3>1, <4>1, QuietSole
    <3>3. CASE wrap' = [wrap EXCEPT ![t] = NewHandle]
      <4>1. NewHandle \in Handles \ Open
        BY <2>1, <2>5, NewHandleFree DEF Generate, IInv, StructuredAt
      <4>2. NewHandle # NoHandle
        BY <4>1, HandlesFinite
      <4>3. /\ NewHandle \notin Elements(m_handles)
            /\ \A u \in Threads : NewHandle \notin held[u] /\ wrap[u] # NewHandle
        BY <4>1, <4>2 DEF Open
      <4>4. wrap'[t] = NewHandle
        BY <3>3 DEF IInv, TypeOK
      <4> QED
        BY <2>1, <2>2, <3>1, <4>3, <4>4 DEF Sole
    <3> QED
      BY <2>5, <3>2, <3>3 DEF Generate
  <2>6. CASE CountUp(t)
    <3>1. /\ m_handles' = m_handles /\ held'[t] = held[t] /\ wrap'[t] = wrap[t]
          /\ pc[t] = "countUp" /\ op'[t] = op[t]
          /\ pc'[t] = IF op[t] = "flowOut" THEN "invoke" ELSE "unlockRead"
      BY <2>6 DEF CountUp, IInv, TypeOK
    <3>2. Fresh(t)' => Fresh(t)
      BY <3>1 DEF Fresh
    <3> QED
      BY <1>2, <3>1, <3>2, QuietSole
  <2>7. CASE Invoke(t)
    <3>1. /\ m_handles' = m_handles /\ pc[t] = "invoke"
          /\ pc'[t] \in {"idle", "unlockRead"}
          /\ held'[t] \in {held[t], held[t] \cup {wrap[t]}}
      BY <2>7 DEF Invoke, IInv, TypeOK
    <3>2. Fresh(t) /\ ~Fresh(t)'
      BY <2>1, <3>1 DEF Fresh, StructuredAt
    <3> QED
      BY <2>1, <2>2, <3>1, <3>2 DEF Sole
  <2>8. CASE FillPush(t)
    <3>1. /\ held'[t] = held[t] /\ pc[t] = "pushBack" /\ Push(t, wrap[t])
          /\ pc'[t] \in {"countUp", "unlockRead"} /\ op'[t] = op[t]
      BY <2>8 DEF FillPush, IInv, TypeOK
    <3>2. Fresh(t) /\ ~Fresh(t)' /\ wrap[t] \in Handles
      BY <2>1, <3>1 DEF Fresh, StructuredAt, IInv, TypeOK
    <3>3. /\ Elements(m_handles') \subseteq Elements(m_handles) \cup {wrap[t]}
          /\ \A i, j \in DOMAIN m_handles' : m_handles'[i] = m_handles'[j] => i = j
      BY <2>1, <3>1, <3>2, PushList DEF IInv, Sole
    <3> QED
      BY <2>1, <2>2, <3>1, <3>2, <3>3 DEF Sole
  <2>9. CASE FlowBack(t)
    <3>1. PICK h \in held[t] : held'[t] = held[t] \ {h} /\ Push(t, h)
      BY <2>9 DEF FlowBack, IInv, TypeOK
    <3>2. h \in Handles /\ h \notin Elements(m_handles)
      BY <2>1, <3>1 DEF Sole, IInv, TypeOK
    <3>3. pc'[t] = "unlockRead"
      BY <2>9 DEF FlowBack, IInv, TypeOK
    <3>4. ~Fresh(t)'
      BY <3>3 DEF Fresh
    <3>5. /\ Elements(m_handles') \subseteq Elements(m_handles) \cup {h}
          /\ \A i, j \in DOMAIN m_handles' : m_handles'[i] = m_handles'[j] => i = j
      BY <2>1, <3>1, <3>2, PushList DEF IInv
    <3> QED
      BY <2>1, <2>2, <3>1, <3>4, <3>5 DEF Sole
  <2> QED
    BY <1>2, <2>3, <2>4, <2>5, <2>6, <2>7, <2>8, <2>9 DEF Proceed
<1> QED
  BY <1>1, <1>2 DEF Next

(* The list can only grow where somebody is inside, or gives a handle back.*)
LEMMA DrainedPreserved ==
    ASSUME IInv, [Next]_vars
    PROVE  Drained'
<1>1. CASE UNCHANGED vars
  BY <1>1 DEF vars, poolVars, IInv, Drained
<1>2. ASSUME NEW t \in Threads, Calls(t) \/ Proceed(t)
      PROVE  Drained'
  <2> USE DEF Goto, Return, lockVars, poolVars, locals
  <2>1. \A u \in Threads \ {t} : pc'[u] = pc[u] /\ op'[u] = op[u]
    BY <1>2, OthersStay DEF IInv
  <2>2. ASSUME NEW u \in Threads, u # t, op[u] = "drain", pc[u] \in {"subtract", "onDrained"}
        PROVE  m_handles' = <<>>
    <3>1. u \in Sealing /\ m_handles = <<>>
      BY <2>2 DEF Sealing, IInv, Drained
    <3>2. held[t] = {} /\ ~Inside(t)
      BY <3>1, SealingAlone DEF IInv
    <3>3. ~PopBack(t) /\ ~FillPush(t) /\ ~FlowBack(t)
      BY <3>2 DEF Inside, PopBack, FillPush, FlowBack
    <3>4. m_handles' = m_handles \/ m_handles' = <<>>
      BY <1>2, <3>3
         DEF Proceed, Calls, CallFlowOut, CallPurge, CallCanOpen, CallClose, CallBlockade,
             SetConfig, Call, LockRead, CheckMax, Generate, CountUp, Invoke, UnlockRead,
             CountDown, Release, Clear, Subtract, OnDrained, LockWrite, WaitWrite,
             UnlockWrite, Unblockade
    <3> QED
      BY <3>1, <3>4
  <2>3. ASSUME op'[t] = "drain", pc'[t] \in {"subtract", "onDrained"}
        PROVE  m_handles' = <<>>
    <3>1. Clear(t) \/ Subtract(t) \/ SetConfig(t)
      <4>1. CASE Calls(t)
        BY <2>3, <4>1 DEF Calls, CallFlowOut, CallPurge, CallCanOpen, CallClose,
                          CallBlockade, Call, IInv, TypeOK
      <4>2. ~LockRead(t) /\ ~PopBack(t) /\ ~CheckMax(t) /\ ~Generate(t) /\ ~CountUp(t)
        BY <2>3 DEF LockRead, PopBack, CheckMax, Generate, CountUp, IInv, TypeOK
      <4>3. ~Invoke(t) /\ ~FillPush(t) /\ ~FlowBack(t) /\ ~UnlockRead(t) /\ ~CountDown(t)
        BY <2>3 DEF Invoke, FillPush, FlowBack, UnlockRead, CountDown, IInv, TypeOK
      <4>4. ~Release(t) /\ ~OnDrained(t) /\ ~LockWrite(t) /\ ~WaitWrite(t)
        BY <2>3 DEF Release, OnDrained, LockWrite, WaitWrite, HaveWrite, IInv, TypeOK
      <4>5. ~UnlockWrite(t) /\ ~Unblockade(t)
        BY <2>3 DEF UnlockWrite, Unblockade, IInv, TypeOK, Structured, StructuredAt
      <4> QED
        BY <1>2, <4>1, <4>2, <4>3, <4>4, <4>5 DEF Proceed
    <3>2. CASE Clear(t)
      BY <3>2 DEF Clear
    <3>3. CASE Subtract(t)
      BY <2>3, <3>3 DEF Subtract, IInv, TypeOK, Drained
    <3>4. CASE SetConfig(t)
      BY <2>3, <3>4 DEF SetConfig, IInv, Structured, StructuredAt
    <3> QED
      BY <3>1, <3>2, <3>3, <3>4
  <2> QED
    BY <2>1, <2>2, <2>3 DEF Drained
<1> QED
  BY <1>1, <1>2 DEF Next

-----------------------------------------------------------------------------

LEMMA InitEstablishes == Init => IInv
<1> SUFFICES ASSUME Init PROVE IInv
  OBVIOUS
<1>1. TypeOK
  <2>1. Lock!TypeOK
    BY DEF Init, Lock!Init, Lock!TypeOK
  <2>2. m_handles \in Seq(Handles) /\ Len(m_handles) <= HardwareConcurrency
    BY PoolAssumption DEF Init
  <2>3. m_configs \in 0..MaxConfigs /\ configs \in [Handles -> 0..MaxConfigs]
    BY PoolAssumption DEF Init
  <2>4. size \in [Threads -> 0..HardwareConcurrency]
    BY PoolAssumption DEF Init
  <2>5. pc \in [Threads -> PCs] /\ op \in [Threads -> Operations]
    BY DEF Init, PCs, Operations
  <2>6. /\ held \in [Threads -> SUBSET Handles]
        /\ blockading \subseteq Closers
        /\ wrap \in [Threads -> Handles \cup {NoHandle}]
        /\ inserted \in [Threads -> BOOLEAN]
        /\ refused \in Nat
        /\ m_aliveHandleCount \in Int
    BY DEF Init
  <2> QED
    BY <2>1, <2>2, <2>3, <2>4, <2>5, <2>6 DEF TypeOK
<1>2. Structured
  BY FS_EmptySet, PoolAssumption DEF Init, Structured, StructuredAt
<1>3. Sole
  BY DEF Init, Sole, Fresh, Elements
<1>4. Locked
  <2>1. Reads = {}
    BY DEF Init, Reads, Out, Inside
  <2>2. Sealing = {} /\ Waiting = {}
    BY DEF Init, Sealing, Waiting
  <2> QED
    BY <2>1, <2>2, FS_EmptySet DEF Init, Lock!Init, Locked
<1>5. Drained
  BY DEF Init, Drained
<1> QED
  BY <1>1, <1>2, <1>3, <1>4, <1>5 DEF IInv

(* The inductive invariant: the shape of the state, where each operation   *)
(* is, one place for each handle, what the lock's counters count, and that *)
(* a drained list stays drained.                                           *)
THEOREM Invariance == SafetySpec => []IInv
<1>1. IInv /\ [Next]_vars => IInv'
  BY TypePreserved, StructurePreserved, SolePreserved, LockedPreserved, DrainedPreserved
     DEF IInv
<1> QED
  BY <1>1, InitEstablishes, PTL DEF SafetySpec

(* A connection has one user: it is in the free list, or out to one        *)
(* thread, or being handed to one, and the free list holds it once.        *)
THEOREM SoleUseAlways == SafetySpec => []SoleUse
<1>1. IInv => SoleUse
  <2> SUFFICES ASSUME IInv PROVE SoleUse
    OBVIOUS
  <2>1. \A t \in Threads : Obtaining(t) => Fresh(t)
    BY DEF IInv, TypeOK, PCs, Structured, StructuredAt, Obtaining, Fresh
  <2> QED
    BY <2>1 DEF SoleUse, Sole, IInv
<1> QED
  BY <1>1, Invariance, PTL

(* While onDrained runs nothing is out and the list is empty; a connection *)
(* is open only with a thread that has just given it back.                 *)
THEOREM OnlyReturning == SafetySpec => []OnlyReturningOpen
<1>1. IInv => OnlyReturningOpen
  <2> SUFFICES ASSUME IInv, NEW t \in Threads, pc[t] = "onDrained", NEW h \in Open
               PROVE  \E u \in Threads : wrap[u] = h /\ pc[u] \in {"countDown", "release"}
    BY DEF OnlyReturningOpen
  <2>1. op[t] = "drain"
    BY DEF IInv, Structured, StructuredAt
  <2>2. t \in Sealing /\ m_handles = <<>>
    BY <2>1 DEF Sealing, IInv, Drained
  <2>3. \A u \in Threads : held[u] = {} /\ ~Inside(u)
    BY <2>2, SealingAlone DEF IInv
  <2>4. PICK u \in Threads : h = wrap[u] /\ wrap[u] # NoHandle
    BY <2>2, <2>3 DEF Open, Elements
  <2>5. pc[u] \in {"countDown", "release"}
    BY <2>3, <2>4 DEF IInv, TypeOK, PCs, Structured, StructuredAt, Inside
  <2> QED
    BY <2>4, <2>5
<1> QED
  BY <1>1, Invariance, PTL

-----------------------------------------------------------------------------
(* The refinement.  Only a handle that is handed out or given back changes *)
(* held, and only taking and giving up the write lock changes Sealing.     *)

LEMMA SealKept ==
    ASSUME IInv, NEW t \in Threads, Calls(t) \/ Proceed(t),
           ~(LockWrite(t) /\ Lock!AcquireWrite), ~WaitWrite(t),
           ~UnlockWrite(t), ~Unblockade(t)
    PROVE  Sealing' = Sealing
<1> USE DEF Goto, Return
<1>1. \A u \in Threads \ {t} : pc'[u] = pc[u] /\ op'[u] = op[u]
  BY OthersStay DEF IInv
<1>2. StructuredAt(t)
  BY DEF IInv, Structured
<1>3. blockading' = blockading /\ (t \in Sealing' <=> t \in Sealing)
  <2>1. CASE Calls(t)
    <3>1. /\ blockading' = blockading
          /\ \/ pc'[t] = pc[t] /\ op'[t] = op[t]
             \/ pc[t] = "idle" /\ pc'[t] \in {"lockRead", "lockWrite"}
      BY <2>1 DEF Calls, CallFlowOut, CallPurge, CallCanOpen, CallClose,
                  CallBlockade, SetConfig, Call, IInv, TypeOK
    <3> QED
      BY <3>1 DEF Sealing
  <2>2. CASE LockRead(t)
    <3>1. /\ blockading' = blockading
          /\ pc[t] = "lockRead" /\ op'[t] = op[t] /\ op[t] # "drain"
      BY <1>2, <2>2 DEF LockRead, IInv, TypeOK, StructuredAt
    <3> QED
      BY <3>1 DEF Sealing
  <2>3. CASE \/ PopBack(t) \/ CheckMax(t) \/ Generate(t) \/ CountUp(t) \/ FillPush(t)
             \/ CountDown(t) \/ Release(t)
    <3>1. /\ blockading' = blockading
          /\ pc[t] \in {"popBack", "checkMax", "generate", "countUp", "pushBack",
                        "countDown", "release"}
          /\ pc'[t] \in {"checkMax", "generate", "countUp", "invoke", "pushBack",
                         "unlockRead", "release", "idle"}
      BY <2>3 DEF PopBack, CheckMax, Generate, CountUp, FillPush, CountDown, Release,
                  IInv, TypeOK
    <3> QED
      BY <3>1 DEF Sealing
  <2>4. CASE Invoke(t) \/ FlowBack(t) \/ UnlockRead(t)
    <3>1. /\ blockading' = blockading
          /\ pc[t] \in {"invoke", "idle", "unlockRead"}
          /\ pc'[t] \in {"unlockRead", "idle", "countDown", "release"}
      BY <2>4 DEF Invoke, FlowBack, UnlockRead, IInv, TypeOK
    <3> QED
      BY <3>1 DEF Sealing
  <2>5. CASE Clear(t) \/ Subtract(t) \/ OnDrained(t)
    <3>1. /\ blockading' = blockading /\ op'[t] = op[t]
          /\ \/ pc[t] = "clear" /\ pc'[t] = "subtract"
             \/ /\ pc[t] = "subtract"
                /\ pc'[t] = IF op[t] = "drain" THEN "onDrained" ELSE "unlockRead"
             \/ pc[t] = "onDrained" /\ pc'[t] = "unlockWrite"
      BY <2>5 DEF Clear, Subtract, OnDrained, IInv, TypeOK
    <3> QED
      BY <3>1 DEF Sealing
  <2>6. CASE LockWrite(t)
    <3>1. blockading' = blockading /\ pc[t] = "lockWrite" /\ pc'[t] = "waitWrite"
      BY <2>6 DEF LockWrite, IInv, TypeOK
    <3> QED
      BY <3>1 DEF Sealing
  <2> QED
    BY <2>1, <2>2, <2>3, <2>4, <2>5, <2>6 DEF Proceed
<1> QED
  BY <1>1, <1>3, PoolAssumption DEF Sealing, IInv, TypeOK

LEMMA StepRefines ==
    ASSUME IInv, NEW t \in Threads, Calls(t) \/ Proceed(t)
    PROVE  Promise!Next \/ UNCHANGED <<held, Sealing>>
<1> USE DEF Goto, Return, lockVars, poolVars, locals
<1>1. CASE Invoke(t)
  <2>1. Sealing' = Sealing
    BY <1>1, SealKept DEF Invoke, LockWrite, WaitWrite, UnlockWrite, Unblockade
  <2>2. CASE held' = held
    BY <2>1, <2>2
  <2>3. CASE held' = [held EXCEPT ![t] = @ \cup {wrap[t]}]
    <3>1. pc[t] = "invoke" /\ Inside(t)
      BY <1>1 DEF Invoke, Inside
    <3>2. Sealing = {}
      BY <3>1, ReaderPresent DEF IInv
    <3>3. wrap[t] \in Handles /\ Fresh(t)
      BY <3>1 DEF IInv, TypeOK, Structured, StructuredAt, Fresh
    <3>4. \A u \in Threads : wrap[t] \notin held[u]
      BY <3>3 DEF IInv, Sole
    <3>5. Promise!Obtain(t, wrap[t])
      BY <2>1, <2>3, <3>2, <3>4 DEF Promise!Obtain
    <3> QED
      BY <3>3, <3>5 DEF Promise!Next
  <2> QED
    BY <1>1, <2>2, <2>3 DEF Invoke
<1>2. CASE FlowBack(t)
  <2>1. Sealing' = Sealing
    BY <1>2, SealKept DEF FlowBack, LockWrite, WaitWrite, UnlockWrite, Unblockade,
                          Lock!ReleaseWrite, IInv, Locked, TypeOK, Lock!TypeOK
  <2>2. PICK h \in held[t] : held' = [held EXCEPT ![t] = @ \ {h}]
    BY <1>2 DEF FlowBack
  <2>3. h \in Handles
    BY <2>2 DEF IInv, TypeOK
  <2>4. Promise!GiveBack(t, h)
    BY <2>1, <2>2 DEF Promise!GiveBack
  <2> QED
    BY <2>3, <2>4 DEF Promise!Next
<1>3. CASE (LockWrite(t) /\ Lock!AcquireWrite) \/ WaitWrite(t)
  <2>1. m_reader = 0 /\ held' = held /\ Sealing = {} /\ Sealing' = {t}
    BY <1>3, SealTaken
  <2>2. \A u \in Threads : held[u] = {}
    BY <2>1, ReaderPresent DEF IInv
  <2>3. Promise!Seal(t)
    BY <2>1, <2>2 DEF Promise!Seal
  <2> QED
    BY <2>3 DEF Promise!Next
<1>4. CASE UnlockWrite(t) \/ Unblockade(t)
  <2>1. held' = held /\ Sealing = {t} /\ Sealing' = {}
    BY <1>4, SealGivenUp
  <2>2. Promise!Unseal(t)
    BY <2>1 DEF Promise!Unseal
  <2> QED
    BY <2>2 DEF Promise!Next
<1>5. CASE /\ ~Invoke(t) /\ ~FlowBack(t) /\ ~UnlockWrite(t) /\ ~Unblockade(t)
           /\ ~WaitWrite(t) /\ ~(LockWrite(t) /\ Lock!AcquireWrite)
  <2>1. Sealing' = Sealing
    BY <1>5, SealKept
  <2>2. held' = held
    BY <1>5 DEF Calls, CallFlowOut, CallPurge, CallCanOpen, CallClose, CallBlockade,
                SetConfig, Call, Proceed, LockRead, PopBack, CheckMax, Generate, CountUp,
                FillPush, UnlockRead, CountDown, Release, Clear, Subtract, OnDrained,
                LockWrite
  <2> QED
    BY <2>1, <2>2
<1> QED
  BY <1>1, <1>2, <1>3, <1>4, <1>5

(* The pool is an AbstractPool: a handle goes to one thread at a time, and *)
(* a closer has the pool to itself only when every handle is back.         *)
THEOREM Implements == SafetySpec => ImplementsAbstract
<1>1. Init => Promise!Init
  BY DEF Init, Promise!Init, Sealing
<1>2. IInv /\ [Next]_vars => [Promise!Next]_<<held, Sealing>>
  <2> SUFFICES ASSUME IInv, [Next]_vars
               PROVE  Promise!Next \/ UNCHANGED <<held, Sealing>>
    OBVIOUS
  <2>1. CASE UNCHANGED vars
    BY <2>1 DEF vars, poolVars, Sealing
  <2> QED
    BY <2>1, StepRefines DEF Next
<1> QED
  BY <1>1, <1>2, Invariance, PTL
     DEF SafetySpec, ImplementsAbstract, Promise!Spec, Promise!poolVars

-----------------------------------------------------------------------------
(* The counter.  What it is compared with are sizes of sets; a step moves  *)
(* at most one thread into such a set or out of it.                        *)

Weight(present) == IF present THEN 1 ELSE 0

LEMMA OneThread ==
    ASSUME NEW A \in SUBSET Threads, NEW B \in SUBSET Threads, NEW t \in Threads,
           \A u \in Threads \ {t} : u \in A <=> u \in B
    PROVE  /\ Cardinality(A) \in Nat /\ Cardinality(B) \in Nat
           /\ Cardinality(B) = Cardinality(A) + Weight(t \in B) - Weight(t \in A)
<1>1. IsFiniteSet(A) /\ IsFiniteSet(B)
  BY FS_Subset, PoolAssumption
<1>2. Cardinality(A) \in Nat /\ Cardinality(B) \in Nat
  BY <1>1, FS_CardinalityType
<1>3. CASE t \in A /\ t \in B
  <2>1. A = B
    BY <1>3
  <2> QED
    BY <1>2, <1>3, <2>1 DEF Weight
<1>4. CASE t \notin A /\ t \notin B
  <2>1. A = B
    BY <1>4
  <2> QED
    BY <1>2, <1>4, <2>1 DEF Weight
<1>5. CASE t \in A /\ t \notin B
  <2>1. B = A \ {t}
    BY <1>5
  <2>2. Cardinality(B) = Cardinality(A) - 1
    BY <1>1, <1>5, <2>1, FS_RemoveElement
  <2> QED
    BY <1>2, <1>5, <2>2 DEF Weight
<1>6. CASE t \notin A /\ t \in B
  <2>1. B = A \cup {t}
    BY <1>6
  <2>2. Cardinality(B) = Cardinality(A) + 1
    BY <1>1, <1>6, <2>1, FS_AddElement
  <2> QED
    BY <1>2, <1>6, <2>2 DEF Weight
<1> QED
  BY <1>3, <1>4, <1>5, <1>6

(* The handles that one thread has cleared and not yet subtracted.         *)
LEMMA OneClearing ==
    ASSUME NEW A \in SUBSET (Threads \X (1..HardwareConcurrency)), NEW B,
           NEW t \in Threads, NEW n \in 0..HardwareConcurrency,
           \A p \in A : p[1] # t,
           B = A \cup ({t} \X (1..n))
    PROVE  /\ Cardinality(A) \in Nat /\ Cardinality(B) \in Nat
           /\ Cardinality(B) = Cardinality(A) + n
<1> DEFINE added == {t} \X (1..n)
<1>1. IsFiniteSet(A)
  <2>1. IsFiniteSet(1..HardwareConcurrency)
    BY FS_Interval, PoolAssumption
  <2>2. IsFiniteSet(Threads \X (1..HardwareConcurrency))
    BY <2>1, FS_Product, PoolAssumption
  <2> QED
    BY <2>2, FS_Subset
<1>2. n \in Nat
  BY PoolAssumption
<1>3. IsFiniteSet(1..n) /\ Cardinality(1..n) = n
  BY <1>2, FS_Interval
<1>4. IsFiniteSet({t}) /\ Cardinality({t}) = 1
  BY FS_Singleton
<1>5. IsFiniteSet(added) /\ Cardinality(added) = n
  <2>1. IsFiniteSet(added) /\ Cardinality(added) = Cardinality({t}) * Cardinality(1..n)
    BY <1>3, <1>4, FS_Product
  <2> QED
    BY <1>2, <1>3, <1>4, <2>1
<1>6. A \cap added = {}
  OBVIOUS
<1> HIDE DEF added
<1>7. Cardinality(A \cup added) = Cardinality(A) + Cardinality(added) - Cardinality(A \cap added)
  BY <1>1, <1>5, FS_Union
<1>8. Cardinality(A) \in Nat /\ Cardinality(A \cap added) = 0
  BY <1>1, <1>6, FS_CardinalityType, FS_EmptySet
<1>9. B = A \cup added
  BY DEF added
<1>10. Cardinality(B) = Cardinality(A) + n - 0
  BY <1>5, <1>7, <1>8, <1>9
<1> QED
  BY <1>2, <1>8, <1>10

(* How a step of one thread changes each of the numbers.                   *)
LEMMA AccountedMoves ==
    ASSUME TypeOK, TypeOK', NEW t \in Threads,
           \A u \in Threads \ {t} :
             /\ pc'[u] = pc[u] /\ op'[u] = op[u] /\ held'[u] = held[u]
             /\ size'[u] = size[u] /\ inserted'[u] = inserted[u]
    PROVE  /\ Cardinality(Invoking) \in Nat
           /\ Cardinality(Invoking') =
                Cardinality(Invoking) + Weight(t \in Invoking') - Weight(t \in Invoking)
           /\ Cardinality(Dropping) \in Nat
           /\ Cardinality(Dropping') =
                Cardinality(Dropping) + Weight(t \in Dropping') - Weight(t \in Dropping)
           /\ Cardinality(Filling) \in Nat
           /\ Cardinality(Filling') =
                Cardinality(Filling) + Weight(t \in Filling') - Weight(t \in Filling)
           /\ Cardinality(Out) \in Nat
           /\ held'[t] = held[t] => Cardinality(Out') = Cardinality(Out)
           /\ \A h \in Handles \ held[t] : held'[t] = held[t] \cup {h} =>
                Cardinality(Out') = Cardinality(Out) + 1
           /\ \A h \in held[t] : held'[t] = held[t] \ {h} =>
                Cardinality(Out') = Cardinality(Out) - 1
           /\ Cardinality(Cleared) \in Nat
           /\ pc[t] # "subtract" /\ pc'[t] # "subtract" =>
                Cardinality(Cleared') = Cardinality(Cleared)
           /\ pc[t] # "subtract" /\ pc'[t] = "subtract" =>
                Cardinality(Cleared') = Cardinality(Cleared) + size'[t]
           /\ pc[t] = "subtract" /\ pc'[t] # "subtract" =>
                Cardinality(Cleared') = Cardinality(Cleared) - size[t]
<1>1. /\ Cardinality(Invoking) \in Nat
      /\ Cardinality(Invoking') =
           Cardinality(Invoking) + Weight(t \in Invoking') - Weight(t \in Invoking)
  <2>1. /\ Invoking \in SUBSET Threads /\ Invoking' \in SUBSET Threads
        /\ \A u \in Threads \ {t} : u \in Invoking <=> u \in Invoking'
    BY DEF Invoking
  <2> QED
    BY <2>1, OneThread
<1>2. /\ Cardinality(Dropping) \in Nat
      /\ Cardinality(Dropping') =
           Cardinality(Dropping) + Weight(t \in Dropping') - Weight(t \in Dropping)
  <2>1. /\ Dropping \in SUBSET Threads /\ Dropping' \in SUBSET Threads
        /\ \A u \in Threads \ {t} : u \in Dropping <=> u \in Dropping'
    BY DEF Dropping
  <2> QED
    BY <2>1, OneThread
<1>3. /\ Cardinality(Filling) \in Nat
      /\ Cardinality(Filling') =
           Cardinality(Filling) + Weight(t \in Filling') - Weight(t \in Filling)
  <2>1. /\ Filling \in SUBSET Threads /\ Filling' \in SUBSET Threads
        /\ \A u \in Threads \ {t} : u \in Filling <=> u \in Filling'
    BY DEF Filling
  <2> QED
    BY <2>1, OneThread
<1>4. IsFiniteSet(Out) /\ Cardinality(Out) \in Nat
  <2>1. IsFiniteSet(Threads \X Handles)
    BY HandlesFinite, FS_Product, PoolAssumption
  <2> QED
    BY <2>1, FS_Subset, FS_CardinalityType DEF Out
<1>5. /\ Out \subseteq Threads \X Handles /\ Out' \subseteq Threads \X Handles
      /\ \A u \in Threads, h \in Handles :
           /\ <<u, h>> \in Out <=> h \in held[u]
           /\ <<u, h>> \in Out' <=> h \in held'[u]
  BY DEF Out
<1>6. held'[t] = held[t] => Cardinality(Out') = Cardinality(Out)
  <2> SUFFICES ASSUME held'[t] = held[t] PROVE Out' = Out
    OBVIOUS
  <2>1. \A u \in Threads : held'[u] = held[u]
    OBVIOUS
  <2> QED
    BY <1>5, <2>1
<1>7. ASSUME NEW h \in Handles \ held[t], held'[t] = held[t] \cup {h}
      PROVE  Cardinality(Out') = Cardinality(Out) + 1
  <2>1. Out' = Out \cup {<<t, h>>} /\ <<t, h>> \notin Out
    BY <1>5, <1>7
  <2> QED
    BY <1>4, <2>1, FS_AddElement
<1>8. ASSUME NEW h \in held[t], held'[t] = held[t] \ {h}
      PROVE  Cardinality(Out') = Cardinality(Out) - 1
  <2>1. h \in Handles
    BY DEF TypeOK
  <2>2. Out' = Out \ {<<t, h>>} /\ <<t, h>> \in Out
    BY <1>5, <1>8, <2>1
  <2> QED
    BY <1>4, <2>2, FS_RemoveElement
<1>9. /\ Cleared \in SUBSET (Threads \X (1..HardwareConcurrency))
      /\ Cleared' \in SUBSET (Threads \X (1..HardwareConcurrency))
      /\ \A u \in Threads, i \in 1..HardwareConcurrency :
           /\ <<u, i>> \in Cleared <=> pc[u] = "subtract" /\ i <= size[u]
           /\ <<u, i>> \in Cleared' <=> pc'[u] = "subtract" /\ i <= size'[u]
  BY DEF Cleared
<1>10. Cardinality(Cleared) \in Nat
  <2>1. IsFiniteSet(1..HardwareConcurrency)
    BY FS_Interval, PoolAssumption
  <2>2. IsFiniteSet(Threads \X (1..HardwareConcurrency))
    BY <2>1, FS_Product, PoolAssumption
  <2> QED
    BY <1>9, <2>2, FS_Subset, FS_CardinalityType
<1>11. /\ size[t] \in 0..HardwareConcurrency /\ size'[t] \in 0..HardwareConcurrency
       /\ \A i \in 1..HardwareConcurrency, n \in 0..HardwareConcurrency :
            i <= n <=> i \in 1..n
       /\ \A n \in 0..HardwareConcurrency : 1..n \subseteq 1..HardwareConcurrency
  BY PoolAssumption DEF TypeOK
<1>12. pc[t] # "subtract" /\ pc'[t] # "subtract" =>
         Cardinality(Cleared') = Cardinality(Cleared)
  <2> SUFFICES ASSUME pc[t] # "subtract", pc'[t] # "subtract" PROVE Cleared' = Cleared
    OBVIOUS
  <2>1. \A u \in Threads, i \in 1..HardwareConcurrency :
          <<u, i>> \in Cleared' <=> <<u, i>> \in Cleared
    BY <1>9
  <2> QED
    BY <1>9, <2>1
<1>13. pc[t] # "subtract" /\ pc'[t] = "subtract" =>
         Cardinality(Cleared') = Cardinality(Cleared) + size'[t]
  <2> SUFFICES ASSUME pc[t] # "subtract", pc'[t] = "subtract"
               PROVE  Cardinality(Cleared') = Cardinality(Cleared) + size'[t]
    OBVIOUS
  <2>1. \A p \in Cleared : p[1] # t
    BY <1>9
  <2>2. Cleared' = Cleared \cup ({t} \X (1..size'[t]))
    <3>1. \A u \in Threads, i \in 1..HardwareConcurrency :
            <<u, i>> \in Cleared' <=>
              <<u, i>> \in Cleared \/ (u = t /\ i \in 1..size'[t])
      BY <1>9, <1>11
    <3> QED
      BY <1>9, <1>11, <3>1
  <2> QED
    BY <1>9, <1>11, <2>1, <2>2, OneClearing
<1>14. pc[t] = "subtract" /\ pc'[t] # "subtract" =>
         Cardinality(Cleared') = Cardinality(Cleared) - size[t]
  <2> SUFFICES ASSUME pc[t] = "subtract", pc'[t] # "subtract"
               PROVE  Cardinality(Cleared') = Cardinality(Cleared) - size[t]
    OBVIOUS
  <2>1. \A p \in Cleared' : p[1] # t
    BY <1>9
  <2>2. Cleared = Cleared' \cup ({t} \X (1..size[t]))
    <3>1. \A u \in Threads, i \in 1..HardwareConcurrency :
            <<u, i>> \in Cleared <=>
              <<u, i>> \in Cleared' \/ (u = t /\ i \in 1..size[t])
      BY <1>9, <1>11
    <3> QED
      BY <1>9, <1>11, <3>1
  <2>3. Cardinality(Cleared') \in Nat
        /\ Cardinality(Cleared) = Cardinality(Cleared') + size[t]
    BY <1>9, <1>11, <2>1, <2>2, OneClearing
  <2> QED
    BY <1>11, <2>3
<1> QED
  BY <1>1, <1>2, <1>3, <1>4, <1>6, <1>7, <1>8, <1>10, <1>12, <1>13, <1>14

LEMMA AlivePreserved ==
    ASSUME IInv, TypeOK', AliveExact, NEW t \in Threads, Calls(t) \/ Proceed(t)
    PROVE  AliveExact'
<1> USE DEF Goto, Return, lockVars, poolVars, locals
<1> DEFINE listed == Len(m_handles)
           out == Cardinality(Out)
           clearing == Cardinality(Cleared)
           invoking == Cardinality(Invoking)
           dropping == Cardinality(Dropping)
           filling == Cardinality(Filling)
<1>1. StructuredAt(t)
  BY DEF IInv, Structured
<1>2. /\ invoking \in Nat
      /\ invoking' = invoking + Weight(t \in Invoking') - Weight(t \in Invoking)
      /\ dropping \in Nat
      /\ dropping' = dropping + Weight(t \in Dropping') - Weight(t \in Dropping)
      /\ filling \in Nat
      /\ filling' = filling + Weight(t \in Filling') - Weight(t \in Filling)
      /\ out \in Nat
      /\ held'[t] = held[t] => out' = out
      /\ \A h \in Handles \ held[t] : held'[t] = held[t] \cup {h} => out' = out + 1
      /\ \A h \in held[t] : held'[t] = held[t] \ {h} => out' = out - 1
      /\ clearing \in Nat
      /\ pc[t] # "subtract" /\ pc'[t] # "subtract" => clearing' = clearing
      /\ pc[t] # "subtract" /\ pc'[t] = "subtract" => clearing' = clearing + size'[t]
      /\ pc[t] = "subtract" /\ pc'[t] # "subtract" => clearing' = clearing - size[t]
  BY OthersStay, AccountedMoves DEF IInv
<1>nat. /\ invoking \in Nat /\ dropping \in Nat /\ filling \in Nat
        /\ out \in Nat /\ clearing \in Nat
  BY <1>2
<1>3. /\ t \in Invoking <=> pc[t] = "invoke"
      /\ t \in Invoking' <=> pc'[t] = "invoke"
      /\ t \in Dropping <=>
           pc[t] \in {"unlockRead", "countDown"} /\ op[t] = "flowBack" /\ inserted[t] = FALSE
      /\ t \in Dropping' <=>
           pc'[t] \in {"unlockRead", "countDown"} /\ op'[t] = "flowBack" /\ inserted'[t] = FALSE
      /\ t \in Filling <=> pc[t] = "countUp" /\ op[t] = "fillOne"
      /\ t \in Filling' <=> pc'[t] = "countUp" /\ op'[t] = "fillOne"
  BY DEF Invoking, Dropping, Filling
<1>4. /\ listed \in Nat
      /\ m_aliveHandleCount \in Int /\ refused \in Nat
      /\ m_aliveHandleCount =
           listed + out + invoking + dropping + clearing - filling + refused
  BY DEF IInv, TypeOK, AliveExact, Accounted
<1>5. AliveExact' <=> m_aliveHandleCount' =
        listed' + out' + invoking' + dropping' + clearing' - filling' + refused'
  BY DEF AliveExact, Accounted
<1> HIDE DEF listed, out, clearing, invoking, dropping, filling
\* A step of a thread that does nothing to the numbers.
<1>6. ASSUME UNCHANGED <<m_handles, m_aliveHandleCount, refused>>,
             held'[t] = held[t],
             pc[t] # "subtract", pc'[t] # "subtract",
             t \in Invoking' <=> t \in Invoking,
             t \in Dropping' <=> t \in Dropping,
             t \in Filling' <=> t \in Filling
      PROVE  AliveExact'
  <2>1. listed' = listed
    BY <1>6 DEF listed
  <2>2. invoking' = invoking /\ dropping' = dropping /\ filling' = filling
    BY <1>2, <1>6 DEF Weight
  <2>3. out' = out /\ clearing' = clearing
    BY <1>2, <1>6
  <2>4. UNCHANGED <<m_aliveHandleCount, refused>>
    BY <1>6
  <2> QED
    BY <1>nat, <1>4, <1>5, <2>1, <2>2, <2>3, <2>4
<1>7. CASE Calls(t)
  <2>1. /\ UNCHANGED <<m_handles, m_aliveHandleCount, refused, inserted>>
        /\ held' = held
        /\ \/ pc'[t] = pc[t] /\ op'[t] = op[t]
           \/ pc[t] = "idle" /\ pc'[t] \in {"lockRead", "lockWrite"}
        /\ pc[t] = "idle"
    BY <1>7 DEF Calls, CallFlowOut, CallPurge, CallCanOpen, CallClose,
                CallBlockade, SetConfig, Call, IInv, TypeOK
  <2> QED
    BY <1>3, <1>6, <2>1
<1>8. CASE \/ LockRead(t) \/ CheckMax(t) \/ Generate(t) \/ OnDrained(t)
           \/ LockWrite(t) \/ WaitWrite(t) \/ UnlockWrite(t) \/ Unblockade(t)
  <2>1. /\ UNCHANGED <<m_handles, m_aliveHandleCount, refused, held, inserted>>
        /\ pc[t] \in {"lockRead", "checkMax", "generate", "onDrained", "lockWrite",
                      "waitWrite", "unlockWrite", "idle"}
    BY <1>8 DEF LockRead, CheckMax, Generate, OnDrained, LockWrite, WaitWrite, UnlockWrite,
                Unblockade
  <2>2. /\ pc'[t] \in {"popBack", "clear", "generate", "unlockRead", "countUp", "pushBack",
                       "unlockWrite", "idle", "waitWrite"}
        /\ pc'[t] = "countUp" => op'[t] = "flowOut"
        /\ pc'[t] = "unlockRead" => op'[t] = op[t] /\ op[t] # "flowBack"
    <3>1. CASE LockRead(t) \/ CheckMax(t)
      BY <1>1, <3>1 DEF LockRead, CheckMax, IInv, TypeOK, StructuredAt
    <3>2. CASE Generate(t)
      BY <1>1, <3>2 DEF Generate, IInv, TypeOK, StructuredAt
    <3>3. CASE OnDrained(t) \/ LockWrite(t) \/ WaitWrite(t) \/ UnlockWrite(t)
      BY <3>3 DEF OnDrained, LockWrite, WaitWrite, HaveWrite, UnlockWrite, IInv, TypeOK
    <3>4. CASE Unblockade(t)
      BY <3>4 DEF Unblockade, IInv, TypeOK
    <3> QED
      BY <1>8, <3>1, <3>2, <3>3, <3>4
  <2> QED
    BY <1>3, <1>6, <2>1, <2>2
<1>9. CASE UnlockRead(t) \/ Release(t)
  <2>1. /\ UNCHANGED <<m_handles, m_aliveHandleCount, refused, held>>
        /\ \/ /\ pc[t] = "unlockRead" /\ inserted'[t] = inserted[t]
              /\ \/ wrap[t] = NoHandle /\ pc'[t] = "idle"
                 \/ /\ op'[t] = op[t]
                    /\ pc'[t] = IF op[t] = "flowBack" /\ inserted[t] = FALSE
                                THEN "countDown" ELSE "release"
           \/ pc[t] = "release" /\ pc'[t] = "idle"
    BY <1>9 DEF UnlockRead, Release, IInv, TypeOK
  <2>2. /\ t \in Dropping' <=> t \in Dropping
        /\ pc'[t] \notin {"invoke", "countUp", "subtract"}
    BY <1>1, <1>3, <2>1 DEF StructuredAt
  <2> QED
    BY <1>3, <1>6, <2>1, <2>2
<1>10. CASE PopBack(t)
  <2>1. CASE m_handles = <<>>
    <3>1. /\ UNCHANGED <<m_handles, m_aliveHandleCount, refused, held>>
          /\ pc[t] = "popBack" /\ pc'[t] = "checkMax"
      BY <1>10, <2>1 DEF PopBack, IInv, TypeOK
    <3> QED
      BY <1>3, <1>6, <3>1
  <2>2. CASE m_handles # <<>>
    <3>1. /\ UNCHANGED <<m_aliveHandleCount, refused, held>>
          /\ pc[t] = "popBack" /\ pc'[t] = "invoke"
          /\ m_handles' = SubSeq(m_handles, 1, Len(m_handles) - 1)
      BY <1>10, <2>2 DEF PopBack, IInv, TypeOK
    <3>2. listed' = listed - 1
      BY <2>2, <3>1, PopElements DEF listed, IInv, TypeOK, Sole
    <3>3. invoking' = invoking + 1 /\ dropping' = dropping /\ filling' = filling
      BY <1>2, <1>3, <3>1 DEF Weight
    <3>4. out' = out /\ clearing' = clearing
      BY <1>2, <3>1
    <3> QED
      BY <1>nat, <1>4, <1>5, <3>1, <3>2, <3>3, <3>4
  <2> QED
    BY <2>1, <2>2
<1>11. CASE CountUp(t)
  <2>1. /\ UNCHANGED <<m_handles, refused, held>>
        /\ m_aliveHandleCount' = m_aliveHandleCount + 1
        /\ pc[t] = "countUp" /\ op'[t] = op[t]
        /\ pc'[t] = IF op[t] = "flowOut" THEN "invoke" ELSE "unlockRead"
    BY <1>11 DEF CountUp, IInv, TypeOK
  <2>2. listed' = listed
    BY <2>1 DEF listed
  <2>3. /\ dropping' = dropping
        /\ \/ invoking' = invoking + 1 /\ filling' = filling
           \/ invoking' = invoking /\ filling' = filling - 1
    BY <1>1, <1>2, <1>3, <2>1 DEF Weight, StructuredAt
  <2>4. out' = out /\ clearing' = clearing
    BY <1>2, <2>1
  <2> QED
    BY <1>nat, <1>4, <1>5, <2>1, <2>2, <2>3, <2>4
<1>12. CASE Invoke(t)
  <2>1. /\ UNCHANGED <<m_handles, m_aliveHandleCount>>
        /\ pc[t] = "invoke" /\ pc'[t] \in {"idle", "unlockRead"}
        /\ pc'[t] = "unlockRead" => op'[t] = op[t]
        /\ \/ held'[t] = held[t] \cup {wrap[t]} /\ refused' = refused
           \/ held'[t] = held[t] /\ refused' = refused + 1
    BY <1>12 DEF Invoke, IInv, TypeOK
  <2>2. wrap[t] \in Handles \ held[t]
    BY <1>1, <2>1 DEF IInv, TypeOK, StructuredAt, Sole, Fresh
  <2>3. listed' = listed
    BY <2>1 DEF listed
  <2>4. invoking' = invoking - 1 /\ dropping' = dropping /\ filling' = filling
    BY <1>1, <1>2, <1>3, <2>1 DEF Weight, StructuredAt
  <2>5. \/ out' = out + 1 /\ refused' = refused
        \/ out' = out /\ refused' = refused + 1
    BY <1>2, <2>1, <2>2
  <2>6. clearing' = clearing
    BY <1>2, <2>1
  <2> QED
    BY <1>nat, <1>4, <1>5, <2>1, <2>3, <2>4, <2>5, <2>6
<1>13. CASE FillPush(t)
  <2>1. /\ UNCHANGED <<m_aliveHandleCount, refused, held>>
        /\ pc[t] = "pushBack" /\ op'[t] = op[t] /\ Push(t, wrap[t])
        /\ pc'[t] = IF inserted'[t] THEN "countUp" ELSE "unlockRead"
    BY <1>13 DEF FillPush, IInv, TypeOK
  <2>2. op[t] = "fillOne" /\ wrap[t] \in Handles
    BY <1>1, <2>1 DEF StructuredAt, IInv, TypeOK
  <2>3. dropping' = dropping /\ invoking' = invoking
    BY <1>2, <1>3, <2>1, <2>2 DEF Weight
  <2>4. out' = out /\ clearing' = clearing
    BY <1>2, <2>1
  <2>5. UNCHANGED <<m_aliveHandleCount, refused>>
    BY <2>1
  <2>6. CASE inserted'[t]
    <3>1. listed' = listed + 1
      BY <2>1, <2>2, <2>6, PushElements DEF Push, listed, IInv, TypeOK
    <3>2. filling' = filling + 1
      BY <1>2, <1>3, <2>1, <2>2, <2>6 DEF Weight
    <3> QED
      BY <1>nat, <1>4, <1>5, <2>3, <2>4, <2>5, <3>1, <3>2
  <2>7. CASE ~inserted'[t]
    <3>1. listed' = listed
      BY <2>1, <2>7 DEF Push, listed
    <3>2. filling' = filling
      BY <1>2, <1>3, <2>1, <2>2, <2>7 DEF Weight
    <3> QED
      BY <1>nat, <1>4, <1>5, <2>3, <2>4, <2>5, <3>1, <3>2
  <2> QED
    BY <2>6, <2>7
<1>14. CASE FlowBack(t)
  <2>1. PICK h \in held[t] : held'[t] = held[t] \ {h} /\ Push(t, h)
    BY <1>14 DEF FlowBack, IInv, TypeOK
  <2>2. /\ UNCHANGED <<m_aliveHandleCount, refused>>
        /\ pc[t] = "idle" /\ pc'[t] = "unlockRead" /\ op'[t] = "flowBack"
    BY <1>14 DEF FlowBack, IInv, TypeOK
  <2>3. h \in Handles /\ out' = out - 1
    BY <1>2, <2>1 DEF IInv, TypeOK
  <2>4. invoking' = invoking /\ filling' = filling
    BY <1>2, <1>3, <2>2 DEF Weight
  <2>5. clearing' = clearing
    BY <1>2, <2>2
  <2>6. CASE inserted'[t]
    <3>1. listed' = listed + 1
      BY <2>1, <2>3, <2>6, PushElements DEF Push, listed, IInv, TypeOK
    <3>2. dropping' = dropping
      BY <1>2, <1>3, <2>2, <2>6 DEF Weight
    <3> QED
      BY <1>nat, <1>4, <1>5, <2>2, <2>3, <2>4, <2>5, <3>1, <3>2
  <2>7. CASE ~inserted'[t]
    <3>1. listed' = listed
      BY <2>1, <2>7 DEF Push, listed
    <3>2. inserted'[t] = FALSE
      BY <2>7 DEF TypeOK
    <3>3. dropping' = dropping + 1
      BY <1>2, <1>3, <2>2, <3>2 DEF Weight
    <3> QED
      BY <1>nat, <1>4, <1>5, <2>2, <2>3, <2>4, <2>5, <3>1, <3>3
  <2> QED
    BY <2>6, <2>7
<1>15. CASE CountDown(t)
  <2>1. /\ UNCHANGED <<m_handles, refused, held>>
        /\ m_aliveHandleCount' = m_aliveHandleCount - 1
        /\ pc[t] = "countDown" /\ pc'[t] = "release"
    BY <1>15 DEF CountDown, IInv, TypeOK
  <2>2. listed' = listed
    BY <2>1 DEF listed
  <2>3. dropping' = dropping - 1 /\ invoking' = invoking /\ filling' = filling
    BY <1>1, <1>2, <1>3, <2>1 DEF Weight, StructuredAt
  <2>4. out' = out /\ clearing' = clearing
    BY <1>2, <2>1
  <2> QED
    BY <1>nat, <1>4, <1>5, <2>1, <2>2, <2>3, <2>4
<1>16. CASE Clear(t)
  <2>1. /\ UNCHANGED <<m_aliveHandleCount, refused, held>>
        /\ pc[t] = "clear" /\ pc'[t] = "subtract"
        /\ m_handles' = <<>> /\ size'[t] = Len(m_handles)
    BY <1>16 DEF Clear, IInv, TypeOK
  <2>2. listed' = 0 /\ size'[t] = listed
    BY <2>1 DEF listed
  <2>3. invoking' = invoking /\ dropping' = dropping /\ filling' = filling
    BY <1>2, <1>3, <2>1 DEF Weight
  <2>4. out' = out /\ clearing' = clearing + size'[t]
    BY <1>2, <2>1
  <2> QED
    BY <1>nat, <1>4, <1>5, <2>1, <2>2, <2>3, <2>4
<1>17. CASE Subtract(t)
  <2>1. /\ UNCHANGED <<m_handles, refused, held>>
        /\ m_aliveHandleCount' = m_aliveHandleCount - size[t]
        /\ pc[t] = "subtract" /\ op'[t] = op[t]
        /\ pc'[t] \in {"onDrained", "unlockRead"}
        /\ size[t] \in Nat
    BY <1>17, PoolAssumption DEF Subtract, IInv, TypeOK
  <2>2. listed' = listed
    BY <2>1 DEF listed
  <2>3. invoking' = invoking /\ dropping' = dropping /\ filling' = filling
    BY <1>1, <1>2, <1>3, <2>1 DEF Weight, StructuredAt
  <2>4. out' = out /\ clearing' = clearing - size[t]
    BY <1>2, <2>1
  <2> QED
    BY <1>nat, <1>4, <1>5, <2>1, <2>2, <2>3, <2>4
<1> QED
  BY <1>7, <1>8, <1>9, <1>10, <1>11, <1>12, <1>13, <1>14, <1>15, <1>16, <1>17
     DEF Proceed

(* m_aliveHandleCount is at every instant the handles in the list and out, *)
(* corrected by what the operations under way have still to write, and     *)
(* those flowOut dropped without counting them down                        *)
(* (handle_pool.cpp:168-178).                                              *)
THEOREM AliveAlways == SafetySpec => []AliveExact
<1>1. Init => AliveExact
  <2> SUFFICES ASSUME Init PROVE AliveExact
    OBVIOUS
  <2>1. Out = {} /\ Invoking = {} /\ Dropping = {} /\ Cleared = {} /\ Filling = {}
    BY DEF Init, Out, Invoking, Dropping, Cleared, Filling
  <2> QED
    BY <2>1, FS_EmptySet DEF Init, AliveExact, Accounted
<1>2. IInv /\ IInv' /\ AliveExact /\ [Next]_vars => AliveExact'
  <2> SUFFICES ASSUME IInv, TypeOK', AliveExact, [Next]_vars PROVE AliveExact'
    BY DEF IInv
  <2>1. CASE UNCHANGED vars
    BY <2>1 DEF vars, poolVars, locals, AliveExact, Accounted, Out, Invoking, Dropping,
                Cleared, Filling
  <2> QED
    BY <2>1, AlivePreserved DEF Next
<1> QED
  BY <1>1, <1>2, Invariance, PTL DEF SafetySpec

===============================================================================
