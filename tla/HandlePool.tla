----------------------------- MODULE HandlePool -----------------------------
(***************************************************************************)
(* The pool of SQLite connections of one database path                     *)
(* (objc/WCDB/core/handle_pool.cpp, with util/concurrent_list.hpp for the  *)
(* free list and util/recyclable.hpp for the way a handle comes back).     *)
(*                                                                         *)
(* Every thread runs pool operations one after the other; between two      *)
(* operations pc[t] = "idle".  A step is one access to shared state: a     *)
(* call of the lock, of the free list or of the atomic counter.  The lock  *)
(* is AbstractRWLock, which RWLock implements.                             *)
(*                                                                         *)
(* A connection is open while somebody refers to it: the free list, a      *)
(* RecyclableHandle that is out (held), or a local variable (wrap).        *)
(***************************************************************************)
EXTENDS Integers, Sequences, FiniteSets

CONSTANTS
    Threads,
    Closers,              \* the threads that call close and blockade
    Users,                \* the threads that take handles
    HardwareConcurrency,  \* s_hardwareConcurrency, the cap of the free list
    MaxConcurrency,       \* s_maxConcurrency
    MaxHold,              \* handles a thread may hold at a time (a bound)
    MaxConfigs,           \* how often setConfig is called (a bound)
    ConfigMayFail,        \* whether open or a config may fail
    CloseInBlockade       \* whether blockade may be followed by close

ASSUME PoolAssumption ==
    /\ IsFiniteSet(Threads)
    /\ Closers \cup Users \subseteq Threads
    /\ HardwareConcurrency \in Nat
    /\ MaxConcurrency \in Nat \ {0}
    /\ MaxHold \in Nat \ {0}
    /\ MaxConfigs \in Nat
    /\ ConfigMayFail \in BOOLEAN
    /\ CloseInBlockade \in BOOLEAN

NoHandle == 0

\* Enough names for every connection that can be open at once.
Handles == 1..(HardwareConcurrency + Cardinality(Threads) * (MaxHold + 1))

VARIABLES
    m_reader, m_writer, m_pending,  \* m_rwlock
    m_handles,            \* the free list; popBack takes its last element
    m_aliveHandleCount,
    m_configs,            \* the identity of the current configuration list
    configs,              \* configs[h]: the list handle h has run
    held,                 \* held[t]: the RecyclableHandles of thread t
    blockading,           \* the threads between blockade and unblockade
    pc, op,               \* where thread t is, in which operation
    wrap, size, inserted, \* locals of the operation
    refused               \* history: handles flowOut has dropped

lockVars == <<m_reader, m_writer, m_pending>>
poolVars == <<m_handles, m_aliveHandleCount, configs, held, refused>>
locals == <<wrap, size, inserted>>
vars == <<lockVars, poolVars, m_configs, blockading, pc, op, locals>>

Lock == INSTANCE AbstractRWLock

Elements(list) == {list[i] : i \in DOMAIN list}

\* The connections that are open.
Open == (Elements(m_handles) \cup {wrap[t] : t \in Threads}
          \cup (UNION {held[t] : t \in Threads})) \ {NoHandle}

\* Any name that no open connection has.
NewHandle == CHOOSE h \in Handles : h \notin Open

Goto(t, where) == pc' = [pc EXCEPT ![t] = where]

Init ==
    /\ Lock!Init
    /\ m_handles = <<>>
    /\ m_aliveHandleCount = 0
    /\ m_configs = 0
    /\ configs = [h \in Handles |-> 0]
    /\ held = [t \in Threads |-> {}]
    /\ blockading = {}
    /\ pc = [t \in Threads |-> "idle"]
    /\ op = [t \in Threads |-> "none"]
    /\ wrap = [t \in Threads |-> NoHandle]
    /\ size = [t \in Threads |-> 0]
    /\ inserted = [t \in Threads |-> FALSE]
    /\ refused = 0

-----------------------------------------------------------------------------
(* Calls.  A thread that already has MaxHold handles asks for nothing that *)
(* takes the read lock again; one that has any does not close.             *)

Call(t, name, where) ==
    /\ pc[t] = "idle"
    /\ op' = [op EXCEPT ![t] = name]
    /\ Goto(t, where)
    /\ UNCHANGED <<lockVars, poolVars, m_configs, blockading, locals>>

MayRead(t) == t \in Users \ blockading /\ Cardinality(held[t]) < MaxHold

CallFlowOut(t) == MayRead(t) /\ Call(t, "flowOut", "lockRead")

CallPurge(t) == MayRead(t) /\ Call(t, "purgeFreeHandles", "lockRead")

\* Slip: fillOne without its lockRead.
CallCanOpenUnlocked(t) ==
    /\ MayRead(t)
    /\ m_aliveHandleCount = 0
    /\ Call(t, "fillOne", "generate")

\* canOpen asks for fillOne only if isDrained; otherwise it just returns.
CallCanOpen(t) ==
    /\ MayRead(t)
    /\ m_aliveHandleCount = 0
    /\ Call(t, "fillOne", "lockRead")

CallClose(t) ==
    /\ t \in Closers
    /\ held[t] = {}
    /\ t \in blockading => CloseInBlockade
    /\ Call(t, "drain", "lockWrite")

CallBlockade(t) ==
    /\ t \in Closers \ blockading
    /\ held[t] = {}
    /\ Call(t, "blockade", "lockWrite")

\* Copy-on-write: the list of a handle is compared with this one by identity.
SetConfig(t) ==
    /\ pc[t] = "idle"
    /\ m_configs < MaxConfigs
    /\ m_configs' = m_configs + 1
    /\ UNCHANGED <<lockVars, poolVars, blockading, pc, op, locals>>

-----------------------------------------------------------------------------
(* The read lock, common to flowOut, purgeFreeHandles and fillOne.         *)

LockRead(t) ==
    /\ pc[t] = "lockRead"
    /\ Lock!AcquireRead
    /\ \/ op[t] = "flowOut" /\ Goto(t, "popBack")
       \/ op[t] = "purgeFreeHandles" /\ Goto(t, "clear")
       \/ op[t] = "fillOne" /\ Goto(t, "generate")
    /\ UNCHANGED <<poolVars, m_configs, blockading, op, locals>>

Return(t) ==
    /\ Goto(t, "idle")
    /\ op' = [op EXCEPT ![t] = "none"]

\* What is left to do after unlockRead: flowBack may have to count down, and
\* flowBack and fillOne still refer to their handle.
UnlockRead(t) ==
    /\ pc[t] = "unlockRead"
    /\ Lock!ReleaseRead
    /\ \/ /\ wrap[t] = NoHandle
          /\ Return(t)
       \/ /\ wrap[t] # NoHandle
          /\ Goto(t, IF op[t] = "flowBack" /\ ~inserted[t]
                     THEN "countDown" ELSE "release")
          /\ UNCHANGED op
    /\ UNCHANGED <<poolVars, m_configs, blockading, locals>>

-----------------------------------------------------------------------------
(* flowOut and fillOne.                                                    *)

\* Slip: back() without pop_back().
PopBackKeeps(t) ==
    /\ pc[t] = "popBack"
    /\ IF m_handles = <<>>
       THEN Goto(t, "checkMax") /\ UNCHANGED wrap
       ELSE /\ wrap' = [wrap EXCEPT ![t] = m_handles[Len(m_handles)]]
            /\ Goto(t, "invoke")
    /\ UNCHANGED <<lockVars, poolVars, m_configs, blockading, op, size, inserted>>

PopBack(t) ==
    /\ pc[t] = "popBack"
    /\ \/ /\ m_handles = <<>>
          /\ Goto(t, "checkMax")
          /\ UNCHANGED <<m_handles, wrap>>
       \/ /\ m_handles # <<>>
          /\ wrap' = [wrap EXCEPT ![t] = m_handles[Len(m_handles)]]
          /\ m_handles' = SubSeq(m_handles, 1, Len(m_handles) - 1)
          /\ Goto(t, "invoke")
    /\ UNCHANGED <<lockVars, m_aliveHandleCount, m_configs, configs, held,
                   blockading, op, size, inserted, refused>>

\* "The concurrency of database exceeds the max concurrency", or generate.
CheckMax(t) ==
    /\ pc[t] = "checkMax"
    /\ Goto(t, IF m_aliveHandleCount < MaxConcurrency
               THEN "generate" ELSE "unlockRead")
    /\ UNCHANGED <<lockVars, poolVars, m_configs, blockading, op, locals>>

\* Slip: a connection that fails to open returns without unlockRead.
GenerateLeavesLocked(t) ==
    /\ pc[t] = "generate"
    /\ \/ /\ wrap' = [wrap EXCEPT ![t] = NewHandle]
          /\ configs' = [configs EXCEPT ![wrap'[t]] = m_configs]
          /\ Goto(t, IF op[t] = "flowOut" THEN "countUp" ELSE "pushBack")
          /\ UNCHANGED op
       \/ /\ ConfigMayFail
          /\ Return(t)
          /\ UNCHANGED <<wrap, configs>>
    /\ UNCHANGED <<lockVars, m_handles, m_aliveHandleCount, m_configs, held,
                   blockading, size, inserted, refused>>

\* Opens a connection and runs the configuration list as it is now on it.
\* A connection that does not open, or refuses a config, is dropped.
Generate(t) ==
    /\ pc[t] = "generate"
    /\ \/ /\ wrap' = [wrap EXCEPT ![t] = NewHandle]
          /\ configs' = [configs EXCEPT ![wrap'[t]] = m_configs]
          /\ Goto(t, IF op[t] = "flowOut" THEN "countUp" ELSE "pushBack")
       \/ /\ ConfigMayFail
          /\ Goto(t, "unlockRead")
          /\ UNCHANGED <<wrap, configs>>
    /\ UNCHANGED <<lockVars, m_handles, m_aliveHandleCount, m_configs, held,
                   blockading, op, size, inserted, refused>>

CountUp(t) ==
    /\ pc[t] = "countUp"
    /\ m_aliveHandleCount' = m_aliveHandleCount + 1
    /\ Goto(t, IF op[t] = "flowOut" THEN "invoke" ELSE "unlockRead")
    /\ UNCHANGED <<lockVars, m_handles, m_configs, configs, held, blockading,
                   op, locals, refused>>

\* HandlePool::invoke: a handle that ran another list runs this one, which
\* may fail.
RunsConfigs(h) == configs' = [configs EXCEPT ![h] = m_configs]

RefusesConfigs(h) ==
    /\ ConfigMayFail
    /\ configs[h] # m_configs
    /\ UNCHANGED configs

\* Slip: flowOut gives the read lock up when it hands the handle out.
InvokeUnlocks(t) ==
    /\ pc[t] = "invoke"
    /\ Lock!ReleaseRead
    /\ RunsConfigs(wrap[t])
    /\ held' = [held EXCEPT ![t] = @ \cup {wrap[t]}]
    /\ wrap' = [wrap EXCEPT ![t] = NoHandle]
    /\ Return(t)
    /\ UNCHANGED <<m_handles, m_aliveHandleCount, m_configs, blockading,
                   size, inserted, refused>>

\* The end of flowOut.  A handle that refuses its configs is dropped and the
\* counter stays as it is.
Invoke(t) ==
    /\ pc[t] = "invoke"
    /\ \/ /\ RunsConfigs(wrap[t])
          /\ held' = [held EXCEPT ![t] = @ \cup {wrap[t]}]
          /\ Return(t)
          /\ UNCHANGED refused
       \/ /\ RefusesConfigs(wrap[t])
          /\ refused' = refused + 1
          /\ Goto(t, "unlockRead")
          /\ UNCHANGED <<held, op>>
    /\ wrap' = [wrap EXCEPT ![t] = NoHandle]
    /\ UNCHANGED <<lockVars, m_handles, m_aliveHandleCount, m_configs,
                   blockading, size, inserted>>

\* m_handles.pushBack(wrap): the list takes it while it is below its cap.
Push(t, h) ==
    /\ inserted' = [inserted EXCEPT ![t] = Len(m_handles) < HardwareConcurrency]
    /\ m_handles' = IF inserted'[t] THEN Append(m_handles, h) ELSE m_handles

\* Slip: fillOne counts the handle the full list did not take.
FillPushCounts(t) ==
    /\ pc[t] = "pushBack"
    /\ Push(t, wrap[t])
    /\ Goto(t, "countUp")
    /\ UNCHANGED <<lockVars, m_aliveHandleCount, m_configs, configs, held,
                   blockading, op, wrap, size, refused>>

FillPush(t) ==
    /\ pc[t] = "pushBack"
    /\ Push(t, wrap[t])
    /\ Goto(t, IF inserted'[t] THEN "countUp" ELSE "unlockRead")
    /\ UNCHANGED <<lockVars, m_aliveHandleCount, m_configs, configs, held,
                   blockading, op, wrap, size, refused>>

-----------------------------------------------------------------------------
(* flowBack: the last reference to a RecyclableHandle goes.  The value is  *)
(* kept in a local until flowBack has returned.                            *)

FlowBack(t) == \E h \in held[t] :
    /\ pc[t] = "idle"
    /\ held' = [held EXCEPT ![t] = @ \ {h}]
    /\ wrap' = [wrap EXCEPT ![t] = h]
    /\ op' = [op EXCEPT ![t] = "flowBack"]
    /\ Push(t, h)
    /\ Goto(t, "unlockRead")
    /\ UNCHANGED <<lockVars, m_aliveHandleCount, m_configs, configs,
                   blockading, size, refused>>

\* After unlockRead, so a drain may already be under way.
CountDown(t) ==
    /\ pc[t] = "countDown"
    /\ m_aliveHandleCount' = m_aliveHandleCount - 1
    /\ Goto(t, "release")
    /\ UNCHANGED <<lockVars, m_handles, m_configs, configs, held, blockading,
                   op, locals, refused>>

\* The local goes; a connection nobody else refers to is closed here.
Release(t) ==
    /\ pc[t] = "release"
    /\ wrap' = [wrap EXCEPT ![t] = NoHandle]
    /\ inserted' = [inserted EXCEPT ![t] = FALSE]
    /\ Return(t)
    /\ UNCHANGED <<lockVars, poolVars, m_configs, blockading, size>>

-----------------------------------------------------------------------------
(* purgeFreeHandles and drain.                                             *)

Clear(t) ==
    /\ pc[t] = "clear"
    /\ size' = [size EXCEPT ![t] = Len(m_handles)]
    /\ m_handles' = <<>>
    /\ Goto(t, "subtract")
    /\ UNCHANGED <<lockVars, m_aliveHandleCount, m_configs, configs, held,
                   blockading, op, wrap, inserted, refused>>

Subtract(t) ==
    /\ pc[t] = "subtract"
    /\ m_aliveHandleCount' = m_aliveHandleCount - size[t]
    /\ size' = [size EXCEPT ![t] = 0]
    /\ Goto(t, IF op[t] = "drain" THEN "onDrained" ELSE "unlockRead")
    /\ UNCHANGED <<lockVars, m_handles, m_configs, configs, held, blockading,
                   op, wrap, inserted, refused>>

\* The caller's block runs and returns.
OnDrained(t) ==
    /\ pc[t] = "onDrained"
    /\ Goto(t, "unlockWrite")
    /\ UNCHANGED <<lockVars, poolVars, m_configs, blockading, op, locals>>

-----------------------------------------------------------------------------
(* The write lock, common to drain and blockade.                           *)

HaveWrite(t) ==
    IF op[t] = "drain"
    THEN Goto(t, "clear") /\ UNCHANGED <<blockading, op>>
    ELSE blockading' = blockading \cup {t} /\ Return(t)

LockWrite(t) ==
    /\ pc[t] = "lockWrite"
    /\ \/ /\ Lock!AcquireWrite
          /\ HaveWrite(t)
       \/ /\ Lock!Announce
          /\ Goto(t, "waitWrite")
          /\ UNCHANGED <<blockading, op>>
    /\ UNCHANGED <<poolVars, m_configs, locals>>

WaitWrite(t) ==
    /\ pc[t] = "waitWrite"
    /\ Lock!AcquireAnnounced
    /\ HaveWrite(t)
    /\ UNCHANGED <<poolVars, m_configs, locals>>

UnlockWrite(t) ==
    /\ pc[t] = "unlockWrite"
    /\ Lock!ReleaseWrite
    /\ Return(t)
    /\ UNCHANGED <<poolVars, m_configs, blockading, locals>>

Unblockade(t) ==
    /\ pc[t] = "idle"
    /\ t \in blockading
    /\ blockading' = blockading \ {t}
    /\ Lock!ReleaseWrite
    /\ UNCHANGED <<poolVars, m_configs, pc, op, locals>>

-----------------------------------------------------------------------------

Calls(t) ==
    \/ CallFlowOut(t)
    \/ CallPurge(t)
    \/ CallCanOpen(t)
    \/ CallClose(t)
    \/ CallBlockade(t)
    \/ SetConfig(t)

\* What a thread does once it has called, with giving back what it has.
Proceed(t) ==
    \/ LockRead(t)
    \/ PopBack(t)
    \/ CheckMax(t)
    \/ Generate(t)
    \/ CountUp(t)
    \/ Invoke(t)
    \/ FillPush(t)
    \/ FlowBack(t)
    \/ UnlockRead(t)
    \/ CountDown(t)
    \/ Release(t)
    \/ Clear(t)
    \/ Subtract(t)
    \/ OnDrained(t)
    \/ LockWrite(t)
    \/ WaitWrite(t)
    \/ UnlockWrite(t)
    \/ Unblockade(t)

Next == \E t \in Threads : Calls(t) \/ Proceed(t)

\* Operations that can go on do, handles are given back and a blockade is
\* lifted; nobody is obliged to begin an operation.
Fairness == \A t \in Threads : WF_vars(Proceed(t))

SafetySpec == Init /\ [][Next]_vars
Spec == SafetySpec /\ Fairness

-----------------------------------------------------------------------------

Operations == {"none", "flowOut", "purgeFreeHandles", "fillOne", "flowBack",
               "drain", "blockade"}
PCs == {"idle", "lockRead", "popBack", "checkMax", "generate", "countUp",
        "invoke", "pushBack", "unlockRead", "countDown", "release", "clear",
        "subtract", "onDrained", "lockWrite", "waitWrite", "unlockWrite"}

(* The shape of the state; the free list stays within its cap.             *)
TypeOK ==
    /\ Lock!TypeOK
    /\ m_handles \in Seq(Handles)
    /\ Len(m_handles) <= HardwareConcurrency
    /\ m_aliveHandleCount \in Int
    /\ m_configs \in 0..MaxConfigs
    /\ configs \in [Handles -> 0..MaxConfigs]
    /\ held \in [Threads -> SUBSET Handles]
    /\ blockading \subseteq Closers
    /\ pc \in [Threads -> PCs]
    /\ op \in [Threads -> Operations]
    /\ wrap \in [Threads -> Handles \cup {NoHandle}]
    /\ size \in [Threads -> 0..HardwareConcurrency]
    /\ inserted \in [Threads -> BOOLEAN]
    /\ refused \in Nat

\* Inside flowOut, with a handle nobody else may have.
Obtaining(t) == wrap[t] # NoHandle /\ op[t] = "flowOut"

(* A connection has one user: it is in the free list, or out to one        *)
(* thread, or being handed to one, and the free list holds it once.        *)
SoleUse ==
    /\ TypeOK
    /\ \A i, j \in DOMAIN m_handles : m_handles[i] = m_handles[j] => i = j
    /\ \A t \in Threads :
        /\ held[t] \cap Elements(m_handles) = {}
        /\ Obtaining(t) => wrap[t] \notin Elements(m_handles)
        /\ \A u \in Threads \ {t} :
            /\ held[t] \cap held[u] = {}
            /\ Obtaining(t) => wrap[t] \notin held[u]
            /\ Obtaining(t) /\ Obtaining(u) => wrap[t] # wrap[u]

\* The handles that are out, with the thread that has them.
Out == {p \in Threads \X Handles : p[2] \in held[p[1]]}

\* What the operations under way have still to do with handles counted, and
\* with one not counted yet.
Invoking == {t \in Threads : pc[t] = "invoke"}
Dropping == {t \in Threads : /\ pc[t] \in {"unlockRead", "countDown"}
                             /\ op[t] = "flowBack" /\ ~inserted[t]}
Cleared == {p \in Threads \X (1..HardwareConcurrency) :
                pc[p[1]] = "subtract" /\ p[2] <= size[p[1]]}
Filling == {t \in Threads : pc[t] = "countUp" /\ op[t] = "fillOne"}

Accounted == Len(m_handles) + Cardinality(Out) + Cardinality(Invoking)
    + Cardinality(Dropping) + Cardinality(Cleared) - Cardinality(Filling)

(* m_aliveHandleCount, written by every operation at a moment of its own,  *)
(* is at every instant the handles in the list and out, corrected by what  *)
(* the operations under way have still to write, and those flowOut dropped *)
(* without counting them down (handle_pool.cpp:164-177).                   *)
AliveExact == m_aliveHandleCount = Accounted + refused

(* flowOut compares with s_maxConcurrency and counts later, both under the *)
(* shared lock: the limit can be passed, by one for each other thread.     *)
AliveBounded ==
    m_aliveHandleCount <= MaxConcurrency + Cardinality(Threads) - 1

(* While onDrained runs nothing is out and the list is empty.  A thread    *)
(* that has just given its handle back may still have the connection open. *)
OnlyReturningOpen == (\E t \in Threads : pc[t] = "onDrained") =>
    \A h \in Open : \E u \in Threads :
        wrap[u] = h /\ pc[u] \in {"countDown", "release"}

(* WCTDatabase+Database.h: "this method can make sure database is closed   *)
(* in the "onClosed" block".                                               *)
ClosedInOnClosed == (\E t \in Threads : pc[t] = "onDrained") => Open = {}

(* WCTDatabase+Database.h on isOpened: "Check database is already opened." *)
(* With no operation under way it says whether a connection is open.       *)
IsOpenedAccurate == (\A t \in Threads : pc[t] = "idle") =>
    (m_aliveHandleCount # 0 <=> Open # {})

(* close returns: nobody new gets in, those inside come out.               *)
CloseReturns == \A t \in Closers :
    pc[t] = "lockWrite" ~> pc[t] = "idle"

\* The threads that have the pool to themselves.
Sealing == blockading \cup
    {t \in Threads : /\ op[t] = "drain"
                     /\ pc[t] \in {"clear", "subtract", "onDrained", "unlockWrite"}}

Promise == INSTANCE AbstractPool WITH sealedBy <- Sealing

(* The pool is an AbstractPool.                                            *)
ImplementsAbstract == Promise!Spec

=============================================================================
