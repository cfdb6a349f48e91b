------------------------------- MODULE RWLock -------------------------------
(***************************************************************************)
(* WCDB's reader-writer lock (objc/WCDB/util/rwlock.cpp): a monitor made   *)
(* of one mutex, one condition variable shared by readers and writers, and *)
(* three counters.  Every method holds m_mutex from its first to its last  *)
(* line except inside m_cond.wait, so a step here is one stretch between   *)
(* taking m_mutex and giving it up, either by returning or by waiting.     *)
(*                                                                         *)
(* pc[t] says where thread t is; waitSet is the wait set of m_cond.  A     *)
(* thread in "readWait" or "writeWait" that is no longer in waitSet has    *)
(* been woken and is about to look at its loop condition again.            *)
(***************************************************************************)
EXTENDS Naturals, FiniteSets

CONSTANT Threads

ASSUME ThreadsAssumption == IsFiniteSet(Threads)

VARIABLES m_reader, m_writer, m_pending, pc, waitSet

lockVars == <<m_reader, m_writer, m_pending>>
vars == <<m_reader, m_writer, m_pending, pc, waitSet>>

At(where) == {t \in Threads : pc[t] = where}

Goto(t, where) == pc' = [pc EXCEPT ![t] = where]

Init ==
    /\ m_reader = 0
    /\ m_writer = 0
    /\ m_pending = 0
    /\ pc = [t \in Threads |-> "idle"]
    /\ waitSet = {}

(* Slips: what each method would be with one plausible mistake in it. They *)
(* are not part of the specification; the properties below tell every one  *)
(* of them from the code.                                                  *)

\* lockRead that forgets the pending writers.
ReadBlockedByWritersOnly == m_writer > 0

\* lockWrite that forgets the readers.
WriteBlockedByWritersOnly == m_writer > 0

\* The loop conditions of lockRead and lockWrite.
ReadBlocked == m_writer > 0 \/ m_pending > 0
WriteBlocked == m_writer > 0 \/ m_reader > 0

NotifyAll == waitSet' = {}

EnterRead(t) ==
    /\ m_reader' = m_reader + 1
    /\ Goto(t, "reading")
    /\ UNCHANGED <<m_writer, m_pending, waitSet>>

EnterWrite(t) ==
    /\ m_writer' = m_writer + 1
    /\ Goto(t, "writing")
    /\ UNCHANGED <<m_reader, waitSet>>

\* unlockRead without notify_all.
UnlockReadSilent(t) ==
    /\ pc[t] = "reading"
    /\ m_reader' = m_reader - 1
    /\ Goto(t, "idle")
    /\ UNCHANGED <<m_writer, m_pending, waitSet>>

\* unlockWrite with notify_one: the thread woken may be one that must wait.
UnlockWriteNotifyOne(t) ==
    /\ pc[t] = "writing"
    /\ m_writer' = m_writer - 1
    /\ Goto(t, "idle")
    /\ waitSet' \in IF waitSet = {} THEN {{}} ELSE {waitSet \ {u} : u \in waitSet}
    /\ UNCHANGED <<m_reader, m_pending>>

\* lockWrite without --m_pending after the loop.
WriteWakeStillPending(t) ==
    /\ pc[t] = "writeWait"
    /\ t \notin waitSet
    /\ \/ /\ ~(m_writer > 0 \/ m_reader > 0)
          /\ EnterWrite(t)
          /\ UNCHANGED m_pending
       \/ /\ m_writer > 0 \/ m_reader > 0
          /\ waitSet' = waitSet \cup {t}
          /\ UNCHANGED <<lockVars, pc>>

\* lockWrite without ++m_pending before the loop.
LockWriteUnannounced(t) ==
    /\ pc[t] = "idle"
    /\ IF WriteBlocked
       THEN /\ waitSet' = waitSet \cup {t}
            /\ Goto(t, "writeWait")
            /\ UNCHANGED lockVars
       ELSE EnterWrite(t) /\ UNCHANGED m_pending

-----------------------------------------------------------------------------

LockRead(t) ==
    /\ pc[t] = "idle"
    /\ \/ /\ ~ReadBlocked
          /\ EnterRead(t)
       \/ /\ ReadBlocked
          /\ waitSet' = waitSet \cup {t}
          /\ Goto(t, "readWait")
          /\ UNCHANGED lockVars

\* The thread is back from m_cond.wait inside lockRead.
ReadWake(t) ==
    /\ pc[t] = "readWait"
    /\ t \notin waitSet
    /\ \/ /\ ~ReadBlocked
          /\ EnterRead(t)
       \/ /\ ReadBlocked
          /\ waitSet' = waitSet \cup {t}
          /\ UNCHANGED <<lockVars, pc>>

UnlockRead(t) ==
    /\ pc[t] = "reading"
    /\ m_reader' = m_reader - 1
    /\ Goto(t, "idle")
    /\ IF m_reader' = 0 THEN NotifyAll ELSE UNCHANGED waitSet
    /\ UNCHANGED <<m_writer, m_pending>>

\* A failed try returns false and changes nothing.
TryLockRead(t) ==
    /\ pc[t] = "idle"
    /\ ~ReadBlocked
    /\ EnterRead(t)

\* ++m_pending and --m_pending cancel out when the loop is not entered.
LockWrite(t) ==
    /\ pc[t] = "idle"
    /\ \/ /\ ~WriteBlocked
          /\ EnterWrite(t)
          /\ UNCHANGED m_pending
       \/ /\ WriteBlocked
          /\ m_pending' = m_pending + 1
          /\ waitSet' = waitSet \cup {t}
          /\ Goto(t, "writeWait")
          /\ UNCHANGED <<m_reader, m_writer>>

\* The thread is back from m_cond.wait inside lockWrite.
WriteWake(t) ==
    /\ pc[t] = "writeWait"
    /\ t \notin waitSet
    /\ \/ /\ ~WriteBlocked
          /\ m_pending' = m_pending - 1
          /\ EnterWrite(t)
       \/ /\ WriteBlocked
          /\ waitSet' = waitSet \cup {t}
          /\ UNCHANGED <<lockVars, pc>>

UnlockWrite(t) ==
    /\ pc[t] = "writing"
    /\ m_writer' = m_writer - 1
    /\ Goto(t, "idle")
    /\ NotifyAll
    /\ UNCHANGED <<m_reader, m_pending>>

\* Unlike lockRead and tryLockRead it does not look at m_pending.
TryLockWrite(t) ==
    /\ pc[t] = "idle"
    /\ ~WriteBlocked
    /\ EnterWrite(t)
    /\ UNCHANGED m_pending

\* std::condition_variable::wait may return without a notification.
SpuriousWake(t) ==
    /\ t \in waitSet
    /\ waitSet' = waitSet \ {t}
    /\ UNCHANGED <<lockVars, pc>>

Next == \E t \in Threads :
    \/ LockRead(t)
    \/ ReadWake(t)
    \/ UnlockRead(t)
    \/ TryLockRead(t)
    \/ LockWrite(t)
    \/ WriteWake(t)
    \/ UnlockWrite(t)
    \/ TryLockWrite(t)
    \/ SpuriousWake(t)

\* A thread that has been woken gets m_mutex, and nobody keeps the lock for
\* ever.  Nobody is obliged to ask for the lock or to be woken spuriously.
Fairness == \A t \in Threads :
    /\ WF_vars(ReadWake(t))
    /\ WF_vars(WriteWake(t))
    /\ WF_vars(UnlockRead(t))
    /\ WF_vars(UnlockWrite(t))

SafetySpec == Init /\ [][Next]_vars
Spec == SafetySpec /\ Fairness

-----------------------------------------------------------------------------

PCs == {"idle", "readWait", "reading", "writeWait", "writing"}

(* The shape of the state: counters that never go below zero, and only     *)
(* threads inside lockRead or lockWrite in the wait set of m_cond.         *)
TypeOK ==
    /\ m_reader \in Nat
    /\ m_writer \in Nat
    /\ m_pending \in Nat
    /\ pc \in [Threads -> PCs]
    /\ waitSet \subseteq At("readWait") \cup At("writeWait")

(* The counters say who has the lock and who waits for it.                 *)
Counted ==
    /\ m_reader = Cardinality(At("reading"))
    /\ m_writer = Cardinality(At("writing"))
    /\ m_pending = Cardinality(At("writeWait"))

(* At most one thread is past lockWrite, and then none is past lockRead:   *)
(* what drain and blockade rely on when they empty the pool.               *)
Exclusion == \A w \in At("writing"), t \in Threads :
    t # w => pc[t] \notin {"reading", "writing"}

(* Nobody sleeps through the wake-up that concerned it: a thread in the    *)
(* wait set has its loop condition still true, although unlockRead         *)
(* notifies only when the last reader leaves and lockWrite, which may      *)
(* change m_pending, does not notify at all.                               *)
NoLostWakeup == \A t \in waitSet :
    /\ pc[t] = "readWait" => ReadBlocked
    /\ pc[t] = "writeWait" => WriteBlocked

(* Writers are preferred: once lockWrite waits, a stream of new readers    *)
(* cannot keep every writer out for ever.                                  *)
PendingWriterServed == m_pending > 0 ~> m_writer > 0

\* The counters move as AbstractRWLock says, wake-ups included.
Abstract == INSTANCE AbstractRWLock

(* RWLock implements the lock HandlePool reasons with.                     *)
ImplementsAbstract == Abstract!Spec

=============================================================================
