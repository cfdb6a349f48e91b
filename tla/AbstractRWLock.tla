--------------------------- MODULE AbstractRWLock ---------------------------
(***************************************************************************)
(* What WCDB's RWLock promises to the code that uses it (HandlePool above  *)
(* all): three counters, and the conditions under which each may move.     *)
(* There is no mutex, no condition variable and no sleeping thread here;   *)
(* RWLock.tla has them, and is checked to implement this specification.    *)
(* HandlePool.tla takes its lock steps from this module.                   *)
(*                                                                         *)
(* The lock counts and knows no owner: whoever calls unlockWrite takes one *)
(* writer away, and a thread that asks twice is counted twice.             *)
(***************************************************************************)
EXTENDS Naturals

VARIABLES
    m_reader,   \* read locks held
    m_writer,   \* write locks held
    m_pending   \* callers inside lockWrite that do not have the lock yet

lockVars == <<m_reader, m_writer, m_pending>>

TypeOK ==
    /\ m_reader \in Nat
    /\ m_writer \in 0..1
    /\ m_pending \in Nat

Init ==
    /\ m_reader = 0
    /\ m_writer = 0
    /\ m_pending = 0

\* The loop conditions of lockRead and lockWrite.
ReadBlocked == m_writer > 0 \/ m_pending > 0
WriteBlocked == m_writer > 0 \/ m_reader > 0

AcquireRead ==
    /\ ~ReadBlocked
    /\ m_reader' = m_reader + 1
    /\ UNCHANGED <<m_writer, m_pending>>

ReleaseRead ==
    /\ m_reader > 0
    /\ m_reader' = m_reader - 1
    /\ UNCHANGED <<m_writer, m_pending>>

\* lockWrite that has to wait: from here on no reader gets in.
Announce ==
    /\ WriteBlocked
    /\ m_pending' = m_pending + 1
    /\ UNCHANGED <<m_reader, m_writer>>

\* A waiting lockWrite gets the lock.
AcquireAnnounced ==
    /\ m_pending > 0
    /\ ~WriteBlocked
    /\ m_pending' = m_pending - 1
    /\ m_writer' = m_writer + 1
    /\ UNCHANGED m_reader

\* lockWrite that finds the lock free, or tryLockWrite: neither looks at
\* the writers that are already waiting.
AcquireWrite ==
    /\ ~WriteBlocked
    /\ m_writer' = m_writer + 1
    /\ UNCHANGED <<m_reader, m_pending>>

ReleaseWrite ==
    /\ m_writer > 0
    /\ m_writer' = m_writer - 1
    /\ UNCHANGED <<m_reader, m_pending>>

Next ==
    \/ AcquireRead
    \/ ReleaseRead
    \/ Announce
    \/ AcquireAnnounced
    \/ AcquireWrite
    \/ ReleaseWrite

\* A free lock with writers waiting for it does not stay free.
Spec == Init /\ [][Next]_lockVars /\ WF_lockVars(AcquireAnnounced)

=============================================================================
