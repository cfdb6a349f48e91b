------------------------ MODULE RWLock_ShmLocks_proof -------------------------
(***************************************************************************)
(* The two locks.                                                          *)
(*                                                                         *)
(* RWLock for every set of threads: who has the lock, what the counters    *)
(* count, that no wake-up is lost, and that every step is a step of        *)
(* AbstractRWLock or a stutter.  Exclusion speaks of threads and the       *)
(* methods test counters; the bridge is Counted: each counter is the number *)
(* of threads at one place of the code.  With Alone, Counted and TypeOK are *)
(* preserved by every step.                                                *)
(*                                                                         *)
(* ShmLocks for any connections, any read locks and a queue of any length: *)
(* no lock is held against the rules, and the queue is empty whenever      *)
(* nobody holds a lock, which is what unixShmPurge relies on.              *)
(***************************************************************************)
EXTENDS RWLock, ShmLocks, FiniteSetTheorems, SequenceTheorems, TLAPS

Alone == /\ m_writer <= 1
         /\ m_writer > 0 => m_reader = 0

IInv == TypeOK /\ Counted /\ Alone

-----------------------------------------------------------------------------

(* The threads at one place of the code are finitely many.                 *)
LEMMA AtFinite ==
    ASSUME NEW where
    PROVE  /\ IsFiniteSet(At(where))
           /\ Cardinality(At(where)) \in Nat
<1>1. At(where) \subseteq Threads
  BY DEF At
<1>2. IsFiniteSet(At(where))
  BY <1>1, ThreadsAssumption, FS_Subset
<1> QED
  BY <1>2, FS_CardinalityType

(* A thread that goes from one place to another changes those two counts   *)
(* by one and no other.                                                    *)
LEMMA MoveCounts ==
    ASSUME TypeOK,
           NEW t \in Threads, NEW from \in PCs, NEW to \in PCs,
           pc[t] = from, from # to, Goto(t, to)
    PROVE  /\ Cardinality(At(to)') = Cardinality(At(to)) + 1
           /\ Cardinality(At(from)') = Cardinality(At(from)) - 1
           /\ \A other \in PCs \ {from, to} : At(other)' = At(other)
<1>1. /\ At(to)' = At(to) \cup {t}
      /\ t \notin At(to)
  BY DEF TypeOK, Goto, At
<1>2. /\ At(from)' = At(from) \ {t}
      /\ t \in At(from)
  BY DEF TypeOK, Goto, At
<1>3. \A other \in PCs \ {from, to} : At(other)' = At(other)
  BY DEF TypeOK, Goto, At
<1>4. Cardinality(At(to)') = Cardinality(At(to)) + 1
  BY <1>1, AtFinite, FS_AddElement
<1>5. Cardinality(At(from)') = Cardinality(At(from)) - 1
  BY <1>2, AtFinite, FS_RemoveElement
<1> QED
  BY <1>3, <1>4, <1>5

(* A thread at a counted place makes that count positive.                  *)
LEMMA PresentCounts ==
    ASSUME NEW where, NEW t \in At(where)
    PROVE  Cardinality(At(where)) > 0
<1>1. Cardinality(At(where)) # 0
  BY AtFinite, FS_EmptySet
<1> QED
  BY <1>1, AtFinite

-----------------------------------------------------------------------------

LEMMA InitEstablishes == Init => IInv
<1> SUFFICES ASSUME Init PROVE IInv
  OBVIOUS
<1>1. \A where \in PCs \ {"idle"} : At(where) = {}
  BY DEF Init, At
<1>2. Cardinality({}) = 0
  BY FS_EmptySet
<1> QED
  BY <1>1, <1>2 DEF Init, IInv, TypeOK, Counted, Alone, PCs, At

(* Each method, with the loop it waits in, keeps the counters in step with *)
(* the threads and a writer alone.                                         *)
LEMMA StepPreserves ==
    ASSUME IInv, Next
    PROVE  IInv'
<1> USE DEF IInv
<1>1. PICK t \in Threads :
        \/ LockRead(t)
        \/ ReadWake(t)
        \/ UnlockRead(t)
        \/ TryLockRead(t)
        \/ LockWrite(t)
        \/ WriteWake(t)
        \/ UnlockWrite(t)
        \/ TryLockWrite(t)
        \/ SpuriousWake(t)
  BY DEF Next
<1>2. /\ m_reader \in Nat /\ m_writer \in Nat /\ m_pending \in Nat
      /\ pc \in [Threads -> PCs]
  BY DEF TypeOK
<1>3. ASSUME NEW from \in {"idle", "readWait"}, pc[t] = from,
             ~ReadBlocked, EnterRead(t), t \notin waitSet
      PROVE  IInv'
  <2>1. /\ from \in PCs
        /\ "reading" \in PCs
        /\ Goto(t, "reading")
    BY <1>3 DEF PCs, EnterRead
  <2>2. /\ Cardinality(At("reading")') = Cardinality(At("reading")) + 1
        /\ At("writing")' = At("writing")
        /\ At("writeWait")' = At("writeWait")
    BY <1>3, <2>1, MoveCounts DEF PCs
  <2>3. Counted'
    BY <1>3, <2>2 DEF EnterRead, Counted
  <2>4. TypeOK'
    BY <1>2, <1>3, <2>1 DEF EnterRead, Goto, TypeOK, At
  <2> QED
    BY <1>2, <1>3, <2>3, <2>4 DEF EnterRead, ReadBlocked, Alone
<1>4. ASSUME NEW from \in {"idle", "writeWait"}, pc[t] = from,
             ~WriteBlocked, EnterWrite(t), t \notin waitSet,
             m_pending' = IF from = "idle" THEN m_pending ELSE m_pending - 1
      PROVE  IInv'
  <2>1. /\ from \in PCs
        /\ "writing" \in PCs
        /\ Goto(t, "writing")
    BY <1>4 DEF PCs, EnterWrite
  <2>2. /\ Cardinality(At("writing")') = Cardinality(At("writing")) + 1
        /\ Cardinality(At(from)') = Cardinality(At(from)) - 1
        /\ \A other \in PCs \ {from, "writing"} : At(other)' = At(other)
    BY <1>4, <2>1, MoveCounts DEF PCs
  <2>3. /\ At("reading")' = At("reading")
        /\ from = "idle" => At("writeWait")' = At("writeWait")
    BY <1>4, <2>2 DEF PCs
  <2>4. Counted'
    BY <1>4, <2>2, <2>3 DEF EnterWrite, Counted
  <2>5. m_pending' \in Nat
    <3>1. CASE from = "idle"
      BY <1>2, <1>4, <3>1
    <3>2. CASE from = "writeWait"
      <4>1. m_pending > 0
        BY <1>4, <3>2, PresentCounts DEF Counted, At
      <4> QED
        BY <1>2, <1>4, <3>2, <4>1
    <3> QED
      BY <1>4, <3>1, <3>2
  <2>6. TypeOK'
    BY <1>2, <1>4, <2>1, <2>5 DEF EnterWrite, Goto, TypeOK, At
  <2> QED
    BY <1>2, <1>4, <2>4, <2>6 DEF EnterWrite, WriteBlocked, Alone
<1>5. ASSUME NEW from \in {"idle", "readWait", "writeWait"},
             NEW to \in {"readWait", "writeWait"}, pc[t] = from,
             Goto(t, to), from # "idle" => to = from,
             waitSet' = waitSet \cup {t}, UNCHANGED <<m_reader, m_writer>>,
             m_pending' = IF from = "idle" /\ to = "writeWait"
                          THEN m_pending + 1 ELSE m_pending
      PROVE  IInv'
  <2>1. TypeOK'
    BY <1>2, <1>5 DEF Goto, TypeOK, At, PCs
  <2>2. /\ At("reading")' = At("reading")
        /\ At("writing")' = At("writing")
    BY <1>2, <1>5 DEF Goto, At
  <2>3. m_pending' = Cardinality(At("writeWait")')
    <3>1. CASE from = "idle" /\ to = "writeWait"
      BY <1>5, <3>1, MoveCounts DEF Counted, PCs
    <3>2. CASE ~(from = "idle" /\ to = "writeWait")
      <4>1. At("writeWait")' = At("writeWait")
        BY <1>2, <1>5, <3>2 DEF Goto, At
      <4> QED
        BY <1>5, <3>2, <4>1 DEF Counted
    <3> QED
      BY <3>1, <3>2
  <2> QED
    BY <1>5, <2>1, <2>2, <2>3 DEF Counted, Alone
<1>6. CASE LockRead(t)
  <2>1. pc[t] = "idle" /\ t \notin waitSet
    BY <1>6 DEF LockRead, TypeOK, At
  <2>2. CASE ~ReadBlocked /\ EnterRead(t)
    BY <1>3, <2>1, <2>2
  <2>3. CASE /\ waitSet' = waitSet \cup {t}
             /\ Goto(t, "readWait")
             /\ UNCHANGED lockVars
    BY <1>5, <2>1, <2>3 DEF lockVars
  <2> QED
    BY <1>6, <2>2, <2>3 DEF LockRead
<1>7. CASE ReadWake(t)
  <2>1. pc[t] = "readWait" /\ t \notin waitSet
    BY <1>7 DEF ReadWake
  <2>2. CASE ~ReadBlocked /\ EnterRead(t)
    BY <1>3, <2>1, <2>2
  <2>3. CASE waitSet' = waitSet \cup {t} /\ UNCHANGED <<lockVars, pc>>
    <3>1. Goto(t, "readWait")
      BY <1>2, <2>1, <2>3 DEF Goto
    <3> QED
      BY <1>5, <2>1, <2>3, <3>1 DEF lockVars
  <2> QED
    BY <1>7, <2>2, <2>3 DEF ReadWake
<1>8. CASE UnlockRead(t)
  <2>1. /\ pc[t] = "reading"
        /\ m_reader' = m_reader - 1
        /\ Goto(t, "idle")
        /\ waitSet' = {} \/ waitSet' = waitSet
        /\ UNCHANGED <<m_writer, m_pending>>
    BY <1>8 DEF UnlockRead, NotifyAll
  <2>2. m_reader > 0
    BY <2>1, PresentCounts DEF Counted, At
  <2>3. /\ Cardinality(At("reading")') = Cardinality(At("reading")) - 1
        /\ At("writing")' = At("writing")
        /\ At("writeWait")' = At("writeWait")
    BY <2>1, MoveCounts DEF PCs
  <2>4. Counted'
    BY <2>1, <2>3 DEF Counted
  <2>5. TypeOK'
    BY <1>2, <2>1, <2>2 DEF Goto, TypeOK, At, PCs
  <2> QED
    BY <1>2, <2>1, <2>2, <2>4, <2>5 DEF Alone
<1>9. CASE TryLockRead(t)
  <2>1. pc[t] = "idle" /\ t \notin waitSet
    BY <1>9 DEF TryLockRead, TypeOK, At
  <2> QED
    BY <1>3, <1>9, <2>1 DEF TryLockRead
<1>10. CASE LockWrite(t)
  <2>1. pc[t] = "idle" /\ t \notin waitSet
    BY <1>10 DEF LockWrite, TypeOK, At
  <2>2. CASE ~WriteBlocked /\ EnterWrite(t) /\ UNCHANGED m_pending
    BY <1>4, <2>1, <2>2
  <2>3. CASE /\ m_pending' = m_pending + 1
             /\ waitSet' = waitSet \cup {t}
             /\ Goto(t, "writeWait")
             /\ UNCHANGED <<m_reader, m_writer>>
    BY <1>5, <2>1, <2>3
  <2> QED
    BY <1>10, <2>2, <2>3 DEF LockWrite
<1>11. CASE WriteWake(t)
  <2>1. pc[t] = "writeWait" /\ t \notin waitSet
    BY <1>11 DEF WriteWake
  <2>2. CASE ~WriteBlocked /\ m_pending' = m_pending - 1 /\ EnterWrite(t)
    BY <1>4, <2>1, <2>2
  <2>3. CASE waitSet' = waitSet \cup {t} /\ UNCHANGED <<lockVars, pc>>
    <3>1. Goto(t, "writeWait")
      BY <1>2, <2>1, <2>3 DEF Goto
    <3> QED
      BY <1>5, <2>1, <2>3, <3>1 DEF lockVars
  <2> QED
    BY <1>11, <2>2, <2>3 DEF WriteWake
<1>12. CASE UnlockWrite(t)
  <2>1. /\ pc[t] = "writing"
        /\ m_writer' = m_writer - 1
        /\ Goto(t, "idle")
        /\ waitSet' = {}
        /\ UNCHANGED <<m_reader, m_pending>>
    BY <1>12 DEF UnlockWrite, NotifyAll
  <2>2. m_writer > 0
    BY <2>1, PresentCounts DEF Counted, At
  <2>3. /\ Cardinality(At("writing")') = Cardinality(At("writing")) - 1
        /\ At("reading")' = At("reading")
        /\ At("writeWait")' = At("writeWait")
    BY <2>1, MoveCounts DEF PCs
  <2>4. Counted'
    BY <2>1, <2>3 DEF Counted
  <2>5. TypeOK'
    BY <1>2, <2>1, <2>2 DEF Goto, TypeOK, At, PCs
  <2> QED
    BY <1>2, <2>1, <2>2, <2>4, <2>5 DEF Alone
<1>13. CASE TryLockWrite(t)
  <2>1. pc[t] = "idle" /\ t \notin waitSet
    BY <1>13 DEF TryLockWrite, TypeOK, At
  <2> QED
    BY <1>4, <1>13, <2>1 DEF TryLockWrite
<1>14. CASE SpuriousWake(t)
  BY <1>14 DEF SpuriousWake, lockVars, TypeOK, Counted, Alone, At
<1> QED
  BY <1>1, <1>6, <1>7, <1>8, <1>9, <1>10, <1>11, <1>12, <1>13, <1>14

(* IInv holds in every state the lock can reach.                           *)
THEOREM Invariance == SafetySpec => []IInv
<1>1. IInv /\ UNCHANGED vars => IInv'
  BY DEF IInv, TypeOK, Counted, Alone, vars, At
<1> QED
  BY <1>1, InitEstablishes, StepPreserves, PTL DEF SafetySpec

(* The counters stay natural numbers and m_cond is waited on only from     *)
(* lockRead and lockWrite (rwlock.cpp).                                    *)
THEOREM TypeCorrect == SafetySpec => []TypeOK
  BY Invariance, PTL DEF IInv

(* Each counter of rwlock.cpp is the number of threads it stands for.      *)
THEOREM CountersExact == SafetySpec => []Counted
  BY Invariance, PTL DEF IInv

(* Between lockWrite and unlockWrite a thread has the lock to itself.      *)
THEOREM MutualExclusion == SafetySpec => []Exclusion
<1>1. IInv => Exclusion
  <2> SUFFICES ASSUME IInv,
                      NEW w \in At("writing"), NEW t \in Threads, t # w,
                      pc[t] \in {"reading", "writing"}
               PROVE  FALSE
    BY DEF Exclusion
  <2>1. Cardinality(At("writing")) = 1 /\ Cardinality(At("reading")) = 0
    BY PresentCounts, AtFinite DEF IInv, Counted, Alone
  <2>2. CASE pc[t] = "reading"
    BY <2>1, <2>2, PresentCounts DEF At
  <2>3. CASE pc[t] = "writing"
    <3>1. IsFiniteSet(At("writing"))
      BY AtFinite
    <3>2. /\ IsFiniteSet(At("writing") \ {w})
          /\ Cardinality(At("writing") \ {w}) = Cardinality(At("writing")) - 1
      BY <3>1, FS_RemoveElement
    <3>3. At("writing") \ {w} = {}
      BY <2>1, <3>2, FS_EmptySet
    <3> QED
      BY <2>3, <3>3 DEF At
  <2> QED
    BY <2>2, <2>3
<1> QED
  BY <1>1, Invariance, PTL

-----------------------------------------------------------------------------

(* A thread asleep on m_cond still has a reason to be: whoever made its    *)
(* loop condition false has emptied the wait set.                          *)
THEOREM NoWakeupLost == SafetySpec => []NoLostWakeup
<1>1. Init => NoLostWakeup
  BY DEF Init, NoLostWakeup
<1>2. ASSUME IInv, NoLostWakeup, [Next]_vars
      PROVE  NoLostWakeup'
  <2>1. CASE UNCHANGED vars
    BY <1>2, <2>1 DEF NoLostWakeup, ReadBlocked, WriteBlocked, vars
  <2>2. CASE Next
    <3>1. PICK t \in Threads :
            \/ LockRead(t) \/ ReadWake(t) \/ UnlockRead(t) \/ TryLockRead(t)
            \/ LockWrite(t) \/ WriteWake(t) \/ UnlockWrite(t)
            \/ TryLockWrite(t) \/ SpuriousWake(t)
      BY <2>2 DEF Next
    <3> USE <1>2 DEF IInv, TypeOK, NoLostWakeup, ReadBlocked, WriteBlocked,
                     Goto, At, PCs, lockVars
    <3>2. CASE LockRead(t)
      BY <3>2 DEF LockRead, EnterRead
    <3>3. CASE ReadWake(t)
      BY <3>3 DEF ReadWake, EnterRead
    <3>4. CASE UnlockRead(t)
      BY <3>4 DEF UnlockRead, NotifyAll
    <3>5. CASE TryLockRead(t)
      BY <3>5 DEF TryLockRead, EnterRead
    <3>6. CASE LockWrite(t)
      BY <3>6 DEF LockWrite, EnterWrite
    <3>7. CASE WriteWake(t)
      BY <3>7 DEF WriteWake, EnterWrite
    <3>8. CASE UnlockWrite(t)
      BY <3>8 DEF UnlockWrite, NotifyAll
    <3>9. CASE TryLockWrite(t)
      BY <3>9 DEF TryLockWrite, EnterWrite
    <3>10. CASE SpuriousWake(t)
      BY <3>10 DEF SpuriousWake
    <3> QED
      BY <3>1, <3>2, <3>3, <3>4, <3>5, <3>6, <3>7, <3>8, <3>9, <3>10
  <2> QED
    BY <1>2, <2>1, <2>2
<1> QED
  BY <1>1, <1>2, Invariance, PTL DEF SafetySpec

-----------------------------------------------------------------------------

(* Safety half of ImplementsAbstract: every step of rwlock.cpp is a step   *)
(* of AbstractRWLock or leaves its counters alone.                         *)
THEOREM StepsImplementAbstract ==
    SafetySpec => Abstract!Init /\ [][Abstract!Next]_lockVars
<1>1. Init => Abstract!Init
  BY DEF Init, Abstract!Init
<1>2. ASSUME IInv, [Next]_vars
      PROVE  [Abstract!Next]_lockVars
  <2> USE <1>2 DEF IInv, TypeOK, lockVars, ReadBlocked, WriteBlocked,
                   Abstract!Next, Abstract!ReadBlocked, Abstract!WriteBlocked
  <2>1. CASE UNCHANGED vars
    BY <2>1 DEF vars
  <2>2. CASE Next
    <3>1. PICK t \in Threads :
            \/ LockRead(t) \/ ReadWake(t) \/ UnlockRead(t) \/ TryLockRead(t)
            \/ LockWrite(t) \/ WriteWake(t) \/ UnlockWrite(t)
            \/ TryLockWrite(t) \/ SpuriousWake(t)
      BY <2>2 DEF Next
    <3>2. CASE LockRead(t) \/ ReadWake(t) \/ TryLockRead(t)
      BY <3>2 DEF LockRead, ReadWake, TryLockRead, EnterRead,
                  Abstract!AcquireRead
    <3>3. CASE UnlockRead(t)
      <4>1. m_reader > 0
        BY <3>3, PresentCounts DEF UnlockRead, Counted, At
      <4> QED
        BY <3>3, <4>1 DEF UnlockRead, Abstract!ReleaseRead
    <3>4. CASE LockWrite(t) \/ TryLockWrite(t)
      BY <3>4 DEF LockWrite, TryLockWrite, EnterWrite,
                  Abstract!AcquireWrite, Abstract!Announce
    <3>5. CASE WriteWake(t)
      <4>1. m_pending > 0
        BY <3>5, PresentCounts DEF WriteWake, Counted, At
      <4> QED
        BY <3>5, <4>1 DEF WriteWake, EnterWrite, Abstract!AcquireAnnounced
    <3>6. CASE UnlockWrite(t)
      <4>1. m_writer > 0
        BY <3>6, PresentCounts DEF UnlockWrite, Counted, At
      <4> QED
        BY <3>6, <4>1 DEF UnlockWrite, Abstract!ReleaseWrite
    <3>7. CASE SpuriousWake(t)
      BY <3>7 DEF SpuriousWake
    <3> QED
      BY <3>1, <3>2, <3>3, <3>4, <3>5, <3>6, <3>7
  <2> QED
    BY <2>1, <2>2
<1> QED
  BY <1>1, <1>2, Invariance, PTL DEF SafetySpec

-----------------------------------------------------------------------------
(* What a connection holds follows from what it has begun.                 *)
PlacedAt(c) ==
    /\ begun[c] \in {"idle", "read", "write", "raise", "ckpt", "copy"}
    /\ c \notin open => begun[c] = "idle"
    /\ begun[c] = "idle" => shared[c] = {} /\ excl[c] = {}
    /\ begun[c] = "read" => excl[c] = {} /\ \E l \in ReadLocks : shared[c] = {l}
    /\ begun[c] = "write" => excl[c] = {"WRITE"} /\ \E l \in ReadLocks : shared[c] = {l}
    /\ begun[c] = "raise" => shared[c] = {} /\ \E l \in ReadLocks : excl[c] = {l}
    /\ begun[c] = "ckpt" => shared[c] = {} /\ excl[c] = {"CKPT"}
    /\ begun[c] = "copy" => shared[c] = {} /\ \E l \in ReadLocks : excl[c] = {"CKPT", l}

Placed ==
    /\ open \subseteq Conns
    /\ begun \in [Conns -> {"idle", "read", "write", "raise", "ckpt", "copy"}]
    /\ \A c \in Conns : PlacedAt(c)

ShmInv == ShmTypeOK /\ Placed /\ PurgeEnds

-----------------------------------------------------------------------------

(* What is left of the queue when its first n have been signalled.         *)
LEMMA SignalLeaves ==
    ASSUME queue \in Seq(Entry), NEW n \in 0 .. Len(queue), Signal(n)
    PROVE  /\ queue' \in Seq(Entry)
           /\ asleep' \subseteq asleep
           /\ queue' # <<>> => n + 1 \in DOMAIN queue /\ Head(queue') = queue[n + 1]
<1>1. queue' = SubSeq(queue, n + 1, Len(queue)) /\ asleep' \subseteq asleep
  BY DEF Signal
<1>2. queue' \in Seq(Entry)
  BY <1>1
<1>3. CASE n = Len(queue)
  <2>1. Len(queue') = 0
    BY <1>1, <1>3
  <2> QED
    BY <1>1, <1>2, <2>1
<1>4. CASE n # Len(queue)
  <2>1. n + 1 \in DOMAIN queue /\ n + 1 =< Len(queue)
    BY <1>4
  <2>2. Len(queue') > 0 /\ queue'[1] = queue[n + 1]
    BY <1>1, <2>1
  <2> QED
    BY <1>1, <1>2, <2>1, <2>2
<1> QED
  BY <1>3, <1>4

(* After an unlock the first of the queue, if any, waits for a lock that   *)
(* somebody holds.                                                         *)
LEMMA TrySignalLeaves ==
    ASSUME queue \in Seq(Entry), TrySignal(shared', excl')
    PROVE  /\ queue' \in Seq(Entry)
           /\ asleep' \subseteq asleep
           /\ queue' # <<>> => \E c \in Conns : shared'[c] \cup excl'[c] # {}
<1>1. PICK n \in 0 .. Len(queue) :
        /\ n < Len(queue) => Blocked(queue[n + 1], shared', excl')
        /\ Signal(n)
  BY DEF TrySignal
<1>2. /\ queue' \in Seq(Entry)
      /\ asleep' \subseteq asleep
      /\ queue' # <<>> => n + 1 \in DOMAIN queue
  BY <1>1, SignalLeaves
<1>3. queue' # <<>> => \E c \in Conns : shared'[c] \cup excl'[c] # {}
  BY <1>1, <1>2 DEF Blocked
<1> QED
  BY <1>2, <1>3

(* A connection waits only for a lock that somebody holds.                 *)
LEMMA WaitPreserves ==
    ASSUME ShmInv, NEW c \in open, NEW l \in Locks, NEW flag \in {"shared", "excl"},
           Wait(c, l, flag), UNCHANGED <<shared, excl, begun, open>>,
           \E d \in Conns : l \in shared[d] \cup excl[d]
    PROVE  ShmInv'
<1> USE DEF ShmInv
<1>1. queue \in Seq(Entry) /\ asleep \subseteq open
  BY DEF ShmTypeOK
<1>2. queue' \in Seq(Entry) /\ asleep' \subseteq open
  <2>1. CASE Signal(1) /\ queue # <<>>
    <3>1. 1 \in 0 .. Len(queue)
      BY <1>1, <2>1
    <3> QED
      BY <1>1, <2>1, <3>1, SignalLeaves
  <2>2. CASE /\ \/ queue' = <<[conn |-> c, lock |-> l, flag |-> flag]>> \o queue
                \/ queue' = queue \o <<[conn |-> c, lock |-> l, flag |-> flag]>>
             /\ asleep' = asleep \cup {c}
    <3> DEFINE entry == [conn |-> c, lock |-> l, flag |-> flag]
    <3>1. entry \in Entry
      BY DEF Entry, Placed
    <3>2. queue' = <<entry>> \o queue \/ queue' = queue \o <<entry>>
      BY <2>2
    <3> HIDE DEF entry
    <3>3. <<entry>> \in Seq(Entry)
      BY <3>1
    <3>4. queue' \in Seq(Entry)
      BY <1>1, <3>2, <3>3, ConcatProperties
    <3> QED
      BY <1>1, <2>2, <3>4
  <2> QED
    BY <2>1, <2>2 DEF Wait, Deadlock
<1>3. ShmTypeOK'
  BY <1>2 DEF ShmTypeOK
<1>4. Placed'
  BY DEF Placed, PlacedAt
<1>5. PurgeEnds'
  <2>1. PICK d \in Conns : l \in shared[d] \cup excl[d]
    OBVIOUS
  <2>2. d \in open
    BY <2>1 DEF Placed, PlacedAt
  <2> QED
    BY <2>1, <2>2 DEF PurgeEnds
<1> QED
  BY <1>3, <1>4, <1>5

LEMMA ShmStepPreserves ==
    ASSUME ShmInv, [ShmNext]_shmVars
    PROVE  ShmInv'
<1> USE DEF ShmInv
<1>1. CASE UNCHANGED shmVars
  BY <1>1 DEF shmVars, ShmTypeOK, Placed, PlacedAt, PurgeEnds
<1>2. ASSUME NEW c \in Conns, Timeout(c)
      PROVE  ShmInv'
  BY <1>2 DEF Timeout, ShmTypeOK, Placed, PlacedAt, PurgeEnds
<1>3. ASSUME NEW c \in Conns, Close(c)
      PROVE  ShmInv'
  <2>1. /\ begun[c] = "idle" /\ c \notin asleep /\ open' = open \ {c}
        /\ UNCHANGED <<shared, excl, queue, asleep, begun>>
    BY <1>3 DEF Close, Awake
  <2>2. ShmTypeOK' /\ Placed'
    BY <2>1 DEF ShmTypeOK, Placed, PlacedAt
  <2>3. shared[c] \cup excl[c] = {}
    BY <2>1 DEF Placed, PlacedAt
  <2>4. PurgeEnds'
    BY <2>1, <2>3 DEF PurgeEnds
  <2> QED
    BY <2>2, <2>4
\* A lock that is taken at once: the queue stays, and so do its holders.
<1>4. ASSUME NEW c \in open, NEW l \in Locks, NEW next,
             \/ NotExclusive(l) /\ shared' = [shared EXCEPT ![c] = @ \cup {l}] /\ excl' = excl
             \/ Free(l) /\ excl' = [excl EXCEPT ![c] = @ \cup {l}] /\ shared' = shared,
             begun' = [begun EXCEPT ![c] = next],
             UNCHANGED <<queue, asleep, open>>,
             PlacedAt(c)'
      PROVE  ShmInv'
  <2>1. c \in Conns
    BY DEF Placed
  <2>2. ShmTypeOK'
    <3>1. shared' \in [Conns -> SUBSET Locks] /\ excl' \in [Conns -> SUBSET Locks]
      BY <1>4 DEF ShmTypeOK
    <3>2. \A d, e \in Conns : d # e => excl'[d] \cap (shared'[e] \cup excl'[e]) = {}
      BY <1>4 DEF ShmTypeOK, NotExclusive, Free
    <3> QED
      BY <1>4, <3>1, <3>2 DEF ShmTypeOK
  <2>3. Placed'
    <3>1. \A d \in Conns \ {c} : PlacedAt(d)'
      BY <1>4 DEF Placed, PlacedAt, ShmTypeOK
    <3>2. next \in {"idle", "read", "write", "raise", "ckpt", "copy"}
      BY <1>4, <2>1 DEF Placed, PlacedAt
    <3>3. begun' \in [Conns -> {"idle", "read", "write", "raise", "ckpt", "copy"}]
      BY <1>4, <3>2 DEF Placed
    <3> QED
      BY <1>4, <3>1, <3>3 DEF Placed
  <2>4. \A d \in Conns : shared[d] \cup excl[d] \subseteq shared'[d] \cup excl'[d]
    BY <1>4 DEF ShmTypeOK
  <2>5. PurgeEnds'
    BY <1>4, <2>4 DEF PurgeEnds, Placed
  <2> QED
    BY <2>2, <2>3, <2>5
\* An unlock: what is left of the queue waits for somebody.
<1>5. ASSUME NEW c \in open, NEW l \in Locks, NEW next, Unlock(c, l, next), PlacedAt(c)'
      PROVE  ShmInv'
  <2> USE DEF Unlock, Enter
  <2>1. c \in Conns
    BY DEF Placed
  <2>2. /\ queue' \in Seq(Entry)
        /\ asleep' \subseteq asleep
        /\ queue' # <<>> => \E d \in Conns : shared'[d] \cup excl'[d] # {}
    BY <1>5, TrySignalLeaves DEF ShmTypeOK
  <2>3. \A d \in Conns : shared'[d] \subseteq shared[d] /\ excl'[d] \subseteq excl[d]
    BY <1>5 DEF ShmTypeOK
  <2>4. ShmTypeOK'
    <3>1. shared' \in [Conns -> SUBSET Locks] /\ excl' \in [Conns -> SUBSET Locks]
      BY <1>5 DEF ShmTypeOK
    <3>2. \A d, e \in Conns : d # e => excl'[d] \cap (shared'[e] \cup excl'[e]) = {}
      BY <2>3 DEF ShmTypeOK
    <3> QED
      BY <1>5, <2>2, <3>1, <3>2 DEF ShmTypeOK
  <2>5. Placed'
    <3>1. \A d \in Conns \ {c} : PlacedAt(d)'
      BY <1>5 DEF Placed, PlacedAt, ShmTypeOK
    <3>2. next \in {"idle", "read", "write", "raise", "ckpt", "copy"}
      BY <1>5, <2>1 DEF Placed, PlacedAt
    <3>3. begun' \in [Conns -> {"idle", "read", "write", "raise", "ckpt", "copy"}]
      BY <1>5, <3>2 DEF Placed
    <3> QED
      BY <1>5, <3>1, <3>3 DEF Placed
  <2>6. PurgeEnds'
    BY <2>2, <2>5 DEF PurgeEnds, Placed, PlacedAt
  <2> QED
    BY <2>4, <2>5, <2>6
<1>6. ASSUME NEW c \in Conns
      PROVE  c \in open => PlacedAt(c)
  BY DEF Placed
<1>7. ASSUME NEW c \in Conns, NEW l \in ReadLocks, BeginRead(c, l)
      PROVE  ShmInv'
  <2>1. c \in open /\ begun[c] = "idle" /\ LockShared(c, l, "read") /\ l \in Locks
    BY <1>7 DEF BeginRead, Awake, Locks
  <2>2. CASE NotExclusive(l)
    <3>1. /\ shared' = [shared EXCEPT ![c] = @ \cup {l}] /\ excl' = excl
          /\ begun' = [begun EXCEPT ![c] = "read"]
          /\ UNCHANGED <<queue, asleep, open>>
      BY <2>1, <2>2 DEF LockShared, Enter
    <3>2. begun'[c] = "read" /\ shared'[c] = {l} /\ excl'[c] = {}
      BY <2>1, <3>1, <1>6 DEF PlacedAt, ShmTypeOK, Placed
    <3>3. PlacedAt(c)'
      BY <2>1, <3>1, <3>2 DEF PlacedAt
    <3> QED
      BY <1>4, <2>1, <2>2, <3>1, <3>3
  <2>3. CASE ~NotExclusive(l)
    BY <2>1, <2>3, WaitPreserves DEF LockShared, NotExclusive
  <2> QED
    BY <2>2, <2>3
<1>8. ASSUME NEW c \in Conns, BeginWrite(c)
      PROVE  ShmInv'
  <2>1. c \in open /\ begun[c] = "read" /\ LockExclusive(c, "WRITE", "write")
        /\ "WRITE" \in Locks
    BY <1>8 DEF BeginWrite, Awake, Locks
  <2>2. CASE TakeExclusive(c, "WRITE", "write")
    <3>1. /\ Free("WRITE") /\ excl' = [excl EXCEPT ![c] = @ \cup {"WRITE"}]
          /\ shared' = shared
          /\ begun' = [begun EXCEPT ![c] = "write"]
          /\ UNCHANGED <<queue, asleep, open>>
      BY <2>2 DEF TakeExclusive, Enter
    <3>2. begun'[c] = "write" /\ shared'[c] = shared[c] /\ excl'[c] = {"WRITE"}
      BY <2>1, <3>1, <1>6 DEF PlacedAt, ShmTypeOK, Placed
    <3>3. PlacedAt(c)'
      BY <1>6, <2>1, <3>1, <3>2 DEF PlacedAt
    <3> QED
      BY <1>4, <2>1, <3>1, <3>3
  <2>3. CASE /\ ~Free("WRITE") /\ Wait(c, "WRITE", "excl")
             /\ UNCHANGED <<shared, excl, begun, open>>
    BY <2>1, <2>3, WaitPreserves DEF Free
  <2> QED
    BY <2>1, <2>2, <2>3 DEF LockExclusive
<1>9. ASSUME NEW c \in Conns, EndWrite(c)
      PROVE  ShmInv'
  <2>1. c \in open /\ begun[c] = "write" /\ Unlock(c, "WRITE", "read") /\ "WRITE" \in Locks
    BY <1>9 DEF EndWrite, Awake, Locks
  <2>2. /\ begun'[c] = "read" /\ open' = open
        /\ shared'[c] = shared[c] \ {"WRITE"} /\ excl'[c] = {}
    BY <1>6, <2>1 DEF Unlock, Enter, PlacedAt, ShmTypeOK, Placed
  <2>3. PlacedAt(c)'
    BY <1>6, <2>1, <2>2, ShmLocksAssumption DEF PlacedAt
  <2> QED
    BY <1>5, <2>1, <2>3
<1>10. ASSUME NEW c \in Conns, EndRead(c)
       PROVE  ShmInv'
  <2>1. PICK l \in shared[c] : Unlock(c, l, "idle")
    BY <1>10 DEF EndRead
  <2>2. c \in open /\ begun[c] = "read" /\ l \in Locks
    BY <1>10, <2>1 DEF EndRead, Awake, ShmTypeOK
  <2>3. begun'[c] = "idle" /\ shared'[c] = {} /\ excl'[c] = {}
    BY <1>6, <2>1, <2>2 DEF Unlock, Enter, PlacedAt, ShmTypeOK, Placed
  <2>4. PlacedAt(c)'
    BY <2>3 DEF PlacedAt
  <2> QED
    BY <1>5, <2>1, <2>2, <2>4
<1>11. ASSUME NEW c \in Conns, NEW l \in Locks, NEW next,
              \/ begun[c] = "idle" /\ l = "CKPT" /\ next = "ckpt"
              \/ begun[c] = "idle" /\ l \in ReadLocks /\ next = "raise"
              \/ begun[c] = "ckpt" /\ l \in ReadLocks /\ next = "copy",
              c \in open, TakeExclusive(c, l, next)
       PROVE  ShmInv'
  <2>1. /\ Free(l) /\ excl' = [excl EXCEPT ![c] = @ \cup {l}] /\ shared' = shared
        /\ begun' = [begun EXCEPT ![c] = next]
        /\ UNCHANGED <<queue, asleep, open>>
    BY <1>11 DEF TakeExclusive, Enter
  <2>2. /\ begun'[c] = next /\ shared'[c] = {}
        /\ next = "raise" => excl'[c] = {l} /\ l \in ReadLocks
        /\ next = "ckpt" => excl'[c] = {"CKPT"}
        /\ next = "copy" => excl'[c] = {"CKPT", l} /\ l \in ReadLocks
    BY <1>6, <1>11, <2>1 DEF PlacedAt, ShmTypeOK, Placed
  <2>3. PlacedAt(c)'
    BY <1>11, <2>1, <2>2 DEF PlacedAt
  <2> QED
    BY <1>4, <1>11, <2>1, <2>3
<1>12. ASSUME NEW c \in Conns, CkptRelease(c)
       PROVE  ShmInv'
  <2>1. PICK l \in excl[c] \cap ReadLocks : Unlock(c, l, "ckpt")
    BY <1>12 DEF CkptRelease
  <2>2. c \in open /\ begun[c] = "copy" /\ l \in Locks
    BY <1>12, <2>1 DEF CkptRelease, Awake, Locks
  <2>3. PICK k \in ReadLocks : excl[c] = {"CKPT", k}
    BY <1>6, <2>2 DEF PlacedAt
  <2>4. excl[c] \ {l} = {"CKPT"}
    BY <2>1, <2>3, ShmLocksAssumption
  <2>5. begun'[c] = "ckpt" /\ open' = open /\ shared'[c] = {} /\ excl'[c] = {"CKPT"}
    BY <1>6, <2>1, <2>2, <2>4 DEF Unlock, Enter, PlacedAt, ShmTypeOK, Placed
  <2>6. PlacedAt(c)'
    BY <2>2, <2>5 DEF PlacedAt
  <2> QED
    BY <1>5, <2>1, <2>2, <2>6
<1>13. ASSUME NEW c \in Conns, CkptEnd(c)
       PROVE  ShmInv'
  <2>1. c \in open /\ begun[c] = "ckpt" /\ Unlock(c, "CKPT", "idle") /\ "CKPT" \in Locks
    BY <1>13 DEF CkptEnd, Awake, Locks
  <2>2. begun'[c] = "idle" /\ shared'[c] = {} /\ excl'[c] = {}
    BY <1>6, <2>1 DEF Unlock, Enter, PlacedAt, ShmTypeOK, Placed
  <2>3. PlacedAt(c)'
    BY <2>2 DEF PlacedAt
  <2> QED
    BY <1>5, <2>1, <2>3
<1>14. ASSUME NEW c \in Conns, CkptBegin(c)
       PROVE  ShmInv'
  BY <1>11, <1>14 DEF CkptBegin, Awake, Locks
<1>15. ASSUME NEW c \in Conns, NEW l \in ReadLocks, CkptRead(c, l)
       PROVE  ShmInv'
  BY <1>11, <1>15 DEF CkptRead, Awake, Locks
<1>16. ASSUME NEW c \in Conns, NEW l \in ReadLocks, Raise(c, l)
       PROVE  ShmInv'
  BY <1>11, <1>16 DEF Raise, Awake, Locks
<1>17. ASSUME NEW c \in Conns, Raised(c)
       PROVE  ShmInv'
  <2>1. PICK l \in excl[c] : Unlock(c, l, "idle")
    BY <1>17 DEF Raised
  <2>2. c \in open /\ begun[c] = "raise" /\ l \in Locks
    BY <1>17, <2>1 DEF Raised, Awake, ShmTypeOK
  <2>3. begun'[c] = "idle" /\ shared'[c] = {} /\ excl'[c] = {}
    BY <1>6, <2>1, <2>2 DEF Unlock, Enter, PlacedAt, ShmTypeOK, Placed
  <2>4. PlacedAt(c)'
    BY <2>3 DEF PlacedAt
  <2> QED
    BY <1>5, <2>1, <2>2, <2>4
<1> QED
  BY <1>1, <1>2, <1>3, <1>7, <1>8, <1>9, <1>10, <1>12, <1>13, <1>14, <1>15,
     <1>16, <1>17 DEF ShmNext

(* The inductive invariant: what each connection holds follows from what   *)
(* it has begun, and the queue is empty when nobody holds anything.        *)
THEOREM ShmInvariance == ShmSpec => []ShmInv
<1>1. ShmInit => ShmInv
  <2> SUFFICES ASSUME ShmInit PROVE ShmInv
    OBVIOUS
  <2>1. ShmTypeOK
    BY DEF ShmInit, ShmTypeOK
  <2>2. Placed /\ PurgeEnds
    BY DEF ShmInit, Placed, PlacedAt, PurgeEnds
  <2> QED
    BY <2>1, <2>2 DEF ShmInv
<1> QED
  BY <1>1, ShmStepPreserves, PTL DEF ShmSpec

(* No lock is held exclusively by one connection and at all by another:    *)
(* what unixShmLock asserts of any two siblings (os_unix.c:4631).          *)
THEOREM NoConflict == ShmSpec => []ShmTypeOK
BY ShmInvariance, PTL DEF ShmInv

(* unixShmPurge finds the queue empty (os_unix.c:4242), whatever entries   *)
(* have outlived the wait they were made for.                              *)
THEOREM PurgeEndsAlways == ShmSpec => []PurgeEnds
BY ShmInvariance, PTL DEF ShmInv

=============================================================================
