------------------------------ MODULE ShmLocks ------------------------------
(***************************************************************************)
(* The locks of the wal-index within one process (unixShmLock, os_unix.c)  *)
(* and the queue WCDB adds to them (os_wcdb.c): a connection that finds a  *)
(* lock taken sleeps on a condition of its own until somebody who unlocks  *)
(* sees that the first of the queue can go, or ten seconds have passed.    *)
(*                                                                         *)
(* Each call runs under the mutex of the shared memory and is one step.    *)
(* The calls are those of wal.c for transactions and checkpoints.  A       *)
(* transaction takes a read lock shared and WRITE exclusively, waiting for *)
(* either.  With bWait 0, and so without waiting, a reader may take a read *)
(* lock exclusively to change its mark, and a checkpoint takes CKPT and    *)
(* read locks.  The calls of recovery and the lock of all marks at once    *)
(* (walRestartLog) are not here.                                           *)
(***************************************************************************)
EXTENDS Naturals, Sequences

CONSTANTS Conns,      \* open files, one thread each
          Main,       \* those the main thread uses
          ReadLocks,  \* READ_LOCK(i)
          MaxQueue    \* bound of the checked instance

Locks == ReadLocks \cup {"WRITE", "CKPT"}

ASSUME ShmLocksAssumption == /\ Main \subseteq Conns
                             /\ MaxQueue \in Nat
                             /\ ReadLocks \cap {"WRITE", "CKPT"} = {}

VARIABLES shared, excl,  \* masks of each connection
          queue,         \* qWaitQueue
          asleep,        \* connections inside pthreadCondWait
          begun,         \* what each connection has begun
          open           \* connections that are not closed

shmVars == <<shared, excl, queue, asleep, begun, open>>

Entry == [conn : Conns, lock : Locks, flag : {"shared", "excl"}]

ShmInit ==
  /\ shared = [c \in Conns |-> {}] /\ excl = [c \in Conns |-> {}]
  /\ queue = <<>> /\ asleep = {}
  /\ begun = [c \in Conns |-> "idle"]
  /\ open = Conns

Enter(c, l) == begun' = [begun EXCEPT ![c] = l]

NotExclusive(l) == \A c \in Conns : l \notin excl[c]

Free(l) == \A c \in Conns : l \notin shared[c] \cup excl[c]
-----------------------------------------------------------------------------
(* WCDBOsShmSignal for the first n of the queue.  Each wakes the thread of *)
(* the entry if it sleeps: an entry that outlived its wait may wake a      *)
(* later wait of the same thread.                                          *)
Signal(n) == /\ queue' = SubSeq(queue, n + 1, Len(queue))
             /\ asleep' = asleep \ {queue[i].conn : i \in 1 .. n}

(* An entry of the queue that cannot go yet. *)
Blocked(e, sh, ex) == \E c \in Conns : \/ e.lock \in ex[c]
                                       \/ e.flag = "excl" /\ e.lock \in sh[c]

(* Slip: one unlock wakes one. *)
TrySignalOne(sh, ex) ==
  Signal(IF queue # <<>> /\ ~Blocked(queue[1], sh, ex) THEN 1 ELSE 0)

(* WCDBOsShmTrySignal: from the front, up to the first that cannot go. *)
TrySignal(sh, ex) == \E n \in 0 .. Len(queue) :
  /\ \A i \in 1 .. n : ~Blocked(queue[i], sh, ex)
  /\ n < Len(queue) => Blocked(queue[n + 1], sh, ex)
  /\ Signal(n)

Holds(c, l) == l \in shared[c] \cup excl[c]

(* WCDBOsShmWait: instead of waiting for each other, a connection that     *)
(* meets the first of the queue in a deadlock signals it and is busy.  Of  *)
(* a file that is closed and freed the masks read are whatever is there.   *)
Deadlock(c, l, flag, junk) ==
  /\ queue # <<>>
  /\ \/ Head(queue).flag = "excl" /\ Holds(c, Head(queue).lock)
     \/ /\ flag = "excl"
        /\ IF Head(queue).conn \in open THEN Holds(Head(queue).conn, l) ELSE junk

Wait(c, l, flag) ==
  LET entry == <<[conn |-> c, lock |-> l, flag |-> flag]>>
  IN \E junk \in BOOLEAN :
       IF Deadlock(c, l, flag, junk)
       THEN Signal(1)
       ELSE /\ Len(queue) < MaxQueue
            /\ queue' = IF c \in Main THEN entry \o queue ELSE queue \o entry
            /\ asleep' = asleep \cup {c}

(* pthreadCondWait gives up, or returns without reason: the entry stays.   *)
Timeout(c) == /\ c \in asleep
              /\ asleep' = asleep \ {c}
              /\ UNCHANGED <<shared, excl, queue, begun, open>>

(* unixShmLock: a lock is taken at once or not at all; a connection that   *)
(* waited is told BUSY all the same.                                       *)
LockShared(c, l, next) ==
  IF NotExclusive(l)
  THEN /\ shared' = [shared EXCEPT ![c] = @ \cup {l}]
       /\ Enter(c, next)
       /\ UNCHANGED <<excl, queue, asleep, open>>
  ELSE Wait(c, l, "shared") /\ UNCHANGED <<shared, excl, begun, open>>

TakeExclusive(c, l, next) ==
  /\ Free(l)
  /\ excl' = [excl EXCEPT ![c] = @ \cup {l}]
  /\ Enter(c, next)
  /\ UNCHANGED <<shared, queue, asleep, open>>

LockExclusive(c, l, next) ==
  \/ TakeExclusive(c, l, next)
  \/ ~Free(l) /\ Wait(c, l, "excl") /\ UNCHANGED <<shared, excl, begun, open>>

(* Slip: the queue is looked at before the masks are cleared. *)
UnlockSignalsFirst(c, l, next) ==
  /\ TrySignal(shared, excl)
  /\ shared' = [shared EXCEPT ![c] = @ \ {l}]
  /\ excl' = [excl EXCEPT ![c] = @ \ {l}]
  /\ Enter(c, next)
  /\ UNCHANGED open

Unlock(c, l, next) ==
  /\ shared' = [shared EXCEPT ![c] = @ \ {l}]
  /\ excl' = [excl EXCEPT ![c] = @ \ {l}]
  /\ TrySignal(shared', excl')
  /\ Enter(c, next)
  /\ UNCHANGED open
-----------------------------------------------------------------------------
Awake(c, l) == c \in open /\ c \notin asleep /\ begun[c] = l

(* Of BEGIN IMMEDIATE that was busy the read lock is given up and the      *)
(* whole tried again; of a reader that wanted to write, it is kept.        *)
BeginRead(c, l) == Awake(c, "idle") /\ LockShared(c, l, "read")
BeginWrite(c) == Awake(c, "read") /\ LockExclusive(c, "WRITE", "write")
EndWrite(c) == Awake(c, "write") /\ Unlock(c, "WRITE", "read")
EndRead(c) == Awake(c, "read") /\ \E l \in shared[c] : Unlock(c, l, "idle")

(* A reader that finds no mark to its liking changes one, then goes on.    *)
Raise(c, l) == Awake(c, "idle") /\ TakeExclusive(c, l, "raise")
Raised(c) == Awake(c, "raise") /\ \E l \in excl[c] : Unlock(c, l, "idle")

CkptBegin(c) == Awake(c, "idle") /\ TakeExclusive(c, "CKPT", "ckpt")
CkptRead(c, l) == Awake(c, "ckpt") /\ TakeExclusive(c, l, "copy")
CkptRelease(c) == Awake(c, "copy") /\ \E l \in excl[c] \cap ReadLocks : Unlock(c, l, "ckpt")
CkptEnd(c) == Awake(c, "ckpt") /\ Unlock(c, "CKPT", "idle")

(* unixShmUnmap of a connection between transactions. *)
Close(c) == /\ Awake(c, "idle")
            /\ open' = open \ {c}
            /\ UNCHANGED <<shared, excl, queue, asleep, begun>>

ShmNext == \E c \in Conns :
  \/ Timeout(c) \/ BeginWrite(c) \/ EndWrite(c) \/ EndRead(c) \/ Raised(c)
  \/ CkptBegin(c) \/ CkptRelease(c) \/ CkptEnd(c) \/ Close(c)
  \/ \E l \in ReadLocks : BeginRead(c, l) \/ Raise(c, l) \/ CkptRead(c, l)

(* A transaction and a checkpoint end; nobody relies on the ten seconds.   *)
ShmFairness == \A c \in Conns :
  /\ WF_shmVars(EndWrite(c)) /\ WF_shmVars(EndRead(c)) /\ WF_shmVars(Raised(c))
  /\ WF_shmVars(CkptRelease(c)) /\ WF_shmVars(CkptEnd(c))

ShmSpec == ShmInit /\ [][ShmNext]_shmVars /\ ShmFairness
-----------------------------------------------------------------------------
(* Types, and what unixShmLock asserts of any two siblings (os_unix.c:4631 *)
(* "(pX->exclMask & (p->exclMask|p->sharedMask))==0").                     *)
ShmTypeOK ==
  /\ queue \in Seq(Entry) /\ asleep \subseteq open
  /\ shared \in [Conns -> SUBSET Locks] /\ excl \in [Conns -> SUBSET Locks]
  /\ \A c, d \in Conns : c # d => excl[c] \cap (shared[d] \cup excl[d]) = {}

(* When the last connection is closed the queue is empty: unixShmPurge     *)
(* frees it with a loop that never takes an entry out (os_unix.c:4242) and *)
(* would spin forever under the mutex of the whole VFS.  Entries that      *)
(* outlive their wait must be gone by then.                                *)
PurgeEnds == queue # <<>> => \E c \in open : shared[c] \cup excl[c] # {}

(* Whoever sleeps is woken by those who hold the locks and not only by the *)
(* timeout: no signal is lost behind another one's entry for ever          *)
(* (os_wcdb.c:135-176, 178-212).                                           *)
SleepEnds == \A c \in Conns : c \in asleep ~> c \notin asleep

(* A file that an entry names is not freed: WCDBOsShmWait reads the masks  *)
(* of the first one (os_wcdb.c:193).                                       *)
EntriesOpen == \A i \in DOMAIN queue : queue[i].conn \in open

(* Nobody sleeps for a lock that is free. *)
WokenWhenFree == \A i \in DOMAIN queue :
  queue[i].conn \in asleep => Blocked(queue[i], shared, excl)
=============================================================================
