-------------------------------- MODULE Wal --------------------------------
(***************************************************************************)
(* The write-ahead log of the SQLite 3.15.2 that WCDB ships (wal.c), as    *)
(* its connections use it: handles of the pool that read and write, and    *)
(* the checkpoint thread, which runs passive checkpoints beside them.      *)
(*                                                                         *)
(* The wal-index is memory the connections share.  A lock that is taken    *)
(* and given up around one assignment (the exclusive READ_LOCK(i) around a *)
(* read mark) is one step; a connection that finds it taken gets BUSY and  *)
(* retries, which is a stutter.                                            *)
(***************************************************************************)
EXTENDS Integers, Sequences, FiniteSets, FiniteSetsExt

CONSTANTS Readers, Writers, Checkpointers, \* what the connections do
          Nobody,        \* no holder of a lock
          NoImage,       \* an empty page cache
          Pages,         \* page numbers
          NReader,       \* read marks besides mark 0 (WAL_NREADER - 1)
          SyncModes,     \* TRUE: synchronous=FULL, FALSE: NORMAL
          HeaderFresh,   \* no restart between a checkpoint's two reads
          MaxTxns, MaxFrames, MaxCrashes \* bounds of the checked instance

Conns == Readers \cup Writers \cup Checkpointers
Slots == 1 .. NReader
NotUsed == MaxFrames + 1      \* READMARK_NOT_USED
NoLock == -1
NoHdr == [mx |-> 0, gen |-> -1]  \* isInit = 0
Images == [Pages -> 0 .. MaxTxns]

ASSUME WalAssumption == /\ Pages \subseteq Nat /\ Pages # {} /\ IsFiniteSet(Pages)
                        /\ NReader \in Nat \ {0}
                        /\ Nobody \notin Conns /\ NoImage \notin Images
                        /\ SyncModes \subseteq BOOLEAN /\ HeaderFresh \in BOOLEAN
                        /\ MaxTxns \in Nat /\ MaxFrames \in Nat /\ MaxCrashes \in Nat

VARIABLES
  log,        \* frames of the WAL file: [page, val, commit]
  synced,     \* length of the part of it that is on disk
  db,         \* database file
  dirty,      \* what a loss of power may leave of each page
  shm,        \* wal-index header: mxFrame and salt
  nBackfill, mark,     \* WalCkptInfo
  writer, ckpt, zero,  \* holders of WRITE, CKPT and exclusive READ_LOCK(0)
  pc, hdr, rd, minFrame, pick, \* each connection: step, Wal.hdr, readLock...
  cache,      \* page cache of the pager
  ck,         \* locals of walCheckpoint
  txn, crashes,        \* counters
  history, durable     \* committed images, and how many must survive

files == <<log, synced, db, dirty>>
index == <<shm, nBackfill, mark>>
locks == <<writer, ckpt, zero>>
local == <<pc, hdr, rd, minFrame, pick, cache, ck>>
ghost == <<txn, crashes, history, durable>>
vars == <<log, synced, db, dirty, shm, nBackfill, mark, writer, ckpt, zero,
          pc, hdr, rd, minFrame, pick, cache, ck, txn, crashes, history, durable>>

(* Last frame of the page among lo .. hi, 0 without one. *)
FrameOf(p, lo, hi) ==
  Max({0} \cup {i \in lo .. hi : i <= Len(log) /\ log[i].page = p})

(* The checkpoint's iterator: of each page the last frame up to mx. *)
LastFrames(mx) == [p \in Pages |-> FrameOf(p, 1, mx)]

(* Content when frames lo .. hi of the log lie over the database file. *)
Over(lo, hi) == [p \in Pages |-> IF FrameOf(p, lo, hi) = 0 THEN db[p]
                                 ELSE log[FrameOf(p, lo, hi)].val]

LastCommit == Max({0} \cup {i \in DOMAIN log : log[i].commit})

(* What a connection in a transaction reads (sqlite3WalFindFrame): a       *)
(* writer's own frames lie beyond the header and are left out here.        *)
View(c) == LET top == IF writer = c THEN shm.mx ELSE hdr[c].mx
           IN IF rd[c] = 0 THEN db ELSE Over(minFrame[c], top)

NoPick == [slot |-> 0, mark |-> 0]

(* Locals of a checkpoint that does not run. *)
NoCkpt == [safe |-> 0, slot |-> 0, changed |-> FALSE,
           frame |-> [p \in Pages |-> 0], todo |-> {}]

Free(i) == \A c \in Conns : rd[c] # i

Init ==
  /\ log = <<>> /\ synced = 0
  /\ db = [p \in Pages |-> 0] /\ dirty = [p \in Pages |-> {0}]
  /\ shm = NoHdr /\ nBackfill = 0 /\ mark = [i \in Slots |-> NotUsed]
  /\ writer = Nobody /\ ckpt = Nobody /\ zero = FALSE
  /\ pc = [c \in Conns |-> "idle"]
  /\ hdr = [c \in Conns |-> NoHdr]
  /\ rd = [c \in Conns |-> NoLock]
  /\ minFrame = [c \in Conns |-> 1]
  /\ pick = [c \in Conns |-> NoPick]
  /\ cache = [c \in Conns |-> NoImage]
  /\ ck = NoCkpt
  /\ txn = 0 /\ crashes = 0
  /\ history = <<[p \in Pages |-> 0]>> /\ durable = 1

Goto(c, l) == pc' = [pc EXCEPT ![c] = l]
-----------------------------------------------------------------------------
(* walIndexReadHdr: take the header of the wal-index, or rebuild the index *)
(* from the log when there is none; a header that differs empties the page *)
(* cache.  Recovery locks everything the caller does not hold.             *)
ReadHdr(c) ==
  /\ \/ /\ shm # NoHdr
        /\ UNCHANGED index
     \/ /\ shm = NoHdr
        /\ writer = Nobody /\ ckpt \in {Nobody, c} /\ \A i \in {0} \cup Slots : Free(i)
        /\ shm' = [mx |-> LastCommit, gen |-> 0]
        /\ nBackfill' = 0
        /\ mark' = [i \in Slots |-> IF i = 1 /\ LastCommit > 0 THEN LastCommit ELSE NotUsed]
  /\ hdr' = [hdr EXCEPT ![c] = shm']

(* sqlite3WalBeginReadTransaction and the first part of walTryBeginRead. *)
BeginRead(c) ==
  /\ c \in Readers \cup Writers /\ pc[c] = "idle"
  /\ ReadHdr(c)
  /\ cache' = [cache EXCEPT ![c] = IF hdr[c] = shm' THEN @ ELSE NoImage]
  /\ Goto(c, "decide")
  /\ UNCHANGED <<files, locks, rd, minFrame, pick, ck, ghost>>

(* A log that is copied to the database is ignored: READ_LOCK(0). *)
Decide(c) ==
  /\ pc[c] = "decide"
  /\ Goto(c, IF nBackfill = hdr[c].mx THEN "lock0" ELSE "pick")
  /\ UNCHANGED <<files, index, locks, hdr, rd, minFrame, pick, cache, ck, ghost>>

Lock0(c) ==
  /\ pc[c] = "lock0"
  /\ IF zero THEN Goto(c, "pick") /\ UNCHANGED rd
     ELSE Goto(c, "check0") /\ rd' = [rd EXCEPT ![c] = 0]
  /\ UNCHANGED <<files, index, locks, hdr, minFrame, pick, cache, ck, ghost>>

Check0(c) ==
  /\ pc[c] = "check0"
  /\ IF hdr[c] = shm THEN Goto(c, "read") /\ UNCHANGED rd
     ELSE Goto(c, "idle") /\ rd' = [rd EXCEPT ![c] = NoLock]
  /\ cache' = [cache EXCEPT ![c] = IF hdr[c] = shm /\ @ = NoImage THEN View(c) ELSE @]
  /\ UNCHANGED <<files, index, locks, hdr, minFrame, pick, ck, ghost>>

(* The read mark nearest to, and not above, the header. *)
Pick(c) ==
  /\ pc[c] = "pick"
  /\ LET usable == {i \in Slots : mark[i] <= hdr[c].mx}
         best == Max({0} \cup {mark[i] : i \in usable})
         slot == Max({0} \cup {i \in usable : mark[i] = best})
     IN /\ pick' = [pick EXCEPT ![c] = [slot |-> slot, mark |-> best]]
        /\ Goto(c, IF best < hdr[c].mx \/ slot = 0 THEN "raise" ELSE "lock")
  /\ UNCHANGED <<files, index, locks, hdr, rd, minFrame, cache, ck, ghost>>

(* Move a mark nobody reads at up to the header; without one, take the     *)
(* mark found before, or retry.                                            *)
Raise(c) ==
  /\ pc[c] = "raise"
  /\ \/ \E i \in Slots :
          /\ Free(i)
          /\ mark' = [mark EXCEPT ![i] = hdr[c].mx]
          /\ pick' = [pick EXCEPT ![c] = [slot |-> i, mark |-> hdr[c].mx]]
          /\ Goto(c, "lock")
     \/ /\ \A i \in Slots : ~Free(i)
        /\ Goto(c, IF pick[c].slot # 0 THEN "lock" ELSE IF writer = c THEN "pick" ELSE "idle")
        /\ UNCHANGED <<mark, pick>>
  /\ UNCHANGED <<files, shm, nBackfill, locks, hdr, rd, minFrame, cache, ck, ghost>>

(* Only after the lock is held is nBackfill read into minFrame. *)
LockMark(c) ==
  /\ pc[c] = "lock"
  /\ rd' = [rd EXCEPT ![c] = pick[c].slot]
  /\ minFrame' = [minFrame EXCEPT ![c] = nBackfill + 1]
  /\ Goto(c, "check")
  /\ UNCHANGED <<files, index, locks, hdr, pick, cache, ck, ghost>>

(* Without a read lock minFrame has no meaning. *)
GiveUp(c) == /\ rd' = [rd EXCEPT ![c] = NoLock]
             /\ minFrame' = [minFrame EXCEPT ![c] = 1]

(* Neither the mark nor the header may have changed meanwhile. *)
Unchanged(c) == mark[pick[c].slot] = pick[c].mark /\ hdr[c] = shm

Check(c) ==
  /\ pc[c] = "check"
  /\ IF Unchanged(c)
     THEN /\ Goto(c, IF writer = c THEN "write" ELSE "read")
          /\ cache' = [cache EXCEPT ![c] = IF @ = NoImage THEN View(c) ELSE @]
          /\ UNCHANGED <<rd, minFrame>>
     ELSE /\ GiveUp(c)
          /\ Goto(c, IF writer = c THEN "pick" ELSE "idle")
          /\ UNCHANGED cache
  /\ pick' = [pick EXCEPT ![c] = NoPick]
  /\ UNCHANGED <<files, index, locks, hdr, ck, ghost>>

(* sqlite3WalEndReadTransaction *)
EndRead(c) ==
  /\ pc[c] = "read"
  /\ GiveUp(c)
  /\ Goto(c, "idle")
  /\ UNCHANGED <<files, index, locks, hdr, pick, cache, ck, ghost>>
-----------------------------------------------------------------------------
(* sqlite3WalBeginWriteTransaction; a snapshot that is no longer the       *)
(* newest gets SQLITE_BUSY_SNAPSHOT and changes nothing.                   *)
BeginWrite(c) ==
  /\ c \in Writers /\ pc[c] = "read"
  /\ writer = Nobody /\ hdr[c] = shm
  /\ txn < MaxTxns
  /\ txn' = txn + 1
  /\ writer' = c
  /\ Goto(c, "write")
  /\ UNCHANGED <<files, index, ckpt, zero, hdr, rd, minFrame, pick, cache, ck,
                 crashes, history, durable>>

(* walRestartHdr: frame 1 is next, under a new salt. *)
RestartHdr == /\ shm' = [mx |-> 0, gen |-> shm.gen + 1]
              /\ nBackfill' = 0
              /\ mark' = [i \in Slots |-> IF i = 1 THEN 0 ELSE NotUsed]

(* Slip: the log starts again under those who read it. *)
RestartUnderReaders(c) ==
  /\ pc[c] = "write" /\ rd[c] = 0
  /\ HeaderFresh => \A k \in Checkpointers : pc[k] # "ckstart"
  /\ IF nBackfill > 0
     THEN RestartHdr
     ELSE UNCHANGED index
  /\ hdr' = [hdr EXCEPT ![c] = shm']
  /\ rd' = [rd EXCEPT ![c] = NoLock]
  /\ Goto(c, "pick")
  /\ UNCHANGED <<files, locks, minFrame, pick, cache, ck, ghost>>

(* walRestartLog: a writer that ignores the log starts it again from frame *)
(* 1 when nobody reads it, and takes a read mark for what it will write.   *)
Restart(c) ==
  /\ pc[c] = "write" /\ rd[c] = 0
  /\ HeaderFresh => \A k \in Checkpointers : pc[k] # "ckstart"
  /\ IF nBackfill > 0 /\ \A i \in Slots : Free(i)
     THEN RestartHdr
     ELSE UNCHANGED index
  /\ hdr' = [hdr EXCEPT ![c] = shm']
  /\ rd' = [rd EXCEPT ![c] = NoLock]
  /\ Goto(c, "pick")
  /\ UNCHANGED <<files, locks, minFrame, pick, cache, ck, ghost>>

(* One frame of sqlite3WalFrames.  The first frame of a log follows a new, *)
(* synced, log header, which ends the old frames.  The code overwrites the *)
(* frame of a page the transaction has written before, a stutter here; the *)
(* second frame it gives the last page of a commit is left out.            *)
PutFrame(c, p, commit) ==
  LET mx == hdr[c].mx
  IN /\ pc[c] = "write" /\ rd[c] > 0
     /\ mx < MaxFrames
     /\ FrameOf(p, shm.mx + 1, mx) = 0
     /\ log' = Append(SubSeq(log, 1, mx), [page |-> p, val |-> txn, commit |-> commit])
     /\ synced' = Min({synced, mx})
     /\ hdr' = [hdr EXCEPT ![c].mx = mx + 1]

Spill(c, p) ==
  /\ PutFrame(c, p, FALSE)
  /\ UNCHANGED <<db, dirty, index, locks, pc, rd, minFrame, pick, cache, ck, ghost>>

CommitFrame(c, p) ==
  /\ PutFrame(c, p, TRUE)
  /\ Goto(c, "publish")
  /\ UNCHANGED <<db, dirty, index, locks, rd, minFrame, pick, cache, ck, ghost>>

(* What the frames of the log say once the commit frame counts. *)
Written(c) == Over(minFrame[c], hdr[c].mx)

(* The commit is synced if asked for, and then shown to the others through *)
(* the header; the write lock is given up.                                 *)
Publish(c) ==
  /\ pc[c] = "publish"
  /\ shm' = hdr[c]
  /\ writer' = Nobody
  /\ cache' = [cache EXCEPT ![c] = Written(c)]
  /\ history' = Append(history, Written(c))
  /\ \E full \in SyncModes :
       /\ synced' = IF full THEN Len(log) ELSE synced
       /\ durable' = IF full THEN Len(history') ELSE durable
  /\ Goto(c, "read")
  /\ UNCHANGED <<log, db, dirty, nBackfill, mark, ckpt, zero, hdr, rd,
                 minFrame, pick, ck, txn, crashes>>

(* sqlite3WalUndo and sqlite3WalEndWriteTransaction *)
Rollback(c) ==
  /\ pc[c] = "write"
  /\ hdr' = [hdr EXCEPT ![c] = shm]
  /\ writer' = Nobody
  /\ Goto(c, "read")
  /\ UNCHANGED <<files, index, ckpt, zero, rd, minFrame, pick, cache, ck, ghost>>
-----------------------------------------------------------------------------
(* sqlite3WalCheckpoint in passive mode, and walCheckpoint.  The page      *)
(* cache is not emptied when the header read here is a new one: that       *)
(* header is forgotten at the end instead (CkptEnd).                       *)
CkptBegin(c) ==
  /\ c \in Checkpointers /\ pc[c] = "idle" /\ ckpt = Nobody
  /\ ckpt' = c
  /\ ReadHdr(c)
  /\ ck' = [NoCkpt EXCEPT !.changed = hdr[c] # shm']
  /\ Goto(c, "ckstart")
  /\ UNCHANGED <<files, writer, zero, rd, minFrame, pick, cache, ghost>>

(* Slip: the header read by the checkpoint is kept, beside an old cache. *)
CkptEndKeepsHeader(c) ==
  /\ ck' = NoCkpt /\ ckpt' = Nobody /\ zero' = FALSE
  /\ Goto(c, "idle")
  /\ UNCHANGED hdr

CkptEnd(c) ==
  /\ hdr' = IF ck.changed THEN [hdr EXCEPT ![c] = NoHdr] ELSE hdr
  /\ ck' = NoCkpt
  /\ ckpt' = Nobody
  /\ zero' = FALSE
  /\ Goto(c, "idle")

(* The iterator holds the last frame of each page up to the header read    *)
(* before, from the index as it is now.                                    *)
CkptStart(c) ==
  /\ pc[c] = "ckstart"
  /\ IF nBackfill < hdr[c].mx
     THEN /\ ck' = [ck EXCEPT !.frame = LastFrames(hdr[c].mx),
                              !.safe = hdr[c].mx, !.slot = 1]
          /\ Goto(c, "ckscan")
          /\ UNCHANGED <<ckpt, zero, hdr>>
     ELSE CkptEnd(c)
  /\ UNCHANGED <<files, index, writer, rd, minFrame, pick, cache, ghost>>

(* A read mark below the frames to copy is moved if nobody reads there and *)
(* else lowers what may be copied.                                         *)
CkptScan(c) ==
  /\ pc[c] = "ckscan" /\ ck.slot \in Slots
  /\ LET i == ck.slot
         blocked == mark[i] < ck.safe /\ ~Free(i)
     IN /\ mark' = IF mark[i] < ck.safe /\ Free(i)
                   THEN [mark EXCEPT ![i] = IF i = 1 THEN ck.safe ELSE NotUsed]
                   ELSE mark
        /\ ck' = [ck EXCEPT !.safe = IF blocked THEN mark[i] ELSE @, !.slot = i + 1]
  /\ UNCHANGED <<files, shm, nBackfill, locks, pc, hdr, rd, minFrame, pick, cache, ghost>>

(* Slip: pages are copied out of a log that is not synced. *)
CkptSyncNothing(c) ==
  /\ pc[c] = "ckscan" /\ ck.slot \notin Slots /\ nBackfill < ck.safe /\ Free(0)
  /\ zero' = TRUE
  /\ ck' = [ck EXCEPT !.todo = {p \in Pages : /\ ck.frame[p] > nBackfill
                                             /\ ck.frame[p] <= ck.safe}]
  /\ Goto(c, "ckcopy")
  /\ UNCHANGED <<files, index, writer, ckpt, hdr, rd, minFrame, pick, cache, ghost>>

(* READ_LOCK(0) keeps out the connections that ignore the log; the log is  *)
(* synced before a page of it is copied.                                   *)
CkptSync(c) ==
  /\ pc[c] = "ckscan" /\ ck.slot \notin Slots
  /\ IF nBackfill < ck.safe /\ Free(0)
     THEN /\ zero' = TRUE
          /\ synced' = Len(log)
          /\ durable' = Len(history)
          /\ ck' = [ck EXCEPT !.todo = {p \in Pages : /\ ck.frame[p] > nBackfill
                                                     /\ ck.frame[p] <= ck.safe}]
          /\ Goto(c, "ckcopy")
          /\ UNCHANGED <<ckpt, hdr>>
     ELSE CkptEnd(c) /\ UNCHANGED <<synced, durable>>
  /\ UNCHANGED <<log, db, dirty, index, writer, rd, minFrame, pick, cache,
                 txn, crashes, history>>

CkptCopy(c) ==
  /\ pc[c] = "ckcopy" /\ ck.todo # {}
  /\ LET p == Min(ck.todo)
         val == log[ck.frame[p]].val
     IN /\ db' = [db EXCEPT ![p] = val]
        /\ dirty' = [dirty EXCEPT ![p] = @ \cup {val}]
        /\ ck' = [ck EXCEPT !.todo = @ \ {p}]
  /\ UNCHANGED <<log, synced, index, locks, pc, hdr, rd, minFrame, pick, cache, ghost>>

(* The database file is synced only when the whole log is copied. *)
CkptFinish(c) ==
  /\ pc[c] = "ckcopy" /\ ck.todo = {}
  /\ dirty' = IF ck.safe = shm.mx THEN [p \in Pages |-> {db[p]}] ELSE dirty
  /\ nBackfill' = ck.safe
  /\ CkptEnd(c)
  /\ UNCHANGED <<log, synced, db, shm, mark, writer, rd, minFrame, pick, cache, ghost>>
-----------------------------------------------------------------------------
(* The process is killed, or the device loses power: of the log a prefix   *)
(* survives that holds what was synced, of each page any content since the *)
(* last sync.  The index is gone with the connections.                     *)
Committed == IF shm = NoHdr THEN LastCommit ELSE shm.mx

CommitsIn(lo, hi) == Cardinality({i \in lo .. hi : log[i].commit})

Crash(power) ==
  /\ crashes < MaxCrashes
  /\ crashes' = crashes + 1
  /\ \E n \in (IF power THEN synced ELSE Len(log)) .. Len(log) :
       /\ log' = SubSeq(log, 1, n)
       /\ synced' = IF power THEN n ELSE synced
       /\ history' =
            IF \E c \in Writers : pc[c] = "publish" /\ n = Len(log)
            THEN Append(history, Written(writer))
            ELSE SubSeq(history, 1, Len(history) - CommitsIn(n + 1, Committed))
  /\ IF power THEN /\ db' \in {d \in Images : \A p \in Pages : d[p] \in dirty[p]}
                   /\ dirty' = [p \in Pages |-> {db'[p]}]
              ELSE UNCHANGED <<db, dirty>>
  /\ shm' = NoHdr /\ nBackfill' = 0 /\ mark' = [i \in Slots |-> NotUsed]
  /\ writer' = Nobody /\ ckpt' = Nobody /\ zero' = FALSE
  /\ pc' = [c \in Conns |-> "idle"]
  /\ hdr' = [c \in Conns |-> NoHdr]
  /\ rd' = [c \in Conns |-> NoLock]
  /\ minFrame' = [c \in Conns |-> 1]
  /\ pick' = [c \in Conns |-> NoPick]
  /\ cache' = [c \in Conns |-> NoImage]
  /\ ck' = NoCkpt
  /\ UNCHANGED <<txn, durable>>

Read(c) == BeginRead(c) \/ Decide(c) \/ Lock0(c) \/ Check0(c) \/ Pick(c)
           \/ Raise(c) \/ LockMark(c) \/ Check(c) \/ EndRead(c)

Write(c) == \/ BeginWrite(c) \/ Restart(c) \/ Publish(c) \/ Rollback(c)
            \/ \E p \in Pages : Spill(c, p) \/ CommitFrame(c, p)

Checkpoint(c) == CkptBegin(c) \/ CkptStart(c) \/ CkptScan(c) \/ CkptSync(c)
                 \/ CkptCopy(c) \/ CkptFinish(c)

Next == \/ \E c \in Conns : Read(c) \/ Write(c) \/ Checkpoint(c)
        \/ \E power \in BOOLEAN : Crash(power)

Spec == Init /\ [][Next]_vars
-----------------------------------------------------------------------------
InTransaction(c) == pc[c] \in {"read", "write", "publish"}

(* Types, and the locks as wal.c asserts them: the writer holds a read     *)
(* lock while it writes frames, one connection copies pages and it holds   *)
(* the checkpoint lock and, alone, READ_LOCK(0) (wal.c:283-286, 438-471).  *)
TypeOK ==
  /\ \A i \in DOMAIN log : log[i] \in [page : Pages, val : 1 .. MaxTxns, commit : BOOLEAN]
  /\ synced \in 0 .. Len(log) /\ db \in Images
  /\ \A p \in Pages : db[p] \in dirty[p]
  /\ shm.mx \in 0 .. MaxFrames /\ mark \in [Slots -> 0 .. NotUsed]
  /\ writer \in Writers \cup {Nobody} /\ ckpt \in Checkpointers \cup {Nobody}
  /\ rd \in [Conns -> {NoLock, 0} \cup Slots]
  /\ \A c \in Conns : pc[c] \in {"write", "publish"} => writer = c /\ rd[c] # NoLock
  /\ zero => Free(0) /\ ckpt # Nobody
  /\ durable \in 1 .. Len(history)

(* What a connection answers out of its page cache is what a fresh read    *)
(* through the log and the file gives, in every transaction and whatever   *)
(* other connections commit, checkpoint or restart (wal.c:2072-2131,       *)
(* 3307-3315: when the cache is emptied and the header forgotten).         *)
CacheFresh == TypeOK /\ \A c \in Conns : InTransaction(c) => cache[c] = View(c)

(* A crash at any moment, with any part of what was not synced lost, gives *)
(* back a committed content no older than the last one made durable, or    *)
(* the commit that was being published (wal.c:1805-1862, 3100-3195: what   *)
(* is synced before what).                                                 *)
After(n, d) ==
  LET last == Max({0} \cup {i \in 1 .. n : log[i].commit})
      frames(p) == {i \in 1 .. last : log[i].page = p}
  IN [p \in Pages |-> IF frames(p) = {} THEN d[p] ELSE log[Max(frames(p))].val]

Recoverable ==
  \A n \in synced .. Len(log), d \in Images :
    (\A p \in Pages : d[p] \in dirty[p]) =>
      \/ \E i \in durable .. Len(history) : After(n, d) = history[i]
      \/ \E c \in Writers : pc[c] = "publish" /\ After(n, d) = Written(c)

(* The frames copied to the database file are frames of the log (wal.c:329 *)
(* "The nBackfill number is never greater than WalIndexHdr.mxFrame.").     *)
BackfillWithinLog == shm # NoHdr => nBackfill <= shm.mx

(* The connections see a sequence of versions, each transaction one of     *)
(* them, and a crash loses none that was durable.                          *)
Seen(c) == IF InTransaction(c) THEN View(c)
           ELSE IF writer = c THEN Over(1, shm.mx) ELSE NoImage

Abstract == INSTANCE AbstractSnapshots WITH
  versions <- history, stable <- durable, view <- [c \in Conns |-> Seen(c)],
  pending <- IF \E c \in Writers : pc[c] = "publish" THEN Written(writer) ELSE NoImage

ImplementsAbstract == Abstract!Spec
=============================================================================
