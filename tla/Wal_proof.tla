------------------------------ MODULE Wal_proof ------------------------------
(***************************************************************************)
(* Wal for any connections, pages, frames and read marks: what a           *)
(* connection answers out of its page cache is what a fresh read through   *)
(* the log and the database file gives, a crash gives back a version that  *)
(* was made durable or a newer one, and the log keeps the promise of       *)
(* AbstractSnapshots.                                                      *)
(***************************************************************************)
EXTENDS Wal, FiniteSetTheorems, WellFoundedInduction, SequenceTheorems, TLAPS

PCs == {"idle", "decide", "lock0", "check0", "pick", "raise", "lock", "check",
        "read", "write", "publish", "ckstart", "ckscan", "ckcopy"}

Frames == [page : Pages, val : 1 .. MaxTxns, commit : BOOLEAN]
Headers == [mx : 0 .. MaxFrames, gen : Int]
Picks == [slot : 0 .. NReader, mark : 0 .. NotUsed]
Ckpts == [safe : 0 .. MaxFrames, slot : 0 .. NReader + 1, changed : BOOLEAN,
          frame : [Pages -> 0 .. MaxFrames], todo : SUBSET Pages]

(* FrameOf, Over and CommitsIn of any log and any database file.           *)
FrameIn(list, p, lo, hi) ==
  Max({0} \cup {i \in lo .. hi : i <= Len(list) /\ list[i].page = p})

OverIn(list, d, lo, hi) ==
  [p \in Pages |-> IF FrameIn(list, p, lo, hi) = 0 THEN d[p]
                   ELSE list[FrameIn(list, p, lo, hi)].val]

LastIn(list) == Max({0} \cup {i \in DOMAIN list : list[i].commit})

Commits(list, lo, hi) == Cardinality({i \in lo .. hi : list[i].commit})

FileTypes ==
  /\ log \in Seq(Frames) /\ Len(log) <= MaxFrames
  /\ synced \in 0 .. Len(log)
  /\ db \in Images /\ dirty \in [Pages -> SUBSET (0 .. MaxTxns)]
  /\ \A p \in Pages : db[p] \in dirty[p]

IndexTypes ==
  /\ shm \in Headers /\ nBackfill \in 0 .. MaxFrames /\ mark \in [Slots -> 0 .. NotUsed]
  /\ writer \in Writers \cup {Nobody} /\ ckpt \in Checkpointers \cup {Nobody}
  /\ zero \in BOOLEAN

LocalTypes ==
  /\ pc \in [Conns -> PCs]
  /\ hdr \in [Conns -> Headers]
  /\ rd \in [Conns -> {NoLock, 0} \cup Slots]
  /\ minFrame \in [Conns -> 1 .. MaxFrames + 1]
  /\ pick \in [Conns -> Picks]
  /\ cache \in [Conns -> Images \cup {NoImage}]

GhostTypes ==
  /\ txn \in 0 .. MaxTxns /\ crashes \in Nat
  /\ history \in Seq(Images) /\ durable \in 1 .. Len(history)

Writing == {"write", "publish"}
WriterAt == Writing \cup {"pick", "raise", "lock", "check"}
Checkpointing == {"ckstart", "ckscan", "ckcopy"}
Unlocked == {"idle", "decide", "lock0", "pick", "raise", "lock"} \cup Checkpointing

(* Which locks a connection holds at which step.                           *)
LocksOf(c) ==
  /\ pc[c] \in Writing => writer = c
  /\ writer = c => pc[c] \in WriterAt /\ txn > 0
  /\ pc[c] \in Checkpointing <=> ckpt = c
  /\ zero => rd[c] # 0
  /\ pc[c] \in Unlocked => rd[c] = NoLock
  /\ pc[c] = "check0" => rd[c] = 0
  /\ pc[c] \in {"check", "publish"} => rd[c] \in Slots
  /\ pc[c] \in {"read", "write"} => rd[c] # NoLock

(* The generation and the length of the log a connection has seen never    *)
(* run ahead of the wal-index, but for the frames a writer puts there.     *)
Older(h) ==
  \/ h.gen < shm.gen
  \/ h.gen = shm.gen /\ h.mx <= shm.mx

HeaderOf(c) ==
  /\ shm = NoHdr => hdr[c] = NoHdr /\ pc[c] = "idle"
  /\ pc[c] \notin Writing => Older(hdr[c])
  /\ pc[c] \in Writing => /\ hdr[c].gen = shm.gen
                          /\ shm.mx <= hdr[c].mx /\ hdr[c].mx <= Len(log)
                          /\ hdr[c].mx = shm.mx \/ hdr[c].mx = Len(log)
  /\ pc[c] = "publish" => hdr[c].mx > shm.mx
  /\ writer = c /\ (pc[c] \notin Writing \/ rd[c] = 0) => hdr[c] = shm
  /\ pc[c] \in Writing => \A j \in shm.mx + 1 .. hdr[c].mx :
       log[j].commit => pc[c] = "publish" /\ j = hdr[c].mx

(* The last frame a connection reads.                                      *)
Top(c) == IF writer = c THEN shm.mx ELSE hdr[c].mx

(* What a connection with a read mark relies on, and one that ignores the  *)
(* log; no checkpoint copies a frame a reader has not seen.                *)
MarkOf(c) ==
  /\ pc[c] \in {"raise", "lock", "check"} => pick[c].mark <= hdr[c].mx
  /\ pc[c] \in {"lock", "check"} => pick[c].slot \in Slots
  /\ pc[c] = "check" => rd[c] = pick[c].slot
  /\ rd[c] \in Slots => minFrame[c] <= nBackfill + 1
  /\ InTransaction(c) /\ rd[c] \in Slots =>
       /\ hdr[c].gen = shm.gen /\ mark[rd[c]] <= Top(c)
       /\ \A k \in Conns : pc[k] \in {"ckscan", "ckcopy"} /\ rd[c] < ck.slot => ck.safe <= Top(c)
  /\ (pc[c] \in {"lock0", "check0"} \/ rd[c] = 0) /\ hdr[c] = shm => nBackfill = shm.mx

(* A page cache that belongs to the current header has the newest content. *)
CacheOf(c) ==
  /\ hdr[c] = shm /\ cache[c] # NoImage /\ ~(ckpt = c /\ ck.changed) =>
       cache[c] = OverIn(log, db, 1, shm.mx)
  /\ InTransaction(c) =>
       cache[c] = IF rd[c] = 0 THEN db ELSE OverIn(log, db, minFrame[c], Top(c))

(* A checkpoint copies frames of the log it has seen.                      *)
CheckpointOf(k) ==
  /\ pc[k] = "ckstart" => hdr[k].gen = shm.gen
  /\ pc[k] \in {"ckscan", "ckcopy"} =>
       /\ hdr[k].gen = shm.gen
       /\ nBackfill < hdr[k].mx /\ ck.safe <= hdr[k].mx
       /\ ck.slot >= 1
       /\ \A p \in Pages : ck.frame[p] = FrameIn(log, p, 1, hdr[k].mx)
  /\ pc[k] = "ckcopy" =>
       /\ zero /\ ck.slot = NReader + 1
       /\ nBackfill < ck.safe /\ ck.safe <= synced
       /\ \A p \in ck.todo : nBackfill < ck.frame[p] /\ ck.frame[p] <= ck.safe
       /\ \A p \in Pages \ ck.todo :
            nBackfill < ck.frame[p] /\ ck.frame[p] <= ck.safe => db[p] = log[ck.frame[p]].val

ConnOk(c) == LocksOf(c) /\ HeaderOf(c) /\ MarkOf(c) /\ CacheOf(c) /\ CheckpointOf(c)

(* What is copied is in the database file, and was synced in the log.      *)
IndexOk ==
  /\ shm # NoHdr => shm.gen >= 0
  /\ nBackfill <= shm.mx /\ shm.mx <= Len(log) /\ nBackfill <= synced
  /\ writer # Nobody \/ ckpt # Nobody => shm # NoHdr
  /\ zero => ckpt # Nobody
  /\ \A p \in Pages :
       LET f == FrameIn(log, p, 1, shm.mx)
       IN 0 < f /\ f <= nBackfill => db[p] = log[f].val

(* Commit frames beyond the header are synced frames of an earlier log, or *)
(* the one that is being published; what the log can lose does not reach   *)
(* back to what is durable.                                                *)
Publishing == \E w \in Writers : pc[w] = "publish"

Durability ==
  /\ shm # NoHdr => \A j \in DOMAIN log : log[j].commit /\ j > shm.mx =>
       j <= synced \/ (Publishing /\ j = Len(log))
  /\ durable + Commits(log, synced + 1, Committed) <= Len(history)

Types == FileTypes /\ IndexTypes /\ LocalTypes /\ ck \in Ckpts /\ GhostTypes

IInv ==
  /\ Types
  /\ \A c \in Conns : ConnOk(c)
  /\ IndexOk
  /\ Durability

-----------------------------------------------------------------------------
(* Max and Min, the frames of a page, and the commits of a log.            *)

(* A finite set of integers has a greatest and a least element.            *)
LEMMA Extremes ==
  ASSUME NEW S, IsFiniteSet(S), S # {}, S \subseteq Int
  PROVE  /\ \E x \in S : \A y \in S : x >= y
         /\ \E x \in S : \A y \in S : x <= y
<1>1. IsWellFoundedOn(StrictSubsetOrdering(S), SUBSET S)
  BY FS_StrictSubsetOrderingWellFounded, FS_FiniteSubsetsOfFinite, Zenon
<1>2. \E x \in S : \A y \in S : x >= y
  <2> DEFINE Above(x) == {y \in S : y > x}
             T == {Above(x) : x \in S}
  <2>1. T \subseteq SUBSET S /\ T # {}
    OBVIOUS
  <2> HIDE DEF T
  <2>2. PICK U \in T : \A V \in T : ~(<<V, U>> \in StrictSubsetOrdering(S))
    BY <1>1, <2>1, WFMin, Zenon
  <2>3. PICK x \in S : U = Above(x)
    BY DEF T
  <2>4. ASSUME NEW y \in S, ~(x >= y) PROVE FALSE
    <3>1. Above(y) \in T
      BY DEF T
    <3>4. x \in Int /\ y \in Int /\ y > x /\ \A z \in S : z \in Int
      BY <2>4
    <3>5. \A z \in S : z > y => z > x
      BY <3>4
    <3>6. ~(y > y)
      BY <3>4
    <3>2. Above(y) \subseteq U /\ y \in U /\ y \notin Above(y)
      BY <2>3, <3>4, <3>5, <3>6, Zenon
    <3>3. <<Above(y), U>> \in StrictSubsetOrdering(S)
      BY <2>1, <3>1, <3>2, Zenon DEF StrictSubsetOrdering
    <3> QED
      BY <2>2, <3>1, <3>3
  <2> QED
    BY <2>4
<1>3. \E x \in S : \A y \in S : x <= y
  <2> DEFINE Below(x) == {y \in S : y < x}
             T == {Below(x) : x \in S}
  <2>1. T \subseteq SUBSET S /\ T # {}
    OBVIOUS
  <2> HIDE DEF T
  <2>2. PICK U \in T : \A V \in T : ~(<<V, U>> \in StrictSubsetOrdering(S))
    BY <1>1, <2>1, WFMin, Zenon
  <2>3. PICK x \in S : U = Below(x)
    BY DEF T
  <2>4. ASSUME NEW y \in S, ~(x <= y) PROVE FALSE
    <3>1. Below(y) \in T
      BY DEF T
    <3>4. x \in Int /\ y \in Int /\ y < x /\ \A z \in S : z \in Int
      BY <2>4
    <3>5. \A z \in S : z < y => z < x
      BY <3>4
    <3>6. ~(y < y)
      BY <3>4
    <3>2. Below(y) \subseteq U /\ y \in U /\ y \notin Below(y)
      BY <2>3, <3>4, <3>5, <3>6, Zenon
    <3>3. <<Below(y), U>> \in StrictSubsetOrdering(S)
      BY <2>1, <3>1, <3>2, Zenon DEF StrictSubsetOrdering
    <3> QED
      BY <2>2, <3>1, <3>3
  <2> QED
    BY <2>4
<1> QED
  BY <1>2, <1>3

(* What Max returns.                                                       *)
LEMMA MaxFacts ==
  ASSUME NEW S, IsFiniteSet(S), S # {}, S \subseteq Int
  PROVE  Max(S) \in S /\ \A y \in S : Max(S) >= y
<1>1. PICK x \in S : \A y \in S : x >= y
  BY Extremes
<1> QED
  BY <1>1, Zenon DEF Max

(* What Min returns.                                                       *)
LEMMA MinFacts ==
  ASSUME NEW S, IsFiniteSet(S), S # {}, S \subseteq Int
  PROVE  Min(S) \in S /\ \A y \in S : Min(S) <= y
<1>1. PICK x \in S : \A y \in S : x <= y
  BY Extremes
<1> QED
  BY <1>1, Zenon DEF Min

(* The last frame of a page in a stretch of the log.                       *)
LEMMA FrameFacts ==
  ASSUME NEW list, NEW p, NEW lo \in Nat \ {0}, NEW hi \in Nat
  PROVE  /\ FrameIn(list, p, lo, hi) \in Nat
         /\ FrameIn(list, p, lo, hi) # 0 =>
              /\ lo <= FrameIn(list, p, lo, hi) /\ FrameIn(list, p, lo, hi) <= hi
              /\ FrameIn(list, p, lo, hi) <= Len(list)
              /\ list[FrameIn(list, p, lo, hi)].page = p
         /\ \A i \in lo .. hi : i <= Len(list) /\ list[i].page = p =>
              i <= FrameIn(list, p, lo, hi)
<1> DEFINE S == {0} \cup {i \in lo .. hi : i <= Len(list) /\ list[i].page = p}
<1>1. IsFiniteSet(0 .. hi)
  BY FS_Interval
<1>2. S \subseteq 0 .. hi
  OBVIOUS
<1>3. IsFiniteSet(S) /\ S # {} /\ S \subseteq Int
  <2>1. IsFiniteSet(S)
    BY <1>1, <1>2, FS_Subset, Zenon
  <2> QED
    BY <1>2, <2>1
<1>4. FrameIn(list, p, lo, hi) = Max(S)
  BY Zenon DEF FrameIn
<1> HIDE DEF S
<1>5. Max(S) \in S /\ \A y \in S : Max(S) >= y
  BY <1>3, MaxFacts
<1> QED
  BY <1>4, <1>5 DEF S

(* Two logs that agree as far as one looks have the same frames there.     *)
LEMMA FrameAgree ==
  ASSUME NEW one, NEW two, NEW p, NEW lo \in Nat \ {0}, NEW hi \in Nat,
         hi <= Len(one), hi <= Len(two), Len(one) \in Nat, Len(two) \in Nat,
         \A i \in 1 .. hi : one[i] = two[i]
  PROVE  FrameIn(one, p, lo, hi) = FrameIn(two, p, lo, hi)
<1>1. \A i \in lo .. hi : i <= Len(one) /\ i <= Len(two) /\ one[i] = two[i]
  OBVIOUS
<1>2. {i \in lo .. hi : i <= Len(one) /\ one[i].page = p}
        = {i \in lo .. hi : i <= Len(two) /\ two[i].page = p}
  BY <1>1, Zenon
<1> QED
  BY <1>2, Zenon DEF FrameIn

(* Looking from a later frame on.                                          *)
LEMMA FrameFrom ==
  ASSUME NEW list, NEW p, NEW lo \in Nat \ {0}, NEW hi \in Nat
  PROVE  FrameIn(list, p, lo, hi) =
           IF FrameIn(list, p, 1, hi) >= lo THEN FrameIn(list, p, 1, hi) ELSE 0
  BY FrameFacts, 1 \in Nat \ {0}

(* Looking no further than m.                                              *)
LEMMA FrameUpTo ==
  ASSUME NEW list, NEW p, NEW m \in Nat, NEW hi \in Nat, m <= hi
  PROVE  /\ FrameIn(list, p, 1, m) <= FrameIn(list, p, 1, hi)
         /\ FrameIn(list, p, 1, hi) <= m => FrameIn(list, p, 1, hi) = FrameIn(list, p, 1, m)
<1> 1 \in Nat \ {0}
  OBVIOUS
<1>1. FrameIn(list, p, 1, m) <= FrameIn(list, p, 1, hi)
  BY FrameFacts
<1>2. ASSUME FrameIn(list, p, 1, hi) <= m
      PROVE  FrameIn(list, p, 1, hi) <= FrameIn(list, p, 1, m)
  BY <1>2, FrameFacts
<1> QED
  BY <1>1, <1>2, FrameFacts

(* What is read is a content of the database.                              *)
LEMMA OverImage ==
  ASSUME NEW list \in Seq(Frames), NEW d \in Images, NEW lo \in Nat \ {0}, NEW hi \in Nat
  PROVE  OverIn(list, d, lo, hi) \in Images
<1>1. ASSUME NEW p \in Pages
      PROVE  (IF FrameIn(list, p, lo, hi) = 0 THEN d[p]
              ELSE list[FrameIn(list, p, lo, hi)].val) \in 0 .. MaxTxns
  <2>1. CASE FrameIn(list, p, lo, hi) = 0
    BY <2>1 DEF Images
  <2>2. CASE FrameIn(list, p, lo, hi) # 0
    <3>1. FrameIn(list, p, lo, hi) \in 1 .. Len(list)
      BY <2>2, FrameFacts
    <3>2. list[FrameIn(list, p, lo, hi)] \in Frames
      BY <3>1
    <3> QED
      BY <2>2, <3>2, WalAssumption DEF Frames
  <2> QED
    BY <2>1, <2>2
<1> QED
  BY <1>1 DEF OverIn, Images

(* The content is the same when the logs agree and the files differ only   *)
(* in pages that have a frame.                                             *)
LEMMA OverAgree ==
  ASSUME NEW one, NEW two, NEW d, NEW e, NEW lo \in Nat \ {0}, NEW hi \in Nat,
         hi <= Len(one), hi <= Len(two), Len(one) \in Nat, Len(two) \in Nat,
         \A i \in 1 .. hi : one[i] = two[i],
         \A p \in Pages : d[p] = e[p] \/ FrameIn(one, p, lo, hi) # 0
  PROVE  OverIn(one, d, lo, hi) = OverIn(two, e, lo, hi)
<1>1. ASSUME NEW p \in Pages
      PROVE  (IF FrameIn(one, p, lo, hi) = 0 THEN d[p]
              ELSE one[FrameIn(one, p, lo, hi)].val)
             = (IF FrameIn(two, p, lo, hi) = 0 THEN e[p]
                ELSE two[FrameIn(two, p, lo, hi)].val)
  <2>1. FrameIn(one, p, lo, hi) = FrameIn(two, p, lo, hi)
    BY FrameAgree
  <2>2. CASE FrameIn(one, p, lo, hi) = 0
    BY <2>1, <2>2
  <2>3. CASE FrameIn(one, p, lo, hi) # 0
    <3>1. FrameIn(one, p, lo, hi) \in 1 .. hi
      BY <2>3, FrameFacts
    <3> QED
      BY <2>1, <2>3, <3>1
  <2> QED
    BY <2>2, <2>3
<1> QED
  BY <1>1, Zenon DEF OverIn

(* Frames that are copied to the file need not be read: reading may start  *)
(* at any frame up to the first that is not copied.                        *)
LEMMA OverFrom ==
  ASSUME NEW list, NEW d, NEW n \in Nat, NEW m \in Nat, NEW hi \in Nat, NEW lo \in 1 .. n + 1,
         n <= m, m <= hi,
         \A p \in Pages : 0 < FrameIn(list, p, 1, m) /\ FrameIn(list, p, 1, m) <= n =>
                          d[p] = list[FrameIn(list, p, 1, m)].val
  PROVE  OverIn(list, d, lo, hi) = OverIn(list, d, 1, hi)
<1>1. ASSUME NEW p \in Pages
      PROVE  (IF FrameIn(list, p, lo, hi) = 0 THEN d[p]
              ELSE list[FrameIn(list, p, lo, hi)].val)
             = (IF FrameIn(list, p, 1, hi) = 0 THEN d[p]
                ELSE list[FrameIn(list, p, 1, hi)].val)
  <2>1. lo \in Nat \ {0} /\ 1 \in Nat \ {0}
    OBVIOUS
  <2>2. FrameIn(list, p, 1, hi) \in Nat
    BY <2>1, FrameFacts
  <2>3. CASE FrameIn(list, p, 1, hi) >= lo
    BY <2>1, <2>2, <2>3, FrameFrom
  <2>4. CASE FrameIn(list, p, 1, hi) < lo /\ FrameIn(list, p, 1, hi) # 0
    <3>1. FrameIn(list, p, lo, hi) = 0
      BY <2>1, <2>2, <2>4, FrameFrom
    <3>2. FrameIn(list, p, 1, hi) <= n
      BY <2>2, <2>4
    <3>3. FrameIn(list, p, 1, hi) <= m
      BY <2>2, <3>2
    <3>4. FrameIn(list, p, 1, m) = FrameIn(list, p, 1, hi)
      BY <3>3, FrameUpTo
    <3>5. d[p] = list[FrameIn(list, p, 1, hi)].val
      BY <2>2, <2>4, <3>2, <3>4
    <3> QED
      BY <2>4, <3>1, <3>5
  <2>5. CASE FrameIn(list, p, 1, hi) = 0
    BY <2>1, <2>5, FrameFrom
  <2> QED
    BY <2>2, <2>3, <2>4, <2>5
<1> QED
  BY <1>1, Zenon DEF OverIn

(* The commits of a log are finitely many, and one frame is at most one.   *)
LEMMA CommitsFacts ==
  ASSUME NEW list, NEW lo \in Int, NEW hi \in Int
  PROVE  /\ Commits(list, lo, hi) \in Nat
         /\ hi < lo => Commits(list, lo, hi) = 0
<1>1. IsFiniteSet(lo .. hi)
  BY FS_Interval
<1>2. {i \in lo .. hi : list[i].commit} \subseteq lo .. hi
  OBVIOUS
<1>3. IsFiniteSet({i \in lo .. hi : list[i].commit})
  BY <1>1, <1>2, FS_Subset, Zenon
<1>4. Commits(list, lo, hi) \in Nat
  BY <1>3, FS_CardinalityType, Zenon DEF Commits
<1>5. ASSUME hi < lo PROVE Commits(list, lo, hi) = 0
  <2>1. {i \in lo .. hi : list[i].commit} = {}
    BY <1>5
  <2> QED
    BY <2>1, FS_EmptySet, Zenon DEF Commits
<1> QED
  BY <1>4, <1>5

(* The commits of two logs, the second of which has no others.             *)
LEMMA CommitsMonotone ==
  ASSUME NEW one, NEW two, NEW lo \in Int, NEW hi \in Int, NEW low \in Int, NEW high \in Int,
         \A i \in low .. high : two[i].commit => i \in lo .. hi /\ one[i].commit
  PROVE  Commits(two, low, high) <= Commits(one, lo, hi)
<1> DEFINE S == {i \in lo .. hi : one[i].commit}
           T == {i \in low .. high : two[i].commit}
<1>1. IsFiniteSet(lo .. hi)
  BY FS_Interval
<1>2. S \subseteq lo .. hi
  OBVIOUS
<1>3. T \subseteq S
  OBVIOUS
<1>4. IsFiniteSet(S)
  BY <1>1, <1>2, FS_Subset, Zenon
<1>5. Cardinality(T) <= Cardinality(S)
  BY <1>3, <1>4, FS_Subset, Zenon
<1> QED
  BY <1>5, Zenon DEF Commits

(* The same, when the second has one commit more.                          *)
LEMMA CommitsAdd ==
  ASSUME NEW one, NEW two, NEW lo \in Int, NEW hi \in Int, NEW low \in Int, NEW high \in Int,
         NEW last,
         \A i \in low .. high : two[i].commit => i = last \/ (i \in lo .. hi /\ one[i].commit)
  PROVE  Commits(two, low, high) <= Commits(one, lo, hi) + 1
<1> DEFINE S == {i \in lo .. hi : one[i].commit}
           T == {i \in low .. high : two[i].commit}
<1>1. IsFiniteSet(lo .. hi)
  BY FS_Interval
<1>2. S \subseteq lo .. hi
  OBVIOUS
<1>3. T \subseteq S \cup {last}
  OBVIOUS
<1>4. IsFiniteSet(S)
  BY <1>1, <1>2, FS_Subset, Zenon
<1> HIDE DEF S, T
<1>5. /\ IsFiniteSet(S \cup {last})
      /\ Cardinality(S \cup {last}) = IF last \in S THEN Cardinality(S) ELSE Cardinality(S) + 1
  BY <1>4, FS_AddElement, Zenon
<1>6. Cardinality(T) <= Cardinality(S \cup {last})
  BY <1>3, <1>5, FS_Subset, Zenon
<1>7. Cardinality(S) \in Nat /\ Cardinality(T) \in Nat
  BY <1>3, <1>4, <1>5, FS_Subset, FS_CardinalityType, Zenon
<1>8. Cardinality(T) <= Cardinality(S) + 1
  BY <1>5, <1>6, <1>7
<1> QED
  BY <1>8, Zenon DEF Commits, S, T

-----------------------------------------------------------------------------
(* The steps.                                                              *)

(* The operators of the model in the terms of the lemmas above.            *)
LEMMA Bridge ==
  /\ \A p, lo, hi : FrameOf(p, lo, hi) = FrameIn(log, p, lo, hi)
  /\ \A lo, hi : Over(lo, hi) = OverIn(log, db, lo, hi)
  /\ \A c : View(c) = IF rd[c] = 0 THEN db ELSE OverIn(log, db, minFrame[c], Top(c))
  /\ \A c : Written(c) = OverIn(log, db, minFrame[c], hdr[c].mx)
  /\ \A lo, hi : CommitsIn(lo, hi) = Commits(log, lo, hi)
<1>1. \A p, lo, hi : FrameOf(p, lo, hi) = FrameIn(log, p, lo, hi)
  BY Zenon DEF FrameOf, FrameIn
<1>2. \A lo, hi : Over(lo, hi) = OverIn(log, db, lo, hi)
  BY <1>1, Zenon DEF Over, OverIn
<1> QED
  BY <1>1, <1>2, Zenon DEF View, Top, Written, CommitsIn, Commits

(* A connection that moves on by itself: it changes what is its own, takes *)
(* or gives up a lock, and moves read marks nobody holds.                  *)
OthersStay(c) ==
  /\ \A d \in Conns \ {c} : /\ pc'[d] = pc[d] /\ hdr'[d] = hdr[d] /\ rd'[d] = rd[d]
                            /\ minFrame'[d] = minFrame[d] /\ pick'[d] = pick[d]
                            /\ cache'[d] = cache[d]
                            /\ writer' = d <=> writer = d
                            /\ ckpt' = d <=> ckpt = d
  /\ ckpt \notin {c, Nobody} => UNCHANGED <<ck, zero>>
  /\ mark' \in [Slots -> 0 .. NotUsed]
  /\ \A i \in Slots : mark'[i] # mark[i] => Free(i)

LEMMA OwnStep ==
  ASSUME IInv, NEW c \in Conns, OthersStay(c),
         pc[c] # "publish", pc'[c] # "publish",
         UNCHANGED <<files, shm, nBackfill, crashes, history, durable>>,
         writer' \in Writers \cup {Nobody}, ckpt' \in Checkpointers \cup {Nobody},
         zero' \in BOOLEAN, zero' => zero /\ ckpt' # Nobody,
         ck' \in Ckpts, txn' \in txn .. MaxTxns, shm # NoHdr,
         \A d \in Conns \ {c} : pc'[c] \in {"ckscan", "ckcopy"} /\ InTransaction(d)
                              /\ rd[d] \in Slots /\ rd[d] < ck'.slot => ck'.safe <= Top(d),
         LocalTypes', LocksOf(c)', HeaderOf(c)', MarkOf(c)', CacheOf(c)', CheckpointOf(c)'
  PROVE  IInv'
<1>1. /\ UNCHANGED <<log, synced, db, dirty, shm, nBackfill, crashes, history, durable>>
      /\ \A d \in Conns : LocksOf(d) /\ HeaderOf(d) /\ MarkOf(d) /\ CacheOf(d) /\ CheckpointOf(d)
  BY DEF files, IInv, ConnOk
<1>2. Types'
  <2>1. txn \in Nat /\ txn' \in 0 .. MaxTxns
    BY WalAssumption DEF IInv, Types, GhostTypes
  <2> QED
    BY <1>1, <2>1 DEF IInv, Types, FileTypes, IndexTypes, GhostTypes, OthersStay
<1>3. txn > 0 => txn' > 0
  BY WalAssumption DEF IInv, Types, GhostTypes
<1>4. ASSUME NEW d \in Conns PROVE ConnOk(d)'
  <2>1. CASE d = c
    BY <2>1 DEF ConnOk
  <2>2. CASE d # c
    <3>1. /\ pc'[d] = pc[d] /\ hdr'[d] = hdr[d] /\ rd'[d] = rd[d]
          /\ minFrame'[d] = minFrame[d] /\ pick'[d] = pick[d] /\ cache'[d] = cache[d]
          /\ (writer' = d <=> writer = d) /\ (ckpt' = d <=> ckpt = d)
      BY <2>2 DEF OthersStay
    <3>2. ckpt = d => ck' = ck /\ zero' = zero
      BY <2>2, WalAssumption DEF OthersStay
    <3>3. LocksOf(d)'
      BY <1>1, <1>3, <3>1 DEF LocksOf
    <3>4. HeaderOf(d)'
      BY <1>1, <3>1 DEF HeaderOf, Older
    <3>5. MarkOf(d)'
      <4>1. rd[d] \in Slots => mark'[rd[d]] = mark[rd[d]]
        BY DEF Free, OthersStay
      <4>2. MarkOf(d) /\ Top(d)' = Top(d)
        BY <1>1, <3>1 DEF Top
      <4>3. ASSUME InTransaction(d), rd[d] \in Slots, NEW k \in Conns,
                   pc'[k] \in {"ckscan", "ckcopy"}, rd[d] < ck'.slot
            PROVE  ck'.safe <= Top(d)
        <5>1. CASE k = c
          BY <2>2, <4>3, <5>1
        <5>2. CASE k # c
          <6>1. pc[k] \in {"ckscan", "ckcopy"}
            BY <4>3, <5>2 DEF OthersStay
          <6>2. ckpt = k
            BY <1>1, <6>1 DEF LocksOf, Checkpointing
          <6>3. ck' = ck
            BY <5>2, <6>2, WalAssumption DEF OthersStay
          <6> QED
            BY <4>2, <4>3, <6>1, <6>3 DEF MarkOf
        <5> QED
          BY <5>1, <5>2
      <4>4. InTransaction(d)' <=> InTransaction(d)
        BY <3>1 DEF InTransaction
      <4> QED
        BY <1>1, <3>1, <4>1, <4>2, <4>3, <4>4 DEF MarkOf
    <3>6. CacheOf(d)'
      BY <1>1, <3>1, <3>2 DEF CacheOf, Top, InTransaction
    <3>7. CheckpointOf(d)'
      <4>1. pc[d] \in {"ckstart", "ckscan", "ckcopy"} => ck' = ck /\ zero' = zero
        BY <1>1, <3>2 DEF LocksOf, Checkpointing
      <4> QED
        BY <1>1, <3>1, <4>1 DEF CheckpointOf
    <3> QED
      BY <3>3, <3>4, <3>5, <3>6, <3>7 DEF ConnOk
  <2> QED
    BY <2>1, <2>2
<1>5. IndexOk'
  BY <1>1 DEF IInv, IndexOk
<1>6. Durability'
  <2>1. Publishing => Publishing'
    BY DEF Publishing, Conns, OthersStay
  <2>2. Committed' = Committed
    BY <1>1 DEF Committed, LastCommit
  <2> QED
    BY <1>1, <2>1, <2>2 DEF IInv, Durability
<1> QED
  BY <1>2, <1>4, <1>5, <1>6 DEF IInv

(* The same for a connection that takes no lock but a read lock.           *)
LEMMA LocalStep ==
  ASSUME IInv, NEW c \in Conns,
         shm # NoHdr, pc[c] \notin Checkpointing \cup {"publish"}, pc'[c] # "publish",
         UNCHANGED <<files, shm, nBackfill, locks, ck, ghost>>,
         LocalTypes', mark' \in [Slots -> 0 .. NotUsed],
         \A i \in Slots : mark'[i] # mark[i] => Free(i),
         \A d \in Conns \ {c} : /\ pc'[d] = pc[d] /\ hdr'[d] = hdr[d] /\ rd'[d] = rd[d]
                                /\ minFrame'[d] = minFrame[d] /\ pick'[d] = pick[d]
                                /\ cache'[d] = cache[d],
         LocksOf(c)', HeaderOf(c)', MarkOf(c)', CacheOf(c)'
  PROVE  IInv'
<1>1. LocksOf(c) /\ HeaderOf(c) /\ IndexTypes /\ GhostTypes /\ ck \in Ckpts
  BY DEF IInv, ConnOk, Types
<1>2. ckpt # c /\ pc[c] # "publish"
  BY <1>1 DEF LocksOf
<1>3. UNCHANGED <<writer, ckpt, zero, ck, txn, crashes, history, durable>>
  BY DEF locks, ghost
<1>4. pc'[c] \notin Checkpointing
  BY <1>2, <1>3 DEF LocksOf
<1>5. CheckpointOf(c)'
  BY <1>4 DEF CheckpointOf, Checkpointing
<1>6. OthersStay(c)
  BY <1>3 DEF OthersStay
<1>7. zero => ckpt # Nobody
  BY DEF IInv, IndexOk
<1>8. txn' \in txn .. MaxTxns
  BY <1>1, <1>3, WalAssumption DEF GhostTypes
<1>9. \A d \in Conns \ {c} : pc'[c] \in {"ckscan", "ckcopy"} /\ InTransaction(d)
                            /\ rd[d] \in Slots /\ rd[d] < ck'.slot => ck'.safe <= Top(d)
  <2>1. pc'[c] \notin {"ckscan", "ckcopy"}
    BY <1>4 DEF Checkpointing
  <2> QED
    BY <2>1, Zenon
<1>10. /\ writer' \in Writers \cup {Nobody} /\ ckpt' \in Checkpointers \cup {Nobody}
       /\ zero' \in BOOLEAN /\ (zero' => zero /\ ckpt' # Nobody) /\ ck' \in Ckpts
       /\ UNCHANGED <<files, shm, nBackfill, crashes, history, durable>>
  BY <1>1, <1>3, <1>7 DEF IndexTypes
<1> QED
  BY <1>2, <1>5, <1>6, <1>8, <1>9, <1>10, OwnStep

(* The last commit frame of a log.                                         *)
LEMMA LastFacts ==
  ASSUME NEW list \in Seq(Frames)
  PROVE  /\ LastIn(list) \in 0 .. Len(list)
         /\ LastIn(list) # 0 => list[LastIn(list)].commit
         /\ \A j \in DOMAIN list : list[j].commit => j <= LastIn(list)
<1> DEFINE S == {0} \cup {i \in DOMAIN list : list[i].commit}
<1>1. IsFiniteSet(0 .. Len(list))
  BY FS_Interval
<1>2. S \subseteq 0 .. Len(list)
  OBVIOUS
<1>3. IsFiniteSet(S) /\ S # {} /\ S \subseteq Int
  <2>1. IsFiniteSet(S)
    BY <1>1, <1>2, FS_Subset, Zenon
  <2> QED
    BY <1>2, <2>1
<1>4. LastIn(list) = Max(S)
  BY Zenon DEF LastIn
<1> HIDE DEF S
<1>5. Max(S) \in S /\ \A y \in S : Max(S) >= y
  BY <1>3, MaxFacts
<1> QED
  BY <1>4, <1>5 DEF S

LEMMA InitEstablishes == Init => IInv
<1> SUFFICES ASSUME Init PROVE IInv
  OBVIOUS
<1> USE WalAssumption
<1>1. [p \in Pages |-> 0] \in Images
  BY DEF Images
<1>2. NoHdr \in Headers /\ NoPick \in Picks /\ NoCkpt \in Ckpts
  <2>1. NoHdr \in Headers
    BY DEF NoHdr, Headers
  <2>2. NoPick \in Picks
    BY DEF NoPick, Picks, NotUsed
  <2>3. NoCkpt \in Ckpts
    BY DEF NoCkpt, Ckpts
  <2> QED
    BY <2>1, <2>2, <2>3
<1>3. FileTypes
  BY <1>1 DEF Init, FileTypes
<1>4. IndexTypes
  <2>1. NotUsed \in 0 .. NotUsed
    BY DEF NotUsed
  <2>2. mark \in [Slots -> 0 .. NotUsed]
    BY <2>1 DEF Init
  <2>3. nBackfill \in 0 .. MaxFrames
    BY DEF Init
  <2> QED
    BY <1>2, <2>2, <2>3 DEF Init, IndexTypes
<1>5. LocalTypes
  BY <1>2 DEF Init, LocalTypes, PCs, NoLock
<1>6. GhostTypes
  <2>1. history \in Seq(Images) /\ Len(history) = 1
    BY <1>1 DEF Init
  <2> QED
    BY <2>1 DEF Init, GhostTypes
<1>7. ASSUME NEW c \in Conns PROVE ConnOk(c)
  <2>1. pc[c] = "idle" /\ hdr[c] = NoHdr /\ rd[c] = NoLock /\ cache[c] = NoImage
    BY DEF Init
  <2>2. LocksOf(c)
    BY <2>1 DEF Init, LocksOf, Writing, WriterAt, Checkpointing, Unlocked, NoLock
  <2>3. HeaderOf(c)
    BY <2>1 DEF Init, HeaderOf, Older, Writing, NoHdr
  <2>4. MarkOf(c)
    BY <2>1 DEF Init, MarkOf, InTransaction, NoLock, Slots, NoHdr
  <2>5. CacheOf(c)
    BY <2>1 DEF Init, CacheOf, InTransaction
  <2>6. CheckpointOf(c)
    BY <2>1 DEF CheckpointOf
  <2> QED
    BY <2>2, <2>3, <2>4, <2>5, <2>6 DEF ConnOk
<1>8. IndexOk
  <2>1. ASSUME NEW p \in Pages PROVE ~(0 < FrameIn(log, p, 1, shm.mx)
                                       /\ FrameIn(log, p, 1, shm.mx) <= nBackfill)
    <3>1. nBackfill = 0 /\ shm.mx = 0
      BY DEF Init, NoHdr
    <3>2. FrameIn(log, p, 1, 0) \in Nat
      BY FrameFacts, 1 \in Nat \ {0}, 0 \in Nat
    <3> QED
      BY <3>1, <3>2
  <2> QED
    BY <2>1 DEF Init, IndexOk, NoHdr
<1>9. Durability
  <2>1. log = <<>> /\ log \in Seq(Frames) /\ Len(log) = 0 /\ synced = 0
    BY DEF Init
  <2>2. LastIn(log) = 0
    <3>1. LastIn(log) \in 0 .. Len(log)
      BY <2>1, LastFacts
    <3> QED
      BY <2>1, <3>1
  <2>3. Committed = 0
    BY <2>2 DEF Init, Committed, LastCommit, LastIn
  <2>4. Commits(log, synced + 1, Committed) = 0
    BY <2>1, <2>3, CommitsFacts
  <2>5. Len(history) = 1
    BY DEF Init
  <2> QED
    BY <2>4, <2>5 DEF Init, Durability
<1> QED
  BY <1>2, <1>3, <1>4, <1>5, <1>6, <1>7, <1>8, <1>9 DEF Init, IInv, Types

(* Reading, up to the lock: BeginRead on a wal-index that is there.        *)
LEMMA BeginReadKeeps ==
  ASSUME IInv, NEW c \in Conns, BeginRead(c), shm # NoHdr
  PROVE  IInv'
<1>1. /\ pc[c] = "idle"
      /\ UNCHANGED index
      /\ hdr' = [hdr EXCEPT ![c] = shm]
      /\ cache' = [cache EXCEPT ![c] = IF hdr[c] = shm THEN @ ELSE NoImage]
      /\ pc' = [pc EXCEPT ![c] = "decide"]
      /\ UNCHANGED <<files, locks, rd, minFrame, pick, ck, ghost>>
  BY DEF BeginRead, ReadHdr, Goto, index
<1>2. /\ LocksOf(c) /\ HeaderOf(c) /\ MarkOf(c) /\ CacheOf(c)
      /\ LocalTypes /\ IndexTypes
  BY DEF IInv, ConnOk, Types
<1>3. /\ UNCHANGED <<log, synced, db, dirty, shm, nBackfill, mark, writer, ckpt, zero, ck, txn>>
      /\ rd' = rd /\ minFrame' = minFrame /\ pick' = pick
      /\ pc'[c] = "decide" /\ hdr'[c] = shm
      /\ cache'[c] = IF hdr[c] = shm THEN cache[c] ELSE NoImage
  BY <1>1, <1>2 DEF files, locks, ghost, index, LocalTypes
<1>4. LocalTypes'
  BY <1>1, <1>2 DEF LocalTypes, IndexTypes, PCs
<1>5. rd[c] = NoLock /\ ckpt # c /\ writer # c
  BY <1>1, <1>2 DEF LocksOf, Unlocked, Checkpointing, WriterAt, Writing
<1>6. LocksOf(c)'
  BY <1>3, <1>5 DEF LocksOf, NoLock, Unlocked, Checkpointing, WriterAt, Writing
<1>7. HeaderOf(c)'
  BY <1>2, <1>3, <1>5 DEF HeaderOf, Older, Writing, IndexTypes, Headers
<1>8. MarkOf(c)'
  BY <1>3, <1>5 DEF MarkOf, NoLock, InTransaction, Slots
<1>9. CacheOf(c)'
  BY <1>2, <1>3, <1>5 DEF CacheOf, InTransaction
<1>10. /\ pc[c] \notin Checkpointing \cup {"publish"} /\ pc'[c] # "publish"
       /\ UNCHANGED <<files, shm, nBackfill, locks, ck, ghost>>
       /\ mark' \in [Slots -> 0 .. NotUsed] /\ \A i \in Slots : mark'[i] # mark[i] => Free(i)
       /\ \A d \in Conns \ {c} :
            /\ pc'[d] = pc[d] /\ hdr'[d] = hdr[d] /\ rd'[d] = rd[d]
            /\ minFrame'[d] = minFrame[d] /\ pick'[d] = pick[d] /\ cache'[d] = cache[d]
  BY <1>1, <1>2, <1>3 DEF LocalTypes, IndexTypes, Checkpointing
<1> QED
  BY <1>5, <1>4, <1>6, <1>7, <1>8, <1>9, <1>10, LocalStep

(* What is read with a current header, from any frame up to the first that *)
(* is not copied, or out of the file when the whole log is copied.         *)
LEMMA Newest ==
  ASSUME IInv
  PROVE  /\ \A lo \in 1 .. nBackfill + 1 :
              OverIn(log, db, lo, shm.mx) = OverIn(log, db, 1, shm.mx)
         /\ nBackfill = shm.mx => OverIn(log, db, 1, shm.mx) = db
         /\ \A lo \in Nat \ {0}, hi \in Nat : OverIn(log, db, lo, hi) \in Images
         /\ db \in Images
<1>1. /\ log \in Seq(Frames) /\ db \in Images /\ nBackfill \in Nat /\ shm.mx \in Nat
      /\ nBackfill <= shm.mx
  BY DEF IInv, Types, FileTypes, IndexTypes, IndexOk, Headers
<1>2. \A p \in Pages : 0 < FrameIn(log, p, 1, shm.mx) /\ FrameIn(log, p, 1, shm.mx) <= nBackfill =>
        db[p] = log[FrameIn(log, p, 1, shm.mx)].val
  BY DEF IInv, IndexOk
<1>3. ASSUME NEW lo \in 1 .. nBackfill + 1
      PROVE  OverIn(log, db, lo, shm.mx) = OverIn(log, db, 1, shm.mx)
  <2>1. shm.mx <= shm.mx
    BY <1>1
  <2> QED
    BY <1>1, <1>2, <2>1, OverFrom
<1>4. ASSUME nBackfill = shm.mx PROVE OverIn(log, db, 1, shm.mx) = db
  <2>1. nBackfill + 1 \in 1 .. nBackfill + 1 /\ nBackfill + 1 \in Nat \ {0}
    BY <1>1
  <2>2. ASSUME NEW p \in Pages PROVE FrameIn(log, p, nBackfill + 1, shm.mx) = 0
    <3>1. FrameIn(log, p, nBackfill + 1, shm.mx) # 0 =>
            nBackfill + 1 <= FrameIn(log, p, nBackfill + 1, shm.mx)
            /\ FrameIn(log, p, nBackfill + 1, shm.mx) <= shm.mx
      BY <1>1, <2>1, FrameFacts
    <3>2. FrameIn(log, p, nBackfill + 1, shm.mx) \in Nat
      BY <1>1, <2>1, FrameFacts
    <3> QED
      BY <1>1, <1>4, <3>1, <3>2
  <2>3. OverIn(log, db, nBackfill + 1, shm.mx) = [p \in Pages |-> db[p]]
    BY <2>2, Zenon DEF OverIn
  <2>4. db = [p \in Pages |-> db[p]]
    BY <1>1 DEF Images
  <2> QED
    BY <1>3, <2>1, <2>3, <2>4
<1> QED
  BY <1>1, <1>3, <1>4, OverImage

(* Decide, Lock0 and EndRead: the lock, and nothing else.                  *)
LEMMA PlainReadKeeps ==
  ASSUME IInv, NEW c \in Conns, Decide(c) \/ Lock0(c) \/ EndRead(c)
  PROVE  IInv'
<1>1. /\ pc[c] \in {"decide", "lock0", "read"}
      /\ UNCHANGED <<log, synced, db, dirty, shm, nBackfill, mark, writer, ckpt, zero, ck, txn>>
      /\ UNCHANGED <<files, locks, ghost, hdr, pick, cache>>
  BY DEF Decide, Lock0, EndRead, files, index, locks, ghost
<1>2. /\ LocksOf(c) /\ HeaderOf(c) /\ MarkOf(c) /\ CacheOf(c)
      /\ LocalTypes /\ IndexTypes
  BY DEF IInv, ConnOk, Types
<1>3. /\ pc' = [pc EXCEPT ![c] = pc'[c]] /\ pc'[c] \in {"lock0", "pick", "check0", "idle"}
      /\ rd' = [rd EXCEPT ![c] = rd'[c]] /\ rd'[c] \in {NoLock, 0}
      /\ minFrame' = [minFrame EXCEPT ![c] = minFrame'[c]] /\ minFrame'[c] \in {1, minFrame[c]}
      /\ \/ pc[c] = "decide" /\ rd'[c] = rd[c] /\ pc'[c] \in {"lock0", "pick"}
            /\ (pc'[c] = "lock0" => nBackfill = hdr[c].mx)
         \/ pc[c] = "lock0" /\ pc'[c] = "pick" /\ rd'[c] = rd[c]
         \/ pc[c] = "lock0" /\ pc'[c] = "check0" /\ rd'[c] = 0 /\ ~zero
         \/ pc[c] = "read" /\ pc'[c] = "idle" /\ rd'[c] = NoLock
  <2>1. CASE Decide(c)
    BY <1>2, <2>1 DEF Decide, Goto, LocalTypes, LocksOf, Unlocked, NoLock
  <2>2. CASE Lock0(c)
    BY <1>2, <2>2 DEF Lock0, Goto, LocalTypes, LocksOf, Unlocked, NoLock
  <2>3. CASE EndRead(c)
    BY <1>2, <2>3 DEF EndRead, GiveUp, Goto, LocalTypes, NoLock
  <2> QED
    BY <2>1, <2>2, <2>3
<1>4. LocalTypes'
  BY <1>1, <1>2, <1>3, WalAssumption DEF LocalTypes, PCs
<1>5. ckpt # c /\ writer # c /\ shm # NoHdr
  BY <1>1, <1>2 DEF LocksOf, HeaderOf, Checkpointing, WriterAt, Writing
<1>6. LocksOf(c)'
  BY <1>1, <1>2, <1>3, <1>5 DEF LocksOf, NoLock, Unlocked, Checkpointing, WriterAt, Writing
<1>7. HeaderOf(c)'
  BY <1>1, <1>2, <1>3, <1>5 DEF HeaderOf, Older, Writing
<1>8. MarkOf(c)'
  BY <1>1, <1>2, <1>3, <1>5 DEF MarkOf, NoLock, InTransaction, Slots, LocksOf, Unlocked
<1>9. CacheOf(c)'
  BY <1>1, <1>2, <1>3, <1>5 DEF CacheOf, InTransaction
<1>10. /\ pc[c] \notin Checkpointing \cup {"publish"} /\ pc'[c] # "publish"
       /\ UNCHANGED <<files, shm, nBackfill, locks, ck, ghost>>
       /\ mark' \in [Slots -> 0 .. NotUsed] /\ \A i \in Slots : mark'[i] # mark[i] => Free(i)
       /\ \A d \in Conns \ {c} :
            /\ pc'[d] = pc[d] /\ hdr'[d] = hdr[d] /\ rd'[d] = rd[d]
            /\ minFrame'[d] = minFrame[d] /\ pick'[d] = pick[d] /\ cache'[d] = cache[d]
  BY <1>1, <1>2, <1>3 DEF LocalTypes, IndexTypes, Checkpointing
<1> QED
  BY <1>5, <1>4, <1>6, <1>7, <1>8, <1>9, <1>10, LocalStep

(* Check0: the header is still the one of the log that is ignored.         *)
LEMMA Check0Keeps ==
  ASSUME IInv, NEW c \in Conns, Check0(c)
  PROVE  IInv'
<1>1. /\ pc[c] = "check0"
      /\ UNCHANGED <<log, synced, db, dirty, shm, nBackfill, mark, writer, ckpt, zero, ck, txn>>
      /\ UNCHANGED <<files, locks, ghost, hdr, pick, minFrame>>
  BY DEF Check0, files, index, locks, ghost
<1>2. /\ LocksOf(c) /\ HeaderOf(c) /\ MarkOf(c) /\ CacheOf(c)
      /\ LocalTypes /\ IndexTypes
  BY DEF IInv, ConnOk, Types
<1>3. View(c) = db /\ db \in Images
  BY <1>1, <1>2, Bridge, Newest DEF LocksOf
<1>4. /\ pc' = [pc EXCEPT ![c] = IF hdr[c] = shm THEN "read" ELSE "idle"]
      /\ rd' = [rd EXCEPT ![c] = IF hdr[c] = shm THEN 0 ELSE NoLock]
      /\ cache' = [cache EXCEPT ![c] = IF hdr[c] = shm /\ cache[c] = NoImage THEN db ELSE cache[c]]
  BY <1>1, <1>2, <1>3 DEF Check0, Goto, LocksOf, LocalTypes
<1>5. LocalTypes'
  BY <1>1, <1>2, <1>3, <1>4 DEF LocalTypes, PCs
<1>6. ckpt # c /\ writer # c /\ shm # NoHdr /\ rd[c] = 0 /\ ~zero
  BY <1>1, <1>2 DEF LocksOf, HeaderOf, Checkpointing, WriterAt, Writing
<1>7. /\ pc'[c] = (IF hdr[c] = shm THEN "read" ELSE "idle")
      /\ rd'[c] = (IF hdr[c] = shm THEN 0 ELSE NoLock)
      /\ cache'[c] = IF hdr[c] = shm /\ cache[c] = NoImage THEN db ELSE cache[c]
  BY <1>2, <1>4 DEF LocalTypes
<1>8. LocksOf(c)'
  BY <1>1, <1>6, <1>7 DEF LocksOf, NoLock, Unlocked, Checkpointing, WriterAt, Writing
<1>9. HeaderOf(c)'
  BY <1>1, <1>2, <1>6, <1>7 DEF HeaderOf, Older, Writing
<1>10. MarkOf(c)'
  BY <1>1, <1>2, <1>6, <1>7 DEF MarkOf, NoLock, InTransaction, Slots
<1>11. CacheOf(c)'
  <2>1. hdr[c] = shm => OverIn(log, db, 1, shm.mx) = db
    BY <1>1, <1>2, Newest DEF MarkOf
  <2> QED
    BY <1>1, <1>2, <1>6, <1>7, <2>1 DEF CacheOf, InTransaction
<1>12. /\ pc[c] \notin Checkpointing \cup {"publish"} /\ pc'[c] # "publish"
       /\ UNCHANGED <<files, shm, nBackfill, locks, ck, ghost>>
       /\ mark' \in [Slots -> 0 .. NotUsed] /\ \A i \in Slots : mark'[i] # mark[i] => Free(i)
       /\ \A d \in Conns \ {c} :
            /\ pc'[d] = pc[d] /\ hdr'[d] = hdr[d] /\ rd'[d] = rd[d]
            /\ minFrame'[d] = minFrame[d] /\ pick'[d] = pick[d] /\ cache'[d] = cache[d]
  BY <1>1, <1>2, <1>4, <1>7 DEF LocalTypes, IndexTypes, Checkpointing
<1> QED
  BY <1>6, <1>5, <1>8, <1>9, <1>10, <1>11, <1>12, LocalStep

(* Pick: the mark that is found is not above the header.                   *)
LEMMA PickKeeps ==
  ASSUME IInv, NEW c \in Conns, Pick(c)
  PROVE  IInv'
<1> DEFINE usable == {i \in Slots : mark[i] <= hdr[c].mx}
           Best == {0} \cup {mark[i] : i \in usable}
           best == Max(Best)
           Slot == {0} \cup {i \in usable : mark[i] = best}
           slot == Max(Slot)
<1>1. /\ pc[c] = "pick"
      /\ pick' = [pick EXCEPT ![c] = [slot |-> slot, mark |-> best]]
      /\ pc' = [pc EXCEPT ![c] = IF best < hdr[c].mx \/ slot = 0 THEN "raise" ELSE "lock"]
      /\ UNCHANGED <<log, synced, db, dirty, shm, nBackfill, mark, writer, ckpt, zero, ck, txn>>
      /\ UNCHANGED <<files, locks, ghost, hdr, rd, minFrame, cache>>
  BY DEF Pick, Goto, files, index, locks, ghost
<1>2. /\ LocksOf(c) /\ HeaderOf(c) /\ MarkOf(c) /\ CacheOf(c)
      /\ LocalTypes /\ IndexTypes
  BY DEF IInv, ConnOk, Types
<1>3. hdr[c].mx \in 0 .. MaxFrames /\ mark \in [Slots -> 0 .. NotUsed]
  BY <1>2 DEF LocalTypes, IndexTypes, Headers
<1>4. best \in 0 .. hdr[c].mx
  <2>1. Best \subseteq 0 .. hdr[c].mx
    BY <1>3
  <2>2. IsFiniteSet(0 .. hdr[c].mx) /\ Best # {}
    BY <1>3, FS_Interval
  <2>3. IsFiniteSet(Best) /\ Best \subseteq Int
    <3>1. IsFiniteSet(Best)
      BY <2>1, <2>2, FS_Subset, Zenon
    <3> QED
      BY <1>3, <2>1, <3>1
  <2> HIDE DEF Best
  <2> QED
    BY <2>1, <2>2, <2>3, MaxFacts
<1>5. slot \in 0 .. NReader
  <2> HIDE DEF best
  <2>1. Slot \subseteq 0 .. NReader
    BY WalAssumption DEF Slots
  <2>2. IsFiniteSet(0 .. NReader) /\ Slot # {}
    BY WalAssumption, FS_Interval
  <2>3. IsFiniteSet(Slot) /\ Slot \subseteq Int
    <3>1. IsFiniteSet(Slot)
      BY <2>1, <2>2, FS_Subset, Zenon
    <3> QED
      BY WalAssumption, <2>1, <3>1
  <2> HIDE DEF Slot
  <2> QED
    BY <2>1, <2>2, <2>3, MaxFacts
<1> HIDE DEF best, slot
<1>6. /\ pc'[c] = (IF best < hdr[c].mx \/ slot = 0 THEN "raise" ELSE "lock")
      /\ pick'[c] = [slot |-> slot, mark |-> best]
  BY <1>1, <1>2 DEF LocalTypes
<1>7. LocalTypes'
  <2>1. [slot |-> slot, mark |-> best] \in Picks
    BY <1>3, <1>4, <1>5, WalAssumption DEF Picks, NotUsed
  <2> QED
    BY <1>1, <1>2, <2>1 DEF LocalTypes, PCs
<1>8. ckpt # c /\ rd[c] = NoLock /\ shm # NoHdr
  BY <1>1, <1>2 DEF LocksOf, HeaderOf, Checkpointing, Unlocked
<1>9. LocksOf(c)'
  BY <1>1, <1>2, <1>6, <1>8 DEF LocksOf, NoLock, Unlocked, Checkpointing, WriterAt, Writing
<1>10. HeaderOf(c)'
  BY <1>1, <1>2, <1>6, <1>8 DEF HeaderOf, Older, Writing
<1>11. MarkOf(c)'
  BY <1>1, <1>3, <1>4, <1>5, <1>6, <1>8 DEF MarkOf, NoLock, InTransaction, Slots
<1>12. CacheOf(c)'
  BY <1>1, <1>2, <1>6, <1>8 DEF CacheOf, InTransaction
<1>13. /\ pc[c] \notin Checkpointing \cup {"publish"} /\ pc'[c] # "publish"
       /\ UNCHANGED <<files, shm, nBackfill, locks, ck, ghost>>
       /\ mark' \in [Slots -> 0 .. NotUsed] /\ \A i \in Slots : mark'[i] # mark[i] => Free(i)
       /\ \A d \in Conns \ {c} :
            /\ pc'[d] = pc[d] /\ hdr'[d] = hdr[d] /\ rd'[d] = rd[d]
            /\ minFrame'[d] = minFrame[d] /\ pick'[d] = pick[d] /\ cache'[d] = cache[d]
  BY <1>1, <1>2, <1>6 DEF LocalTypes, IndexTypes, Checkpointing
<1> QED
  BY <1>8, <1>7, <1>9, <1>10, <1>11, <1>12, <1>13, LocalStep

(* Raise: only a mark nobody holds moves, and to the header.               *)
LEMMA RaiseKeeps ==
  ASSUME IInv, NEW c \in Conns, Raise(c)
  PROVE  IInv'
<1>1. /\ pc[c] = "raise"
      /\ UNCHANGED <<log, synced, db, dirty, shm, nBackfill, writer, ckpt, zero, ck, txn>>
      /\ UNCHANGED <<files, locks, ghost, hdr, rd, minFrame, cache>>
  BY DEF Raise, files, locks, ghost
<1>2. /\ LocksOf(c) /\ HeaderOf(c) /\ MarkOf(c) /\ CacheOf(c)
      /\ LocalTypes /\ IndexTypes
  BY DEF IInv, ConnOk, Types
<1>3. /\ hdr[c].mx \in 0 .. MaxFrames /\ mark \in [Slots -> 0 .. NotUsed]
      /\ pick[c] \in Picks /\ pick[c].mark <= hdr[c].mx
  BY <1>1, <1>2 DEF LocalTypes, IndexTypes, Headers, MarkOf
<1>4. /\ pc' = [pc EXCEPT ![c] = pc'[c]]
      /\ pick' = [pick EXCEPT ![c] = pick'[c]]
      /\ mark' \in [Slots -> 0 .. NotUsed] /\ \A i \in Slots : mark'[i] # mark[i] => Free(i)
      /\ pick'[c] \in Picks /\ pick'[c].mark <= hdr[c].mx
      /\ \/ pc'[c] = "lock" /\ pick'[c].slot \in Slots
         \/ pc'[c] = "pick" /\ writer = c
         \/ pc'[c] = "idle" /\ writer # c
  <2>1. ASSUME NEW i \in Slots, Free(i),
               mark' = [mark EXCEPT ![i] = hdr[c].mx],
               pick' = [pick EXCEPT ![c] = [slot |-> i, mark |-> hdr[c].mx]],
               Goto(c, "lock")
        PROVE  <1>4!:
    <3>1. hdr[c].mx \in 0 .. NotUsed
      BY <1>3, WalAssumption DEF NotUsed
    <3>2. [slot |-> i, mark |-> hdr[c].mx] \in Picks
      BY <3>1, WalAssumption DEF Picks, Slots
    <3>3. pick'[c] = [slot |-> i, mark |-> hdr[c].mx] /\ pc'[c] = "lock"
      BY <1>2, <2>1 DEF LocalTypes, Goto
    <3>4. mark' \in [Slots -> 0 .. NotUsed] /\ \A j \in Slots : mark'[j] # mark[j] => j = i
      BY <1>3, <2>1, <3>1
    <3>5. pick'[c].mark <= hdr[c].mx /\ pick'[c].slot \in Slots
      BY <1>3, <3>3
    <3> QED
      BY <2>1, <3>2, <3>3, <3>4, <3>5 DEF Goto
  <2>2. ASSUME Goto(c, IF pick[c].slot # 0 THEN "lock" ELSE IF writer = c THEN "pick" ELSE "idle"),
               UNCHANGED <<mark, pick>>
        PROVE  <1>4!:
    <3>1. pc'[c] = IF pick[c].slot # 0 THEN "lock" ELSE IF writer = c THEN "pick" ELSE "idle"
      BY <1>2, <2>2 DEF LocalTypes, Goto
    <3>2. pick[c].slot # 0 => pick[c].slot \in Slots
      BY <1>3, WalAssumption DEF Picks, Slots
    <3> QED
      BY <1>2, <1>3, <2>2, <3>1, <3>2 DEF LocalTypes, Goto
  <2> QED
    BY <2>1, <2>2 DEF Raise
<1>5. LocalTypes'
  BY <1>1, <1>2, <1>4 DEF LocalTypes, PCs
<1>6. ckpt # c /\ rd[c] = NoLock /\ shm # NoHdr
  BY <1>1, <1>2 DEF LocksOf, HeaderOf, Checkpointing, Unlocked
<1>7. LocksOf(c)'
  BY <1>1, <1>2, <1>4, <1>6 DEF LocksOf, NoLock, Unlocked, Checkpointing, WriterAt, Writing
<1>8. HeaderOf(c)'
  BY <1>1, <1>2, <1>4, <1>6 DEF HeaderOf, Older, Writing
<1>9. MarkOf(c)'
  BY <1>1, <1>3, <1>4, <1>6 DEF MarkOf, NoLock, InTransaction, Slots
<1>10. CacheOf(c)'
  BY <1>1, <1>2, <1>4, <1>6 DEF CacheOf, InTransaction
<1>11. /\ pc[c] \notin Checkpointing \cup {"publish"} /\ pc'[c] # "publish"
       /\ UNCHANGED <<files, shm, nBackfill, locks, ck, ghost>>
       /\ \A d \in Conns \ {c} :
            /\ pc'[d] = pc[d] /\ hdr'[d] = hdr[d] /\ rd'[d] = rd[d]
            /\ minFrame'[d] = minFrame[d] /\ pick'[d] = pick[d] /\ cache'[d] = cache[d]
  BY <1>1, <1>2, <1>4 DEF LocalTypes, Checkpointing
<1> QED
  BY <1>6, <1>4, <1>5, <1>7, <1>8, <1>9, <1>10, <1>11, LocalStep

(* LockMark: whatever is copied later, reading starts no later than the    *)
(* first frame that was not copied when the lock was taken.                *)
LEMMA LockMarkKeeps ==
  ASSUME IInv, NEW c \in Conns, LockMark(c)
  PROVE  IInv'
<1>1. /\ pc[c] = "lock"
      /\ UNCHANGED <<log, synced, db, dirty, shm, nBackfill, mark, writer, ckpt, zero, ck, txn>>
      /\ UNCHANGED <<files, locks, ghost, hdr, pick, cache>>
      /\ rd' = [rd EXCEPT ![c] = pick[c].slot]
      /\ minFrame' = [minFrame EXCEPT ![c] = nBackfill + 1]
      /\ pc' = [pc EXCEPT ![c] = "check"]
  BY DEF LockMark, Goto, files, index, locks, ghost
<1>2. /\ LocksOf(c) /\ HeaderOf(c) /\ MarkOf(c) /\ CacheOf(c)
      /\ LocalTypes /\ IndexTypes
  BY DEF IInv, ConnOk, Types
<1>3. pick[c].slot \in Slots /\ nBackfill + 1 \in 1 .. MaxFrames + 1
  BY <1>1, <1>2, WalAssumption DEF MarkOf, IndexTypes
<1>4. LocalTypes'
  BY <1>1, <1>2, <1>3 DEF LocalTypes, PCs
<1>5. rd'[c] = pick[c].slot /\ minFrame'[c] = nBackfill + 1 /\ pc'[c] = "check"
  BY <1>1, <1>2 DEF LocalTypes
<1>6. ckpt # c /\ shm # NoHdr /\ pick[c].slot # 0 /\ pick[c].slot # NoLock
  BY <1>1, <1>2, <1>3, WalAssumption DEF LocksOf, HeaderOf, Checkpointing, Slots, NoLock
<1>7. LocksOf(c)'
  BY <1>1, <1>2, <1>3, <1>5, <1>6 DEF LocksOf, Unlocked, Checkpointing, WriterAt, Writing
<1>8. HeaderOf(c)'
  BY <1>1, <1>2, <1>5, <1>6 DEF HeaderOf, Older, Writing
<1>9. MarkOf(c)'
  <2>1. minFrame'[c] <= nBackfill + 1
    BY <1>2, <1>5 DEF IndexTypes
  <2> QED
    BY <1>1, <1>2, <1>5, <1>6, <2>1 DEF MarkOf, InTransaction
<1>10. CacheOf(c)'
  BY <1>1, <1>2, <1>5, <1>6 DEF CacheOf, InTransaction
<1>11. /\ pc[c] \notin Checkpointing \cup {"publish"} /\ pc'[c] # "publish"
       /\ UNCHANGED <<files, shm, nBackfill, locks, ck, ghost>>
       /\ mark' \in [Slots -> 0 .. NotUsed] /\ \A i \in Slots : mark'[i] # mark[i] => Free(i)
       /\ \A d \in Conns \ {c} :
            /\ pc'[d] = pc[d] /\ hdr'[d] = hdr[d] /\ rd'[d] = rd[d]
            /\ minFrame'[d] = minFrame[d] /\ pick'[d] = pick[d] /\ cache'[d] = cache[d]
  BY <1>1, <1>2, <1>5 DEF LocalTypes, IndexTypes, Checkpointing
<1> QED
  BY <1>6, <1>4, <1>7, <1>8, <1>9, <1>10, <1>11, LocalStep

(* A checkpoint at work has seen no more than the header, and has frames   *)
(* left to copy.                                                           *)
LEMMA CheckpointBounds ==
  ASSUME IInv, NEW k \in Conns, pc[k] \in {"ckscan", "ckcopy"}
  PROVE  /\ ck.safe <= hdr[k].mx /\ hdr[k].mx <= shm.mx /\ nBackfill < shm.mx
         /\ hdr[k].mx \in Nat /\ ck.safe \in Nat /\ shm.mx \in Nat /\ nBackfill \in Nat
         /\ hdr[k].gen = shm.gen /\ nBackfill < hdr[k].mx
<1>1. CheckpointOf(k) /\ HeaderOf(k)
  BY DEF IInv, ConnOk
<1>2. hdr[k] \in Headers /\ ck \in Ckpts /\ shm \in Headers /\ nBackfill \in Nat
  BY DEF IInv, Types, LocalTypes, IndexTypes
<1>3. hdr[k].mx \in Nat /\ ck.safe \in Nat /\ shm.mx \in Nat /\ hdr[k].gen \in Int /\ shm.gen \in Int
  BY <1>2 DEF Headers, Ckpts
<1>4. hdr[k].gen = shm.gen /\ nBackfill < hdr[k].mx /\ ck.safe <= hdr[k].mx
  BY <1>1 DEF CheckpointOf
<1>5. hdr[k].mx <= shm.mx
  BY <1>1, <1>3, <1>4 DEF HeaderOf, Older, Writing
<1> QED
  BY <1>2, <1>3, <1>4, <1>5

(* Check: a connection whose mark and header are unchanged reads the       *)
(* newest content, and no checkpoint copies beyond it.                     *)
LEMMA CheckKeeps ==
  ASSUME IInv, NEW c \in Conns, Check(c)
  PROVE  IInv'
<1>1. /\ pc[c] = "check"
      /\ UNCHANGED <<log, synced, db, dirty, shm, nBackfill, mark, writer, ckpt, zero, ck, txn>>
      /\ UNCHANGED <<files, locks, ghost, hdr>>
      /\ pick' = [pick EXCEPT ![c] = NoPick]
  BY DEF Check, files, index, locks, ghost
<1>2. /\ LocksOf(c) /\ HeaderOf(c) /\ MarkOf(c) /\ CacheOf(c)
      /\ LocalTypes /\ IndexTypes
  BY DEF IInv, ConnOk, Types
<1>3. /\ ckpt # c /\ shm # NoHdr /\ rd[c] \in Slots /\ rd[c] = pick[c].slot
      /\ pick[c].mark <= hdr[c].mx /\ minFrame[c] <= nBackfill + 1
      /\ rd[c] # 0 /\ rd[c] # NoLock
  <2>1. rd[c] \in Slots
    BY <1>1, <1>2 DEF LocksOf
  <2> QED
    BY <1>1, <1>2, <2>1, WalAssumption
    DEF LocksOf, HeaderOf, MarkOf, Checkpointing, Slots, NoLock
<1>4. NoPick \in Picks
  BY WalAssumption DEF NoPick, Picks, NotUsed
<1>5. CASE Unchanged(c)
  <2>1. hdr[c] = shm /\ mark[rd[c]] <= shm.mx
    BY <1>3, <1>5 DEF Unchanged
  <2>2. View(c) = OverIn(log, db, minFrame[c], shm.mx)
    BY <1>3, <2>1, Bridge DEF Top
  <2>3. minFrame[c] \in 1 .. nBackfill + 1
    BY <1>2, <1>3 DEF LocalTypes, IndexTypes
  <2>4. View(c) = OverIn(log, db, 1, shm.mx) /\ View(c) \in Images
    <3>1. 1 \in Nat \ {0} /\ shm.mx \in Nat
      BY <1>2 DEF IndexTypes, Headers
    <3> QED
      BY <2>2, <2>3, <3>1, Newest
  <2>5. /\ pc' = [pc EXCEPT ![c] = IF writer = c THEN "write" ELSE "read"]
        /\ cache' = [cache EXCEPT ![c] = IF cache[c] = NoImage THEN View(c) ELSE cache[c]]
        /\ UNCHANGED <<rd, minFrame>>
    BY <1>2, <1>5 DEF Check, Goto, LocalTypes
  <2>6. /\ pc'[c] = (IF writer = c THEN "write" ELSE "read")
        /\ cache'[c] = IF cache[c] = NoImage THEN View(c) ELSE cache[c]
    BY <1>2, <2>5 DEF LocalTypes
  <2>7. cache'[c] = OverIn(log, db, 1, shm.mx)
    BY <1>2, <1>3, <2>1, <2>4, <2>6 DEF CacheOf
  <2>8. LocalTypes'
    BY <1>1, <1>2, <1>4, <2>4, <2>5 DEF LocalTypes, PCs
  <2>9. LocksOf(c)'
    BY <1>1, <1>2, <1>3, <2>5, <2>6 DEF LocksOf, Unlocked, Checkpointing, WriterAt, Writing
  <2>10. HeaderOf(c)'
    <3>1. shm.mx \in Nat /\ shm.mx <= Len(log)
      BY <1>2 DEF IndexTypes, Headers, IInv, IndexOk
    <3>2. shm.mx + 1 .. shm.mx = {}
      BY <3>1
    <3> QED
      BY <1>1, <1>2, <1>3, <2>1, <2>6, <3>1, <3>2 DEF HeaderOf, Older, Writing
  <2>11. MarkOf(c)'
    <3>1. Top(c)' = shm.mx
      BY <1>1, <2>1 DEF Top
    <3>2. \A k \in Conns : pc'[k] \in {"ckscan", "ckcopy"} => ck.safe <= shm.mx
      <4>1. ASSUME NEW k \in Conns, pc'[k] \in {"ckscan", "ckcopy"} PROVE ck.safe <= shm.mx
        <5>1. pc[k] \in {"ckscan", "ckcopy"}
          BY <1>2, <2>5, <2>6, <4>1 DEF LocalTypes
        <5> QED
          BY <5>1, CheckpointBounds
      <4> QED
        BY <4>1
    <3> QED
      BY <1>1, <1>3, <2>1, <2>5, <2>6, <3>1, <3>2 DEF MarkOf, InTransaction
  <2>12. CacheOf(c)'
    <3>1. Top(c)' = shm.mx
      BY <1>1, <2>1 DEF Top
    <3> QED
      BY <1>1, <1>3, <2>1, <2>2, <2>4, <2>5, <2>7, <3>1 DEF CacheOf
  <2>13. /\ pc[c] \notin Checkpointing \cup {"publish"} /\ pc'[c] # "publish"
         /\ UNCHANGED <<files, shm, nBackfill, locks, ck, ghost>>
         /\ mark' \in [Slots -> 0 .. NotUsed] /\ \A i \in Slots : mark'[i] # mark[i] => Free(i)
         /\ \A d \in Conns \ {c} :
              /\ pc'[d] = pc[d] /\ hdr'[d] = hdr[d] /\ rd'[d] = rd[d]
              /\ minFrame'[d] = minFrame[d] /\ pick'[d] = pick[d] /\ cache'[d] = cache[d]
    BY <1>1, <1>2, <2>5, <2>6 DEF LocalTypes, IndexTypes, Checkpointing
  <2> QED
    BY <1>3, <2>8, <2>9, <2>10, <2>11, <2>12, <2>13, LocalStep
<1>6. CASE ~Unchanged(c)
  <2>1. /\ pc' = [pc EXCEPT ![c] = IF writer = c THEN "pick" ELSE "idle"]
        /\ rd' = [rd EXCEPT ![c] = NoLock]
        /\ minFrame' = [minFrame EXCEPT ![c] = 1]
        /\ UNCHANGED cache
    BY <1>6 DEF Check, GiveUp, Goto
  <2>2. /\ pc'[c] = (IF writer = c THEN "pick" ELSE "idle")
        /\ rd'[c] = NoLock /\ minFrame'[c] = 1
    BY <1>2, <2>1 DEF LocalTypes
  <2>3. LocalTypes'
    BY <1>1, <1>2, <1>4, <2>1, WalAssumption DEF LocalTypes, PCs
  <2>4. LocksOf(c)'
    BY <1>1, <1>2, <1>3, <2>2 DEF LocksOf, Unlocked, Checkpointing, WriterAt, Writing, NoLock
  <2>5. HeaderOf(c)'
    BY <1>1, <1>2, <1>3, <2>2 DEF HeaderOf, Older, Writing
  <2>6. MarkOf(c)'
    BY <1>1, <2>2 DEF MarkOf, InTransaction, NoLock, Slots
  <2>7. CacheOf(c)'
    BY <1>1, <1>2, <1>3, <2>1, <2>2 DEF CacheOf, InTransaction
  <2>8. /\ pc[c] \notin Checkpointing \cup {"publish"} /\ pc'[c] # "publish"
        /\ UNCHANGED <<files, shm, nBackfill, locks, ck, ghost>>
        /\ mark' \in [Slots -> 0 .. NotUsed] /\ \A i \in Slots : mark'[i] # mark[i] => Free(i)
        /\ \A d \in Conns \ {c} :
             /\ pc'[d] = pc[d] /\ hdr'[d] = hdr[d] /\ rd'[d] = rd[d]
             /\ minFrame'[d] = minFrame[d] /\ pick'[d] = pick[d] /\ cache'[d] = cache[d]
    BY <1>1, <1>2, <2>1, <2>2 DEF LocalTypes, IndexTypes, Checkpointing
  <2> QED
    BY <1>3, <2>3, <2>4, <2>5, <2>6, <2>7, <2>8, LocalStep
<1> QED
  BY <1>5, <1>6

(* BeginWrite: the snapshot is the newest, so nothing else changes.        *)
LEMMA BeginWriteKeeps ==
  ASSUME IInv, NEW c \in Conns, BeginWrite(c)
  PROVE  IInv'
<1>1. /\ c \in Writers /\ pc[c] = "read" /\ writer = Nobody /\ hdr[c] = shm
      /\ txn < MaxTxns /\ txn' = txn + 1 /\ writer' = c
      /\ pc' = [pc EXCEPT ![c] = "write"]
      /\ UNCHANGED <<log, synced, db, dirty, shm, nBackfill, mark, ckpt, zero, ck,
                     crashes, history, durable, files>>
      /\ UNCHANGED <<hdr, rd, minFrame, pick, cache>>
  BY DEF BeginWrite, Goto, files, index
<1>2. /\ LocksOf(c) /\ HeaderOf(c) /\ MarkOf(c) /\ CacheOf(c)
      /\ LocalTypes /\ IndexTypes /\ IndexOk /\ GhostTypes /\ ck \in Ckpts
  BY DEF IInv, ConnOk, Types
<1>3. pc'[c] = "write" /\ ckpt # c /\ shm # NoHdr /\ c # Nobody /\ txn \in Nat
  BY <1>1, <1>2, WalAssumption DEF LocalTypes, LocksOf, HeaderOf, Checkpointing, GhostTypes
<1>4. LocalTypes'
  BY <1>1, <1>2 DEF LocalTypes, PCs
<1>5. LocksOf(c)'
  BY <1>1, <1>2, <1>3 DEF LocksOf, Unlocked, Checkpointing, WriterAt, Writing
<1>6. HeaderOf(c)'
  <2>1. shm.mx \in Nat /\ shm.mx <= Len(log) /\ shm.mx + 1 .. shm.mx = {}
    BY <1>2 DEF IndexTypes, Headers, IndexOk
  <2> QED
    BY <1>1, <1>3, <2>1 DEF HeaderOf, Writing
<1>7. Top(c) = shm.mx /\ Top(c)' = shm.mx
  BY <1>1, <1>3 DEF Top
<1>8. MarkOf(c)'
  <2>1. \A k \in Conns : pc'[k] \in {"ckscan", "ckcopy"} => pc[k] \in {"ckscan", "ckcopy"}
    BY <1>1, <1>2, <1>3 DEF LocalTypes
  <2> QED
    BY <1>1, <1>2, <1>3, <1>7, <2>1 DEF MarkOf, InTransaction
<1>9. CacheOf(c)'
  BY <1>1, <1>2, <1>3, <1>7 DEF CacheOf, InTransaction
<1>10. CheckpointOf(c)'
  BY <1>3 DEF CheckpointOf
<1>11. OthersStay(c)
  <2>1. \A d \in Conns \ {c} : writer # d /\ writer' # d
    BY <1>1, WalAssumption
  <2> QED
    BY <1>1, <1>2, <1>3, <2>1 DEF OthersStay, LocalTypes, IndexTypes
<1>12. /\ writer' \in Writers \cup {Nobody} /\ ckpt' \in Checkpointers \cup {Nobody}
       /\ zero' \in BOOLEAN /\ (zero' => zero /\ ckpt' # Nobody) /\ ck' \in Ckpts
       /\ UNCHANGED <<files, shm, nBackfill, crashes, history, durable>>
       /\ txn' \in txn .. MaxTxns
  BY <1>1, <1>2, <1>3, WalAssumption DEF IndexTypes, IndexOk
<1>13. \A d \in Conns \ {c} : pc'[c] \in {"ckscan", "ckcopy"} /\ InTransaction(d)
                             /\ rd[d] \in Slots /\ rd[d] < ck'.slot => ck'.safe <= Top(d)
  BY <1>3, Zenon
<1>14. pc[c] # "publish" /\ pc'[c] # "publish"
  BY <1>1, <1>3
<1> QED
  BY <1>3, <1>4, <1>5, <1>6, <1>8, <1>9, <1>10, <1>11, <1>12, <1>13, <1>14, OwnStep

(* Rollback: the frames of the transaction are forgotten.                  *)
LEMMA RollbackKeeps ==
  ASSUME IInv, NEW c \in Conns, Rollback(c)
  PROVE  IInv'
<1>1. /\ pc[c] = "write" /\ writer' = Nobody
      /\ hdr' = [hdr EXCEPT ![c] = shm]
      /\ pc' = [pc EXCEPT ![c] = "read"]
      /\ UNCHANGED <<log, synced, db, dirty, shm, nBackfill, mark, ckpt, zero, ck, txn,
                     crashes, history, durable, files>>
      /\ UNCHANGED <<rd, minFrame, pick, cache>>
  BY DEF Rollback, Goto, files, index, ghost
<1>2. /\ LocksOf(c) /\ HeaderOf(c) /\ MarkOf(c) /\ CacheOf(c)
      /\ LocalTypes /\ IndexTypes /\ IndexOk /\ GhostTypes /\ ck \in Ckpts
  BY DEF IInv, ConnOk, Types
<1>3. /\ pc'[c] = "read" /\ hdr'[c] = shm /\ writer = c /\ ckpt # c /\ shm # NoHdr
      /\ c # Nobody /\ txn \in Nat /\ shm \in Headers
  BY <1>1, <1>2, WalAssumption
  DEF LocalTypes, IndexTypes, LocksOf, HeaderOf, Checkpointing, Writing, GhostTypes
<1>4. LocalTypes'
  BY <1>1, <1>2, <1>3 DEF LocalTypes, PCs
<1>5. LocksOf(c)'
  BY <1>1, <1>2, <1>3 DEF LocksOf, Unlocked, Checkpointing, WriterAt, Writing
<1>6. HeaderOf(c)'
  <2>1. shm.mx \in Nat /\ shm.gen \in Int
    BY <1>3 DEF Headers
  <2> QED
    BY <1>1, <1>3, <2>1 DEF HeaderOf, Writing, Older
<1>7. Top(c) = shm.mx /\ Top(c)' = shm.mx
  BY <1>1, <1>3 DEF Top
<1>8. rd[c] = 0 => nBackfill = shm.mx
  BY <1>2, <1>3 DEF HeaderOf, MarkOf
<1>9. MarkOf(c)'
  <2>1. \A k \in Conns : pc'[k] \in {"ckscan", "ckcopy"} => pc[k] \in {"ckscan", "ckcopy"}
    BY <1>1, <1>2, <1>3 DEF LocalTypes
  <2> QED
    BY <1>1, <1>2, <1>3, <1>7, <1>8, <2>1 DEF MarkOf, InTransaction
<1>10. CacheOf(c)'
  <2>1. cache[c] = IF rd[c] = 0 THEN db ELSE OverIn(log, db, minFrame[c], shm.mx)
    BY <1>1, <1>2, <1>7 DEF CacheOf, InTransaction
  <2>2. rd[c] # 0 => minFrame[c] \in 1 .. nBackfill + 1
    BY <1>1, <1>2 DEF LocksOf, MarkOf, LocalTypes, IndexTypes
  <2>3. cache[c] = OverIn(log, db, 1, shm.mx)
    BY <1>8, <2>1, <2>2, Newest
  <2> QED
    BY <1>1, <1>3, <1>7, <2>1, <2>3 DEF CacheOf
<1>11. CheckpointOf(c)'
  BY <1>3 DEF CheckpointOf
<1>12. OthersStay(c)
  BY <1>1, <1>2, <1>3, WalAssumption DEF OthersStay, LocalTypes, IndexTypes
<1>13. /\ writer' \in Writers \cup {Nobody} /\ ckpt' \in Checkpointers \cup {Nobody}
       /\ zero' \in BOOLEAN /\ (zero' => zero /\ ckpt' # Nobody) /\ ck' \in Ckpts
       /\ UNCHANGED <<files, shm, nBackfill, crashes, history, durable>>
       /\ txn' \in txn .. MaxTxns
  BY <1>1, <1>2, <1>3, WalAssumption DEF IndexTypes, IndexOk, GhostTypes
<1>14. \A d \in Conns \ {c} : pc'[c] \in {"ckscan", "ckcopy"} /\ InTransaction(d)
                             /\ rd[d] \in Slots /\ rd[d] < ck'.slot => ck'.safe <= Top(d)
  BY <1>3, Zenon
<1>15. pc[c] # "publish" /\ pc'[c] # "publish"
  BY <1>1, <1>3
<1> QED
  BY <1>3, <1>4, <1>5, <1>6, <1>9, <1>10, <1>11, <1>12, <1>13, <1>14, <1>15, OwnStep

(* CkptBegin: a page cache that does not belong to the new header is known *)
(* as one that has to be given up.                                         *)
LEMMA CkptBeginKeeps ==
  ASSUME IInv, NEW c \in Conns, CkptBegin(c), shm # NoHdr
  PROVE  IInv'
<1>1. /\ c \in Checkpointers /\ pc[c] = "idle" /\ ckpt = Nobody /\ ckpt' = c
      /\ hdr' = [hdr EXCEPT ![c] = shm]
      /\ ck' = [NoCkpt EXCEPT !.changed = hdr[c] # shm]
      /\ pc' = [pc EXCEPT ![c] = "ckstart"]
      /\ UNCHANGED <<log, synced, db, dirty, shm, nBackfill, mark, writer, zero, txn,
                     crashes, history, durable, files>>
      /\ UNCHANGED <<rd, minFrame, pick, cache>>
  BY DEF CkptBegin, ReadHdr, Goto, files, index, ghost
<1>2. /\ LocksOf(c) /\ HeaderOf(c) /\ MarkOf(c) /\ CacheOf(c)
      /\ LocalTypes /\ IndexTypes /\ IndexOk /\ GhostTypes
  BY DEF IInv, ConnOk, Types
<1>3. /\ pc'[c] = "ckstart" /\ hdr'[c] = shm /\ writer # c /\ c # Nobody /\ ~zero
      /\ rd[c] = NoLock /\ txn \in Nat /\ shm \in Headers
  BY <1>1, <1>2, WalAssumption
  DEF LocalTypes, IndexTypes, LocksOf, HeaderOf, IndexOk, WriterAt, Writing, Unlocked, GhostTypes
<1>4. LocalTypes'
  BY <1>1, <1>2, <1>3 DEF LocalTypes, PCs
<1>5. LocksOf(c)'
  BY <1>1, <1>2, <1>3 DEF LocksOf, Unlocked, Checkpointing, WriterAt, Writing, NoLock
<1>6. HeaderOf(c)'
  <2>1. shm.mx \in Nat /\ shm.gen \in Int
    BY <1>3 DEF Headers
  <2> QED
    BY <1>1, <1>3, <2>1 DEF HeaderOf, Writing, Older
<1>7. MarkOf(c)'
  BY <1>1, <1>3 DEF MarkOf, InTransaction, NoLock, Slots
<1>8. ck' \in Ckpts /\ ck'.changed = (hdr[c] # shm)
  <2>1. NoCkpt \in Ckpts
    BY WalAssumption DEF NoCkpt, Ckpts
  <2> QED
    BY <1>1, <2>1 DEF Ckpts
<1>9. CacheOf(c)'
  BY <1>1, <1>2, <1>3, <1>8, WalAssumption DEF CacheOf, InTransaction
<1>10. CheckpointOf(c)'
  BY <1>1, <1>3 DEF CheckpointOf
<1>11. OthersStay(c)
  <2>1. \A d \in Conns \ {c} : ckpt # d /\ ckpt' # d
    BY <1>1, WalAssumption
  <2> QED
    BY <1>1, <1>2, <1>3, <2>1 DEF OthersStay, LocalTypes, IndexTypes
<1>12. /\ writer' \in Writers \cup {Nobody} /\ ckpt' \in Checkpointers \cup {Nobody}
       /\ zero' \in BOOLEAN /\ (zero' => zero /\ ckpt' # Nobody)
       /\ UNCHANGED <<files, shm, nBackfill, crashes, history, durable>>
       /\ txn' \in txn .. MaxTxns
  BY <1>1, <1>2, <1>3, WalAssumption DEF IndexTypes, IndexOk, GhostTypes
<1>13. \A d \in Conns \ {c} : pc'[c] \in {"ckscan", "ckcopy"} /\ InTransaction(d)
                             /\ rd[d] \in Slots /\ rd[d] < ck'.slot => ck'.safe <= Top(d)
  BY <1>3, Zenon
<1>14. pc[c] # "publish" /\ pc'[c] # "publish"
  BY <1>1, <1>3
<1> QED
  BY <1>4, <1>5, <1>6, <1>7, <1>8, <1>9, <1>10, <1>11, <1>12, <1>13, <1>14, OwnStep

(* CkptEnd: the header is forgotten if the page cache is not of it.        *)
LEMMA CkptEndKeeps ==
  ASSUME IInv, NEW c \in Conns, pc[c] \in Checkpointing, CkptEnd(c),
         UNCHANGED <<files, index, writer, rd, minFrame, pick, cache, ghost>>
  PROVE  IInv'
<1>1. /\ hdr' = (IF ck.changed THEN [hdr EXCEPT ![c] = NoHdr] ELSE hdr)
      /\ ck' = NoCkpt /\ ckpt' = Nobody /\ zero' = FALSE
      /\ pc' = [pc EXCEPT ![c] = "idle"]
      /\ UNCHANGED <<log, synced, db, dirty, shm, nBackfill, mark, writer, txn,
                     crashes, history, durable, files>>
      /\ UNCHANGED <<rd, minFrame, pick, cache>>
  BY DEF CkptEnd, Goto, files, index, ghost
<1>2. /\ LocksOf(c) /\ HeaderOf(c) /\ MarkOf(c) /\ CacheOf(c)
      /\ LocalTypes /\ IndexTypes /\ IndexOk /\ GhostTypes
  BY DEF IInv, ConnOk, Types
<1>3. /\ pc'[c] = "idle" /\ writer # c /\ c # Nobody /\ ckpt = c /\ shm # NoHdr
      /\ rd[c] = NoLock /\ txn \in Nat /\ shm \in Headers
  BY <1>1, <1>2, WalAssumption
  DEF LocalTypes, IndexTypes, LocksOf, HeaderOf, WriterAt, Writing, Unlocked, Checkpointing,
      GhostTypes
<1>4. NoHdr \in Headers /\ NoHdr.gen < shm.gen /\ NoCkpt \in Ckpts
  <2>1. shm.gen >= 0
    BY <1>2, <1>3 DEF IndexOk
  <2>2. shm.gen \in Int
    BY <1>3 DEF Headers
  <2>3. NoHdr \in Headers /\ NoHdr.gen = -1
    BY WalAssumption DEF NoHdr, Headers
  <2>4. NoCkpt \in Ckpts
    BY WalAssumption DEF NoCkpt, Ckpts
  <2> QED
    BY <2>1, <2>2, <2>3, <2>4
<1>5. hdr' \in [Conns -> Headers] /\ hdr'[c] = IF ck.changed THEN NoHdr ELSE hdr[c]
  BY <1>1, <1>2, <1>4 DEF LocalTypes
<1>6. LocalTypes'
  BY <1>1, <1>2, <1>5 DEF LocalTypes, PCs
<1>7. LocksOf(c)'
  BY <1>1, <1>2, <1>3 DEF LocksOf, Unlocked, Checkpointing, WriterAt, Writing, NoLock
<1>8. HeaderOf(c)'
  BY <1>1, <1>2, <1>3, <1>4, <1>5 DEF HeaderOf, Writing, Older, Checkpointing
<1>9. MarkOf(c)'
  BY <1>1, <1>3 DEF MarkOf, InTransaction, NoLock, Slots
<1>10. CacheOf(c)'
  <2>1. hdr'[c] = shm => hdr[c] = shm /\ ~ck.changed
    BY <1>2, <1>3, <1>4, <1>5
  <2> QED
    BY <1>1, <1>2, <1>3, <2>1 DEF CacheOf, InTransaction
<1>11. CheckpointOf(c)'
  BY <1>3 DEF CheckpointOf
<1>12. OthersStay(c)
  <2>1. \A d \in Conns \ {c} : ckpt # d /\ ckpt' # d /\ hdr'[d] = hdr[d]
    BY <1>1, <1>2, <1>3, WalAssumption DEF LocalTypes
  <2> QED
    BY <1>1, <1>2, <1>3, <2>1 DEF OthersStay, LocalTypes, IndexTypes
<1>13. /\ writer' \in Writers \cup {Nobody} /\ ckpt' \in Checkpointers \cup {Nobody}
       /\ zero' \in BOOLEAN /\ (zero' => zero /\ ckpt' # Nobody) /\ ck' \in Ckpts
       /\ UNCHANGED <<files, shm, nBackfill, crashes, history, durable>>
       /\ txn' \in txn .. MaxTxns
  <2>1. zero' \in BOOLEAN /\ ~zero'
    BY <1>1
  <2>2. txn' \in txn .. MaxTxns
    BY <1>1, <1>2, <1>3, WalAssumption DEF GhostTypes
  <2>3. writer' \in Writers \cup {Nobody} /\ ckpt' \in Checkpointers \cup {Nobody}
    BY <1>1, <1>2 DEF IndexTypes
  <2> QED
    BY <1>1, <1>4, <2>1, <2>2, <2>3
<1>14. \A d \in Conns \ {c} : pc'[c] \in {"ckscan", "ckcopy"} /\ InTransaction(d)
                             /\ rd[d] \in Slots /\ rd[d] < ck'.slot => ck'.safe <= Top(d)
  BY <1>3, Zenon
<1>15. pc[c] # "publish" /\ pc'[c] # "publish"
  BY <1>3 DEF Checkpointing
<1> QED
  BY <1>3, <1>6, <1>7, <1>8, <1>9, <1>10, <1>11, <1>12, <1>13, <1>14, <1>15, OwnStep

(* CkptStart: the iterator is of the log the header was read of.           *)
LEMMA CkptStartKeeps ==
  ASSUME IInv, NEW c \in Conns, CkptStart(c)
  PROVE  IInv'
<1>1. CASE ~(nBackfill < hdr[c].mx)
  <2>1. pc[c] \in Checkpointing
    BY DEF CkptStart, Checkpointing
  <2> QED
    BY <1>1, <2>1, CkptEndKeeps DEF CkptStart
<1>2. CASE nBackfill < hdr[c].mx
  <2>1. /\ pc[c] = "ckstart"
        /\ ck' = [ck EXCEPT !.frame = LastFrames(hdr[c].mx), !.safe = hdr[c].mx, !.slot = 1]
        /\ pc' = [pc EXCEPT ![c] = "ckscan"]
        /\ UNCHANGED <<log, synced, db, dirty, shm, nBackfill, mark, writer, ckpt, zero, txn,
                       crashes, history, durable, files>>
        /\ UNCHANGED <<hdr, rd, minFrame, pick, cache>>
    BY <1>2 DEF CkptStart, Goto, files, index, ghost
  <2>2. /\ LocksOf(c) /\ HeaderOf(c) /\ MarkOf(c) /\ CacheOf(c) /\ CheckpointOf(c)
        /\ LocalTypes /\ IndexTypes /\ IndexOk /\ GhostTypes /\ FileTypes /\ ck \in Ckpts
    BY DEF IInv, ConnOk, Types
  <2>3. /\ pc'[c] = "ckscan" /\ writer # c /\ c # Nobody /\ ckpt = c /\ shm # NoHdr
        /\ rd[c] = NoLock /\ txn \in Nat /\ hdr[c].gen = shm.gen
    BY <2>1, <2>2, WalAssumption
    DEF LocalTypes, LocksOf, HeaderOf, WriterAt, Writing, Unlocked, Checkpointing,
        CheckpointOf, GhostTypes
  <2>4. hdr[c].mx \in 0 .. MaxFrames /\ hdr[c].mx \in Nat
    BY <2>2 DEF LocalTypes, Headers
  <2>5. /\ LastFrames(hdr[c].mx) \in [Pages -> 0 .. MaxFrames]
        /\ \A p \in Pages : LastFrames(hdr[c].mx)[p] = FrameIn(log, p, 1, hdr[c].mx)
    <3>1. ASSUME NEW p \in Pages
          PROVE  FrameIn(log, p, 1, hdr[c].mx) \in 0 .. MaxFrames
      <4>1. /\ FrameIn(log, p, 1, hdr[c].mx) \in Nat
            /\ FrameIn(log, p, 1, hdr[c].mx) # 0 => FrameIn(log, p, 1, hdr[c].mx) <= hdr[c].mx
        BY <2>4, FrameFacts, 1 \in Nat \ {0}
      <4> QED
        BY <2>4, <4>1, WalAssumption
    <3>2. LastFrames(hdr[c].mx) = [p \in Pages |-> FrameIn(log, p, 1, hdr[c].mx)]
      BY Bridge, Zenon DEF LastFrames
    <3> QED
      BY <3>1, <3>2
  <2>6. /\ ck' \in Ckpts /\ ck'.slot = 1 /\ ck'.safe = hdr[c].mx
        /\ ck'.frame = LastFrames(hdr[c].mx) /\ ck'.changed = ck.changed
    <3>1. 1 \in 0 .. NReader + 1
      BY WalAssumption
    <3> HIDE DEF LastFrames
    <3> QED
      BY <2>1, <2>2, <2>4, <2>5, <3>1 DEF Ckpts
  <2>7. LocalTypes'
    BY <2>1, <2>2 DEF LocalTypes, PCs
  <2>8. LocksOf(c)'
    BY <2>1, <2>2, <2>3 DEF LocksOf, Unlocked, Checkpointing, WriterAt, Writing, NoLock
  <2>9. HeaderOf(c)'
    BY <2>1, <2>2, <2>3 DEF HeaderOf, Writing, Older
  <2>10. MarkOf(c)'
    BY <2>1, <2>3 DEF MarkOf, InTransaction, NoLock, Slots
  <2>11. CacheOf(c)'
    BY <2>1, <2>2, <2>3, <2>6 DEF CacheOf, InTransaction
  <2>12. CheckpointOf(c)'
    BY <1>2, <2>1, <2>3, <2>4, <2>5, <2>6 DEF CheckpointOf
  <2>13. OthersStay(c)
    BY <2>1, <2>2, <2>3 DEF OthersStay, LocalTypes, IndexTypes
  <2>14. /\ writer' \in Writers \cup {Nobody} /\ ckpt' \in Checkpointers \cup {Nobody}
         /\ zero' \in BOOLEAN /\ (zero' => zero /\ ckpt' # Nobody) /\ ck' \in Ckpts
         /\ UNCHANGED <<files, shm, nBackfill, crashes, history, durable>>
         /\ txn' \in txn .. MaxTxns
    BY <2>1, <2>2, <2>3, <2>6, WalAssumption DEF IndexTypes, IndexOk, GhostTypes
  <2>15. \A d \in Conns \ {c} : pc'[c] \in {"ckscan", "ckcopy"} /\ InTransaction(d)
                               /\ rd[d] \in Slots /\ rd[d] < ck'.slot => ck'.safe <= Top(d)
    BY <2>6, WalAssumption DEF Slots
  <2>16. pc[c] # "publish" /\ pc'[c] # "publish"
    BY <2>1, <2>3
  <2> QED
    BY <2>3, <2>7, <2>8, <2>9, <2>10, <2>11, <2>12, <2>13, <2>14, <2>15, <2>16, OwnStep
<1> QED
  BY <1>1, <1>2

(* CkptScan: what may be copied is below every mark that is held.          *)
LEMMA CkptScanKeeps ==
  ASSUME IInv, NEW c \in Conns, CkptScan(c)
  PROVE  IInv'
<1> DEFINE i == ck.slot
           blocked == mark[i] < ck.safe /\ ~Free(i)
<1>1. /\ pc[c] = "ckscan" /\ i \in Slots
      /\ mark' = (IF mark[i] < ck.safe /\ Free(i)
                  THEN [mark EXCEPT ![i] = IF i = 1 THEN ck.safe ELSE NotUsed] ELSE mark)
      /\ ck' = [ck EXCEPT !.safe = IF blocked THEN mark[i] ELSE ck.safe, !.slot = i + 1]
      /\ UNCHANGED <<log, synced, db, dirty, shm, nBackfill, writer, ckpt, zero, txn,
                     crashes, history, durable, files>>
      /\ UNCHANGED <<pc, hdr, rd, minFrame, pick, cache>>
  BY DEF CkptScan, files, locks, ghost, IInv, Types, Ckpts
<1>2. /\ LocksOf(c) /\ HeaderOf(c) /\ MarkOf(c) /\ CacheOf(c) /\ CheckpointOf(c)
      /\ LocalTypes /\ IndexTypes /\ IndexOk /\ GhostTypes /\ ck \in Ckpts
  BY DEF IInv, ConnOk, Types
<1>3. /\ writer # c /\ c # Nobody /\ ckpt = c /\ shm # NoHdr
      /\ rd[c] = NoLock /\ txn \in Nat
  BY <1>1, <1>2, WalAssumption
  DEF LocalTypes, LocksOf, HeaderOf, WriterAt, Writing, Unlocked, Checkpointing, GhostTypes
<1>4. /\ mark[i] \in 0 .. NotUsed /\ ck.safe \in 0 .. MaxFrames /\ NotUsed = MaxFrames + 1
      /\ i \in 1 .. NReader
  BY <1>1, <1>2 DEF IndexTypes, Ckpts, NotUsed, Slots
<1>5. /\ ck' \in Ckpts /\ ck'.slot = i + 1 /\ ck'.safe = (IF blocked THEN mark[i] ELSE ck.safe)
      /\ ck'.frame = ck.frame /\ ck'.changed = ck.changed /\ ck'.safe <= ck.safe
  <2>1. (IF blocked THEN mark[i] ELSE ck.safe) \in 0 .. MaxFrames
    BY <1>4, WalAssumption
  <2>2. i + 1 \in 0 .. NReader + 1
    BY <1>4, WalAssumption
  <2>3. (IF blocked THEN mark[i] ELSE ck.safe) <= ck.safe
    BY <1>4
  <2> HIDE DEF blocked, i
  <2> QED
    BY <1>1, <1>2, <2>1, <2>2, <2>3 DEF Ckpts
<1>6. /\ mark' \in [Slots -> 0 .. NotUsed]
      /\ \A j \in Slots : mark'[j] # mark[j] => Free(j)
  <2>1. (IF i = 1 THEN ck.safe ELSE NotUsed) \in 0 .. NotUsed
    BY <1>4, WalAssumption
  <2> QED
    BY <1>1, <1>2, <2>1 DEF IndexTypes
<1>7. LocalTypes'
  BY <1>1, <1>2 DEF LocalTypes
<1>8. LocksOf(c)'
  BY <1>1, <1>2, <1>3 DEF LocksOf
<1>9. HeaderOf(c)'
  BY <1>1, <1>2, <1>3 DEF HeaderOf, Older
<1>10. MarkOf(c)'
  BY <1>1, <1>3 DEF MarkOf, InTransaction, NoLock, Slots
<1>11. CacheOf(c)'
  BY <1>1, <1>2, <1>3, <1>5 DEF CacheOf, InTransaction
<1>12. CheckpointOf(c)'
  <2>1. ck'.safe <= hdr[c].mx
    <3>1. ck.safe <= hdr[c].mx /\ hdr[c].mx \in Nat /\ ck.safe \in Nat
      BY <1>1, CheckpointBounds
    <3>2. ck'.safe \in Nat
      BY <1>5 DEF Ckpts
    <3> QED
      BY <1>5, <3>1, <3>2
  <2>2. ck'.slot >= 1
    BY <1>4, <1>5
  <2> QED
    BY <1>1, <1>2, <1>5, <2>1, <2>2 DEF CheckpointOf
<1>13. OthersStay(c)
  BY <1>1, <1>3, <1>6 DEF OthersStay
<1>14. /\ writer' \in Writers \cup {Nobody} /\ ckpt' \in Checkpointers \cup {Nobody}
       /\ zero' \in BOOLEAN /\ (zero' => zero /\ ckpt' # Nobody) /\ ck' \in Ckpts
       /\ UNCHANGED <<files, shm, nBackfill, crashes, history, durable>>
       /\ txn' \in txn .. MaxTxns
  BY <1>1, <1>2, <1>3, <1>5, WalAssumption DEF IndexTypes, IndexOk, GhostTypes
<1>15. ASSUME NEW d \in Conns \ {c}, InTransaction(d), rd[d] \in Slots, rd[d] < ck'.slot
       PROVE  ck'.safe <= Top(d)
  <2>1. MarkOf(d)
    BY DEF IInv, ConnOk
  <2>2. Top(d) \in Nat
    BY <1>2 DEF Top, LocalTypes, IndexTypes, Headers
  <2>3. mark[rd[d]] <= Top(d) /\ mark[rd[d]] \in Nat
    BY <1>2, <1>15, <2>1, WalAssumption DEF MarkOf, IndexTypes, NotUsed
  <2>4. CASE rd[d] = i
    <3>1. ~Free(i)
      BY <2>4 DEF Free
    <3> QED
      BY <1>4, <1>5, <2>2, <2>3, <2>4, <3>1
  <2>5. CASE rd[d] # i
    <3>1. rd[d] < i
      BY <1>4, <1>5, <1>15, <2>5 DEF Slots
    <3>2. ck.safe <= Top(d)
      BY <1>1, <1>15, <2>1, <3>1 DEF MarkOf
    <3> QED
      BY <1>4, <1>5, <2>2, <3>2
  <2> QED
    BY <2>4, <2>5
<1>16. pc[c] # "publish" /\ pc'[c] # "publish"
  BY <1>1
<1> HIDE DEF i, blocked
<1>17. \A d \in Conns \ {c} : pc'[c] \in {"ckscan", "ckcopy"} /\ InTransaction(d)
                             /\ rd[d] \in Slots /\ rd[d] < ck'.slot => ck'.safe <= Top(d)
  BY <1>15
<1> QED
  BY <1>3, <1>7, <1>8, <1>9, <1>10, <1>11, <1>12, <1>13, <1>14, <1>16, <1>17, OwnStep

(* Without a wal-index nobody holds anything, and the last commit of the   *)
(* log becomes the header.                                                 *)
LEMMA RecoverKeeps ==
  ASSUME IInv, NEW c \in Conns, BeginRead(c) \/ CkptBegin(c), shm = NoHdr
  PROVE  IInv'
<1> DEFINE new == [mx |-> LastIn(log), gen |-> 0]
<1>1. /\ FileTypes /\ IndexTypes /\ LocalTypes /\ GhostTypes /\ ck \in Ckpts /\ IndexOk /\ Durability
      /\ \A d \in Conns : LocksOf(d) /\ HeaderOf(d)
  BY DEF IInv, Types, ConnOk
<1>2. /\ writer = Nobody /\ ckpt = Nobody /\ ~zero
      /\ \A d \in Conns : hdr[d] = NoHdr /\ pc[d] = "idle" /\ rd[d] = NoLock
  BY <1>1 DEF IndexOk, LocksOf, HeaderOf, Unlocked
<1>3. /\ shm' = new /\ nBackfill' = 0
      /\ mark' = [i \in Slots |-> IF i = 1 /\ LastIn(log) > 0 THEN LastIn(log) ELSE NotUsed]
      /\ hdr' = [hdr EXCEPT ![c] = new]
      /\ UNCHANGED <<log, synced, db, dirty, writer, zero, rd, minFrame, pick, ghost>>
  BY Zenon DEF BeginRead, CkptBegin, ReadHdr, LastIn, LastCommit, files, locks
<1>4. \/ /\ pc' = [pc EXCEPT ![c] = "decide"]
         /\ cache' = [cache EXCEPT ![c] = IF hdr[c] = shm' THEN @ ELSE NoImage]
         /\ UNCHANGED <<ck, ckpt>>
      \/ /\ c \in Checkpointers /\ ckpt' = c
         /\ ck' = [NoCkpt EXCEPT !.changed = hdr[c] # shm']
         /\ pc' = [pc EXCEPT ![c] = "ckstart"]
         /\ UNCHANGED cache
  BY DEF BeginRead, CkptBegin, Goto, locks
<1>5. LastIn(log) \in 0 .. Len(log) /\ LastIn(log) \in 0 .. MaxFrames /\ LastIn(log) \in Nat
  <2>1. LastIn(log) \in 0 .. Len(log)
    BY <1>1, LastFacts DEF FileTypes
  <2> QED
    BY <1>1, <2>1, WalAssumption DEF FileTypes
<1>6. new \in Headers /\ new.gen = 0 /\ new.mx = LastIn(log) /\ new # NoHdr /\ NoHdr.gen = -1
  BY <1>5 DEF Headers, NoHdr
<1> HIDE DEF new
<1>7. UNCHANGED <<txn, crashes, history, durable>>
  BY <1>3 DEF ghost
<1>8. /\ \A d \in Conns \ {c} : pc'[d] = "idle" /\ hdr'[d] = NoHdr /\ cache'[d] = cache[d]
      /\ hdr'[c] = new /\ pc'[c] \in {"decide", "ckstart"}
      /\ pc'[c] = "decide" => cache'[c] = NoImage /\ ckpt' = Nobody
      /\ pc'[c] = "ckstart" => cache'[c] = cache[c] /\ ckpt' = c /\ ck'.changed
      /\ pc'[c] = "ckstart" => c \in Checkpointers
      /\ ck' \in Ckpts
  <2>1. NoCkpt \in Ckpts
    BY WalAssumption DEF NoCkpt, Ckpts
  <2>2. hdr[c] # shm'
    BY <1>2, <1>3, <1>6
  <2>3. CASE /\ pc' = [pc EXCEPT ![c] = "decide"]
             /\ cache' = [cache EXCEPT ![c] = IF hdr[c] = shm' THEN @ ELSE NoImage]
             /\ UNCHANGED <<ck, ckpt>>
    BY <1>1, <1>2, <1>3, <2>2, <2>3 DEF LocalTypes
  <2>4. CASE /\ c \in Checkpointers /\ ckpt' = c
             /\ ck' = [NoCkpt EXCEPT !.changed = hdr[c] # shm']
             /\ pc' = [pc EXCEPT ![c] = "ckstart"]
             /\ UNCHANGED cache
    <3>1. ck' \in Ckpts /\ ck'.changed
      BY <2>1, <2>2, <2>4 DEF Ckpts
    <3> QED
      BY <1>1, <1>2, <1>3, <2>4, <3>1 DEF LocalTypes
  <2> QED
    BY <1>4, <2>3, <2>4
<1>9. Types'
  <2>1. mark' \in [Slots -> 0 .. NotUsed]
    <3>1. NotUsed \in 0 .. NotUsed /\ LastIn(log) \in 0 .. NotUsed
      BY <1>5, WalAssumption DEF NotUsed
    <3> QED
      BY <1>3, <3>1
  <2>2. nBackfill' \in 0 .. MaxFrames
    BY <1>3, WalAssumption
  <2>3. ckpt' \in Checkpointers \cup {Nobody}
    BY <1>8
  <2>4. IndexTypes'
    BY <1>1, <1>3, <1>6, <2>1, <2>2, <2>3 DEF IndexTypes
  <2>5. LocalTypes'
    <3>1. pc' \in [Conns -> PCs]
      BY <1>1, <1>4 DEF LocalTypes, PCs
    <3>2. cache' \in [Conns -> Images \cup {NoImage}]
      BY <1>1, <1>4 DEF LocalTypes
    <3> QED
      BY <1>1, <1>3, <1>6, <3>1, <3>2 DEF LocalTypes
  <2> QED
    BY <1>1, <1>3, <1>7, <1>8, <2>4, <2>5 DEF Types, FileTypes, GhostTypes
<1>10. ASSUME NEW d \in Conns PROVE ConnOk(d)'
  <2>1. /\ writer' = Nobody /\ Nobody # d /\ ~zero' /\ rd'[d] = NoLock /\ (ckpt' = d => d = c)
        /\ NoLock \notin Slots /\ NoLock # 0
    BY <1>2, <1>3, <1>8, WalAssumption DEF NoLock, Slots
  <2>2. pc'[d] \in {"idle", "decide", "ckstart"} /\ (pc'[d] # "idle" => d = c)
    BY <1>8
  <2>3. LocksOf(d)'
    BY <1>8, <2>1, <2>2 DEF LocksOf, Unlocked, Checkpointing, WriterAt, Writing
  <2>4. HeaderOf(d)'
    BY <1>3, <1>5, <1>6, <1>8, <2>1, <2>2 DEF HeaderOf, Older, Writing
  <2>5. MarkOf(d)'
    BY <2>1, <2>2 DEF MarkOf, InTransaction
  <2>6. CacheOf(d)'
    BY <1>3, <1>6, <1>8, <2>1, <2>2 DEF CacheOf, InTransaction
  <2>7. CheckpointOf(d)'
    BY <1>3, <1>8, <2>2 DEF CheckpointOf
  <2> QED
    BY <2>3, <2>4, <2>5, <2>6, <2>7 DEF ConnOk
<1>11. IndexOk'
  <2>1. ASSUME NEW p \in Pages
        PROVE  ~(0 < FrameIn(log, p, 1, LastIn(log)) /\ FrameIn(log, p, 1, LastIn(log)) <= 0)
    BY <1>5, FrameFacts, 1 \in Nat \ {0}
  <2>2. 0 <= synced /\ 0 <= LastIn(log) /\ LastIn(log) <= Len(log)
    BY <1>1, <1>5 DEF FileTypes
  <2> QED
    BY <1>1, <1>2, <1>3, <1>6, <2>1, <2>2 DEF IndexOk
<1>12. Durability'
  <2>1. Committed = LastIn(log)
    BY Zenon DEF Committed, LastCommit, LastIn
  <2>2. Committed' = LastIn(log)
    BY <1>3, <1>6 DEF Committed
  <2>3. \A j \in DOMAIN log : log[j].commit => ~(j > LastIn(log))
    BY <1>1, <1>5, LastFacts DEF FileTypes
  <2> QED
    BY <1>1, <1>3, <1>6, <1>7, <2>1, <2>2, <2>3 DEF Durability
<1> QED
  BY <1>8, <1>9, <1>10, <1>11, <1>12 DEF IInv

(* A reader's frames are frames below the header of the wal-index.         *)
LEMMA ReaderBounds ==
  ASSUME IInv, NEW c \in Conns, InTransaction(c), rd[c] \in Slots
  PROVE  /\ Top(c) \in Nat /\ Top(c) <= shm.mx /\ shm.mx \in Nat /\ shm.mx <= Len(log)
         /\ minFrame[c] \in 1 .. nBackfill + 1 /\ minFrame[c] \in Nat \ {0}
         /\ nBackfill \in Nat
<1>1. LocalTypes /\ IndexTypes /\ LocksOf(c) /\ HeaderOf(c) /\ MarkOf(c) /\ IndexOk
  BY DEF IInv, Types, ConnOk
<1>2. hdr[c] \in Headers /\ shm \in Headers /\ nBackfill \in Nat /\ minFrame[c] \in Nat \ {0}
  BY <1>1, WalAssumption DEF LocalTypes, IndexTypes
<1>3. hdr[c].mx \in Nat /\ shm.mx \in Nat /\ shm.gen \in Int
  BY <1>2 DEF Headers
<1>4. Top(c) <= shm.mx
  <2>1. CASE writer = c
    BY <1>3, <2>1 DEF Top
  <2>2. CASE writer # c
    <3>1. Older(hdr[c]) /\ hdr[c].gen = shm.gen
      BY <1>1, <2>2 DEF LocksOf, HeaderOf, MarkOf
    <3> QED
      BY <1>3, <2>2, <3>1 DEF Older, Top
  <2> QED
    BY <2>1, <2>2
<1>5. minFrame[c] <= nBackfill + 1
  BY <1>1 DEF MarkOf
<1> QED
  BY <1>1, <1>2, <1>3, <1>4, <1>5 DEF Top, IndexOk

(* A frame of the writer: it lies beyond the header of the wal-index, and  *)
(* nobody else looks there.                                                *)
LEMMA PutFrameKeeps ==
  ASSUME IInv, NEW c \in Conns, NEW p \in Pages, Spill(c, p) \/ CommitFrame(c, p)
  PROVE  IInv'
<1> DEFINE mx == hdr[c].mx
<1>1. PICK commit \in BOOLEAN :
      /\ log' = Append(SubSeq(log, 1, mx), [page |-> p, val |-> txn, commit |-> commit])
      /\ pc' = [pc EXCEPT ![c] = IF commit THEN "publish" ELSE "write"]
  <2>1. pc \in [Conns -> PCs]
    BY DEF IInv, Types, LocalTypes
  <2>2. CASE Spill(c, p)
    <3>1. pc' = [pc EXCEPT ![c] = "write"]
      BY <2>1, <2>2 DEF Spill, PutFrame
    <3>2. log' = Append(SubSeq(log, 1, mx), [page |-> p, val |-> txn, commit |-> FALSE])
      BY <2>2 DEF Spill, PutFrame
    <3> QED
      BY <3>1, <3>2
  <2>3. CASE CommitFrame(c, p)
    <3>1. pc' = [pc EXCEPT ![c] = "publish"]
      BY <2>3 DEF CommitFrame, Goto
    <3>2. log' = Append(SubSeq(log, 1, mx), [page |-> p, val |-> txn, commit |-> TRUE])
      BY <2>3 DEF CommitFrame, PutFrame
    <3> QED
      BY <3>1, <3>2
  <2> QED
    BY <2>2, <2>3
<1>2. /\ pc[c] = "write" /\ rd[c] > 0 /\ mx < MaxFrames
      /\ synced' = Min({synced, mx})
      /\ hdr' = [hdr EXCEPT ![c].mx = mx + 1]
      /\ UNCHANGED <<db, dirty, shm, nBackfill, mark, writer, ckpt, zero, ck, txn,
                     crashes, history, durable>>
      /\ UNCHANGED <<rd, minFrame, pick, cache>>
  BY DEF Spill, CommitFrame, PutFrame, index, locks, ghost
<1>3. /\ LocksOf(c) /\ HeaderOf(c) /\ MarkOf(c) /\ CacheOf(c)
      /\ FileTypes /\ LocalTypes /\ IndexTypes /\ IndexOk /\ GhostTypes /\ ck \in Ckpts
      /\ Durability
  BY DEF IInv, ConnOk, Types
<1>4. /\ writer = c /\ c \in Writers /\ ckpt # c /\ shm # NoHdr /\ txn \in 1 .. MaxTxns
      /\ rd[c] \in Slots /\ rd[c] # 0 /\ rd[c] # NoLock
  <2>1. writer = c /\ ckpt # c /\ shm # NoHdr /\ txn > 0
    BY <1>2, <1>3 DEF LocksOf, HeaderOf, Checkpointing, Writing
  <2>2. c \in Writers /\ txn \in 1 .. MaxTxns
    BY <1>3, <2>1, WalAssumption DEF IndexTypes, GhostTypes
  <2>3. rd[c] \in Slots /\ rd[c] # 0 /\ rd[c] # NoLock
    BY <1>2, <1>3 DEF LocalTypes, NoLock
  <2> QED
    BY <2>1, <2>2, <2>3
<1>5. /\ mx \in Nat /\ shm.mx \in Nat /\ shm.mx <= mx /\ mx <= Len(log) /\ Len(log) \in Nat
      /\ hdr[c].gen = shm.gen /\ synced \in Nat /\ nBackfill \in Nat
      /\ nBackfill <= shm.mx /\ nBackfill <= synced
      /\ hdr[c] \in Headers /\ shm \in Headers /\ log \in Seq(Frames)
  <2>1. hdr[c] \in Headers /\ shm \in Headers /\ log \in Seq(Frames) /\ nBackfill \in Nat
    BY <1>3 DEF LocalTypes, IndexTypes, FileTypes
  <2>2. mx \in Nat /\ shm.mx \in Nat /\ Len(log) \in Nat
    BY <2>1 DEF Headers
  <2>3. shm.mx <= mx /\ mx <= Len(log) /\ hdr[c].gen = shm.gen
    BY <1>2, <1>3 DEF HeaderOf, Writing
  <2>4. nBackfill <= shm.mx /\ nBackfill <= synced /\ synced \in Nat
    BY <1>3, <2>2 DEF IndexOk, FileTypes
  <2> QED
    BY <2>1, <2>2, <2>3, <2>4
<1>6. /\ log' \in Seq(Frames) /\ Len(log') = mx + 1
      /\ \A i \in 1 .. mx : log'[i] = log[i]
      /\ log'[mx + 1].commit = commit
  <2> DEFINE old == SubSeq(log, 1, mx)
             fr == [page |-> p, val |-> txn, commit |-> commit]
  <2>1. old \in Seq(Frames) /\ Len(old) = mx /\ \A i \in 1 .. mx : old[i] = log[i]
    BY <1>5
  <2>2. fr \in Frames /\ fr.commit = commit
    BY <1>4 DEF Frames
  <2>3. log' = Append(old, fr)
    BY <1>1
  <2> HIDE DEF old, fr
  <2> QED
    BY <1>5, <2>1, <2>2, <2>3
<1>7. synced' \in Nat /\ synced' <= synced /\ synced' <= mx /\ (synced' = synced \/ synced' = mx)
  <2> DEFINE S == {synced, mx}
  <2>1. S \subseteq 0 .. Len(log) /\ S \subseteq Int /\ S # {}
    BY <1>3, <1>5 DEF FileTypes
  <2>2. IsFiniteSet(0 .. Len(log))
    <3>1. 0 \in Int /\ Len(log) \in Int
      BY <1>5
    <3> QED
      BY <3>1, FS_Interval, Zenon
  <2>3. IsFiniteSet(S)
    BY <2>1, <2>2, FS_Subset, Zenon
  <2> HIDE DEF S
  <2>4. Min(S) \in S /\ \A y \in S : Min(S) <= y
    BY <2>1, <2>3, MinFacts
  <2>5. synced' = Min(S)
    BY <1>2 DEF S
  <2> QED
    BY <1>5, <2>4, <2>5 DEF S
<1>8. /\ hdr' \in [Conns -> Headers] /\ hdr'[c].mx = mx + 1 /\ hdr'[c].gen = shm.gen
      /\ \A d \in Conns \ {c} : hdr'[d] = hdr[d]
  <2>1. mx + 1 \in 0 .. MaxFrames
    BY <1>2, <1>5, WalAssumption
  <2>2. hdr' = [hdr EXCEPT ![c] = [hdr[c] EXCEPT !.mx = mx + 1]]
    BY <1>2
  <2>3. /\ [hdr[c] EXCEPT !.mx = mx + 1] \in Headers
        /\ [hdr[c] EXCEPT !.mx = mx + 1].mx = mx + 1
        /\ [hdr[c] EXCEPT !.mx = mx + 1].gen = shm.gen
    BY <1>5, <2>1 DEF Headers
  <2> QED
    BY <1>3, <2>2, <2>3 DEF LocalTypes
<1>9. /\ pc'[c] = (IF commit THEN "publish" ELSE "write")
      /\ \A d \in Conns \ {c} : pc'[d] = pc[d]
  BY <1>1, <1>3 DEF LocalTypes
<1>10. Types'
  <2>1. FileTypes'
    <3>1. Len(log') <= MaxFrames
      <4>1. mx < MaxFrames /\ Len(log') = mx + 1 /\ MaxFrames \in Nat
        BY <1>2, <1>6, WalAssumption
      <4> QED
        BY <1>5, <4>1
    <3>2. synced' \in 0 .. Len(log')
      BY <1>5, <1>6, <1>7
    <3> QED
      BY <1>2, <1>3, <1>6, <3>1, <3>2 DEF FileTypes
  <2>2. LocalTypes'
    BY <1>1, <1>2, <1>3, <1>8 DEF LocalTypes, PCs
  <2>3. IndexTypes' /\ GhostTypes' /\ (ck \in Ckpts)'
    BY <1>2, <1>3 DEF IndexTypes, GhostTypes
  <2> QED
    BY <2>1, <2>2, <2>3 DEF Types
<1> HIDE DEF mx
<1>11. \A lo \in Nat \ {0}, hi \in Nat : hi <= shm.mx =>
         /\ \A q \in Pages : FrameIn(log', q, lo, hi) = FrameIn(log, q, lo, hi)
         /\ OverIn(log', db, lo, hi) = OverIn(log, db, lo, hi)
  <2> SUFFICES ASSUME NEW lo \in Nat \ {0}, NEW hi \in Nat, hi <= shm.mx
               PROVE  /\ \A q \in Pages : FrameIn(log', q, lo, hi) = FrameIn(log, q, lo, hi)
                      /\ OverIn(log', db, lo, hi) = OverIn(log, db, lo, hi)
    OBVIOUS
  <2>1. /\ hi <= Len(log) /\ hi <= Len(log') /\ Len(log') \in Nat
        /\ \A i \in 1 .. hi : log[i] = log'[i]
    BY <1>5, <1>6
  <2>2. \A q \in Pages : FrameIn(log, q, lo, hi) = FrameIn(log', q, lo, hi)
    BY <1>5, <2>1, FrameAgree
  <2>3. OverIn(log, db, lo, hi) = OverIn(log', db, lo, hi)
    <3>1. ASSUME NEW q \in Pages, FrameIn(log, q, lo, hi) # 0
          PROVE  log[FrameIn(log, q, lo, hi)] = log'[FrameIn(log, q, lo, hi)]
      <4>1. FrameIn(log, q, lo, hi) \in 1 .. hi
        BY <3>1, FrameFacts
      <4> QED
        BY <2>1, <4>1
    <3> QED
      BY <2>2, <3>1, Zenon DEF OverIn
  <2> QED
    BY <2>2, <2>3
<1>12. ASSUME NEW d \in Conns PROVE ConnOk(d)'
  <2>1. /\ LocksOf(d) /\ HeaderOf(d) /\ MarkOf(d) /\ CacheOf(d) /\ CheckpointOf(d)
        /\ hdr[d] \in Headers /\ hdr[d].mx \in Nat
    BY <1>3 DEF IInv, ConnOk, LocalTypes, Headers
  <2>2. pc'[d] # pc[d] => d = c /\ pc'[d] = "publish" /\ pc[d] = "write"
    BY <1>2, <1>9
  <2>3. d # c => pc[d] \notin Writing /\ hdr'[d] = hdr[d]
    BY <1>4, <1>8, <2>1 DEF LocksOf
  <2>4. Top(d)' = Top(d) /\ (InTransaction(d)' <=> InTransaction(d))
    BY <1>2, <1>4, <1>8, <2>2 DEF Top, InTransaction
  <2>5. LocksOf(d)'
    BY <1>2, <1>4, <2>1, <2>2 DEF LocksOf, Writing, WriterAt, Checkpointing, Unlocked
  <2>6. HeaderOf(d)'
    <3>1. CASE d # c
      BY <1>2, <1>9, <2>1, <2>3, <3>1 DEF HeaderOf, Older
    <3>2. CASE d = c
      <4>1. pc'[c] \in Writing
        BY <1>9 DEF Writing
      <4>2. /\ shm.mx <= mx + 1 /\ mx + 1 <= Len(log') /\ mx + 1 > shm.mx
        BY <1>5, <1>6
      <4>3. ASSUME NEW j \in shm.mx + 1 .. mx + 1, log'[j].commit
            PROVE  pc'[c] = "publish" /\ j = mx + 1
        <5>1. CASE j = mx + 1
          BY <1>6, <1>9, <4>3, <5>1
        <5>2. CASE j # mx + 1
          <6>1. j \in shm.mx + 1 .. mx /\ j \in 1 .. mx
            BY <1>5, <4>3, <5>2
          <6>2. log[j].commit
            BY <1>6, <4>3, <6>1
          <6>3. pc[c] = "publish"
            BY <1>2, <1>3, <6>1, <6>2 DEF HeaderOf, Writing, mx
          <6> QED
            BY <1>2, <6>3
        <5> QED
          BY <5>1, <5>2
      <4> QED
        BY <1>2, <1>4, <1>6, <1>8, <3>2, <4>1, <4>2, <4>3 DEF HeaderOf
    <3> QED
      BY <3>1, <3>2
  <2>7. MarkOf(d)'
    <3>1. \A k \in Conns : pc'[k] \in {"ckscan", "ckcopy"} => pc[k] \in {"ckscan", "ckcopy"}
      BY <1>9
    <3>2. CASE d # c
      BY <1>2, <1>9, <2>1, <2>3, <2>4, <3>1, <3>2 DEF MarkOf
    <3>3. CASE d = c
      <4>1. InTransaction(c) /\ pc'[c] \in {"write", "publish"}
        BY <1>2, <1>9 DEF InTransaction
      <4> QED
        BY <1>2, <1>4, <1>8, <2>1, <2>4, <3>1, <3>3, <4>1 DEF MarkOf
    <3> QED
      BY <3>2, <3>3
  <2>8. CacheOf(d)'
    <3>1. 1 \in Nat \ {0} /\ shm.mx <= shm.mx
      BY <1>5
    <3>2. OverIn(log', db, 1, shm.mx) = OverIn(log, db, 1, shm.mx)
      BY <1>5, <1>11, <3>1
    <3>3. hdr'[d] = shm => d # c
      BY <1>5, <1>8
    <3>4. InTransaction(d) /\ rd[d] # 0 =>
            OverIn(log', db, minFrame[d], Top(d)) = OverIn(log, db, minFrame[d], Top(d))
      <4>1. ASSUME InTransaction(d), rd[d] # 0
            PROVE  rd[d] \in Slots
        BY <1>3, <2>1, <4>1 DEF InTransaction, LocksOf, LocalTypes
      <4> QED
        BY <1>11, <4>1, ReaderBounds
    <3> QED
      BY <1>2, <2>1, <2>3, <2>4, <3>2, <3>3, <3>4 DEF CacheOf
  <2>9. CheckpointOf(d)'
    <3>1. pc'[d] \in {"ckstart", "ckscan", "ckcopy"} => pc'[d] = pc[d] /\ hdr'[d] = hdr[d]
      BY <1>2, <1>8, <2>2
    <3>2. CASE pc[d] \notin {"ckscan", "ckcopy"}
      BY <1>2, <2>1, <3>1, <3>2 DEF CheckpointOf
    <3>3. CASE pc[d] \in {"ckscan", "ckcopy"}
      <4>1. ck.safe <= hdr[d].mx /\ hdr[d].mx <= shm.mx /\ ck.safe \in Nat
        BY <3>3, CheckpointBounds
      <4>2. \A q \in Pages : FrameIn(log', q, 1, hdr[d].mx) = FrameIn(log, q, 1, hdr[d].mx)
        BY <1>11, <2>1, <4>1, 1 \in Nat \ {0}
      <4>3. pc[d] = "ckcopy" => ck.safe <= synced'
        BY <1>5, <1>7, <2>1, <4>1 DEF CheckpointOf
      <4>4. \A q \in Pages : nBackfill < ck.frame[q] /\ ck.frame[q] <= ck.safe =>
              log'[ck.frame[q]] = log[ck.frame[q]]
        <5>1. ASSUME NEW q \in Pages, nBackfill < ck.frame[q], ck.frame[q] <= ck.safe
              PROVE  ck.frame[q] \in 1 .. mx
          <6>1. ck.frame[q] \in Nat
            BY <1>3 DEF Ckpts
          <6> QED
            BY <1>5, <2>1, <4>1, <5>1, <6>1
        <5> QED
          BY <1>6, <5>1
      <4> QED
        BY <1>2, <2>1, <3>1, <3>3, <4>2, <4>3, <4>4 DEF CheckpointOf
    <3> QED
      BY <3>2, <3>3
  <2> QED
    BY <2>5, <2>6, <2>7, <2>8, <2>9 DEF ConnOk
<1>13. IndexOk'
  <2>1. shm.mx <= Len(log') /\ nBackfill <= synced'
    BY <1>5, <1>6, <1>7
  <2>2. ASSUME NEW q \in Pages, 0 < FrameIn(log', q, 1, shm.mx),
               FrameIn(log', q, 1, shm.mx) <= nBackfill
        PROVE  db[q] = log'[FrameIn(log', q, 1, shm.mx)].val
    <3>1. FrameIn(log', q, 1, shm.mx) = FrameIn(log, q, 1, shm.mx)
      <4>1. 1 \in Nat \ {0} /\ shm.mx <= shm.mx
        BY <1>5
      <4> QED
        BY <1>5, <1>11, <4>1
    <3>2. FrameIn(log, q, 1, shm.mx) \in 1 .. mx
      <4>1. FrameIn(log, q, 1, shm.mx) \in Nat
        BY <1>5, FrameFacts, 1 \in Nat \ {0}
      <4> QED
        BY <1>5, <2>2, <3>1, <4>1
    <3> QED
      BY <1>3, <1>6, <2>2, <3>1, <3>2 DEF IndexOk
  <2> QED
    BY <1>2, <1>3, <2>1, <2>2 DEF IndexOk
<1>14. Durability'
  <2>1. Committed = shm.mx /\ Committed' = shm.mx
    BY <1>2, <1>4 DEF Committed
  <2>2. ASSUME NEW j \in DOMAIN log', log'[j].commit, j > shm.mx
        PROVE  Publishing' /\ j = Len(log')
    <3>1. j \in 1 .. mx + 1
      BY <1>6, <2>2
    <3>2. CASE j = mx + 1
      <4>1. pc'[c] = "publish"
        BY <1>6, <1>9, <2>2, <3>2
      <4> QED
        BY <1>4, <1>6, <3>2, <4>1 DEF Publishing
    <3>3. CASE j # mx + 1
      <4>1. j \in shm.mx + 1 .. mx /\ j \in 1 .. mx
        BY <1>5, <2>2, <3>1, <3>3
      <4>2. log[j].commit
        BY <1>6, <2>2, <4>1
      <4>3. pc[c] = "publish"
        BY <1>2, <1>3, <4>1, <4>2 DEF HeaderOf, Writing, mx
      <4> QED
        BY <1>2, <4>3
    <3> QED
      BY <3>2, <3>3
  <2>3. Commits(log', synced' + 1, shm.mx) <= Commits(log, synced + 1, shm.mx)
    <3>1. synced + 1 \in Int /\ mx + 1 \in Int /\ shm.mx \in Int /\ shm.mx < mx + 1
      BY <1>5
    <3>2. CASE synced' = synced
      <4>1. \A i \in synced + 1 .. shm.mx : i \in 1 .. mx
        BY <1>5
      <4>2. \A i \in synced + 1 .. shm.mx : log'[i].commit => log[i].commit
        BY <1>6, <4>1
      <4>3. Commits(log', synced + 1, shm.mx) <= Commits(log, synced + 1, shm.mx)
        BY <3>1, <4>2, CommitsMonotone
      <4> QED
        BY <3>2, <4>3
    <3>3. CASE synced' = mx
      <4>1. Commits(log', mx + 1, shm.mx) = 0
        BY <3>1, CommitsFacts
      <4>2. Commits(log, synced + 1, shm.mx) \in Nat
        BY <3>1, CommitsFacts
      <4> QED
        BY <3>3, <4>1, <4>2
    <3> QED
      BY <1>7, <3>2, <3>3
  <2>4. Commits(log', synced' + 1, shm.mx) \in Nat /\ Commits(log, synced + 1, shm.mx) \in Nat
    BY <1>5, <1>7, CommitsFacts
  <2>5. durable \in Nat /\ Len(history) \in Nat
    BY <1>3 DEF GhostTypes
  <2>6. durable + Commits(log', synced' + 1, shm.mx) <= Len(history)
    BY <1>3, <2>1, <2>3, <2>4, <2>5 DEF Durability
  <2> QED
    BY <1>2, <2>1, <2>2, <2>6 DEF Durability
<1> QED
  BY <1>10, <1>12, <1>13, <1>14 DEF IInv

(* Publish: the frames of the writer come under the header, and no other   *)
(* connection has seen that header.                                        *)
LEMMA PublishKeeps ==
  ASSUME IInv, NEW c \in Conns, Publish(c)
  PROVE  IInv'
<1> DEFINE W == OverIn(log, db, 1, Len(log))
<1>1. /\ pc[c] = "publish" /\ shm' = hdr[c] /\ writer' = Nobody
      /\ pc' = [pc EXCEPT ![c] = "read"]
      /\ UNCHANGED <<log, db, dirty, nBackfill, mark, ckpt, zero, ck, txn, crashes>>
      /\ UNCHANGED <<hdr, rd, minFrame, pick>>
  BY DEF Publish, Goto
<1>2. /\ LocksOf(c) /\ HeaderOf(c) /\ MarkOf(c) /\ CacheOf(c)
      /\ FileTypes /\ LocalTypes /\ IndexTypes /\ IndexOk /\ GhostTypes /\ ck \in Ckpts
      /\ Durability
  BY DEF IInv, ConnOk, Types
<1>3. /\ hdr[c] \in Headers /\ shm \in Headers /\ log \in Seq(Frames) /\ db \in Images
      /\ nBackfill \in Nat /\ synced \in Nat /\ Len(log) \in Nat
      /\ shm.mx \in Nat /\ shm.gen \in Int
  BY <1>2 DEF LocalTypes, IndexTypes, FileTypes, Headers
<1>4. /\ writer = c /\ ckpt # c /\ shm # NoHdr /\ c # Nobody
      /\ rd[c] \in Slots /\ rd[c] # 0 /\ rd[c] # NoLock /\ InTransaction(c)
  <2>1. rd[c] \in Slots
    BY <1>1, <1>2 DEF LocksOf
  <2> QED
    BY <1>1, <1>2, <2>1, WalAssumption
    DEF LocksOf, HeaderOf, Checkpointing, Writing, Slots, NoLock, InTransaction
<1>5. /\ hdr[c].gen = shm.gen /\ hdr[c].mx = Len(log) /\ shm.mx < Len(log)
      /\ shm.gen >= 0 /\ nBackfill <= shm.mx /\ nBackfill <= synced /\ synced <= Len(log)
  <2>1. hdr[c].gen = shm.gen /\ hdr[c].mx = Len(log) /\ shm.mx < Len(log)
    BY <1>1, <1>2, <1>3 DEF HeaderOf, Writing
  <2> QED
    BY <1>2, <1>3, <1>4, <2>1 DEF IndexOk, FileTypes
<1>6. shm' # NoHdr /\ shm'.gen = shm.gen /\ shm'.mx = Len(log)
  BY <1>1, <1>3, <1>5 DEF NoHdr
<1>7. W = OverIn(log, db, minFrame[c], Len(log)) /\ W \in Images
  <2>1. minFrame[c] \in 1 .. nBackfill + 1
    BY <1>4, ReaderBounds
  <2>2. \A p \in Pages :
          0 < FrameIn(log, p, 1, shm.mx) /\ FrameIn(log, p, 1, shm.mx) <= nBackfill =>
            db[p] = log[FrameIn(log, p, 1, shm.mx)].val
    BY <1>2 DEF IndexOk
  <2>3. nBackfill <= shm.mx /\ shm.mx <= Len(log)
    BY <1>3, <1>5
  <2>4. W = OverIn(log, db, minFrame[c], Len(log))
    <3>1. nBackfill \in Nat /\ shm.mx \in Nat /\ Len(log) \in Nat
      BY <1>3
    <3>2. OverIn(log, db, minFrame[c], Len(log)) = OverIn(log, db, 1, Len(log))
      BY <2>1, <2>2, <2>3, <3>1, OverFrom, Zenon
    <3> QED
      BY <1>3, <3>2
  <2>5. W \in Images
    BY <1>3, OverImage, 1 \in Nat \ {0}
  <2> QED
    BY <2>4, <2>5
<1>8. Written(c) = W
  BY <1>5, <1>7, Bridge
<1> HIDE DEF W
<1>9. /\ cache' = [cache EXCEPT ![c] = W]
      /\ history' = Append(history, W)
  BY <1>8 DEF Publish
<1>10. /\ history \in Seq(Images) /\ history' \in Seq(Images)
       /\ Len(history) \in Nat /\ Len(history') = Len(history) + 1
       /\ durable \in 1 .. Len(history)
  BY <1>2, <1>7, <1>9 DEF GhostTypes
<1>11. \/ synced' = Len(log) /\ durable' = Len(history')
       \/ synced' = synced /\ durable' = durable
  BY DEF Publish
<1>12. synced' \in Nat /\ synced <= synced' /\ synced' <= Len(log) /\ durable' \in 1 .. Len(history')
  BY <1>3, <1>5, <1>10, <1>11
<1>13. /\ pc'[c] = "read" /\ cache'[c] = W
       /\ \A d \in Conns \ {c} : pc'[d] = pc[d] /\ cache'[d] = cache[d]
  BY <1>1, <1>2, <1>9 DEF LocalTypes
<1>14. Types'
  <2>1. FileTypes'
    BY <1>1, <1>2, <1>3, <1>12 DEF FileTypes
  <2>2. LocalTypes'
    BY <1>1, <1>2, <1>7, <1>9 DEF LocalTypes, PCs
  <2>3. IndexTypes'
    BY <1>1, <1>2, <1>3 DEF IndexTypes
  <2>4. GhostTypes' /\ (ck \in Ckpts)'
    BY <1>1, <1>2, <1>10, <1>12 DEF GhostTypes
  <2> QED
    BY <2>1, <2>2, <2>3, <2>4 DEF Types
<1>15. ASSUME NEW d \in Conns PROVE ConnOk(d)'
  <2>1. /\ LocksOf(d) /\ HeaderOf(d) /\ MarkOf(d) /\ CacheOf(d) /\ CheckpointOf(d)
        /\ hdr[d] \in Headers /\ hdr[d].mx \in Nat /\ hdr[d].gen \in Int
    BY <1>2 DEF IInv, ConnOk, LocalTypes, Headers
  <2>2. CASE d = c
    <3>1. LocksOf(c)'
      BY <1>1, <1>2, <1>4, <1>13, WalAssumption
      DEF LocksOf, Writing, WriterAt, Checkpointing, Unlocked
    <3>2. HeaderOf(c)'
      BY <1>1, <1>3, <1>4, <1>6, <1>13 DEF HeaderOf, Older, Writing
    <3>3. Top(c) = shm.mx /\ Top(c)' = Len(log)
      BY <1>1, <1>4, <1>5 DEF Top
    <3>4. MarkOf(c)'
      <4>1. mark[rd[c]] \in Nat /\ mark[rd[c]] <= shm.mx /\ minFrame[c] <= nBackfill + 1
        BY <1>2, <1>4, <3>3, WalAssumption DEF MarkOf, IndexTypes, NotUsed
      <4>2. \A k \in Conns : pc'[k] \in {"ckscan", "ckcopy"} /\ rd[c] < ck.slot => ck.safe <= Len(log)
        <5>1. ASSUME NEW k \in Conns, pc'[k] \in {"ckscan", "ckcopy"}, rd[c] < ck.slot
              PROVE  ck.safe <= Len(log)
          <6>1. pc[k] \in {"ckscan", "ckcopy"}
            BY <1>13, <5>1
          <6>2. ck.safe <= hdr[k].mx /\ hdr[k].mx <= shm.mx /\ ck.safe \in Nat /\ hdr[k].mx \in Nat
            BY <6>1, CheckpointBounds
          <6> QED
            BY <1>3, <1>5, <6>2
        <5> QED
          BY <5>1
      <4>3. mark[rd[c]] <= Len(log)
        BY <1>3, <1>5, <4>1
      <4> QED
        BY <1>1, <1>4, <1>5, <1>6, <1>13, <3>3, <4>1, <4>2, <4>3 DEF MarkOf
    <3>5. CacheOf(c)'
      BY <1>1, <1>4, <1>6, <1>7, <1>13, <3>3 DEF CacheOf, W
    <3>6. CheckpointOf(c)'
      BY <1>13 DEF CheckpointOf
    <3> QED
      BY <2>2, <3>1, <3>2, <3>4, <3>5, <3>6 DEF ConnOk
  <2>3. CASE d # c
    <3>1. /\ pc'[d] = pc[d] /\ cache'[d] = cache[d] /\ writer # d /\ writer' # d
          /\ pc[d] \notin Writing
      BY <1>1, <1>4, <1>13, <2>1, <2>3, WalAssumption DEF LocksOf
    <3>2. Older(hdr[d])' /\ hdr[d] # shm'
      BY <1>1, <1>3, <1>5, <1>6, <2>1, <3>1 DEF HeaderOf, Older
    <3>3. Top(d)' = Top(d) /\ (InTransaction(d)' <=> InTransaction(d))
      BY <1>1, <3>1 DEF Top, InTransaction
    <3>4. LocksOf(d)'
      BY <1>1, <2>1, <3>1 DEF LocksOf
    <3>5. HeaderOf(d)'
      BY <1>1, <1>6, <3>1, <3>2 DEF HeaderOf, Writing
    <3>6. MarkOf(d)'
      <4>1. \A k \in Conns : pc'[k] \in {"ckscan", "ckcopy"} => pc[k] \in {"ckscan", "ckcopy"}
        BY <1>13
      <4> QED
        BY <1>1, <1>6, <2>1, <3>1, <3>2, <3>3, <4>1 DEF MarkOf
    <3>7. CacheOf(d)'
      BY <1>1, <2>1, <3>1, <3>2, <3>3 DEF CacheOf
    <3>8. CheckpointOf(d)'
      <4>1. pc[d] = "ckcopy" => ck.safe <= synced'
        <5>1. ck.safe \in Nat
          BY <1>2 DEF Ckpts
        <5> QED
          BY <1>3, <1>12, <2>1, <5>1 DEF CheckpointOf
      <4> QED
        BY <1>1, <1>6, <2>1, <3>1, <4>1 DEF CheckpointOf
    <3> QED
      BY <3>4, <3>5, <3>6, <3>7, <3>8 DEF ConnOk
  <2> QED
    BY <2>2, <2>3
<1>16. IndexOk'
  <2>1. /\ nBackfill <= Len(log) /\ nBackfill <= synced'
    BY <1>3, <1>5, <1>12
  <2>2. ASSUME NEW q \in Pages, 0 < FrameIn(log, q, 1, Len(log)),
               FrameIn(log, q, 1, Len(log)) <= nBackfill
        PROVE  db[q] = log[FrameIn(log, q, 1, Len(log))].val
    <3>1. FrameIn(log, q, 1, Len(log)) \in Nat
      BY <1>3, FrameFacts, 1 \in Nat \ {0}
    <3>2. FrameIn(log, q, 1, Len(log)) <= shm.mx /\ shm.mx <= Len(log)
      BY <1>3, <1>5, <2>2, <3>1
    <3>3. FrameIn(log, q, 1, Len(log)) = FrameIn(log, q, 1, shm.mx)
      BY <1>3, <3>2, FrameUpTo
    <3> QED
      BY <1>2, <2>2, <3>3 DEF IndexOk
  <2> QED
    BY <1>1, <1>2, <1>3, <1>5, <1>6, <2>1, <2>2 DEF IndexOk
<1>17. Durability'
  <2>1. Committed = shm.mx /\ Committed' = Len(log)
    BY <1>4, <1>6 DEF Committed
  <2>2. \A j \in DOMAIN log : ~(j > Len(log))
    BY <1>3
  <2>3. CASE synced' = Len(log) /\ durable' = Len(history')
    <3>1. Commits(log, Len(log) + 1, Len(log)) = 0
      BY <1>3, CommitsFacts
    <3> QED
      BY <1>1, <1>6, <1>10, <2>1, <2>2, <2>3, <3>1 DEF Durability
  <2>4. CASE synced' = synced /\ durable' = durable
    <3>1. ASSUME NEW i \in synced + 1 .. Len(log), log[i].commit
          PROVE  i = Len(log) \/ (i \in synced + 1 .. shm.mx /\ log[i].commit)
      <4>1. i \in DOMAIN log /\ ~(i <= synced)
        BY <1>3
      <4>2. CASE i > shm.mx
        BY <1>2, <1>4, <3>1, <4>1, <4>2 DEF Durability
      <4>3. CASE ~(i > shm.mx)
        BY <1>3, <3>1, <4>3
      <4> QED
        BY <4>2, <4>3
    <3>2. synced + 1 \in Int /\ Len(log) \in Int /\ shm.mx \in Int
      BY <1>3
    <3>3. Commits(log, synced + 1, Len(log)) <= Commits(log, synced + 1, shm.mx) + 1
      BY <3>1, <3>2, CommitsAdd
    <3>4. Commits(log, synced + 1, Len(log)) \in Nat /\ Commits(log, synced + 1, shm.mx) \in Nat
      BY <3>2, CommitsFacts
    <3>5. durable + Commits(log, synced + 1, Len(log)) <= Len(history) + 1
      BY <1>2, <1>10, <2>1, <3>3, <3>4 DEF Durability
    <3> QED
      BY <1>1, <1>6, <1>10, <2>1, <2>2, <2>4, <3>5 DEF Durability
  <2> QED
    BY <1>11, <2>3, <2>4
<1> QED
  BY <1>14, <1>15, <1>16, <1>17 DEF IInv

(* Restart: the log starts again when all of it is copied, nobody reads in *)
(* it, and, with HeaderFresh, no checkpoint stands on its old header.      *)
LEMMA RestartKeeps ==
  ASSUME IInv, HeaderFresh, NEW c \in Conns, Restart(c)
  PROVE  IInv'
<1>1. /\ pc[c] = "write" /\ rd[c] = 0
      /\ \A k \in Checkpointers : pc[k] # "ckstart"
      /\ hdr' = [hdr EXCEPT ![c] = shm']
      /\ rd' = [rd EXCEPT ![c] = NoLock]
      /\ pc' = [pc EXCEPT ![c] = "pick"]
      /\ UNCHANGED <<files, locks, ck, ghost>>
      /\ UNCHANGED <<log, synced, db, dirty, writer, ckpt, zero, txn, crashes, history, durable>>
      /\ UNCHANGED <<minFrame, pick, cache>>
  BY DEF Restart, Goto, files, locks, ghost
<1>2. /\ LocksOf(c) /\ HeaderOf(c) /\ MarkOf(c) /\ CacheOf(c)
      /\ FileTypes /\ LocalTypes /\ IndexTypes /\ IndexOk /\ GhostTypes /\ ck \in Ckpts
      /\ Durability
  BY DEF IInv, ConnOk, Types
<1>3. /\ shm \in Headers /\ log \in Seq(Frames) /\ db \in Images
      /\ nBackfill \in Nat /\ synced \in Nat /\ Len(log) \in Nat
      /\ shm.mx \in Nat /\ shm.gen \in Int
  BY <1>2 DEF LocalTypes, IndexTypes, FileTypes, Headers
<1>4. /\ writer = c /\ ckpt # c /\ shm # NoHdr /\ hdr[c] = shm /\ nBackfill = shm.mx
      /\ InTransaction(c) /\ shm.gen >= 0 /\ nBackfill <= synced
  BY <1>1, <1>2, WalAssumption
  DEF LocksOf, HeaderOf, MarkOf, IndexOk, Checkpointing, Writing, InTransaction
<1>5. cache[c] = db
  BY <1>1, <1>2, <1>4 DEF CacheOf
<1>6. /\ pc'[c] = "pick" /\ rd'[c] = NoLock /\ hdr'[c] = shm' /\ cache'[c] = db
      /\ \A d \in Conns \ {c} : pc'[d] = pc[d] /\ rd'[d] = rd[d] /\ hdr'[d] = hdr[d]
      /\ \A d \in Conns : minFrame'[d] = minFrame[d] /\ pick'[d] = pick[d] /\ cache'[d] = cache[d]
  BY <1>1, <1>2, <1>5 DEF LocalTypes
<1>7. NoLock \notin Slots /\ NoLock # 0
  BY WalAssumption DEF NoLock, Slots
<1>8. LocksOf(c)'
  BY <1>1, <1>2, <1>4, <1>6, <1>7 DEF LocksOf, Writing, WriterAt, Checkpointing, Unlocked
<1>9. MarkOf(c)'
  BY <1>6, <1>7 DEF MarkOf, InTransaction
<1>10. CASE UNCHANGED index
  <2>1. UNCHANGED <<shm, nBackfill, mark>>
    BY <1>10 DEF index
  <2>2. hdr' = hdr /\ hdr'[c] = hdr[c]
    BY <1>1, <1>2, <1>4, <2>1 DEF LocalTypes
  <2>3. LocalTypes'
    BY <1>1, <1>2, <2>2 DEF LocalTypes, PCs
  <2>4. HeaderOf(c)'
    BY <1>1, <1>3, <1>4, <1>6, <2>1, <2>2 DEF HeaderOf, Older, Writing
  <2>5. CacheOf(c)'
    BY <1>1, <1>4, <1>6, <2>1, Newest DEF CacheOf, InTransaction
  <2>6. /\ pc[c] \notin Checkpointing \cup {"publish"} /\ pc'[c] # "publish"
        /\ mark' \in [Slots -> 0 .. NotUsed] /\ \A i \in Slots : mark'[i] # mark[i] => Free(i)
        /\ \A d \in Conns \ {c} :
             /\ pc'[d] = pc[d] /\ hdr'[d] = hdr[d] /\ rd'[d] = rd[d]
             /\ minFrame'[d] = minFrame[d] /\ pick'[d] = pick[d] /\ cache'[d] = cache[d]
    BY <1>1, <1>2, <1>6, <2>1 DEF IndexTypes, Checkpointing
  <2>7. UNCHANGED <<files, shm, nBackfill, locks, ck, ghost>>
    BY <1>1, <2>1
  <2> QED
    BY <1>4, <1>8, <1>9, <2>3, <2>4, <2>5, <2>6, <2>7, LocalStep
<1>11. CASE RestartHdr /\ \A i \in Slots : Free(i)
  <2>1. /\ shm' = [mx |-> 0, gen |-> shm.gen + 1] /\ nBackfill' = 0
        /\ mark' = [i \in Slots |-> IF i = 1 THEN 0 ELSE NotUsed]
    BY <1>11 DEF RestartHdr
  <2>2. /\ shm' \in Headers /\ shm' # NoHdr /\ shm'.mx = 0 /\ shm'.gen = shm.gen + 1
    <3>1. shm.gen + 1 \in Int /\ shm.gen + 1 # -1 /\ 0 \in 0 .. MaxFrames
      BY <1>3, <1>4, WalAssumption
    <3> QED
      BY <2>1, <3>1 DEF Headers, NoHdr
  <2>3. \A k \in Conns : pc[k] \notin Checkpointing
    <3>1. ASSUME NEW k \in Conns, pc[k] \in Checkpointing PROVE FALSE
      <4>1. pc[k] \notin {"ckscan", "ckcopy"}
        BY <1>3, <1>4, <3>1, CheckpointBounds
      <4>2. ckpt = k /\ k # Nobody /\ ckpt \in Checkpointers \cup {Nobody}
        BY <1>2, <3>1, WalAssumption DEF IInv, ConnOk, LocksOf, IndexTypes
      <4> QED
        BY <1>1, <3>1, <4>1, <4>2 DEF Checkpointing
    <3> QED
      BY <3>1
  <2>4. \A d \in Conns : rd[d] \notin Slots
    BY <1>11 DEF Free
  <2>5. Types'
    <3>1. mark' \in [Slots -> 0 .. NotUsed]
      <4>1. 0 \in 0 .. NotUsed /\ NotUsed \in 0 .. NotUsed
        BY WalAssumption DEF NotUsed
      <4> QED
        BY <2>1, <4>1
    <3>2. nBackfill' \in 0 .. MaxFrames
      BY <2>1, WalAssumption
    <3>3. IndexTypes'
      BY <1>1, <1>2, <2>2, <3>1, <3>2 DEF IndexTypes
    <3>4. LocalTypes'
      BY <1>1, <1>2, <2>2 DEF LocalTypes, PCs
    <3>5. FileTypes' /\ GhostTypes' /\ (ck \in Ckpts)'
      BY <1>1, <1>2 DEF FileTypes, GhostTypes
    <3> QED
      BY <3>3, <3>4, <3>5 DEF Types
  <2>6. OverIn(log, db, 1, 0) = db
    <3>1. ASSUME NEW p \in Pages PROVE FrameIn(log, p, 1, 0) = 0
      BY FrameFacts, 1 \in Nat \ {0}, 0 \in Nat
    <3>2. OverIn(log, db, 1, 0) = [p \in Pages |-> db[p]]
      BY <3>1, Zenon DEF OverIn
    <3> QED
      BY <1>3, <3>2 DEF Images
  <2>7. ASSUME NEW d \in Conns PROVE ConnOk(d)'
    <3>1. CASE d = c
      <4>1. HeaderOf(c)'
        BY <1>6, <2>2 DEF HeaderOf, Older, Writing
      <4>2. CacheOf(c)'
        BY <1>1, <1>6, <2>2, <2>6 DEF CacheOf, InTransaction
      <4>3. CheckpointOf(c)'
        BY <1>6 DEF CheckpointOf
      <4> QED
        BY <1>8, <1>9, <3>1, <4>1, <4>2, <4>3 DEF ConnOk
    <3>2. CASE d # c
      <4>1. /\ LocksOf(d) /\ HeaderOf(d) /\ MarkOf(d) /\ CacheOf(d)
            /\ hdr[d] \in Headers /\ hdr[d].mx \in Nat /\ hdr[d].gen \in Int
        BY <1>2 DEF IInv, ConnOk, LocalTypes, Headers
      <4>2. /\ pc'[d] = pc[d] /\ cache'[d] = cache[d] /\ hdr'[d] = hdr[d] /\ rd'[d] = rd[d]
            /\ pick'[d] = pick[d] /\ minFrame'[d] = minFrame[d]
            /\ writer # d /\ pc[d] \notin Writing /\ rd[d] \notin Slots
        BY <1>4, <1>6, <2>4, <3>2, <4>1 DEF LocksOf
      <4>3. hdr[d].gen <= shm.gen /\ hdr[d] # shm' /\ hdr[d].gen < shm'.gen
        BY <1>3, <2>2, <4>1, <4>2 DEF HeaderOf, Older
      <4>4. LocksOf(d)'
        BY <1>1, <4>1, <4>2 DEF LocksOf
      <4>5. HeaderOf(d)'
        <5>1. Older(hdr[d])' /\ writer' # d /\ pc'[d] \notin Writing /\ shm' # NoHdr
          BY <1>1, <2>2, <4>2, <4>3 DEF Older
        <5> QED
          BY <5>1 DEF HeaderOf, Writing
      <4>6. MarkOf(d)'
        BY <4>1, <4>2, <4>3 DEF MarkOf
      <4>7. CacheOf(d)'
        <5>1. InTransaction(d) => cache[d] = db /\ rd[d] = 0
          BY <1>2, <4>1, <4>2 DEF CacheOf, InTransaction, LocksOf, LocalTypes
        <5>2. InTransaction(d)' <=> InTransaction(d)
          BY <4>2 DEF InTransaction
        <5> QED
          BY <1>1, <4>2, <4>3, <5>1, <5>2 DEF CacheOf
      <4>8. CheckpointOf(d)'
        BY <2>3, <4>2 DEF CheckpointOf, Checkpointing
      <4> QED
        BY <4>4, <4>5, <4>6, <4>7, <4>8 DEF ConnOk
    <3> QED
      BY <3>1, <3>2
  <2>8. IndexOk'
    <3>1. shm'.gen >= 0 /\ 0 <= Len(log) /\ 0 <= synced
      BY <1>3, <1>4, <2>2
    <3>2. ASSUME NEW p \in Pages
          PROVE  ~(0 < FrameIn(log, p, 1, 0) /\ FrameIn(log, p, 1, 0) <= 0)
      BY FrameFacts, 1 \in Nat \ {0}, 0 \in Nat
    <3> QED
      BY <1>1, <1>2, <2>1, <2>2, <3>1, <3>2 DEF IndexOk
  <2>9. Durability'
    <3>1. Committed' = 0
      BY <2>2 DEF Committed
    <3>2. ~Publishing
      BY <1>1, <1>4 DEF Publishing, Conns, IInv, ConnOk, LocksOf, Writing
    <3>3. ASSUME NEW j \in DOMAIN log, log[j].commit PROVE j <= synced
      <4>1. CASE j > shm.mx
        BY <1>2, <1>4, <3>2, <3>3, <4>1 DEF Durability
      <4>2. CASE ~(j > shm.mx)
        BY <1>3, <1>4, <4>2
      <4> QED
        BY <4>1, <4>2
    <3>4. Commits(log, synced + 1, 0) = 0
      BY <1>3, CommitsFacts
    <3>5. durable + 0 <= Len(history)
      BY <1>2 DEF GhostTypes
    <3> QED
      BY <1>1, <3>1, <3>3, <3>4, <3>5 DEF Durability
  <2> QED
    BY <2>5, <2>7, <2>8, <2>9 DEF IInv
<1> QED
  BY <1>10, <1>11 DEF Restart

(* CkptSync: the whole log is on disk before a page of it is copied, and   *)
(* nobody ignores the log any more.                                        *)
LEMMA CkptSyncKeeps ==
  ASSUME IInv, NEW c \in Conns, CkptSync(c)
  PROVE  IInv'
<1>1. CASE ~(nBackfill < ck.safe /\ Free(0))
  <2>1. pc[c] \in Checkpointing
    BY DEF CkptSync, Checkpointing
  <2>2. CkptEnd(c) /\ UNCHANGED <<files, index, writer, rd, minFrame, pick, cache, ghost>>
    BY <1>1 DEF CkptSync, files, ghost
  <2> QED
    BY <2>1, <2>2, CkptEndKeeps
<1>2. CASE nBackfill < ck.safe /\ Free(0)
  <2> DEFINE todo == {p \in Pages : ck.frame[p] > nBackfill /\ ck.frame[p] <= ck.safe}
  <2>1. /\ pc[c] = "ckscan" /\ ck.slot \notin Slots
        /\ zero' = TRUE /\ synced' = Len(log) /\ durable' = Len(history)
        /\ ck' = [ck EXCEPT !.todo = todo]
        /\ pc' = [pc EXCEPT ![c] = "ckcopy"]
        /\ UNCHANGED <<log, db, dirty, shm, nBackfill, mark, writer, ckpt, txn, crashes, history>>
        /\ UNCHANGED <<hdr, rd, minFrame, pick, cache>>
    BY <1>2 DEF CkptSync, Goto, index
  <2>2. /\ LocksOf(c) /\ HeaderOf(c) /\ CheckpointOf(c)
        /\ FileTypes /\ LocalTypes /\ IndexTypes /\ IndexOk /\ GhostTypes /\ ck \in Ckpts
        /\ Durability
    BY DEF IInv, ConnOk, Types
  <2>3. /\ ckpt = c /\ c # Nobody /\ shm # NoHdr /\ zero' \in BOOLEAN /\ zero'
    BY <2>1, <2>2, WalAssumption DEF LocksOf, HeaderOf, Checkpointing
  <2>4. /\ ck.safe \in Nat /\ shm.mx \in Nat /\ nBackfill \in Nat /\ Len(log) \in Nat
        /\ ck.safe <= Len(log) /\ nBackfill <= Len(log) /\ shm.mx <= Len(log)
        /\ nBackfill < ck.safe
    <3>1. /\ ck.safe <= hdr[c].mx /\ hdr[c].mx <= shm.mx /\ nBackfill < shm.mx
          /\ hdr[c].mx \in Nat /\ ck.safe \in Nat /\ shm.mx \in Nat /\ nBackfill \in Nat
      BY <2>1, CheckpointBounds
    <3>2. shm.mx <= Len(log) /\ Len(log) \in Nat
      BY <2>2 DEF IndexOk, FileTypes
    <3> QED
      BY <1>2, <3>1, <3>2
  <2>5. ck.slot = NReader + 1
    <3>1. ck.slot >= 1 /\ ck.slot \in 0 .. NReader + 1 /\ ck.slot \notin 1 .. NReader
      BY <2>1, <2>2 DEF CheckpointOf, Ckpts, Slots
    <3> QED
      BY <3>1, WalAssumption
  <2>6. /\ ck' \in Ckpts /\ ck'.todo = todo /\ ck'.safe = ck.safe /\ ck'.slot = ck.slot
        /\ ck'.frame = ck.frame /\ ck'.changed = ck.changed
    <3>1. todo \subseteq Pages
      OBVIOUS
    <3> HIDE DEF todo
    <3> QED
      BY <2>1, <2>2, <3>1 DEF Ckpts
  <2>7. pc'[c] = "ckcopy" /\ \A d \in Conns \ {c} : pc'[d] = pc[d]
    BY <2>1, <2>2 DEF LocalTypes
  <2>8. Types'
    <3>1. FileTypes'
      BY <2>1, <2>2, <2>4 DEF FileTypes
    <3>2. IndexTypes' /\ LocalTypes'
      BY <2>1, <2>2, <2>3 DEF IndexTypes, LocalTypes, PCs
    <3>3. GhostTypes'
      <4>1. durable' \in 1 .. Len(history)
        BY <2>1, <2>2 DEF GhostTypes
      <4> QED
        BY <2>1, <2>2, <4>1 DEF GhostTypes
    <3> QED
      BY <2>6, <3>1, <3>2, <3>3 DEF Types
  <2>9. ASSUME NEW d \in Conns PROVE ConnOk(d)'
    <3>1. LocksOf(d) /\ HeaderOf(d) /\ MarkOf(d) /\ CacheOf(d) /\ CheckpointOf(d)
      BY DEF IInv, ConnOk
    <3>2. rd[d] # 0
      BY <1>2 DEF Free
    <3>3. /\ pc'[d] = pc[d] \/ (d = c /\ pc[d] = "ckscan" /\ pc'[d] = "ckcopy")
          /\ Top(d)' = Top(d) /\ (InTransaction(d)' <=> InTransaction(d))
      BY <2>1, <2>7 DEF Top, InTransaction
    <3>4. LocksOf(d)'
      BY <2>1, <3>1, <3>2, <3>3 DEF LocksOf, Checkpointing, Writing, WriterAt, Unlocked
    <3>5. HeaderOf(d)'
      BY <2>1, <3>1, <3>3 DEF HeaderOf, Older, Writing
    <3>6. MarkOf(d)'
      <4>1. \A k \in Conns : pc'[k] \in {"ckscan", "ckcopy"} => pc[k] \in {"ckscan", "ckcopy"}
        BY <2>1, <2>7
      <4> QED
        BY <2>1, <2>6, <3>1, <3>2, <3>3, <4>1 DEF MarkOf
    <3>7. CacheOf(d)'
      BY <2>1, <2>6, <3>1, <3>3 DEF CacheOf
    <3>8. CheckpointOf(d)'
      <4>1. CASE d = c
        <5>1. /\ ck'.safe <= synced' /\ ck'.slot >= 1 /\ ck'.slot = NReader + 1
          BY <2>1, <2>4, <2>5, <2>6, WalAssumption
        <5>2. /\ \A p \in ck'.todo : nBackfill < ck.frame[p] /\ ck.frame[p] <= ck.safe
              /\ \A p \in Pages \ ck'.todo : ~(nBackfill < ck.frame[p] /\ ck.frame[p] <= ck.safe)
          <6>1. \A p \in Pages : ck.frame[p] \in Nat
            BY <2>2 DEF Ckpts
          <6> QED
            BY <2>4, <2>6, <6>1
        <5>3. /\ hdr[c].gen = shm.gen /\ nBackfill < hdr[c].mx /\ ck.safe <= hdr[c].mx
              /\ \A p \in Pages : ck.frame[p] = FrameIn(log, p, 1, hdr[c].mx)
          BY <2>1, <2>2 DEF CheckpointOf
        <5> HIDE DEF todo
        <5> QED
          BY <2>1, <2>3, <2>4, <2>6, <2>7, <4>1, <5>1, <5>2, <5>3 DEF CheckpointOf
      <4>2. CASE d # c
        BY <2>3, <2>7, <3>1, <4>2 DEF CheckpointOf, LocksOf, Checkpointing
      <4> QED
        BY <4>1, <4>2
    <3> QED
      BY <3>4, <3>5, <3>6, <3>7, <3>8 DEF ConnOk
  <2>10. IndexOk'
    BY <2>1, <2>2, <2>3, <2>4 DEF IndexOk
  <2>11. Durability'
    <3>1. Committed' = shm.mx
      BY <2>1, <2>3 DEF Committed
    <3>2. Commits(log, Len(log) + 1, shm.mx) = 0
      BY <2>4, CommitsFacts
    <3>3. \A j \in DOMAIN log : j <= Len(log)
      BY <2>2 DEF FileTypes
    <3>4. Len(history) + 0 <= Len(history)
      BY <2>2 DEF GhostTypes
    <3> QED
      BY <2>1, <3>1, <3>2, <3>3, <3>4 DEF Durability
  <2> QED
    BY <2>8, <2>9, <2>10, <2>11 DEF IInv
<1> QED
  BY <1>1, <1>2

(* CkptCopy: the page that is copied has a frame in the log wherever a     *)
(* connection reads, so that nobody sees the database file change.         *)
LEMMA CkptCopyKeeps ==
  ASSUME IInv, NEW c \in Conns, CkptCopy(c)
  PROVE  IInv'
<1> DEFINE least == Min(ck.todo)
<1>1. /\ pc[c] = "ckcopy" /\ ck.todo # {}
      /\ db' = [db EXCEPT ![least] = log[ck.frame[least]].val]
      /\ dirty' = [dirty EXCEPT ![least] = dirty[least] \cup {log[ck.frame[least]].val}]
      /\ ck' = [ck EXCEPT !.todo = ck.todo \ {least}]
      /\ UNCHANGED <<log, synced, shm, nBackfill, mark, writer, ckpt, zero, txn, crashes,
                     history, durable>>
      /\ UNCHANGED <<pc, hdr, rd, minFrame, pick, cache>>
  <2>1. /\ UNCHANGED <<index, locks, ghost>>
        /\ db' = [db EXCEPT ![least] = log[ck.frame[least]].val]
        /\ dirty' = [dirty EXCEPT ![least] = @ \cup {log[ck.frame[least]].val}]
        /\ ck' = [ck EXCEPT !.todo = @ \ {least}]
        /\ UNCHANGED <<log, synced, pc, hdr, rd, minFrame, pick, cache>>
        /\ pc[c] = "ckcopy" /\ ck.todo # {}
    BY Zenon DEF CkptCopy
  <2> HIDE DEF least
  <2>2. ck' = [ck EXCEPT !.todo = ck.todo \ {least}]
    BY <2>1
  <2>3. dirty' = [dirty EXCEPT ![least] = dirty[least] \cup {log[ck.frame[least]].val}]
    BY <2>1
  <2> QED
    BY <2>1, <2>2, <2>3 DEF index, locks, ghost
<1>2. /\ LocksOf(c) /\ HeaderOf(c) /\ CheckpointOf(c)
      /\ FileTypes /\ LocalTypes /\ IndexTypes /\ IndexOk /\ GhostTypes /\ ck \in Ckpts
      /\ Durability
  BY DEF IInv, ConnOk, Types
<1>3. least \in ck.todo
  <2>1. ck.todo \subseteq Pages
    BY <1>2 DEF Ckpts
  <2>2. IsFiniteSet(ck.todo)
    <3>1. IsFiniteSet(Pages)
      BY WalAssumption
    <3> QED
      BY <2>1, <3>1, FS_Subset, Zenon
  <2>3. ck.todo \subseteq Int /\ ck.todo # {}
    BY <1>1, <2>1, WalAssumption
  <2> QED
    BY <2>2, <2>3, MinFacts, Zenon
<1> HIDE DEF least
<1>4. PICK p \in ck.todo : p = least
  BY <1>3
<1>5. PICK f \in Nat : f = ck.frame[p]
  BY <1>2, <1>4 DEF Ckpts
<1>6. PICK val : val = log[f].val
  OBVIOUS
<1>7. /\ p \in Pages
      /\ db' = [db EXCEPT ![p] = val]
      /\ dirty' = [dirty EXCEPT ![p] = dirty[p] \cup {val}]
      /\ ck' = [ck EXCEPT !.todo = ck.todo \ {p}]
  BY <1>1, <1>2, <1>4, <1>5, <1>6 DEF Ckpts
<1>8. /\ zero /\ ck.slot = NReader + 1 /\ nBackfill < f /\ f <= ck.safe
      /\ f = FrameIn(log, p, 1, hdr[c].mx)
  BY <1>1, <1>2, <1>5, <1>7 DEF CheckpointOf
<1>9. /\ ck.safe \in Nat /\ shm.mx \in Nat /\ nBackfill \in Nat /\ Len(log) \in Nat
      /\ hdr[c].mx \in Nat /\ f <= hdr[c].mx /\ f <= shm.mx /\ shm.mx <= Len(log)
      /\ f \in 1 .. Len(log)
  <2>1. /\ ck.safe <= hdr[c].mx /\ hdr[c].mx <= shm.mx
        /\ hdr[c].mx \in Nat /\ ck.safe \in Nat /\ shm.mx \in Nat /\ nBackfill \in Nat
    BY <1>1, CheckpointBounds
  <2>2. shm.mx <= Len(log) /\ Len(log) \in Nat
    BY <1>2 DEF IndexOk, FileTypes
  <2> QED
    BY <1>8, <2>1, <2>2
<1>10. log[f].page = p /\ log[f] \in Frames /\ val \in 0 .. MaxTxns
  <2>1. log[f].page = p
    BY <1>8, <1>9, FrameFacts, 1 \in Nat \ {0}
  <2>2. log[f] \in Frames
    BY <1>2, <1>9 DEF FileTypes
  <2> QED
    BY <1>6, <2>1, <2>2, WalAssumption DEF Frames
<1>11. /\ db' \in Images /\ db'[p] = val /\ \A q \in Pages \ {p} : db'[q] = db[q]
       /\ dirty' \in [Pages -> SUBSET (0 .. MaxTxns)]
       /\ \A q \in Pages : db'[q] \in dirty'[q]
  <2>1. db \in [Pages -> 0 .. MaxTxns] /\ dirty \in [Pages -> SUBSET (0 .. MaxTxns)]
        /\ \A q \in Pages : db[q] \in dirty[q]
    BY <1>2 DEF FileTypes, Images
  <2>2. db' \in Images /\ db'[p] = val /\ \A q \in Pages \ {p} : db'[q] = db[q]
    BY <1>7, <1>10, <2>1 DEF Images
  <2>3. dirty[p] \cup {val} \in SUBSET (0 .. MaxTxns)
    BY <1>7, <1>10, <2>1
  <2>4. dirty' \in [Pages -> SUBSET (0 .. MaxTxns)]
    BY <1>7, <2>1, <2>3
  <2>5. dirty'[p] = dirty[p] \cup {val} /\ \A q \in Pages \ {p} : dirty'[q] = dirty[q]
    BY <1>7, <2>1
  <2> QED
    BY <2>1, <2>2, <2>4, <2>5
<1>12. /\ ck' \in Ckpts /\ ck'.todo = ck.todo \ {p} /\ ck'.safe = ck.safe /\ ck'.slot = ck.slot
       /\ ck'.frame = ck.frame /\ ck'.changed = ck.changed
  BY <1>2, <1>7 DEF Ckpts
<1>13. Types'
  BY <1>1, <1>2, <1>11, <1>12 DEF Types, FileTypes, IndexTypes, LocalTypes, GhostTypes
<1>14. \A lo \in Nat \ {0}, hi \in Nat : lo <= f /\ f <= hi /\ hi <= Len(log) =>
         OverIn(log, db', lo, hi) = OverIn(log, db, lo, hi)
  <2> SUFFICES ASSUME NEW lo \in Nat \ {0}, NEW hi \in Nat, lo <= f, f <= hi, hi <= Len(log)
               PROVE  OverIn(log, db', lo, hi) = OverIn(log, db, lo, hi)
    BY Zenon
  <2>1. FrameIn(log, p, lo, hi) # 0
    <3>1. f \in lo .. hi /\ f <= Len(log) /\ log[f].page = p
      BY <1>9, <1>10
    <3>2. f <= FrameIn(log, p, lo, hi) /\ FrameIn(log, p, lo, hi) \in Nat
      BY <3>1, FrameFacts
    <3> QED
      BY <1>9, <3>2
  <2>2. \A q \in Pages : db'[q] = db[q] \/ q = p
    BY <1>11
  <2>3. \A q \in Pages : FrameIn(log, q, lo, hi) = 0 => db'[q] = db[q]
    BY <2>1, <2>2
  <2> QED
    BY <2>3, Zenon DEF OverIn
<1>15. ASSUME NEW d \in Conns PROVE ConnOk(d)'
  <2>1. LocksOf(d) /\ HeaderOf(d) /\ MarkOf(d) /\ CacheOf(d) /\ CheckpointOf(d) /\ rd[d] # 0
    BY <1>8 DEF IInv, ConnOk, LocksOf
  <2>2. Top(d)' = Top(d) /\ (InTransaction(d)' <=> InTransaction(d))
    BY <1>1 DEF Top, InTransaction
  <2>3. LocksOf(d)' /\ HeaderOf(d)'
    BY <1>1, <2>1 DEF LocksOf, HeaderOf, Older
  <2>4. MarkOf(d)'
    BY <1>1, <1>12, <2>1, <2>2 DEF MarkOf
  <2>5. CacheOf(d)'
    <3>1. OverIn(log, db', 1, shm.mx) = OverIn(log, db, 1, shm.mx)
      <4>1. 1 \in Nat \ {0} /\ 1 <= f
        BY <1>9
      <4> QED
        BY <1>9, <1>14, <4>1
    <3>2. ASSUME InTransaction(d)
          PROVE  OverIn(log, db', minFrame[d], Top(d)) = OverIn(log, db, minFrame[d], Top(d))
      <4>1. rd[d] \in Slots
        BY <1>2, <2>1, <3>2 DEF InTransaction, LocksOf, LocalTypes
      <4>2. /\ Top(d) \in Nat /\ Top(d) <= shm.mx
            /\ minFrame[d] \in 1 .. nBackfill + 1 /\ minFrame[d] \in Nat \ {0}
        BY <3>2, <4>1, ReaderBounds
      <4>3. rd[d] < ck.slot
        BY <1>8, <4>1, WalAssumption DEF Slots
      <4>4. ck.safe <= Top(d)
        BY <1>1, <2>1, <3>2, <4>1, <4>3 DEF MarkOf
      <4>5. minFrame[d] <= f /\ f <= Top(d) /\ Top(d) <= Len(log)
        BY <1>8, <1>9, <4>2, <4>4
      <4> QED
        BY <1>14, <4>2, <4>5
    <3> QED
      BY <1>1, <1>12, <2>1, <2>2, <3>1, <3>2 DEF CacheOf
  <2>6. CheckpointOf(d)'
    <3>1. \A q \in Pages \ ck'.todo : q = p \/ q \in Pages \ ck.todo
      BY <1>12
    <3>2. ck'.todo \subseteq ck.todo
      BY <1>12
    <3>3. pc[d] \in {"ckscan", "ckcopy"} => d = c
      BY <1>1, <1>2, <2>1 DEF LocksOf, Checkpointing
    <3>4. \A q \in Pages \ ck'.todo :
            nBackfill < ck.frame[q] /\ ck.frame[q] <= ck.safe => db'[q] = log[ck.frame[q]].val
      <4>1. ASSUME NEW q \in Pages \ ck'.todo, nBackfill < ck.frame[q], ck.frame[q] <= ck.safe
            PROVE  db'[q] = log[ck.frame[q]].val
        <5>1. CASE q = p
          BY <1>5, <1>6, <1>11, <5>1
        <5>2. CASE q # p
          BY <1>1, <1>2, <1>11, <3>1, <4>1, <5>2 DEF CheckpointOf
        <5> QED
          BY <5>1, <5>2
      <4> QED
        BY <4>1
    <3> QED
      BY <1>1, <1>12, <2>1, <3>2, <3>4 DEF CheckpointOf
  <2> QED
    BY <2>1, <2>3, <2>4, <2>5, <2>6 DEF ConnOk
<1>16. IndexOk'
  <2>1. ASSUME NEW q \in Pages, 0 < FrameIn(log, q, 1, shm.mx),
               FrameIn(log, q, 1, shm.mx) <= nBackfill
        PROVE  db'[q] = log[FrameIn(log, q, 1, shm.mx)].val
    <3>1. CASE q = p
      <4>1. f \in 1 .. shm.mx /\ f <= Len(log) /\ log[f].page = p
        BY <1>9, <1>10
      <4>2. f <= FrameIn(log, p, 1, shm.mx) /\ FrameIn(log, p, 1, shm.mx) \in Nat
        BY <1>9, <4>1, FrameFacts, 1 \in Nat \ {0}
      <4> QED
        BY <1>8, <1>9, <2>1, <3>1, <4>2
    <3>2. CASE q # p
      BY <1>2, <1>11, <2>1, <3>2 DEF IndexOk
    <3> QED
      BY <3>1, <3>2
  <2> QED
    BY <1>1, <1>2, <2>1 DEF IndexOk
<1>17. Durability'
  BY <1>1, <1>2 DEF Durability, Committed, LastCommit, Publishing
<1> QED
  BY <1>13, <1>15, <1>16, <1>17 DEF IInv

(* CkptFinish: what is counted as copied is in the database file.          *)
LEMMA CkptFinishKeeps ==
  ASSUME IInv, NEW c \in Conns, CkptFinish(c)
  PROVE  IInv'
<1>1. /\ pc[c] = "ckcopy" /\ ck.todo = {}
      /\ dirty' = (IF ck.safe = shm.mx THEN [p \in Pages |-> {db[p]}] ELSE dirty)
      /\ nBackfill' = ck.safe
      /\ hdr' = (IF ck.changed THEN [hdr EXCEPT ![c] = NoHdr] ELSE hdr)
      /\ ck' = NoCkpt /\ ckpt' = Nobody /\ zero' = FALSE
      /\ pc' = [pc EXCEPT ![c] = "idle"]
      /\ UNCHANGED <<log, synced, db, shm, mark, writer, txn, crashes, history, durable>>
      /\ UNCHANGED <<rd, minFrame, pick, cache>>
  BY DEF CkptFinish, CkptEnd, Goto, ghost
<1>2. /\ LocksOf(c) /\ HeaderOf(c) /\ CheckpointOf(c) /\ CacheOf(c)
      /\ FileTypes /\ LocalTypes /\ IndexTypes /\ IndexOk /\ GhostTypes /\ ck \in Ckpts
      /\ Durability
  BY DEF IInv, ConnOk, Types
<1>3. /\ ckpt = c /\ writer # c /\ c # Nobody /\ shm # NoHdr /\ rd[c] = NoLock
      /\ zero' \in BOOLEAN /\ ~zero' /\ shm \in Headers
  BY <1>1, <1>2, WalAssumption
  DEF LocksOf, HeaderOf, Checkpointing, Unlocked, WriterAt, Writing, IndexTypes
<1>4. NoHdr \in Headers /\ NoHdr.gen < shm.gen /\ NoCkpt \in Ckpts
  <2>1. shm.gen >= 0
    BY <1>2, <1>3 DEF IndexOk
  <2>2. shm.gen \in Int
    BY <1>3 DEF Headers
  <2>3. NoHdr \in Headers /\ NoHdr.gen = -1
    BY WalAssumption DEF NoHdr, Headers
  <2>4. NoCkpt \in Ckpts
    BY WalAssumption DEF NoCkpt, Ckpts
  <2> QED
    BY <2>1, <2>2, <2>3, <2>4
<1>5. /\ hdr' \in [Conns -> Headers] /\ hdr'[c] = (IF ck.changed THEN NoHdr ELSE hdr[c])
      /\ \A d \in Conns \ {c} : hdr'[d] = hdr[d]
  BY <1>1, <1>2, <1>4 DEF LocalTypes
<1>6. pc'[c] = "idle" /\ \A d \in Conns \ {c} : pc'[d] = pc[d]
  BY <1>1, <1>2 DEF LocalTypes
<1>7. /\ ck.safe \in Nat /\ shm.mx \in Nat /\ nBackfill \in Nat /\ hdr[c].mx \in Nat
      /\ nBackfill < ck.safe /\ ck.safe <= hdr[c].mx /\ hdr[c].mx <= shm.mx
      /\ ck.safe <= shm.mx /\ nBackfill < shm.mx /\ ck.safe <= synced
      /\ ck.safe \in 0 .. MaxFrames
  <2>1. nBackfill < ck.safe /\ ck.safe <= synced /\ ck.safe \in 0 .. MaxFrames
    BY <1>1, <1>2 DEF CheckpointOf, Ckpts
  <2>2. /\ ck.safe <= hdr[c].mx /\ hdr[c].mx <= shm.mx /\ nBackfill < shm.mx
        /\ hdr[c].mx \in Nat /\ ck.safe \in Nat /\ shm.mx \in Nat /\ nBackfill \in Nat
    BY <1>1, CheckpointBounds
  <2> QED
    BY <2>1, <2>2
<1>8. Types'
  <2>1. FileTypes'
    <3>1. db \in [Pages -> 0 .. MaxTxns] /\ dirty \in [Pages -> SUBSET (0 .. MaxTxns)]
          /\ \A q \in Pages : db[q] \in dirty[q]
      BY <1>2 DEF FileTypes, Images
    <3>2. dirty' \in [Pages -> SUBSET (0 .. MaxTxns)] /\ \A q \in Pages : db[q] \in dirty'[q]
      BY <1>1, <3>1
    <3> QED
      BY <1>1, <1>2, <3>2 DEF FileTypes
  <2>2. IndexTypes'
    BY <1>1, <1>2, <1>3, <1>7 DEF IndexTypes
  <2>3. LocalTypes'
    BY <1>1, <1>2, <1>5 DEF LocalTypes, PCs
  <2>4. GhostTypes' /\ (ck \in Ckpts)'
    BY <1>1, <1>2, <1>4 DEF GhostTypes
  <2> QED
    BY <2>1, <2>2, <2>3, <2>4 DEF Types
<1>9. \A k \in Conns : pc'[k] \notin Checkpointing
  BY <1>3, <1>6 DEF IInv, ConnOk, LocksOf, Checkpointing
<1>10. ASSUME NEW d \in Conns PROVE ConnOk(d)'
  <2>1. LocksOf(d) /\ HeaderOf(d) /\ MarkOf(d) /\ CacheOf(d)
    BY DEF IInv, ConnOk
  <2>2. ckpt' # d
    BY <1>1, WalAssumption
  <2>3. LocksOf(d)'
    <3>1. CASE d = c
      BY <1>1, <1>3, <1>6, <2>2, <3>1
      DEF LocksOf, Unlocked, Checkpointing, WriterAt, Writing, NoLock
    <3>2. CASE d # c
      BY <1>1, <1>3, <1>6, <2>1, <2>2, <3>2 DEF LocksOf
    <3> QED
      BY <3>1, <3>2
  <2>4. HeaderOf(d)'
    <3>1. CASE d = c
      <4>1. Older(hdr[c]) /\ writer' # c /\ pc'[c] \notin Writing
        BY <1>1, <1>2, <1>3, <1>6 DEF HeaderOf, Writing
      <4>2. Older(hdr[c])'
        BY <1>1, <1>4, <1>5, <4>1 DEF Older
      <4> QED
        BY <1>1, <1>3, <1>6, <3>1, <4>1, <4>2 DEF HeaderOf, Writing
    <3>2. CASE d # c
      BY <1>1, <1>5, <1>6, <2>1, <3>2 DEF HeaderOf, Older
    <3> QED
      BY <3>1, <3>2
  <2>5. MarkOf(d)'
    <3>1. CASE d = c
      BY <1>1, <1>3, <1>6, <3>1, WalAssumption DEF MarkOf, InTransaction, NoLock, Slots
    <3>2. CASE d # c
      <4>1. Top(d)' = Top(d) /\ (InTransaction(d)' <=> InTransaction(d))
        BY <1>1, <1>5, <1>6, <3>2 DEF Top, InTransaction
      <4>2. minFrame[d] <= nBackfill + 1 => minFrame[d] <= ck.safe + 1
        <5>1. minFrame[d] \in Nat
          BY <1>2, WalAssumption DEF LocalTypes
        <5> QED
          BY <1>7, <5>1
      <4>3. nBackfill # shm.mx
        BY <1>7
      <4>4. \A k \in Conns : pc'[k] \notin {"ckscan", "ckcopy"}
        BY <1>9 DEF Checkpointing
      <4>5. pc'[d] = pc[d] /\ hdr'[d] = hdr[d]
        BY <1>5, <1>6, <3>2
      <4> QED
        BY <1>1, <2>1, <4>1, <4>2, <4>3, <4>4, <4>5 DEF MarkOf
    <3> QED
      BY <3>1, <3>2
  <2>6. CacheOf(d)'
    <3>1. CASE d = c
      <4>1. hdr'[c] = shm => hdr[c] = shm /\ ~ck.changed
        BY <1>3, <1>5
      <4> QED
        BY <1>1, <1>2, <1>6, <3>1, <4>1 DEF CacheOf, InTransaction
    <3>2. CASE d # c
      <4>1. Top(d)' = Top(d) /\ (InTransaction(d)' <=> InTransaction(d))
        BY <1>1, <1>5, <1>6, <3>2 DEF Top, InTransaction
      <4> QED
        BY <1>1, <1>3, <1>5, <1>6, <2>1, <3>2, <4>1 DEF CacheOf
    <3> QED
      BY <3>1, <3>2
  <2>7. CheckpointOf(d)'
    BY <1>9 DEF CheckpointOf, Checkpointing
  <2> QED
    BY <2>3, <2>4, <2>5, <2>6, <2>7 DEF ConnOk
<1>11. IndexOk'
  <2>1. ASSUME NEW q \in Pages, 0 < FrameIn(log, q, 1, shm.mx),
               FrameIn(log, q, 1, shm.mx) <= ck.safe
        PROVE  db[q] = log[FrameIn(log, q, 1, shm.mx)].val
    <3>1. FrameIn(log, q, 1, shm.mx) \in Nat
      BY <1>7, FrameFacts, 1 \in Nat \ {0}
    <3>2. CASE FrameIn(log, q, 1, shm.mx) <= nBackfill
      BY <1>2, <2>1, <3>2 DEF IndexOk
    <3>3. CASE nBackfill < FrameIn(log, q, 1, shm.mx)
      <4>1. FrameIn(log, q, 1, shm.mx) <= hdr[c].mx
        BY <1>7, <2>1, <3>1
      <4>2. FrameIn(log, q, 1, shm.mx) = FrameIn(log, q, 1, hdr[c].mx)
        BY <1>7, <4>1, FrameUpTo
      <4>3. ck.frame[q] = FrameIn(log, q, 1, shm.mx)
        BY <1>1, <1>2, <4>2 DEF CheckpointOf
      <4>4. q \in Pages \ ck.todo
        BY <1>1
      <4> QED
        BY <1>1, <1>2, <2>1, <3>3, <4>3, <4>4 DEF CheckpointOf
    <3> QED
      BY <1>7, <3>1, <3>2, <3>3
  <2> QED
    BY <1>1, <1>2, <1>3, <1>7, <2>1 DEF IndexOk
<1>12. Durability'
  <2>1. Publishing => Publishing'
    BY <1>1, <1>6 DEF Publishing, Conns
  <2> QED
    BY <1>1, <1>2, <2>1 DEF Durability, Committed, LastCommit
<1> QED
  BY <1>8, <1>10, <1>11, <1>12 DEF IInv

(* Crash: everything that was shared is gone, and what the log has lost    *)
(* was not durable.                                                        *)
LEMMA CrashKeeps ==
  ASSUME IInv, NEW power \in BOOLEAN, Crash(power)
  PROVE  IInv'
<1>1. PICK n \in (IF power THEN synced ELSE Len(log)) .. Len(log) :
        /\ log' = SubSeq(log, 1, n)
        /\ synced' = (IF power THEN n ELSE synced)
        /\ history' = IF \E c \in Writers : pc[c] = "publish" /\ n = Len(log)
                      THEN Append(history, Written(writer))
                      ELSE SubSeq(history, 1, Len(history) - CommitsIn(n + 1, Committed))
  BY Zenon DEF Crash
<1>2. /\ FileTypes /\ LocalTypes /\ IndexTypes /\ IndexOk /\ GhostTypes /\ ck \in Ckpts
      /\ Durability /\ \A c \in Conns : LocksOf(c) /\ HeaderOf(c)
  BY DEF IInv, ConnOk, Types
<1>3. /\ log \in Seq(Frames) /\ Len(log) \in Nat /\ synced \in Nat /\ synced <= Len(log)
      /\ history \in Seq(Images) /\ Len(history) \in Nat
      /\ durable \in Nat /\ 1 <= durable /\ durable <= Len(history)
  BY <1>2 DEF FileTypes, GhostTypes
<1>4. n \in Nat /\ synced <= n /\ n <= Len(log) /\ (~power => n = Len(log))
  BY <1>1, <1>3
<1>5. /\ shm' = NoHdr /\ nBackfill' = 0 /\ mark' = [i \in Slots |-> NotUsed]
      /\ writer' = Nobody /\ ckpt' = Nobody /\ zero' = FALSE
      /\ pc' = [c \in Conns |-> "idle"]
      /\ hdr' = [c \in Conns |-> NoHdr]
      /\ rd' = [c \in Conns |-> NoLock]
      /\ minFrame' = [c \in Conns |-> 1]
      /\ pick' = [c \in Conns |-> NoPick]
      /\ cache' = [c \in Conns |-> NoImage]
      /\ ck' = NoCkpt /\ txn' = txn /\ durable' = durable /\ crashes' = crashes + 1
  BY Zenon DEF Crash
<1>6. /\ log' \in Seq(Frames) /\ Len(log') = n /\ \A i \in 1 .. n : log'[i] = log[i]
  BY <1>1, <1>3, <1>4
<1>7. /\ synced' \in 0 .. n /\ (power => synced' = n) /\ (~power => synced' = synced)
  BY <1>1, <1>3, <1>4
<1>8. Committed \in Int /\ Committed <= Len(log)
  <2>1. LastIn(log) \in 0 .. Len(log)
    BY <1>3, LastFacts
  <2>2. Committed = IF shm = NoHdr THEN LastIn(log) ELSE shm.mx
    BY Zenon DEF Committed, LastCommit, LastIn
  <2>3. shm.mx \in Nat /\ shm.mx <= Len(log)
    BY <1>2 DEF IndexTypes, Headers, IndexOk
  <2> QED
    BY <1>3, <2>1, <2>2, <2>3
<1>9. /\ CommitsIn(n + 1, Committed) = Commits(log, n + 1, Committed)
      /\ Commits(log, n + 1, Committed) \in Nat
      /\ durable + Commits(log, n + 1, Committed) <= Len(history)
  <2>1. n + 1 \in Int /\ synced + 1 \in Int
    BY <1>3, <1>4
  <2>2. \A i \in n + 1 .. Committed : i \in synced + 1 .. Committed
    BY <1>3, <1>4, <1>8
  <2>3. \A i \in n + 1 .. Committed :
          log[i].commit => i \in synced + 1 .. Committed /\ log[i].commit
    BY <2>2
  <2>4. Commits(log, n + 1, Committed) <= Commits(log, synced + 1, Committed)
    BY <1>8, <2>1, <2>3, CommitsMonotone
  <2>5. Commits(log, n + 1, Committed) \in Nat /\ Commits(log, synced + 1, Committed) \in Nat
    BY <1>8, <2>1, CommitsFacts
  <2>6. durable + Commits(log, synced + 1, Committed) <= Len(history)
    BY <1>2 DEF Durability
  <2>7. CommitsIn(n + 1, Committed) = Commits(log, n + 1, Committed)
    BY Bridge
  <2> QED
    BY <1>3, <2>4, <2>5, <2>6, <2>7
<1>10. /\ history' \in Seq(Images) /\ Len(history') \in Nat /\ durable <= Len(history')
       /\ ~power => durable + Commits(log', synced' + 1, LastIn(log')) <= Len(history')
  <2>1. LastIn(log') \in 0 .. n /\ LastIn(log') \in Int
    BY <1>4, <1>6, LastFacts
  <2>2. synced + 1 \in Int /\ synced' + 1 \in Int
    BY <1>3, <1>4, <1>7
  <2>3. /\ Commits(log', synced' + 1, LastIn(log')) \in Nat
        /\ Commits(log, synced + 1, Committed) \in Nat
    BY <1>8, <2>1, <2>2, CommitsFacts
  <2>4. ASSUME ~power, NEW i \in synced' + 1 .. LastIn(log'), log'[i].commit
        PROVE  /\ i \in synced + 1 .. Len(log) /\ i \in DOMAIN log /\ ~(i <= synced)
               /\ log[i].commit
    <3>1. i \in 1 .. n /\ synced + 1 <= i
      BY <1>3, <1>4, <1>7, <2>1, <2>4
    <3> QED
      BY <1>3, <1>4, <1>6, <2>4, <3>1
  <2>5. CASE \E c \in Writers : pc[c] = "publish" /\ n = Len(log)
    <3>1. PICK c \in Writers : pc[c] = "publish"
      BY <2>5
    <3>2. c \in Conns /\ writer = c /\ shm # NoHdr
      <4>1. c \in Conns
        BY DEF Conns
      <4> QED
        BY <1>2, <3>1, <4>1 DEF LocksOf, HeaderOf, Writing
    <3>3. PICK W \in Images : history' = Append(history, W)
      <4>1. minFrame[c] \in Nat \ {0} /\ hdr[c].mx \in Nat
        BY <1>2, <3>2, WalAssumption DEF LocalTypes, Headers
      <4>2. Written(writer) \in Images
        BY <3>2, <4>1, Bridge, Newest
      <4>3. history' = Append(history, Written(writer))
        BY <1>1, <2>5
      <4> QED
        BY <4>2, <4>3
    <3>4. history' \in Seq(Images) /\ Len(history') = Len(history) + 1
      BY <1>3, <3>3
    <3>5. Committed = shm.mx
      BY <3>2 DEF Committed
    <3>6. ASSUME ~power, NEW i \in synced' + 1 .. LastIn(log'), log'[i].commit
          PROVE  i = Len(log) \/ (i \in synced + 1 .. Committed /\ log[i].commit)
      <4>1. /\ i \in synced + 1 .. Len(log) /\ i \in DOMAIN log /\ ~(i <= synced)
            /\ log[i].commit
        BY <2>4, <3>6
      <4>2. i > shm.mx => i = Len(log)
        BY <1>2, <3>2, <4>1 DEF Durability
      <4> QED
        BY <1>3, <1>8, <3>5, <4>1, <4>2
    <3>7. ASSUME ~power
          PROVE  Commits(log', synced' + 1, LastIn(log')) <= Commits(log, synced + 1, Committed) + 1
      BY <1>8, <2>1, <2>2, <3>6, <3>7, CommitsAdd
    <3>8. durable + Commits(log, synced + 1, Committed) <= Len(history)
      BY <1>2 DEF Durability
    <3> QED
      BY <1>3, <2>3, <3>4, <3>7, <3>8
  <2>6. CASE ~\E c \in Writers : pc[c] = "publish" /\ n = Len(log)
    <3>1. history' = SubSeq(history, 1, Len(history) - Commits(log, n + 1, Committed))
      BY <1>1, <1>9, <2>6
    <3>2. PICK k \in Nat : k = Len(history) - Commits(log, n + 1, Committed)
      BY <1>3, <1>9
    <3>3. k <= Len(history) /\ durable <= k
      BY <1>3, <1>9, <3>2
    <3>4. history' \in Seq(Images) /\ Len(history') = k
      BY <1>3, <3>1, <3>2, <3>3
    <3>5. ASSUME ~power, NEW i \in synced' + 1 .. LastIn(log'), log'[i].commit
          PROVE  i \in synced + 1 .. Committed /\ log[i].commit
      <4>1. /\ i \in synced + 1 .. Len(log) /\ i \in DOMAIN log /\ ~(i <= synced)
            /\ log[i].commit
        BY <2>4, <3>5
      <4>2. CASE shm = NoHdr
        <5>1. Committed = LastIn(log)
          BY <4>2, Zenon DEF Committed, LastCommit, LastIn
        <5>2. i <= LastIn(log)
          BY <1>3, <4>1, LastFacts
        <5> QED
          BY <1>3, <1>8, <4>1, <5>1, <5>2
      <4>3. CASE shm # NoHdr
        <5>1. Committed = shm.mx
          BY <4>3 DEF Committed
        <5>2. ~Publishing
          BY <1>4, <2>6, <3>5 DEF Publishing
        <5>3. ~(i > shm.mx)
          BY <1>2, <4>1, <4>3, <5>2 DEF Durability
        <5> QED
          BY <1>3, <1>8, <4>1, <5>1, <5>3
      <4> QED
        BY <4>2, <4>3
    <3>6. ASSUME ~power
          PROVE  Commits(log', synced' + 1, LastIn(log')) <= Commits(log, synced + 1, Committed)
      BY <1>8, <2>1, <2>2, <3>5, <3>6, CommitsMonotone
    <3>7. ~power => Commits(log, n + 1, Committed) = 0
      BY <1>3, <1>4, <1>8, CommitsFacts
    <3>8. durable + Commits(log, synced + 1, Committed) <= Len(history)
      BY <1>2 DEF Durability
    <3> QED
      BY <1>3, <2>3, <3>2, <3>3, <3>4, <3>6, <3>7, <3>8
  <2> QED
    BY <2>5, <2>6
<1>11. FileTypes'
  <2>1. Len(log') <= MaxFrames
    BY <1>2, <1>4, <1>6, WalAssumption DEF FileTypes
  <2>2. /\ db' \in Images /\ dirty' \in [Pages -> SUBSET (0 .. MaxTxns)]
        /\ \A q \in Pages : db'[q] \in dirty'[q]
    <3>1. CASE power
      <4>1. db' \in Images /\ dirty' = [q \in Pages |-> {db'[q]}]
        BY <3>1 DEF Crash
      <4> QED
        BY <4>1 DEF Images
    <3>2. CASE ~power
      BY <1>2, <3>2 DEF Crash, FileTypes
    <3> QED
      BY <3>1, <3>2
  <2> QED
    BY <1>6, <1>7, <2>1, <2>2 DEF FileTypes
<1>12. Types'
  <2>1. NoHdr \in Headers /\ NoPick \in Picks /\ NoCkpt \in Ckpts
    <3>1. NoHdr \in Headers
      BY WalAssumption DEF NoHdr, Headers
    <3>2. NoPick \in Picks
      BY WalAssumption DEF NoPick, Picks, NotUsed
    <3>3. NoCkpt \in Ckpts
      BY WalAssumption DEF NoCkpt, Ckpts
    <3> QED
      BY <3>1, <3>2, <3>3
  <2>2. IndexTypes'
    <3>1. mark' \in [Slots -> 0 .. NotUsed]
      <4>1. NotUsed \in 0 .. NotUsed
        BY WalAssumption DEF NotUsed
      <4> QED
        BY <1>5, <4>1
    <3>2. nBackfill' \in 0 .. MaxFrames
      BY <1>5, WalAssumption
    <3> QED
      BY <1>5, <2>1, <3>1, <3>2 DEF IndexTypes
  <2>3. LocalTypes'
    BY <1>5, <2>1, WalAssumption DEF LocalTypes, PCs
  <2>4. GhostTypes'
    <3>1. durable' \in 1 .. Len(history')
      BY <1>3, <1>5, <1>10
    <3>2. crashes' \in Nat /\ txn' \in 0 .. MaxTxns
      BY <1>2, <1>5 DEF GhostTypes
    <3> QED
      BY <1>10, <3>1, <3>2 DEF GhostTypes
  <2> QED
    BY <1>5, <1>11, <2>1, <2>2, <2>3, <2>4 DEF Types
<1>13. ASSUME NEW d \in Conns PROVE ConnOk(d)'
  <2>1. /\ pc'[d] = "idle" /\ hdr'[d] = NoHdr /\ rd'[d] = NoLock /\ cache'[d] = NoImage
        /\ writer' # d /\ ckpt' # d /\ ~zero' /\ NoLock \notin Slots /\ NoLock # 0
    BY <1>5, WalAssumption DEF NoLock, Slots
  <2>2. LocksOf(d)'
    BY <2>1 DEF LocksOf, Writing, Checkpointing
  <2>3. HeaderOf(d)'
    BY <1>5, <2>1 DEF HeaderOf, Older, Writing, NoHdr
  <2>4. MarkOf(d)'
    BY <2>1 DEF MarkOf, InTransaction
  <2>5. CacheOf(d)'
    BY <2>1 DEF CacheOf, InTransaction
  <2>6. CheckpointOf(d)'
    BY <2>1 DEF CheckpointOf
  <2> QED
    BY <2>2, <2>3, <2>4, <2>5, <2>6 DEF ConnOk
<1>14. IndexOk'
  <2>1. NoHdr.mx = 0
    BY DEF NoHdr
  <2>2. ASSUME NEW q \in Pages
        PROVE  ~(0 < FrameIn(log', q, 1, 0) /\ FrameIn(log', q, 1, 0) <= 0)
    BY FrameFacts, 1 \in Nat \ {0}, 0 \in Nat
  <2>3. 0 <= Len(log') /\ 0 <= synced'
    BY <1>4, <1>6, <1>7
  <2> QED
    BY <1>5, <2>1, <2>2, <2>3 DEF IndexOk
<1>15. Durability'
  <2>1. Committed' = LastIn(log')
    BY <1>5, Zenon DEF Committed, LastCommit, LastIn
  <2>2. CASE power
    <3>1. LastIn(log') \in 0 .. n
      BY <1>6, LastFacts
    <3>2. Commits(log', synced' + 1, LastIn(log')) = 0
      BY <1>4, <1>7, <2>2, <3>1, CommitsFacts
    <3> QED
      BY <1>3, <1>5, <1>10, <2>1, <3>2 DEF Durability
  <2>3. CASE ~power
    BY <1>5, <1>10, <2>1, <2>3 DEF Durability
  <2> QED
    BY <2>2, <2>3
<1> QED
  BY <1>12, <1>13, <1>14, <1>15 DEF IInv

-----------------------------------------------------------------------------
(* The theorems.                                                           *)

LEMMA StepKeeps ==
  ASSUME IInv, HeaderFresh, [Next]_vars
  PROVE  IInv'
<1>1. ASSUME NEW c \in Conns, Read(c) PROVE IInv'
  <2>1. CASE BeginRead(c)
    BY <2>1, BeginReadKeeps, RecoverKeeps
  <2>2. CASE Decide(c) \/ Lock0(c) \/ EndRead(c)
    BY <2>2, PlainReadKeeps
  <2>3. CASE Check0(c)
    BY <2>3, Check0Keeps
  <2>4. CASE Pick(c)
    BY <2>4, PickKeeps
  <2>5. CASE Raise(c)
    BY <2>5, RaiseKeeps
  <2>6. CASE LockMark(c)
    BY <2>6, LockMarkKeeps
  <2>7. CASE Check(c)
    BY <2>7, CheckKeeps
  <2> QED
    BY <1>1, <2>1, <2>2, <2>3, <2>4, <2>5, <2>6, <2>7 DEF Read
<1>2. ASSUME NEW c \in Conns, Write(c) PROVE IInv'
  <2>1. CASE BeginWrite(c)
    BY <2>1, BeginWriteKeeps
  <2>2. CASE Restart(c)
    BY <2>2, RestartKeeps
  <2>3. CASE Publish(c)
    BY <2>3, PublishKeeps
  <2>4. CASE Rollback(c)
    BY <2>4, RollbackKeeps
  <2>5. CASE \E p \in Pages : Spill(c, p) \/ CommitFrame(c, p)
    BY <2>5, PutFrameKeeps
  <2> QED
    BY <1>2, <2>1, <2>2, <2>3, <2>4, <2>5 DEF Write
<1>3. ASSUME NEW c \in Conns, Checkpoint(c) PROVE IInv'
  <2>1. CASE CkptBegin(c)
    BY <2>1, CkptBeginKeeps, RecoverKeeps
  <2>2. CASE CkptStart(c)
    BY <2>2, CkptStartKeeps
  <2>3. CASE CkptScan(c)
    BY <2>3, CkptScanKeeps
  <2>4. CASE CkptSync(c)
    BY <2>4, CkptSyncKeeps
  <2>5. CASE CkptCopy(c)
    BY <2>5, CkptCopyKeeps
  <2>6. CASE CkptFinish(c)
    BY <2>6, CkptFinishKeeps
  <2> QED
    BY <1>3, <2>1, <2>2, <2>3, <2>4, <2>5, <2>6 DEF Checkpoint
<1>4. CASE \E power \in BOOLEAN : Crash(power)
  BY <1>4, CrashKeeps
<1>5. CASE UNCHANGED vars
  <2>1. /\ UNCHANGED <<log, synced, db, dirty, shm, nBackfill, mark, writer, ckpt, zero>>
        /\ UNCHANGED <<pc, hdr, rd, minFrame, pick, cache, ck, txn, crashes, history, durable>>
    BY <1>5 DEF vars
  <2>2. Types'
    BY <2>1 DEF IInv, Types, FileTypes, IndexTypes, LocalTypes, GhostTypes
  <2>3. ASSUME NEW c \in Conns PROVE ConnOk(c)'
    <3>1. ConnOk(c)
      BY DEF IInv
    <3>2. Top(c)' = Top(c) /\ (InTransaction(c)' <=> InTransaction(c))
      BY <2>1 DEF Top, InTransaction
    <3>3. LocksOf(c)' /\ HeaderOf(c)'
      BY <2>1, <3>1 DEF ConnOk, LocksOf, HeaderOf, Older
    <3>4. MarkOf(c)' /\ CacheOf(c)'
      BY <2>1, <3>1, <3>2 DEF ConnOk, MarkOf, CacheOf
    <3>5. CheckpointOf(c)'
      BY <2>1, <3>1 DEF ConnOk, CheckpointOf
    <3> QED
      BY <3>3, <3>4, <3>5 DEF ConnOk
  <2>4. IndexOk'
    BY <2>1 DEF IInv, IndexOk
  <2>5. Durability'
    BY <2>1 DEF IInv, Durability, Committed, LastCommit, Publishing
  <2> QED
    BY <2>2, <2>3, <2>4, <2>5 DEF IInv
<1> QED
  BY <1>1, <1>2, <1>3, <1>4, <1>5 DEF Next

(* The inductive invariant holds in every state, whatever connections      *)
(* commit, checkpoint, restart the log or crash in between: as long as a   *)
(* log does not start again between a checkpoint's reading of the header   *)
(* and of nBackfill (wal.c:3285 and 1760).                                 *)
THEOREM Invariance == ASSUME HeaderFresh PROVE Spec => []IInv
<1>1. Init => IInv
  BY InitEstablishes
<1>2. IInv /\ [Next]_vars => IInv'
  BY StepKeeps
<1> QED
  BY <1>1, <1>2, PTL DEF Spec

(* What a connection answers out of its page cache is what a fresh read    *)
(* through the log and the database file gives, and the locks are held as  *)
(* wal.c asserts them (wal.c:283-286, 438-471, 2072-2131, 3307-3315).      *)
THEOREM CacheAlwaysFresh == ASSUME HeaderFresh PROVE Spec => []CacheFresh
<1>1. ASSUME IInv PROVE CacheFresh
  <2>1. /\ FileTypes /\ IndexTypes /\ LocalTypes /\ GhostTypes /\ IndexOk
        /\ \A c \in Conns : LocksOf(c) /\ CacheOf(c)
    BY <1>1 DEF IInv, Types, ConnOk
  <2>2. TypeOK
    <3>1. \A i \in DOMAIN log : log[i] \in Frames
      BY <2>1 DEF FileTypes
    <3>2. \A c \in Conns : pc[c] \in {"write", "publish"} => writer = c /\ rd[c] # NoLock
      BY <2>1, WalAssumption DEF LocksOf, Writing, Slots, NoLock
    <3>3. zero => Free(0) /\ ckpt # Nobody
      BY <2>1 DEF LocksOf, IndexOk, Free
    <3>4. shm.mx \in 0 .. MaxFrames
      BY <2>1 DEF IndexTypes, Headers
    <3> QED
      BY <2>1, <3>1, <3>2, <3>3, <3>4
      DEF TypeOK, Frames, FileTypes, IndexTypes, LocalTypes, GhostTypes
  <2>3. ASSUME NEW c \in Conns, InTransaction(c) PROVE cache[c] = View(c)
    BY <2>1, <2>3, Bridge DEF CacheOf
  <2> QED
    BY <2>2, <2>3 DEF CacheFresh
<1> QED
  BY <1>1, Invariance, PTL

(* No checkpoint counts frames as copied that the log does not hold        *)
(* (wal.c:329), on the same condition: the violated run shows that it is   *)
(* needed.                                                                 *)
THEOREM BackfillAlwaysWithin == ASSUME HeaderFresh PROVE Spec => []BackfillWithinLog
<1>1. IInv => BackfillWithinLog
  BY DEF IInv, IndexOk, BackfillWithinLog
<1> QED
  BY <1>1, Invariance, PTL

(* The commits that a crash may lose are no versions that were durable.    *)
DurableCounted ==
  \A n \in synced .. Len(log) : durable + CommitsIn(n + 1, Committed) <= Len(history)

(* A crash, whatever part of the log it loses beyond what is synced, takes *)
(* no version out of the history that was made durable (wal.c:3100-3195).  *)
THEOREM DurableAlwaysCounted == ASSUME HeaderFresh PROVE Spec => []DurableCounted
<1>1. ASSUME IInv PROVE DurableCounted
  <2>1. FileTypes /\ IndexTypes /\ GhostTypes /\ Durability
    BY <1>1 DEF IInv, Types
  <2>2. /\ synced \in Nat /\ durable \in Nat /\ Len(history) \in Nat /\ log \in Seq(Frames)
        /\ Len(log) \in Nat
    BY <2>1 DEF FileTypes, GhostTypes
  <2>3. Committed \in Int
    <3>1. LastIn(log) \in 0 .. Len(log)
      BY <2>2, LastFacts
    <3>2. Committed = IF shm = NoHdr THEN LastIn(log) ELSE shm.mx
      BY Zenon DEF Committed, LastCommit, LastIn
    <3>3. shm.mx \in Nat
      BY <2>1 DEF IndexTypes, Headers
    <3> QED
      BY <3>1, <3>2, <3>3
  <2>4. ASSUME NEW n \in synced .. Len(log)
        PROVE  durable + CommitsIn(n + 1, Committed) <= Len(history)
    <3>1. n + 1 \in Int /\ synced + 1 \in Int
      BY <2>2
    <3>2. \A i \in n + 1 .. Committed :
            log[i].commit => i \in synced + 1 .. Committed /\ log[i].commit
      BY <2>2, <2>3
    <3>3. Commits(log, n + 1, Committed) <= Commits(log, synced + 1, Committed)
      BY <2>3, <3>1, <3>2, CommitsMonotone
    <3>4. Commits(log, n + 1, Committed) \in Nat /\ Commits(log, synced + 1, Committed) \in Nat
      BY <2>3, <3>1, CommitsFacts
    <3>5. CommitsIn(n + 1, Committed) = Commits(log, n + 1, Committed)
      BY Bridge
    <3>6. durable + Commits(log, synced + 1, Committed) <= Len(history)
      BY <2>1 DEF Durability
    <3> QED
      BY <2>2, <3>3, <3>4, <3>5, <3>6
  <2> QED
    BY <2>4 DEF DurableCounted
<1> QED
  BY <1>1, Invariance, PTL

-----------------------------------------------------------------------------
(* The log, the database file and the history of committed contents:       *)
(* whatever a crash leaves of the log and the file is a version.           *)

(* A length the log may be cut back to, or end at, after a crash: no       *)
(* commit beyond it is on disk.                                            *)
MayRemain(l) ==
  /\ l \in 0 .. Committed
  /\ l = 0 \/ log[l].commit
  /\ \A j \in l + 1 .. Committed : log[j].commit => j > synced

(* What such a log says over the database file is a version of the         *)
(* history; a page without a frame in it is on disk as it is in the file;  *)
(* and no page is copied from beyond it.                                   *)
Remains(l) ==
  /\ OverIn(log, db, 1, l) = history[Len(history) - Commits(log, l + 1, Committed)]
  /\ \A p \in Pages : FrameIn(log, p, 1, l) = 0 => dirty[p] = {db[p]}
  /\ \A k \in Conns : pc[k] = "ckcopy" => ck.safe <= l

(* The log was started again and its old frames are still there.           *)
Earlier ==
  /\ shm # NoHdr
  /\ \E j \in DOMAIN log : log[j].commit /\ j > shm.mx /\ ~(Publishing /\ j = Len(log))

HistoryOk ==
  /\ Committed = 0 \/ log[Committed].commit
  /\ Publishing => log[Len(log)].commit
  /\ Earlier => shm.mx = 0 /\ ~Publishing /\ OverIn(log, db, 1, LastIn(log)) = db
  /\ \A l \in 0 .. Committed : MayRemain(l) => Remains(l)
  /\ shm # NoHdr /\ nBackfill = shm.mx => \A p \in Pages : dirty[p] = {db[p]}

(* Where the commits of the log end.                                       *)
LEMMA CommittedFacts ==
  ASSUME IInv
  PROVE  /\ log \in Seq(Frames) /\ Len(log) \in Nat /\ synced \in Nat /\ synced <= Len(log)
         /\ Committed \in Nat /\ Committed <= Len(log)
         /\ shm = NoHdr => Committed = LastIn(log)
         /\ shm # NoHdr => Committed = shm.mx
         /\ Len(history) \in Nat \ {0} /\ history \in Seq(Images)
         /\ durable \in Nat \ {0} /\ durable <= Len(history)
         /\ db \in Images
<1>1. FileTypes /\ IndexTypes /\ GhostTypes /\ IndexOk
  BY DEF IInv, Types
<1>2. /\ log \in Seq(Frames) /\ Len(log) \in Nat /\ synced \in Nat /\ synced <= Len(log)
      /\ Len(history) \in Nat \ {0} /\ history \in Seq(Images)
      /\ durable \in Nat \ {0} /\ durable <= Len(history) /\ db \in Images
  BY <1>1 DEF FileTypes, GhostTypes
<1>3. Committed = IF shm = NoHdr THEN LastIn(log) ELSE shm.mx
  BY Zenon DEF Committed, LastCommit, LastIn
<1>4. LastIn(log) \in Nat /\ LastIn(log) <= Len(log)
  BY <1>2, LastFacts
<1>5. shm.mx \in Nat /\ shm.mx <= Len(log)
  BY <1>1 DEF IndexTypes, Headers, IndexOk
<1> QED
  BY <1>2, <1>3, <1>4, <1>5

(* The whole log may remain; over the file it is the newest version.       *)
LEMMA Whole ==
  ASSUME IInv, HistoryOk
  PROVE  /\ MayRemain(Committed)
         /\ OverIn(log, db, 1, Committed) = history[Len(history)]
         /\ \A p \in Pages : FrameIn(log, p, 1, Committed) = 0 => dirty[p] = {db[p]}
<1>1. Committed \in Nat /\ Committed \in 0 .. Committed /\ Len(history) \in Nat
  BY CommittedFacts
<1>2. \A j \in Committed + 1 .. Committed : FALSE
  BY <1>1
<1>3. MayRemain(Committed)
  BY <1>1, <1>2 DEF HistoryOk, MayRemain
<1>4. Remains(Committed)
  BY <1>1, <1>3, Zenon DEF HistoryOk
<1>5. Commits(log, Committed + 1, Committed) = 0
  BY <1>1, CommitsFacts
<1> QED
  BY <1>1, <1>3, <1>4, <1>5 DEF Remains

(* No frame at all: the database file.                                     *)
LEMMA OverNone ==
  ASSUME NEW list, NEW d \in Images
  PROVE  OverIn(list, d, 1, 0) = d /\ \A p \in Pages : FrameIn(list, p, 1, 0) = 0
<1>1. \A p \in Pages : FrameIn(list, p, 1, 0) = 0
  BY FrameFacts, 1 \in Nat \ {0}, 0 \in Nat
<1>2. OverIn(list, d, 1, 0) = [p \in Pages |-> d[p]]
  BY <1>1, Zenon DEF OverIn
<1> QED
  BY <1>1, <1>2 DEF Images

(* Cutting the log back takes no version that is durable.                  *)
LEMMA RemainCount ==
  ASSUME IInv, NEW l \in 0 .. Committed, MayRemain(l)
  PROVE  /\ Commits(log, l + 1, Committed) \in Nat
         /\ durable + Commits(log, l + 1, Committed) <= Len(history)
         /\ Commits(log, l + 1, Committed) < Len(history)
<1>1. /\ Committed \in Nat /\ synced \in Nat /\ durable \in Nat \ {0} /\ Len(history) \in Nat
      /\ l \in Nat
  BY CommittedFacts
<1>2. l + 1 \in Int /\ synced + 1 \in Int /\ Committed \in Int
  BY <1>1
<1>3. ASSUME NEW i \in l + 1 .. Committed, log[i].commit
      PROVE  i \in synced + 1 .. Committed /\ log[i].commit
  <2>1. i > synced
    BY <1>3 DEF MayRemain
  <2> QED
    BY <1>1, <1>3, <2>1
<1>4. Commits(log, l + 1, Committed) <= Commits(log, synced + 1, Committed)
  BY <1>2, <1>3, CommitsMonotone
<1>5. Commits(log, l + 1, Committed) \in Nat /\ Commits(log, synced + 1, Committed) \in Nat
  BY <1>2, CommitsFacts
<1>6. durable + Commits(log, synced + 1, Committed) <= Len(history)
  BY DEF IInv, Durability
<1> QED
  BY <1>1, <1>4, <1>5, <1>6

(* A step that leaves the files, the header and the history alone.         *)
LEMMA QuietKeepsHistory ==
  ASSUME HistoryOk, UNCHANGED <<log, synced, db, dirty, shm, nBackfill, history>>,
         Publishing' <=> Publishing,
         \A k \in Conns : pc'[k] = "ckcopy" => pc[k] = "ckcopy" /\ ck'.safe = ck.safe
  PROVE  HistoryOk'
<1>1. Committed' = Committed
  BY DEF Committed, LastCommit
<1>2. Earlier' <=> Earlier
  BY DEF Earlier
<1>3. ASSUME NEW l \in 0 .. Committed, MayRemain(l)' PROVE Remains(l)'
  <2>1. MayRemain(l)
    BY <1>1, <1>3 DEF MayRemain
  <2>2. Remains(l)
    BY <2>1 DEF HistoryOk
  <2> QED
    BY <1>1, <2>2 DEF Remains
<1> QED
  BY <1>1, <1>2, <1>3 DEF HistoryOk

(* A connection that moves on by itself, and neither publishes nor copies. *)
LEMMA OwnKeepsHistory ==
  ASSUME IInv, HistoryOk, NEW c \in Conns,
         UNCHANGED <<log, synced, db, dirty, shm, nBackfill, history>>,
         pc[c] # "publish", pc'[c] \notin {"publish", "ckcopy"},
         \A d \in Conns \ {c} : pc'[d] = pc[d],
         ck' = ck \/ ckpt \in {c, Nobody}
  PROVE  HistoryOk'
<1>1. Publishing' <=> Publishing
  BY DEF Publishing, Conns
<1>2. ASSUME NEW k \in Conns, pc'[k] = "ckcopy" PROVE pc[k] = "ckcopy" /\ ck'.safe = ck.safe
  <2>1. k # c /\ pc[k] = "ckcopy"
    BY <1>2
  <2>2. ckpt = k /\ k # Nobody
    BY <2>1, WalAssumption DEF IInv, ConnOk, LocksOf, Checkpointing
  <2> QED
    BY <2>1, <2>2
<1> QED
  BY <1>1, <1>2, QuietKeepsHistory

(* The steps that leave the files, the header and the history alone.       *)
LEMMA LocalKeepsHistory ==
  ASSUME IInv, HistoryOk, NEW c \in Conns,
         \/ (BeginRead(c) \/ CkptBegin(c)) /\ shm # NoHdr
         \/ Decide(c) \/ Lock0(c) \/ Check0(c) \/ Pick(c) \/ Raise(c) \/ LockMark(c)
         \/ Check(c) \/ EndRead(c) \/ BeginWrite(c) \/ Rollback(c)
         \/ CkptStart(c) \/ CkptScan(c)
         \/ CkptSync(c) /\ ~(nBackfill < ck.safe /\ Free(0))
  PROVE  HistoryOk'
<1>1. pc \in [Conns -> PCs] /\ LocksOf(c)
  BY DEF IInv, Types, LocalTypes, ConnOk
<1>2. ASSUME pc[c] \in Checkpointing PROVE ckpt = c
  BY <1>1, <1>2 DEF LocksOf
<1>3. CASE (BeginRead(c) \/ CkptBegin(c)) /\ shm # NoHdr
  <2>1. CASE BeginRead(c)
    BY <1>1, <1>3, <2>1, OwnKeepsHistory DEF BeginRead, ReadHdr, Goto, files, index, ghost
  <2>2. CASE CkptBegin(c)
    BY <1>1, <1>3, <2>2, OwnKeepsHistory DEF CkptBegin, ReadHdr, Goto, files, index, ghost
  <2> QED
    BY <1>3, <2>1, <2>2
<1>4. CASE Decide(c)
  BY <1>1, <1>4, OwnKeepsHistory DEF Decide, Goto, files, index, ghost
<1>5. CASE Lock0(c)
  BY <1>1, <1>5, OwnKeepsHistory DEF Lock0, Goto, files, index, ghost
<1>6. CASE Check0(c)
  BY <1>1, <1>6, OwnKeepsHistory DEF Check0, Goto, files, index, ghost
<1>7. CASE Pick(c)
  BY <1>1, <1>7, OwnKeepsHistory DEF Pick, Goto, files, index, ghost
<1>8. CASE Raise(c)
  BY <1>1, <1>8, OwnKeepsHistory DEF Raise, Goto, files, ghost
<1>9. CASE LockMark(c)
  BY <1>1, <1>9, OwnKeepsHistory DEF LockMark, Goto, files, index, ghost
<1>10. CASE Check(c)
  BY <1>1, <1>10, OwnKeepsHistory DEF Check, Goto, files, index, ghost
<1>11. CASE EndRead(c)
  BY <1>1, <1>11, OwnKeepsHistory DEF EndRead, Goto, files, index, ghost
<1>12. CASE BeginWrite(c)
  BY <1>1, <1>12, OwnKeepsHistory DEF BeginWrite, Goto, files, index
<1>13. CASE Rollback(c)
  BY <1>1, <1>13, OwnKeepsHistory DEF Rollback, Goto, files, index, ghost
<1>14. CASE CkptStart(c)
  BY <1>1, <1>2, <1>14, OwnKeepsHistory
  DEF CkptStart, CkptEnd, Goto, files, index, ghost, Checkpointing
<1>15. CASE CkptScan(c)
  BY <1>1, <1>2, <1>15, OwnKeepsHistory DEF CkptScan, files, ghost, Checkpointing
<1>16. CASE CkptSync(c) /\ ~(nBackfill < ck.safe /\ Free(0))
  BY <1>1, <1>2, <1>16, OwnKeepsHistory
  DEF CkptSync, CkptEnd, Goto, files, index, ghost, Checkpointing
<1> QED
  BY <1>3, <1>4, <1>5, <1>6, <1>7, <1>8, <1>9, <1>10, <1>11, <1>12, <1>13, <1>14, <1>15, <1>16

(* The last commit of the log becomes the header.                          *)
LEMMA RecoverKeepsHistory ==
  ASSUME IInv, HistoryOk, NEW c \in Conns, BeginRead(c) \/ CkptBegin(c), shm = NoHdr
  PROVE  HistoryOk'
<1>1. /\ UNCHANGED <<log, synced, db, dirty, history>>
      /\ shm' = [mx |-> LastIn(log), gen |-> 0] /\ nBackfill' = 0
      /\ pc' = [pc EXCEPT ![c] = pc'[c]] /\ pc'[c] \in {"decide", "ckstart"}
  <2>1. pc \in [Conns -> PCs]
    BY DEF IInv, Types, LocalTypes
  <2>2. shm' = [mx |-> LastIn(log), gen |-> 0] /\ nBackfill' = 0
    BY Zenon DEF BeginRead, CkptBegin, ReadHdr, LastIn, LastCommit
  <2> QED
    BY <2>1, <2>2 DEF BeginRead, CkptBegin, Goto, files, ghost
<1>2. pc \in [Conns -> PCs] /\ \A k \in Conns : pc[k] = "idle"
  BY DEF IInv, Types, LocalTypes, ConnOk, HeaderOf
<1>3. ~Publishing' /\ \A k \in Conns : pc'[k] # "ckcopy"
  BY <1>1, <1>2 DEF Publishing, Conns
<1>4. /\ log \in Seq(Frames) /\ Committed \in Nat /\ Committed = LastIn(log)
      /\ Committed <= Len(log) /\ Len(log) \in Nat
  BY CommittedFacts
<1>5. shm' # NoHdr /\ shm'.mx = Committed /\ Committed' = Committed
  BY <1>1, <1>4 DEF NoHdr, Committed
<1>6. ~Earlier'
  <2>1. \A j \in DOMAIN log : log[j].commit => ~(j > LastIn(log))
    BY <1>4, LastFacts
  <2> QED
    BY <1>1, <1>4, <1>5, <2>1 DEF Earlier
<1>7. ASSUME NEW l \in 0 .. Committed, MayRemain(l)' PROVE Remains(l)'
  <2>1. MayRemain(l)
    BY <1>1, <1>5, <1>7 DEF MayRemain
  <2>2. Remains(l)
    BY <2>1 DEF HistoryOk
  <2> QED
    BY <1>1, <1>3, <1>5, <2>2 DEF Remains
<1>8. ASSUME Committed = 0, NEW p \in Pages PROVE dirty[p] = {db[p]}
  <2>1. FrameIn(log, p, 1, 0) = 0
    BY CommittedFacts, OverNone
  <2> QED
    BY <1>8, <2>1, Whole
<1> QED
  BY <1>1, <1>3, <1>5, <1>6, <1>7, <1>8 DEF HistoryOk

(* Logs that agree have the same commits.                                  *)
LEMMA CommitsSame ==
  ASSUME NEW one, NEW two, NEW lo \in Int, NEW hi \in Int,
         \A i \in lo .. hi : one[i].commit = two[i].commit
  PROVE  Commits(one, lo, hi) = Commits(two, lo, hi)
<1>1. {i \in lo .. hi : one[i].commit} = {i \in lo .. hi : two[i].commit}
  OBVIOUS
<1> QED
  BY <1>1, Zenon DEF Commits

(* One more commit, at the end.                                            *)
LEMMA CommitsOneMore ==
  ASSUME NEW list, NEW lo \in Int, NEW hi \in Int, NEW last \in Int,
         lo <= last, hi < last, list[last].commit,
         \A i \in hi + 1 .. last - 1 : ~list[i].commit
  PROVE  Commits(list, lo, last) = Commits(list, lo, hi) + 1
<1> DEFINE S == {i \in lo .. hi : list[i].commit}
           T == {i \in lo .. last : list[i].commit}
<1>1. IsFiniteSet(lo .. hi)
  BY FS_Interval
<1>2. S \subseteq lo .. hi
  OBVIOUS
<1>3. IsFiniteSet(S)
  BY <1>1, <1>2, FS_Subset, Zenon
<1>4. T = S \cup {last} /\ last \notin S
  <2>1. last \in T /\ last \notin S
    OBVIOUS
  <2>2. S \subseteq T
    OBVIOUS
  <2>3. ASSUME NEW i \in T, i # last PROVE i \in S
    <3>1. i \in lo .. last - 1 /\ list[i].commit
      BY <2>3
    <3>2. CASE i \in hi + 1 .. last - 1
      BY <3>1, <3>2
    <3>3. CASE i \notin hi + 1 .. last - 1
      BY <3>1, <3>3
    <3> QED
      BY <3>2, <3>3
  <2> QED
    BY <2>1, <2>2, <2>3
<1> HIDE DEF S, T
<1>5. Cardinality(S \cup {last}) = Cardinality(S) + 1
  BY <1>3, <1>4, FS_AddElement, Zenon
<1> QED
  BY <1>4, <1>5, Zenon DEF Commits, S, T

(* The frames a writer keeps, and the one it adds.                         *)
LEMMA PutFrameFacts ==
  ASSUME IInv, IInv', NEW c \in Conns, NEW p \in Pages, Spill(c, p) \/ CommitFrame(c, p)
  PROVE  /\ UNCHANGED <<db, dirty, shm, nBackfill, mark, writer, ckpt, zero, ck, txn, crashes,
                        history, durable, rd, minFrame, pick, cache>>
         /\ pc[c] = "write" /\ pc'[c] \in {"write", "publish"}
         /\ \A d \in Conns \ {c} : pc'[d] = pc[d]
         /\ writer = c /\ c \in Writers /\ shm # NoHdr
         /\ hdr[c].mx \in Nat /\ shm.mx \in Nat /\ shm.mx <= hdr[c].mx /\ hdr[c].mx <= Len(log)
         /\ log' \in Seq(Frames) /\ Len(log') = hdr[c].mx + 1 /\ hdr'[c].mx = Len(log')
         /\ \A i \in 1 .. hdr[c].mx : log'[i] = log[i]
         /\ log'[Len(log')].commit <=> pc'[c] = "publish"
         /\ \A i \in shm.mx + 1 .. hdr[c].mx : ~log[i].commit
         /\ synced' \in {synced, hdr[c].mx}
<1>1. /\ LocksOf(c) /\ HeaderOf(c) /\ FileTypes /\ IndexTypes /\ LocalTypes /\ LocalTypes'
      /\ FileTypes'
  BY DEF IInv, Types, ConnOk
<1>2. /\ pc[c] = "write" /\ synced' = Min({synced, hdr[c].mx})
      /\ hdr' = [hdr EXCEPT ![c].mx = hdr[c].mx + 1]
      /\ UNCHANGED <<db, dirty, shm, nBackfill, mark, writer, ckpt, zero, ck, txn, crashes,
                     history, durable, rd, minFrame, pick, cache>>
  BY DEF Spill, CommitFrame, PutFrame, index, locks, ghost
<1>3. /\ writer = c /\ c \in Writers /\ shm # NoHdr
      /\ \A i \in shm.mx + 1 .. hdr[c].mx : ~log[i].commit
  BY <1>1, <1>2, WalAssumption DEF LocksOf, HeaderOf, Writing, IndexTypes
<1>4. /\ hdr[c].mx \in Nat /\ shm.mx \in Nat /\ shm.mx <= hdr[c].mx /\ hdr[c].mx <= Len(log)
      /\ log \in Seq(Frames) /\ log' \in Seq(Frames) /\ Len(log) \in Nat
      /\ hdr[c] \in Headers /\ synced \in Nat /\ synced <= Len(log)
  BY <1>1, <1>2 DEF HeaderOf, Writing, LocalTypes, IndexTypes, FileTypes, Headers
<1>5. PICK commit \in BOOLEAN :
        /\ log' = Append(SubSeq(log, 1, hdr[c].mx), [page |-> p, val |-> txn, commit |-> commit])
        /\ pc' = [pc EXCEPT ![c] = IF commit THEN "publish" ELSE "write"]
  <2>1. CASE Spill(c, p)
    <3>1. /\ pc' = [pc EXCEPT ![c] = "write"]
          /\ log' = Append(SubSeq(log, 1, hdr[c].mx), [page |-> p, val |-> txn, commit |-> FALSE])
      BY <1>1, <1>2, <2>1 DEF Spill, PutFrame, LocalTypes
    <3> QED
      BY <3>1
  <2>2. CASE CommitFrame(c, p)
    <3>1. /\ pc' = [pc EXCEPT ![c] = "publish"]
          /\ log' = Append(SubSeq(log, 1, hdr[c].mx), [page |-> p, val |-> txn, commit |-> TRUE])
      BY <2>2 DEF CommitFrame, PutFrame, Goto
    <3> QED
      BY <3>1
  <2> QED
    BY <2>1, <2>2
<1>6. /\ Len(log') = hdr[c].mx + 1 /\ \A i \in 1 .. hdr[c].mx : log'[i] = log[i]
      /\ log'[Len(log')].commit = commit
  <2> DEFINE old == SubSeq(log, 1, hdr[c].mx)
             fr == [page |-> p, val |-> txn, commit |-> commit]
  <2>1. old \in Seq(Frames) /\ Len(old) = hdr[c].mx /\ \A i \in 1 .. hdr[c].mx : old[i] = log[i]
    BY <1>4
  <2>2. fr.commit = commit
    OBVIOUS
  <2>3. log' = Append(old, fr)
    BY <1>5
  <2> HIDE DEF old, fr
  <2> QED
    BY <1>4, <2>1, <2>2, <2>3
<1>7. synced' \in {synced, hdr[c].mx}
  <2> DEFINE S == {synced, hdr[c].mx}
  <2>1. S \subseteq 0 .. Len(log) /\ S \subseteq Int /\ S # {}
    BY <1>4
  <2>2. IsFiniteSet(S)
    BY <1>4, <2>1, FS_Interval, FS_Subset, 0 \in Int, Len(log) \in Int, Zenon
  <2>3. synced' = Min(S)
    BY <1>2
  <2> HIDE DEF S
  <2>4. synced' \in S
    BY <2>1, <2>2, <2>3, MinFacts
  <2> QED
    BY <2>4 DEF S
<1>8. hdr'[c].mx = hdr[c].mx + 1
  BY <1>1, <1>2, <1>4 DEF LocalTypes, Headers
<1>9. pc'[c] = (IF commit THEN "publish" ELSE "write") /\ \A d \in Conns \ {c} : pc'[d] = pc[d]
  BY <1>1, <1>5 DEF LocalTypes
<1> QED
  BY <1>2, <1>3, <1>4, <1>6, <1>7, <1>8, <1>9

(* A frame of the writer: what may remain lies below it.                   *)
LEMMA PutFrameKeepsHistory ==
  ASSUME IInv, IInv', HistoryOk, NEW c \in Conns, NEW p \in Pages,
         Spill(c, p) \/ CommitFrame(c, p)
  PROVE  HistoryOk'
<1>1. PICK mx \in Nat : mx = hdr[c].mx
  BY PutFrameFacts
<1>2. /\ UNCHANGED <<db, dirty, shm, nBackfill, ck, history>>
      /\ pc[c] = "write" /\ pc'[c] \in {"write", "publish"}
      /\ \A d \in Conns \ {c} : pc'[d] = pc[d]
      /\ writer = c /\ c \in Writers /\ shm # NoHdr
      /\ shm.mx \in Nat /\ shm.mx <= mx /\ mx <= Len(log)
      /\ Len(log') = mx + 1
      /\ \A i \in 1 .. mx : log'[i] = log[i]
      /\ log'[Len(log')].commit <=> pc'[c] = "publish"
      /\ \A i \in shm.mx + 1 .. mx : ~log[i].commit
      /\ synced' \in {synced, mx}
  BY <1>1, PutFrameFacts
<1>3. Committed = shm.mx /\ Committed' = shm.mx /\ Len(log) \in Nat /\ synced \in Nat
  BY <1>2, CommittedFacts DEF Committed
<1>4. Publishing' => pc'[c] = "publish"
  BY <1>2 DEF Publishing, Conns, IInv, ConnOk, LocksOf, Writing
<1>5. shm.mx = 0 \/ log'[shm.mx].commit
  <2>1. shm.mx = 0 \/ (shm.mx \in 1 .. mx /\ log[shm.mx].commit)
    BY <1>2, <1>3 DEF HistoryOk
  <2> QED
    BY <1>2, <2>1
<1>6. ~Earlier'
  <2>1. ASSUME NEW j \in DOMAIN log', log'[j].commit, j > shm.mx
        PROVE  Publishing' /\ j = Len(log')
    <3>1. j \in 1 .. mx + 1
      BY <1>2, <2>1, CommittedFacts, PutFrameFacts
    <3>2. CASE j = mx + 1
      BY <1>2, <2>1, <3>2 DEF Publishing
    <3>3. CASE j # mx + 1
      <4>1. j \in shm.mx + 1 .. mx /\ j \in 1 .. mx
        BY <1>1, <1>2, <2>1, <3>1, <3>3
      <4> QED
        BY <1>2, <2>1, <4>1
    <3> QED
      BY <3>2, <3>3
  <2> QED
    BY <1>2, <2>1 DEF Earlier
<1>7. ASSUME NEW l \in 0 .. shm.mx, MayRemain(l)' PROVE Remains(l)'
  <2>1. /\ l \in Nat /\ l <= Len(log) /\ l <= Len(log') /\ l <= mx
        /\ \A i \in 1 .. l : log[i] = log'[i]
    BY <1>2, <1>3
  <2>2. \A i \in l + 1 .. shm.mx : log'[i] = log[i]
    BY <1>2, <2>1
  <2>3. MayRemain(l)
    <3>1. l = 0 \/ log[l].commit
      BY <1>7, <2>1 DEF MayRemain
    <3>2. ASSUME NEW j \in l + 1 .. shm.mx, log[j].commit PROVE j > synced
      <4>1. j > synced' /\ j <= mx
        BY <1>2, <1>3, <1>7, <2>2, <3>2 DEF MayRemain
      <4> QED
        BY <1>2, <1>3, <4>1
    <3> QED
      BY <1>3, <3>1, <3>2 DEF MayRemain
  <2>4. Remains(l)
    BY <1>3, <2>3 DEF HistoryOk
  <2>5. \A q \in Pages : FrameIn(log, q, 1, l) = FrameIn(log', q, 1, l)
    BY <1>2, <1>3, <2>1, FrameAgree, 1 \in Nat \ {0}
  <2>6. OverIn(log, db, 1, l) = OverIn(log', db, 1, l)
    <3>1. 1 \in Nat \ {0} /\ Len(log') \in Nat
            /\ \A q \in Pages : db[q] = db[q] \/ FrameIn(log, q, 1, l) # 0
      BY <1>2
    <3>2. Len(log) \in Nat
      BY <1>3
    <3> QED
      BY <2>1, <3>1, <3>2, OverAgree, SMTT(30)
  <2>7. Commits(log', l + 1, shm.mx) = Commits(log, l + 1, shm.mx)
    BY <1>2, <2>1, <2>2, CommitsSame
  <2>8. \A k \in Conns : pc'[k] = "ckcopy" => pc[k] = "ckcopy"
    BY <1>2
  <2> QED
    BY <1>2, <1>3, <2>4, <2>5, <2>6, <2>7, <2>8 DEF Remains
<1>8. Publishing' => log'[Len(log')].commit
  BY <1>2, <1>4
<1> QED
  BY <1>2, <1>3, <1>5, <1>6, <1>7, <1>8 DEF HistoryOk

(* What a commit in progress adds: the log to its end, over the file.      *)
LEMMA WrittenFacts ==
  ASSUME IInv, NEW c \in Conns, pc[c] = "publish"
  PROVE  /\ Written(c) = OverIn(log, db, 1, Len(log)) /\ Written(c) \in Images
         /\ writer = c /\ c \in Writers /\ shm # NoHdr
         /\ hdr[c].mx = Len(log) /\ hdr[c].gen = shm.gen
         /\ shm.mx \in Nat /\ shm.mx < Len(log) /\ nBackfill <= shm.mx /\ nBackfill \in Nat
<1>1. LocksOf(c) /\ HeaderOf(c) /\ IndexTypes /\ LocalTypes /\ FileTypes /\ IndexOk
  BY DEF IInv, Types, ConnOk
<1>2. /\ writer = c /\ c \in Writers /\ shm # NoHdr /\ rd[c] \in Slots
      /\ hdr[c].mx = Len(log) /\ hdr[c].gen = shm.gen /\ shm.mx < hdr[c].mx
      /\ shm.mx \in Nat /\ nBackfill \in Nat /\ nBackfill <= shm.mx
  <2>1. writer = c /\ shm # NoHdr /\ rd[c] \in Slots /\ hdr[c].gen = shm.gen
        /\ hdr[c].mx > shm.mx /\ (hdr[c].mx = shm.mx \/ hdr[c].mx = Len(log))
    BY <1>1 DEF LocksOf, HeaderOf, Writing
  <2>2. c \in Writers
    BY <1>1, <2>1, WalAssumption DEF IndexTypes
  <2>3. shm.mx \in Nat /\ hdr[c].mx \in Nat /\ nBackfill \in Nat /\ nBackfill <= shm.mx
    BY <1>1 DEF IndexTypes, LocalTypes, Headers, IndexOk
  <2> QED
    BY <2>1, <2>2, <2>3
<1>3. minFrame[c] \in 1 .. nBackfill + 1
  BY <1>2, ReaderBounds DEF InTransaction
<1>4. Written(c) = OverIn(log, db, minFrame[c], Len(log))
  BY <1>2, Bridge
<1>5. \A p \in Pages :
        0 < FrameIn(log, p, 1, shm.mx) /\ FrameIn(log, p, 1, shm.mx) <= nBackfill =>
          db[p] = log[FrameIn(log, p, 1, shm.mx)].val
  BY <1>1 DEF IndexOk
<1>6. Len(log) \in Nat /\ shm.mx <= Len(log) /\ nBackfill <= shm.mx /\ log \in Seq(Frames)
      /\ db \in Images
  BY <1>1, <1>2 DEF FileTypes
<1>7. OverIn(log, db, minFrame[c], Len(log)) = OverIn(log, db, 1, Len(log))
  <2>1. nBackfill \in Nat /\ shm.mx \in Nat /\ Len(log) \in Nat
    BY <1>2, <1>6
  <2> QED
    BY <1>3, <1>5, <1>6, <2>1, OverFrom, Zenon
<1>8. OverIn(log, db, 1, Len(log)) \in Images
  BY <1>6, OverImage, 1 \in Nat \ {0}
<1> QED
  BY <1>2, <1>4, <1>6, <1>7, <1>8

(* While a commit is published, what may remain of the log below it is what *)
(* might before, with one commit more behind it.                           *)
LEMMA BelowWritten ==
  ASSUME IInv, HistoryOk, NEW c \in Conns, pc[c] = "publish",
         NEW l \in 0 .. Len(log), l # Len(log), l = 0 \/ log[l].commit,
         \A j \in l + 1 .. Len(log) : log[j].commit => j > synced
  PROVE  /\ l \in 0 .. Committed /\ MayRemain(l)
         /\ Commits(log, l + 1, Len(log)) = Commits(log, l + 1, Committed) + 1
<1>1. /\ shm # NoHdr /\ shm.mx \in Nat /\ shm.mx < Len(log) /\ c \in Writers
      /\ Committed = shm.mx /\ Len(log) \in Nat /\ log \in Seq(Frames)
  BY WrittenFacts, CommittedFacts
<1>2. Publishing /\ log[Len(log)].commit /\ ~Earlier
  BY <1>1 DEF Publishing, HistoryOk
<1>3. \A j \in shm.mx + 1 .. Len(log) - 1 : ~log[j].commit
  <2>1. ASSUME NEW j \in shm.mx + 1 .. Len(log) - 1
        PROVE  j \in DOMAIN log /\ j > shm.mx /\ j # Len(log)
    BY <1>1
  <2> QED
    BY <1>1, <1>2, <2>1 DEF Earlier
<1>4. l \in Nat /\ l < Len(log) /\ l <= shm.mx
  BY <1>1, <1>3
<1>5. \A j \in l + 1 .. shm.mx : log[j].commit => j > synced
  BY <1>1
<1>6. Commits(log, l + 1, Len(log)) = Commits(log, l + 1, shm.mx) + 1
  BY <1>1, <1>2, <1>3, <1>4, CommitsOneMore
<1> QED
  BY <1>1, <1>4, <1>5, <1>6 DEF MayRemain

(* Publish: the log to its end is the newest version, and what may remain  *)
(* below it is what might before, unless the commit is on disk.            *)
LEMMA PublishKeepsHistory ==
  ASSUME IInv, IInv', HistoryOk, NEW c \in Conns, Publish(c)
  PROVE  HistoryOk'
<1>1. /\ pc[c] = "publish" /\ shm' = hdr[c]
      /\ history' = Append(history, Written(c))
      /\ \/ synced' = Len(log)
         \/ synced' = synced
      /\ UNCHANGED <<log, db, dirty, nBackfill, ck>>
      /\ pc' = [pc EXCEPT ![c] = "read"]
  BY DEF Publish, Goto
<1>2. /\ Written(c) = OverIn(log, db, 1, Len(log)) /\ Written(c) \in Images
      /\ writer = c /\ c \in Writers /\ shm # NoHdr
      /\ hdr[c].mx = Len(log) /\ hdr[c].gen = shm.gen
      /\ shm.mx \in Nat /\ shm.mx < Len(log) /\ nBackfill <= shm.mx /\ nBackfill \in Nat
  BY <1>1, WrittenFacts
<1>3. /\ Committed = shm.mx /\ Len(log) \in Nat /\ synced \in Nat
      /\ Len(history) \in Nat /\ history \in Seq(Images)
  BY <1>2, CommittedFacts
<1>4. shm' # NoHdr /\ shm'.mx = Len(log) /\ Committed' = Len(log)
  <2>1. shm.gen >= 0
    BY <1>2 DEF IInv, IndexOk
  <2>2. shm' # NoHdr
    BY <1>1, <1>2, <2>1 DEF NoHdr
  <2> QED
    BY <1>1, <1>2, <2>2 DEF Committed
<1>5. /\ pc'[c] = "read" /\ \A d \in Conns \ {c} : pc'[d] = pc[d]
  BY <1>1 DEF IInv, Types, LocalTypes
<1>6. ~Publishing'
  BY <1>2, <1>5 DEF Publishing, Conns, IInv, ConnOk, LocksOf, Writing
<1>7. ~Earlier' /\ log[Len(log)].commit /\ ~Earlier
  <2>1. Publishing
    BY <1>1, <1>2 DEF Publishing
  <2>2. \A j \in DOMAIN log : ~(j > Len(log))
    BY <1>3, CommittedFacts
  <2> QED
    BY <1>1, <1>4, <2>1, <2>2 DEF Earlier, HistoryOk
<1>9. /\ Len(history') = Len(history) + 1 /\ history'[Len(history) + 1] = Written(c)
      /\ \A i \in 1 .. Len(history) : history'[i] = history[i]
  BY <1>1, <1>2, <1>3
<1>10. ASSUME NEW l \in 0 .. Len(log), MayRemain(l)' PROVE Remains(l)'
  <2>1. CASE l = Len(log)
    <3>1. Commits(log, Len(log) + 1, Len(log)) = 0
      BY <1>3, CommitsFacts
    <3>2. OverIn(log, db, 1, l) = history'[Len(history') - Commits(log, l + 1, Len(log))]
      BY <1>2, <1>3, <1>9, <2>1, <3>1
    <3>3. ASSUME NEW p \in Pages, FrameIn(log, p, 1, l) = 0 PROVE dirty[p] = {db[p]}
      <4>1. FrameIn(log, p, 1, shm.mx) <= 0 /\ FrameIn(log, p, 1, shm.mx) \in Nat
        BY <1>2, <1>3, <2>1, <3>3, FrameUpTo, FrameFacts, 1 \in Nat \ {0}
      <4> QED
        BY <1>3, <4>1, Whole
    <3>4. ASSUME NEW k \in Conns, pc'[k] = "ckcopy" PROVE ck.safe <= l
      <4>1. pc[k] = "ckcopy"
        BY <1>5, <3>4
      <4>2. ck.safe <= hdr[k].mx /\ hdr[k].mx <= shm.mx /\ hdr[k].mx \in Nat /\ ck.safe \in Nat
        BY <4>1, CheckpointBounds
      <4> QED
        BY <1>2, <1>3, <2>1, <4>2
    <3> QED
      BY <1>1, <1>4, <3>2, <3>3, <3>4 DEF Remains
  <2>2. CASE l # Len(log)
    <3>1. l = 0 \/ log[l].commit
      BY <1>1, <1>10 DEF MayRemain
    <3>2. \A j \in l + 1 .. Len(log) : log[j].commit => j > synced' /\ synced' \in {synced, Len(log)}
      BY <1>1, <1>4, <1>10 DEF MayRemain
    <3>3. synced' = synced
      <4>1. Len(log) \in l + 1 .. Len(log)
        BY <1>3, <2>2
      <4> QED
        BY <1>3, <1>7, <3>2, <4>1
    <3>4. /\ l \in 0 .. Committed /\ MayRemain(l)
          /\ Commits(log, l + 1, Len(log)) = Commits(log, l + 1, Committed) + 1
      BY <1>1, <2>2, <3>1, <3>2, <3>3, BelowWritten
    <3>5. Commits(log, l + 1, Committed) \in Nat /\ Commits(log, l + 1, Committed) < Len(history)
      BY <3>4, RemainCount
    <3>6. /\ Len(history') - Commits(log, l + 1, Len(log)) = Len(history) - Commits(log, l + 1, Committed)
          /\ Len(history) - Commits(log, l + 1, Committed) \in 1 .. Len(history)
      BY <1>3, <1>9, <3>4, <3>5
    <3>7. Remains(l)
      BY <3>4 DEF HistoryOk
    <3>8. OverIn(log, db, 1, l) = history'[Len(history') - Commits(log, l + 1, Len(log))]
      <4>1. OverIn(log, db, 1, l) = history[Len(history) - Commits(log, l + 1, Committed)]
        BY <3>7 DEF Remains
      <4> QED
        BY <1>9, <3>6, <4>1
    <3>9. \A k \in Conns : pc'[k] = "ckcopy" => pc[k] = "ckcopy"
      BY <1>5
    <3> QED
      BY <1>1, <1>4, <3>7, <3>8, <3>9 DEF Remains
  <2> QED
    BY <2>1, <2>2
<1>11. nBackfill' # shm'.mx
  BY <1>1, <1>2, <1>3, <1>4
<1> QED
  BY <1>1, <1>4, <1>6, <1>7, <1>10, <1>11 DEF HistoryOk

(* Restart: what is copied is the newest version and on disk, so that the  *)
(* whole log may go; its old frames, replayed, change nothing.             *)
LEMMA RestartKeepsHistory ==
  ASSUME IInv, HistoryOk, NEW c \in Conns, Restart(c)
  PROVE  HistoryOk'
<1>1. /\ pc[c] = "write" /\ rd[c] = 0
      /\ UNCHANGED <<log, synced, db, dirty, history, ck>>
      /\ pc' = [pc EXCEPT ![c] = "pick"]
  BY DEF Restart, Goto, files, ghost
<1>2. /\ pc'[c] = "pick" /\ \A d \in Conns \ {c} : pc'[d] = pc[d]
      /\ LocksOf(c) /\ HeaderOf(c) /\ MarkOf(c) /\ IndexTypes /\ IndexOk
  BY <1>1 DEF IInv, Types, LocalTypes, ConnOk
<1>3. /\ writer = c /\ shm # NoHdr /\ hdr[c] = shm /\ nBackfill = shm.mx
      /\ shm.mx \in Nat /\ shm.gen \in Int /\ shm.gen >= 0
  BY <1>1, <1>2 DEF LocksOf, HeaderOf, MarkOf, Writing, IndexTypes, Headers, IndexOk
<1>4. CASE UNCHANGED index
  BY <1>1, <1>2, <1>4, OwnKeepsHistory DEF index
<1>5. CASE nBackfill > 0 /\ RestartHdr
  <2>1. shm' = [mx |-> 0, gen |-> shm.gen + 1] /\ nBackfill' = 0
    BY <1>5 DEF RestartHdr
  <2>2. shm' # NoHdr /\ shm'.mx = 0 /\ Committed' = 0
    BY <1>3, <2>1 DEF NoHdr, Committed
  <2>3. ~Publishing /\ ~Publishing'
    BY <1>1, <1>2, <1>3 DEF Publishing, Conns, IInv, ConnOk, LocksOf, Writing
  <2>4. \A k \in Conns : pc'[k] # "ckcopy"
    <3>1. ASSUME NEW k \in Conns, pc[k] = "ckcopy" PROVE FALSE
      BY <1>3, <3>1, CheckpointBounds
    <3> QED
      BY <1>2, <3>1
  <2>5. /\ Committed = shm.mx /\ log \in Seq(Frames) /\ db \in Images /\ Len(log) \in Nat
        /\ Len(history) \in Nat
    BY <1>3, CommittedFacts
  <2>6. OverIn(log, db, 1, shm.mx) = db /\ db = history[Len(history)]
    BY <1>3, <2>5, Newest, Whole
  <2>7. LastIn(log) = shm.mx
    <3>1. /\ LastIn(log) \in Nat /\ LastIn(log) <= Len(log)
          /\ LastIn(log) # 0 => log[LastIn(log)].commit
          /\ \A j \in DOMAIN log : log[j].commit => j <= LastIn(log)
      BY <2>5, LastFacts
    <3>2. ~(LastIn(log) > shm.mx)
      <4>1. ASSUME LastIn(log) > shm.mx PROVE FALSE
        <5>1. LastIn(log) \in DOMAIN log /\ log[LastIn(log)].commit
          BY <1>3, <2>5, <3>1, <4>1
        <5>2. Earlier
          BY <1>3, <2>3, <4>1, <5>1 DEF Earlier
        <5> QED
          BY <1>3, <1>5, <5>2 DEF HistoryOk
      <4> QED
        BY <4>1
    <3>3. shm.mx \in DOMAIN log /\ log[shm.mx].commit
      <4>1. shm.mx # 0 /\ shm.mx <= Len(log)
        BY <1>2, <1>3, <1>5 DEF IndexOk
      <4> QED
        BY <1>3, <2>5, <4>1 DEF HistoryOk
    <3> QED
      BY <1>3, <3>1, <3>2, <3>3
  <2>8. OverIn(log, db, 1, 0) = db
    BY <2>5, OverNone
  <2>9. Commits(log, 1, 0) = 0
    BY CommitsFacts
  <2>10. \A p \in Pages : dirty[p] = {db[p]}
    BY <1>3 DEF HistoryOk
  <2>11. \A l \in 0 .. 0 : Remains(l)'
    <3>1. OverIn(log, db, 1, 0) = history[Len(history) - Commits(log, 0 + 1, 0)]
      BY <2>5, <2>6, <2>8, <2>9
    <3>2. Remains(0)'
      BY <1>1, <2>2, <2>4, <2>10, <3>1 DEF Remains
    <3>3. \A l \in 0 .. 0 : l = 0
      OBVIOUS
    <3> QED
      BY <3>2, <3>3
  <2> QED
    BY <1>1, <2>1, <2>2, <2>3, <2>6, <2>7, <2>10, <2>11 DEF HistoryOk
<1> QED
  BY <1>4, <1>5 DEF Restart

(* CkptSync: with the log on disk, only the whole of it may remain.        *)
LEMMA CkptSyncKeepsHistory ==
  ASSUME IInv, HistoryOk, NEW c \in Conns, CkptSync(c), nBackfill < ck.safe /\ Free(0)
  PROVE  HistoryOk'
<1>1. /\ pc[c] = "ckscan" /\ synced' = Len(log)
      /\ ck' = [ck EXCEPT !.todo = {p \in Pages : ck.frame[p] > nBackfill
                                                  /\ ck.frame[p] <= ck.safe}]
      /\ pc' = [pc EXCEPT ![c] = "ckcopy"]
      /\ UNCHANGED <<log, db, dirty, shm, nBackfill, history>>
  BY DEF CkptSync, Goto, index
<1>2. /\ ck'.safe = ck.safe /\ \A d \in Conns \ {c} : pc'[d] = pc[d]
      /\ Publishing' <=> Publishing
  <2>1. ck'.safe = ck.safe
    BY <1>1 DEF IInv, Types, Ckpts
  <2>2. pc'[c] = "ckcopy" /\ \A d \in Conns \ {c} : pc'[d] = pc[d]
    BY <1>1 DEF IInv, Types, LocalTypes
  <2> QED
    BY <1>1, <2>1, <2>2 DEF Publishing, Conns
<1>3. /\ ck.safe \in Nat /\ shm.mx \in Nat /\ ck.safe <= shm.mx /\ shm # NoHdr
  <2>1. ck.safe <= hdr[c].mx /\ hdr[c].mx <= shm.mx /\ hdr[c].mx \in Nat /\ ck.safe \in Nat
        /\ shm.mx \in Nat
    BY <1>1, CheckpointBounds
  <2>2. shm # NoHdr
    BY <1>1 DEF IInv, ConnOk, HeaderOf
  <2> QED
    BY <2>1, <2>2
<1>4. /\ Committed = shm.mx /\ Committed' = Committed /\ Committed <= Len(log) /\ Len(log) \in Nat
  BY <1>1, <1>3, CommittedFacts DEF Committed
<1>5. Earlier' <=> Earlier
  BY <1>1, <1>2 DEF Earlier
<1>6. ASSUME NEW l \in 0 .. Committed, MayRemain(l)' PROVE Remains(l)'
  <2>1. l = Committed
    <3>1. ASSUME l # Committed PROVE FALSE
      <4>1. Committed \in l + 1 .. Committed /\ Committed # 0
        BY <1>3, <1>4, <3>1
      <4>2. log[Committed].commit
        BY <4>1 DEF HistoryOk
      <4>3. Committed > Len(log)
        BY <1>1, <1>4, <1>6, <4>1, <4>2 DEF MayRemain
      <4> QED
        BY <1>3, <1>4, <4>3
    <3> QED
      BY <3>1
  <2>2. Remains(Committed)
    BY <1>3, <1>4, Whole DEF HistoryOk
  <2>3. ck.safe <= Committed
    BY <1>3, <1>4
  <2>4. Committed \in Nat
    BY <1>3, <1>4
  <2> QED
    BY <1>1, <1>2, <1>4, <2>1, <2>2, <2>3 DEF Remains
<1> QED
  BY <1>1, <1>2, <1>4, <1>5, <1>6 DEF HistoryOk

(* The page that is copied has a frame among those that may be copied, and *)
(* what the log says over the file does not change from there on.          *)
LEMMA CkptCopyFacts ==
  ASSUME IInv, NEW c \in Conns, CkptCopy(c)
  PROVE  /\ pc[c] = "ckcopy" /\ ck'.safe = ck.safe /\ shm # NoHdr
         /\ UNCHANGED <<log, synced, shm, nBackfill, writer, history, durable,
                        pc, hdr, rd, minFrame, cache>>
         /\ nBackfill < shm.mx /\ shm.mx \in Nat /\ nBackfill \in Nat
         /\ \E p \in Pages, f \in 1 .. Len(log) :
              /\ f <= ck.safe /\ f <= shm.mx /\ log[f].page = p
              /\ \A q \in Pages \ {p} : db'[q] = db[q] /\ dirty'[q] = dirty[q]
              /\ \A hi \in Nat : f <= hi => OverIn(log, db', 1, hi) = OverIn(log, db, 1, hi)
<1> DEFINE least == Min(ck.todo)
<1>1. /\ pc[c] = "ckcopy" /\ ck.todo # {}
      /\ db' = [db EXCEPT ![least] = log[ck.frame[least]].val]
      /\ dirty' = [dirty EXCEPT ![least] = @ \cup {log[ck.frame[least]].val}]
      /\ ck' = [ck EXCEPT !.todo = @ \ {least}]
      /\ UNCHANGED <<index, locks, ghost>>
      /\ UNCHANGED <<log, synced, pc, hdr, rd, minFrame, pick, cache>>
  BY Zenon DEF CkptCopy
<1>2. CheckpointOf(c) /\ HeaderOf(c) /\ FileTypes /\ ck \in Ckpts /\ IndexTypes /\ IndexOk
  BY DEF IInv, Types, ConnOk
<1>3. least \in ck.todo
  <2>1. ck.todo \subseteq Pages
    BY <1>2 DEF Ckpts
  <2>2. IsFiniteSet(ck.todo)
    <3>1. IsFiniteSet(Pages)
      BY WalAssumption
    <3> QED
      BY <2>1, <3>1, FS_Subset, Zenon
  <2>3. ck.todo \subseteq Int /\ ck.todo # {}
    BY <1>1, <2>1, WalAssumption
  <2> QED
    BY <2>2, <2>3, MinFacts, Zenon
<1> HIDE DEF least
<1>4. PICK p \in Pages : p = least /\ p \in ck.todo
  BY <1>2, <1>3 DEF Ckpts
<1>5. PICK f \in Nat : f = ck.frame[p]
  BY <1>2, <1>4 DEF Ckpts
<1>6. /\ nBackfill < f /\ f <= ck.safe /\ f = FrameIn(log, p, 1, hdr[c].mx)
  BY <1>1, <1>2, <1>4, <1>5 DEF CheckpointOf
<1>7. /\ ck.safe <= hdr[c].mx /\ hdr[c].mx <= shm.mx /\ nBackfill < shm.mx
      /\ hdr[c].mx \in Nat /\ ck.safe \in Nat /\ shm.mx \in Nat /\ nBackfill \in Nat
  BY <1>1, CheckpointBounds
<1>8. shm.mx <= Len(log) /\ Len(log) \in Nat /\ shm # NoHdr
  BY <1>1, <1>2 DEF IndexOk, FileTypes, HeaderOf
<1>9. f \in 1 .. Len(log) /\ f <= shm.mx
  BY <1>6, <1>7, <1>8
<1>10. log[f].page = p
  BY <1>6, <1>7, <1>9, FrameFacts, 1 \in Nat \ {0}
<1>11. \A q \in Pages \ {p} : db'[q] = db[q] /\ dirty'[q] = dirty[q]
  BY <1>1, <1>2, <1>4 DEF FileTypes, Images
<1>12. ASSUME NEW hi \in Nat, f <= hi PROVE OverIn(log, db', 1, hi) = OverIn(log, db, 1, hi)
  <2>1. FrameIn(log, p, 1, hi) # 0
    <3>1. f \in 1 .. hi /\ f <= Len(log)
      BY <1>8, <1>9, <1>12
    <3>2. f <= FrameIn(log, p, 1, hi) /\ FrameIn(log, p, 1, hi) \in Nat
      BY <1>10, <3>1, FrameFacts, 1 \in Nat \ {0}
    <3> QED
      BY <1>9, <3>2
  <2>2. \A q \in Pages : FrameIn(log, q, 1, hi) = 0 => db'[q] = db[q]
    BY <1>11, <2>1
  <2> QED
    BY <2>2, Zenon DEF OverIn
<1>13. UNCHANGED <<shm, nBackfill, writer, history, durable>> /\ ck'.safe = ck.safe
  BY <1>1, <1>2 DEF index, locks, ghost, Ckpts
<1> QED
  BY <1>1, <1>6, <1>7, <1>8, <1>9, <1>10, <1>11, <1>12, <1>13

(* CkptCopy: no page is copied from beyond what may remain.                *)
LEMMA CkptCopyKeepsHistory ==
  ASSUME IInv, HistoryOk, NEW c \in Conns, CkptCopy(c)
  PROVE  HistoryOk'
<1>1. /\ pc[c] = "ckcopy" /\ ck'.safe = ck.safe /\ shm # NoHdr
      /\ UNCHANGED <<log, synced, shm, nBackfill, history, pc>>
      /\ nBackfill < shm.mx /\ shm.mx \in Nat /\ nBackfill \in Nat
  BY CkptCopyFacts
<1>2. PICK p \in Pages, f \in 1 .. Len(log) :
        /\ f <= ck.safe /\ f <= shm.mx /\ log[f].page = p
        /\ \A q \in Pages \ {p} : db'[q] = db[q] /\ dirty'[q] = dirty[q]
        /\ \A hi \in Nat : f <= hi => OverIn(log, db', 1, hi) = OverIn(log, db, 1, hi)
  BY CkptCopyFacts
<1>3. /\ Committed = shm.mx /\ Committed' = Committed /\ Len(log) \in Nat /\ ck.safe \in Nat
  BY <1>1, CommittedFacts, CheckpointBounds DEF Committed
<1>4. (Publishing' <=> Publishing) /\ (Earlier' <=> Earlier)
  BY <1>1 DEF Earlier, Publishing
<1>5. ~Earlier
  BY <1>1 DEF HistoryOk
<1>6. ASSUME NEW l \in 0 .. Committed, MayRemain(l)' PROVE Remains(l)'
  <2>1. Remains(l)
    BY <1>1, <1>3, <1>6 DEF HistoryOk, MayRemain
  <2>2. l \in Nat /\ f <= l
    BY <1>1, <1>2, <1>3, <2>1 DEF Remains
  <2>3. ASSUME NEW q \in Pages, FrameIn(log, q, 1, l) = 0 PROVE q # p
    <3>1. f \in 1 .. l /\ f <= Len(log) /\ f # 0
      BY <1>2, <1>3, <2>2
    <3>2. q = p => f <= FrameIn(log, q, 1, l)
      BY <1>2, <2>2, <3>1, FrameFacts, 1 \in Nat \ {0}
    <3> QED
      BY <2>3, <3>1, <3>2
  <2> QED
    BY <1>1, <1>2, <1>3, <2>1, <2>2, <2>3 DEF Remains
<1> QED
  BY <1>1, <1>3, <1>4, <1>5, <1>6 DEF HistoryOk

(* CkptFinish: when the whole log is copied, the database file is synced.  *)
LEMMA CkptFinishKeepsHistory ==
  ASSUME IInv, HistoryOk, NEW c \in Conns, CkptFinish(c)
  PROVE  HistoryOk'
<1>1. /\ pc[c] = "ckcopy"
      /\ dirty' = (IF ck.safe = shm.mx THEN [p \in Pages |-> {db[p]}] ELSE dirty)
      /\ nBackfill' = ck.safe
      /\ pc' = [pc EXCEPT ![c] = "idle"]
      /\ UNCHANGED <<log, synced, db, shm, history>>
  BY DEF CkptFinish, CkptEnd, Goto, ghost
<1>2. /\ pc'[c] = "idle" /\ \A d \in Conns \ {c} : pc'[d] = pc[d]
  BY <1>1 DEF IInv, Types, LocalTypes
<1>3. Publishing' <=> Publishing
  BY <1>1, <1>2 DEF Publishing, Conns
<1>4. \A k \in Conns : pc'[k] # "ckcopy"
  BY <1>1, <1>2, WalAssumption DEF IInv, ConnOk, LocksOf, Checkpointing
<1>5. Committed' = Committed /\ (Earlier' <=> Earlier)
  BY <1>1, <1>3 DEF Committed, LastCommit, Earlier
<1>6. ASSUME NEW l \in 0 .. Committed, MayRemain(l)' PROVE Remains(l)'
  <2>1. Remains(l)
    BY <1>1, <1>5, <1>6 DEF HistoryOk, MayRemain
  <2> QED
    BY <1>1, <1>4, <1>5, <2>1 DEF Remains
<1>7. nBackfill' = shm.mx => \A p \in Pages : dirty'[p] = {db[p]}
  BY <1>1
<1> QED
  BY <1>1, <1>3, <1>5, <1>6, <1>7 DEF HistoryOk

(* A log without commits between two lengths.                              *)
LEMMA CommitsSkip ==
  ASSUME NEW list, NEW l \in Nat, NEW n \in Nat, NEW hi \in Int, l <= n,
         \A i \in l + 1 .. n : ~list[i].commit
  PROVE  Commits(list, l + 1, hi) = Commits(list, n + 1, hi)
<1>1. {i \in l + 1 .. hi : list[i].commit} = {i \in n + 1 .. hi : list[i].commit}
  <2>1. \A i \in n + 1 .. hi : i \in l + 1 .. hi
    OBVIOUS
  <2>2. \A i \in l + 1 .. hi : list[i].commit => i \in n + 1 .. hi
    OBVIOUS
  <2> QED
    BY <2>1, <2>2
<1> QED
  BY <1>1, Zenon DEF Commits

(* What is read after a crash that leaves n frames, the last commit of     *)
(* which is l, and any content of the file a loss of power may leave: the  *)
(* commit in progress, or the version of the history at that commit.       *)
LEMMA AfterFacts ==
  ASSUME IInv, HistoryOk, NEW n \in synced .. Len(log),
         NEW l \in 0 .. n, l = 0 \/ log[l].commit, \A j \in l + 1 .. n : ~log[j].commit,
         NEW d \in Images, \A p \in Pages : d[p] \in dirty[p]
  PROVE  /\ Publishing /\ n = Len(log) =>
              OverIn(log, d, 1, l) = OverIn(log, db, 1, Len(log)) /\ l = Len(log)
         /\ ~(Publishing /\ n = Len(log)) =>
              OverIn(log, d, 1, l) = history[Len(history) - Commits(log, n + 1, Committed)]
<1>1. /\ log \in Seq(Frames) /\ Len(log) \in Nat /\ synced \in Nat /\ synced <= Len(log)
      /\ Committed \in Nat /\ Committed <= Len(log) /\ db \in Images
      /\ shm = NoHdr => Committed = LastIn(log)
      /\ shm # NoHdr => Committed = shm.mx
      /\ Len(history) \in Nat
  BY CommittedFacts
<1>2. n \in Nat /\ l \in Nat /\ l <= n /\ synced <= n /\ n <= Len(log)
  BY <1>1
<1>3. ASSUME NEW k \in Nat, \A p \in Pages : FrameIn(log, p, 1, k) = 0 => dirty[p] = {db[p]}
      PROVE  OverIn(log, d, 1, k) = OverIn(log, db, 1, k)
  <2>1. \A p \in Pages : FrameIn(log, p, 1, k) = 0 => d[p] = db[p]
    BY <1>3
  <2> QED
    BY <2>1, Zenon DEF OverIn
<1>4. ASSUME Publishing
      PROVE  Len(log) > Committed /\ log[Len(log)].commit /\ Len(log) # 0 /\ ~Earlier
  <2>1. PICK w \in Writers : pc[w] = "publish"
    BY <1>4 DEF Publishing
  <2>2. shm # NoHdr /\ shm.mx \in Nat /\ shm.mx < Len(log)
    BY <2>1, WrittenFacts DEF Conns
  <2> QED
    BY <1>1, <1>4, <2>2 DEF HistoryOk
<1>5. CASE l <= Committed
  <2>1. ~(Publishing /\ n = Len(log))
    <3>1. ASSUME Publishing, n = Len(log) PROVE FALSE
      <4>1. Len(log) \in l + 1 .. n
        BY <1>1, <1>2, <1>4, <1>5, <3>1
      <4> QED
        BY <1>4, <3>1, <4>1
    <3> QED
      BY <3>1
  <2>2. MayRemain(l) /\ l \in 0 .. Committed
    <3>1. ASSUME NEW j \in l + 1 .. Committed, log[j].commit PROVE j > synced
      <4>1. j \notin l + 1 .. n
        BY <3>1
      <4> QED
        BY <1>1, <1>2, <4>1
    <3>2. l \in 0 .. Committed
      BY <1>1, <1>2, <1>5
    <3> QED
      BY <3>1, <3>2 DEF MayRemain
  <2>3. Remains(l)
    BY <2>2 DEF HistoryOk
  <2>4. OverIn(log, d, 1, l) = OverIn(log, db, 1, l)
    BY <1>2, <1>3, <2>3 DEF Remains
  <2>5. Commits(log, l + 1, Committed) = Commits(log, n + 1, Committed)
    <3>1. Committed \in Int /\ n \in Nat /\ l \in Nat /\ l <= n
      BY <1>1, <1>2
    <3>2. \A j \in l + 1 .. n : ~log[j].commit
      OBVIOUS
    <3> QED
      BY <3>1, <3>2, CommitsSkip, Zenon
  <2>6. OverIn(log, db, 1, l) = history[Len(history) - Commits(log, l + 1, Committed)]
    BY <2>3, Zenon DEF Remains
  <2>7. OverIn(log, d, 1, l) = history[Len(history) - Commits(log, n + 1, Committed)]
    BY <2>4, <2>5, <2>6, Zenon
  <2> QED
    BY <2>1, <2>7, Zenon
<1>6. CASE l > Committed
  <2>1. l \in DOMAIN log /\ log[l].commit
    BY <1>1, <1>2, <1>6
  <2>2. shm # NoHdr /\ Committed = shm.mx
    <3>1. l <= LastIn(log) /\ LastIn(log) \in Nat
      BY <1>1, <2>1, LastFacts
    <3> QED
      BY <1>1, <1>2, <1>6, <3>1
  <2>3. CASE Publishing /\ n = Len(log)
    <3>1. l = Len(log)
      <4>1. Len(log) \notin l + 1 .. n
        BY <1>4, <2>3
      <4> QED
        BY <1>1, <1>2, <2>3, <4>1
    <3>2. ASSUME NEW p \in Pages, FrameIn(log, p, 1, l) = 0 PROVE dirty[p] = {db[p]}
      <4>1. FrameIn(log, p, 1, Committed) <= 0 /\ FrameIn(log, p, 1, Committed) \in Nat
        BY <1>1, <1>2, <1>6, <3>2, FrameUpTo, FrameFacts, 1 \in Nat \ {0}
      <4> QED
        BY <4>1, Whole
    <3> QED
      BY <1>2, <1>3, <2>3, <3>1, <3>2
  <2>4. CASE ~(Publishing /\ n = Len(log))
    <3>1. ~(Publishing /\ l = Len(log))
      BY <1>1, <1>2, <2>4
    <3>2. Earlier
      BY <1>6, <2>1, <2>2, <3>1 DEF Earlier
    <3>3. shm.mx = 0 /\ ~Publishing /\ OverIn(log, db, 1, LastIn(log)) = db
      BY <3>2 DEF HistoryOk
    <3>4. l = LastIn(log)
      <4>1. /\ LastIn(log) \in Nat /\ LastIn(log) \in DOMAIN log /\ log[LastIn(log)].commit
            /\ l <= LastIn(log)
        <5>1. l <= LastIn(log) /\ LastIn(log) \in 0 .. Len(log)
              /\ (LastIn(log) # 0 => log[LastIn(log)].commit)
          BY <1>1, <2>1, LastFacts
        <5> QED
          BY <1>1, <1>2, <1>6, <5>1
      <4>2. LastIn(log) <= synced
        BY <1>2, <1>6, <2>2, <3>3, <4>1 DEF IInv, Durability
      <4>3. LastIn(log) \notin l + 1 .. n
        BY <4>1
      <4> QED
        BY <1>1, <1>2, <4>1, <4>2, <4>3
    <3>5. \A p \in Pages : FrameIn(log, p, 1, 0) = 0 /\ dirty[p] = {db[p]}
      BY <1>1, <2>2, <3>3, OverNone, Whole
    <3>6. OverIn(log, d, 1, l) = OverIn(log, db, 1, l)
      BY <1>2, <1>3, <3>5
    <3>7. OverIn(log, db, 1, 0) = db /\ OverIn(log, db, 1, 0) = history[Len(history)]
      BY <1>1, <2>2, <3>3, OverNone, Whole
    <3>8. Commits(log, n + 1, Committed) = 0
      BY <1>1, <1>2, <2>2, <3>3, CommitsFacts
    <3> QED
      BY <1>1, <2>4, <3>3, <3>4, <3>6, <3>7, <3>8
  <2> QED
    BY <2>3, <2>4
<1> QED
  BY <1>1, <1>2, <1>5, <1>6

(* A crash at any moment gives back a version that is durable or newer, or *)
(* the commit that was in progress.                                        *)
LEMMA CrashRecovers ==
  ASSUME IInv, HistoryOk
  PROVE  Recoverable
<1> SUFFICES ASSUME NEW n \in synced .. Len(log), NEW d \in Images,
                    \A p \in Pages : d[p] \in dirty[p]
             PROVE  \/ \E i \in durable .. Len(history) : After(n, d) = history[i]
                    \/ \E c \in Writers : pc[c] = "publish" /\ After(n, d) = Written(c)
  BY Zenon DEF Recoverable
<1>1. /\ log \in Seq(Frames) /\ Len(log) \in Nat /\ synced \in Nat /\ synced <= Len(log)
      /\ Committed \in Nat /\ Committed <= Len(log) /\ n \in Nat /\ n <= Len(log)
      /\ Len(history) \in Nat \ {0} /\ durable \in Nat \ {0} /\ durable <= Len(history)
  BY CommittedFacts
<1> DEFINE S == {0} \cup {i \in 1 .. n : log[i].commit}
<1>2. Max(S) \in S /\ Max(S) \in 0 .. n /\ \A i \in S : Max(S) >= i
  <2>1. S \subseteq 0 .. n /\ S # {}
    BY <1>1
  <2>2. IsFiniteSet(0 .. n)
    BY <1>1, FS_Interval
  <2>3. IsFiniteSet(S)
    BY <2>1, <2>2, FS_Subset, Zenon
  <2>4. S \subseteq Int
    BY <2>1
  <2> HIDE DEF S
  <2> QED
    BY <2>1, <2>3, <2>4, MaxFacts
<1> HIDE DEF S
<1>3. PICK l \in 0 .. n : l = Max(S)
  BY <1>2, Zenon
<1>4. (l = 0 \/ log[l].commit) /\ \A j \in l + 1 .. n : ~log[j].commit
  <2>1. l \in S
    BY <1>2, <1>3, Zenon
  <2>2. ASSUME NEW j \in l + 1 .. n, log[j].commit PROVE FALSE
    <3>1. j \in S /\ l < j /\ j \in Int /\ l \in Int
      BY <1>1, <2>2 DEF S
    <3>2. l >= j
      BY <1>2, <1>3, <3>1
    <3> QED
      BY <3>1, <3>2
  <2> QED
    BY <2>1, <2>2 DEF S
<1>5. After(n, d) = OverIn(log, d, 1, l)
  <2>1. After(n, d) = [p \in Pages |-> IF {i \in 1 .. l : log[i].page = p} = {} THEN d[p]
                                      ELSE log[Max({i \in 1 .. l : log[i].page = p})].val]
    BY <1>3, Zenon DEF After, S
  <2>2. ASSUME NEW p \in Pages
        PROVE  (IF {i \in 1 .. l : log[i].page = p} = {} THEN d[p]
                ELSE log[Max({i \in 1 .. l : log[i].page = p})].val)
               = (IF FrameIn(log, p, 1, l) = 0 THEN d[p] ELSE log[FrameIn(log, p, 1, l)].val)
    <3> DEFINE T == {i \in 1 .. l : log[i].page = p}
    <3>1. /\ FrameIn(log, p, 1, l) \in Nat
          /\ FrameIn(log, p, 1, l) # 0 => FrameIn(log, p, 1, l) \in T
          /\ \A i \in T : i <= FrameIn(log, p, 1, l) /\ i # 0
      BY <1>1, FrameFacts, 1 \in Nat \ {0}
    <3>2. T \subseteq 1 .. l /\ l \in Int /\ 1 \in Int
      BY <1>1
    <3> HIDE DEF T
    <3>7. IsFiniteSet(1 .. l)
      BY <3>2, FS_Interval, Zenon
    <3>3. IsFiniteSet(T)
      BY <3>2, <3>7, FS_Subset, Zenon
    <3>4. T \subseteq Int
      BY <3>2
    <3>5. CASE T = {}
      BY <3>1, <3>5 DEF T
    <3>6. CASE T # {}
      <4>1. Max(T) \in T /\ \A i \in T : Max(T) >= i
        BY <3>3, <3>4, <3>6, MaxFacts
      <4>2. FrameIn(log, p, 1, l) = Max(T)
        <5>1. FrameIn(log, p, 1, l) \in Int /\ Max(T) \in Int /\ Max(T) >= 1
          <6>1. Max(T) \in 1 .. l
            BY <3>2, <4>1, Zenon
          <6> QED
            BY <3>1, <6>1, SMT
        <5>2. Max(T) <= FrameIn(log, p, 1, l)
          BY <3>1, <4>1, Zenon
        <5>3. FrameIn(log, p, 1, l) # 0
          BY <5>1, <5>2, SMT
        <5>5. FrameIn(log, p, 1, l) \in T
          BY <3>1, <5>3, Zenon
        <5>4. Max(T) >= FrameIn(log, p, 1, l)
          BY <4>1, <5>5, Zenon
        <5> QED
          BY <5>1, <5>2, <5>4, SMT
      <4> QED
        BY <3>1, <3>6, <4>1, <4>2 DEF T
    <3> QED
      BY <3>5, <3>6
  <2> QED
    BY <2>1, <2>2, Zenon DEF OverIn
<1>6. CASE Publishing /\ n = Len(log)
  <2>1. PICK c \in Writers : pc[c] = "publish"
    BY <1>6 DEF Publishing
  <2>2. After(n, d) = OverIn(log, db, 1, Len(log))
    BY <1>4, <1>5, <1>6, AfterFacts
  <2>3. Written(c) = OverIn(log, db, 1, Len(log))
    BY <2>1, WrittenFacts DEF Conns
  <2> QED
    BY <2>1, <2>2, <2>3
<1>7. CASE ~(Publishing /\ n = Len(log))
  <2>1. After(n, d) = history[Len(history) - Commits(log, n + 1, Committed)]
    BY <1>4, <1>5, <1>7, AfterFacts
  <2>2. /\ durable + Commits(log, n + 1, Committed) <= Len(history)
        /\ Commits(log, n + 1, Committed) \in Nat
    <3>1. n + 1 \in Int /\ synced + 1 \in Int /\ Committed \in Int
      BY <1>1
    <3>2. \A i \in n + 1 .. Committed : log[i].commit => i \in synced + 1 .. Committed /\ log[i].commit
      BY <1>1
    <3>3. Commits(log, n + 1, Committed) <= Commits(log, synced + 1, Committed)
      BY <3>1, <3>2, CommitsMonotone
    <3>4. Commits(log, n + 1, Committed) \in Nat /\ Commits(log, synced + 1, Committed) \in Nat
      BY <3>1, CommitsFacts
    <3>5. durable + Commits(log, synced + 1, Committed) <= Len(history)
      BY DEF IInv, Durability
    <3> QED
      BY <1>1, <3>3, <3>4, <3>5
  <2>3. Len(history) - Commits(log, n + 1, Committed) \in durable .. Len(history)
    BY <1>1, <2>2
  <2> QED
    BY <2>1, <2>3
<1> QED
  BY <1>6, <1>7

(* What a crash leaves: a prefix of the log, a content of the file it may  *)
(* leave, and the history up to that prefix.                               *)
LEMMA CrashFacts ==
  ASSUME IInv, NEW power \in BOOLEAN, Crash(power)
  PROVE  \E n \in synced .. Len(log) :
           /\ ~power => n = Len(log) /\ synced' = synced /\ db' = db /\ dirty' = dirty
           /\ power => synced' = n /\ \A p \in Pages : dirty'[p] = {db'[p]}
           /\ db' \in Images /\ \A p \in Pages : db'[p] \in dirty[p]
           /\ log' \in Seq(Frames) /\ Len(log') = n /\ \A i \in 1 .. n : log'[i] = log[i]
           /\ Committed' = LastIn(log') /\ LastIn(log') \in 0 .. n
           /\ LastIn(log') = 0 \/ (log[LastIn(log')].commit /\ log'[LastIn(log')].commit)
           /\ \A j \in LastIn(log') + 1 .. n : ~log[j].commit
           /\ Publishing /\ n = Len(log) =>
                history' = Append(history, OverIn(log, db, 1, Len(log)))
           /\ ~(Publishing /\ n = Len(log)) =>
                /\ Commits(log, n + 1, Committed) \in Nat
                /\ durable + Commits(log, n + 1, Committed) <= Len(history)
                /\ history' = SubSeq(history, 1, Len(history) - Commits(log, n + 1, Committed))
<1>1. PICK n \in (IF power THEN synced ELSE Len(log)) .. Len(log) :
        /\ log' = SubSeq(log, 1, n)
        /\ synced' = (IF power THEN n ELSE synced)
        /\ history' = IF \E c \in Writers : pc[c] = "publish" /\ n = Len(log)
                      THEN Append(history, Written(writer))
                      ELSE SubSeq(history, 1, Len(history) - CommitsIn(n + 1, Committed))
  BY Zenon DEF Crash
<1>2. /\ log \in Seq(Frames) /\ Len(log) \in Nat /\ synced \in Nat /\ synced <= Len(log)
      /\ Committed \in Nat /\ Committed <= Len(log) /\ db \in Images
      /\ Len(history) \in Nat /\ durable \in Nat
  BY CommittedFacts
<1>3. n \in Nat /\ n \in synced .. Len(log) /\ (~power => n = Len(log))
  BY <1>1, <1>2
<1>4. log' \in Seq(Frames) /\ Len(log') = n /\ \A i \in 1 .. n : log'[i] = log[i]
  BY <1>1, <1>2, <1>3
<1>5. /\ ~power => synced' = synced /\ db' = db /\ dirty' = dirty
      /\ power => synced' = n /\ \A p \in Pages : dirty'[p] = {db'[p]}
  BY <1>1, Zenon DEF Crash
<1>6. db' \in Images /\ \A p \in Pages : db'[p] \in dirty[p]
  <2>1. CASE power
    BY <2>1, Zenon DEF Crash
  <2>2. CASE ~power
    BY <1>2, <1>5, <2>2 DEF IInv, Types, FileTypes
  <2> QED
    BY <2>1, <2>2
<1>7. Committed' = LastIn(log')
  <2>1. shm' = NoHdr
    BY Zenon DEF Crash
  <2> QED
    BY <2>1, Zenon DEF Committed, LastCommit, LastIn
<1>8. /\ LastIn(log') \in 0 .. n
      /\ LastIn(log') = 0 \/ (log[LastIn(log')].commit /\ log'[LastIn(log')].commit)
      /\ \A j \in LastIn(log') + 1 .. n : ~log[j].commit
  <2>1. /\ LastIn(log') \in 0 .. n
        /\ LastIn(log') # 0 => log'[LastIn(log')].commit
        /\ \A j \in 1 .. n : log'[j].commit => j <= LastIn(log')
    BY <1>3, <1>4, LastFacts
  <2> QED
    BY <1>3, <1>4, <2>1
<1>9. Publishing /\ n = Len(log) => history' = Append(history, OverIn(log, db, 1, Len(log)))
  <2>1. ASSUME Publishing, n = Len(log)
        PROVE  Written(writer) = OverIn(log, db, 1, Len(log))
    <3>1. PICK c \in Writers : pc[c] = "publish"
      BY <2>1 DEF Publishing
    <3>2. c \in Conns
      BY DEF Conns
    <3> QED
      BY <3>1, <3>2, WrittenFacts
  <2> QED
    BY <1>1, <2>1, Zenon DEF Publishing
<1>10. Commits(log, n + 1, Committed) \in Nat /\ durable + Commits(log, n + 1, Committed) <= Len(history)
  <2>1. n + 1 \in Int /\ synced + 1 \in Int /\ Committed \in Int
    BY <1>2, <1>3
  <2>2. \A i \in n + 1 .. Committed : log[i].commit => i \in synced + 1 .. Committed /\ log[i].commit
    BY <1>2, <1>3
  <2>3. Commits(log, n + 1, Committed) <= Commits(log, synced + 1, Committed)
    BY <2>1, <2>2, CommitsMonotone
  <2>4. Commits(log, n + 1, Committed) \in Nat /\ Commits(log, synced + 1, Committed) \in Nat
    BY <2>1, CommitsFacts
  <2>5. durable + Commits(log, synced + 1, Committed) <= Len(history)
    BY DEF IInv, Durability
  <2> QED
    BY <1>2, <2>3, <2>4, <2>5
<1>11. ~(Publishing /\ n = Len(log)) =>
         history' = SubSeq(history, 1, Len(history) - Commits(log, n + 1, Committed))
  <2>1. CommitsIn(n + 1, Committed) = Commits(log, n + 1, Committed)
    BY Bridge, Zenon
  <2> QED
    BY <1>1, <2>1, Zenon DEF Publishing
<1> QED
  BY <1>3, <1>4, <1>5, <1>6, <1>7, <1>8, <1>9, <1>10, <1>11, Zenon

(* A crash: the length that is left may have been left before, and a file  *)
(* after a loss of power is synced.                                        *)
LEMMA CrashKeepsHistory ==
  ASSUME IInv, HistoryOk, NEW power \in BOOLEAN, Crash(power)
  PROVE  HistoryOk'
<1>1. PICK n \in synced .. Len(log) :
           /\ ~power => n = Len(log) /\ synced' = synced /\ db' = db /\ dirty' = dirty
           /\ power => synced' = n /\ \A p \in Pages : dirty'[p] = {db'[p]}
           /\ db' \in Images /\ \A p \in Pages : db'[p] \in dirty[p]
           /\ log' \in Seq(Frames) /\ Len(log') = n /\ \A i \in 1 .. n : log'[i] = log[i]
           /\ Committed' = LastIn(log') /\ LastIn(log') \in 0 .. n
           /\ LastIn(log') = 0 \/ (log[LastIn(log')].commit /\ log'[LastIn(log')].commit)
           /\ \A j \in LastIn(log') + 1 .. n : ~log[j].commit
           /\ Publishing /\ n = Len(log) =>
                history' = Append(history, OverIn(log, db, 1, Len(log)))
           /\ ~(Publishing /\ n = Len(log)) =>
                /\ Commits(log, n + 1, Committed) \in Nat
                /\ durable + Commits(log, n + 1, Committed) <= Len(history)
                /\ history' = SubSeq(history, 1, Len(history) - Commits(log, n + 1, Committed))
  BY CrashFacts
<1>2. /\ log \in Seq(Frames) /\ Len(log) \in Nat /\ synced \in Nat /\ synced <= Len(log)
      /\ Committed \in Nat /\ Committed <= Len(log) /\ db \in Images
      /\ shm = NoHdr => Committed = LastIn(log)
      /\ shm # NoHdr => Committed = shm.mx
      /\ Len(history) \in Nat \ {0} /\ history \in Seq(Images)
      /\ durable \in Nat \ {0} /\ durable <= Len(history)
  BY CommittedFacts
<1>3. n \in Nat /\ synced <= n /\ n <= Len(log)
  BY <1>2
<1>4. shm' = NoHdr /\ nBackfill' = 0 /\ pc' = [c \in Conns |-> "idle"]
  BY Zenon DEF Crash
<1>5. ~Publishing' /\ ~Earlier' /\ \A k \in Conns : pc'[k] # "ckcopy"
  BY <1>4 DEF Publishing, Earlier, Conns
<1>6. PICK T \in 0 .. n : T = LastIn(log')
  BY <1>1
<1>7. /\ T \in Nat /\ T <= n /\ Committed' = T
      /\ T = 0 \/ (log[T].commit /\ log'[T].commit)
      /\ \A j \in T + 1 .. n : ~log[j].commit
  BY <1>1, <1>3, <1>6
<1>8. ASSUME NEW l \in 0 .. T PROVE OverIn(log', db', 1, l) = OverIn(log, db', 1, l)
  <2>1. /\ l \in Nat /\ l <= Len(log') /\ l <= Len(log) /\ Len(log') \in Nat /\ Len(log) \in Nat
        /\ 1 \in Nat \ {0} /\ \A i \in 1 .. l : log'[i] = log[i]
    BY <1>1, <1>2, <1>3, <1>7
  <2>2. \A p \in Pages : db'[p] = db'[p] \/ FrameIn(log', p, 1, l) # 0
    OBVIOUS
  <2> QED
    BY <2>1, <2>2, OverAgree
<1>9. ASSUME NEW l \in 0 .. T, NEW p \in Pages
      PROVE  FrameIn(log', p, 1, l) = FrameIn(log, p, 1, l)
  <2>1. /\ l \in Nat /\ l <= Len(log') /\ l <= Len(log) /\ Len(log') \in Nat /\ Len(log) \in Nat
        /\ 1 \in Nat \ {0} /\ \A i \in 1 .. l : log'[i] = log[i]
    BY <1>1, <1>2, <1>3, <1>7
  <2> QED
    BY <2>1, FrameAgree
<1>10. /\ Publishing /\ n = Len(log) =>
            OverIn(log, db', 1, T) = OverIn(log, db, 1, Len(log)) /\ T = Len(log)
       /\ ~(Publishing /\ n = Len(log)) =>
            OverIn(log, db', 1, T) = history[Len(history) - Commits(log, n + 1, Committed)]
  <2>1. /\ T = 0 \/ log[T].commit
        /\ \A j \in T + 1 .. n : ~log[j].commit
    BY <1>7, Zenon
  <2>2. db' \in Images /\ \A p \in Pages : db'[p] \in dirty[p]
    BY <1>1, Zenon
  <2> QED
    BY <2>1, <2>2, AfterFacts, Zenon
<1>11. T \in 0 .. T /\ Commits(log', T + 1, T) = 0
  BY <1>7, CommitsFacts
<1>12. OverIn(log', db', 1, T) = history'[Len(history') - Commits(log', T + 1, T)]
  <2>1. OverIn(log', db', 1, T) = OverIn(log, db', 1, T)
    BY <1>8, <1>11, Zenon
  <2>2. CASE Publishing /\ n = Len(log)
    <3>1. history' = Append(history, OverIn(log, db', 1, T))
      BY <1>1, <1>10, <2>2, Zenon
    <3>2. OverIn(log, db', 1, T) \in Images
      BY <1>1, <1>2, <1>7, OverImage, 1 \in Nat \ {0}
    <3>3. Len(history') = Len(history) + 1 /\ history'[Len(history) + 1] = OverIn(log, db', 1, T)
      BY <1>2, <3>1, <3>2
    <3> QED
      BY <1>2, <1>11, <2>1, <3>3
  <2>3. CASE ~(Publishing /\ n = Len(log))
    <3>1. PICK k \in Nat : k = Len(history) - Commits(log, n + 1, Committed)
      BY <1>1, <1>2, <2>3
    <3>2. k \in 1 .. Len(history)
      <4>1. /\ Commits(log, n + 1, Committed) \in Nat
            /\ durable + Commits(log, n + 1, Committed) <= Len(history)
        BY <1>1, <2>3, Zenon
      <4>2. durable \in Nat \ {0} /\ Len(history) \in Nat
        BY <1>2
      <4> QED
        BY <3>1, <4>1, <4>2
    <3>3. history' = SubSeq(history, 1, k)
      BY <1>1, <2>3, <3>1
    <3>4. Len(history') = k /\ history'[k] = history[k]
      BY <1>2, <3>2, <3>3
    <3>5. OverIn(log, db', 1, T) = history[k]
      BY <1>10, <2>3, <3>1
    <3>6. Len(history') - Commits(log', T + 1, T) = k
      BY <1>11, <3>1, <3>4
    <3> QED
      BY <2>1, <3>4, <3>5, <3>6, Zenon
  <2> QED
    BY <2>2, <2>3
<1>13. ASSUME NEW p \in Pages, FrameIn(log', p, 1, T) = 0 PROVE dirty'[p] = {db'[p]}
  <2>1. CASE power
    BY <1>1, <2>1
  <2>2. CASE ~power
    <3>1. n = Len(log) /\ db' = db /\ dirty' = dirty
      BY <1>1, <2>2
    <3>2. FrameIn(log, p, 1, T) = 0
      BY <1>9, <1>11, <1>13, Zenon
    <3>3. CASE T <= Committed
      <4>1. T \in 0 .. Committed
        BY <1>2, <1>7, <3>3
      <4>2. \A j \in T + 1 .. Committed : j \in T + 1 .. n
        BY <1>2, <1>7, <3>1
      <4>3. MayRemain(T)
        BY <1>7, <4>1, <4>2, Zenon DEF MayRemain
      <4>4. Remains(T)
        BY <4>1, <4>3, Zenon DEF HistoryOk
      <4> QED
        BY <3>1, <3>2, <4>4, Zenon DEF Remains
    <3>4. CASE T > Committed
      <4>1. Committed \in Nat /\ Committed <= T
        BY <1>2, <1>7, <3>4
      <4>2. FrameIn(log, p, 1, Committed) <= FrameIn(log, p, 1, T)
        BY <1>7, <4>1, FrameUpTo, Zenon
      <4>3. FrameIn(log, p, 1, Committed) \in Nat
        BY <4>1, FrameFacts, 1 \in Nat \ {0}
      <4>4. FrameIn(log, p, 1, Committed) = 0
        BY <3>2, <4>2, <4>3
      <4>5. dirty[p] = {db[p]}
        BY <4>4, Whole, Zenon
      <4> QED
        BY <3>1, <4>5, Zenon
    <3> QED
      BY <1>2, <1>7, <3>3, <3>4
  <2> QED
    BY <2>1, <2>2
<1>14. Remains(T)'
  BY <1>5, <1>7, <1>12, <1>13, Zenon DEF Remains
<1>15. ASSUME NEW l \in 0 .. T, l # T, MayRemain(l)' PROVE Remains(l)'
  <2>1. /\ l \in Nat /\ T \in Nat /\ l < T /\ T \in l + 1 .. T /\ T # 0 /\ log'[T].commit
        /\ log[T].commit
    BY <1>7, <1>15
  <2>2. T > synced' /\ (l = 0 \/ log'[l].commit) /\ \A j \in l + 1 .. T : log'[j].commit => j > synced'
    BY <1>7, <1>15, <2>1, Zenon DEF MayRemain
  <2>3. ~power
    BY <1>1, <1>3, <1>7, <2>2
  <2>4. n = Len(log) /\ synced' = synced /\ db' = db /\ dirty' = dirty
    BY <1>1, <2>3
  <2>5. /\ T \in 1 .. n /\ l \in 0 .. Len(log) /\ (l = 0 \/ log[l].commit)
        /\ \A j \in l + 1 .. T : j \in 1 .. n
    BY <1>1, <1>7, <2>1, <2>2, <2>4
  <2>6. \A j \in l + 1 .. T : log[j].commit => j > synced
    BY <1>1, <2>2, <2>4, <2>5
  <2>7. Commits(log', l + 1, T) = Commits(log, l + 1, T)
    <3>1. {i \in l + 1 .. T : log'[i].commit} = {i \in l + 1 .. T : log[i].commit}
      BY <1>1, <2>5
    <3> QED
      BY <3>1, Zenon DEF Commits
  <2>8. /\ l \in 0 .. Committed /\ MayRemain(l)
        /\ history'[Len(history') - Commits(log, l + 1, T)]
             = history[Len(history) - Commits(log, l + 1, Committed)]
    <3>1. CASE Publishing
      <4>1. PICK c \in Writers : pc[c] = "publish"
        BY <3>1 DEF Publishing
      <4>2. c \in Conns /\ T = Len(log) /\ l # Len(log)
        BY <1>10, <1>15, <2>4, <3>1, <4>1 DEF Conns
      <4>3. \A j \in l + 1 .. Len(log) : log[j].commit => j > synced
        BY <2>6, <4>2
      <4>4. /\ l \in 0 .. Committed /\ MayRemain(l)
            /\ Commits(log, l + 1, Len(log)) = Commits(log, l + 1, Committed) + 1
        BY <2>5, <4>1, <4>2, <4>3, BelowWritten, Zenon
      <4>5. /\ Commits(log, l + 1, Committed) \in Nat
            /\ Commits(log, l + 1, Committed) < Len(history)
        BY <4>4, RemainCount
      <4>6. PICK m \in 1 .. Len(history) : m = Len(history) - Commits(log, l + 1, Committed)
        BY <1>2, <4>5
      <4>7. PICK W \in Images : history' = Append(history, W)
        <5>1. OverIn(log, db, 1, Len(log)) \in Images
          BY <1>2, OverImage, 1 \in Nat \ {0}
        <5>2. history' = Append(history, OverIn(log, db, 1, Len(log)))
          BY <1>1, <2>4, <3>1
        <5> QED
          BY <5>1, <5>2
      <4>8. Len(history') = Len(history) + 1 /\ history'[m] = history[m]
        BY <1>2, <4>7
      <4>9. Len(history') - Commits(log, l + 1, T) = m
        <5>1. Len(history') = Len(history) + 1 /\ Len(history) \in Nat
          BY <1>2, <4>8
        <5>2. Commits(log, l + 1, T) = Commits(log, l + 1, Committed) + 1
          BY <4>2, <4>4, Zenon
        <5>3. Commits(log, l + 1, Committed) \in Nat
          BY <4>5, Zenon
        <5>4. m = Len(history) - Commits(log, l + 1, Committed)
          BY <4>6, Zenon
        <5> QED
          BY <5>1, <5>2, <5>3, <5>4
      <4> QED
        BY <4>4, <4>6, <4>8, <4>9, Zenon
    <3>2. CASE ~Publishing
      <4>1. T <= Committed
        <5>1. CASE shm = NoHdr
          <6>1. T \in DOMAIN log
            BY <1>2, <2>4, <2>5
          <6>2. T <= LastIn(log)
            BY <1>2, <2>1, <6>1, LastFacts
          <6> QED
            BY <1>2, <5>1, <6>2
        <5>2. CASE shm # NoHdr
          <6>1. T \in DOMAIN log /\ ~(T <= synced) /\ shm.mx = Committed
            BY <1>2, <1>3, <2>2, <2>4, <2>5, <5>2
          <6>2. ~(T > shm.mx)
            BY <2>1, <3>2, <5>2, <6>1 DEF IInv, Durability
          <6> QED
            BY <1>2, <2>1, <6>1, <6>2
        <5> QED
          BY <5>1, <5>2
      <4>2. Committed = T
        <5>1. log[Committed].commit
          BY <1>2, <2>1, <4>1 DEF HistoryOk
        <5>2. Committed \notin T + 1 .. n
          BY <1>7, <5>1
        <5> QED
          BY <1>2, <1>7, <2>4, <4>1, <5>2
      <4>3. l \in 0 .. Committed /\ MayRemain(l)
        BY <2>5, <2>6, <4>2 DEF MayRemain
      <4>4. Commits(log, n + 1, Committed) = 0
        BY <1>2, <1>3, <2>4, CommitsFacts
      <4>5. /\ Commits(log, l + 1, Committed) \in Nat
            /\ Commits(log, l + 1, Committed) < Len(history)
        BY <4>3, RemainCount
      <4>6. PICK m \in 1 .. Len(history) : m = Len(history) - Commits(log, l + 1, Committed)
        BY <1>2, <4>5
      <4>7. history' = SubSeq(history, 1, Len(history))
        BY <1>1, <1>2, <3>2, <4>4
      <4>8. Len(history') = Len(history) /\ history'[m] = history[m]
        BY <1>2, <4>7
      <4> QED
        BY <4>2, <4>3, <4>6, <4>8, Zenon
    <3> QED
      BY <3>1, <3>2
  <2>9. Remains(l)
    BY <2>8, Zenon DEF HistoryOk
  <2>10. /\ OverIn(log, db, 1, l) = history[Len(history) - Commits(log, l + 1, Committed)]
         /\ \A p \in Pages : FrameIn(log, p, 1, l) = 0 => dirty[p] = {db[p]}
    BY <2>9, Zenon DEF Remains
  <2>11. OverIn(log', db', 1, l) = OverIn(log, db, 1, l)
    BY <1>8, <2>4, Zenon
  <2>12. OverIn(log', db', 1, l) = history'[Len(history') - Commits(log', l + 1, Committed')]
    BY <1>7, <2>7, <2>8, <2>10, <2>11, Zenon
  <2>13. \A p \in Pages : FrameIn(log', p, 1, l) = 0 => dirty'[p] = {db'[p]}
    BY <1>9, <2>4, <2>10, Zenon
  <2> QED
    BY <1>5, <2>12, <2>13, Zenon DEF Remains
<1>16. \A l \in 0 .. Committed' : MayRemain(l)' => Remains(l)'
  BY <1>7, <1>14, <1>15, Zenon
<1>17. Committed' = 0 \/ log'[Committed'].commit
  BY <1>7, Zenon
<1> QED
  BY <1>4, <1>5, <1>16, <1>17, Zenon DEF HistoryOk

(* In the beginning the file is the only version.                          *)
LEMMA InitHistory ==
  ASSUME Init
  PROVE  HistoryOk
<1>1. IInv
  BY InitEstablishes
<1>2. /\ log = <<>> /\ Len(log) = 0 /\ log \in Seq(Frames) /\ shm = NoHdr
      /\ pc = [c \in Conns |-> "idle"]
      /\ db \in Images /\ history = <<db>> /\ \A p \in Pages : dirty[p] = {db[p]}
  BY WalAssumption DEF Init, Images
<1>3. ~Publishing /\ ~Earlier /\ \A k \in Conns : pc[k] # "ckcopy"
  BY <1>2 DEF Publishing, Earlier, Conns
<1>4. Committed = 0 /\ Len(history) = 1 /\ history[1] = db
  <2>1. Committed \in Nat /\ Committed <= Len(log)
    BY <1>1, CommittedFacts
  <2> QED
    BY <1>2, <2>1
<1>5. Commits(log, 0 + 1, 0) = 0 /\ OverIn(log, db, 1, 0) = db
  BY <1>2, CommitsFacts, OverNone
<1>6. OverIn(log, db, 1, 0) = history[Len(history) - Commits(log, 0 + 1, Committed)]
  BY <1>4, <1>5
<1>7. \A l \in 0 .. Committed : Remains(l)
  <2>1. \A l \in 0 .. Committed : l = 0
    BY <1>4
  <2>2. Remains(0)
    BY <1>2, <1>3, <1>6, Zenon DEF Remains
  <2> QED
    BY <2>1, <2>2, Zenon
<1> QED
  BY <1>2, <1>3, <1>4, <1>7, Zenon DEF HistoryOk

(* Every step keeps both.                                                  *)
LEMMA HistoryStep ==
  ASSUME IInv, HistoryOk, HeaderFresh, [Next]_vars
  PROVE  IInv' /\ HistoryOk'
<1>1. IInv'
  BY StepKeeps
<1>2. ASSUME NEW c \in Conns, Read(c) PROVE HistoryOk'
  <2>1. CASE BeginRead(c)
    BY <2>1, LocalKeepsHistory, RecoverKeepsHistory
  <2>2. CASE ~BeginRead(c)
    BY <1>2, <2>2, LocalKeepsHistory DEF Read
  <2> QED
    BY <2>1, <2>2
<1>3. ASSUME NEW c \in Conns, Write(c) PROVE HistoryOk'
  <2>1. CASE BeginWrite(c) \/ Rollback(c)
    BY <2>1, LocalKeepsHistory
  <2>2. CASE Restart(c)
    BY <2>2, RestartKeepsHistory
  <2>3. CASE Publish(c)
    BY <1>1, <2>3, PublishKeepsHistory
  <2>4. CASE \E p \in Pages : Spill(c, p) \/ CommitFrame(c, p)
    BY <1>1, <2>4, PutFrameKeepsHistory
  <2> QED
    BY <1>3, <2>1, <2>2, <2>3, <2>4 DEF Write
<1>4. ASSUME NEW c \in Conns, Checkpoint(c) PROVE HistoryOk'
  <2>1. CASE CkptBegin(c)
    BY <2>1, LocalKeepsHistory, RecoverKeepsHistory
  <2>2. CASE CkptStart(c) \/ CkptScan(c)
    BY <2>2, LocalKeepsHistory
  <2>3. CASE CkptSync(c)
    BY <2>3, LocalKeepsHistory, CkptSyncKeepsHistory
  <2>4. CASE CkptCopy(c)
    BY <2>4, CkptCopyKeepsHistory
  <2>5. CASE CkptFinish(c)
    BY <2>5, CkptFinishKeepsHistory
  <2> QED
    BY <1>4, <2>1, <2>2, <2>3, <2>4, <2>5 DEF Checkpoint
<1>5. CASE \E power \in BOOLEAN : Crash(power)
  BY <1>1, <1>5, CrashKeepsHistory
<1>6. CASE UNCHANGED vars
  BY <1>1, <1>6, QuietKeepsHistory DEF vars, Publishing
<1> QED
  BY <1>1, <1>2, <1>3, <1>4, <1>5, <1>6 DEF Next

(* What the log, the file and the history say of each other in every       *)
(* state: any length a crash may leave the log at gives a version, the     *)
(* whole log gives the newest one, and a file that is not synced is no     *)
(* older than the frames still needed over it (wal.c:1805-1862,            *)
(* 3100-3195).                                                             *)
THEOREM HistoryInvariance == ASSUME HeaderFresh PROVE Spec => [](IInv /\ HistoryOk)
<1>1. Init => IInv /\ HistoryOk
  BY InitEstablishes, InitHistory
<1>2. IInv /\ HistoryOk /\ [Next]_vars => IInv' /\ HistoryOk'
  BY HistoryStep
<1> QED
  BY <1>1, <1>2, PTL DEF Spec

(* A crash at any moment, with any part of what was not synced lost, gives *)
(* back a committed content no older than the last one made durable, or    *)
(* the commit that was being published (wal.c:1805-1862, 3100-3195).       *)
THEOREM AlwaysRecoverable == ASSUME HeaderFresh PROVE Spec => []Recoverable
<1>1. IInv /\ HistoryOk => Recoverable
  BY CrashRecovers
<1> QED
  BY <1>1, HistoryInvariance, PTL

-----------------------------------------------------------------------------
(* The refinement of AbstractSnapshots.                                    *)

(* The content whose commit frame is in the log and is not published.      *)
Pending == IF \E c \in Writers : pc[c] = "publish" THEN Written(writer) ELSE NoImage

(* What the connections see, in terms of the page caches: a writer, and a  *)
(* transaction whose header is current, see the newest version.            *)
SeenOk ==
  /\ \A c \in Conns :
       /\ Seen(c) = IF InTransaction(c) THEN cache[c]
                    ELSE IF writer = c THEN history[Len(history)] ELSE NoImage
       /\ writer = c => Seen(c) = history[Len(history)]
       /\ InTransaction(c) /\ hdr[c] = shm => cache[c] = history[Len(history)]
       /\ InTransaction(c) => cache[c] \in Images
  /\ Pending = IF Publishing THEN OverIn(log, db, 1, Len(log)) ELSE NoImage
  /\ OverIn(log, db, 1, Len(log)) \in Images

(* ... in every state the invariants allow, before a step and after it.    *)
LEMMA SeenFacts ==
  ASSUME IInv, HistoryOk
  PROVE  SeenOk
<1>1. FileTypes /\ IndexTypes /\ LocalTypes /\ GhostTypes /\ IndexOk /\ 1 \in Nat \ {0}
  BY DEF IInv, Types
<1>2. shm # NoHdr => OverIn(log, db, 1, shm.mx) = history[Len(history)]
  BY CommittedFacts, Whole
<1>3. /\ log \in Seq(Frames) /\ Len(log) \in Nat /\ shm.mx \in Nat /\ nBackfill \in Nat /\ db \in Images
  BY <1>1 DEF FileTypes, IndexTypes, Headers, IndexOk
<1>4. OverIn(log, db, 1, Len(log)) \in Images
  BY <1>1, <1>3, OverImage
<1>5. Pending = IF Publishing THEN OverIn(log, db, 1, Len(log)) ELSE NoImage
  <2>1. ASSUME Publishing PROVE Written(writer) = OverIn(log, db, 1, Len(log))
    <3>1. PICK c \in Writers : pc[c] = "publish"
      BY <2>1 DEF Publishing
    <3>2. c \in Conns
      BY DEF Conns
    <3> QED
      BY <3>1, <3>2, WrittenFacts
  <2> QED
    BY <2>1, Zenon DEF Pending, Publishing
<1>6. ASSUME NEW c \in Conns
      PROVE  /\ Seen(c) = IF InTransaction(c) THEN cache[c]
                          ELSE IF writer = c THEN history[Len(history)] ELSE NoImage
             /\ writer = c => Seen(c) = history[Len(history)]
             /\ InTransaction(c) /\ hdr[c] = shm => cache[c] = history[Len(history)]
             /\ InTransaction(c) => cache[c] \in Images
  <2>1. LocksOf(c) /\ HeaderOf(c) /\ MarkOf(c) /\ CacheOf(c)
    BY DEF IInv, ConnOk
  <2>2. c # Nobody /\ (writer = c => shm # NoHdr)
    BY <1>1, WalAssumption DEF IndexOk
  <2>3. InTransaction(c) => cache[c] = View(c)
    BY <2>1, Bridge, Zenon DEF CacheOf
  <2>4. ~InTransaction(c) /\ writer = c => Seen(c) = history[Len(history)]
    <3>1. Over(1, shm.mx) = OverIn(log, db, 1, shm.mx)
      BY Bridge, Zenon
    <3> QED
      BY <1>2, <2>2, <3>1, Zenon DEF Seen
  <2>5. Seen(c) = IF InTransaction(c) THEN cache[c]
                  ELSE IF writer = c THEN history[Len(history)] ELSE NoImage
    BY <2>3, <2>4, Zenon DEF Seen
  <2>6. ASSUME InTransaction(c)
        PROVE  /\ shm # NoHdr /\ rd[c] \in {0} \cup Slots
               /\ ~(ckpt = c) /\ cache[c] \in Images
    <3>1. pc[c] \in {"read", "write", "publish"}
      BY <2>6 DEF InTransaction
    <3>2. shm # NoHdr /\ ~(ckpt = c)
      BY <2>1, <3>1 DEF HeaderOf, LocksOf, Checkpointing
    <3>3. rd[c] \in {0} \cup Slots
      BY <1>1, <2>1, <3>1 DEF LocksOf, LocalTypes
    <3>4. CASE rd[c] = 0
      BY <1>3, <2>1, <2>6, <3>2, <3>4 DEF CacheOf
    <3>5. CASE rd[c] \in Slots
      <4>1. Top(c) \in Nat /\ minFrame[c] \in Nat \ {0}
        BY <2>6, <3>5, ReaderBounds
      <4>2. OverIn(log, db, minFrame[c], Top(c)) \in Images
        BY <1>3, <4>1, OverImage
      <4>3. rd[c] # 0
        BY <3>5 DEF Slots
      <4>4. cache[c] = OverIn(log, db, minFrame[c], Top(c))
        BY <2>1, <2>6, <4>3 DEF CacheOf
      <4> QED
        BY <3>2, <3>3, <4>2, <4>4, Zenon
    <3> QED
      BY <3>3, <3>4, <3>5
  <2>7. InTransaction(c) /\ hdr[c] = shm => cache[c] = history[Len(history)]
    <3>1. ASSUME InTransaction(c), hdr[c] = shm PROVE cache[c] # NoImage
      BY <2>6, <3>1, WalAssumption
    <3> QED
      BY <1>2, <2>1, <2>6, <3>1, Zenon DEF CacheOf
  <2>8. ASSUME InTransaction(c), writer = c PROVE cache[c] = history[Len(history)]
    <3>1. CASE rd[c] = 0
      <4>1. hdr[c] = shm
        BY <2>1, <2>8, <3>1 DEF HeaderOf
      <4> QED
        BY <2>7, <2>8, <4>1
    <3>2. CASE rd[c] \in Slots
      <4>1. minFrame[c] \in 1 .. nBackfill + 1 /\ rd[c] # 0 /\ Top(c) = shm.mx
        BY <2>8, <3>2, ReaderBounds DEF Slots, Top
      <4>2. OverIn(log, db, minFrame[c], shm.mx) = OverIn(log, db, 1, shm.mx)
        BY <4>1, Newest
      <4>3. cache[c] = OverIn(log, db, minFrame[c], shm.mx)
        BY <2>1, <2>8, <4>1 DEF CacheOf
      <4> QED
        BY <1>2, <2>6, <2>8, <4>2, <4>3, Zenon
    <3> QED
      BY <2>6, <2>8, <3>1, <3>2
  <2> QED
    BY <2>4, <2>5, <2>6, <2>7, <2>8, Zenon
<1> QED
  BY <1>4, <1>5, <1>6, Zenon DEF SeenOk

LEMMA SeenBoth ==
  (IInv /\ HistoryOk => SeenOk) /\ ((IInv /\ HistoryOk)' => SeenOk')
<1>1. IInv /\ HistoryOk => SeenOk
  BY SeenFacts
<1> QED
  BY <1>1, PTL

(* A connection that a step does not touch sees what it saw.               *)
LEMMA SeenStays ==
  ASSUME SeenOk, SeenOk', NEW d \in Conns,
         InTransaction(d)' <=> InTransaction(d), cache'[d] = cache[d],
         writer' = d <=> writer = d,
         InTransaction(d) \/ writer # d \/ history' = history
  PROVE  Seen(d)' = Seen(d)
<1>1. Seen(d) = IF InTransaction(d) THEN cache[d]
                ELSE IF writer = d THEN history[Len(history)] ELSE NoImage
  BY Zenon DEF SeenOk
<1>2. Seen(d)' = IF InTransaction(d)' THEN cache'[d]
                 ELSE IF writer' = d THEN history'[Len(history')] ELSE NoImage
  BY Zenon DEF SeenOk
<1> QED
  BY <1>1, <1>2

(* The steps of AbstractSnapshots, and the step that is none.              *)
LEMMA MapsToNone ==
  ASSUME UNCHANGED <<history, durable>>, Pending' = Pending,
         \A d \in Conns : Seen(d)' = Seen(d)
  PROVE  UNCHANGED Abstract!vars
<1>1. [c \in Conns |-> Seen(c)]' = [c \in Conns |-> Seen(c)]
  OBVIOUS
<1> QED
  BY <1>1 DEF Abstract!vars, Pending

LEMMA MapsToBegin ==
  ASSUME UNCHANGED <<history, durable>>, Pending' = Pending, NEW c \in Conns,
         Seen(c) = NoImage, Seen(c)' = history[Len(history)],
         \A d \in Conns \ {c} : Seen(d)' = Seen(d)
  PROVE  Abstract!Next
<1>1. [k \in Conns |-> Seen(k)][c] = NoImage
  OBVIOUS
<1>2. [k \in Conns |-> Seen(k)]'
        = [[k \in Conns |-> Seen(k)] EXCEPT ![c] = history[Len(history)]]
  OBVIOUS
<1>3. Abstract!Begin(c)
  BY <1>1, <1>2 DEF Abstract!Begin, Abstract!Newest, Pending
<1> QED
  BY <1>3 DEF Abstract!Next

LEMMA MapsToEnd ==
  ASSUME UNCHANGED <<history, durable>>, Pending' = Pending, NEW c \in Conns,
         Seen(c) # NoImage, Seen(c)' = NoImage,
         \A d \in Conns \ {c} : Seen(d)' = Seen(d)
  PROVE  Abstract!Next
<1>1. [k \in Conns |-> Seen(k)][c] = Seen(c)
  OBVIOUS
<1>2. [k \in Conns |-> Seen(k)]' = [[k \in Conns |-> Seen(k)] EXCEPT ![c] = NoImage]
  <2>1. ASSUME NEW d \in Conns
        PROVE  Seen(d)' = [[k \in Conns |-> Seen(k)] EXCEPT ![c] = NoImage][d]
    <3>1. CASE d = c
      BY <3>1
    <3>2. CASE d # c
      BY <3>2
    <3> QED
      BY <3>1, <3>2
  <2> QED
    BY <2>1
<1>3. Abstract!End(c)
  BY <1>1, <1>2 DEF Abstract!End, Pending
<1> QED
  BY <1>3 DEF Abstract!Next

LEMMA MapsToPrepare ==
  ASSUME UNCHANGED <<history, durable>>, NEW c \in Conns,
         Pending = NoImage, Pending' \in Images, Seen(c) = history[Len(history)],
         \A d \in Conns : Seen(d)' = Seen(d)
  PROVE  Abstract!Next
<1>1. [k \in Conns |-> Seen(k)][c] = history[Len(history)]
  OBVIOUS
<1>2. [k \in Conns |-> Seen(k)]' = [k \in Conns |-> Seen(k)]
  OBVIOUS
<1>3. Abstract!Prepare(c)
  BY <1>1, <1>2 DEF Abstract!Prepare, Abstract!Newest, Pending
<1> QED
  BY <1>3 DEF Abstract!Next

LEMMA MapsToCommit ==
  ASSUME NEW c \in Conns, Pending # NoImage, Seen(c) = history[Len(history)],
         history' = Append(history, Pending), durable' \in {durable, Len(history')},
         Pending' = NoImage, Seen(c)' = Pending,
         \A d \in Conns \ {c} : Seen(d)' = Seen(d)
  PROVE  Abstract!Next
<1>1. [k \in Conns |-> Seen(k)][c] = history[Len(history)]
  OBVIOUS
<1>2. [k \in Conns |-> Seen(k)]' = [[k \in Conns |-> Seen(k)] EXCEPT ![c] = Pending]
  OBVIOUS
<1>3. Abstract!Commit(c)
  BY <1>1, <1>2 DEF Abstract!Commit, Abstract!Newest, Pending
<1> QED
  BY <1>3 DEF Abstract!Next

LEMMA MapsToHarden ==
  ASSUME history' = history, durable' = Len(history), Pending' = Pending,
         \A d \in Conns : Seen(d)' = Seen(d)
  PROVE  Abstract!Next
<1>1. [k \in Conns |-> Seen(k)]' = [k \in Conns |-> Seen(k)]
  OBVIOUS
<1>2. Abstract!Harden
  BY <1>1 DEF Abstract!Harden, Pending
<1> QED
  BY <1>2 DEF Abstract!Next

LEMMA MapsToCrash ==
  ASSUME \/ \E n \in durable .. Len(history) : history' = SubSeq(history, 1, n)
         \/ Pending # NoImage /\ history' = Append(history, Pending),
         durable' = durable, Pending' = NoImage, \A d \in Conns : Seen(d)' = NoImage
  PROVE  Abstract!Next
<1>1. [k \in Conns |-> Seen(k)]' = [k \in Conns |-> NoImage]
  OBVIOUS
<1>2. Abstract!Crash
  BY <1>1 DEF Abstract!Crash, Pending
<1> QED
  BY <1>2 DEF Abstract!Next

(* A step of one connection that writes no frame and publishes nothing.    *)
LEMMA OwnSeen ==
  ASSUME SeenOk, SeenOk', NEW c \in Conns,
         UNCHANGED <<log, db, history, durable>>,
         pc[c] # "publish", pc'[c] # "publish",
         \A d \in Conns \ {c} : /\ pc'[d] = pc[d] /\ cache'[d] = cache[d]
                                /\ writer' = d <=> writer = d
  PROVE  /\ Pending' = Pending
         /\ \A d \in Conns \ {c} : Seen(d)' = Seen(d)
         /\ ~InTransaction(c) /\ ~InTransaction(c)' /\ (writer' = c <=> writer = c) =>
              Seen(c)' = Seen(c)
         /\ InTransaction(c) /\ InTransaction(c)' /\ cache'[c] = cache[c] => Seen(c)' = Seen(c)
<1>1. Publishing' <=> Publishing
  BY DEF Publishing, Conns
<1>2. Pending' = Pending
  BY <1>1 DEF SeenOk
<1>3. ASSUME NEW d \in Conns \ {c} PROVE Seen(d)' = Seen(d)
  BY SeenStays DEF InTransaction
<1>4. /\ Seen(c) = IF InTransaction(c) THEN cache[c]
                   ELSE IF writer = c THEN history[Len(history)] ELSE NoImage
      /\ Seen(c)' = IF InTransaction(c)' THEN cache'[c]
                    ELSE IF writer' = c THEN history'[Len(history')] ELSE NoImage
  BY Zenon DEF SeenOk
<1> QED
  BY <1>2, <1>3, <1>4

(* Reading: a transaction begins when the last check succeeds, and ends.  *)
LEMMA ReadMaps ==
  ASSUME IInv, IInv', HistoryOk, HistoryOk', NEW c \in Conns, Read(c)
  PROVE  Abstract!Next \/ UNCHANGED Abstract!vars
<1>1. SeenOk /\ SeenOk'
  BY SeenBoth
<1>2. LocksOf(c) /\ HeaderOf(c) /\ pc \in [Conns -> PCs] /\ cache \in [Conns -> Images \cup {NoImage}]
  BY DEF IInv, ConnOk, Types, LocalTypes
<1>3. LocksOf(c)' /\ HeaderOf(c)'
  BY DEF IInv, ConnOk
<1>4. CASE BeginRead(c) \/ Decide(c) \/ Lock0(c) \/ Pick(c) \/ Raise(c) \/ LockMark(c)
  <2>1. /\ UNCHANGED <<log, db, history, durable, writer>>
        /\ pc[c] \in {"idle", "decide", "lock0", "pick", "raise", "lock"}
        /\ pc'[c] \in {"idle", "decide", "lock0", "check0", "pick", "raise", "lock", "check"}
        /\ \A d \in Conns \ {c} : pc'[d] = pc[d] /\ cache'[d] = cache[d]
    <3>1. CASE BeginRead(c)
      BY <1>2, <3>1 DEF BeginRead, Goto, files, locks, ghost
    <3>2. CASE Decide(c) \/ Lock0(c) \/ Pick(c)
      BY <1>2, <3>2 DEF Decide, Lock0, Pick, Goto, files, locks, ghost
    <3>3. CASE Raise(c)
      BY <1>2, <3>3 DEF Raise, Goto, files, locks, ghost
    <3>4. CASE LockMark(c)
      BY <1>2, <3>4 DEF LockMark, Goto, files, locks, ghost
    <3> QED
      BY <1>4, <3>1, <3>2, <3>3, <3>4
  <2>2. ~InTransaction(c) /\ ~InTransaction(c)'
    BY <2>1 DEF InTransaction
  <2>3. Pending' = Pending /\ \A d \in Conns : Seen(d)' = Seen(d)
    BY <1>1, <2>1, <2>2, OwnSeen
  <2> QED
    BY <2>1, <2>3, MapsToNone
<1>5. CASE Check0(c) \/ Check(c)
  <2>1. /\ UNCHANGED <<log, db, history, durable, writer, shm, hdr, ckpt>>
        /\ pc[c] \in {"check0", "check"}
        /\ pc'[c] \in {"idle", "pick", "read", "write"}
        /\ pc'[c] \in {"read", "write"} => hdr[c] = shm
        /\ pc'[c] = "write" => writer = c
        /\ \A d \in Conns \ {c} : pc'[d] = pc[d] /\ cache'[d] = cache[d]
    <3>1. CASE Check0(c)
      BY <1>2, <3>1 DEF Check0, Goto, files, index, locks, ghost
    <3>2. CASE Check(c)
      BY <1>2, <3>2 DEF Check, Unchanged, Goto, files, index, locks, ghost
    <3> QED
      BY <1>5, <3>1, <3>2
  <2>2. ~InTransaction(c) /\ (InTransaction(c)' <=> pc'[c] \in {"read", "write"})
    BY <2>1 DEF InTransaction
  <2>3. /\ Pending' = Pending /\ \A d \in Conns \ {c} : Seen(d)' = Seen(d)
        /\ ~InTransaction(c)' => Seen(c)' = Seen(c)
    BY <1>1, <2>1, <2>2, OwnSeen
  <2>4. CASE ~InTransaction(c)'
    <3>1. \A d \in Conns : Seen(d)' = Seen(d)
      BY <2>3, <2>4
    <3> QED
      BY <2>1, <2>3, <3>1, MapsToNone
  <2>5. CASE InTransaction(c)' /\ writer = c
    <3>1. Seen(c) = history[Len(history)] /\ Seen(c)' = history'[Len(history')]
      BY <1>1, <2>1, <2>5, Zenon DEF SeenOk
    <3>2. \A d \in Conns : Seen(d)' = Seen(d)
      BY <2>1, <2>3, <3>1
    <3> QED
      BY <2>1, <2>3, <3>2, MapsToNone
  <2>6. CASE InTransaction(c)' /\ writer # c
    <3>1. Seen(c) = NoImage
      BY <1>1, <2>2, <2>6, Zenon DEF SeenOk
    <3>2. hdr'[c] = shm'
      BY <2>1, <2>2, <2>6
    <3>3. Seen(c)' = cache'[c]
      BY <1>1, <2>6, Zenon DEF SeenOk
    <3>4. cache'[c] = history'[Len(history')]
      BY <1>1, <2>6, <3>2, Zenon DEF SeenOk
    <3>5. Seen(c)' = history[Len(history)]
      BY <2>1, <3>3, <3>4
    <3> QED
      BY <2>1, <2>3, <3>1, <3>5, MapsToBegin
  <2> QED
    BY <2>4, <2>5, <2>6
<1>6. CASE EndRead(c)
  <2>1. /\ UNCHANGED <<log, db, history, durable, writer>>
        /\ pc[c] = "read" /\ pc'[c] = "idle"
        /\ \A d \in Conns \ {c} : pc'[d] = pc[d] /\ cache'[d] = cache[d]
    BY <1>2, <1>6 DEF EndRead, Goto, files, locks, ghost
  <2>2. InTransaction(c) /\ ~InTransaction(c)' /\ writer # c
    BY <1>2, <2>1 DEF InTransaction, LocksOf, WriterAt, Writing
  <2>3. Pending' = Pending /\ \A d \in Conns \ {c} : Seen(d)' = Seen(d)
    BY <1>1, <2>1, OwnSeen
  <2>4. Seen(c) = cache[c] /\ cache[c] \in Images
    BY <1>1, <2>2, Zenon DEF SeenOk
  <2>5. Seen(c)' = NoImage
    BY <1>1, <2>1, <2>2 DEF SeenOk
  <2>6. Seen(c) # NoImage
    BY <2>4, WalAssumption
  <2> QED
    BY <2>1, <2>3, <2>5, <2>6, MapsToEnd
<1> QED
  BY <1>4, <1>5, <1>6 DEF Read

(* A commit frame prepares, Publish commits; a rollback is not seen.       *)
LEMMA WriteMaps ==
  ASSUME IInv, IInv', HistoryOk, HistoryOk', NEW c \in Conns, Write(c)
  PROVE  Abstract!Next \/ UNCHANGED Abstract!vars
<1>1. SeenOk /\ SeenOk'
  BY SeenBoth
<1>2. /\ LocksOf(c) /\ HeaderOf(c) /\ pc \in [Conns -> PCs]
      /\ cache \in [Conns -> Images \cup {NoImage}]
  BY DEF IInv, ConnOk, Types, LocalTypes
<1>3. Nobody \notin Conns /\ NoImage \notin Images /\ \A w \in Writers : w \in Conns
  BY WalAssumption DEF Conns
<1>4. \A w \in Conns : pc[w] = "publish" => writer = w
  BY DEF IInv, ConnOk, LocksOf, Writing
<1>5. CASE BeginWrite(c) \/ Rollback(c)
  <2>1. /\ UNCHANGED <<log, db, history, durable, cache>>
        /\ pc[c] \in {"read", "write"} /\ pc'[c] \in {"read", "write"}
        /\ \A d \in Conns \ {c} : /\ pc'[d] = pc[d] /\ cache'[d] = cache[d]
                                  /\ writer' = d <=> writer = d
    <3>1. CASE BeginWrite(c)
      BY <1>2, <1>3, <3>1 DEF BeginWrite, Goto, files
    <3>2. CASE Rollback(c)
      BY <1>2, <1>3, <3>2 DEF Rollback, Goto, files, ghost, LocksOf, Writing
    <3> QED
      BY <1>5, <3>1, <3>2
  <2>2. InTransaction(c) /\ InTransaction(c)' /\ cache'[c] = cache[c]
    BY <2>1 DEF InTransaction
  <2>3. Pending' = Pending /\ \A d \in Conns : Seen(d)' = Seen(d)
    BY <1>1, <2>1, <2>2, OwnSeen
  <2> QED
    BY <2>1, <2>3, MapsToNone
<1>6. CASE Restart(c)
  <2>1. /\ UNCHANGED <<log, db, history, durable, cache, writer>>
        /\ pc[c] = "write" /\ pc'[c] = "pick" /\ writer = c
        /\ \A d \in Conns \ {c} : pc'[d] = pc[d]
    BY <1>2, <1>6 DEF Restart, Goto, files, locks, ghost, LocksOf, Writing
  <2>2. Pending' = Pending /\ \A d \in Conns \ {c} : Seen(d)' = Seen(d)
    BY <1>1, <2>1, OwnSeen
  <2>3. Seen(c) = history[Len(history)] /\ Seen(c)' = history'[Len(history')]
    BY <1>1, <2>1, Zenon DEF SeenOk
  <2>4. \A d \in Conns : Seen(d)' = Seen(d)
    BY <2>1, <2>2, <2>3
  <2> QED
    BY <2>1, <2>2, <2>4, MapsToNone
<1>7. ASSUME NEW p \in Pages, Spill(c, p) \/ CommitFrame(c, p)
      PROVE  Abstract!Next \/ UNCHANGED Abstract!vars
  <2>1. /\ UNCHANGED <<db, history, durable, cache, writer>>
        /\ pc[c] = "write" /\ pc'[c] \in {"write", "publish"} /\ writer = c /\ c \in Writers
        /\ \A d \in Conns \ {c} : pc'[d] = pc[d]
    BY <1>7, PutFrameFacts
  <2>2. ~Publishing /\ (Publishing' <=> pc'[c] = "publish")
    <3>1. \A w \in Writers : pc[w] # "publish"
      BY <1>3, <1>4, <2>1
    <3> QED
      BY <1>3, <2>1, <3>1 DEF Publishing
  <2>3. InTransaction(c) /\ InTransaction(c)'
    BY <2>1 DEF InTransaction
  <2>4. ASSUME NEW d \in Conns PROVE Seen(d)' = Seen(d)
    BY <1>1, <2>1, <2>3, SeenStays DEF InTransaction
  <2>5. Pending = NoImage
    BY <1>1, <2>2, Zenon DEF SeenOk
  <2>6. CASE pc'[c] = "publish"
    <3>1. Pending' \in Images
      BY <1>1, <2>2, <2>6, Zenon DEF SeenOk
    <3>2. Seen(c) = history[Len(history)]
      BY <1>1, <2>1, Zenon DEF SeenOk
    <3> QED
      BY <2>1, <2>4, <2>5, <3>1, <3>2, MapsToPrepare
  <2>7. CASE pc'[c] # "publish"
    <3>1. Pending' = NoImage
      BY <1>1, <2>2, <2>7, Zenon DEF SeenOk
    <3> QED
      BY <2>1, <2>4, <2>5, <3>1, MapsToNone
  <2> QED
    BY <2>6, <2>7
<1>8. CASE Publish(c)
  <2>1. /\ pc[c] = "publish" /\ pc'[c] = "read" /\ writer' = Nobody
        /\ cache'[c] = Written(c) /\ history' = Append(history, Written(c))
        /\ durable' \in {durable, Len(history')}
        /\ \A d \in Conns \ {c} : pc'[d] = pc[d] /\ cache'[d] = cache[d]
    BY <1>2, <1>8 DEF Publish, Goto
  <2>2. writer = c /\ c \in Writers /\ Written(c) \in Images
    BY <2>1, WrittenFacts
  <2>3. Pending = Written(c)
    BY <2>1, <2>2 DEF Pending
  <2>4. ~Publishing'
    <3>1. \A w \in Writers : pc'[w] # "publish"
      BY <1>3, <1>4, <2>1, <2>2
    <3> QED
      BY <3>1 DEF Publishing
  <2>5. Pending' = NoImage
    BY <1>1, <2>4, Zenon DEF SeenOk
  <2>6. Seen(c) = history[Len(history)]
    BY <1>1, <2>2, Zenon DEF SeenOk
  <2>7. Seen(c)' = Pending
    <3>1. InTransaction(c)'
      BY <2>1 DEF InTransaction
    <3>2. Seen(c)' = cache'[c]
      BY <1>1, <3>1, Zenon DEF SeenOk
    <3> QED
      BY <2>1, <2>3, <3>2
  <2>8. ASSUME NEW d \in Conns \ {c} PROVE Seen(d)' = Seen(d)
    <3>1. writer # d /\ writer' # d
      BY <1>3, <2>1, <2>2
    <3> QED
      BY <1>1, <2>1, <3>1, SeenStays DEF InTransaction
  <2>9. Pending # NoImage
    BY <1>3, <2>2, <2>3
  <2> QED
    BY <2>1, <2>3, <2>5, <2>6, <2>7, <2>8, <2>9, MapsToCommit
<1> QED
  BY <1>5, <1>6, <1>7, <1>8 DEF Write

(* A checkpoint changes nothing that is seen; its sync of the log makes    *)
(* every version durable.                                                  *)
LEMMA CheckpointMaps ==
  ASSUME IInv, IInv', HistoryOk, HistoryOk', NEW c \in Conns, Checkpoint(c)
  PROVE  Abstract!Next \/ UNCHANGED Abstract!vars
<1>1. SeenOk /\ SeenOk'
  BY SeenBoth
<1>2. LocksOf(c) /\ pc \in [Conns -> PCs]
  BY DEF IInv, ConnOk, Types, LocalTypes
<1>3. CASE CkptCopy(c)
  <2>1. /\ UNCHANGED <<log, history, durable, pc, cache, writer>>
        /\ \E f \in 1 .. Len(log) :
             \A hi \in Nat : f <= hi => OverIn(log, db', 1, hi) = OverIn(log, db, 1, hi)
    BY <1>3, CkptCopyFacts
  <2>2. OverIn(log', db', 1, Len(log')) = OverIn(log, db, 1, Len(log))
    <3>1. Len(log) \in Nat
      BY CommittedFacts
    <3> QED
      BY <2>1, <3>1
  <2>3. Publishing' <=> Publishing
    BY <2>1 DEF Publishing
  <2>4. Pending' = Pending
    BY <1>1, <2>2, <2>3, Zenon DEF SeenOk
  <2>5. ASSUME NEW d \in Conns PROVE Seen(d)' = Seen(d)
    BY <1>1, <2>1, SeenStays DEF InTransaction
  <2> QED
    BY <2>1, <2>4, <2>5, MapsToNone
<1>4. CASE ~CkptCopy(c)
  <2>1. /\ UNCHANGED <<log, db, history, writer, cache>>
        /\ pc[c] \in {"idle"} \cup Checkpointing /\ pc'[c] \in {"idle"} \cup Checkpointing
        /\ \A d \in Conns \ {c} : pc'[d] = pc[d]
        /\ durable' \in {durable, Len(history)}
    <3>1. CASE CkptBegin(c)
      BY <1>2, <3>1 DEF CkptBegin, Goto, files, ghost, Checkpointing
    <3>2. CASE CkptStart(c)
      BY <1>2, <3>2 DEF CkptStart, CkptEnd, Goto, files, ghost, Checkpointing
    <3>3. CASE CkptScan(c)
      BY <1>2, <3>3 DEF CkptScan, files, ghost, locks, Checkpointing
    <3>4. CASE CkptSync(c)
      BY <1>2, <3>4 DEF CkptSync, CkptEnd, Goto, Checkpointing
    <3>5. CASE CkptFinish(c)
      BY <1>2, <3>5 DEF CkptFinish, CkptEnd, Goto, ghost, Checkpointing
    <3> QED
      BY <1>4, <3>1, <3>2, <3>3, <3>4, <3>5 DEF Checkpoint
  <2>2. /\ ~InTransaction(c) /\ ~InTransaction(c)'
        /\ pc[c] # "publish" /\ pc'[c] # "publish"
    BY <2>1 DEF InTransaction, Checkpointing
  <2>3. Publishing' <=> Publishing
    BY <2>1, <2>2 DEF Publishing, Conns
  <2>4. Pending' = Pending
    BY <1>1, <2>1, <2>3 DEF SeenOk
  <2>5. ASSUME NEW d \in Conns PROVE Seen(d)' = Seen(d)
    <3>1. InTransaction(d)' <=> InTransaction(d)
      BY <2>1, <2>2 DEF InTransaction
    <3> QED
      BY <1>1, <2>1, <3>1, SeenStays
  <2>6. CASE durable' = durable
    BY <2>1, <2>4, <2>5, <2>6, MapsToNone
  <2>7. CASE durable' = Len(history)
    BY <2>1, <2>4, <2>5, <2>7, MapsToHarden
  <2> QED
    BY <2>1, <2>6, <2>7
<1> QED
  BY <1>3, <1>4

(* A crash: the versions that are left, or those and the pending one.      *)
LEMMA CrashMaps ==
  ASSUME IInv, IInv', HistoryOk, HistoryOk', NEW power \in BOOLEAN, Crash(power)
  PROVE  Abstract!Next
<1>1. SeenOk /\ SeenOk'
  BY SeenBoth
<1>2. durable' = durable /\ writer' = Nobody /\ pc' = [c \in Conns |-> "idle"]
  BY Zenon DEF Crash
<1>3. Nobody \notin Conns /\ NoImage \notin Images
  BY WalAssumption
<1>4. ASSUME NEW d \in Conns PROVE Seen(d)' = NoImage
  <2>1. ~InTransaction(d)' /\ writer' # d
    BY <1>2, <1>3 DEF InTransaction
  <2> QED
    BY <1>1, <2>1, Zenon DEF SeenOk
<1>5. Pending' = NoImage
  <2>1. ~Publishing'
    BY <1>2 DEF Publishing, Conns
  <2> QED
    BY <1>1, <2>1, Zenon DEF SeenOk
<1>6. PICK n \in synced .. Len(log) :
        /\ Publishing /\ n = Len(log) => history' = Append(history, OverIn(log, db, 1, Len(log)))
        /\ ~(Publishing /\ n = Len(log)) =>
             /\ Commits(log, n + 1, Committed) \in Nat
             /\ durable + Commits(log, n + 1, Committed) <= Len(history)
             /\ history' = SubSeq(history, 1, Len(history) - Commits(log, n + 1, Committed))
  BY CrashFacts
<1>7. CASE Publishing /\ n = Len(log)
  <2>1. Pending = OverIn(log, db, 1, Len(log)) /\ Pending \in Images
    BY <1>1, <1>7, Zenon DEF SeenOk
  <2>2. Pending # NoImage /\ history' = Append(history, Pending)
    BY <1>3, <1>6, <1>7, <2>1
  <2> QED
    BY <1>2, <1>4, <1>5, <2>2, MapsToCrash
<1>8. CASE ~(Publishing /\ n = Len(log))
  <2>1. Len(history) \in Nat /\ durable \in Nat
    BY CommittedFacts
  <2>2. Len(history) - Commits(log, n + 1, Committed) \in durable .. Len(history)
    BY <1>6, <1>8, <2>1
  <2>3. \E m \in durable .. Len(history) : history' = SubSeq(history, 1, m)
    BY <1>6, <1>8, <2>2
  <2> QED
    BY <1>2, <1>4, <1>5, <2>3, MapsToCrash
<1> QED
  BY <1>7, <1>8

LEMMA InitMaps ==
  ASSUME Init
  PROVE  Abstract!Init
<1>1. SeenOk
  BY InitEstablishes, InitHistory, SeenFacts
<1>2. /\ history = <<[p \in Pages |-> 0]>> /\ durable = 1 /\ writer = Nobody
      /\ pc = [c \in Conns |-> "idle"]
  BY DEF Init
<1>3. [p \in Pages |-> 0] \in Images
  BY WalAssumption DEF Images
<1>4. history \in [{1} -> Images]
  BY <1>2, <1>3
<1>5. ASSUME NEW d \in Conns PROVE Seen(d) = NoImage
  <2>1. ~InTransaction(d) /\ writer # d
    BY <1>2, WalAssumption DEF InTransaction
  <2> QED
    BY <1>1, <2>1, Zenon DEF SeenOk
<1>6. Pending = NoImage
  BY <1>2 DEF Pending, Conns
<1> QED
  BY <1>2, <1>4, <1>5, <1>6 DEF Abstract!Init, Pending

(* The write-ahead log keeps the promise of AbstractSnapshots: every       *)
(* transaction reads one committed version from its first page to its      *)
(* last, only a transaction on the newest version commits, and a crash     *)
(* takes nothing that was durable (wal.c:2072-2131, 2612-2660, 3100-3195). *)
THEOREM WalImplements == ASSUME HeaderFresh PROVE Spec => ImplementsAbstract
<1>1. Init => Abstract!Init
  BY InitMaps
<1>2. IInv /\ HistoryOk /\ IInv' /\ HistoryOk' /\ [Next]_vars => [Abstract!Next]_(Abstract!vars)
  <2> SUFFICES ASSUME IInv, HistoryOk, IInv', HistoryOk', [Next]_vars
               PROVE  Abstract!Next \/ UNCHANGED Abstract!vars
    OBVIOUS
  <2>1. ASSUME NEW c \in Conns, Read(c) \/ Write(c) \/ Checkpoint(c)
        PROVE  Abstract!Next \/ UNCHANGED Abstract!vars
    BY <2>1, ReadMaps, WriteMaps, CheckpointMaps
  <2>2. CASE \E power \in BOOLEAN : Crash(power)
    BY <2>2, CrashMaps
  <2>3. CASE UNCHANGED vars
    <3>1. SeenOk /\ SeenOk'
      BY SeenBoth
    <3>2. Pending' = Pending
      BY <2>3, <3>1 DEF vars, SeenOk, Publishing
    <3>3. ASSUME NEW d \in Conns PROVE Seen(d)' = Seen(d)
      BY <2>3, <3>1, SeenStays DEF vars, InTransaction
    <3> QED
      BY <2>3, <3>2, <3>3, MapsToNone DEF vars
  <2> QED
    BY <2>1, <2>2, <2>3 DEF Next
<1> QED
  BY <1>1, <1>2, HistoryInvariance, PTL DEF Spec, ImplementsAbstract, Abstract!Spec
=============================================================================
