-------------------------- MODULE Transaction_proof --------------------------
(***************************************************************************)
(* Transaction for any threads: the flag m_isInTransaction never misses an *)
(* open transaction, the connection goes back clean, and an answer tells   *)
(* what is in the database, whoever writes, ends or fails meanwhile.       *)
(***************************************************************************)
EXTENDS Transaction, TLAPS

PCs == Within \cup {"idle", "embedded"}

(* What the flag and the destructor rely on.                               *)
Clean ==
    /\ OpenKnown
    /\ ~open => uncommitted = {}
    /\ gone => ~open /\ ~m_isInTransaction /\ Unused

IInv == TypeOK /\ pc \in [Threads -> PCs] /\ Clean

-----------------------------------------------------------------------------

LEMMA InitEstablishes == Init => IInv
<1> SUFFICES ASSUME Init PROVE IInv
  OBVIOUS
<1>1. TypeOK
  <2>1. {m_isInTransaction, gone, open} \subseteq BOOLEAN
    BY DEF Init
  <2>2. 1 .. 0 = {}
    OBVIOUS
  <2>3. /\ m_mutex \in Inserters \cup {NULL}
        /\ m_mutex # NULL => pc[m_mutex] = "embedded"
        /\ synchronized \in Runners \cup {NULL}
    BY DEF Init
  <2>4. \A t \in Threads : synchronized = t <=> pc[t] \in {"run", "commit", "rollback"}
    BY TransactionObjectAssumption DEF Init
  <2>5. /\ rows \in 0..MaxRows
        /\ uncommitted \cup database \subseteq 1..rows
        /\ returned \in [Threads -> {"nothing", "YES", "NO", "committed",
                                     "rolledBack", "notRolledBack"}]
        /\ written \in [Threads -> SUBSET (1..rows)]
        /\ alone \subseteq 1..rows
        /\ interrupted \in [Threads -> BOOLEAN]
    BY TransactionObjectAssumption, <2>2 DEF Init
  <2> QED
    BY <2>1, <2>3, <2>4, <2>5 DEF TypeOK
<1>2. Clean
  BY DEF Init, Clean, OpenKnown
<1> QED
  BY <1>1, <1>2 DEF Init, IInv, PCs, Within

(* A statement that fails leaves the connection as it was, or without a    *)
(* transaction.                                                            *)
LEMMA FailClean ==
    ASSUME IInv, SQLiteFail, UNCHANGED m_isInTransaction
    PROVE  /\ open' \in BOOLEAN
           /\ open' => m_isInTransaction'
           /\ ~open' => uncommitted' = {}
           /\ uncommitted' \subseteq uncommitted
           /\ database' = database
<1> USE DEF IInv, TypeOK, Clean, OpenKnown
<1>1. CASE UNCHANGED sqliteVars
  BY <1>1 DEF sqliteVars
<1>2. CASE SQLiteRollback
  BY <1>2 DEF SQLiteRollback
<1> QED
  BY <1>1, <1>2 DEF SQLiteFail

LEMMA StepPreserves ==
    ASSUME IInv, [Next]_vars
    PROVE  IInv'
<1> USE TransactionObjectAssumption
<1> USE DEF IInv, TypeOK, Clean, OpenKnown, PCs, Within, Unused
<1>1. CASE UNCHANGED vars
  BY <1>1 DEF vars, locks, sqliteVars, history
<1>2. CASE Dealloc
  BY <1>2 DEF Dealloc, SQLiteRollback, locks, sqliteVars, history
<1>3. ASSUME NEW t \in Threads, RunTransaction(t)
      PROVE  IInv'
  <2>1. CASE BeginDone(t, "run") /\ synchronized' = t
    BY <1>3, <2>1 DEF RunTransaction, Begin, BeginDone, Locked, SQLiteBegin, Goto
  <2>2. CASE BeginFailed(t) /\ UNCHANGED synchronized
    BY <1>3, <2>2 DEF RunTransaction, Begin, BeginFailed, Locked, End, Goto,
                      sqliteVars
  <2> QED
    BY <1>3, <2>1, <2>2 DEF RunTransaction
<1>4. ASSUME NEW t \in Threads, BlockReturns(t)
      PROVE  IInv'
  BY <1>4 DEF BlockReturns, Goto, locks, sqliteVars, history
<1>5. ASSUME NEW t \in Threads, RunCommit(t)
      PROVE  IInv'
  <2>1. interrupted' \in [Threads -> BOOLEAN]
    BY <1>5 DEF RunCommit, Commit, Interrupt
  <2>2. CASE CommitDone /\ End(t, "YES")
    BY <1>5, <2>1, <2>2 DEF RunCommit, Commit, Locked, CommitDone, SQLiteCommit, End,
                            Goto, LeaveSynchronized
  <2>3. CASE CommitFailed /\ Goto(t, "rollback") /\ UNCHANGED returned
    BY <1>5, <2>1, <2>3, FailClean DEF RunCommit, Commit, Locked, CommitFailed, Goto,
                                       LeaveSynchronized
  <2> QED
    BY <1>5, <2>2, <2>3 DEF RunCommit, Commit
<1>6. ASSUME NEW t \in Threads, RunRollback(t)
      PROVE  IInv'
  BY <1>6 DEF RunRollback, Rollback, RollbackDone, Locked, SQLiteRollback, End, Goto,
              LeaveSynchronized, Interrupt
<1>7. ASSUME NEW t \in Threads, BeginByHand(t)
      PROVE  IInv'
  <2>1. CASE BeginDone(t, "open")
    BY <1>7, <2>1 DEF BeginByHand, Synchronized, Begin, BeginDone, Locked,
                      SQLiteBegin, Goto
  <2>2. CASE BeginFailed(t)
    BY <1>7, <2>2 DEF BeginByHand, Synchronized, Begin, BeginFailed, Locked, End,
                      Goto, sqliteVars
  <2> QED
    BY <1>7, <2>1, <2>2 DEF BeginByHand
<1>8. ASSUME NEW t \in Threads, CommitByHand(t)
      PROVE  IInv'
  <2>1. interrupted' \in [Threads -> BOOLEAN]
    BY <1>8 DEF CommitByHand, Commit, Interrupt
  <2>2. CASE CommitDone /\ End(t, "committed")
    BY <1>8, <2>1, <2>2 DEF CommitByHand, Synchronized, Commit, Locked, CommitDone,
                            SQLiteCommit, End, Goto
  <2>3. CASE CommitFailed /\ Goto(t, "open") /\ UNCHANGED returned
    BY <1>8, <2>1, <2>3, FailClean DEF CommitByHand, Synchronized, Commit, Locked,
                                       CommitFailed, Goto
  <2> QED
    BY <1>8, <2>2, <2>3 DEF CommitByHand, Commit
<1>9. ASSUME NEW t \in Threads, RollbackByHand(t)
      PROVE  IInv'
  BY <1>9 DEF RollbackByHand, Synchronized, Rollback, RollbackDone, Locked,
              SQLiteRollback, End, Goto, Interrupt
<1>10. ASSUME NEW t \in Threads, EndByAnother(t)
       PROVE  IInv'
  <2>1. interrupted' \in [Threads -> BOOLEAN]
    BY <1>10 DEF EndByAnother, Interrupt
  <2>2. CASE CommitDone \/ RollbackDone
    BY <1>10, <2>1, <2>2 DEF EndByAnother, Synchronized, Locked, CommitDone,
                             SQLiteCommit, RollbackDone, SQLiteRollback
  <2>3. CASE CommitFailed
    BY <1>10, <2>1, <2>3, FailClean DEF EndByAnother, Synchronized, Locked,
                                        CommitFailed
  <2> QED
    BY <1>10, <2>2, <2>3 DEF EndByAnother
<1>11. ASSUME NEW t \in Threads, Write(t)
       PROVE  IInv'
  <2> USE DEF Write, Locked
  <2>1. /\ rows' \in 0..MaxRows
        /\ 1..rows' = (1..rows) \cup {rows'}
    BY <1>11
  <2>2. CASE /\ SQLiteWrite(rows')
             /\ alone' = IF open THEN alone ELSE alone \cup {rows'}
             /\ written' = [u \in Threads |-> IF pc[u] \in Within
                                             THEN written[u] \cup {rows'}
                                             ELSE written[u]]
             /\ UNCHANGED interrupted
    BY <1>11, <2>1, <2>2 DEF SQLiteWrite
  <2>3. CASE SQLiteFail /\ Interrupt(Threads) /\ UNCHANGED <<written, alone>>
    <3>1. UNCHANGED m_isInTransaction
      BY <1>11
    <3>2. interrupted' \in [Threads -> BOOLEAN]
      BY <2>3 DEF Interrupt
    <3>3. /\ open' \in BOOLEAN
          /\ open' => m_isInTransaction'
          /\ ~open' => uncommitted' = {}
          /\ uncommitted' \cup database' \subseteq 1..rows
      BY <2>3, <3>1, FailClean
    <3> QED
      BY <1>11, <2>1, <2>3, <3>1, <3>2, <3>3
  <2> QED
    BY <1>11, <2>2, <2>3
<1>12. ASSUME NEW t \in Threads, RunEmbeddedTransaction(t)
       PROVE  IInv'
  BY <1>12 DEF RunEmbeddedTransaction, Goto, sqliteVars, history
<1> QED
  BY <1>1, <1>2, <1>3, <1>4, <1>5, <1>6, <1>7, <1>8, <1>9, <1>10, <1>11, <1>12
     DEF Next, Step

(* IInv holds in every state the object can reach.                         *)
THEOREM Invariance == Spec => []IInv
  BY InitEstablishes, StepPreserves, PTL DEF Spec

(* m_isInTransaction is set whenever the connection has a transaction      *)
(* (transaction.cpp:71-99), whoever begins, ends, fails or lets go of it.  *)
THEOREM FlagCoversTransaction == Spec => []FlagCovers
<1>1. IInv => FlagCovers
  BY DEF IInv, Clean, FlagCovers
<1> QED
  BY <1>1, Invariance, PTL

(* ~Transaction leaves no transaction on the connection it gives back.     *)
THEOREM HandleReturnedClean == Spec => []ReturnedClean
<1>1. IInv => ReturnedClean
  BY DEF IInv, Clean, ReturnedClean
<1> QED
  BY <1>1, Invariance, PTL

-----------------------------------------------------------------------------

(* Where the rows of a transaction are.  A transaction that nobody has     *)
(* interrupted is the one the connection has open, with all its rows; a    *)
(* block whose transaction was interrupted runs with none open, so that    *)
(* only what is written alone reaches the database.                        *)
Uninterrupted ==
    \A t \in Threads : ~gone /\ pc[t] \in Within /\ ~interrupted[t] =>
        /\ open
        /\ written[t] \subseteq uncommitted
        /\ \A u \in Threads \ {t} : pc[u] \in Within => interrupted[u]

BlockInterrupted ==
    \A t \in Threads : pc[t] \in {"run", "commit", "rollback"} /\ interrupted[t] =>
        /\ ~open
        /\ written[t] \cap database \subseteq alone

Answered ==
    \A t \in Threads : pc[t] \notin Within =>
        /\ returned[t] = "YES" => written[t] \subseteq database
        /\ returned[t] = "NO" => written[t] \cap (database \cup uncommitted) \subseteq alone
        /\ ~interrupted[t] =>
            /\ returned[t] = "committed" => written[t] \subseteq database
            /\ returned[t] \in {"NO", "rolledBack"} =>
                   written[t] \cap (database \cup uncommitted) = {}
            /\ returned[t] # "notRolledBack"

RowsPlaced ==
    /\ uncommitted \cap database = {}
    /\ alone \subseteq database
    /\ Uninterrupted
    /\ BlockInterrupted
    /\ Answered

LEMMA StepPlacesRows ==
    ASSUME IInv, RowsPlaced, [Next]_vars
    PROVE  RowsPlaced'
<1> USE TransactionObjectAssumption
<1> USE DEF IInv, TypeOK, Clean, OpenKnown, PCs, Unused, Within, RowsPlaced,
            Uninterrupted, BlockInterrupted, Answered
<1>1. CASE UNCHANGED vars
  BY <1>1 DEF vars, locks, sqliteVars, history
<1>2. CASE Dealloc
  BY <1>2 DEF Dealloc, SQLiteRollback, locks, sqliteVars, history
<1>3. ASSUME NEW t \in Threads, RunTransaction(t)
      PROVE  RowsPlaced'
  <2>1. CASE BeginDone(t, "run")
    BY <1>3, <2>1 DEF RunTransaction, Begin, BeginDone, Locked, SQLiteBegin, Goto
  <2>2. CASE BeginFailed(t)
    BY <1>3, <2>2 DEF RunTransaction, Begin, BeginFailed, Locked, End, Goto,
                      sqliteVars
  <2> QED
    BY <1>3, <2>1, <2>2 DEF RunTransaction
<1>4. ASSUME NEW t \in Threads, BlockReturns(t)
      PROVE  RowsPlaced'
  BY <1>4 DEF BlockReturns, Goto, locks, sqliteVars, history
<1>5. ASSUME NEW t \in Threads, RunCommit(t)
      PROVE  RowsPlaced'
  <2>1. CASE CommitDone /\ End(t, "YES") /\ Interrupt(Threads \ {t})
    BY <1>5, <2>1 DEF RunCommit, Commit, Locked, CommitDone, SQLiteCommit, End, Goto,
                      Interrupt
  <2>2. CASE CommitFailed /\ Goto(t, "rollback") /\ Interrupt(Threads) /\ UNCHANGED returned
    BY <1>5, <2>2 DEF RunCommit, Commit, Locked, CommitFailed, SQLiteFail,
                      SQLiteRollback, Goto, Interrupt, sqliteVars
  <2> QED
    BY <1>5, <2>1, <2>2 DEF RunCommit, Commit
<1>6. ASSUME NEW t \in Threads, RunRollback(t)
      PROVE  RowsPlaced'
  BY <1>6 DEF RunRollback, Rollback, RollbackDone, Locked, SQLiteRollback, End, Goto,
              Interrupt
<1>7. ASSUME NEW t \in Threads, BeginByHand(t)
      PROVE  RowsPlaced'
  <2>1. CASE BeginDone(t, "open")
    BY <1>7, <2>1 DEF BeginByHand, Synchronized, Begin, BeginDone, Locked, SQLiteBegin,
                      Goto
  <2>2. CASE BeginFailed(t)
    BY <1>7, <2>2 DEF BeginByHand, Synchronized, Begin, BeginFailed, Locked, End, Goto,
                      sqliteVars
  <2> QED
    BY <1>7, <2>1, <2>2 DEF BeginByHand
<1>8. ASSUME NEW t \in Threads, CommitByHand(t)
      PROVE  RowsPlaced'
  <2>1. CASE CommitDone /\ End(t, "committed") /\ Interrupt(Threads \ {t})
    BY <1>8, <2>1 DEF CommitByHand, Synchronized, Commit, Locked, CommitDone,
                      SQLiteCommit, End, Goto, Interrupt
  <2>2. CASE CommitFailed /\ Goto(t, "open") /\ Interrupt(Threads) /\ UNCHANGED returned
    BY <1>8, <2>2 DEF CommitByHand, Synchronized, Commit, Locked, CommitFailed,
                      SQLiteFail, SQLiteRollback, Goto, Interrupt, sqliteVars
  <2> QED
    BY <1>8, <2>1, <2>2 DEF CommitByHand, Commit
<1>9. ASSUME NEW t \in Threads, RollbackByHand(t)
      PROVE  RowsPlaced'
  BY <1>9 DEF RollbackByHand, Synchronized, Rollback, RollbackDone, Locked,
              SQLiteRollback, End, Goto, Interrupt
<1>10. ASSUME NEW t \in Threads, EndByAnother(t)
       PROVE  RowsPlaced'
  <2> USE DEF EndByAnother, Synchronized, Locked, Interrupt
  <2>1. CASE CommitDone
    BY <1>10, <2>1 DEF CommitDone, SQLiteCommit
  <2>2. CASE CommitFailed
    BY <1>10, <2>2 DEF CommitFailed, SQLiteFail, SQLiteRollback, sqliteVars
  <2>3. CASE RollbackDone
    BY <1>10, <2>3 DEF RollbackDone, SQLiteRollback
  <2> QED
    BY <1>10, <2>1, <2>2, <2>3
<1>11. ASSUME NEW t \in Threads, Write(t)
       PROVE  RowsPlaced'
  <2> USE DEF Write, Locked
  <2>1. rows' \notin uncommitted \cup database
    BY <1>11
  <2>2. \A u \in Threads : rows' \notin written[u]
    BY <1>11
  <2>3. CASE /\ SQLiteWrite(rows')
             /\ alone' = IF open THEN alone ELSE alone \cup {rows'}
             /\ written' = [u \in Threads |-> IF pc[u] \in Within
                                             THEN written[u] \cup {rows'}
                                             ELSE written[u]]
             /\ UNCHANGED interrupted
    BY <1>11, <2>1, <2>2, <2>3 DEF SQLiteWrite
  <2>4. CASE SQLiteFail /\ Interrupt(Threads) /\ UNCHANGED <<written, alone>>
    BY <1>11, <2>4 DEF SQLiteFail, SQLiteRollback, Interrupt, sqliteVars
  <2> QED
    BY <1>11, <2>3, <2>4
<1>12. ASSUME NEW t \in Threads, RunEmbeddedTransaction(t)
       PROVE  RowsPlaced'
  BY <1>12 DEF RunEmbeddedTransaction, Goto, sqliteVars, history
<1> QED
  BY <1>1, <1>2, <1>3, <1>4, <1>5, <1>6, <1>7, <1>8, <1>9, <1>10, <1>11, <1>12
     DEF Next, Step

(* runTransaction: YES, and every row written meanwhile is in the database;*)
(* NO, and only rows written after SQLite had ended the transaction are.   *)
(* By hand, the answers of commit and rollback mean what                   *)
(* WCTTransaction.h:85, 105 say, for the thread that began, unless another *)
(* thread's call or SQLite ended the transaction before.                   *)
THEOREM AnswersTrue == Spec => []AllOrNothing
<1>1. Init => RowsPlaced
  BY TransactionObjectAssumption DEF Init, RowsPlaced, Uninterrupted,
     BlockInterrupted, Answered, Within
<1>2. IInv /\ RowsPlaced /\ [Next]_vars => RowsPlaced'
  BY StepPlacesRows
<1>3. RowsPlaced => AllOrNothing
  BY DEF RowsPlaced, Answered, AllOrNothing, Within
<1> QED
  BY <1>1, <1>2, <1>3, Invariance, PTL DEF Spec

=============================================================================
