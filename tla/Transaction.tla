----------------------------- MODULE Transaction -----------------------------
(***************************************************************************)
(* A Transaction object (objc/WCDB/core/transaction.cpp): one handle for   *)
(* all threads that use the object, a mutex that every method takes from   *)
(* its first to its last line, and a flag that says whether BEGIN has been *)
(* done.  Methods that neither call back nor call each other are one step  *)
(* that needs the mutex free; only runEmbeddedTransaction keeps it over    *)
(* calls, of the block or of runTransaction.  WCTTransaction puts          *)
(* @synchronized(self) around begin, commit, rollback and the whole of     *)
(* runTransaction (interface/transaction/WCTTransaction.mm), but not       *)
(* around reads and writes.                                                *)
(*                                                                         *)
(* SQLite is modelled as in DatabaseTransaction: a statement may fail, and *)
(* a failing one may end the transaction.  The handle is everybody's, so a *)
(* transaction may also be ended by a thread that did not begin it, and    *)
(* hold rows of threads that began nothing.                                *)
(***************************************************************************)
EXTENDS Integers

CONSTANTS
    Threads,
    Runners,        \* the threads that call runTransaction
    Holders,        \* the threads that call begin, and later commit or rollback
    Inserters,      \* the threads that insert several objects at a time
    MaxRows,        \* rows written (a bound)
    NULL

ASSUME TransactionObjectAssumption ==
    /\ Runners \cup Holders \cup Inserters \subseteq Threads
    /\ NULL \notin Threads
    /\ MaxRows \in Nat

VARIABLES
    m_mutex,            \* the thread that has the mutex, or NULL
    synchronized,       \* the thread inside @synchronized(self), or NULL
    m_isInTransaction,
    gone,               \* whether the object has been deallocated
    open,               \* whether the connection has a transaction open
    uncommitted,        \* the rows written in it
    database,           \* the rows everybody sees
    rows,               \* how many have been written
    pc, returned,
    \* History, which no step reads:
    written,            \* the rows written, by whomever, during a thread's last
                        \* transaction
    alone,              \* the rows written while no transaction was open
    interrupted         \* whether that transaction was ended by another than
                        \* the thread's own commit or rollback

locks == <<m_mutex, synchronized>>
sqliteVars == <<open, uncommitted, database>>
history == <<written, alone, interrupted>>
vars == <<locks, m_isInTransaction, gone, sqliteVars, rows, pc, returned, history>>

\* Between begin and the method that ends the transaction.
Within == {"run", "commit", "rollback", "open"}

Goto(t, where) == pc' = [pc EXCEPT ![t] = where]

End(t, answer) ==
    /\ Goto(t, "idle")
    /\ returned' = [returned EXCEPT ![t] = answer]

Init ==
    /\ m_mutex = NULL
    /\ synchronized = NULL
    /\ m_isInTransaction = FALSE
    /\ gone = FALSE
    /\ open = FALSE
    /\ uncommitted = {}
    /\ database = {}
    /\ rows = 0
    /\ pc = [t \in Threads |-> "idle"]
    /\ returned = [t \in Threads |-> "nothing"]
    /\ written = [t \in Threads |-> {}]
    /\ alone = {}
    /\ interrupted = [t \in Threads |-> FALSE]

-----------------------------------------------------------------------------
(* SQLite, as in DatabaseTransaction, for one connection.                  *)

SQLiteBegin == ~open /\ open' = TRUE /\ UNCHANGED <<uncommitted, database>>

SQLiteCommit ==
    /\ open
    /\ open' = FALSE
    /\ database' = database \cup uncommitted
    /\ uncommitted' = {}

SQLiteRollback == open' = FALSE /\ uncommitted' = {} /\ UNCHANGED database

SQLiteFail ==
    \/ UNCHANGED sqliteVars
    \/ SQLiteRollback

SQLiteWrite(row) ==
    \/ open /\ uncommitted' = uncommitted \cup {row} /\ UNCHANGED <<open, database>>
    \/ ~open /\ database' = database \cup {row} /\ UNCHANGED <<open, uncommitted>>

\* What the statement just done means for the threads in their transaction.
Interrupt(others) ==
    interrupted' = [u \in Threads |->
        \/ interrupted[u]
        \/ open /\ ~open' /\ u \in others /\ pc[u] \in Within]

-----------------------------------------------------------------------------

\* A method of Transaction that takes the mutex and gives it back.
Locked == ~gone /\ m_mutex = NULL /\ UNCHANGED <<m_mutex, gone>>

\* A method of WCTTransaction that is @synchronized, by itself.
Synchronized == synchronized = NULL /\ UNCHANGED synchronized

Begin(t) ==
    /\ Locked
    /\ written' = [written EXCEPT ![t] = {}]
    /\ interrupted' = [interrupted EXCEPT ![t] = FALSE]
    /\ UNCHANGED <<rows, alone>>

BeginDone(t, where) ==
    /\ SQLiteBegin
    /\ m_isInTransaction' = TRUE
    /\ Goto(t, where)
    /\ returned' = [returned EXCEPT ![t] = "nothing"]

BeginFailed(t) ==
    /\ End(t, "NO")
    /\ UNCHANGED <<sqliteVars, m_isInTransaction>>

CommitDone == SQLiteCommit /\ m_isInTransaction' = FALSE
CommitFailed == SQLiteFail /\ UNCHANGED m_isInTransaction

\* Slip: the flag falls even if COMMIT failed.
CommitClearsFlag(t, answer, onFailure) ==
    /\ Locked
    /\ m_isInTransaction' = FALSE
    /\ \/ SQLiteCommit /\ End(t, answer) /\ Interrupt(Threads \ {t})
       \/ SQLiteFail /\ Goto(t, onFailure) /\ Interrupt(Threads) /\ UNCHANGED returned
    /\ UNCHANGED <<rows, written, alone>>

\* Slip: YES without looking at what COMMIT said.
CommitUnchecked(t, answer, onFailure) ==
    /\ Locked
    /\ m_isInTransaction' = FALSE
    /\ SQLiteCommit \/ SQLiteFail
    /\ End(t, answer)
    /\ Interrupt(Threads \ {t})
    /\ UNCHANGED <<rows, written, alone>>

Commit(t, answer, onFailure) ==
    /\ Locked
    /\ \/ CommitDone /\ End(t, answer) /\ Interrupt(Threads \ {t})
       \/ CommitFailed /\ Goto(t, onFailure) /\ Interrupt(Threads) /\ UNCHANGED returned
    /\ UNCHANGED <<rows, written, alone>>

\* ROLLBACK fails if no transaction is open; the flag falls all the same.
RollbackDone == SQLiteRollback /\ m_isInTransaction' = FALSE

Rollback(t, answer) ==
    /\ Locked
    /\ RollbackDone
    /\ End(t, answer)
    /\ Interrupt(Threads \ {t})
    /\ UNCHANGED <<rows, written, alone>>

-----------------------------------------------------------------------------
(* runTransaction: begin, the block, and commit or rollback, inside one    *)
(* @synchronized.                                                          *)

RunTransaction(t) ==
    /\ t \in Runners /\ pc[t] = "idle" /\ synchronized = NULL
    /\ Begin(t)
    /\ \/ BeginDone(t, "run") /\ synchronized' = t
       \/ BeginFailed(t) /\ UNCHANGED synchronized

BlockReturns(t) ==
    /\ pc[t] = "run"
    /\ Goto(t, "commit") \/ Goto(t, "rollback")
    /\ UNCHANGED <<locks, m_isInTransaction, gone, sqliteVars, rows, returned,
                   history>>

\* runTransaction ends with the method that ends the transaction.
LeaveSynchronized(t) ==
    synchronized' = IF pc'[t] = "idle" THEN NULL ELSE synchronized

RunCommit(t) == pc[t] = "commit" /\ Commit(t, "YES", "rollback") /\ LeaveSynchronized(t)
RunRollback(t) == pc[t] = "rollback" /\ Rollback(t, "NO") /\ LeaveSynchronized(t)

\* begin, commit and rollback by themselves.
BeginByHand(t) ==
    /\ t \in Holders /\ pc[t] = "idle" /\ Synchronized
    /\ Begin(t)
    /\ BeginDone(t, "open") \/ BeginFailed(t)

CommitByHand(t) ==
    /\ pc[t] = "open"
    /\ Synchronized
    /\ Commit(t, "committed", "open")

\* rollback says what ROLLBACK said.
RollbackByHand(t) ==
    /\ pc[t] = "open"
    /\ Synchronized
    /\ Rollback(t, IF open THEN "rolledBack" ELSE "notRolledBack")

\* commit or rollback by a thread that began no transaction: it ends the one
\* that is open, whoever began it.
EndByAnother(t) ==
    /\ t \in Holders /\ pc[t] = "idle" /\ Synchronized
    /\ Locked
    /\ CommitDone \/ CommitFailed \/ RollbackDone
    /\ Interrupt(Threads)
    /\ UNCHANGED <<rows, pc, returned, written, alone>>

\* exec, in a transaction of the thread's or from any other thread: it goes
\* through the one handle.  After a write that fails the thread may go on.
Write(t) ==
    /\ Locked
    /\ pc[t] \in {"idle", "run", "open"}
    /\ rows < MaxRows
    /\ rows' = rows + 1
    /\ \/ /\ SQLiteWrite(rows')
          /\ alone' = IF open THEN alone ELSE alone \cup {rows'}
          /\ written' = [u \in Threads |-> IF pc[u] \in Within
                                          THEN written[u] \cup {rows'}
                                          ELSE written[u]]
          /\ UNCHANGED interrupted
       \/ /\ SQLiteFail
          /\ Interrupt(Threads)
          /\ UNCHANGED <<written, alone>>
    /\ UNCHANGED <<synchronized, m_isInTransaction, pc, returned>>

\* runEmbeddedTransaction, with the block WCTInsert gives it for several
\* objects.  The next thing the thread does is prepare (if the flag is set)
\* or begin: both take m_mutex, which is not recursive and which the thread
\* has.  Neither is ever enabled, so neither is written here.
RunEmbeddedTransaction(t) ==
    /\ t \in Inserters
    /\ pc[t] = "idle"
    /\ ~gone /\ m_mutex = NULL
    /\ m_mutex' = t
    /\ Goto(t, "embedded")
    /\ UNCHANGED <<synchronized, m_isInTransaction, gone, sqliteVars, rows,
                   returned, history>>

Unused == \A t \in Threads : pc[t] \in {"idle", "open"}

\* Slip: the destructor leaves the transaction to the connection.
DeallocKeepsOpen ==
    /\ ~gone /\ Unused
    /\ gone' = TRUE
    /\ m_isInTransaction' = FALSE
    /\ UNCHANGED <<locks, sqliteVars, rows, pc, returned, history>>

\* ~Transaction, when no thread is inside a method; a thread between begin
\* and commit may have dropped the object.
Dealloc ==
    /\ ~gone /\ Unused
    /\ gone' = TRUE
    /\ IF m_isInTransaction THEN SQLiteRollback ELSE UNCHANGED sqliteVars
    /\ m_isInTransaction' = FALSE
    /\ UNCHANGED <<locks, rows, pc, returned, history>>

Step(t) ==
    \/ RunTransaction(t)
    \/ BlockReturns(t)
    \/ RunCommit(t)
    \/ RunRollback(t)
    \/ BeginByHand(t)
    \/ CommitByHand(t)
    \/ RollbackByHand(t)
    \/ EndByAnother(t)
    \/ Write(t)
    \/ RunEmbeddedTransaction(t)

Next == (\E t \in Threads : Step(t)) \/ Dealloc

\* A method that has been called goes on; what the program calls is its own.
Fairness ==
    \A t \in Threads : WF_vars(BlockReturns(t) \/ RunCommit(t) \/ RunRollback(t))

Spec == Init /\ [][Next]_vars /\ Fairness

-----------------------------------------------------------------------------

(* The shape of the state.  The monitor is with the thread that is in      *)
(* runTransaction, and the mutex with one that is in an embedded           *)
(* transaction.                                                            *)
TypeOK ==
    /\ m_mutex \in Inserters \cup {NULL}
    /\ m_mutex # NULL => pc[m_mutex] = "embedded"
    /\ synchronized \in Runners \cup {NULL}
    /\ \A t \in Threads :
           synchronized = t <=> pc[t] \in {"run", "commit", "rollback"}
    /\ {m_isInTransaction, gone, open} \subseteq BOOLEAN
    /\ rows \in 0..MaxRows
    /\ uncommitted \cup database \subseteq 1..rows
    /\ returned \in [Threads -> {"nothing", "YES", "NO", "committed", "rolledBack",
                                 "notRolledBack"}]
    /\ written \in [Threads -> SUBSET (1..rows)]
    /\ alone \subseteq 1..rows
    /\ interrupted \in [Threads -> BOOLEAN]

\* begin, runEmbeddedTransaction and the destructor ask the flag, never SQLite.
OpenKnown == open => m_isInTransaction

(* The flag the object keeps by hand never misses a transaction the        *)
(* connection has open, in any well-formed state.                          *)
FlagCovers == TypeOK /\ OpenKnown

(* WCTTransaction.h:85,105, "return NO to rollback transaction", "YES only *)
(* if transaction is committed", with any thread writing through the       *)
(* handle, ending the transaction, or failing.  runTransaction: YES, and   *)
(* every row written meanwhile is in the database; NO, and only rows       *)
(* written after SQLite had ended the transaction by itself are.  By hand, *)
(* as long as only the thread that began ended the transaction: commit     *)
(* leaves every row there, rollback none, and rollback does not fail.      *)
AllOrNothing == \A t \in Threads : pc[t] = "idle" =>
    /\ returned[t] = "YES" => written[t] \subseteq database
    /\ returned[t] = "NO" => written[t] \cap database \subseteq alone
    /\ ~interrupted[t] =>
           /\ returned[t] = "committed" => written[t] \subseteq database
           /\ returned[t] \in {"NO", "rolledBack"} => written[t] \cap database = {}
           /\ returned[t] # "notRolledBack"

(* The same words without the rows written outside: false of the code,     *)
(* since after a statement that ended the transaction writes still succeed.*)
NoLeavesNothing == \A t \in Threads :
    pc[t] = "idle" /\ returned[t] = "NO" => written[t] \cap database = {}

(* The handle goes back to the pool with no transaction open, whoever let  *)
(* go of the object, and whatever failed before.                           *)
ReturnedClean == gone => ~open /\ uncommitted = {}

(* WCTInsert.h:32, "it will run embedded transaction while                 *)
(* objects.count>1": the call returns.                                     *)
EmbeddedReturns == \A t \in Threads : pc[t] = "embedded" ~> pc[t] = "idle"

=============================================================================
