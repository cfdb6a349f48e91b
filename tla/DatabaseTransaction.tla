------------------------- MODULE DatabaseTransaction -------------------------
(***************************************************************************)
(* Transactions of a WCDB Database (objc/WCDB/core/database_transaction.cpp*)
(* and CoreBase::runTransaction in core_base.cpp).  The handle of an open  *)
(* transaction is kept in a thread-local table, and everything the thread  *)
(* does with the database goes through that handle until commit or         *)
(* rollback.  Handles come from the pool, which is AbstractPool here; the  *)
(* pool can be closed by any thread.                                       *)
(*                                                                         *)
(* SQLite is outside src's own code: of a connection the model keeps       *)
(* whether a transaction is open and the rows written in it.  A statement  *)
(* may fail; a failing one may take the transaction with it, as SQLite     *)
(* does when the disk is full.                                             *)
(***************************************************************************)
EXTENDS Integers, FiniteSets

CONSTANTS
    Threads, Handles,
    MaxRows,            \* rows written (a bound)
    MaxConfigs,         \* calls of setConfig (a bound)
    AutoRollback,       \* whether a failing statement may end the transaction
    NULL

ASSUME TransactionAssumption ==
    /\ NULL \notin Handles
    /\ MaxRows \in Nat
    /\ MaxConfigs \in Nat
    /\ AutoRollback \in BOOLEAN

VARIABLES
    held, sealedBy,     \* the pool
    s_threadedHandle,   \* of each thread, for the path of the database
    inTransaction,      \* the connections with a transaction open
    uncommitted,        \* the rows written in it
    database,           \* the rows everybody sees
    rows,               \* how many rows have been written
    mine,               \* the rows of the last transaction of each thread
    pc, returned,
    m_configs, configs, \* as in HandlePool
    abandoned           \* history: free handles with a transaction open

poolVars == <<held, sealedBy>>
sqliteVars == <<inTransaction, uncommitted, database>>
configVars == <<m_configs, configs, abandoned>>
vars == <<poolVars, s_threadedHandle, sqliteVars, rows, mine, pc, returned,
          configVars>>

Pool == INSTANCE AbstractPool

Goto(t, where) == pc' = [pc EXCEPT ![t] = where]

Free(h) == \A t \in Threads : h \notin held[t]

Init ==
    /\ Pool!Init
    /\ s_threadedHandle = [t \in Threads |-> NULL]
    /\ inTransaction = {}
    /\ uncommitted = [h \in Handles |-> {}]
    /\ database = {}
    /\ rows = 0
    /\ mine = [t \in Threads |-> {}]
    /\ pc = [t \in Threads |-> "idle"]
    /\ returned = [t \in Threads |-> "nothing"]
    /\ m_configs = 0
    /\ configs = [h \in Handles |-> 0]
    /\ abandoned = {}

-----------------------------------------------------------------------------
(* SQLite, as the code uses it.                                            *)

\* BEGIN IMMEDIATE takes the write lock; nobody else has it.
SQLiteBegin(h) ==
    /\ inTransaction = {}
    /\ inTransaction' = {h}
    /\ UNCHANGED <<uncommitted, database>>

SQLiteCommit(h) ==
    /\ h \in inTransaction
    /\ inTransaction' = inTransaction \ {h}
    /\ database' = database \cup uncommitted[h]
    /\ uncommitted' = [uncommitted EXCEPT ![h] = {}]

SQLiteRollback(h) ==
    /\ inTransaction' = inTransaction \ {h}
    /\ uncommitted' = [uncommitted EXCEPT ![h] = {}]
    /\ UNCHANGED database

\* A statement fails.
SQLiteFail(h) ==
    \/ UNCHANGED sqliteVars
    \/ AutoRollback /\ SQLiteRollback(h)

\* A write joins the transaction of its connection, or commits by itself if
\* that has none and nobody is writing.
SQLiteWrite(h, row) ==
    \/ /\ h \in inTransaction
       /\ uncommitted' = [uncommitted EXCEPT ![h] = @ \cup {row}]
       /\ UNCHANGED <<inTransaction, database>>
    \/ /\ inTransaction = {}
       /\ database' = database \cup {row}
       /\ UNCHANGED <<inTransaction, uncommitted>>

-----------------------------------------------------------------------------
(* Database::flowOut: the handle of the thread's transaction, or one from  *)
(* the pool, which has run the configuration in force.                     *)

Threaded(t) == s_threadedHandle[t] # NULL

FlowOutNew(t, h) ==
    /\ Free(h)
    /\ sealedBy = {}
    /\ configs' = [configs EXCEPT ![h] = m_configs]

\* Slip: the handle goes back and its entry stays.
EraseKeepsEntry(t) ==
    /\ UNCHANGED s_threadedHandle
    /\ Pool!GiveBack(t, s_threadedHandle[t])

\* Erasing the entry gives up the last reference to the handle.
Erase(t) ==
    /\ s_threadedHandle' = [s_threadedHandle EXCEPT ![t] = NULL]
    /\ Pool!GiveBack(t, s_threadedHandle[t])

End(t, answer) ==
    /\ Goto(t, "idle")
    /\ returned' = [returned EXCEPT ![t] = answer]

-----------------------------------------------------------------------------
(* Transactions.  "run": in the block of runTransaction; "open": between   *)
(* beginTransaction and commit- or rollbackTransaction.  A program that    *)
(* saw a write fail does not write on: it returns NO or rolls back.        *)

\* begin: the handle is kept only if BEGIN succeeds; it has run the
\* configuration either way.
Begin(t, where) ==
    /\ pc[t] = "idle"
    /\ mine' = [mine EXCEPT ![t] = {}]
    /\ \E h \in Handles :
        /\ FlowOutNew(t, h)
        /\ \/ /\ SQLiteBegin(h)
              /\ Pool!Obtain(t, h)
              /\ s_threadedHandle' = [s_threadedHandle EXCEPT ![t] = h]
              /\ Goto(t, where)
              /\ returned' = [returned EXCEPT ![t] = "nothing"]
           \/ /\ End(t, "NO")
              /\ UNCHANGED <<poolVars, s_threadedHandle, sqliteVars>>
    /\ UNCHANGED <<rows, m_configs, abandoned>>

RunTransaction(t) == Begin(t, "run")

BeginTransaction(t) == Begin(t, "open")

\* Database::exec of a write inside a transaction.
Write(t) ==
    /\ pc[t] \in {"run", "open"}
    /\ rows < MaxRows
    /\ rows' = rows + 1
    /\ \/ /\ SQLiteWrite(s_threadedHandle[t], rows')
          /\ mine' = [mine EXCEPT ![t] = @ \cup {rows'}]
          /\ UNCHANGED pc
       \/ /\ SQLiteFail(s_threadedHandle[t])
          /\ Goto(t, IF pc[t] = "run" THEN "rollback" ELSE "failed")
          /\ UNCHANGED mine
    /\ UNCHANGED <<poolVars, s_threadedHandle, returned, configVars>>

\* Database::exec of a write outside a transaction.
WriteAlone(t) ==
    /\ pc[t] = "idle"
    /\ rows < MaxRows
    /\ rows' = rows + 1
    /\ \E h \in Handles :
        /\ FlowOutNew(t, h)
        /\ SQLiteWrite(h, rows')
    /\ UNCHANGED <<poolVars, s_threadedHandle, mine, pc, returned, m_configs, abandoned>>

\* The block of runTransaction returns.
BlockReturns(t) ==
    /\ pc[t] = "run"
    /\ \/ Goto(t, "commit")
       \/ Goto(t, "rollback")
    /\ UNCHANGED <<poolVars, s_threadedHandle, sqliteVars, rows, mine, returned,
                   configVars>>

\* Slip: commit gives the handle up even if COMMIT fails, as rollback does.
CommitErasesAlways(t, onFailure) ==
    /\ Erase(t)
    /\ \/ SQLiteCommit(s_threadedHandle[t]) /\ End(t, "YES")
       \/ /\ SQLiteFail(s_threadedHandle[t])
          /\ End(t, "NO")
    /\ UNCHANGED <<rows, mine, configVars>>

\* Slip: runTransaction answers YES without looking at what commit said.
CommitUnchecked(t, onFailure) ==
    /\ \/ SQLiteCommit(s_threadedHandle[t])
       \/ SQLiteRollback(s_threadedHandle[t])
    /\ Erase(t)
    /\ End(t, "YES")
    /\ UNCHANGED <<rows, mine, configVars>>

\* commit: the entry goes only if COMMIT succeeds.
Commit(t, onFailure) ==
    /\ \/ /\ SQLiteCommit(s_threadedHandle[t])
          /\ Erase(t)
          /\ End(t, "YES")
       \/ /\ SQLiteFail(s_threadedHandle[t])
          /\ Goto(t, onFailure)
          /\ UNCHANGED <<poolVars, s_threadedHandle, returned>>
    /\ UNCHANGED <<rows, mine, configVars>>

\* rollback: the entry goes whether ROLLBACK succeeds or not; it fails if
\* there is no transaction to roll back.
Rollback(t, answer) ==
    /\ SQLiteRollback(s_threadedHandle[t])
    /\ Erase(t)
    /\ End(t, answer)
    /\ UNCHANGED <<rows, mine, configVars>>

\* The end of runTransaction: commit, and rollback if that fails.
RunCommit(t) == pc[t] = "commit" /\ Commit(t, "rollback")
RunRollback(t) == pc[t] = "rollback" /\ Rollback(t, "NO")

CommitTransaction(t) == pc[t] = "open" /\ Commit(t, "failed")

\* rollbackTransaction answers what ROLLBACK does.
RollbackTransaction(t) ==
    /\ pc[t] \in {"open", "failed"}
    /\ Rollback(t, IF s_threadedHandle[t] \in inTransaction THEN "rolledBack"
                   ELSE "notRolledBack")

-----------------------------------------------------------------------------

\* runEmbeddedTransaction: inside a transaction of the thread the block (one
\* write here) just runs, outside it gets a transaction of its own.
RunEmbeddedTransaction(t) ==
    \/ Threaded(t) /\ Write(t)
    \/ ~Threaded(t) /\ RunTransaction(t)

\* The thread ends and its table is deleted: the handle goes back as it is.
\* Another thread takes its place.
ThreadExit(t) ==
    /\ pc[t] \in {"open", "failed"}
    /\ Erase(t)
    /\ End(t, "nothing")
    /\ abandoned' = abandoned \cup ({s_threadedHandle[t]} \cap inTransaction)
    /\ mine' = [mine EXCEPT ![t] = {}]
    /\ UNCHANGED <<sqliteVars, rows, m_configs, configs>>

\* database.close by a thread that has no handle: free connections close.
Close(t) ==
    /\ pc[t] = "idle"
    /\ Pool!Seal(t)
    /\ inTransaction' = inTransaction \ {h \in Handles : Free(h)}
    /\ uncommitted' = [h \in Handles |-> IF Free(h) THEN {} ELSE uncommitted[h]]
    /\ abandoned' = abandoned \cap inTransaction'
    /\ Goto(t, "closing")
    /\ UNCHANGED <<s_threadedHandle, database, rows, mine, returned, m_configs, configs>>

Closed(t) ==
    /\ pc[t] = "closing"
    /\ Pool!Unseal(t)
    /\ Goto(t, "idle")
    /\ UNCHANGED <<s_threadedHandle, sqliteVars, rows, mine, returned, configVars>>

SetConfig ==
    /\ m_configs < MaxConfigs
    /\ m_configs' = m_configs + 1
    /\ UNCHANGED <<poolVars, s_threadedHandle, sqliteVars, rows, mine, pc,
                   returned, configs, abandoned>>

Next ==
    \/ \E t \in Threads :
        \/ RunTransaction(t)
        \/ RunEmbeddedTransaction(t)
        \/ BeginTransaction(t)
        \/ Write(t)
        \/ WriteAlone(t)
        \/ BlockReturns(t)
        \/ RunCommit(t)
        \/ RunRollback(t)
        \/ CommitTransaction(t)
        \/ RollbackTransaction(t)
        \/ ThreadExit(t)
        \/ Close(t)
        \/ Closed(t)
    \/ SetConfig

Spec == Init /\ [][Next]_vars

-----------------------------------------------------------------------------

\* The answers of a transaction that was not committed.
NotCommitted == {"NO", "rolledBack", "notRolledBack"}

(* The shape of the state.  A thread holds the handle in its table and     *)
(* nothing else, and the entry is one it holds.                            *)
TypeOK ==
    /\ sealedBy \subseteq Threads
    /\ s_threadedHandle \in [Threads -> Handles \cup {NULL}]
    /\ \A t \in Threads : held[t] = {s_threadedHandle[t]} \ {NULL}
    /\ inTransaction \subseteq Handles
    /\ uncommitted \in [Handles -> SUBSET (1..MaxRows)]
    /\ database \subseteq 1..MaxRows
    /\ rows \in 0..MaxRows
    /\ mine \in [Threads -> SUBSET (1..MaxRows)]
    /\ pc \in [Threads -> {"idle", "run", "open", "failed", "commit",
                           "rollback", "closing"}]
    /\ returned \in [Threads -> {"nothing", "YES"} \cup NotCommitted]
    /\ m_configs \in 0..MaxConfigs
    /\ configs \in [Handles -> 0..MaxConfigs]

(* WCTDatabase+Transaction.h: "YES only if transaction is committed".  An  *)
(* answer of YES finds every row of the transaction in the database, NO or *)
(* the end of a rollback, failed or not, finds none, also after SQLite has *)
(* given the transaction up by itself.                                     *)
AllOrNothing == \A t \in Threads : pc[t] = "idle" =>
    /\ returned[t] = "YES" => mine[t] \subseteq database
    /\ returned[t] \in NotCommitted => mine[t] \cap database = {}

(* An open transaction belongs to a thread that can still end it: no       *)
(* handle goes back to the pool with one, other than that of a thread that *)
(* ends.  In a block, and up to commit, the thread's handle does have one. *)
TransactionOwned ==
    /\ TypeOK
    /\ \A h \in inTransaction \ abandoned : \E t \in Threads : s_threadedHandle[t] = h
    /\ \A t \in Threads : pc[t] \in {"run", "open", "commit"} =>
           s_threadedHandle[t] \in inTransaction

(* A write outside a transaction that succeeds is in the database.         *)
AloneCommitted == [][\A t \in Threads :
    rows' # rows /\ ~Threaded(t) /\ pc[t] = "idle" /\ UNCHANGED <<mine, pc>>
        => rows' \in database']_vars

(* A database is closed only when no thread has a transaction entry, so    *)
(* none ever works on a handle that close has freed.                       *)
ClosedWithoutTransactions ==
    sealedBy # {} => \A t \in Threads : ~Threaded(t)

(* WCTDatabase+Core.h:86, "all handles will run this config before its     *)
(* next operation".                                                        *)
ConfigBeforeNextOperation == [][\A t \in Threads :
    mine'[t] # mine[t] /\ rows' # rows
        => configs[s_threadedHandle[t]] = m_configs]_vars

=============================================================================
