---------------------- MODULE DatabaseTransaction_proof ----------------------
(***************************************************************************)
(* DatabaseTransaction for any threads, handles and bounds: an open        *)
(* transaction has an owner, nobody has one in a closed database, and an   *)
(* answer tells what is in the database, also where SQLite ends            *)
(* transactions by itself.                                                 *)
(*                                                                         *)
(* Owned is about the connections, RowsPlaced about the rows written       *)
(* through them; the second needs the first.                               *)
(***************************************************************************)
EXTENDS DatabaseTransaction, TLAPS

PCs == {"idle", "run", "open", "failed", "commit", "rollback", "closing"}

\* Between begin and the end of the transaction.
Within == {"run", "open", "failed", "commit", "rollback"}

(* One entry, one handle; the pool is sealed only when there is no entry;  *)
(* one connection writes at a time, through an entry or abandoned.         *)
Owned ==
    /\ \A t \in Threads : Threaded(t) <=> pc[t] \in Within
    /\ \A t, u \in Threads : Threaded(t) /\ t # u =>
           s_threadedHandle[t] # s_threadedHandle[u]
    /\ sealedBy # {} => \A t \in Threads : ~Threaded(t)
    /\ \A h, g \in inTransaction : h = g
    /\ abandoned \subseteq inTransaction
    /\ \A h \in abandoned : Free(h)
    /\ \A h \in inTransaction \ abandoned :
           \E t \in Threads : s_threadedHandle[t] = h
    /\ \A t \in Threads : pc[t] \in {"run", "open", "commit"} =>
           s_threadedHandle[t] \in inTransaction

IInv == TypeOK /\ Pool!TypeOK /\ Owned

-----------------------------------------------------------------------------

LEMMA InitEstablishes == Init => IInv
<1> SUFFICES ASSUME Init PROVE IInv
  OBVIOUS
<1>1. TypeOK
  BY TransactionAssumption DEF Init, Pool!Init, TypeOK
<1>2. Pool!TypeOK
  BY DEF Init, Pool!Init, Pool!TypeOK
<1>3. Owned
  BY DEF Init, Pool!Init, Owned, Threaded, Within, Free
<1> QED
  BY <1>1, <1>2, <1>3 DEF IInv

(* A connection is free when no thread has it in its table.                *)
LEMMA FreeHasNoEntry ==
    ASSUME IInv, NEW h \in Handles
    PROVE  Free(h) <=> \A t \in Threads : s_threadedHandle[t] # h
BY TransactionAssumption DEF IInv, TypeOK, Free

(* Where the transaction of a thread ends, its entry goes with it.         *)
LEMMA ErasePreserves ==
    ASSUME IInv, NEW t \in Threads, pc[t] \in Within, Erase(t),
           NEW answer \in {"nothing", "YES"} \cup NotCommitted, End(t, answer),
           inTransaction' \subseteq inTransaction,
           inTransaction \ {s_threadedHandle[t]} \subseteq inTransaction',
           abandoned' = (abandoned \cap inTransaction')
                        \cup (inTransaction' \cap {s_threadedHandle[t]}),
           uncommitted' \in [Handles -> SUBSET (1..MaxRows)],
           database' \subseteq 1..MaxRows,
           mine' \in [Threads -> SUBSET (1..MaxRows)],
           UNCHANGED <<rows, m_configs, configs>>
    PROVE  IInv'
<1>1. PICK h \in Handles : h = s_threadedHandle[t] /\ h # NULL
  <2>1. s_threadedHandle[t] # NULL
    BY DEF IInv, Owned, Threaded
  <2>2. s_threadedHandle[t] \in Handles
    BY <2>1 DEF IInv, TypeOK
  <2> QED
    BY <2>1, <2>2
<1>2. /\ s_threadedHandle' = [s_threadedHandle EXCEPT ![t] = NULL]
      /\ held' = [held EXCEPT ![t] = @ \ {h}]
      /\ sealedBy' = sealedBy
      /\ pc' = [pc EXCEPT ![t] = "idle"]
      /\ returned' = [returned EXCEPT ![t] = answer]
  BY <1>1 DEF Erase, Pool!GiveBack, End, Goto
<1>3. /\ sealedBy' \subseteq Threads
      /\ s_threadedHandle' \in [Threads -> Handles \cup {NULL}]
      /\ held' \in [Threads -> SUBSET Handles]
      /\ pc' \in [Threads -> PCs]
      /\ returned' \in [Threads -> {"nothing", "YES"} \cup NotCommitted]
  BY <1>1, <1>2 DEF IInv, TypeOK, Pool!TypeOK, PCs
<1>4. \A u \in Threads : held'[u] = {s_threadedHandle'[u]} \ {NULL}
  BY <1>1, <1>2 DEF IInv, TypeOK, Pool!TypeOK
<1>5. /\ s_threadedHandle'[t] = NULL
      /\ pc'[t] = "idle"
      /\ \A u \in Threads \ {t} : /\ s_threadedHandle'[u] = s_threadedHandle[u]
                                  /\ pc'[u] = pc[u]
                                  /\ held'[u] = held[u]
      /\ \A u \in Threads : held'[u] \subseteq held[u]
  BY <1>1, <1>2 DEF IInv, TypeOK, Pool!TypeOK
<1>6. /\ \A u \in Threads : Threaded(u)' <=> pc'[u] \in Within
      /\ \A u, v \in Threads : Threaded(u)' /\ u # v =>
             s_threadedHandle'[u] # s_threadedHandle'[v]
      /\ sealedBy' # {} => \A u \in Threads : ~Threaded(u)'
  BY <1>2, <1>5 DEF IInv, Owned, Threaded, Within
<1>7. \A u \in Threads \ {t} : s_threadedHandle[u] # h
  BY <1>1 DEF IInv, Owned, Threaded
<1>8. Free(h)'
  BY <1>1, <1>4, <1>5, <1>7 DEF Free
<1>9. /\ \A g1, g2 \in inTransaction' : g1 = g2
      /\ abandoned' \subseteq inTransaction'
      /\ \A g \in abandoned' : Free(g)'
  BY <1>1, <1>5, <1>8 DEF IInv, Owned, Free
<1>10. \A g \in inTransaction' \ abandoned' :
          \E u \in Threads : s_threadedHandle'[u] = g
  BY <1>1, <1>5 DEF IInv, Owned
<1>11. \A u \in Threads : pc'[u] \in {"run", "open", "commit"} =>
          s_threadedHandle'[u] \in inTransaction'
  BY <1>1, <1>5, <1>7 DEF IInv, Owned
<1>12. Owned'
  BY <1>6, <1>9, <1>10, <1>11 DEF Owned, Free
<1> QED
  BY <1>3, <1>4, <1>12 DEF IInv, TypeOK, Pool!TypeOK, PCs

(* Where a statement fails, the entry stays, with the transaction or       *)
(* without it.                                                             *)
LEMMA FailPreserves ==
    ASSUME IInv, NEW t \in Threads, pc[t] \in {"run", "open", "commit"},
           NEW where \in {"rollback", "failed"}, Goto(t, where),
           SQLiteFail(s_threadedHandle[t]),
           rows' \in 0..MaxRows,
           UNCHANGED <<poolVars, s_threadedHandle, mine, returned, configVars>>
    PROVE  IInv'
<1> USE DEF configVars, poolVars
<1>1. PICK h \in Handles : h = s_threadedHandle[t] /\ h \in inTransaction
  BY DEF IInv, TypeOK, Owned
<1>2. /\ inTransaction' \in {inTransaction, inTransaction \ {h}}
      /\ uncommitted' \in [Handles -> SUBSET (1..MaxRows)]
      /\ database' = database
  <2>1. CASE UNCHANGED sqliteVars
    BY <2>1 DEF sqliteVars, IInv, TypeOK
  <2>2. CASE SQLiteRollback(h)
    BY <2>2 DEF SQLiteRollback, IInv, TypeOK
  <2> QED
    BY <1>1, <2>1, <2>2 DEF SQLiteFail
<1>3. TypeOK' /\ Pool!TypeOK'
  BY <1>1, <1>2 DEF IInv, TypeOK, Pool!TypeOK, Goto
<1>4. /\ pc'[t] \in {"rollback", "failed"}
      /\ \A u \in Threads \ {t} : pc'[u] = pc[u] /\ s_threadedHandle[u] # h
  BY <1>1, TransactionAssumption DEF IInv, TypeOK, Owned, Threaded, Within, Goto
<1>5. h \notin abandoned
  BY <1>1, FreeHasNoEntry DEF IInv, Owned
<1>6. Owned'
  <2> USE DEF IInv, Owned, Threaded, Free, Within
  <2>1. /\ \A u \in Threads : Threaded(u)' <=> pc'[u] \in Within
        /\ \A u, v \in Threads : Threaded(u)' /\ u # v =>
               s_threadedHandle'[u] # s_threadedHandle'[v]
        /\ sealedBy' # {} => \A u \in Threads : ~Threaded(u)'
    BY <1>4
  <2>2. /\ \A g1, g2 \in inTransaction' : g1 = g2
        /\ abandoned' \subseteq inTransaction'
        /\ \A g \in abandoned' : Free(g)'
        /\ \A g \in inTransaction' \ abandoned' :
               \E u \in Threads : s_threadedHandle'[u] = g
    BY <1>2, <1>5
  <2>3. \A u \in Threads : pc'[u] \in {"run", "open", "commit"} =>
           s_threadedHandle'[u] \in inTransaction'
    BY <1>2, <1>4
  <2> QED
    BY <2>1, <2>2, <2>3
<1> QED
  BY <1>3, <1>6 DEF IInv


LEMMA StepPreserves ==
    ASSUME IInv, [Next]_vars
    PROVE  IInv'
<1> USE TransactionAssumption
<1>1. CASE UNCHANGED vars
  BY <1>1 DEF vars, poolVars, sqliteVars, configVars, IInv, TypeOK, Pool!TypeOK,
              Owned, Threaded, Free
<1>2. CASE SetConfig
  BY <1>2 DEF SetConfig, poolVars, sqliteVars, IInv, TypeOK, Pool!TypeOK,
              Owned, Threaded, Free
<1>3. ASSUME NEW t \in Threads, NEW where \in {"run", "open"}, Begin(t, where)
      PROVE  IInv'
  <2>1. PICK h \in Handles :
          /\ FlowOutNew(t, h)
          /\ \/ /\ SQLiteBegin(h)
                /\ Pool!Obtain(t, h)
                /\ s_threadedHandle' = [s_threadedHandle EXCEPT ![t] = h]
                /\ Goto(t, where)
                /\ returned' = [returned EXCEPT ![t] = "nothing"]
             \/ /\ End(t, "NO")
                /\ UNCHANGED <<poolVars, s_threadedHandle, sqliteVars>>
    BY <1>3 DEF Begin
  <2>2. /\ pc[t] = "idle"
        /\ mine' = [mine EXCEPT ![t] = {}]
        /\ configs' = [configs EXCEPT ![h] = m_configs]
        /\ UNCHANGED <<rows, m_configs, abandoned>>
    BY <1>3, <2>1 DEF Begin, FlowOutNew
  <2>3. s_threadedHandle[t] = NULL /\ \A u \in Threads : s_threadedHandle[u] # h
    BY <2>1, <2>2, FreeHasNoEntry DEF FlowOutNew, IInv, Owned, Threaded, Within
  <2>4. CASE /\ SQLiteBegin(h)
             /\ Pool!Obtain(t, h)
             /\ s_threadedHandle' = [s_threadedHandle EXCEPT ![t] = h]
             /\ Goto(t, where)
             /\ returned' = [returned EXCEPT ![t] = "nothing"]
    <3> USE DEF IInv, TypeOK, Pool!TypeOK, SQLiteBegin, Pool!Obtain, Goto
    <3>1. TypeOK'
      BY <2>2, <2>3, <2>4
    <3>2. Pool!TypeOK'
      BY <2>4
    <3>3. /\ sealedBy' = {}
          /\ inTransaction' = {h}
          /\ abandoned' = {}
          /\ s_threadedHandle'[t] = h
          /\ pc'[t] \in {"run", "open"}
          /\ \A u \in Threads \ {t} : /\ s_threadedHandle'[u] = s_threadedHandle[u]
                                      /\ pc'[u] = pc[u]
      BY <2>2, <2>4 DEF Owned
    <3>4. \A u \in Threads \ {t} : pc[u] \notin {"run", "open", "commit"}
      BY <2>4 DEF Owned
    <3>5. Owned'
      BY <2>3, <3>3, <3>4 DEF Owned, Threaded, Within
    <3> QED
      BY <3>1, <3>2, <3>5
  <2>5. CASE End(t, "NO") /\ UNCHANGED <<poolVars, s_threadedHandle, sqliteVars>>
    <3>1. TypeOK' /\ Pool!TypeOK'
      BY <2>2, <2>5 DEF IInv, TypeOK, Pool!TypeOK, End, Goto, NotCommitted, poolVars,
                        sqliteVars
    <3>2. \A u \in Threads : pc'[u] = pc[u]
      BY <2>2, <2>5 DEF IInv, TypeOK, End, Goto
    <3>3. Owned'
      BY <2>2, <2>5, <3>2 DEF IInv, Owned, Threaded, Free, poolVars, sqliteVars
    <3> QED
      BY <3>1, <3>3 DEF IInv
  <2> QED
    BY <2>1, <2>4, <2>5
<1>4. ASSUME NEW t \in Threads, Write(t)
      PROVE  IInv'
  <2>1. /\ pc[t] \in {"run", "open"}
        /\ rows < MaxRows
        /\ rows' = rows + 1
        /\ UNCHANGED <<poolVars, s_threadedHandle, returned, configVars>>
    BY <1>4 DEF Write
  <2>2. PICK h \in Handles : h = s_threadedHandle[t] /\ h \in inTransaction
    BY <2>1 DEF IInv, TypeOK, Owned
  <2>3. h \notin abandoned
    BY <2>2, FreeHasNoEntry DEF IInv, Owned
  <2>4. rows' \in 1..MaxRows
    BY <2>1 DEF IInv, TypeOK
  <2>5. CASE /\ SQLiteWrite(h, rows')
             /\ mine' = [mine EXCEPT ![t] = @ \cup {rows'}]
             /\ UNCHANGED pc
    <3>1. /\ uncommitted' = [uncommitted EXCEPT ![h] = @ \cup {rows'}]
          /\ UNCHANGED <<inTransaction, database>>
      BY <2>2, <2>5 DEF SQLiteWrite
    <3>2. TypeOK' /\ Pool!TypeOK'
      BY <2>1, <2>4, <2>5, <3>1
         DEF IInv, TypeOK, Pool!TypeOK, poolVars, configVars
    <3>3. Owned'
      BY <2>1, <2>5, <3>1 DEF IInv, Owned, Threaded, Free, poolVars, configVars
    <3> QED
      BY <3>2, <3>3 DEF IInv
  <2>6. CASE /\ SQLiteFail(h)
             /\ Goto(t, IF pc[t] = "run" THEN "rollback" ELSE "failed")
             /\ UNCHANGED mine
    <3>1. PICK where \in {"rollback", "failed"} : Goto(t, where)
      BY <2>6
    <3>2. rows' \in 0..MaxRows
      BY <2>4
    <3> QED
      BY <2>1, <2>2, <2>6, <3>1, <3>2, FailPreserves
  <2> QED
    BY <1>4, <2>2, <2>5, <2>6 DEF Write
<1>5. ASSUME NEW t \in Threads, WriteAlone(t)
      PROVE  IInv'
  <2>1. PICK h \in Handles : FlowOutNew(t, h) /\ SQLiteWrite(h, rows')
    BY <1>5 DEF WriteAlone
  <2>2. /\ rows' \in 1..MaxRows
        /\ UNCHANGED <<poolVars, s_threadedHandle, mine, pc, returned, m_configs,
                       abandoned, inTransaction>>
        /\ configs' \in [Handles -> 0..MaxConfigs]
    BY <1>5, <2>1 DEF WriteAlone, SQLiteWrite, FlowOutNew, IInv, TypeOK
  <2>3. /\ uncommitted' \in [Handles -> SUBSET (1..MaxRows)]
        /\ database' \subseteq 1..MaxRows
    BY <2>1, <2>2 DEF SQLiteWrite, IInv, TypeOK
  <2>4. TypeOK' /\ Pool!TypeOK'
    BY <2>2, <2>3 DEF IInv, TypeOK, Pool!TypeOK, poolVars
  <2>5. Owned'
    BY <2>2 DEF IInv, Owned, Threaded, Free, poolVars
  <2> QED
    BY <2>4, <2>5 DEF IInv
<1>6. ASSUME NEW t \in Threads, BlockReturns(t)
      PROVE  IInv'
  <2>1. /\ pc[t] = "run"
        /\ UNCHANGED <<poolVars, s_threadedHandle, sqliteVars, rows, mine,
                       returned, configVars>>
    BY <1>6 DEF BlockReturns
  <2>2. PICK where \in {"commit", "rollback"} : pc' = [pc EXCEPT ![t] = where]
    BY <1>6 DEF BlockReturns, Goto
  <2>3. TypeOK' /\ Pool!TypeOK'
    BY <2>1, <2>2 DEF IInv, TypeOK, Pool!TypeOK, poolVars, sqliteVars, configVars
  <2>4. /\ pc'[t] \in {"commit", "rollback"}
        /\ \A u \in Threads \ {t} : pc'[u] = pc[u]
    BY <2>2 DEF IInv, TypeOK
  <2>5. Owned'
    BY <2>1, <2>4
       DEF IInv, Owned, Threaded, Free, Within, poolVars, sqliteVars, configVars
  <2> QED
    BY <2>3, <2>5 DEF IInv
<1>7. ASSUME NEW t \in Threads, NEW onFailure \in {"rollback", "failed"},
             Commit(t, onFailure), pc[t] \in {"commit", "open"}
      PROVE  IInv'
  <2>1. PICK h \in Handles : h = s_threadedHandle[t] /\ h \in inTransaction
    BY <1>7 DEF IInv, TypeOK, Owned
  <2>2. UNCHANGED <<rows, mine, configVars>> /\ h \notin abandoned
    BY <1>7, <2>1, FreeHasNoEntry DEF Commit, IInv, Owned
  <2>3. CASE SQLiteCommit(h) /\ Erase(t) /\ End(t, "YES")
    <3>1. /\ inTransaction' = inTransaction \ {h}
          /\ uncommitted' \in [Handles -> SUBSET (1..MaxRows)]
          /\ database' \subseteq 1..MaxRows
      BY <2>1, <2>3 DEF SQLiteCommit, IInv, TypeOK
    <3>2. abandoned' = (abandoned \cap inTransaction') \cup (inTransaction' \cap {h})
      BY <2>2, <3>1 DEF configVars, IInv, Owned
    <3> QED
      BY <1>7, <2>1, <2>2, <2>3, <3>1, <3>2, ErasePreserves
         DEF IInv, TypeOK, Within, configVars
  <2>4. CASE SQLiteFail(h) /\ Goto(t, onFailure)
             /\ UNCHANGED <<poolVars, s_threadedHandle, returned>>
    <3>1. rows' \in 0..MaxRows
      BY <2>2 DEF IInv, TypeOK
    <3> QED
      BY <1>7, <2>1, <2>2, <2>4, <3>1, FailPreserves
  <2> QED
    BY <1>7, <2>1, <2>3, <2>4 DEF Commit
<1>8. ASSUME NEW t \in Threads, NEW answer \in NotCommitted, Rollback(t, answer),
             pc[t] \in {"open", "failed", "rollback"}
      PROVE  IInv'
  <2>1. s_threadedHandle[t] \in Handles /\ s_threadedHandle[t] \notin abandoned
    BY <1>8, FreeHasNoEntry, TransactionAssumption
       DEF IInv, TypeOK, Owned, Threaded, Within
  <2>2. /\ UNCHANGED <<rows, mine, configVars>>
        /\ inTransaction' = inTransaction \ {s_threadedHandle[t]}
        /\ uncommitted' \in [Handles -> SUBSET (1..MaxRows)]
        /\ database' \subseteq 1..MaxRows
    BY <1>8, <2>1 DEF Rollback, SQLiteRollback, IInv, TypeOK
  <2>3. abandoned' = (abandoned \cap inTransaction')
                     \cup (inTransaction' \cap {s_threadedHandle[t]})
    BY <2>1, <2>2 DEF configVars, IInv, Owned
  <2> QED
    BY <1>8, <2>2, <2>3, ErasePreserves DEF Rollback, IInv, TypeOK, Within, configVars
<1>9. ASSUME NEW t \in Threads, ThreadExit(t)
      PROVE  IInv'
  <2>1. /\ pc[t] \in Within
        /\ Erase(t)
        /\ End(t, "nothing")
        /\ mine' = [mine EXCEPT ![t] = {}]
        /\ UNCHANGED <<sqliteVars, rows, m_configs, configs>>
    BY <1>9 DEF ThreadExit, Within
  <2>2. abandoned' = (abandoned \cap inTransaction')
                     \cup (inTransaction' \cap {s_threadedHandle[t]})
    BY <1>9 DEF ThreadExit, sqliteVars, IInv, Owned
  <2> QED
    BY <2>1, <2>2, ErasePreserves DEF IInv, TypeOK, sqliteVars
<1>10. ASSUME NEW t \in Threads, Close(t)
       PROVE  IInv'
  <2>1. /\ pc[t] = "idle"
        /\ sealedBy = {} /\ sealedBy' = {t}
        /\ \A u \in Threads : held[u] = {}
        /\ pc' = [pc EXCEPT ![t] = "closing"]
        /\ inTransaction' = inTransaction \ {h \in Handles : Free(h)}
        /\ uncommitted' = [h \in Handles |-> IF Free(h) THEN {} ELSE uncommitted[h]]
        /\ abandoned' = abandoned \cap inTransaction'
        /\ UNCHANGED <<held, s_threadedHandle, database, rows, mine, returned,
                       m_configs, configs>>
    BY <1>10 DEF Close, Pool!Seal, Goto
  <2>2. inTransaction' = {} /\ abandoned' = {}
    BY <2>1 DEF IInv, TypeOK, Free
  <2>3. \A u \in Threads : s_threadedHandle[u] = NULL
    <3>1. \A u \in Threads : s_threadedHandle[u] # NULL =>
             s_threadedHandle[u] \in held[u]
      BY DEF IInv, TypeOK
    <3> QED
      BY <2>1, <3>1
  <2>4. TypeOK' /\ Pool!TypeOK'
    BY <2>1, <2>2 DEF IInv, TypeOK, Pool!TypeOK
  <2>5. \A u \in Threads : pc'[u] \notin Within
    BY <2>1, <2>3 DEF IInv, TypeOK, Owned, Threaded, Within
  <2>6. Owned'
    BY <2>1, <2>2, <2>3, <2>5 DEF Owned, Threaded, Within
  <2> QED
    BY <2>4, <2>6 DEF IInv
<1>11. ASSUME NEW t \in Threads, Closed(t)
       PROVE  IInv'
  <2>1. /\ pc[t] = "closing"
        /\ pc' = [pc EXCEPT ![t] = "idle"]
        /\ sealedBy' = sealedBy \ {t}
        /\ UNCHANGED <<held, s_threadedHandle, sqliteVars, rows, mine, returned,
                       configVars>>
    BY <1>11 DEF Closed, Pool!Unseal, Goto
  <2>2. TypeOK' /\ Pool!TypeOK'
    BY <2>1 DEF IInv, TypeOK, Pool!TypeOK, sqliteVars, configVars
  <2>3. pc'[t] = "idle" /\ \A u \in Threads \ {t} : pc'[u] = pc[u]
    BY <2>1 DEF IInv, TypeOK
  <2>4. Owned'
    BY <2>1, <2>3 DEF IInv, Owned, Threaded, Free, Within, sqliteVars, configVars
  <2> QED
    BY <2>2, <2>4 DEF IInv
<1> QED
  BY <1>1, <1>2, <1>3, <1>4, <1>5, <1>6, <1>7, <1>8, <1>9, <1>10, <1>11
     DEF Next, RunTransaction, RunEmbeddedTransaction, BeginTransaction,
         RunCommit, RunRollback, CommitTransaction, RollbackTransaction, NotCommitted

(* IInv holds in every state.                                              *)
THEOREM Invariance == Spec => []IInv
  BY InitEstablishes, StepPreserves, PTL DEF Spec

(* An open transaction belongs to a thread that can end it, or was left by *)
(* a thread that ended (database_transaction.cpp:51-89, thread_local.hpp). *)
THEOREM OwnedAlways == Spec => []TransactionOwned
<1>1. IInv => TransactionOwned
  BY DEF IInv, Owned, TransactionOwned
<1> QED
  BY <1>1, Invariance, PTL

(* A closed database has no transaction entry: close waits for the handles *)
(* of open transactions (database.cpp:45-48, handle_pool.cpp:117-126).     *)
THEOREM ClosedIsQuiet == Spec => []ClosedWithoutTransactions
<1>1. IInv => ClosedWithoutTransactions
  BY DEF IInv, Owned, ClosedWithoutTransactions
<1> QED
  BY <1>1, Invariance, PTL

-----------------------------------------------------------------------------

(* Where the rows of a transaction are: with its connection until it ends, *)
(* then in the database or nowhere.                                        *)
ConnectionRows ==
    /\ database \subseteq 1..rows
    /\ \A h \in Handles :
        /\ uncommitted[h] \subseteq 1..rows
        /\ uncommitted[h] \cap database = {}
        /\ h \notin inTransaction => uncommitted[h] = {}

OpenRows(t) == pc[t] \in Within =>
    /\ mine[t] \cap database = {}
    /\ \A h \in Handles \ {s_threadedHandle[t]} : mine[t] \cap uncommitted[h] = {}
    /\ pc[t] \in {"run", "open", "commit"} =>
           mine[t] \subseteq uncommitted[s_threadedHandle[t]]

EndedRows(t) == pc[t] \notin Within =>
    /\ returned[t] = "YES" => mine[t] \subseteq database
    /\ returned[t] \in NotCommitted =>
           /\ mine[t] \cap database = {}
           /\ \A h \in Handles : mine[t] \cap uncommitted[h] = {}

RowsPlaced ==
    /\ ConnectionRows
    /\ \A t \in Threads : mine[t] \subseteq 1..rows /\ OpenRows(t) /\ EndedRows(t)

LEMMA WithinHasEntry ==
    ASSUME IInv
    PROVE  \A t \in Threads : pc[t] \in Within => s_threadedHandle[t] \in Handles
BY DEF IInv, TypeOK, Owned, Threaded

LEMMA FailPlaces ==
    ASSUME IInv, RowsPlaced, NEW h \in inTransaction, SQLiteFail(h)
    PROVE  /\ database' = database
           /\ inTransaction' \subseteq inTransaction
           /\ \A g \in Handles :
                /\ uncommitted'[g] \subseteq uncommitted[g]
                /\ g \notin inTransaction' => uncommitted'[g] = {}
                /\ g # h => uncommitted'[g] = uncommitted[g]
<1>1. CASE UNCHANGED sqliteVars
  BY <1>1 DEF sqliteVars, RowsPlaced, ConnectionRows, OpenRows, EndedRows
<1>2. CASE SQLiteRollback(h)
  <2>1. \A g \in Handles : uncommitted'[g] = IF g = h THEN {} ELSE uncommitted[g]
    BY <1>2 DEF SQLiteRollback, IInv, TypeOK
  <2> QED
    BY <1>2, <2>1
       DEF SQLiteRollback, RowsPlaced, ConnectionRows, OpenRows, EndedRows
<1> QED
  BY <1>1, <1>2 DEF SQLiteFail

LEMMA StepPlacesRows ==
    ASSUME IInv, RowsPlaced, [Next]_vars
    PROVE  RowsPlaced'
<1> USE TransactionAssumption
<1>1. CASE UNCHANGED vars
  BY <1>1 DEF vars, sqliteVars, RowsPlaced, ConnectionRows, OpenRows, EndedRows
<1>2. CASE SetConfig
  BY <1>2
     DEF SetConfig, sqliteVars, RowsPlaced, ConnectionRows, OpenRows, EndedRows
<1>3. ASSUME NEW t \in Threads, NEW where \in {"run", "open"}, Begin(t, where)
      PROVE  RowsPlaced'
  <2>1. /\ pc[t] = "idle"
        /\ mine' = [mine EXCEPT ![t] = {}]
        /\ UNCHANGED <<rows, uncommitted, database>>
        /\ inTransaction \subseteq inTransaction'
    BY <1>3 DEF Begin, SQLiteBegin, sqliteVars
  <2>2. \A u \in Threads \ {t} :
          /\ mine'[u] = mine[u]
          /\ pc'[u] = pc[u]
          /\ returned'[u] = returned[u]
          /\ s_threadedHandle'[u] = s_threadedHandle[u]
    BY <1>3, <2>1 DEF Begin, Goto, End, IInv, TypeOK
  <2>3. mine'[t] = {}
    BY <2>1 DEF IInv, TypeOK
  <2> QED
    BY <2>1, <2>2, <2>3 DEF RowsPlaced, ConnectionRows, OpenRows, EndedRows
<1>4. ASSUME NEW t \in Threads, Write(t)
      PROVE  RowsPlaced'
  <2>1. /\ pc[t] \in {"run", "open"}
        /\ rows' = rows + 1
        /\ rows \in Nat
        /\ UNCHANGED <<s_threadedHandle, returned>>
    BY <1>4 DEF Write, IInv, TypeOK
  <2>2. PICK h \in Handles : h = s_threadedHandle[t] /\ h \in inTransaction
    BY <2>1 DEF IInv, TypeOK, Owned
  <2>3. /\ rows' \notin database
        /\ \A g \in Handles : rows' \notin uncommitted[g]
        /\ \A u \in Threads : rows' \notin mine[u]
        /\ 1..rows \subseteq 1..rows' /\ rows' \in 1..rows'
    BY <2>1 DEF RowsPlaced, ConnectionRows, OpenRows, EndedRows
  <2>4. \A u \in Threads \ {t} : s_threadedHandle[u] # h
    BY <2>2, TransactionAssumption DEF IInv, Owned, Threaded
  <2>5. CASE /\ SQLiteWrite(h, rows')
             /\ mine' = [mine EXCEPT ![t] = @ \cup {rows'}]
             /\ UNCHANGED pc
    <3>1. /\ UNCHANGED <<inTransaction, database>>
          /\ uncommitted'[h] = uncommitted[h] \cup {rows'}
          /\ \A g \in Handles \ {h} : uncommitted'[g] = uncommitted[g]
      BY <2>2, <2>5 DEF SQLiteWrite, IInv, TypeOK
    <3>2. /\ mine'[t] = mine[t] \cup {rows'}
          /\ \A u \in Threads \ {t} : mine'[u] = mine[u]
      BY <2>5 DEF IInv, TypeOK
    <3>3. ConnectionRows'
      BY <2>1, <2>2, <2>3, <2>4, <2>5, <3>1, <3>2 DEF RowsPlaced, ConnectionRows
    <3>4. mine'[t] \subseteq 1..rows' /\ OpenRows(t)' /\ EndedRows(t)'
      BY <2>1, <2>2, <2>3, <2>4, <2>5, <3>1, <3>2
         DEF RowsPlaced, ConnectionRows, OpenRows, EndedRows, NotCommitted, Within
    <3>5. ASSUME NEW u \in Threads \ {t}
          PROVE  mine'[u] \subseteq 1..rows' /\ OpenRows(u)' /\ EndedRows(u)'
      BY WithinHasEntry, <2>1, <2>2, <2>3, <2>4, <2>5, <3>1, <3>2
         DEF RowsPlaced, ConnectionRows, OpenRows, EndedRows, NotCommitted, Within
    <3> QED
      BY <3>3, <3>4, <3>5 DEF RowsPlaced
  <2>6. CASE /\ SQLiteFail(h)
             /\ Goto(t, IF pc[t] = "run" THEN "rollback" ELSE "failed")
             /\ UNCHANGED mine
    <3>1. /\ pc'[t] \in {"rollback", "failed"}
          /\ \A u \in Threads \ {t} : pc'[u] = pc[u]
      BY <2>6 DEF Goto, IInv, TypeOK
    <3>2. ConnectionRows'
      BY <2>1, <2>2, <2>3, <2>4, <2>6, <3>1, FailPlaces
         DEF RowsPlaced, ConnectionRows
    <3>3. mine'[t] \subseteq 1..rows' /\ OpenRows(t)' /\ EndedRows(t)'
      BY <2>1, <2>2, <2>3, <2>4, <2>6, <3>1, FailPlaces
         DEF RowsPlaced, ConnectionRows, OpenRows, EndedRows, NotCommitted, Within
    <3>4. ASSUME NEW u \in Threads \ {t}
          PROVE  mine'[u] \subseteq 1..rows' /\ OpenRows(u)' /\ EndedRows(u)'
      BY WithinHasEntry, <2>1, <2>2, <2>3, <2>4, <2>6, <3>1, FailPlaces
         DEF RowsPlaced, ConnectionRows, OpenRows, EndedRows, NotCommitted, Within
    <3> QED
      BY <3>2, <3>3, <3>4 DEF RowsPlaced
  <2> QED
    BY <1>4, <2>2, <2>5, <2>6 DEF Write
<1>5. ASSUME NEW t \in Threads, WriteAlone(t)
      PROVE  RowsPlaced'
  <2>1. PICK h \in Handles : FlowOutNew(t, h) /\ SQLiteWrite(h, rows')
    BY <1>5 DEF WriteAlone
  <2>2. /\ rows' = rows + 1
        /\ rows \in Nat
        /\ UNCHANGED <<s_threadedHandle, mine, pc, returned, inTransaction>>
    BY <1>5, <2>1 DEF WriteAlone, SQLiteWrite, IInv, TypeOK
  <2>3. /\ rows' \notin database
        /\ \A g \in Handles : rows' \notin uncommitted[g]
        /\ \A u \in Threads : rows' \notin mine[u]
        /\ 1..rows \subseteq 1..rows' /\ rows' \in 1..rows'
    BY <2>2 DEF RowsPlaced, ConnectionRows, OpenRows, EndedRows
  <2>4. CASE /\ h \in inTransaction
             /\ uncommitted' = [uncommitted EXCEPT ![h] = @ \cup {rows'}]
             /\ UNCHANGED database
    <3>1. /\ uncommitted'[h] = uncommitted[h] \cup {rows'}
          /\ \A g \in Handles \ {h} : uncommitted'[g] = uncommitted[g]
      BY <2>4 DEF IInv, TypeOK
    <3> QED
      BY <2>2, <2>3, <2>4, <3>1
         DEF RowsPlaced, ConnectionRows, OpenRows, EndedRows
  <2>5. CASE database' = database \cup {rows'} /\ UNCHANGED uncommitted
    BY <2>2, <2>3, <2>5 DEF RowsPlaced, ConnectionRows, OpenRows, EndedRows
  <2> QED
    BY <2>1, <2>4, <2>5 DEF SQLiteWrite
<1>6. ASSUME NEW t \in Threads, BlockReturns(t)
      PROVE  RowsPlaced'
  <2>1. /\ pc[t] = "run"
        /\ UNCHANGED <<s_threadedHandle, sqliteVars, rows, mine, returned>>
        /\ pc'[t] \in {"commit", "rollback"}
        /\ \A u \in Threads \ {t} : pc'[u] = pc[u]
    BY <1>6 DEF BlockReturns, Goto, IInv, TypeOK
  <2> QED
    BY <2>1
       DEF RowsPlaced, ConnectionRows, OpenRows, EndedRows, NotCommitted, Within,
           sqliteVars
<1>7. ASSUME NEW t \in Threads, NEW onFailure \in {"rollback", "failed"},
             Commit(t, onFailure), pc[t] \in {"commit", "open"}
      PROVE  RowsPlaced'
  <2>1. PICK h \in Handles : h = s_threadedHandle[t] /\ h \in inTransaction
    BY <1>7 DEF IInv, TypeOK, Owned
  <2>2. \A u \in Threads \ {t} : s_threadedHandle[u] # h
    BY <2>1, TransactionAssumption DEF IInv, Owned, Threaded
  <2>3. CASE SQLiteCommit(h) /\ Erase(t) /\ End(t, "YES")
    <3>1. /\ UNCHANGED <<rows, mine>>
          /\ inTransaction' = inTransaction \ {h}
          /\ database' = database \cup uncommitted[h]
          /\ uncommitted'[h] = {}
          /\ \A g \in Handles \ {h} : uncommitted'[g] = uncommitted[g]
      BY <1>7, <2>3 DEF Commit, SQLiteCommit, IInv, TypeOK
    <3>2. /\ pc'[t] = "idle" /\ returned'[t] = "YES"
          /\ \A u \in Threads \ {t} :
               /\ pc'[u] = pc[u]
               /\ returned'[u] = returned[u]
               /\ s_threadedHandle'[u] = s_threadedHandle[u]
      BY <2>3 DEF Erase, End, Goto, IInv, TypeOK
    <3>3. \A g \in Handles \ {h} : uncommitted[g] = {}
      BY <2>1 DEF IInv, Owned, RowsPlaced, ConnectionRows, OpenRows, EndedRows
    <3>4. ConnectionRows'
      BY <1>7, <2>1, <2>2, <3>1, <3>2, <3>3 DEF RowsPlaced, ConnectionRows
    <3>5. mine'[t] \subseteq 1..rows' /\ OpenRows(t)' /\ EndedRows(t)'
      BY <1>7, <2>1, <2>2, <3>1, <3>2, <3>3
         DEF RowsPlaced, ConnectionRows, OpenRows, EndedRows, NotCommitted, Within
    <3>6. ASSUME NEW u \in Threads \ {t}
          PROVE  mine'[u] \subseteq 1..rows' /\ OpenRows(u)' /\ EndedRows(u)'
      BY WithinHasEntry, <1>7, <2>1, <2>2, <3>1, <3>2, <3>3
         DEF RowsPlaced, ConnectionRows, OpenRows, EndedRows, NotCommitted, Within
    <3> QED
      BY <3>4, <3>5, <3>6 DEF RowsPlaced
  <2>4. CASE SQLiteFail(h) /\ Goto(t, onFailure)
             /\ UNCHANGED <<poolVars, s_threadedHandle, returned>>
    <3>1. /\ UNCHANGED <<rows, mine>>
          /\ pc'[t] \in {"rollback", "failed"}
          /\ \A u \in Threads \ {t} : pc'[u] = pc[u]
      BY <1>7, <2>4 DEF Commit, Goto, IInv, TypeOK
    <3>2. ConnectionRows'
      BY <1>7, <2>1, <2>2, <2>4, <3>1, FailPlaces DEF RowsPlaced, ConnectionRows
    <3>3. mine'[t] \subseteq 1..rows' /\ OpenRows(t)' /\ EndedRows(t)'
      BY <1>7, <2>1, <2>2, <2>4, <3>1, FailPlaces
         DEF RowsPlaced, ConnectionRows, OpenRows, EndedRows, NotCommitted, Within
    <3>4. ASSUME NEW u \in Threads \ {t}
          PROVE  mine'[u] \subseteq 1..rows' /\ OpenRows(u)' /\ EndedRows(u)'
      BY WithinHasEntry, <1>7, <2>1, <2>2, <2>4, <3>1, FailPlaces
         DEF RowsPlaced, ConnectionRows, OpenRows, EndedRows, NotCommitted, Within
    <3> QED
      BY <3>2, <3>3, <3>4 DEF RowsPlaced
  <2> QED
    BY <1>7, <2>1, <2>3, <2>4 DEF Commit
<1>8. ASSUME NEW t \in Threads, NEW answer \in NotCommitted, Rollback(t, answer),
             pc[t] \in {"open", "failed", "rollback"}
      PROVE  RowsPlaced'
  <2>1. PICK h \in Handles : h = s_threadedHandle[t]
    <3>1. s_threadedHandle[t] \in Handles
      BY <1>8 DEF IInv, TypeOK, Owned, Threaded, Within
    <3> QED
      BY <3>1
  <2>2. \A u \in Threads \ {t} : s_threadedHandle[u] # h
    BY <2>1, TransactionAssumption DEF IInv, Owned, Threaded
  <2>3. /\ UNCHANGED <<rows, mine, database>>
        /\ inTransaction' = inTransaction \ {h}
        /\ uncommitted'[h] = {}
        /\ \A g \in Handles \ {h} : uncommitted'[g] = uncommitted[g]
    BY <1>8, <2>1 DEF Rollback, SQLiteRollback, IInv, TypeOK
  <2>4. /\ pc'[t] = "idle" /\ returned'[t] \in NotCommitted
        /\ \A u \in Threads \ {t} :
             /\ pc'[u] = pc[u]
             /\ returned'[u] = returned[u]
             /\ s_threadedHandle'[u] = s_threadedHandle[u]
    BY <1>8 DEF Rollback, Erase, End, Goto, IInv, TypeOK
  <2>5. ConnectionRows'
    BY <1>8, <2>1, <2>2, <2>3, <2>4 DEF RowsPlaced, ConnectionRows
  <2>6. mine'[t] \subseteq 1..rows' /\ OpenRows(t)' /\ EndedRows(t)'
    BY <1>8, <2>1, <2>2, <2>3, <2>4
       DEF RowsPlaced, ConnectionRows, OpenRows, EndedRows, NotCommitted, Within
  <2>7. ASSUME NEW u \in Threads \ {t}
        PROVE  mine'[u] \subseteq 1..rows' /\ OpenRows(u)' /\ EndedRows(u)'
    BY WithinHasEntry, <1>8, <2>1, <2>2, <2>3, <2>4
       DEF RowsPlaced, ConnectionRows, OpenRows, EndedRows, NotCommitted, Within
  <2> QED
    BY <2>5, <2>6, <2>7 DEF RowsPlaced
<1>9. ASSUME NEW t \in Threads, ThreadExit(t)
      PROVE  RowsPlaced'
  <2>1. /\ UNCHANGED <<sqliteVars, rows>>
        /\ mine'[t] = {}
        /\ pc'[t] = "idle" /\ returned'[t] = "nothing"
        /\ \A u \in Threads \ {t} :
             /\ mine'[u] = mine[u]
             /\ pc'[u] = pc[u]
             /\ returned'[u] = returned[u]
             /\ s_threadedHandle'[u] = s_threadedHandle[u]
    BY <1>9 DEF ThreadExit, Erase, End, Goto, IInv, TypeOK
  <2> QED
    BY <2>1
       DEF RowsPlaced, ConnectionRows, OpenRows, EndedRows, NotCommitted, Within,
           sqliteVars
<1>10. ASSUME NEW t \in Threads, Close(t)
       PROVE  RowsPlaced'
  <2>1. /\ pc[t] = "idle" /\ pc'[t] = "closing"
        /\ \A u \in Threads \ {t} : pc'[u] = pc[u]
        /\ UNCHANGED <<s_threadedHandle, database, rows, mine, returned>>
    BY <1>10 DEF Close, Goto, IInv, TypeOK
  <2>2. \A h \in Handles : uncommitted'[h] = {}
    BY <1>10 DEF Close, Pool!Seal, Free
  <2>3. \A u \in Threads : pc[u] \notin Within
    <3>1. \A u \in Threads : s_threadedHandle[u] # NULL =>
             s_threadedHandle[u] \in held[u]
      BY DEF IInv, TypeOK
    <3> QED
      BY <1>10, <3>1 DEF Close, Pool!Seal, IInv, Owned, Threaded
  <2> QED
    BY <2>1, <2>2, <2>3
       DEF RowsPlaced, ConnectionRows, OpenRows, EndedRows, NotCommitted, Within
<1>11. ASSUME NEW t \in Threads, Closed(t)
       PROVE  RowsPlaced'
  <2>1. /\ pc[t] = "closing" /\ pc'[t] = "idle"
        /\ \A u \in Threads \ {t} : pc'[u] = pc[u]
        /\ UNCHANGED <<s_threadedHandle, sqliteVars, rows, mine, returned>>
    BY <1>11 DEF Closed, Goto, IInv, TypeOK
  <2> QED
    BY <2>1
       DEF RowsPlaced, ConnectionRows, OpenRows, EndedRows, NotCommitted, Within,
           sqliteVars
<1> QED
  BY <1>1, <1>2, <1>3, <1>4, <1>5, <1>6, <1>7, <1>8, <1>9, <1>10, <1>11
     DEF Next, RunTransaction, RunEmbeddedTransaction, BeginTransaction,
         RunCommit, RunRollback, CommitTransaction, RollbackTransaction, NotCommitted

(* YES: every row of the transaction is in the database; NO, or rolled     *)
(* back: none is (WCTDatabase+Transaction.h), also if SQLite has ended the *)
(* transaction.                                                            *)
THEOREM AnswersTrue == Spec => []AllOrNothing
<1>1. Init => RowsPlaced
  BY DEF Init, RowsPlaced, ConnectionRows, OpenRows, EndedRows, NotCommitted, Within
<1>2. IInv /\ RowsPlaced /\ [Next]_vars => RowsPlaced'
  BY StepPlacesRows
<1>3. RowsPlaced => AllOrNothing
  BY DEF RowsPlaced, ConnectionRows, OpenRows, EndedRows, AllOrNothing, NotCommitted, Within
<1> QED
  BY <1>1, <1>2, <1>3, Invariance, PTL DEF Spec

=============================================================================
