# Models of DJMoudlePersonal

DJMoudlePersonal is a small iOS pod with an example application. Its own code is
one screen; what carries logic is what it is built on: **DJBase** (the base pod
of the same author: network requests, base controllers, utilities) and **WCDB**
(the Objective-C/C++ database layer, in `Example/Pods/WCDB`, and the SQLite that
comes with it, in `Example/Pods/WCDBOptimizedSQLCipher`, whose locks WCDB has
rewritten). This directory holds TLA+ models of the parts of both where order, concurrency and failure
matter, TLC configurations that check them, and TLAPS proofs.

Paths below are relative to `src/Example/Pods/WCDB/objc/WCDB/` for WCDB, to
`src/Example/Pods/WCDBOptimizedSQLCipher/src/` for its SQLite (`wal.c`, `pager.c`,
`os_unix.c`, `os_wcdb.c`) and to `src/Example/Pods/DJBase/DJBase/Classes/` for
DJBase.

1. [Inventory](#1-inventory)
2. [Modules and the code](#2-modules-and-the-code)
3. [Runs](#3-runs)
4. [Disagreements between code and documentation](#4-disagreements-between-code-and-documentation)
5. [Bounds](#5-bounds)
6. [Fairness](#6-fairness)
7. [Proofs](#7-proofs)
8. [Not modelled](#8-not-modelled)
9. [Plan](#9-plan)

## 1. Inventory

### WCDB

A `WCTDatabase` is an Objective-C shell around a C++ `Database`, and a
`Database` is little more than a counted reference to the `HandlePool` of its
path. Everything an application does flows a handle out of the pool, uses it and
lets it flow back, from whatever thread the application likes.

| component | state | operations | interacts with | what is hard | what makes it correct |
|---|---|---|---|---|---|
| `RWLock` (`util/rwlock.cpp`) | `m_reader`, `m_writer`, `m_pending`, one mutex, one condition | `lockRead`, `unlockRead`, `tryLockRead`, `lockWrite`, `unlockWrite`, `tryLockWrite` | the pool | one condition for readers and writers, spurious wake-ups, writers announced before they wait, try-locks that pass them | a writer is alone, counters are exact, no wake-up is lost, an announced writer gets in |
| `HandlePool` (`core/handle_pool.cpp`, `util/concurrent_list.hpp`, `util/recyclable.hpp`) | free list, `m_aliveHandleCount`, the lock, the configuration list | `flowOut`, `flowBack`, `fillOne`, `purgeFreeHandles`, `drain`, `blockade`, `unblockade`, `setConfig` | lock, configs, SQLite; called by `Database` | the list, the counter and the lock move at different moments; a refused handle outlives the lock; configs fail half-way | one user for a connection, an exact counter, nothing is out while `onClosed` runs, `close` returns |
| pool registry (`HandlePool::GetPool`) | `s_pools`: path → pool and count; `s_mutex`; the thread-local table of connections | `GetPool` by path and by tag, the recycler, `setTag`, copies of a `Recyclable`, `PurgeFreeHandlesInAllPool` | `Database`, `Transaction` | the count is on leases, leases are shared by copies, a look-up by tag works on a copy, a connection has a raw pointer to its pool | one core for a path, an entry lives as long as its leases, a connection comes home |
| configs (`core/config.cpp`, `core/database_config.cpp`) | a copy-on-write list, what a connection has run | two `setConfig`, the setters made of them, `invoke` | pool | sorted insertion, replacement by name, pairs of sets that belong together, no lock around copy and assign | sorted, one entry a name, no config lost, FULL and the checkpoint hook exclude each other |
| database transactions (`core/database_transaction.cpp`, `core/core_base.cpp`) | thread-local table of handles by path | `begin`, `commit`, `rollback`, `runTransaction`, `runEmbeddedTransaction`, `exec`; a thread ends | pool, SQLite | COMMIT that fails, transactions SQLite ends by itself, `close` meanwhile, a thread that ends inside one | the answer tells what is in the database, no connection goes back inside a transaction |
| `Transaction` object (`core/transaction.cpp`, `interface/transaction/WCTTransaction.mm`) | one handle, `m_mutex`, `m_isInTransaction` | the same, and the destructor | pool, SQLite, `@synchronized` | a flag beside the state of SQLite, two locks, reads and writes outside one of them | the flag covers the state, all or nothing, the handle goes back clean |
| checkpoint queue (`util/timed_queue.hpp`, `core/database_config.cpp:209-224`) | list and map of elements, mutex, condition | `reQueue` (commit hook), `waitUntilExpired` (checkpoint thread) | every database with the hook | iterators kept in a map, clock read before the list, sleeping for an element that moves | list and map agree, no checkpoint too early, each one eventually |
| file operations (`util/file.cpp`, `core/database_file.cpp`) | the file system | `moveFiles`, `removeFiles`, `getFilesSize` | blockaded or closed database | three system calls a file, failure and crash at any of them, retries | no file without a name, the database whole somewhere, a true answer |
| write-ahead log (`wal.c`, `pager.c`) | log and database file, wal-index (header, `nBackfill`, read marks), locks; each connection's copy of the header, read lock and page cache | begin and end of read and write transactions, frames, commit, rollback, restart of the log, passive checkpoint, recovery | connections of the pool, checkpoint thread | no step is under one lock: a header is read, a mark chosen, locked and checked again while others commit, copy and restart; power is lost between two syncs | a transaction sees one committed version, no cache is stale, a crash gives back a committed version no older than the last durable one |
| shared-memory locks (`os_unix.c`, `os_wcdb.c`, `queue.c`) | masks of each connection, a queue of those who wait, a condition for each thread | `unixShmLock`, `WCDBOsShmWait`, `WCDBOsShmTrySignal`, timeout, `unixShmUnmap` | log; threads of the application, the main thread first | entries that outlive their wait, the first of the queue in everybody's way, a deadlock test on the first only | siblings never conflict, a sleeper is woken, the queue is empty in the end |
| handles, statements, errors, traces, winq, ORM, tokenizers | none the above depends on | thin wrappers of sqlite3, SQL text, binding, splitting | | | (not modelled, see 8) |

### DJBase and the application

| component | state | operations | interacts with | what is hard | what makes it correct |
|---|---|---|---|---|---|
| requests (`Network/UIView+APPViewRequest.m`, `AFNManager.m`, `AFNConfig.m`) | the one session manager and its serializer, the HUD of the window, the network indicator, `afn_showHud` of each view | GET, POST, getUrl, postUrl, Download, and their completions | AFNetworking, MBProgressHUD, `NSUserDefaults`, controllers | overlapping requests on one HUD, views that go, every way a request ends | HUD and indicator go when the last request is over, a request carries the stored cookie |
| `BaseViewController`, `BaseNavigationController` | navigation stack, flags | appear, disappear, back button, refresh | requests, MJRefresh | disappearing while requests are in flight; presented and pushed screens | own requests are cancelled, back leaves the screen it is on |
| tab bar (`Base/View/TabBar`) | selected index, hidden, badges | select, hide, show | controllers | hiding twice while animating | the bar is what was asked last |
| `WCDBOperation` (`Utils/DataBase`) | a `WCTDatabase` | create, close in `dealloc` | WCDB | `close` closes the path for everybody | |
| update check, logger, notification centre, HUD tips, categories, embedded third-party views | none, or only their own | pure conversions, wrappers, layout | | | |
| application shell (`DJMoudlePersonal/`) | none | shows one screen | DJBase | | |
| vendored pods | | | | | |

`PROJECT.json` lists every component with its status, and every hazard at its
line.

## 2. Modules and the code

State variables carry the names of the fields they stand for, actions those of
the functions. `pc[t]` says where thread `t` is in a function when that
function is more than one step. A module that needs a component it is not about
takes the abstract specification of it.

    AbstractRWLock  <--implements--  RWLock
          ^ steps of
      HandlePool  --implements-->  AbstractPool
                                        ^ steps of
                                 DatabaseTransaction
      Wal  --implements-->  AbstractSnapshots
      Configs   PoolRegistry   Transaction   TimedQueue   FileMove   Requests   ShmLocks

What is proved of `HandlePool`, `PoolRegistry`, `DatabaseTransaction`, `Transaction` and
`Wal` is in the module of that name and `_proof`, which extends it. The other six are
shorter and their proofs are in pairs, `RWLock_ShmLocks_proof`, `Configs_TimedQueue_proof` and
`FileMove_Requests_proof`, each of which extends both modules and proves first of one, then of
the other. The two of a pair have nothing to do with each other; that is why `ShmLocks`,
`TimedQueue` and `Requests` call their specification `ShmSpec`, `QueueSpec` and `NetSpec`
(and `ShmInit`, `QueueNext`, `NetTypeOK` and so on), where the others say `Spec`.

* **AbstractRWLock** – three counters and the conditions under which each moves,
  with weak fairness for a writer that has announced itself. The lock has no
  owner, as in the code: it counts.
* **RWLock** – the lock with its threads: `LockRead` is a call up to its first
  `wait`, `ReadWake` one more turn of its loop, and so for writers. `waitSet` is
  the threads asleep on the condition; `NotifyAll` empties it; `SpuriousWake` takes
  any thread out of it. Each method is one step up to `wait`, because it has the mutex.
* **HandlePool** – a step is one call of the lock, of the free list, or one
  access of the atomic counter. `wrap`, `size`, `inserted` are the locals of the
  C++ functions, since what they still refer to is still open (`Open`). A connection
  that is generated gets a name no open one has (`NewHandle`, by `CHOOSE`). `Accounted`
  is what the counter should be, as sets of what is in flight: handles out, in
  `invoke`, on their way to be closed, taken off the list and not yet subtracted.
  `HandlePool` takes the lock's steps from `AbstractRWLock`.
* **AbstractPool** – what the pool promises its users: a handle has one holder,
  and while the pool is sealed (closing or blockaded) nothing is out. The
  refinement maps `sealedBy` to the threads past `lockWrite` (`Sealing`).
* **Configs** – lists of `<<name, config, order>>`; `Copy` and `Assign` are two
  steps because `setConfig` has no lock. A config is what it leaves on a
  connection: synchronous level, checkpoint hook, nothing else. `Invoke` says what a run
  through the list leaves: the level of the last config that sets one, and the hook if any
  config sets it. A set without an order is a `setConfig` with `NoOrder`. Whether a connection
  must run the list again is asked of the pointer to the list (`config.cpp:104`), not of what is in
  it: `ran` falls with every `Assign`. `Names` may have names of
  the library's own configs, which a set overwrites, but for those whose effect on the
  connection is kept (`KeptNames`).
* **PoolRegistry** – every step is under `s_mutex`. A *lease* is a `Recyclable`;
  holders (databases, transactions) have copies of one. `threaded` is the
  thread-local table, with the pool each connection points to, which may be gone;
  `purging` is the list of pointers `PurgeFreeHandlesInAllPool` works through. Two
  history variables: `byTag`, true once a look-up by tag has found a pool, and
  `abandoned`, the transactions whose path was closed under them. Which name a new
  pool or lease gets is fixed by `CHOOSE`, and what is destroyed loses its fields
  (`Destroy`), so that the instance is small.
* **DatabaseTransaction** – threads over `AbstractPool`; the thread-local table
  is `s_threadedHandle`. Of SQLite it keeps which connections have a transaction
  and the rows written in it; statements fail, and may end the transaction
  (`SQLiteFail` with `AutoRollback`). `runTransaction` that rolls back answers NO;
  `rollbackTransaction` answers what ROLLBACK said, which fails when SQLite has ended the
  transaction before. After a write that failed the thread goes on to commit or rollback and
  writes no more in that transaction. `ThreadExit` deletes the table of a thread,
  and its connection goes back as it is.
* **Transaction** – one object, `m_mutex` and the monitor of
  `WCTTransaction.mm` around parts of it. Any statement may fail and take the transaction with
  it, any thread may write, and a thread that began nothing may commit or roll back
  (`EndByAnother`). Three history variables, which no step reads: `written`, the rows anybody
  wrote during the last transaction of a thread, since they all go through the one
  handle; `alone`, the rows written while the connection had no transaction; `interrupted`,
  that the transaction of a thread was ended by somebody else or by SQLite.
* **TimedQueue** – `m_list`, and `m_map`, which holds for a key the element its
  iterator points to, or `End` (`m_list.end()`); `Erased` is the list without it;
  `waitUntilExpired` in its four parts: enter and wait, read the clock, look at
  the back, sleep.
* **AbstractSnapshots** – what the log promises: a sequence of versions, each
  transaction on one of them, writers only on the newest, a crash that loses none
  that was made durable.
* **Wal** – the steps of `walTryBeginRead` in the order of the code (`Decide`,
  `Lock0`, `Check0`, `Pick`, `Raise`, `LockMark`, `Check`), those of a writer and
  those of `walCheckpoint`, each with the one access of the wal-index it makes. (`CkptScan` has
  two: it looks at a read mark, and where the mark is in the way takes its lock and writes it.
  A mark moves in between only by a reader, who holds its lock and then is in the way; if he
  is gone again, the mark is nobody's and is set as before.)
  `hdr`, `rd`, `minFrame` are the fields of `struct Wal`, `cache` is the page cache as a
  whole. A frame is page, content and commit mark; the content is the number of the
  transaction that wrote it. `synced` and `dirty` say what a loss of power may leave. The
  refinement maps `versions` to `history`, which grows when the header is published,
  and a view to what a connection reads through the log.
* **ShmLocks** – `unixShmLock` has a mutex, so a call is a step up to
  `pthreadCondWait`. An entry stays in the queue when its wait times out. Who takes
  which lock, and who never waits (a checkpoint, and a reader that changes a read mark,
  `Raise`), is as in `wal.c`; three kinds of calls are left out (8). What
  `WCDBOsShmWait` reads of a file that was closed meanwhile is a choice (`junk`).
  `TrySignal` says which prefix of the queue goes: up to the first entry that cannot.
* **FileMove** – which of the five files of a database has a name in the source
  and in the destination, and whose file that is; `access`, `unlink` and `link` are
  steps that may fail; `Crash` may happen between any two and the next call begins
  over.
* **Requests** – everything runs on the main thread but the network, so a step is
  one handler of the main thread or one step of a task: `flying`, `delegate` (its
  callback waits in `operationQueue`), `posted` (its completion waits in the main
  queue), or one of the ends. GET, the three POSTs, `getUrl` and `postUrl` are one
  kind of request, since they differ in address and body; Download is another.
  `missed` is history: the requests that went without the stored cookie since the application
  last changed the serializer (`InitWithHost`, to a new one or to one used before).

Definitions called *Slip* in a comment are plausible mistakes in the line they
stand beside (a dropped guard, a missing reset). No specification uses them; they
are kept to see that the properties notice.

## 3. Runs

Each run is an `MC…` module with a configuration.

| run | configuration | what it checks | what it shows |
|---|---|---|---|
| `rwlock` | `MCRWLock.cfg` | `TypeOK`, `Counted`, `Exclusion`, `NoLostWakeup`, `PendingWriterServed`, `ImplementsAbstract` | The lock is correct and live for announced writers, try-locks and spurious wake-ups included, and is an `AbstractRWLock`. |
| `handle_pool` | `MCHandlePool.cfg` | `SoleUse`, `AliveExact`, `OnlyReturningOpen`, `CloseReturns`, `ImplementsAbstract` | With configs that change and fail, a connection has one user; the counter is at every instant what is there, corrected by what is in flight and by the handles that refused a config; only a handle on its way back is open in `onClosed`; `close` returns; the pool is an `AbstractPool`. |
| `configs` | `MCConfigs.cfg` | `Sorted`, `SynchronousConsistent`, `LevelAsConfigured`, `NamedKeepsOthers` | Whatever setters are called the list is sorted with one entry a name; the setters of the library, which set without an order, lose no other config; FULL and the hook exclude each other; a connection has the level asked for. |
| `pool_registry` | `MCPoolRegistry.cfg` | `ReferencesCounted`, `NeverOverCounted`, `HandleHome` | Opened by path there is one core a path and the count is the number of leases; opened by tag an entry is still never counted too high, so none leaks; the connection of a transaction goes back to the pool of its path unless the path was closed in between. |
| `database_transaction` | `MCDatabaseTransaction.cfg` | `AllOrNothing`, `TransactionOwned`, `ClosedWithoutTransactions` | The answer of a transaction tells what is in the database, COMMIT failing and SQLite rolling back included; no connection goes back to the pool inside one but that of a thread that ended; `close` waits. |
| `transaction` | `MCTransaction.cfg` | `FlagCovers`, `AllOrNothing`, `ReturnedClean` | The flag never misses an open transaction, so the destructor always ends it. YES means that every row written meanwhile is in the database, NO that none is but those written after SQLite had ended the transaction by itself. |
| `timed_queue` | `MCTimedQueue.cfg` | `MapMatchesList`, `OldestLast`, `LeftAlone`, `Checkpointed` | The iterators in the map stay valid, `back()` is never called on an empty list, a database is checkpointed only when left alone for the delay, and then is. |
| `file_move` | `MCFileMove.cfg` | `NothingLost`, `WholeInOneCall`, `AnswerTrue` | Whatever link and unlink do and wherever the process dies, as long as `access` tells the truth, every file keeps a name; as long as one call did it the database is whole in one directory; the answer is true. |
| `requests` | `MCRequests.cfg` | `Settled`, `CookieMissedOnce`, `HudGoes` | Overlapping requests leave HUD and indicator off when the last is over, except after the ends `KeepsHud` and `KeepsIndicator` name, which are all there are; after a change of the serializer at most one request goes without the stored cookie. |
| `wal` | `MCWal.cfg` | `CacheFresh`, `Recoverable`, `ImplementsAbstract` | Whatever two connections read, write, spill, roll back, restart and checkpoint, what a page cache answers is what the files hold, a loss of power at any step gives back a committed content no older than the last durable one, and the log is an `AbstractSnapshots`. |
| `wal_reset` | `MCWalReset.cfg` | `BackfillWithinLog` (violated) | See 4. |
| `shm_locks` | `MCShmLocks.cfg` | `ShmTypeOK`, `PurgeEnds`, `SleepEnds` | Two siblings never hold conflicting locks; when nobody has a lock nobody is left in the queue, so that closing the last file ends; who sleeps is woken without the timeout. |

Some properties need a second look.

* `AliveExact` counts in `refused` the handles that were dropped because they
  refused a config: `flowOut` does not count them down, so that `IsOpenedAccurate`
  does not hold (4).
* `ReferencesCounted` and `HandleHome` have the antecedent `~byTag`. The run
  reaches plenty of states on both sides of it; what holds past it is
  `NeverOverCounted`.
* `HandleHome` excludes the transactions in `abandoned`. For those the pool may be
  gone (`MCPoolRegistryHandle`).
* `TransactionOwned` excludes the connections of threads that ended inside a
  transaction; `MCDatabaseTransactionExit` shows what becomes of those.
* The type invariant of a module is a conjunct of its first property: `Sorted`,
  `ReferencesCounted`, `TransactionOwned`, `FlagCovers`, `MapMatchesList`, `SoleUse`,
  `Settled`, `CacheFresh`. That of `Wal` says of the locks what `wal.c` asserts, and `ShmTypeOK`
  that no two connections hold locks that conflict.
* `wal` assumes `HeaderFresh`: no writer restarts the log between the two moments a
  checkpoint reads the wal-index. `wal_reset` drops the assumption, and the log goes
  wrong; so everything `wal` shows is shown of the log as it is but for that window.
* `Recoverable` is about every log prefix and every page content a loss of power may
  leave, in every state, not only where the model takes a `Crash`.
* `KeepsHud` in `Settled` and `HudGoes` lists the ends after which the code does
  leave the HUD on the window: a download that succeeds, an empty body, a view
  that is gone, a callback `cancelAllOperations` dropped, and an `afn_showHud`
  that was changed while the request was under way. The property says that
  there is no other.
* `CookieMissedOnce` is about the replaced serializer: `networkManager` sets the cookie of
  the one the manager has, and then the request installs the configured one
  (`AFNManager.m:39`, `:87`). The first request after the change goes with whatever cookie
  the new one has, which may be an old one; the property says that it is one request, also
  when a screen disappears in between (which sets the cookie, too) or a download is the
  first to install the serializer.
* `AllOrNothing` of `Transaction` is what is left of "return NO to rollback transaction"
  (`WCTTransaction.h:85`) when SQLite may end a transaction by itself: the rows written
  afterwards stay (`alone`). `NoLeavesNothing`, the sentence without that exception, is
  violated (4). Of calls by hand it speaks only where the thread that began is the one
  that ended (`~interrupted`).
* `SynchronousConsistent` is said of a list no setter is at work on. A handle that flows
  out between the two changes of `setSynchronousFull` runs FULL and the hook.
* `NeverOverCounted` is one side only. With look-ups by tag an entry may be counted too
  low, and the core is then not shared (`MCPoolRegistryShared`).
* Of the ends `KeepsHud` names nothing is promised: that the code leaves HUD or
  indicator on after them is what it does.

## 4. Disagreements between code and documentation

One is a run, `wal_reset`: `sqlite3WalCheckpoint` reads the header of the wal-index
with no lock but CKPT (`wal.c:3285`), and `walCheckpoint` then compares `nBackfill`
with the length in that copy (`wal.c:1760`) and copies up to it. A writer that ignores
a log that is wholly copied may restart it in between (`wal.c:2805`), since nobody has a
read lock above 0. `nBackfill` ends up as the old length over the new, shorter log,
whose frames then count as copied; `wal.c:329` says "The nBackfill number is never
greater than WalIndexHdr.mxFrame." The window needs a second checkpoint to have
copied the whole log just before.

More were met while modelling. Each has a configuration of its own that is not
one of the regular runs, or is found by the regular one with the property added (and
the constant changed as shown); TLC finds the counterexample in seconds, e.g.
`tlc -config MCConfigsRace.cfg MCConfigs`; *with* a property stands for that
property in the place of those of the configuration. Two of them in more words:

* `core/handle_pool.cpp:187` gives the read lock up before a handle the full free
  list refused is destroyed, so `close` may run its block while that connection
  is open; `WCTDatabase+Database.h:86` promises "this method can make sure
  database is closed in the "onClosed" block".
* `BaseViewController.m:60` cancels the operations of the session manager's
  `operationQueue`, which are delegate callbacks of every screen
  (`AFURLSessionManager.h:99`), and not tasks; the comment at `:59` says it
  cancels the network requests of the current controller.

| configuration | property violated | what the code does | what is said |
|---|---|---|---|
| `MCHandlePool` with it, `SafetySpec`, `Threads = Users = {u1, u2}`, `Closers = {u1}`, `MaxConcurrency = 1`, `MaxConfigs = 0`, `ConfigMayFail = FALSE` | `ClosedInOnClosed` | see above (`handle_pool.cpp:187`) | `WCTDatabase+Database.h:86` |
| `MCRequests` with it, `MaxSerializers = 0` | `CancelledOnDisappear` | see above (`BaseViewController.m:60`) | `BaseViewController.m:59` |
| `MCHandlePool` with it | `IsOpenedAccurate` | a pooled handle that refuses a new config is dropped without counting down (`handle_pool.cpp:178`), so `isOpened` stays YES | `WCTDatabase+Database.h:79` |
| `MCHandlePoolBlockade` | `CloseReturns` | `close` between `blockade` and `unblockade` waits for its own lock (`handle_pool.cpp:119`) | `WCTDatabase+Database.h:91,103-107` |
| `MCHandlePoolNested` | `CloseReturns` | a thread with a handle asks for another while `close` is pending; both wait (`handle_pool.cpp:143`) | `WCTDatabase+Database.h:89` |
| `MCConfigsDropped` | `OthersKept` | a set with an order takes the place of the first entry with a greater order, whatever its name, and that entry is not in the new list (`config.cpp:45`) | `config.hpp:41`, `WCTDatabase+Core.h:88-90` |
| `MCConfigsRace` | `OthersKept` | two threads copy and assign the list without a lock; one set is undone (`config.cpp:74`) | `config.hpp:41` |
| `MCConfigs` with it, `Names = Orders = {}`, `MaxCalls = 1` | `HookAsConfigured` | `setSynchronousFull` takes the config away, and connections that have run it keep the hook (`database_config.cpp:312`) | `WCTDatabase+Core.h:107` |
| `MCConfigs` with it | `NamedIsIntMax` | a set without an order keeps the order the name had (`config.cpp:67`) | `WCTDatabase+Core.h:99` |
| `MCPoolRegistryShared` | `OneCorePerPath` | `GetPool(tag)` counts on a copy of the entry (`handle_pool.cpp:62`); the entry goes too early and a second core is made | `WCTDatabase+Database.h:43` |
| `MCPoolRegistryHandle` | `PoolOutlivesHandle` | the last database of a path goes inside a transaction; the connection in the thread's table goes back through a pointer to a pool that is gone (`handle_pool.cpp:172`) | nothing is said |
| `MCDatabaseTransactionExit` | `AloneCommitted` | a thread that ends inside a transaction gives its connection back with the transaction open; the next one who writes through it writes into that transaction (`util/thread_local.hpp:41`) | nothing is said |
| `MCShmLocks` with it | `EntriesOpen` | an entry whose wait timed out stays in the queue when its file is closed; the next one to wait reads the masks of that file (`os_wcdb.c:193`) | nothing is said |
| `MCShmLocks` with it | `WokenWhenFree` | who waits behind the first of the queue is not woken when only its own lock becomes free (`os_wcdb.c:135`) | nothing is said |
| `MCDatabaseTransaction` with it, `Threads = {u1}`, `Handles = {h1}`, `MaxRows = 1`, `AutoRollback = FALSE`, no symmetry | `ConfigBeforeNextOperation` | inside a transaction the threaded handle does not run a config set meanwhile (`database_transaction.cpp:48`) | `WCTDatabase+Core.h:86` |
| `MCTransactionEmbedded` | `EmbeddedReturns` | `runEmbeddedTransaction` keeps `m_mutex` and calls `runTransaction`, which takes it (`transaction.cpp:104`) | `WCTInsert.h:32` |
| `MCTransaction` with it | `NoLeavesNothing` | SQLite ends a transaction by itself, later rows are written outside one, and the answer is NO with rows committed (`transaction.cpp:97`) | `WCTTransaction.h:85` |
| `MCFileMoveTwice` | `WholeSomewhere` | the second call after a crash removes what the first had linked (`file.cpp:132`) | `WCTDatabase+File.h:37` |
| `MCFileMove`, `AccessMayFail = TRUE` | `NothingLost` | an error of `access(2)` reads as "no such file" (`file.cpp:129`) | `WCTDatabase+File.h:37` |
| `MCFileMove`, `OldInDirectory = TRUE` | `NothingForeign` | files of another database that are already in the directory and have no counterpart stay and become part of the moved one (`file.cpp:129`) | `WCTDatabase+File.h:35` |

`MCHandlePoolLimit` is the one that holds: the limit on handles
(`handle_pool.cpp:146`) can be passed, because the count is compared and written
in two steps under a shared lock, but by no more than the number of other threads
(`AliveBounded`). `MCWalMarks` holds, too: the properties of `wal` with one read mark
for two connections, where all marks are busy, and a third frame in the log.

## 5. Bounds

Every bound is a constant that a comment marks as one, or one of the sets of
model values. For the properties that are proved (7) no bound matters; it does for
what is only model-checked.

| module | bound | why it is enough |
|---|---|---|
| RWLock | 3 threads | a reader, a writer and one that comes between; with 3, two waiters of different kinds sleep at once. |
| HandlePool | 3 threads, two of which take handles and one of which closes and blockades, free list of 1, limit 2, 1 handle a thread, 1 change of configs | list full, empty and refused handles all occur; the limit is reached; a closer meets a reader in every line. `MaxHold = 1` leaves out nested handles, which deadlock (4). |
| Configs | 4 calls, 2 names, one new and one of the library's, orders 0, 1, 3, 9 | below, between, equal to and above the library's own orders; a name set three times and with another in between; a config of the library overwritten and moved. |
| PoolRegistry | 2 paths, 3 holders, 1 thread, 1 tag, 2 pools a path at once | a path with two databases and a transaction; an entry that goes and comes back, with the old pool still shared by tag, pointed to or being purged. |
| Wal | 2 connections that each do everything, 2 pages, 2 read marks, 2 transactions, 2 frames, 1 crash, synchronous FULL and NORMAL | a reader meets a writer and a checkpoint, the same connection checkpoints and then reads; a spilled frame and a commit frame, two commits in one log, a second log after a restart; a version that is copied in part. A crash after a crash starts from a state recovery reaches anyway. `MCWalMarks` has a third frame, so that a log holds a commit and a spill with its commit. |
| ShmLocks | 3 connections, one on the main thread, 2 read locks, queue of 3 | two wait behind a third, for the same and for different locks; an entry outlives its wait and the same thread waits again, before or behind another. For a longer queue `PurgeEnds` is proved (7). |
| DatabaseTransaction | 3 threads, 3 handles, 4 rows, 1 config | two transactions and a closer; a transaction of two rows. |
| Transaction | 3 threads, 4 rows | a block, calls by hand, an embedded insert and rows of other threads on the same object; a transaction SQLite ends with rows before and after. |
| TimedQueue | 2 databases, delay 2, time to 6 | each can be put in again twice while the other expires. |
| FileMove | 3 calls, every set of files at the start | a first call, one after a crash, one after that. |
| Requests | 2 views, 2 requests, 1 cookie, 1 serializer of the application | two requests overlap in every order, of the same and of different screens; a third would find the HUD and the indicator, which are one bit each, as the second left them. `CookieMissedOnce` needs two requests after one change; with more serializers it is proved (7). |

Symmetry is used in runs without liveness only: of threads, and in PoolRegistry of
objects and paths, in Wal of connections. `CHECK_DEADLOCK
FALSE` stands where the system stops by itself: a bound on calls or rows is used
up, or the object is gone.

## 6. Fairness

* **RWLock** – weak fairness of a thread's steps inside the lock: a runnable
  thread runs, and a mutex is handed on. None for beginning an operation. A
  thread that has the lock gives it back, as all callers do.
* **HandlePool** – `WF(Proceed(t))`: an operation that can go on does, a handle is
  given back in the end (it is a local of the caller), a blockade is lifted.
  Nobody is obliged to call.
* **TimedQueue** – the checkpoint thread runs and time passes; no commit is
  obliged to happen.
* **Transaction** – a block returns, and what follows it in `runTransaction` is
  executed (used by `EmbeddedReturns`).
* **ShmLocks** – weak fairness of `EndWrite`, `EndRead`, `Raised`, `CkptRelease` and
  `CkptEnd`: a transaction, a change of a mark and a checkpoint end. None of
  `Timeout`, so that `SleepEnds` is not owed to the ten seconds, and none of beginning anything.
* **Requests** – `timeoutInterval` ends every task; the operation queue and the
  main queue are served.
* Everything else is safety only.

## 7. Proofs

TLC checks the instances of section 5; the theorems below hold for every value of the
constants that the named assumption of the module admits: any threads, connections, files,
pages and bounds. TLC has checked each inductive invariant on an instance before it was proved.

| module | theorem | statement | condition |
|---|---|---|---|
| `RWLock_ShmLocks_proof` | `TypeCorrect`, `CountersExact`, `MutualExclusion`, `NoWakeupLost` | `TypeOK`, `Counted`, `Exclusion`, `NoLostWakeup` of the lock | |
| | `StepsImplementAbstract` | `SafetySpec` implies the initial predicate and `[][…]` of `AbstractRWLock` | |
| | `NoConflict`, `PurgeEndsAlways` | `ShmTypeOK`, `PurgeEnds` of the wal-index locks | |
| `HandlePool_proof` | `SoleUseAlways`, `OnlyReturning`, `AliveAlways` | `SoleUse`, `OnlyReturningOpen`, `AliveExact` | |
| | `Implements` | `SafetySpec => ImplementsAbstract` | |
| `PoolRegistry_proof` | `ReferencesAlwaysCounted`, `NeverOver`, `HandlesGoHome` | `ReferencesCounted`, `NeverOverCounted`, `HandleHome` | |
| `DatabaseTransaction_proof` | `OwnedAlways`, `ClosedIsQuiet`, `AnswersTrue` | `TransactionOwned`, `ClosedWithoutTransactions`, `AllOrNothing` | |
| `Transaction_proof` | `FlagCoversTransaction`, `HandleReturnedClean`, `AnswersTrue` | `FlagCovers`, `ReturnedClean`, `AllOrNothing` | |
| `Configs_TimedQueue_proof` | `SortedAlways`, `LevelAlwaysConfigured` | `Sorted`, `LevelAsConfigured` | |
| | `FullOrHook`, `OneThreadKeepsOthers` | `SynchronousConsistent`, `NamedKeepsOthers` | `Threads = {thread}` |
| | `MapAlwaysMatches`, `OldestAlwaysLast`, `OnlyWhenLeftAlone` | `MapMatchesList`, `OldestLast`, `LeftAlone` | |
| `FileMove_Requests_proof` | `NothingEverLost`, `OneCallWhole`, `AnswersTrue` | `NothingLost`, `WholeInOneCall`, `AnswerTrue` | `~AccessMayFail` |
| | `SettledAlways`, `CookieMissedOnceOnly` | `Settled`, `CookieMissedOnce` | |
| `Wal_proof` | `CacheAlwaysFresh` | `CacheFresh` | `HeaderFresh` |
| | `BackfillAlwaysWithin` | `BackfillWithinLog` | `HeaderFresh` |
| | `DurableAlwaysCounted` | `DurableCounted`: whatever a crash takes of the log beyond `synced`, no durable version is in it | `HeaderFresh` |
| | `AlwaysRecoverable` | `Recoverable` | `HeaderFresh` |
| | `WalImplements` | `Spec => ImplementsAbstract` | `HeaderFresh` |

The three conditions are the ones the passing runs have, too, and each is needed: without it
TLC finds the property violated (4; with two threads, the `MCConfigsRace` of one
lost set violates `NamedKeepsOthers`, and `SynchronousConsistent` when the lost set is one
half of `setSynchronousFull`). `AccessMayFail` is false when `access(2)` is right about a file
that is there, and `HeaderFresh` holds when no log is restarted between the two reads of a
checkpoint. The other theorems need none: `DatabaseTransaction` and `Transaction` are proved
with SQLite ending transactions as it likes.

**What is assumed of the constants.**

* The sets are disjoint where the program cannot confuse what they stand for: `NULL` is no
  thread, connection, pool, lease, answer, config or order; `Nobody` no connection of the
  log; `End` no element of the queue; `None` no view and no cookie; the read locks are
  neither WRITE nor CKPT.
* Bounds are natural numbers, orders of configs `int`s, the delay of the queue positive.
* Threads (`RWLock`, `HandlePool`), objects (`PoolRegistry`) and pages (`Wal`) are finitely
  many. `Threads` in the other modules, paths in `PoolRegistry` and connections in `Wal` and
  `ShmLocks` need not be finite.
* The application sets no config under the names `KeptNames` (`basic`, `synchronous`,
  `checkpoint`). It may (`WCTDatabase+Core.h:36-43`), but their effect is then its own.

**How the proofs go.** For each module there is one inductive invariant (`IInv`, or `ShmInv`,
`CInv`, `QInv` and `RInv` where a proof module has two), one lemma or step for each action,
and under it one for each conjunct the action disturbs. What it has beyond the property is
what the property rests on in the code:

* *RWLock.* `Exclusion` alone is not inductive: the methods test counters, so from a state with
  a thread "reading" and `m_reader` zero a writer would enter. `Counted` (each counter is
  the number of threads at one place of the code) is the bridge, `Alone` the rest.
* *HandlePool.* The lock has no owner, so `Locked` says whose its counts are: `m_reader` is
  the number of `Reads`, one for each handle that is out and one for each thread inside an
  operation, `m_writer` the number of threads that have the pool to themselves
  (`Sealing`). From that follows that nothing is out while someone closes, hence
  `OnlyReturningOpen` and the refinement. `Sole` gives each handle one place; it needs
  `Structured`, which handle a thread can have where in which operation. `NewHandleFree`
  shows by counting that there is always a name left: at most `HardwareConcurrency` handles
  are in the list, `MaxHold` and one more with a thread. `AliveExact` is carried by its own
  induction on top of `IInv` (`AccountedMoves`: what one thread's step does to the count).
* *PoolRegistry.* `Counted` says that every lease is for the pool of the entry of its
  path and that the entry counts it, until a look-up by tag has found something;
  `NeverOverCounted` is what remains after. `DeallocCounts` and `NewLeaseCounts` say how the
  number of leases of a path moves.
* *DatabaseTransaction.* `Owned` is about connections: one entry one handle, a
  transaction is in somebody's entry or abandoned, a sealed pool means no
  entries. `RowsPlaced`, on top of it, is about rows: those of an open transaction are
  with its connection or gone with it, those of an ended one where its answer says.
* *Transaction.* `Clean`: the flag is set where the connection has a transaction, a connection
  without one has no uncommitted rows, and once the object is gone no thread is in a method
  of it. `RowsPlaced` says where the rows of a transaction under way are: with the connection
  as long as nobody interrupted it (`Uninterrupted`), and of a block that SQLite interrupted
  nowhere but with the rows written alone (`BlockInterrupted`), since the monitor keeps
  every other `WCTTransaction` call that begins, commits or rolls back out while the block runs.
  `Answered` says it of a transaction that is over.
* *FileMove.* `Progress`: before `removeOld` all links are there; what is undone is still in
  the source.
* *ShmLocks.* `Placed` ties what a connection holds to what it has begun, and `PurgeEnds`
  carries itself: its first entry is blocked by a lock somebody has.
* *Wal.* Each connection has its part (`ConnOk`): which lock it has where (`LocksOf`), that
  its header is no newer than the wal-index (`HeaderOf`), that a read mark is at most what
  its owner reads and at least what a checkpoint copies (`MarkOf`), what its cache is of
  (`CacheOf`), and which frames a checkpoint is copying (`CheckpointOf`); `IndexOk` says that
  what counts as copied is in the database file and synced in the log, `Durability` what a
  crash may take. `FrameAgree` and `OverAgree` say that two logs with the same frames in a
  range read alike in it; `OverFrom`, that a reader who skips the copied frames misses
  nothing.

  With that, `Recoverable` needs one more invariant, `HistoryOk`: at whatever length a crash
  may leave the log (`MayRemain`: no commit beyond it is synced), what recovery reads through
  it over the database file is a version of `history`, as many versions back as commits are
  lost (`Remains`). The old frames of a log that was restarted and not yet written to
  (`Earlier`) are the one exception: recovery finds them again, and they are all in the
  database file. `CrashRecovers` puts the pages a loss of
  power may leave together with the frames that cover them. The refinement is step by step
  on top of it: `Check0` and `Check` begin a transaction, `EndRead` ends it, the commit frame
  prepares the version `Publish` commits, `CkptSync` hardens and a crash crashes; every other
  step is a stutter (`MapsToNone`). `SeenOk` says what the mapped views are in terms of the
  page caches, so that a step that moves `hdr` or the log need not be followed through
  `FrameOf` again.
* *Configs.* A list is `Good` when it is sorted, has a name once, and each entry is one the
  setters make (`Fits`: which config a name may have, `Placed`: that `basic` is at 2 and
  `synchronous` behind it). `CInv` says that of every list there is, in a copy or on a
  connection; it holds however many threads race, since `Good` is about one list.
  `SetOrderedEdits` and `SetNamedEdits` show that both `setConfig` make a good list of a good
  one, out of its entries and the new one (`EditOf`). *Which* entries are there after a race
  it does not say.
  For one thread `SInv` adds that a copy is fresh (`Fresh`) and how far `setSynchronousFull` is
  (`Place`), from which `FullOrHook` and `OneThreadKeepsOthers` follow.
* *TimedQueue.* `Held`: the map has what the list has and nothing else. `Stamped`: an element
  expires the delay after its key was last put in, so that the one clock read before the
  mutex can only be too old. `Ordered`: the list is sorted by time. `Sleeper`: the thread
  looks only at a list that has something in it; `reQueue` never empties it and nobody else
  takes out.
* *Requests.* `Settled` says nothing while a request is pending, so it is not inductive.
  `RInv` says who a HUD that shows is owed to at any time (`HudOwed`, `IndicatorOwed`), and what
  a pending request will do with it when it is dealt with (`Sent`). For the cookie, `CookieServed`:
  once a request has missed the stored cookie since the last change of the serializer, the
  manager has the configured one, so that the next gets its cookie by `networkManager`.

**Model-checked only.** Every safety property, action property and refinement step of the
passing runs is proved. TLC alone checks liveness (`PendingWriterServed`, `CloseReturns`,
`Checkpointed`, `HudGoes`, `SleepEnds`) and with it the fairness half of RWLock's refinement:
the prover does not reason about `ENABLED`, and so not about fairness.

## 8. Not modelled

* What the checkpoint thread does to a database it opens again: in PoolRegistry it is
  one more object that opens a path, in Wal a connection that checkpoints; that a pool
  it makes has no cipher key is in neither.
* Of the log: FULL, RESTART and TRUNCATE checkpoints (WCDB asks for passive ones
  only), closing the last connection, savepoints, exclusive locking mode, snapshots
  by name, and what makes single accesses safe: hash tables, checksums, the two
  copies of the header.
* Of the locks of the wal-index: the lock of all read marks at once that `walRestartLog`
  takes and may wait for (`wal.c:2815`), the locks of recovery (`wal.c:1118`, `2104`, `2246`),
  which is asked for when the log is opened, and those of snapshots and read-only
  connections. So `SleepEnds` says nothing of a writer that waits to restart the log:
  `WCDBOsShmWait` looks for a deadlock with the first of the queue only, and a
  writer that is not the first may wait for a reader who waits for it, until the ten
  seconds are over. `NoConflict` and `PurgeEnds` are of these calls only, too.
* Of `Wal`: errors of the file system on the way of a checkpoint (`wal.c:1815-1863`).
* Of `DatabaseTransaction`: a begin inside a transaction, a commit or rollback without one,
  and writes of a transaction in which a write has failed; `Transaction` has the last two,
  and a begin while another thread's transaction is open, which fails.
* A serializer that fails to make a request (`AFHTTPSessionManager.m:203-212`, `277-285`):
  its failure is posted to the main queue at once, without the stage `delegate`.
* Of the VFS: `fcntl` locks between processes (an application has its files to itself) and
  the locks of the database file, which in WAL mode are taken once.
* The rest of SQLite: SQL, B-trees, the virtual machine, full text search. It is
  vendored and WCDB has not changed how it works.
* SQL text, binding, ORM macros, error objects, tracing, tokenizers:
  conversions, or external code that the modules use through a handful of external
  operators.
* Configs an application sets under the names `basic`, `synchronous` and `checkpoint`.
* Process-wide traces (`SetGlobalTrace`, `SetGlobalPerformanceTrace`).
* Progress callbacks and reachability of the requests; the HUDs that hide themselves.
* Navigation stack and tab bar, update check, `WCDBOperation`: planned.
* Categories, views, application shell and vendored pods: layout, conversions or
  code of others.

## 9. Plan

Done, in this order: lock, pool, configs, registry, database transactions,
transaction object, checkpoint queue, file moves, requests; proofs of the lock; the
write-ahead log, the locks and wait queue below it, connections that outlive their pool,
threads that end inside a transaction; proofs of what all of these keep true.

What could be modelled beside these:

1. *Checkpoint thread*: the configs of a pool it makes (`database_config.cpp:214-221`),
   as a composition of `PoolRegistry` and `Configs`.
2. *Screens*: navigation stack, presented stacks, back button, tab bar hiding, with
   `Requests` below.
3. *Version compare* of the update check as an operator against a reference order.
