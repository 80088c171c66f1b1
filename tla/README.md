# A TLA+ verification of db2

db2 runs several database *instances* over one set of pages. A central lock
service, GlobalLock, records which instance owns each page; inside an instance
worker threads run YCSB transactions with multi-version concurrency control.
This directory models the parts of that system whose correctness depends on the
order in which threads, instances, messages and failures act, together with the
data structures under them. TLC checks the models on small instances; TLAPS
proves the page ownership protocol, the layout and the index of the table, the
start barrier and the bookkeeping of the worker loop for instances of any size.

The models follow the build as configured: `CC_ALG = MVCC`, `WORKLOAD = YCSB`,
`SHARED_DISK` and `DB2_WITH_NO_CONFLICT` undefined, assertions enabled.

## The system and its parts

| part | source (under `src/`) | module | state of the model |
|---|---|---|---|
| versions of a row | `instance/concurrency_control/row_mvcc.cpp` | `RowMvcc` | modelled |
| transactions on rows, timestamps | `instance/txn/txn.cpp`, `ycsb_txn.cpp`, `thread.cpp`, `manager_instance.cpp`, `common/storage/row_handler.cpp` | `MvccTxn` | all but `ReadRow`, which has no caller |
| page locks of an instance | `common/lock_table/lock_table.cpp` | `PageLock` | all but Lock(S), which has no caller |
| page ownership between instances | `global_lock/global_lock.cpp`, `global_lock_service/brpc/global_lock_service.cpp` | `PageLock` | modelled, with failed and repeated calls |
| obtaining and pinning pages | `GetWritePageLock` in `ycsb_txn.cpp`, `RowHandler::WriteRow` | `PageLock` | modelled |
| rows and pages of two instances together | the sources above | `Cluster` | modelled, without failed calls |
| worker loop, query queue, abort buffer | `instance/thread.cpp`, `instance/benchmarks/query.cpp` | `TxnThread` | modelled |
| page buffer, LRU lists | `common/buffer/` | `Buffer`, `Storage` | modelled |
| loading the table, page layout, index file | `common/workload/ycsb_wl.cpp`, `test/gen_db.cpp`, `common/index/`, `common/storage/tablespace/` | `TableLoad`, `Storage` | all but the JSON form of the table space |
| start-up barrier | `test/main_instance.cpp`, `main_lock_service.cpp`, GlobalLock | `Startup` | modelled, with failed and repeated calls |
| query generation | `instance/benchmarks/ycsb_query.cpp` | `MvccTxn` (an assumption) | partly |
| disk access, shared disk RPC | `common/storage/disk/`, `shared_disk/` | a function in `Storage` | pure I/O |
| libraries | `include/`, `*.pb.cc` | - | not code of this system |

A worker loops in `thread_t::run`: it picks a query, draws a timestamp, calls
`run_txn`, and on abort keeps the query for later. `run_txn` first obtains the
pages it will write (`GetWritePageLock`): pages that are not local are fetched
through GlobalLock, which invalidates them at their owner; then every page is
pinned so that it is not taken away during the transaction. After that the rows
are read and prewritten through their `Row_mvcc`; `finish` installs or withdraws
the prewrites, and an installed version is written to its page by `WriteRow`.

## The modules

**RowMvcc** gives `Row_mvcc` as operators on a record of its fields; each call
of `access` runs under the row's latch, so each operator is one atomic change.
A RowItem is identified by the place it lives in (an entry of `_write_history`,
or `row_`), and its content is the timestamp last stamped into it.

**MvccTxn** runs threads over such rows: `GetNextTs`, `AddTs`, `ReadRequest`,
`PrewriteRequest`, `Wake`, `UseRow`, `ReturnRead`, `CommitWrite`, `UndoPrewrite`,
`Finish`. Whatever happens between two calls of `access` interleaves. A query is
the projection of a real query (16 requests) on the rows of the model; this is
why a write always stamps its row, although the code does so only if a query has
more than one request. `WriteRow` is part of `CommitWrite` here, because the
latch is held throughout; what it does to the page is the subject of PageLock.
`reads` and `writes` are history variables.

**PageLock** follows each worker through `GetWritePageLock`, the remote call,
`LockInvalid` at the owner and `WriteRow`. `lock_mode`, `invalid_req` and
`lock_remoting` are read without the mutex exactly where the code does so; the
mutex `mtx` is a variable only where it is held across several steps (from the
revocation to the end of `LockInvalid`). An assertion that fails stops its
instance (`crashed`). The content of a page is the number of writes in it.
Three history variables record what makes the code lose the content of a page
(together, `Lossy`):

- `overtaken`: a revocation reached an instance whose grant was still on its way;
- `early`: a local thread read the page for a write after mode P was set and
  before the granted content was stored, so that `BufferPut` overwrites the write
  (or the write overwrites the granted content);
- `resent`: the answer to `LockRemote` was lost and the request was sent again.
  GlobalLock has recorded the requester as the owner by then, so it invalidates
  the requester itself and grants it the old content of its own buffer. The page
  is recorded only if the lost content differed from that buffer.

The spin loops assume that a plain field written by one thread is eventually
seen by another, which C++ does not promise for `lock_mode`.

A call that fails stops its caller, because every client ends in
`assert(false)`; a handler that already runs goes on, and the RPC library may
send a request again (`LockRemoteFails`, `InvalidFails`, `Resend`, for the
threads in `Unreliable`).

**Cluster** composes two instances of `MvccTxn` (`A` and `B`), each with rows and
timestamps of its own, with the actions of `PageLock` (`L`) as they are. The page
buffers are shared: the page of A's rows in `MvccTxn` is `buf["A"]` of PageLock.
A transaction enters `GetWritePageLock` before its first request (`RunTxn`), takes
every step of PageLock to fetch and pin its pages, makes its requests while
PageLock has it at `"run"`, and drops the pins at its end (`ReleasePages`). Each
page has one row, so the content of a page is a version of its row. `WriteRow` is
one step, because the row's latch and the pin exclude the other steps at that
page; it fails its assertion, as in the code, if the page is in mode O. `late`
records the pins that were set after the page had been revoked (between the
assertion of `GetWritePageLock` and `AddThread`). What the composition adds is
that `Row_mvcc` keeps its versions when the page of the row leaves the instance,
and that a transaction can wait for prewrites while others wait for its pages.

**TxnThread** is the loop of one worker with the abort buffer, enabled or not
(`_abort_buffer_enable` comes from `g_params`, which only programs that call
`parser()` fill). Threads share nothing of this state, so one is enough.

**TableLoad** loads the rows into pages, row by row, and writes and reads the
index file piece by piece, as `init_table`, `Index::Serialize` and
`Index::DeSerialize` do.

**Buffer** gives the page buffer as operators on a record of its two linked
lists, with the `prev_` and `next_` pointers, and its index.

**Storage** extends both: a table is loaded, opened, warmed, read and written by
threads through `SnapShotReadRow` and `WriteRow`, closed and opened again. A
*setup* says how large the buffer is and how it is called: with the mutex held
throughout, by one thread at a time, or in parallel as `RowHandler` does.
`Close` is `~ManagerInstance`; `main_instance` itself never returns.

**KeyValue** is the abstract specification of Storage: a map from keys to
versions that is opened and closed. The refinement mapping takes the version of
a key from the newest content of the page on which the key belongs.

**Startup** has both `main` functions, the registration of instances at
GlobalLock (several handlers of one registration may run; a handler sets the flag
in one step and answers in a later one), the poll that opens the barrier, and the
failures of these calls. When an instance's own server begins to listen is left
out: before the barrier only the `Test` of GlobalLock's new client calls it, and
nobody looks at the result.

**MCMvccTxn**, **MCPageLock**, **MCStorage**, **MCCluster** define queries,
placements of threads and setups for TLC. Operators named `...Mut` are faulty
variants of the definition that follows them. They are used in no specification:
with one of them in place of its original each property below is violated, which
shows that it depends on that piece of code.

## What is model-checked

| run | checks | bounds |
|---|---|---|
| `MvccOneRow` | `TypeOK HistoryInv PrewriteInv WriterInv WaiterInv NoSkippedWrite NoLostUpdate` | 3 threads, 1 row, 5 transactions, lists of length 2 and 1 |
| `MvccTwoRows` | `HistoryInv NoSkippedWrite NoLostUpdate`, liveness `TxnEnds` | 2 threads, 2 rows, 4 transactions |
| `PageLockLocal` | `TypeOK OneFetch ExclusiveUnlessOvertaken WriterHoldsPage OwnerHasAllWrites` | 2 instances with 2 and 1 workers, page 0, 1 write, the calls of one worker unreliable |
| `PageLockLive` | liveness `InvalidationDone` | 2 instances with 2 and 1 workers, page 0, transactions that abort |
| `Cluster` | `TypeOK OwnerHasLastCommit WriterOwnsPage RowsConsistent NotAllWait`, action property `FirstWriteFresh` | 2 instances with 2 and 1 workers, 2 rows on 2 pages; A starts two transactions, B one |
| `TxnThread` | `TypeOK RoomForAbort QueryConserved QueueNotOverrun`, liveness `KeepsWorking` | 3 slots, 4 commits, penalties up to 2 |
| `Storage` | `TypeOK NoAssertFails RowsFound IndexRead UsedSize ListsAgree`, refinement `ActsAsMap`, liveness `CallsReturn` | 5 rows on 3 pages, pieces of 2 index items, 2 threads, 2 writes, buffers of 2 nodes (locked, serial) and 3 (parallel) |
| `Startup` | `TypeOK BarrierHolds StopsOnlyOnRepeat`, liveness `AllStart` | 3 instances, 2 of them unreliable, 2 deliveries |

*Rows.* `HistoryInv` and `PrewriteInv` relate the counters and pointers of
`Row_mvcc` to its lists; `WriterInv` is what the asserts of W_REQ and XP_REQ
need; `WaiterInv` says that no wakeup is lost. `NoSkippedWrite` and
`NoLostUpdate` are the multi-version order: no write ever commits between a
version and a later reader it was served to, and every write directly follows
the version it copied. The lists start shorter than in the code (4), so that
doubling happens with three threads, and garbage collection and recycling with
two; 5 (4) transactions are what it takes to fill a history while an old
transaction is active. In the code `_his_len` (4) is at least the number of
threads (4), so the history is recycled there and never doubled.

*Pages.* `OneFetch` is the purpose of `lock_remoting` and of GlobalLock's
mutex. Ownership is exclusive unless a grant was overtaken. The owner has every
write, but for the pages in `Lossy`: `OwnerHasAllWrites` says that the code loses
writes in these three races and in no other way, and it is violated when any of
the three is no longer left out. `WriterHoldsPage` holds without exception.
`CHECK_DEADLOCK FALSE` is set because a stopped instance may leave every other
one waiting. The page is page 0 because the `Invalid` handler asserts something
about that page only. One write is what keeps `PageLockLocal` short; with
`MaxWrites = 2` it has 3,005,267 states instead of 851,335 and every property
still holds.

`PageLockLive` leaves the writes out: a pin is dropped after a
bounded number of steps whether or not the transaction writes, and what could
delay an invalidation for ever is the next pin.

*Cluster.* `OwnerHasLastCommit` is `OwnerHasAllWrites` of PageLock with the last
commit of the row for the content: at whatever point of its transactions an
instance loses a page, no commit stays behind. `WriterOwnsPage`: a prewrite keeps
its page however long its transaction waits. Both, and `FirstWriteFresh`, leave
out the races that the history variables name (`overtaken`, `early`, `late`), all
of which occur in the run; calls do not fail here, so `resent` stays empty.
`RowsConsistent` is `PrewriteInv`, `WriterInv` and `WaiterInv` for both instances,
without exception. `NotAllWait`: the workers that
are in transactions never all wait, be it for a page, a pin, a mutex or a
prewrite. A transaction pins all its pages before its first prewrite, so who waits
for a page waits for transactions that already have theirs. It leaves out a
stopped instance and a worker that has `Missed` its page (below). It is a safety
property: under any schedule some transaction can go on, but that each one ends is
checked only within an instance (`TxnEnds` of `MvccTwoRows`). Two workers of A
that write both pages and one of B that writes one of them are the smallest case
in which a cycle through both kinds of waiting could close, and the bounds let page
0 move to the other instance and back.

*Worker.* The query array is never overrun although `get_next_query` does not
check, and the assertion about empty slots holds for any pattern of aborts.

*Storage.* A page has room for exactly two rows and no byte more, as the pages of
the code have (a header of 64 and 204 rows of 80 in 16384 bytes), so the row that
just fits and the one that does not are both met. Five rows fill two pages and
half of a third. The index takes two full pieces and a short one; a last piece
that is full is not met. Two nodes for three pages force evictions in both kinds of
locked call; the parallel calls have a buffer as large as the table, which is what
`config.h` makes it, and never evict (`BufferParallel` has the other case).
`ActsAsMap` covers eviction, warm-up, closing and opening: none of them loses a
write. `RowsFound` and `IndexRead` compare the loaded table with the arithmetic of
the page layout. `CallsReturn` shows that no caller is blocked for ever.

*Start-up.* No worker runs before GlobalLock has a client for every instance,
whatever fails. `StopsOnlyOnRepeat`: the assert of `set_instance_i` stops
GlobalLock only when one registration has two handlers and one of them had set the
flag before the other began; the first need not have answered, so the instance may
still be waiting. `CHECK_DEADLOCK FALSE` is set because `main` ends in an empty
loop and a process that has stopped is not started again.

### Fairness

A thread that can step and is not between transactions steps eventually
(`WF` on the steps of each thread, on the RPC handlers, on the passing of time):
this is what the scheduler of the operating system gives. Starting a transaction
is not fair in the row, page and storage models, and no call need fail.
`WF` suffices for `Lock`, `AddThread` and the latch because they are held for a
bounded number of steps, and for `LockInvalid` because `invalid_req` keeps new
transactions from pinning the page. In Startup the lock service, every `main` up
to its workers and every handler are fair. Cluster has no liveness property and
assumes no fairness.

## Where the code differs from what it says

Each of these runs is expected to end with a counterexample.

| run | property | what happens |
|---|---|---|
| `MvccDirty` | `ReadsStableVersion` (`ISOLATION_LEVEL SERIALIZABLE`, `config.h:46`) | a reader's entry is recycled and overwritten before it has looked at it |
| `PageLockExclusive` | `ExclusiveOwner` (`lock_table.h:18`) | a revocation overtakes the reply that grants the page; two instances end in mode P |
| `BufferParallel` | `RowsFound` (comment `buffer.h:36`) | with a buffer smaller than the table, `BufferPut` writes into a node that was given to another page meanwhile; `config.h` makes the buffer as large as the table |
| `ClusterStale` | `NoUpdateLost` (`ISOLATION_LEVEL SERIALIZABLE`, `config.h:46`) | a page comes back with another instance's write, and the next write builds on the version that `Row_mvcc` kept (`row_mvcc.cpp:131`) |

Four more statements of the source are formulas of the modules without a run of
their own. Named as the only invariant in the configuration given, each is
violated:

| property | statement | configuration |
|---|---|---|
| `ReadsCorrectVersion` | comment `row_mvcc.cpp:254` | `MvccOneRow.cfg`: a read that finds no old version gets the latest one, by a newer writer |
| `AccessPointsIntoRow` | comment `txn.cpp:179` | `MvccDirty.cfg`: a commit deletes `row_` while a reader still points at it |
| `WritePermission` | comment `ycsb_txn.cpp:76` | `PageLockLocal.cfg`: a page is revoked between the test of its mode and `AddThread` |
| `LoserFindsRemoting` | assert `ycsb_txn.cpp:126` | `PageLockLocal.cfg`: the winner releases `lock_remoting` before the loser asserts that it is set |

A worker that spins on the mode of a page another worker fetches
(`ycsb_txn.cpp:127`) can miss it when the page is revoked again before it looks;
nobody fetches it then and it spins on. `Missed` of Cluster names these states.

## What is proved

From the named assumptions on the constants of each model, and for all values of
them:

| module | theorem | states |
|---|---|---|
| `PageLockProofs` | `TypeCorrect` | `Spec => []TypeOK` |
| `PageLockProofs` | `FetchExclusive` | `Spec => []OneFetch` |
| `PageLockProofs` | `OwnershipExclusive` | `Spec => []ExclusiveUnlessOvertaken` |
| `PageLockProofs` | `WriteExclusive` | `Spec => []WriterHoldsPage` |
| `PageLockProofs` | `NoWriteLost` | `Spec => []OwnerHasAllWrites` |
| `StorageProofs` | `FullPages` | `Spec => []UsedSize` |
| `StorageProofs` | `IndexComplete` | `Spec => []IndexRead` |
| `StartupProofs` | `Barrier` | `Spec => []BarrierHolds` |
| `StartupProofs` | `StopsOnRepeat` | `Spec => []StopsOnlyOnRepeat` |
| `TxnThreadProofs` | `AbortHasRoom` | `Spec => []RoomForAbort` |
| `TxnThreadProofs` | `QueriesConserved` | `Spec => []QueryConserved` |
| `TxnThreadProofs` | `QueueBounded` | `Spec => []QueueNotOverrun`, if the macro `ABORT_BUFFER_ENABLE` is set |

The page theorems include failed and repeated calls of any set of threads.

*Ownership.* The inductive invariant is `TypeOK /\ ProtocolInv`. Exclusive modes
alone are not inductive: that an instance may install mode P follows from the
fact that every other instance is in mode O, and that in turn from who is
recorded as owner and how far the one call that is being served has come.
`OwnInv` says so for every page that has not been overtaken: an instance that
holds a mode other than O, or to which a grant is on its way, is the recorded
owner; and while a revoked page is handed over, every instance is in mode O and
no grant is on its way. `FetchInv` ties `lock_remoting` and GlobalLock's mutex to
the position of the threads, which yields `FetchExclusive`.

*Writers.* `WriterInv` (of `PageLockProofs`) adds `PinInv` and `HoldInv`. `PinInv`: the pages that the
second loop of `GetWritePageLock` has passed, and every page of the write set
while the transaction runs, have the thread in their `thread_set`. `HoldInv`: a
page is in mode X exactly while one thread is between `Lock` and `UnLock` in
`WriteRow`, and `count` counts that thread. A revocation waits for an empty
`thread_set`, so it never finds a page in mode X and `LockInvalid`'s assertion on
`count` never fails; this needs no exception for overtaken pages.

*Content.* `ContentInv` adds, for every page that is not in `Lossy`, where its last
version is: in GlobalLock's buffer while nobody owns the page, in the owner's
buffer, or, from the moment `LockInvalid` has read it until `BufferPut` has stored
it, with the thread that fetches it; and that a writer between `BufferGet` and
`BufferPut` of `WriteRow` still has it while no grant to its instance is under
way. The step that needs most is the write itself: by `HoldInv` the writer is
alone, by `OwnInv` it is in the owner and nobody carries the page. A request sent
again after its answer was lost keeps `ContentInv` when the lost content was that
of the requester's buffer, and puts the page into `Lossy` otherwise.

*Table.* `TableInv` says what is known of the table in each phase. While it is
loaded, the page in use has `m` rows, at most `RowsPerPage`, every earlier page is
full, and the index has the keys loaded so far (`Loading`). While the index is
written, the file and the piece not yet written are together a prefix of the hash
map's order (`Serializing`), and while it is read the index has the items before
`offset` (`Opening`). So `FullPages` holds for every size of page, header and row,
and `IndexComplete` for every number of keys, size of a piece (a last piece that is
full included) and order of the hash map, however often the table is closed and
opened. Only the arithmetic of the layout (`PageLayout`, `PlaceOf`) relates the
bytes used to the number of rows. The buffer and the disk do not occur in
`TableInv`.

*Barrier.* `BarrierInv` is `TypeOK /\ HandlerInv /\ FlagInv /\ StartedInv`. That
an instance whose flag is set has a client follows from the order of the two
stores in `set_instance_i`, hence from where its handlers are (`HandlerInv`); the
flag is not reset, so what the poll saw stays true (`StartedInv`). The argument
uses neither a lock around the handlers nor that a registration arrives once.
`StopsOnlyOnRepeat` needs in addition that a set flag was set by a handler of that
registration, which has then come past it.

*Worker.* `WorkerInv` is `TypeOK /\ RoomForAbort /\ HandInv /\ CountInv /\
PlaceInv`. The bound on `q_idx` is not inductive: `CountInv` says that the
queries drawn are those committed, in the buffer and in hand, and each of the
three is bounded. `HandInv` says when a query is in hand, without which
`CountInv` would break in the loop without a buffer. `PlaceInv` is
`QueryConserved` in a form that every step keeps; adding a query to the
committed ones raises their number because it was not among them.

What stays with TLC: liveness (`TxnEnds`, `InvalidationDone`, `KeepsWorking`,
`CallsReturn`, `AllStart`), which is out of this prover's reach; the invariants
of the rows, of the page buffer and of the cluster, and the refinement `ActsAsMap`.
`Nodes`, `FlushTimes` and the chains of `RowMvcc` are
recursive in their data, and facts about them for every length need induction
that the prover cannot do here.

## What is not modelled

- Most lines under `src/` are headers of libraries (brpc, bthread, butil,
  protobuf, jsoncpp in `src/include`) and generated protobuf code. They are not
  modelled; what the system relies on (a call is answered, fails at its caller,
  or is sent again) is in PageLock and Startup. The models cover the system's own
  code, a small share of the lines of the tree.
- Code without a caller in the build: Lock(S) and `RowHandler::ReadRow`,
  `Gen_DB` with ten threads (whose `GetNextPageId` is not protected),
  `init_table_parallel`, `Row_mvcc::Invalid`, `RecycleALL` and `CheckLatestRow`,
  `GetNextTs` of GlobalLock.
- Code the configuration excludes: OCC, TPC-C, the shared disk service, the gRPC
  layers.
- The JSON form of the table space (five scalars), the cache of file descriptors
  and the file access itself: the files are a function from pages to contents.
- The zipf distribution and the random choice of queries: any query of a set may
  come next.
- Integer widths of timestamps: 2^32, where `the_ts` would be truncated, is out of
  reach of 1000 transactions per thread.
- Several rows of one page: in PageLock they repeat the same steps; in Cluster a
  page has one row, so two transactions of an instance that write different rows of
  a page are not met there (Storage has them).
- Failed and repeated calls inside Cluster (PageLock has them).
- A crash in the middle of a write to disk: the code has no log and no recovery.
