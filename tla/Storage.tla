------------------------------ MODULE Storage ------------------------------
(***************************************************************************)
(* The storage of one process: the table as TableLoad leaves it on disk,   *)
(* the page buffer over it, and the threads that read and write rows       *)
(* through both (RowHandler::SnapShotReadRow and WriteRow).  A thread      *)
(* holds the latch of its row throughout (Row_mvcc::access calls both with *)
(* the latch of the row); WriteRow also holds the X lock of the row's page *)
(* in the lock table, SnapShotReadRow holds no page lock.                  *)
(*                                                                         *)
(* A setup gives the size of the buffer and how it is called: "locked" by  *)
(* BufferGetWithLock and BufferPutWithLock, which hold the buffer's mutex  *)
(* throughout; "parallel" by BufferGet and BufferPut, which hold it only   *)
(* around the changes of the lists, as RowHandler does; or "serial" by     *)
(* these two, but never by two threads at once, as test_buffer's writers.  *)
(*                                                                         *)
(* Copying a page is one step.  A reader may copy a page while a writer of *)
(* another row replaces it, but the bytes of the row it reads are the same *)
(* before and after, and so is the page id in the header.                  *)
(*                                                                         *)
(* An operator whose name ends in Mut is the next one with a fault in it;  *)
(* no specification uses it.                                               *)
(***************************************************************************)
EXTENDS TableLoad, Buffer

CONSTANTS
  Thread,
  RowsOf,      \* the keys each thread reads and writes
  Ops,         \* what threads do: "read", "write" or both
  Setup,       \* pairs of a buffer size and a way to call the buffer
  MaxWrites    \* bound: the number of rows written

ASSUME RowsOfAssumption == RowsOf \in [Thread -> SUBSET Key]
ASSUME OpsAssumption == Ops \subseteq {"read", "write"}
ASSUME SetupAssumption == Setup \subseteq [page_num : Nat \ {0}, calls : {"locked", "serial", "parallel"}]

VARIABLES
  setup,     \* the setup of this process
  pool,      \* its Buffer
  warm,      \* the next page that Init reads to warm the buffer
  pc,        \* where each thread is
  call,      \* the variables of its call (below)
  xlock,     \* pages whose X lock is held, and by whom
  result,    \* what each thread read last
  total,     \* writes begun so far: each gives its row a version of its own
  failed     \* whether an assertion failed

bufferVars == <<setup, warm>>
threadVars == <<call, xlock, result, total>>
vars == <<loadVars, bufferVars, pool, pc, threadVars, failed>>

NoThread == "none"
Page == 0 .. last_page_id
State == [pool |-> pool, disk |-> disk]

\* A call: the key of its row, the version that it writes (0 if it reads), the
\* node that BufferGet or BufferPut found, and its private copy of the page.
Call == [row : Key \cup {NoKey}, version : 0 .. MaxWrites, node : Nat, copy : PageBuf]
NoCall == [row |-> NoKey, version |-> 0, node |-> Null, copy |-> NewPageBuf]
ItemOf(t) == index[call[t].row]

Init ==
  /\ LoadInit
  /\ setup \in Setup
  /\ pool = NewBuffer(setup.page_num, NewPageBuf) /\ warm = 0
  /\ pc = [t \in Thread |-> "idle"]
  /\ call = [t \in Thread |-> NoCall]
  /\ xlock = <<>>
  /\ result = [t \in Thread |-> NoRow]
  /\ total = 0 /\ failed = FALSE

LoadTable ==
  /\ Load
  /\ UNCHANGED <<bufferVars, pool, pc, threadVars, failed>>

-----------------------------------------------------------------------------
\* Opening and closing

SetState(s) == pool' = s.pool /\ disk' = s.disk

\* One turn of the loop of ManagerInstance::Init that warms the buffer: at this
\* time one thread runs, so both ways to call the buffer do the same.
Prewarm ==
  /\ phase = "open" /\ offset >= file.size /\ warm <= last_page_id
  /\ SetState(GetWithLock(State, warm))
  /\ warm' = warm + 1
  /\ failed' = (failed \/ ~SizeAssert(pool) \/ (~Hit(pool, warm) /\ ~InsertAssert(pool)))
  /\ UNCHANGED <<phase, key, page, last_page_id, index, file, buf, offset, setup, pc, threadVars>>

Start ==
  /\ phase = "open" /\ offset >= file.size /\ warm > last_page_id
  /\ phase' = "run"
  /\ UNCHANGED <<key, page, last_page_id, index, disk, file, buf, offset, bufferVars, pool, pc,
                 threadVars, failed>>

\* ~ManagerInstance: the buffer is flushed and the index written; then the
\* table is opened again, with a new buffer.
Close ==
  /\ phase = "run" /\ \A t \in Thread : pc[t] = "idle"
  /\ phase' = "serialize"
  /\ disk' = FlushALl(State).disk
  /\ pool' = NewBuffer(setup.page_num, NewPageBuf) /\ warm' = 0
  /\ file' = NewFile
  /\ result' = [t \in Thread |-> NoRow]
  /\ UNCHANGED <<key, page, last_page_id, index, buf, offset, setup, pc, call, xlock, total,
                 failed>>

-----------------------------------------------------------------------------
\* A row is read or written

At(t, l) == phase = "run" /\ pc[t] = l /\ ~failed
Goto(t, l) == pc' = [pc EXCEPT ![t] = l]
OnlyThreads == UNCHANGED <<phase, key, page, last_page_id, index, file, buf, offset, bufferVars>>

Latched(k) == \E t \in Thread : call[t].row = k

\* Row_mvcc::access has the latch of row k and calls SnapShotReadRow or WriteRow.
Begin(t) ==
  /\ At(t, "idle")
  /\ \E k \in RowsOf[t] :
       /\ ~Latched(k)
       /\ \/ /\ "write" \in Ops /\ total < MaxWrites
             /\ total' = total + 1
             /\ call' = [call EXCEPT ![t].row = k, ![t].version = total']
             /\ Goto(t, "lock")
          \/ /\ "read" \in Ops
             /\ call' = [call EXCEPT ![t].row = k]
             /\ Goto(t, "get") /\ UNCHANGED total
  /\ OnlyThreads /\ UNCHANGED <<pool, disk, xlock, result, failed>>

\* LockTable::Lock(page_id, X)
LockX(t) ==
  /\ At(t, "lock") /\ ItemOf(t).page_id \notin DOMAIN xlock
  /\ xlock' = IndexPut(xlock, ItemOf(t).page_id, t)
  /\ Goto(t, "get")
  /\ OnlyThreads /\ UNCHANGED <<pool, disk, call, result, total, failed>>

\* WriteRow replaces the bytes of its own row only.
ModifiedMut(t, content) ==
  [content EXCEPT !.row[Header] = [key |-> call[t].row, version |-> call[t].version]]
Modified(t, content) ==
  [content EXCEPT !.row[ItemOf(t).page_location] =
    [key |-> call[t].row, version |-> call[t].version]]

\* BufferGet returns: WriteRow changes its row in the copy, SnapShotReadRow reads it.
Got(t, content) ==
  /\ \/ /\ call[t].version # 0
        /\ call' = [call EXCEPT ![t].copy = Modified(t, content), ![t].node = Null]
        /\ Goto(t, "put")
     \/ /\ call[t].version = 0
        /\ call' = [call EXCEPT ![t].copy = content, ![t].node = Null]
        /\ Goto(t, "return")
  /\ OnlyThreads /\ UNCHANGED <<xlock, result, total>>

GetWithMutex(t) ==
  LET p == ItemOf(t).page_id
  IN  /\ At(t, "get") /\ setup.calls = "locked"
      /\ Got(t, Fetched(State, p))
      /\ SetState(GetWithLock(State, p))
      /\ failed' = (~SizeAssert(pool) \/ (~Hit(pool, p) /\ ~InsertAssert(pool)))

InCall == {"copy", "read", "enter", "store", "insert"}

\* BufferGet and BufferPut assert the sizes under the mutex, and then look the page up without it.
Lookup(t) ==
  LET p == ItemOf(t).page_id
      hit == Hit(pool, p)
  IN  /\ At(t, "get") \/ At(t, "put")
      /\ setup.calls # "locked" /\ (setup.calls = "serial" => \A u \in Thread : pc[u] \notin InCall)
      /\ call' = [call EXCEPT ![t].node = IF hit THEN pool.index[p] ELSE Null]
      /\ failed' = ~SizeAssert(pool)
      /\ \/ At(t, "get") /\ Goto(t, IF hit THEN "copy" ELSE "read")
         \/ At(t, "put") /\ Goto(t, IF hit THEN "store" ELSE "insert")
      /\ OnlyThreads /\ UNCHANGED <<pool, disk, xlock, result, total>>

\* A hit: the page is copied from the node, without the mutex.
CopyPage(t) ==
  /\ At(t, "copy")
  /\ Got(t, pool.data[call[t].node])
  /\ UNCHANGED <<pool, disk, failed>>

\* A miss: the page is read from disk, without the mutex ...
ReadPage(t) ==
  /\ At(t, "read")
  /\ call' = [call EXCEPT ![t].copy = disk[ItemOf(t).page_id]]
  /\ Goto(t, "enter")
  /\ OnlyThreads /\ UNCHANGED <<pool, disk, xlock, result, total, failed>>

\* ... and then put into the buffer, with it.
EnterPage(t) ==
  /\ At(t, "enter")
  /\ SetState(Insert(State, ItemOf(t).page_id, call[t].copy))
  /\ failed' = ~InsertAssert(pool)
  /\ Got(t, call[t].copy)

\* BufferPut returns.
PutDone(t) ==
  /\ call' = [call EXCEPT ![t].copy = NewPageBuf, ![t].node = Null]
  /\ Goto(t, "unlock")
  /\ OnlyThreads /\ UNCHANGED <<xlock, result, total>>

PutWithMutex(t) ==
  LET p == ItemOf(t).page_id
  IN  /\ At(t, "put") /\ setup.calls = "locked"
      /\ SetState(PutWithLock(State, p, call[t].copy))
      /\ failed' = (~SizeAssert(pool) \/ (~Hit(pool, p) /\ ~InsertAssert(pool)))
      /\ PutDone(t)

\* A hit: the page is copied to the node, without the mutex.
StorePage(t) ==
  /\ At(t, "store")
  /\ pool' = [pool EXCEPT !.data[call[t].node] = call[t].copy]
  /\ UNCHANGED <<disk, failed>>
  /\ PutDone(t)

InsertPage(t) ==
  /\ At(t, "insert")
  /\ SetState(Insert(State, ItemOf(t).page_id, call[t].copy))
  /\ failed' = ~InsertAssert(pool)
  /\ PutDone(t)

\* LockTable::UnLock
UnLockMut(t) ==
  /\ At(t, "unlock")
  /\ call' = [call EXCEPT ![t] = NoCall]
  /\ Goto(t, "idle")
  /\ OnlyThreads /\ UNCHANGED <<pool, disk, xlock, result, total, failed>>
UnLock(t) ==
  /\ At(t, "unlock")
  /\ xlock' = IndexDelete(xlock, ItemOf(t).page_id)
  /\ call' = [call EXCEPT ![t] = NoCall]
  /\ Goto(t, "idle")
  /\ OnlyThreads /\ UNCHANGED <<pool, disk, result, total, failed>>

\* SnapShotReadRow asserts that it has the page and the row it asked for.
Return(t) ==
  LET r == call[t].copy.row[ItemOf(t).page_location]
  IN  /\ At(t, "return")
      /\ failed' = (call[t].copy.page_id # ItemOf(t).page_id \/ r.key # call[t].row)
      /\ result' = [result EXCEPT ![t] = r]
      /\ call' = [call EXCEPT ![t] = NoCall]
      /\ Goto(t, "idle")
      /\ OnlyThreads /\ UNCHANGED <<pool, disk, xlock, total>>

Step(t) ==
  \/ LockX(t) \/ GetWithMutex(t) \/ Lookup(t) \/ CopyPage(t) \/ ReadPage(t) \/ EnterPage(t)
  \/ PutWithMutex(t) \/ StorePage(t) \/ InsertPage(t) \/ UnLock(t) \/ Return(t)

Next ==
  \/ LoadTable \/ Prewarm \/ Start \/ Close
  \/ \E t \in Thread : Begin(t) \/ Step(t)

Spec == Init /\ [][Next]_vars
FairSpec == Spec /\ \A t \in Thread : WF_vars(Step(t))

-----------------------------------------------------------------------------
\* Where a row belongs: the reference that the loaded table is compared with.
RowsPerPage == (PageSize - Header) \div TupleSize
Place(k) == [page_id |-> k \div RowsPerPage,
             page_location |-> Header + (k % RowsPerPage) * TupleSize]

\* The current content of a page, and the row of key k in it.
Current(p) == IF Hit(pool, p) THEN pool.data[pool.index[p]] ELSE disk[p]
RowAt(k) == Current(Place(k).page_id).row[Place(k).page_location]

\* Every variable has its type; pages, index items and calls are well formed.
TypeOK ==
  /\ phase \in {"load", "serialize", "open", "run"} /\ key \in 0 .. NumKeys
  /\ page \in [page_id : Nat, used_size : Nat, page_buf : PageBuf]
  /\ \A p \in DOMAIN disk : disk[p] \in PageBuf
  /\ \A k \in DOMAIN index : k \in Key /\ index[k] \in IndexItem
  /\ setup \in Setup /\ warm \in 0 .. last_page_id + 1
  /\ pc \in [Thread -> {"idle", "lock", "get", "copy", "read", "enter", "put", "store",
                        "insert", "unlock", "return"}]
  /\ call \in [Thread -> Call]
  /\ result \in [Thread -> Row]
  /\ \A p \in DOMAIN xlock : p \in Page /\ xlock[p] \in Thread
  /\ total \in 0 .. MaxWrites /\ failed \in BOOLEAN

\* The storage behaves as a map from keys to rows: a read returns what the row
\* holds, a write changes its own row only, and neither the coming and going of
\* pages nor closing and opening the table loses a write.
KV == INSTANCE KeyValue
        WITH Version <- 0 .. MaxWrites, Nothing <- NoRow,
             kv <- [k \in Key |-> IF phase = "load" THEN 0 ELSE RowAt(k).version],
             open <- (phase = "run")
ActsAsMap == KV!Spec

\* No assertion of Buffer, LRU::Check's lists apart, or of SnapShotReadRow fails.
NoAssertFails == ~failed

\* Once the table is loaded, every key's row is where the arithmetic of the page
\* layout puts it, in the newest content of its page (Check_DB's assertion on keys).
RowsFound == phase # "load" => \A k \in Key : RowAt(k).key = k

\* The index that a process reads from the index file is complete and right: the
\* read of the last, short piece stops where the file does.
IndexRead == phase = "run" => index = [k \in Key |-> Place(k)]

\* init_table's assertion: a page into which no further row goes has as many
\* rows as fit, the row that leaves no byte of the page free included (the pages
\* of the code, a header of 64 and rows of 80 in 16384 bytes, end like that).
UsedSize == phase = "load" /\ Full => page.used_size = RowsPerPage * TupleSize + Header

\* The lists satisfy LRU::Check, every node is on one of them, and the index
\* names for each page the one node of page_list_ that has it.
ListsAgree ==
  LET used == Nodes(pool, PageList)
      free == Nodes(pool, FreeList)
  IN  /\ Check(pool, PageList) /\ Check(pool, FreeList)
      /\ {used[i] : i \in DOMAIN used} \cup {free[i] : i \in DOMAIN free} = DOMAIN pool.id
      /\ Cardinality(DOMAIN pool.index) = Len(used)
      /\ \A i \in DOMAIN used : pool.id[used[i]] \in DOMAIN pool.index
                               /\ pool.index[pool.id[used[i]]] = used[i]

\* A call that has its row's latch returns: no writer keeps another waiting for
\* the X lock of a page for ever.  (Serial callers may keep one another waiting.)
CallsReturn ==
  \A t \in Thread : pc[t] # "idle" /\ setup.calls # "serial" ~> pc[t] = "idle"
=============================================================================
