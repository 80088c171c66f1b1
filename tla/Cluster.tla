------------------------------- MODULE Cluster -------------------------------
(***************************************************************************)
(* Two instances, A and B, that run transactions on the same table: two    *)
(* copies of MvccTxn, each with its own rows and timestamp counter, and    *)
(* the page lock of PageLock between them, step by step.  A transaction    *)
(* fetches the pages of its write set and pins them before its first       *)
(* request (GetWritePageLock) and drops the pins when it is over; a fetch  *)
(* moves the page's content to the buffer of the new owner and leaves the  *)
(* Row_mvcc objects of both instances alone.                               *)
(*                                                                         *)
(* The page buffers are shared between the two layers: buf["A"] is the     *)
(* page of A's rows.  One row of each page is modelled, with the page's    *)
(* id, so that the content of a page is the version of its row.  A         *)
(* transaction that reads only takes no page lock, in the code and here.   *)
(* Remote calls do not fail here; PageLock has what happens when they do.  *)
(*                                                                         *)
(* An operator whose name ends in Mut is the next one with a fault in it;  *)
(* no specification uses it.                                               *)
(***************************************************************************)
EXTENDS Integers, Sequences, FiniteSets

CONSTANTS ThreadA, ThreadB, HisLen, ReqLen, UINT64_MAX,
          LimitB,           \* bound on the timestamps of B, at most UINT64_MAX
          Key,              \* the rows, by the ids of their pages
          QueryA, QueryB    \* the queries of each instance

ASSUME WorkerAssumption == ThreadA \cap ThreadB = {}
ASSUME KeyAssumption == Key \subseteq Nat

VARIABLES
  \* MvccTxn, in each instance
  rowA, timestampA, all_tsA, pcA, tsA, queryA, accessesA, cur_rowA, ts_readyA, rcA,
  readsA, writesA,
  rowB, timestampB, all_tsB, pcB, tsB, queryB, accessesB, cur_rowB, ts_readyB, rcB,
  readsB, writesB,
  \* PageLock
  lock_mode, count, thread_set, invalid_req, lock_remoting, mtx, buf, write_ins_id, gmtx,
  pc, wset, todo, iter, page_buf, crashed,
  \* history variables, never read by the actions
  last,       \* the version of each row that was committed last, by either instance
  overtaken,  \* as in PageLock
  early,      \* pages whose row was written or copied before the granted content was stored
  resent,     \* as in PageLock
  late        \* the pins that were set when the page had been revoked: [thread, page]

A == INSTANCE MvccTxn WITH
       Thread <- ThreadA, Query <- QueryA, row <- rowA, page <- buf["A"],
       timestamp_ <- timestampA, all_ts <- all_tsA, pc <- pcA, ts <- tsA, query <- queryA,
       accesses <- accessesA, cur_row <- cur_rowA, ts_ready <- ts_readyA, rc <- rcA,
       reads <- readsA, writes <- writesA
B == INSTANCE MvccTxn WITH
       Thread <- ThreadB, Query <- QueryB, row <- rowB, page <- buf["B"],
       timestamp_ <- timestampB, all_ts <- all_tsB, pc <- pcB, ts <- tsB, query <- queryB,
       accesses <- accessesB, cur_row <- cur_rowB, ts_ready <- ts_readyB, rc <- rcB,
       reads <- readsB, writes <- writesB

Worker == ThreadA \cup ThreadB
Ins == [t \in Worker |-> IF t \in ThreadA THEN "A" ELSE "B"]

\* The page lock; what total counts there is here the last commit itself.
L == INSTANCE PageLock WITH
       Instance <- {"A", "B"}, Thread <- Worker, Page <- Key, WriteSet <- SUBSET Key,
       MaxWrites <- 0, Unreliable <- {}, total <- last

varsA == <<rowA, timestampA, all_tsA, pcA, tsA, queryA, accessesA, cur_rowA, ts_readyA,
           rcA, readsA, writesA>>
varsB == <<rowB, timestampB, all_tsB, pcB, tsB, queryB, accessesB, cur_rowB, ts_readyB,
           rcB, readsB, writesB>>
\* Everything of PageLock but the buffers and what a transaction's steps record.
lockVars == <<lock_mode, count, thread_set, invalid_req, lock_remoting, mtx, write_ins_id, gmtx,
              pc, wset, todo, iter, page_buf, overtaken, resent>>
vars == <<varsA, varsB, lockVars, buf, crashed, last, early, late>>

Init == /\ L!Init
        /\ A!Init /\ B!Init
        /\ late = {}

-----------------------------------------------------------------------------
(***************************************************************************)
(* GetWritePageLock, called by run_txn before its first request.           *)
(***************************************************************************)
GetQueryWritePageSet(q) == {q[i].key : i \in {j \in DOMAIN q : q[j].rtype = "WR"}}

RunTxn(t) ==
  /\ L!Start(t)
  /\ \/ t \in ThreadA /\ pcA[t] = "request" /\ wset'[t] = GetQueryWritePageSet(queryA[t])
     \/ t \in ThreadB /\ pcB[t] = "request" /\ wset'[t] = GetQueryWritePageSet(queryB[t])
  /\ UNCHANGED <<varsA, varsB, late>>

GetWritePageLock(t) ==
  /\ L!Acquire(t) \/ L!Serve(t)
  /\ late' = IF thread_set' # thread_set /\ L!Mode(t, iter[t]) = "O"
             THEN late \cup {[thread |-> t, page |-> iter[t]]} ELSE late
  /\ UNCHANGED <<varsA, varsB>>

\* RemoveThread of the pages, after finish.
ReleasePagesMut(t) ==
  /\ L!At(t, "unpin") /\ L!Goto(t, "start")
  /\ wset' = [wset EXCEPT ![t] = {}] /\ todo' = [todo EXCEPT ![t] = {}]
  /\ UNCHANGED <<varsA, varsB, lock_mode, count, thread_set, invalid_req, lock_remoting, mtx, buf,
                 write_ins_id, gmtx, iter, page_buf, crashed, last, overtaken, early, resent, late>>
ReleasePages(t) ==
  /\ L!RemoveThread(t)
  /\ late' = {x \in late : x.thread # t \/ x.page \in todo'[t]}
  /\ UNCHANGED <<varsA, varsB>>

(***************************************************************************)
(* The requests of a transaction and the return of its rows, once its      *)
(* pages are pinned.                                                       *)
(***************************************************************************)
\* The content of page k in instance i is copied or replaced.
UsePage(i, k) == early' = IF L!GrantInFlight(i, k) THEN early \cup {k} ELSE early

\* RowHandler::WriteRow of row k, whose version becomes v: Lock(X), BufferGet,
\* BufferPut, UnLock.  One step: the latch of the row is held, the pin keeps
\* LockInvalid out, and a writer of another row of the page is not modelled.
WriteRow(i, k, v) ==
  /\ lock_mode[i][k] = "P" /\ ~mtx[i][k]
  /\ buf' = [buf EXCEPT ![i][k] = v]
  /\ last' = [last EXCEPT ![k] = v]
  /\ UsePage(i, k)

\* access(W_REQ) of a commit; WriteRow asserts first that the page is not in
\* mode O.
CommitA(t) ==
  /\ pcA[t] = "final" /\ rcA[t] = "RCOK" /\ accessesA[t] # <<>> /\ A!Last(t).type = "WR"
  /\ LET k == A!Last(t).key IN
     \/ /\ lock_mode["A"][k] # "O"
        /\ WriteRow("A", k, tsA[t]) /\ A!CommitWrite(t)
        /\ UNCHANGED <<lockVars, crashed>>
     \/ /\ lock_mode["A"][k] = "O"
        /\ L!Fail("A", "run") /\ UNCHANGED varsA

CommitB(t) ==
  /\ pcB[t] = "final" /\ rcB[t] = "RCOK" /\ accessesB[t] # <<>> /\ B!Last(t).type = "WR"
  /\ LET k == B!Last(t).key IN
     \/ /\ lock_mode["B"][k] # "O"
        /\ WriteRow("B", k, tsB[t]) /\ B!CommitWrite(t)
        /\ UNCHANGED <<lockVars, crashed>>
     \/ /\ lock_mode["B"][k] = "O"
        /\ L!Fail("B", "run") /\ UNCHANGED varsB

RunA(t) ==
  /\ L!At(t, "run") /\ UNCHANGED <<varsB, late>>
  /\ \/ /\ UNCHANGED buf
        /\ A!Wake(t) \/ A!UseRow(t) \/ A!ReturnRead(t) \/ A!UndoPrewrite(t) \/ A!ReadRequest(t)
        /\ UNCHANGED <<lockVars, crashed, last, early>>
     \/ /\ UNCHANGED buf
        /\ A!PrewriteRequest(t) /\ UsePage("A", A!Req(t).key)
        /\ UNCHANGED <<lockVars, crashed, last>>
     \/ CommitA(t)
     \/ L!Finish(t) /\ A!Finish(t)

RunB(t) ==
  /\ L!At(t, "run") /\ UNCHANGED <<varsA, late>>
  /\ \/ /\ UNCHANGED buf
        /\ B!Wake(t) \/ B!UseRow(t) \/ B!ReturnRead(t) \/ B!UndoPrewrite(t) \/ B!ReadRequest(t)
        /\ UNCHANGED <<lockVars, crashed, last, early>>
     \/ /\ UNCHANGED buf
        /\ B!PrewriteRequest(t) /\ UsePage("B", B!Req(t).key)
        /\ UNCHANGED <<lockVars, crashed, last>>
     \/ CommitB(t)
     \/ L!Finish(t) /\ B!Finish(t)

-----------------------------------------------------------------------------
(***************************************************************************)
(* thread_t::run: a worker whose last transaction is over draws the next   *)
(* timestamp and publishes it.                                             *)
(***************************************************************************)
GetNextTs(t) ==
  /\ L!At(t, "start") /\ UNCHANGED <<lockVars, buf, crashed, last, early, late>>
  /\ \/ t \in ThreadA /\ A!GetNextTs(t) /\ UNCHANGED varsB
     \/ t \in ThreadB /\ timestampB < LimitB /\ B!GetNextTs(t) /\ UNCHANGED varsA

AddTs(t) ==
  /\ L!At(t, "start") /\ UNCHANGED <<lockVars, buf, crashed, last, early, late>>
  /\ \/ t \in ThreadA /\ A!AddTs(t) /\ UNCHANGED varsB
     \/ t \in ThreadB /\ B!AddTs(t) /\ UNCHANGED varsA

Step(t) == \/ AddTs(t) \/ RunTxn(t) \/ GetWritePageLock(t) \/ ReleasePages(t)
           \/ t \in ThreadA /\ RunA(t)
           \/ t \in ThreadB /\ RunB(t)

\* Worker t spins on the mode of a page that has come and gone without t
\* noticing: nobody in its instance is fetching it any more.
Missed(t) == pc[t] = "spin" /\ L!Mode(t, iter[t]) = "O" /\ ~lock_remoting[Ins[t]][iter[t]]

Stopped == \E i \in {"A", "B"} : crashed[i] # "no"

\* No worker runs a transaction, those apart that spin for good; or an assert
\* has stopped an instance.
Done ==
  /\ \/ Stopped
     \/ \A t \in Worker : Missed(t) \/ pc[t] = "start"
  /\ UNCHANGED vars

Next == Done \/ \E t \in Worker : GetNextTs(t) \/ Step(t)

Spec == Init /\ [][Next]_vars

-----------------------------------------------------------------------------
\* The state of both instances and of the page lock has its type.
TypeOK ==
  /\ A!TypeOK /\ B!TypeOK /\ L!TypeOK
  /\ last \in [Key -> A!Ts]
  /\ late \subseteq [thread : Worker, page : Key]

\* The instance that holds a page has the last commit of its row, by whichever
\* instance and wherever in its transaction: WriteRow of a transaction that
\* waited for prewrites, LockInvalid and BufferPut leave no commit behind.  The
\* exceptions are those in which the code does: a revocation overtook a grant
\* (overtaken), or a worker used the page between the assignment of mode P and
\* BufferPut (early).
OwnerHasLastCommit == L!OwnerHasAllWrites

\* A transaction that holds a prewrite has the row's page until it has returned
\* the row, however long it waits for other transactions: the asserts of
\* WriteRow and RemoveThread (lock_mode != O) fail only for a page that was
\* revoked between the assert of GetWritePageLock and AddThread (late).
WriterOwnsPage ==
  /\ \A t \in ThreadA : \A i \in DOMAIN accessesA[t] :
       LET a == accessesA[t][i] IN
       a.type = "WR" /\ [thread |-> t, page |-> a.key] \notin late => lock_mode["A"][a.key] # "O"
  /\ \A t \in ThreadB : \A i \in DOMAIN accessesB[t] :
       LET a == accessesB[t][i] IN
       a.type = "WR" /\ [thread |-> t, page |-> a.key] \notin late => lock_mode["B"][a.key] # "O"

\* What holds of the rows of a single instance still holds when pages come and
\* go under them: one prewrite per row, the writer knows it, no wakeup is lost.
RowsConsistent ==
  /\ A!PrewriteInv /\ A!WriterInv /\ A!WaiterInv
  /\ B!PrewriteInv /\ B!WriterInv /\ B!WaiterInv

\* The races after which worker t may find an old version on page k.
Raced(t, k) == k \in overtaken \cup early' \/ [thread |-> t, page |-> k] \in late

\* The first prewrite of a row for which the instance holds no version copies
\* the last commit of the row in the whole cluster (GetLatestRow reads the page
\* that came with the lock), unless the page lock was raced in one of the ways
\* named above: a grant overtaken, the page used before BufferPut, a late pin.
FirstWriteFresh ==
  [][/\ \A t \in ThreadA :
          /\ pcA[t] = "request" /\ pcA'[t] = "use" /\ A!Req(t).rtype = "WR"
          /\ rowA[A!Req(t).key].latest_row = A!NullRow /\ ~Raced(t, A!Req(t).key)
          => accessesA'[t][Len(accessesA'[t])].from = last[A!Req(t).key]
     /\ \A t \in ThreadB :
          /\ pcB[t] = "request" /\ pcB'[t] = "use" /\ B!Req(t).rtype = "WR"
          /\ rowB[B!Req(t).key].latest_row = B!NullRow /\ ~Raced(t, B!Req(t).key)
          => accessesB'[t][Len(accessesB'[t])].from = last[B!Req(t).key]]_vars

\* What a worker in a transaction can wait for: the end of an invalidation
\* (has_invalid_req), the page another worker fetches, GlobalLock's mutex, the
\* pins at the owner, the mutex of the node, or another transaction's prewrite.
Waits(t) ==
  \/ pc[t] = "check" /\ \E p \in wset[t] : invalid_req[Ins[t]][p]
  \/ pc[t] = "spin" /\ L!Mode(t, iter[t]) = "O"
  \/ pc[t] = "call" /\ gmtx[iter[t]]
  \/ pc[t] = "waiting" /\ thread_set[L!Owner(t)][iter[t]] # {}
  \/ pc[t] = "add" /\ mtx[Ins[t]][iter[t]]
  \/ t \in ThreadA /\ pcA[t] = "wait" /\ ~ts_readyA[t]
  \/ t \in ThreadB /\ pcB[t] = "wait" /\ ~ts_readyB[t]

\* The workers in transactions never all wait for each other, across the page
\* lock and the prewrites: who waits for a page waits for pins of transactions
\* that have their pages, and these wait for prewrites of such transactions
\* only.  Left out are a worker that missed the page it was spinning for, and
\* what follows when an assert has stopped an instance.
NotAllWait ==
  LET active == {t \in Worker : pc[t] # "start" /\ ~Missed(t)}
  IN  active = {} \/ Stopped \/ \E t \in active : ~Waits(t)

-----------------------------------------------------------------------------
\* config.h 46, ISOLATION_LEVEL SERIALIZABLE: a write builds on the last commit
\* of its row, at least when no race of the page lock comes into it.  An
\* instance that has held a version of the row before keeps it when the page
\* moves away and back, and its next write builds on that one.
NoUpdateLost ==
  [][/\ \A t \in ThreadA :
          writesA' # writesA /\ pcA[t] = "final" /\ accessesA'[t] # accessesA[t] =>
            Raced(t, A!Last(t).key) \/ A!Last(t).from = last[A!Last(t).key]
     /\ \A t \in ThreadB :
          writesB' # writesB /\ pcB[t] = "final" /\ accessesB'[t] # accessesB[t] =>
            Raced(t, B!Last(t).key) \/ B!Last(t).from = last[B!Last(t).key]]_vars
=============================================================================
