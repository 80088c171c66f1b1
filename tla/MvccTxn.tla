------------------------------- MODULE MvccTxn -------------------------------
(***************************************************************************)
(* Transactions of one instance on multi-version rows: the part of         *)
(* thread_t::run that draws a timestamp, ycsb_txn_man::run_txn,            *)
(* txn_man::get_row / finish / cleanup and RowHandler::GetRow / ReturnRow, *)
(* on top of the rows of module RowMvcc.                                   *)
(*                                                                         *)
(* A thread runs one transaction at a time.  Row_mvcc::access is atomic    *)
(* (its latch); everything a thread does between two calls of it           *)
(* interleaves with the other threads: drawing the timestamp and           *)
(* publishing it, waiting for ts_ready, using the RowItem that access      *)
(* returned, and returning the rows one by one in reverse order.           *)
(***************************************************************************)
EXTENDS RowMvcc

CONSTANTS Key,          \* the rows
          Query         \* the queries: sequences of requests [key, rtype]

\* A query is the projection of a query of the code (REQ_PER_QUERY = 16
\* requests) on the rows in Key; its requests to other rows are left out.

Request == [key : Key, rtype : {"RD", "WR"}]

\* No row is accessed twice by a query; the shares of reads and writes add up
\* to 1, so there are no scans.
gen_requests == {q \in Seq(Request) : \A i, j \in DOMAIN q : q[i].key = q[j].key => i = j}

\* A query that accesses none of the rows in Key is not a query of the model.
ASSUME QueryAssumption == Query \subseteq gen_requests \ {<<>>}

VARIABLES
  row,          \* mvcc_array_: the Row_mvcc of each key
  page,         \* the content of each row in the page buffer
  timestamp_,   \* ManagerInstance::timestamp_
  all_ts,       \* ManagerInstance::all_ts_
  pc,           \* where each thread is
  ts,           \* the timestamp of its transaction
  query,        \* its query (m_query)
  accesses,     \* the rows it got, in order; its length is row_cnt
  cur_row,      \* txn_man::cur_row
  ts_ready,     \* txn_man::ts_ready
  rc,           \* the outcome run_txn passes to finish
  \* history variables, never read by the actions
  reads,        \* reads served: [key, ts of the reader, version served]
  writes        \* writes committed: [key, ts, version the writer copied]

threadVars == <<pc, ts, query, accesses, cur_row, ts_ready, rc>>
vars == <<row, page, timestamp_, all_ts, threadVars, reads, writes>>

Access == [key : Key, type : {"RD", "WR"}, data : Pointer, from : Ts]

Init ==
  /\ row = [k \in Key |-> InitRow]
  /\ page = [k \in Key |-> 0]
  /\ timestamp_ = 1
  /\ all_ts = [t \in Thread |-> UINT64_MAX]
  /\ pc = [t \in Thread |-> "idle"]
  /\ ts = [t \in Thread |-> 0]
  /\ query = [t \in Thread |-> <<>>]
  /\ accesses = [t \in Thread |-> <<>>]
  /\ cur_row = [t \in Thread |-> NullRow]
  /\ ts_ready = [t \in Thread |-> FALSE]
  /\ rc = [t \in Thread |-> "RCOK"]
  /\ reads = {}
  /\ writes = {}

\* The request thread t is at, and GetMinTs.
Req(t) == query[t][Len(accesses[t]) + 1]
MinTs == {m \in {all_ts[t] : t \in Thread} : \A t \in Thread : m <= all_ts[t]}

(***************************************************************************)
(* thread_t::run: get_next_ts draws two values of the counter and uses the *)
(* second (the first is dropped: what comes between the two draws shows in *)
(* nothing but the gaps between timestamps, so both are one step); AddTs   *)
(* publishes it in all_ts_ in a separate step.  The guard is the bound on  *)
(* the counter.                                                            *)
(***************************************************************************)
GetNextTs(t) ==
  /\ pc[t] = "idle"
  /\ timestamp_ + 2 < UINT64_MAX
  /\ timestamp_' = timestamp_ + 2
  /\ ts' = [ts EXCEPT ![t] = timestamp_ + 1]
  /\ query' \in {[query EXCEPT ![t] = q] : q \in Query}
  /\ rc' = [rc EXCEPT ![t] = "RCOK"]
  /\ pc' = [pc EXCEPT ![t] = "start"]
  /\ UNCHANGED <<row, page, all_ts, accesses, cur_row, ts_ready, reads, writes>>

AddTs(t) ==
  /\ pc[t] = "start"
  /\ all_ts' = [all_ts EXCEPT ![t] = ts[t]]
  /\ pc' = [pc EXCEPT ![t] = "request"]
  /\ UNCHANGED <<row, page, timestamp_, ts, query, accesses, cur_row, ts_ready, rc, reads, writes>>

\* get_row after a grant: the access is recorded; the data is used next.
Record(t, ptr, from) ==
  /\ accesses' = [accesses EXCEPT ![t] =
       Append(@, [key |-> Req(t).key, type |-> Req(t).rtype, data |-> ptr, from |-> from])]
  /\ pc' = [pc EXCEPT ![t] = "use"]

\* access returned Abort: run_txn goes to final.
AbortRequest(t) ==
  /\ rc' = [rc EXCEPT ![t] = "Abort"]
  /\ pc' = [pc EXCEPT ![t] = "final"]
  /\ UNCHANGED <<row, page, timestamp_, all_ts, ts, query, accesses, cur_row, ts_ready, reads, writes>>

\* access returned WAIT: the request is pending and GetRow spins on ts_ready.
WaitRequest(t, type) ==
  /\ row' \in {[row EXCEPT ![Req(t).key] = r] :
                 r \in buffer_req(row[Req(t).key], type, t, ts[t])}
  /\ ts_ready' = [ts_ready EXCEPT ![t] = FALSE]
  /\ pc' = [pc EXCEPT ![t] = "wait"]
  /\ UNCHANGED <<page, timestamp_, all_ts, ts, query, accesses, cur_row, rc, reads, writes>>

(***************************************************************************)
(* GetRow of a read: access(R_REQ).                                        *)
(***************************************************************************)
ReadRequest(t) ==
  /\ pc[t] = "request" /\ Req(t).rtype = "RD"
  /\ LET k == Req(t).key IN
     \/ /\ ReadTooOld(row[k], ts[t])
        /\ AbortRequest(t)
     \/ /\ ~ReadTooOld(row[k], ts[t]) /\ ReadMustWait(row[k], ts[t])
        /\ WaitRequest(t, "R_REQ")
     \/ /\ ~ReadTooOld(row[k], ts[t]) /\ ~ReadMustWait(row[k], ts[t])
        /\ \E s \in Read(row[k], ts[t], page[k]) :
             /\ row' = [row EXCEPT ![k] = s.row]
             /\ cur_row' = [cur_row EXCEPT ![t] = s.ptr]
             /\ Record(t, s.ptr, Content(s.row, s.ptr))
             /\ reads' = reads \cup {[key |-> k, ts |-> ts[t], ver |-> Content(s.row, s.ptr)]}
        /\ UNCHANGED <<page, timestamp_, all_ts, ts, query, ts_ready, rc, writes>>

(***************************************************************************)
(* GetRow of a write: access(P_REQ).                                       *)
(***************************************************************************)
PrewriteRequest(t) ==
  /\ pc[t] = "request" /\ Req(t).rtype = "WR"
  /\ LET k == Req(t).key IN
     \/ /\ PrewriteTooLate(row[k], ts[t])
        /\ AbortRequest(t)
     \/ /\ ~PrewriteTooLate(row[k], ts[t]) /\ row[k].exists_prewrite
        /\ WaitRequest(t, "P_REQ")
     \/ /\ ~PrewriteTooLate(row[k], ts[t]) /\ ~row[k].exists_prewrite
        /\ \E min_ts \in MinTs : \E r \in GrantPrewrite(row[k], ts[t], min_ts, page[k]) :
             /\ row' = [row EXCEPT ![k] = r]
             /\ cur_row' = [cur_row EXCEPT ![t] = r.prewrite_his_id]
             /\ Record(t, r.prewrite_his_id, Content(r, r.prewrite_his_id))
        /\ UNCHANGED <<page, timestamp_, all_ts, ts, query, ts_ready, rc, reads, writes>>

\* GetRow after WAIT: ts_ready was set by the transaction waited for.
Wake(t) ==
  /\ pc[t] = "wait" /\ ts_ready[t]
  /\ Record(t, cur_row[t], IF cur_row[t] = FreedRow THEN 0
                           ELSE Content(row[Req(t).key], cur_row[t]))
  /\ UNCHANGED <<row, page, timestamp_, all_ts, ts, query, cur_row, ts_ready, rc, reads, writes>>

(***************************************************************************)
(* run_txn between two get_row calls: a write stamps its timestamp into    *)
(* the RowItem it got, a read looks at its own; then the next request, or  *)
(* final with RCOK.  The code stamps when request_cnt > 1, which holds of  *)
(* every query of which Query gives the projection.                        *)
(***************************************************************************)
UseRow(t) ==
  /\ pc[t] = "use"
  /\ LET a == accesses[t][Len(accesses[t])] IN
       row' = IF a.type = "WR" THEN [row EXCEPT ![a.key].his[a.data].data = ts[t]] ELSE row
  /\ pc' = [pc EXCEPT ![t] = IF Len(accesses[t]) < Len(query[t]) THEN "request" ELSE "final"]
  /\ UNCHANGED <<page, timestamp_, all_ts, ts, query, accesses, cur_row, ts_ready, rc, reads, writes>>

(***************************************************************************)
(* update_buffer hands RowItems to the threads of the slots it serves.     *)
(***************************************************************************)
Served(r, u, t) == \E i \in DOMAIN u.ptr : r.requests[i].txn = t
SlotOf(r, u, t) == CHOOSE i \in DOMAIN u.ptr : r.requests[i].txn = t

Notify(k, r, u) ==
  /\ row' = [row EXCEPT ![k] = u.row]
  /\ ts_ready' = [t \in Thread |-> ts_ready[t] \/ Served(r, u, t)]
  /\ reads' = reads \cup
       {[key |-> k, ts |-> r.requests[i].ts, ver |-> Content(u.row, u.ptr[i])] :
          i \in {j \in DOMAIN u.ptr : r.requests[j].type = "R_REQ"}}

\* deleting row_ leaves the threads that were given it with a freed RowItem.
Freed(k, a) == IF a.key = k /\ a.data = BaseRow THEN [a EXCEPT !.data = FreedRow] ELSE a

Dangling(k, t) == /\ pc[t] = "wait" /\ ts_ready[t] /\ Req(t).key = k
                  /\ cur_row[t] = BaseRow

(***************************************************************************)
(* finish / cleanup: the accesses are returned in reverse order.           *)
(***************************************************************************)
Last(t) == accesses[t][Len(accesses[t])]
AllButLast(t) == SubSeq(accesses[t], 1, Len(accesses[t]) - 1)

ReturnRead(t) ==
  /\ pc[t] = "final" /\ accesses[t] # <<>> /\ Last(t).type = "RD"
  /\ accesses' = [accesses EXCEPT ![t] = AllButLast(t)]
  /\ UNCHANGED <<row, page, timestamp_, all_ts, pc, ts, query, cur_row, ts_ready, rc, reads, writes>>

\* access(W_REQ): install the version, write it to the page, serve the waiters.
CommitWrite(t) ==
  /\ pc[t] = "final" /\ accesses[t] # <<>> /\ Last(t).type = "WR" /\ rc[t] = "RCOK"
  /\ LET k == Last(t).key
         r == Install(row[k], Last(t).data, ts[t])
     IN /\ page' = [page EXCEPT ![k] = Content(r, Last(t).data)]
        /\ \E min_ts \in MinTs : \E u \in update_buffer(r, ts[t], min_ts, page'[k]) :
             /\ Notify(k, r, u)
             /\ cur_row' = [x \in Thread |->
                  IF Served(r, u, x) THEN u.ptr[SlotOf(r, u, x)]
                  ELSE IF Dangling(k, x) THEN FreedRow ELSE cur_row[x]]
        /\ accesses' = [x \in Thread |->
             LET own == IF x = t THEN AllButLast(t) ELSE accesses[x]
             IN [i \in DOMAIN own |-> Freed(k, own[i])]]
        /\ writes' = writes \cup {[key |-> k, ts |-> ts[t], from |-> Last(t).from]}
  /\ UNCHANGED <<timestamp_, all_ts, pc, ts, query, rc>>

\* access(XP_REQ): withdraw the prewrite, serve the waiters.
UndoPrewrite(t) ==
  /\ pc[t] = "final" /\ accesses[t] # <<>> /\ Last(t).type = "WR" /\ rc[t] = "Abort"
  /\ LET k == Last(t).key
         r == Withdraw(row[k])
     IN \E min_ts \in MinTs : \E u \in update_buffer(r, ts[t], min_ts, page[k]) :
          /\ Notify(k, r, u)
          /\ cur_row' = [x \in Thread |-> IF Served(r, u, x) THEN u.ptr[SlotOf(r, u, x)]
                                          ELSE cur_row[x]]
  /\ accesses' = [accesses EXCEPT ![t] = AllButLast(t)]
  /\ UNCHANGED <<page, timestamp_, all_ts, pc, ts, query, rc, writes>>

\* finish returns; the thread goes on to its next transaction.
Finish(t) ==
  /\ pc[t] = "final" /\ accesses[t] = <<>>
  /\ pc' = [pc EXCEPT ![t] = "idle"]
  /\ UNCHANGED <<row, page, timestamp_, all_ts, ts, query, accesses, cur_row, ts_ready, rc, reads, writes>>

Step(t) ==
  \/ AddTs(t) \/ ReadRequest(t) \/ PrewriteRequest(t) \/ Wake(t) \/ UseRow(t)
  \/ ReturnRead(t) \/ CommitWrite(t) \/ UndoPrewrite(t) \/ Finish(t)

\* Every thread has left thread_t::run: no transaction is left to start.
Done ==
  /\ \A t \in Thread : pc[t] = "idle"
  /\ timestamp_ + 2 >= UINT64_MAX
  /\ UNCHANGED vars

Next == Done \/ \E t \in Thread : GetNextTs(t) \/ Step(t)

Spec == Init /\ [][Next]_vars

\* A thread that is running a transaction is scheduled again; the latch of a
\* row is held for a bounded time, so a thread that spins on it gets it.
Fairness == \A t \in Thread : WF_vars(Step(t))
FairSpec == Spec /\ Fairness
-----------------------------------------------------------------------------
(***************************************************************************)
(* Type correctness.                                                       *)
(***************************************************************************)
\* Every field of the rows, and the state of every thread, has its type.
TypeOK ==
  /\ row \in [Key -> Row]
  /\ \A k \in Key : /\ DOMAIN row[k].his = 1 .. row[k].his_len
                    /\ DOMAIN row[k].requests = 1 .. row[k].req_len
  /\ page \in [Key -> Ts]
  /\ timestamp_ \in Ts
  /\ all_ts \in [Thread -> Ts]
  /\ pc \in [Thread -> {"idle", "start", "request", "wait", "use", "final"}]
  /\ ts \in [Thread -> Ts]
  /\ query \in [Thread -> Query \cup {<<>>}]
  /\ accesses \in [Thread -> Seq(Access)]
  /\ cur_row \in [Thread -> Pointer]
  /\ ts_ready \in [Thread -> BOOLEAN]
  /\ rc \in [Thread -> {"RCOK", "Abort"}]
  /\ reads \subseteq [key : Key, ts : Ts, ver : Ts]
  /\ writes \subseteq [key : Key, ts : Ts, from : Ts]

(***************************************************************************)
(* The version list of a row.                                              *)
(***************************************************************************)
\* The version list of every row is right (HistoryOK) and agrees with the page,
\* in whatever order threads are granted, commit and abort; and a committed
\* write is held or lies at or below _oldest_wts.
HistoryInv ==
  /\ \A k \in Key : HistoryOK(row[k], page[k])
  /\ \A w \in writes : \/ w.ts <= row[w.key].oldest_wts
                        \/ \E i \in Valid(row[w.key]) : row[w.key].his[i].ts = w.ts

\* At most one prewrite is granted on a row, the one the row records, and every
\* pending request is newer than it (PrewriteOK), whatever the threads do.
PrewriteInv == \A k \in Key : PrewriteOK(row[k])

\* The transaction that holds a write access is the one whose prewrite the row
\* records, and its RowItem is the reserved entry: the asserts of the W_REQ and
\* XP_REQ branches (row == _write_history[_prewrite_his_id].row,
\* ts > _latest_wts) never fail, in whatever order threads commit and abort.
WriterInv ==
  \A t \in Thread : \A i \in DOMAIN accesses[t] :
    LET a == accesses[t][i] IN
    a.type = "WR" => /\ row[a.key].exists_prewrite
                     /\ row[a.key].prewrite_ts = ts[t]
                     /\ row[a.key].prewrite_his_id = a.data

\* A thread that spins in GetRow is known to the row it waits for: its request
\* is pending there, or its answer has been delivered.  No wakeup is lost.
WaiterInv ==
  \A t \in Thread : pc[t] = "wait" /\ ~ts_ready[t] =>
    \E i \in Pending(row[Req(t).key]) :
      /\ row[Req(t).key].requests[i].txn = t
      /\ row[Req(t).key].requests[i].ts = ts[t]

\* A read that is served a version older than itself never misses a write: no
\* write between that version and the reader commits, before or afterwards
\* (_max_served_rts, the wait on an older prewrite, and recycling from the old
\* end of the history).
NoSkippedWrite ==
  \A rd \in reads : rd.ver < rd.ts =>
    ~\E w \in writes : w.key = rd.key /\ rd.ver < w.ts /\ w.ts < rd.ts

\* Within an instance no update is lost: what a writer copied, when its
\* prewrite was granted, is the version its own write directly follows.
NoLostUpdate ==
  \A w \in writes :
    /\ w.from < w.ts
    /\ w.from = 0 \/ \E v \in writes : v.key = w.key /\ v.ts = w.from
    /\ ~\E v \in writes : v.key = w.key /\ w.from < v.ts /\ v.ts < w.ts

\* Every transaction that starts comes to its end: transactions that wait for
\* each other's prewrites on several rows never block for ever.
TxnEnds == \A t \in Thread : pc[t] = "start" ~> pc[t] = "idle"

-----------------------------------------------------------------------------
(***************************************************************************)
(* What the comments and the configuration say and the code does not do.   *)
(***************************************************************************)
\* row_mvcc.cpp 254: a read between _oldest_wts and _latest_wts "should find
\* the correct version", one with a smaller timestamp than the reader's.
ReadsCorrectVersion == \A rd \in reads : rd.ver < rd.ts

\* txn.cpp 179: the data of an access points at a RowItem inside the Row_mvcc;
\* in particular it has not been deleted when the transaction uses it.
AccessPointsIntoRow ==
  \A t \in Thread : \A i \in DOMAIN accesses[t] : accesses[t][i].data # FreedRow

\* config.h, ISOLATION_LEVEL SERIALIZABLE: the value a transaction looks at is
\* the version it was served, not what an uncommitted writer put in its place.
ReadsStableVersion ==
  \A t \in Thread : pc[t] = "use" =>
    LET a == accesses[t][Len(accesses[t])] IN
    a.type = "RD" /\ a.data # FreedRow =>
      [key |-> a.key, ts |-> ts[t], ver |-> Content(row[a.key], a.data)] \in reads
=============================================================================
