------------------------------- MODULE RowMvcc -------------------------------
(***************************************************************************)
(* The versions of one row inside one instance: class Row_mvcc of          *)
(* instance/concurrency_control/row_mvcc.cpp, as operators on a record     *)
(* that holds its fields.  Every call of Row_mvcc::access runs under the   *)
(* latch blatch, so an operator is one atomic change of the row.           *)
(*                                                                         *)
(* A RowItem is identified by where it lives: a positive number is the     *)
(* RowItem of that entry of _write_history (an entry keeps its RowItem     *)
(* when it is recycled), BaseRow is the RowItem row_ that GetLatestRow     *)
(* fills from the page.  The content of a RowItem is the timestamp the     *)
(* last writer stamped into it (0: as loaded).                             *)
(*                                                                         *)
(* The loops of the code that search an extreme timestamp are written as   *)
(* the set of entries that satisfy the search; the operators that use one  *)
(* return the set of their possible results, which has one element.        *)
(*                                                                         *)
(* An operator whose name ends in Mut is the next one with a fault in it;  *)
(* no specification uses it.                                               *)
(***************************************************************************)
EXTENDS Integers, FiniteSets, Sequences

CONSTANTS Thread,       \* the worker threads (g_thread_cnt of them)
          HisLen,       \* initial length of _write_history (4 in init)
          ReqLen,       \* initial length of _requests (4 in init)
          UINT64_MAX    \* the largest timestamp

ASSUME ThreadAssumption == IsFiniteSet(Thread)
ASSUME HisLenAssumption == HisLen \in Nat /\ HisLen >= 2
ASSUME ReqLenAssumption == ReqLen \in Nat \ {0}
ASSUME TsAssumption == UINT64_MAX \in Nat \ {0}

Ts == 0 .. UINT64_MAX

NullRow  == -1          \* nullptr
BaseRow  == 0           \* Row_mvcc::row_
FreedRow == -2          \* a RowItem that has been deleted
NoThread == "none"      \* the txn of a request slot never used

WriteHisEntry == [valid : BOOLEAN, reserved : BOOLEAN, ts : Ts,
                  alloc : BOOLEAN,      \* row != nullptr
                  data  : Ts]           \* content of *row
ReqEntry == [valid : BOOLEAN, type : {"R_REQ", "P_REQ"}, ts : Ts,
             txn : Thread \cup {NoThread}]

Pointer == Int
Row == [his : Seq(WriteHisEntry), his_len : Nat,
        requests : Seq(ReqEntry), req_len : Nat,
        row : BOOLEAN, row_data : Ts, latest_row : Pointer,
        latest_wts : Ts, oldest_wts : Ts, num_versions : Nat, max_served_rts : Ts,
        exists_prewrite : BOOLEAN, prewrite_ts : Ts, prewrite_his_id : Nat]

EmptyHis == [valid |-> FALSE, reserved |-> FALSE, ts |-> 0,
             alloc |-> FALSE, data |-> 0]
EmptyReq == [valid |-> FALSE, type |-> "R_REQ", ts |-> 0, txn |-> NoThread]

InitRow ==
  [his |-> [i \in 1 .. HisLen |-> EmptyHis], his_len |-> HisLen,
   requests |-> [i \in 1 .. ReqLen |-> EmptyReq], req_len |-> ReqLen,
   row |-> FALSE, row_data |-> 0,           \* row_ != nullptr and its content
   latest_row |-> NullRow, latest_wts |-> 0, oldest_wts |-> 0,
   num_versions |-> 0, max_served_rts |-> 0,
   exists_prewrite |-> FALSE, prewrite_ts |-> 0, prewrite_his_id |-> 0]

Valid(r) == {i \in 1 .. r.his_len : r.his[i].valid}
Pending(r) == {i \in 1 .. r.req_len : r.requests[i].valid}

\* The content of the RowItem that p points at.
Content(r, p) == IF p = BaseRow THEN r.row_data ELSE r.his[p].data

(***************************************************************************)
(* GetLatestRow: the row is loaded from the page when no version is held.  *)
(***************************************************************************)
GetLatestRow(r, page) ==
  IF r.latest_row = NullRow
  THEN [r EXCEPT !.row = TRUE, !.row_data = page, !.latest_row = BaseRow]
  ELSE r

\* double_list(0) and double_list(1): the second half of the list is empty.
DoubleHistoryMut(r) ==
  [r EXCEPT !.his = [i \in 1 .. 2 * r.his_len |->
                       IF i <= r.his_len THEN r.his[i] ELSE EmptyHis]]
DoubleHistory(r) ==
  [r EXCEPT !.his = [i \in 1 .. 2 * r.his_len |->
                       IF i <= r.his_len THEN r.his[i] ELSE EmptyHis],
            !.his_len = 2 * r.his_len]

DoubleRequests(r) ==
  [r EXCEPT !.requests = [i \in 1 .. 2 * r.req_len |->
                       IF i <= r.req_len THEN r.requests[i] ELSE EmptyReq],
            !.req_len = 2 * r.req_len]

(***************************************************************************)
(* buffer_req: the first free slot of _requests, which is doubled when     *)
(* there is none.                                                          *)
(***************************************************************************)
FreeRequest(r) ==
  {i \in (1 .. r.req_len) \ Pending(r) : \A j \in 1 .. i - 1 : r.requests[j].valid}

buffer_reqMut(r, type, t, ts) ==
  {[r EXCEPT !.requests[1] = [valid |-> TRUE, type |-> type, ts |-> ts, txn |-> t]]}
buffer_req(r, type, t, ts) ==
  LET q == IF Pending(r) = 1 .. r.req_len THEN DoubleRequests(r) ELSE r
  IN {[q EXCEPT !.requests[i] = [valid |-> TRUE, type |-> type, ts |-> ts, txn |-> t]]
        : i \in FreeRequest(q)}

\* The version with the largest timestamp below ts, if there is one.
VersionBefore(r, ts) ==
  {i \in Valid(r) : /\ r.his[i].ts < ts
                    /\ \A j \in Valid(r) : r.his[j].ts < ts => r.his[j].ts <= r.his[i].ts}

OldestVersion(r) == {i \in Valid(r) : \A j \in Valid(r) : r.his[i].ts <= r.his[j].ts}

(***************************************************************************)
(* The garbage collection at the head of reserveRow: the newest version    *)
(* older than every running transaction, and all versions before it, are   *)
(* dropped when the history is full.                                       *)
(***************************************************************************)
DropUpToMut(r, max_recycle_ts) ==
  LET freed == {i \in Valid(r) : r.his[i].ts <= max_recycle_ts}
  IN [r EXCEPT !.his = [i \in 1 .. r.his_len |->
                          IF i \in freed
                          THEN [r.his[i] EXCEPT !.valid = FALSE, !.reserved = FALSE]
                          ELSE r.his[i]],
               !.oldest_wts = max_recycle_ts,
               !.num_versions = @ - Cardinality(freed)]
DropUpTo(r, max_recycle_ts) ==
  LET freed == {i \in Valid(r) : r.his[i].ts <= max_recycle_ts}
  IN [r EXCEPT !.his = [i \in 1 .. r.his_len |->
                          IF i \in freed
                          THEN [r.his[i] EXCEPT !.valid = FALSE, !.reserved = FALSE]
                          ELSE r.his[i]],
               !.oldest_wts = max_recycle_ts,
               !.latest_row = IF @ \in freed THEN NullRow ELSE @,
               !.num_versions = @ - Cardinality(freed)]

CollectGarbage(r, min_ts) ==
  IF /\ r.oldest_wts < min_ts
     /\ r.num_versions = r.his_len
     /\ VersionBefore(r, min_ts) # {}
  THEN {DropUpTo(r, r.his[i].ts) : i \in VersionBefore(r, min_ts)}
  ELSE {r}

\* An unused entry: the first that has a RowItem already, else the last.
UnusedEntry(r) ==
  LET unused == {i \in 1 .. r.his_len : ~r.his[i].valid /\ ~r.his[i].reserved}
      withRow == {i \in unused : r.his[i].alloc}
  IN IF withRow # {} THEN {i \in withRow : \A j \in withRow : i <= j}
                     ELSE {i \in unused : \A j \in unused : j <= i}

\* The tail of reserveRow: entry i is reserved for the prewrite of ts.
ReserveEntryMut(r, i, ts) ==
  [r EXCEPT !.his[i] = [@ EXCEPT !.valid = FALSE, !.reserved = TRUE,
                                 !.ts = ts, !.alloc = TRUE],
            !.exists_prewrite = TRUE, !.prewrite_his_id = i]
ReserveEntry(r, i, ts) ==
  [r EXCEPT !.his[i] = [@ EXCEPT !.valid = FALSE, !.reserved = TRUE,
                                 !.ts = ts, !.alloc = TRUE],
            !.exists_prewrite = TRUE, !.prewrite_his_id = i, !.prewrite_ts = ts]

RecycleOldestMut(r, i, ts) ==
  ReserveEntry([r EXCEPT !.num_versions = @ - 1], i, ts)
RecycleOldest(r, i, ts) ==
  ReserveEntry([r EXCEPT !.oldest_wts = r.his[i].ts, !.num_versions = @ - 1], i, ts)

\* The choice of the entry, once garbage collection is done.
TakeEntry(r, ts) ==
  IF r.num_versions < r.his_len
  THEN {ReserveEntry(r, i, ts) : i \in UnusedEntry(r)}
  ELSE IF r.his_len >= Cardinality(Thread)
       THEN {RecycleOldest(r, i, ts) : i \in OldestVersion(r)}
       ELSE {ReserveEntry(DoubleHistory(r), r.his_len + 1, ts)}

reserveRow(r, ts, min_ts) ==
  UNION {TakeEntry(c, ts) : c \in CollectGarbage(r, min_ts)}

(***************************************************************************)
(* A prewrite is granted: an entry is reserved and the latest version is   *)
(* copied into it (the P_REQ branch of access, and update_buffer).         *)
(***************************************************************************)
CopyLatestMut(r) == r
CopyLatest(r) ==
  [r EXCEPT !.his[r.prewrite_his_id].data = Content(r, r.latest_row)]

GrantPrewrite(r, ts, min_ts, page) ==
  {CopyLatest(GetLatestRow(q, page)) : q \in reserveRow(r, ts, min_ts)}

\* A read of the latest version is granted to a transaction with timestamp ts.
GrantReadMut(r, ts, page) == GetLatestRow(r, page)
GrantRead(r, ts, page) ==
  [GetLatestRow(r, page) EXCEPT !.max_served_rts = IF ts > @ THEN ts ELSE @]

(***************************************************************************)
(* update_buffer: after a write or the undoing of a prewrite by ts, the    *)
(* pending reads older than the next pending prewrite are served, and that *)
(* prewrite is granted.  The loop goes through the slots in order, so the  *)
(* reads in slots before the prewrite's get the latest row as it was       *)
(* before reserveRow, and the others as it is after it.                    *)
(***************************************************************************)
NextPrewriteMut(r, ts) ==
  LET pre == {i \in Pending(r) : r.requests[i].type = "P_REQ" /\ r.requests[i].ts > ts}
  IN {i \in pre : \A j \in pre : r.requests[i].ts >= r.requests[j].ts}
NextPrewrite(r, ts) ==
  LET pre == {i \in Pending(r) : r.requests[i].type = "P_REQ" /\ r.requests[i].ts > ts}
  IN {i \in pre : \A j \in pre : r.requests[i].ts <= r.requests[j].ts}

Release(r, S) ==
  [r EXCEPT !.requests = [i \in 1 .. r.req_len |->
              IF i \in S THEN [r.requests[i] EXCEPT !.valid = FALSE] ELSE r.requests[i]]]

ServeReads(r, S, page) ==
  IF S = {} THEN {r}
  ELSE {Release(GrantRead(r, r.requests[i].ts, page), S) :
          i \in {k \in S : \A j \in S : r.requests[j].ts <= r.requests[k].ts}}

PendingReads(r, S, next_pre_ts) ==
  {i \in Pending(r) \cap S : r.requests[i].type = "R_REQ" /\ r.requests[i].ts < next_pre_ts}

\* The results pair the row with the RowItem each served slot is given.
ServeUpTo(r, j, min_ts, page) ==
  LET next_pre_ts == r.requests[j].ts
      before == PendingReads(r, 1 .. j - 1, next_pre_ts)
      after  == PendingReads(r, j + 1 .. r.req_len, next_pre_ts)
  IN UNION {UNION {{[row |-> s,
                     ptr |-> [i \in before \cup after \cup {j} |->
                                IF i = j THEN s.prewrite_his_id
                                ELSE IF i \in before THEN q.latest_row ELSE s.latest_row]]
                      : s \in ServeReads(Release(g, {j}), after, page)}
                   : g \in GrantPrewrite(q, next_pre_ts, min_ts, page)}
            : q \in ServeReads(r, before, page)}

update_bufferMut(r, ts, min_ts, page) ==
  IF NextPrewrite(r, ts) = {}
  THEN {[row |-> r, ptr |-> <<>>]}
  ELSE UNION {ServeUpTo(r, j, min_ts, page) : j \in NextPrewrite(r, ts)}
update_buffer(r, ts, min_ts, page) ==
  IF NextPrewrite(r, ts) = {}
  THEN LET reads == PendingReads(r, 1 .. r.req_len, UINT64_MAX)
       IN {[row |-> s, ptr |-> [i \in reads |-> s.latest_row]] : s \in ServeReads(r, reads, page)}
  ELSE UNION {ServeUpTo(r, j, min_ts, page) : j \in NextPrewrite(r, ts)}

(***************************************************************************)
(* The four branches of access, up to update_buffer.                       *)
(***************************************************************************)
ReadTooOld(r, ts)  == ts < r.oldest_wts
ReadMustWait(r, ts) == ts > r.latest_wts /\ r.exists_prewrite /\ r.prewrite_ts < ts

\* A read below the latest write that finds no version takes the latest row.
ReadOldVersion(r, ts, page) ==
  IF VersionBefore(r, ts) = {}
  THEN LET s == GetLatestRow(r, page) IN {[row |-> s, ptr |-> s.latest_row]}
  ELSE {[row |-> r, ptr |-> i] : i \in VersionBefore(r, ts)}

ReadLatest(r, ts, page) ==
  LET s == GrantRead(r, ts, page) IN {[row |-> s, ptr |-> s.latest_row]}

Read(r, ts, page) ==
  IF ts > r.latest_wts THEN ReadLatest(r, ts, page) ELSE ReadOldVersion(r, ts, page)

PrewriteTooLate(r, ts) ==
  \/ ts < r.latest_wts
  \/ ts < r.max_served_rts
  \/ r.exists_prewrite /\ r.prewrite_ts > ts

\* W_REQ: the prewrite of ts, in entry p, becomes the latest version.
Install(r, p, ts) ==
  [r EXCEPT !.his[r.prewrite_his_id].valid = TRUE,
            !.his[r.prewrite_his_id].ts = ts,
            !.latest_wts = ts, !.latest_row = p,
            !.row = FALSE,
            !.exists_prewrite = FALSE, !.num_versions = @ + 1]

\* XP_REQ: the prewrite is undone.
Withdraw(r) ==
  [r EXCEPT !.his[r.prewrite_his_id].valid = FALSE,
            !.his[r.prewrite_his_id].reserved = FALSE,
            !.exists_prewrite = FALSE]

(***************************************************************************)
(* What Row_mvcc keeps of a row.                                           *)
(***************************************************************************)
\* The bookkeeping of Row_mvcc agrees with its version list whatever the
\* order of grants, commits, undone prewrites and recycling: _num_versions
\* counts the valid entries and never exceeds the list, their timestamps are
\* distinct and lie in (_oldest_wts, _latest_wts], each holds what its writer
\* stamped, and _latest_row is the version of _latest_wts, or the copy of it
\* loaded from the page, or null with nothing held (the asserts of
\* GetLatestRow).  A version that has been dropped is never newer than
\* _oldest_wts, so that a reader it would have served can tell.
HistoryOK(r, pg) ==
  /\ r.num_versions = Cardinality(Valid(r))
  /\ \A i \in Valid(r) :
       /\ r.his[i].reserved /\ r.his[i].alloc
       /\ r.oldest_wts < r.his[i].ts /\ r.his[i].ts <= r.latest_wts
       /\ r.his[i].data = r.his[i].ts
       /\ \A j \in Valid(r) : r.his[i].ts = r.his[j].ts => i = j
  /\ pg = r.latest_wts
  /\ \/ r.latest_row = NullRow /\ Valid(r) = {} /\ ~r.row
     \/ r.latest_row = BaseRow /\ Valid(r) = {} /\ r.row /\ r.row_data = r.latest_wts
     \/ r.latest_row \in Valid(r) /\ r.his[r.latest_row].ts = r.latest_wts /\ ~r.row

\* At most one prewrite is granted on a row, in the one entry that is reserved
\* and not valid; it is newer than every version and no older than any read
\* served; and every pending request is newer than it (the invariants stated
\* in row_mvcc.h), so a transaction only ever waits for an older one.
PrewriteOK(r) ==
  /\ \A i \in 1 .. r.his_len :
       r.his[i].reserved /\ ~r.his[i].valid <=> r.exists_prewrite /\ i = r.prewrite_his_id
  /\ r.exists_prewrite =>
       /\ r.prewrite_his_id \in 1 .. r.his_len
       /\ r.prewrite_ts > r.latest_wts /\ r.prewrite_ts >= r.max_served_rts
       /\ r.latest_row # NullRow
  /\ \A i \in Pending(r) : r.exists_prewrite /\ r.requests[i].ts > r.prewrite_ts
=============================================================================
