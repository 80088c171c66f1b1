------------------------------ MODULE TxnThread ------------------------------
(***************************************************************************)
(* The loop of one worker, thread_t::run, with its query queue             *)
(* (Query_thd) and its buffer of aborted queries.  Running a transaction   *)
(* is one step with either outcome.  Threads share nothing of this state.  *)
(*                                                                         *)
(* A query is its index in Query_thd::queries.  Time is kept relative: the *)
(* entry left[s] is ready_time minus the current time, and -1 once the     *)
(* ready time has passed.  m_query is NULL between two transactions; in    *)
(* the code it keeps its old value until it is replaced.                   *)
(*                                                                         *)
(* An operator whose name ends in Mut is the next one with a fault in it;  *)
(* no specification uses it.                                               *)
(***************************************************************************)
EXTENDS Integers, FiniteSets

CONSTANTS ABORT_BUFFER_SIZE,
          ABORT_BUFFER_ENABLE,    \* the macro: queries generated for the buffer
          MAX_TXN_PER_PART,
          MaxPenalty              \* bound on the penalty of an abort

ASSUME SizeAssumption == ABORT_BUFFER_SIZE \in Nat \ {0}
ASSUME EnableAssumption == ABORT_BUFFER_ENABLE \in BOOLEAN
ASSUME MaxTxnAssumption == MAX_TXN_PER_PART \in Nat \ {0}
ASSUME PenaltyAssumption == MaxPenalty \in Nat

VARIABLES
  abort_buffer_enable,  \* _abort_buffer_enable, from g_params
  abort_buffer,   \* the query in each slot
  left,           \* and the time until it is ready
  empty_slots,    \* _abort_buffer_empty_slots
  q_idx,          \* Query_thd::q_idx
  m_query,        \* the query in hand
  rc,             \* the outcome of the last transaction
  txn_cnt,
  pc,
  committed       \* history variable: the queries that have committed

vars == <<abort_buffer_enable, abort_buffer, left, empty_slots, q_idx, m_query, rc, txn_cnt, pc, committed>>

Slot == 1 .. ABORT_BUFFER_SIZE
NULL == -1
\* Query_thd::init: the queries that are generated.
query_cntMut == MAX_TXN_PER_PART
query_cnt == MAX_TXN_PER_PART + 4 + (IF ABORT_BUFFER_ENABLE THEN ABORT_BUFFER_SIZE ELSE 0)

Used == {s \in Slot : abort_buffer[s] # NULL}

\* g_params holds what parser() read, or nothing when main does not call it.
Init ==
  /\ abort_buffer_enable \in BOOLEAN
  /\ abort_buffer = [s \in Slot |-> NULL]
  /\ left = [s \in Slot |-> -1]
  /\ empty_slots = ABORT_BUFFER_SIZE
  /\ q_idx = 0
  /\ m_query = NULL
  /\ rc = "RCOK"
  /\ txn_cnt = 0
  /\ pc = "pick"
  /\ committed = {}

Tick ==
  /\ \E s \in Used : left[s] >= 0
  /\ left' = [s \in Slot |-> IF left[s] >= 0 THEN left[s] - 1 ELSE -1]
  /\ UNCHANGED <<abort_buffer_enable, abort_buffer, empty_slots, q_idx, m_query, rc, txn_cnt, pc, committed>>

\* The first slot whose query may run again (curr_time > ready_time).
ReadyMut == {s \in Used : left[s] = 0}
Ready == {s \in Used : left[s] = -1}
FirstReady == {s \in Ready : \A u \in Ready : s <= u}

PickAborted ==
  /\ pc = "pick" /\ abort_buffer_enable
  /\ empty_slots < ABORT_BUFFER_SIZE
  /\ \E s \in FirstReady :
       /\ m_query' = abort_buffer[s]
       /\ abort_buffer' = [abort_buffer EXCEPT ![s] = NULL]
  /\ empty_slots' = empty_slots + 1
  /\ pc' = "run"
  /\ UNCHANGED <<abort_buffer_enable, left, q_idx, rc, txn_cnt, committed>>

\* None is ready: a new query, unless the buffer is full (then the thread
\* sleeps and looks again).
RoomMut == TRUE
Room == empty_slots # 0

PickNew ==
  /\ pc = "pick" /\ abort_buffer_enable
  /\ empty_slots < ABORT_BUFFER_SIZE => Ready = {}
  /\ Room
  /\ m_query' = q_idx
  /\ q_idx' = q_idx + 1
  /\ pc' = "run"
  /\ UNCHANGED <<abort_buffer_enable, abort_buffer, left, empty_slots, rc, txn_cnt, committed>>

\* Without the buffer an aborted query is simply kept in hand.
DrawsNew == rc = "RCOK"

PickNoBuffer ==
  /\ pc = "pick" /\ ~abort_buffer_enable
  /\ IF DrawsNew THEN /\ m_query' = q_idx
                      /\ q_idx' = q_idx + 1
                 ELSE UNCHANGED <<m_query, q_idx>>
  /\ pc' = "run"
  /\ UNCHANGED <<abort_buffer_enable, abort_buffer, left, empty_slots, rc, txn_cnt, committed>>

EnoughMut(n) == n > MAX_TXN_PER_PART
Enough(n) == n >= MAX_TXN_PER_PART

Commit ==
  /\ pc = "run"
  /\ rc' = "RCOK"
  /\ txn_cnt' = txn_cnt + 1
  /\ pc' = IF Enough(txn_cnt') THEN "FINISH" ELSE "pick"
  /\ committed' = committed \cup {m_query}
  /\ m_query' = NULL
  /\ UNCHANGED <<abort_buffer_enable, abort_buffer, left, empty_slots, q_idx>>

\* The first empty slot takes the query.
FirstEmptyMut == {1}
FirstEmpty == {s \in Slot \ Used : \A u \in Slot \ Used : s <= u}

Abort ==
  /\ pc = "run"
  /\ rc' = "Abort"
  /\ IF abort_buffer_enable
     THEN /\ \E s \in FirstEmpty, penalty \in 0 .. MaxPenalty :
               /\ abort_buffer' = [abort_buffer EXCEPT ![s] = m_query]
               /\ left' = [left EXCEPT ![s] = penalty]
          /\ empty_slots' = empty_slots - 1
          /\ m_query' = NULL
     ELSE UNCHANGED <<abort_buffer, left, empty_slots, m_query>>
  /\ pc' = "pick"
  /\ UNCHANGED <<abort_buffer_enable, q_idx, txn_cnt, committed>>

\* run returns FINISH.
Finished == pc = "FINISH" /\ UNCHANGED vars

Next == Tick \/ PickAborted \/ PickNew \/ PickNoBuffer \/ Commit \/ Abort \/ Finished

Spec == Init /\ [][Next]_vars

\* Time passes and the thread goes on; which transactions abort is open.
Fairness == WF_vars(Tick) /\ WF_vars(PickAborted) /\ WF_vars(PickNew)
            /\ WF_vars(PickNoBuffer) /\ WF_vars(Commit \/ Abort)
FairSpec == Spec /\ Fairness
-----------------------------------------------------------------------------
\* Every variable has its type.
TypeOK ==
  /\ abort_buffer_enable \in BOOLEAN
  /\ abort_buffer \in [Slot -> Nat \cup {NULL}]
  /\ left \in [Slot -> -1 .. MaxPenalty]
  /\ empty_slots \in 0 .. ABORT_BUFFER_SIZE
  /\ q_idx \in Nat
  /\ m_query \in Nat \cup {NULL}
  /\ rc \in {"RCOK", "Abort"}
  /\ txn_cnt \in 0 .. MAX_TXN_PER_PART
  /\ pc \in {"pick", "run", "FINISH"}
  /\ committed \in SUBSET Nat

\* The counter of empty slots is the number of empty slots, and whenever a
\* transaction runs there is room for its query should it abort: the assert
\* _abort_buffer_empty_slots > 0 cannot fail, however long the aborts go on.
RoomForAbort ==
  /\ empty_slots = ABORT_BUFFER_SIZE - Cardinality(Used)
  /\ pc = "run" => empty_slots > 0

\* No query is lost or run twice: every query drawn from the queue is in
\* exactly one place - committed, in a slot of the buffer, or in hand - and
\* the committed ones are what txn_cnt counts.
QueryConserved ==
  /\ \A q \in 0 .. q_idx - 1 :
       \/ q \in committed /\ q # m_query /\ \A s \in Slot : abort_buffer[s] # q
       \/ q \notin committed /\ q = m_query /\ \A s \in Slot : abort_buffer[s] # q
       \/ q \notin committed /\ q # m_query /\ \E s \in Slot :
            abort_buffer[s] = q /\ \A u \in Slot \ {s} : abort_buffer[u] # q
  /\ \A s \in Slot : abort_buffer[s] < q_idx
  /\ m_query < q_idx
  /\ committed \subseteq 0 .. q_idx - 1
  /\ txn_cnt = Cardinality(committed)

\* get_next_query never reads past the queries that were generated, although
\* it does not check: q_idx stays within query_cnt when commits and aborts
\* alternate in any way.
QueueNotOverrun == q_idx <= query_cnt

\* A worker with a full buffer does not stop: it is at its end or picks again.
KeepsWorking == pc = "pick" ~> pc = "run"
=============================================================================
