--------------------------- MODULE TxnThreadProofs ---------------------------
(***************************************************************************)
(* The bookkeeping of the worker loop, for every size of the buffer of     *)
(* aborted queries and every number of transactions.                       *)
(***************************************************************************)
EXTENDS TxnThread, FiniteSetTheorems, TLAPS

\* A query is in hand while a transaction runs, and between two transactions
\* exactly if the last one aborted and there is no buffer to put it in.
HandInv ==
  /\ pc = "run" => m_query # NULL
  /\ pc # "run" => (m_query = NULL <=> abort_buffer_enable \/ rc = "RCOK")
  /\ pc # "FINISH" => txn_cnt < MAX_TXN_PER_PART
  /\ ~abort_buffer_enable => empty_slots = ABORT_BUFFER_SIZE

\* The queries drawn are those committed, in the buffer and in hand; counting
\* them this way is what bounds q_idx.
CountInv ==
  q_idx = txn_cnt + (ABORT_BUFFER_SIZE - empty_slots) + (IF m_query = NULL THEN 0 ELSE 1)

\* QueryConserved as one statement for each place a query can be in.
PlaceInv ==
  /\ \A s \in Slot : abort_buffer[s] # NULL =>
       abort_buffer[s] < q_idx /\ abort_buffer[s] \notin committed /\ abort_buffer[s] # m_query
  /\ \A s, u \in Slot : abort_buffer[s] = abort_buffer[u] /\ abort_buffer[s] # NULL => s = u
  /\ m_query # NULL => m_query < q_idx /\ m_query \notin committed
  /\ \A q \in committed : q < q_idx
  /\ \A q \in Nat : q < q_idx =>
       q \in committed \/ q = m_query \/ \E s \in Slot : abort_buffer[s] = q
  /\ IsFiniteSet(committed) /\ txn_cnt = Cardinality(committed)

WorkerInv == TypeOK /\ RoomForAbort /\ HandInv /\ CountInv /\ PlaceInv

USE DEF NULL

-----------------------------------------------------------------------------
\* The used slots are finitely many.
LEMMA UsedFinite == IsFiniteSet(Used)
<1>1. IsFiniteSet(Slot)
  BY FS_Interval, SizeAssumption DEF Slot
<1>2. Used \in SUBSET Slot
  BY DEF Used
<1> QED
  BY <1>1, <1>2, FS_Subset

\* An empty slot takes a query (thread.cpp 199).
LEMMA FillSlot ==
  ASSUME abort_buffer \in [Slot -> Nat \cup {NULL}], NEW s \in Slot \ Used, NEW q \in Nat,
         abort_buffer' = [abort_buffer EXCEPT ![s] = q]
  PROVE  Cardinality(Used') = Cardinality(Used) + 1
<1>1. Used' = Used \cup {s}
  BY DEF Used
<1>2. s \notin Used
  OBVIOUS
<1> QED
  BY <1>1, <1>2, UsedFinite, FS_AddElement

\* A used slot gives its query up (thread.cpp 99).
LEMMA ClearSlot ==
  ASSUME abort_buffer \in [Slot -> Nat \cup {NULL}], NEW s \in Used,
         abort_buffer' = [abort_buffer EXCEPT ![s] = NULL]
  PROVE  Cardinality(Used') = Cardinality(Used) - 1
<1>1. Used' = Used \ {s}
  BY DEF Used
<1> QED
  BY <1>1, UsedFinite, FS_RemoveElement

\* The number of used slots is a number, and there is an empty slot, or none,
\* according to the counter.
LEMMA UsedNat == Cardinality(Used) \in Nat
  BY UsedFinite, FS_CardinalityType

-----------------------------------------------------------------------------
\* WorkerInv holds when the worker starts.
LEMMA WorkerInit == Init => WorkerInv
<1> SUFFICES ASSUME Init PROVE WorkerInv
  OBVIOUS
<1> USE SizeAssumption, MaxTxnAssumption, PenaltyAssumption DEF Init
<1>1. TypeOK
  BY DEF TypeOK
<1>2. Used = {}
  BY DEF Used
<1>3. RoomForAbort
  BY <1>2, FS_EmptySet DEF RoomForAbort
<1>4. HandInv /\ CountInv
  BY DEF HandInv, CountInv
<1>5. PlaceInv
  BY FS_EmptySet DEF PlaceInv
<1> QED
  BY <1>1, <1>3, <1>4, <1>5 DEF WorkerInv

\* Time passes: only the waiting times change.
LEMMA WorkerTick ==
  ASSUME WorkerInv, Tick
  PROVE  WorkerInv'
<1> USE DEF WorkerInv, Tick
<1>1. TypeOK'
  BY PenaltyAssumption DEF TypeOK
<1>2. RoomForAbort' /\ HandInv' /\ CountInv' /\ PlaceInv'
  BY DEF RoomForAbort, HandInv, CountInv, PlaceInv, Used
<1> QED
  BY <1>1, <1>2

\* An aborted query is taken from its slot.
LEMMA WorkerPickAborted ==
  ASSUME WorkerInv, PickAborted
  PROVE  WorkerInv'
<1>1. PICK s \in FirstReady : /\ m_query' = abort_buffer[s]
                              /\ abort_buffer' = [abort_buffer EXCEPT ![s] = NULL]
  BY DEF PickAborted
<1>2. s \in Used /\ s \in Slot /\ abort_buffer[s] # NULL
  BY DEF FirstReady, Ready, Used
<1>3. TypeOK
  BY DEF WorkerInv
<1>4. abort_buffer[s] \in Nat
  BY <1>2, <1>3 DEF TypeOK
<1>5. Cardinality(Used') = Cardinality(Used) - 1
  BY <1>1, <1>2, <1>3, ClearSlot DEF TypeOK
<1>6. TypeOK'
  <2>1. abort_buffer' \in [Slot -> Nat \cup {NULL}]
    BY <1>1, <1>3 DEF TypeOK
  <2>2. empty_slots' \in 0 .. ABORT_BUFFER_SIZE /\ m_query' \in Nat \cup {NULL}
    BY <1>1, <1>3, <1>4, SizeAssumption DEF TypeOK, PickAborted
  <2> QED
    BY <1>3, <2>1, <2>2 DEF TypeOK, PickAborted
<1>7. m_query = NULL
  BY DEF WorkerInv, HandInv, PickAborted
<1>8. RoomForAbort'
  BY <1>3, <1>5, UsedNat, SizeAssumption DEF WorkerInv, RoomForAbort, PickAborted, TypeOK
<1>9. HandInv'
  BY <1>1, <1>2 DEF WorkerInv, HandInv, PickAborted
<1>10. CountInv'
  BY <1>1, <1>2, <1>3, <1>7, SizeAssumption DEF WorkerInv, CountInv, PickAborted, TypeOK
<1>11. PlaceInv'
  <2>1. \A u \in Slot : abort_buffer'[u] = IF u = s THEN NULL ELSE abort_buffer[u]
    BY <1>1, <1>3 DEF TypeOK
  <2>2. m_query' \notin committed /\ m_query' < q_idx
    BY <1>1, <1>2 DEF WorkerInv, PlaceInv
  <2>3. \A u \in Slot : abort_buffer'[u] # NULL => abort_buffer'[u] # m_query'
    BY <1>1, <1>2, <2>1 DEF WorkerInv, PlaceInv
  <2>4. UNCHANGED <<q_idx, committed, txn_cnt>>
    BY DEF PickAborted
  <2>5. \A q \in Nat : q < q_idx =>
          q \in committed \/ q = m_query' \/ \E u \in Slot : abort_buffer'[u] = q
    BY <1>1, <1>2, <1>7, <2>1 DEF WorkerInv, PlaceInv
  <2> QED
    BY <2>1, <2>2, <2>3, <2>4, <2>5 DEF WorkerInv, PlaceInv
<1> QED
  BY <1>6, <1>8, <1>9, <1>10, <1>11 DEF WorkerInv

\* A new query is drawn, by either branch of run.
LEMMA WorkerPickNew ==
  ASSUME WorkerInv, PickNew \/ (PickNoBuffer /\ DrawsNew)
  PROVE  WorkerInv'
<1>1. /\ pc = "pick" /\ pc' = "run" /\ m_query' = q_idx /\ q_idx' = q_idx + 1
      /\ UNCHANGED <<abort_buffer_enable, abort_buffer, left, empty_slots, rc, txn_cnt, committed>>
      /\ abort_buffer_enable \/ rc = "RCOK"
      /\ abort_buffer_enable => empty_slots # 0
  BY DEF PickNew, PickNoBuffer, DrawsNew, Room
<1>2. TypeOK
  BY DEF WorkerInv
<1>3. TypeOK'
  BY <1>1, <1>2 DEF TypeOK
<1>4. m_query = NULL
  BY <1>1 DEF WorkerInv, HandInv
<1>5. q_idx \in Nat /\ q_idx # NULL
  BY <1>2 DEF TypeOK
<1>6. RoomForAbort'
  BY <1>1, <1>2, SizeAssumption DEF WorkerInv, RoomForAbort, HandInv, TypeOK, Used
<1>7. HandInv'
  BY <1>1, <1>5 DEF WorkerInv, HandInv
<1>8. CountInv'
  BY <1>1, <1>2, <1>4, <1>5, SizeAssumption DEF WorkerInv, CountInv, TypeOK
<1>9. PlaceInv'
  <2>1. \A q \in committed : q \in Nat /\ q < q_idx
    BY <1>2 DEF WorkerInv, PlaceInv, TypeOK
  <2>2. \A s \in Slot : abort_buffer[s] \in Nat \cup {NULL}
    BY <1>2 DEF TypeOK
  <2>3. \A q \in Nat : q < q_idx + 1 =>
          q \in committed \/ q = q_idx \/ \E s \in Slot : abort_buffer[s] = q
    BY <1>4, <1>5 DEF WorkerInv, PlaceInv
  <2>4. \A s \in Slot : abort_buffer[s] # NULL =>
          abort_buffer[s] < q_idx + 1 /\ abort_buffer[s] \notin committed /\ abort_buffer[s] # q_idx
    BY <1>5, <2>2 DEF WorkerInv, PlaceInv
  <2>5. q_idx < q_idx + 1 /\ q_idx \notin committed /\ \A q \in committed : q < q_idx + 1
    BY <1>5, <2>1
  <2> QED
    BY <1>1, <2>3, <2>4, <2>5 DEF WorkerInv, PlaceInv
<1> QED
  BY <1>3, <1>6, <1>7, <1>8, <1>9 DEF WorkerInv

\* Without the buffer the aborted query is run again.
LEMMA WorkerKeep ==
  ASSUME WorkerInv, PickNoBuffer, ~DrawsNew
  PROVE  WorkerInv'
<1> USE DEF WorkerInv, PickNoBuffer, DrawsNew
<1>1. TypeOK'
  BY DEF TypeOK
<1>2. RoomForAbort'
  BY SizeAssumption DEF RoomForAbort, HandInv, Used, TypeOK
<1>3. HandInv' /\ CountInv' /\ PlaceInv'
  BY DEF HandInv, CountInv, PlaceInv
<1> QED
  BY <1>1, <1>2, <1>3

\* The transaction commits: its query leaves the hand for good.
LEMMA WorkerCommit ==
  ASSUME WorkerInv, Commit
  PROVE  WorkerInv'
<1>1. TypeOK
  BY DEF WorkerInv
<1>2. /\ m_query \in Nat /\ m_query # NULL /\ m_query \notin committed
      /\ txn_cnt < MAX_TXN_PER_PART
  BY <1>1 DEF WorkerInv, HandInv, PlaceInv, Commit, TypeOK
<1>3. txn_cnt + 1 \in 0 .. MAX_TXN_PER_PART
  BY <1>1, <1>2, MaxTxnAssumption DEF TypeOK
<1>4. TypeOK'
  BY <1>1, <1>2, <1>3 DEF TypeOK, Commit
<1>5. RoomForAbort'
  BY DEF WorkerInv, RoomForAbort, Commit, Used
<1>6. HandInv'
  BY <1>3, MaxTxnAssumption DEF WorkerInv, HandInv, Commit, Enough
<1>7. CountInv'
  BY <1>1, <1>2, SizeAssumption DEF WorkerInv, CountInv, Commit, TypeOK
<1>8. PlaceInv'
  <2>1. /\ committed' = committed \cup {m_query} /\ m_query' = NULL
        /\ UNCHANGED <<abort_buffer, q_idx>>
    BY DEF Commit
  <2>2. IsFiniteSet(committed') /\ Cardinality(committed') = Cardinality(committed) + 1
    BY <1>2, <2>1, FS_AddElement DEF WorkerInv, PlaceInv
  <2>3. \A s \in Slot : abort_buffer[s] # NULL =>
          abort_buffer[s] < q_idx /\ abort_buffer[s] \notin committed'
    BY <2>1 DEF WorkerInv, PlaceInv
  <2>4. \A q \in committed' : q < q_idx
    BY <1>2, <2>1 DEF WorkerInv, PlaceInv
  <2>5. txn_cnt' = Cardinality(committed')
    BY <2>2 DEF WorkerInv, PlaceInv, Commit
  <2> QED
    BY <2>1, <2>2, <2>3, <2>4, <2>5 DEF WorkerInv, PlaceInv
<1> QED
  BY <1>4, <1>5, <1>6, <1>7, <1>8 DEF WorkerInv

\* The transaction aborts and its query goes to an empty slot.
LEMMA WorkerAbort ==
  ASSUME WorkerInv, Abort, abort_buffer_enable
  PROVE  WorkerInv'
<1>1. PICK s \in FirstEmpty, penalty \in 0 .. MaxPenalty :
        /\ abort_buffer' = [abort_buffer EXCEPT ![s] = m_query]
        /\ left' = [left EXCEPT ![s] = penalty]
  BY DEF Abort
<1>2. s \in Slot \ Used /\ abort_buffer[s] = NULL
  BY DEF FirstEmpty, Used
<1>3. TypeOK
  BY DEF WorkerInv
<1>4. m_query \in Nat /\ m_query # NULL /\ m_query < q_idx /\ m_query \notin committed
  BY <1>3 DEF WorkerInv, HandInv, PlaceInv, Abort, TypeOK
<1>5. Cardinality(Used') = Cardinality(Used) + 1
  BY <1>1, <1>2, <1>3, <1>4, FillSlot DEF TypeOK
<1>6. empty_slots' = empty_slots - 1 /\ m_query' = NULL /\ pc' = "pick" /\ rc' = "Abort"
  BY DEF Abort
<1>7. TypeOK'
  <2>1. abort_buffer' \in [Slot -> Nat \cup {NULL}]
    BY <1>1, <1>3, <1>4 DEF TypeOK
  <2>2. left' \in [Slot -> -1 .. MaxPenalty]
    <3>1. penalty \in -1 .. MaxPenalty
      BY PenaltyAssumption
    <3>2. left \in [Slot -> -1 .. MaxPenalty]
      BY <1>3 DEF TypeOK
    <3> HIDE DEF NULL
    <3> QED
      BY <1>1, <3>1, <3>2
  <2>3. empty_slots' \in 0 .. ABORT_BUFFER_SIZE
    BY <1>3, <1>6, SizeAssumption DEF TypeOK, WorkerInv, RoomForAbort, Abort
  <2> QED
    BY <1>3, <1>6, <2>1, <2>2, <2>3 DEF TypeOK, Abort
<1>8. RoomForAbort'
  BY <1>3, <1>5, <1>6, UsedNat, SizeAssumption DEF WorkerInv, RoomForAbort, TypeOK
<1>9. HandInv'
  BY <1>6 DEF WorkerInv, HandInv, Abort
<1>10. CountInv'
  BY <1>3, <1>4, <1>6, SizeAssumption DEF WorkerInv, CountInv, Abort, TypeOK
<1>11. PlaceInv'
  <2>1. \A u \in Slot : abort_buffer'[u] = IF u = s THEN m_query ELSE abort_buffer[u]
    BY <1>1, <1>3 DEF TypeOK
  <2>2. UNCHANGED <<q_idx, committed, txn_cnt>>
    BY DEF Abort
  <2>3. \A u \in Slot : abort_buffer'[u] # NULL =>
          abort_buffer'[u] < q_idx /\ abort_buffer'[u] \notin committed
    BY <1>4, <2>1 DEF WorkerInv, PlaceInv
  <2>4. \A u, v \in Slot : abort_buffer'[u] = abort_buffer'[v] /\ abort_buffer'[u] # NULL => u = v
    BY <1>4, <2>1 DEF WorkerInv, PlaceInv
  <2>5. \A q \in Nat : q < q_idx => q \in committed \/ \E u \in Slot : abort_buffer'[u] = q
    BY <1>2, <1>4, <2>1 DEF WorkerInv, PlaceInv
  <2> QED
    BY <1>6, <2>2, <2>3, <2>4, <2>5 DEF WorkerInv, PlaceInv
<1> QED
  BY <1>7, <1>8, <1>9, <1>10, <1>11 DEF WorkerInv

\* The transaction aborts and its query stays in hand.
LEMMA WorkerAbortKeep ==
  ASSUME WorkerInv, Abort, ~abort_buffer_enable
  PROVE  WorkerInv'
<1> USE DEF WorkerInv, Abort
<1>1. TypeOK'
  BY DEF TypeOK
<1>2. RoomForAbort' /\ HandInv' /\ CountInv' /\ PlaceInv'
  BY DEF RoomForAbort, HandInv, CountInv, PlaceInv, Used
<1> QED
  BY <1>1, <1>2

\* Every step of the worker keeps WorkerInv.
LEMMA WorkerStep == WorkerInv /\ [Next]_vars => WorkerInv'
<1> SUFFICES ASSUME WorkerInv, [Next]_vars PROVE WorkerInv'
  OBVIOUS
<1>1. CASE Tick
  BY <1>1, WorkerTick
<1>2. CASE PickAborted
  BY <1>2, WorkerPickAborted
<1>3. CASE PickNew
  BY <1>3, WorkerPickNew
<1>4. CASE PickNoBuffer
  BY <1>4, WorkerPickNew, WorkerKeep
<1>5. CASE Commit
  BY <1>5, WorkerCommit
<1>6. CASE Abort
  BY <1>6, WorkerAbort, WorkerAbortKeep
<1>7. CASE UNCHANGED vars
  <2> USE <1>7 DEF vars, WorkerInv
  <2>1. TypeOK' /\ RoomForAbort'
    BY DEF TypeOK, RoomForAbort, Used
  <2>2. HandInv' /\ CountInv' /\ PlaceInv'
    BY DEF HandInv, CountInv, PlaceInv
  <2> QED
    BY <2>1, <2>2
<1> QED
  BY <1>1, <1>2, <1>3, <1>4, <1>5, <1>6, <1>7 DEF Next, Finished

\* WorkerInv always holds.
THEOREM Worker == Spec => []WorkerInv
  BY WorkerInit, WorkerStep, PTL DEF Spec

-----------------------------------------------------------------------------
\* The variables of the worker loop have their types: in particular the counter
\* of empty slots never leaves 0 .. ABORT_BUFFER_SIZE and no more transactions
\* are counted than asked for.
THEOREM WorkerTypes == Spec => []TypeOK
<1>1. WorkerInv => TypeOK
  BY DEF WorkerInv
<1> QED
  BY <1>1, Worker, PTL

\* The assert of thread_t::run on the empty slots never fails, whatever the
\* size of the buffer and the order of commits and aborts.
THEOREM AbortHasRoom == Spec => []RoomForAbort
<1>1. WorkerInv => RoomForAbort
  BY DEF WorkerInv
<1> QED
  BY <1>1, Worker, PTL

\* Each query that get_next_query handed out is in exactly one place, and the
\* transactions counted are the queries that committed.
THEOREM QueriesConserved == Spec => []QueryConserved
<1>1. WorkerInv => QueryConserved
  <2> SUFFICES ASSUME WorkerInv PROVE QueryConserved
    OBVIOUS
  <2>1. q_idx \in Nat /\ committed \subseteq Nat /\ m_query \in Nat \cup {NULL}
        /\ \A s \in Slot : abort_buffer[s] \in Nat \cup {NULL}
    BY DEF WorkerInv, TypeOK
  <2>2. ASSUME NEW q \in 0 .. q_idx - 1
        PROVE  \/ q \in committed /\ q # m_query /\ \A s \in Slot : abort_buffer[s] # q
               \/ q \notin committed /\ q = m_query /\ \A s \in Slot : abort_buffer[s] # q
               \/ q \notin committed /\ q # m_query /\ \E s \in Slot :
                    abort_buffer[s] = q /\ \A u \in Slot \ {s} : abort_buffer[u] # q
    <3>1. q \in Nat /\ q < q_idx /\ q # NULL
      BY <2>1
    <3>2. q \in committed \/ q = m_query \/ \E s \in Slot : abort_buffer[s] = q
      BY <3>1 DEF WorkerInv, PlaceInv
    <3> QED
      BY <3>1, <3>2 DEF WorkerInv, PlaceInv
  <2>3. committed \subseteq 0 .. q_idx - 1
    BY <2>1 DEF WorkerInv, PlaceInv
  <2>4. m_query < q_idx /\ \A s \in Slot : abort_buffer[s] < q_idx
    BY <2>1 DEF WorkerInv, PlaceInv
  <2>5. txn_cnt = Cardinality(committed)
    BY DEF WorkerInv, PlaceInv
  <2> QED
    BY <2>2, <2>3, <2>4, <2>5 DEF QueryConserved
<1> QED
  BY <1>1, Worker, PTL

\* get_next_query stays inside the array that Query_thd::init allocated, when
\* the array was sized with the buffer (ABORT_BUFFER_ENABLE, as config.h has it).
THEOREM QueueBounded ==
  ASSUME ABORT_BUFFER_ENABLE
  PROVE  Spec => []QueueNotOverrun
<1>1. WorkerInv => QueueNotOverrun
  BY SizeAssumption, MaxTxnAssumption
  DEF WorkerInv, CountInv, HandInv, RoomForAbort, TypeOK, QueueNotOverrun, query_cnt
<1> QED
  BY <1>1, Worker, PTL
=============================================================================
