------------------------------ MODULE PageLock ------------------------------
(***************************************************************************)
(* Page ownership between instances.  GlobalLock records which instance    *)
(* owns each page (global_lock.cpp); an instance's LockTable records the   *)
(* local mode of each page (lock_table.cpp); a transaction obtains the     *)
(* pages it writes in GetWritePageLock and pins them (ycsb_txn.cpp), and   *)
(* RowHandler::WriteRow writes them (row_handler.cpp).                     *)
(*                                                                         *)
(* The chain of synchronous RPCs worker -> GlobalLock -> LockInvalid at    *)
(* the owner and back is followed in the pc of the requesting thread.      *)
(* lock_mode, invalid_req and lock_remoting are plain fields: a step reads *)
(* or writes them without the node's mutex exactly where the code does.    *)
(* The content of a page is the number of writes it contains.              *)
(*                                                                         *)
(* A call that fails (no answer in time, a lost connection) ends in        *)
(* assert(false) at its caller, and the caller's process stops; a handler  *)
(* that is already running goes on.  The RPC library sends a request again *)
(* when the connection is lost while the answer is on its way.             *)
(*                                                                         *)
(* An operator whose name ends in Mut is the next one with a fault in it;  *)
(* no specification uses it.                                               *)
(***************************************************************************)
EXTENDS Integers, FiniteSets

CONSTANTS Instance,     \* the instances
          Thread,       \* the worker threads of all instances
          Ins,          \* the instance of each thread
          Page,         \* page ids
          WriteSet,     \* the write page sets of the queries
          MaxWrites,    \* bound on the writes to a page
          Unreliable    \* the threads whose remote calls may fail

NoInstance == "none"    \* write_ins_id = -1; also the host id of GlobalLock
NoPage == -1

ASSUME InsAssumption == Ins \in [Thread -> Instance]
ASSUME InstanceAssumption == NoInstance \notin Instance
ASSUME PageAssumption == Page \subseteq Nat
ASSUME WriteSetAssumption == WriteSet \subseteq SUBSET Page
ASSUME MaxWritesAssumption == MaxWrites \in Nat
ASSUME UnreliableAssumption == Unreliable \subseteq Thread

VARIABLES
  \* LockTable of each instance
  lock_mode, count, thread_set, invalid_req, lock_remoting,
  mtx,            \* LockNode::mtx is held by LockInvalid
  buf,            \* the page in the instance's buffer
  \* GlobalLock
  write_ins_id,
  gmtx,           \* LockNode::mtx of GlobalLock is held
  \* each worker thread
  pc,
  wset,           \* write_page_set
  todo,           \* the pages its current loop has still to visit
  iter,           \* the page it is at
  page_buf,       \* the page content it carries
  crashed,        \* the assertion that stopped each process, or "no"
  \* history variables, never read by the actions
  total,          \* the number of writes made to each page
  overtaken,      \* pages where a revocation passed a grant not yet installed
  early,          \* pages a local thread wrote before the granted content was stored
  resent          \* pages whose new content was lost with the answer that had it

nodeVars == <<lock_mode, count, thread_set, invalid_req, lock_remoting, mtx>>
globalVars == <<write_ins_id, gmtx>>
threadVars == <<pc, wset, todo, iter, page_buf>>
ghostVars == <<total, overtaken, early, resent>>
vars == <<nodeVars, buf, globalVars, threadVars, crashed, ghostVars>>


\* The thread holds lock_remoting of its page, in these states.
Fetching == {"call", "invalid", "waiting", "revoked", "answer", "reply", "put"}
\* Its LockRemote call holds the mutex of the page in GlobalLock, in these.
Serving == {"invalid", "waiting", "revoked", "answer"}
Local == {"start", "check", "mode", "cas", "lost", "spin", "spun",
          "pin", "add", "run", "lockx", "load", "store", "unlock", "unpin"}
Label == Local \cup Fetching
\* The processes: the instances and GlobalLock.
Process == Instance \cup {NoInstance}
\* Where a process may have stopped on a failed assert.
Stop == {"no", "rpc", "lost", "spun", "count", "answer", "reply", "pin", "run", "lockx", "unpin"}

Init ==
  /\ lock_mode = [i \in Instance |-> [p \in Page |-> "O"]]
  /\ count = [i \in Instance |-> [p \in Page |-> 0]]
  /\ thread_set = [i \in Instance |-> [p \in Page |-> {}]]
  /\ invalid_req = [i \in Instance |-> [p \in Page |-> FALSE]]
  /\ lock_remoting = [i \in Instance |-> [p \in Page |-> FALSE]]
  /\ mtx = [i \in Instance |-> [p \in Page |-> FALSE]]
  /\ buf = [i \in Instance |-> [p \in Page |-> 0]]
  /\ write_ins_id = [p \in Page |-> NoInstance]
  /\ gmtx = [p \in Page |-> FALSE]
  /\ pc = [t \in Thread |-> "start"]
  /\ wset = [t \in Thread |-> {}]
  /\ todo = [t \in Thread |-> {}]
  /\ iter = [t \in Thread |-> NoPage]
  /\ page_buf = [t \in Thread |-> 0]
  /\ crashed = [i \in Process |-> "no"]
  /\ total = [p \in Page |-> 0]
  /\ overtaken = {}
  /\ early = {}
  /\ resent = {}

-----------------------------------------------------------------------------
Alive(t) == crashed[Ins[t]] = "no"
At(t, label) == pc[t] = label /\ Alive(t)
Goto(t, label) == pc' = [pc EXCEPT ![t] = label]

\* A std::set is visited in ascending order.
First(t) == {p \in todo[t] : \A q \in todo[t] : p <= q}

Mode(t, p) == lock_mode[Ins[t]][p]

\* The body of a loop over pages is done: its locals go out of scope.
NextPage(t, label) ==
  /\ todo' = [todo EXCEPT ![t] = @ \ {iter[t]}]
  /\ iter' = [iter EXCEPT ![t] = NoPage]
  /\ Goto(t, label)

\* A failed assert stops process i.
Fail(i, where) ==
  /\ crashed' = [crashed EXCEPT ![i] = where]
  /\ UNCHANGED <<nodeVars, buf, globalVars, threadVars, ghostVars>>

(***************************************************************************)
(* GetWritePageLock: wait until no page of the write set is being          *)
(* invalidated.  The flags are read one page after the other.              *)
(***************************************************************************)
Start(t) ==
  /\ At(t, "start")
  /\ \E w \in WriteSet :
       /\ wset' = [wset EXCEPT ![t] = w]
       /\ todo' = [todo EXCEPT ![t] = w]
  /\ Goto(t, "check")
  /\ UNCHANGED <<nodeVars, buf, globalVars, iter, page_buf, crashed, ghostVars>>

HasInvalidReqMut(t, p) == FALSE
HasInvalidReq(t, p) == invalid_req[Ins[t]][p]

CheckInvalid(t) ==
  /\ At(t, "check")
  /\ \/ /\ \E p \in First(t) :
             todo' = [todo EXCEPT ![t] = IF HasInvalidReq(t, p) THEN wset[t] ELSE @ \ {p}]
        /\ UNCHANGED pc
     \/ /\ todo[t] = {}
        /\ todo' = [todo EXCEPT ![t] = wset[t]]
        /\ Goto(t, "mode")
  /\ UNCHANGED <<nodeVars, buf, globalVars, wset, iter, page_buf, crashed, ghostVars>>

(***************************************************************************)
(* The loop that fetches the pages the instance does not own.              *)
(***************************************************************************)
TestMode(t) ==
  /\ At(t, "mode")
  /\ \/ \E p \in First(t) :
          \/ /\ Mode(t, p) = "O"
             /\ iter' = [iter EXCEPT ![t] = p]
             /\ Goto(t, "cas")
             /\ UNCHANGED todo
          \/ /\ Mode(t, p) # "O"
             /\ todo' = [todo EXCEPT ![t] = @ \ {p}]
             /\ UNCHANGED <<iter, pc>>
     \/ /\ todo[t] = {}
        /\ todo' = [todo EXCEPT ![t] = wset[t]]
        /\ Goto(t, "pin")
        /\ UNCHANGED iter
  /\ UNCHANGED <<nodeVars, buf, globalVars, wset, page_buf, crashed, ghostVars>>

\* Another thread of the instance is fetching the page: the CAS fails.
RemotingMut(t) == FALSE
Remoting(t) == lock_remoting[Ins[t]][iter[t]]

CasRemoting(t) ==
  /\ At(t, "cas")
  /\ IF Remoting(t)
     THEN /\ Goto(t, "lost")
          /\ UNCHANGED lock_remoting
     ELSE /\ Goto(t, "call")
          /\ lock_remoting' = [lock_remoting EXCEPT ![Ins[t]][iter[t]] = TRUE]
  /\ UNCHANGED <<lock_mode, count, thread_set, invalid_req, mtx, buf, globalVars,
                 wset, todo, iter, page_buf, crashed, ghostVars>>

\* assert(true == lock_remoting), then the spin on lock_mode.
LostCas(t) ==
  /\ At(t, "lost")
  /\ IF lock_remoting[Ins[t]][iter[t]]
     THEN /\ Goto(t, "spin")
          /\ UNCHANGED <<nodeVars, buf, globalVars, wset, todo, iter, page_buf, crashed, ghostVars>>
     ELSE Fail(Ins[t], "lost")

SpinOnMode(t) ==
  /\ At(t, "spin") /\ Mode(t, iter[t]) # "O"
  /\ Goto(t, "spun")
  /\ UNCHANGED <<nodeVars, buf, globalVars, wset, todo, iter, page_buf, crashed, ghostVars>>

\* assert(lock_mode != O), then the next page.
SpinDone(t) ==
  /\ At(t, "spun")
  /\ IF Mode(t, iter[t]) # "O"
     THEN /\ NextPage(t, "mode")
          /\ UNCHANGED <<nodeVars, buf, globalVars, wset, page_buf, crashed, ghostVars>>
     ELSE Fail(Ins[t], "spun")

(***************************************************************************)
(* GlobalLock::LockRemote, in the server.  A page nobody owns is granted   *)
(* with the content of GlobalLock's buffer, which is never written.        *)
(***************************************************************************)
GlobalPageMut(p) == -1          \* page_buf as it was before the call
GlobalPage(p) == 0

SetOwnerMut(t) == UNCHANGED write_ins_id
SetOwner(t) == write_ins_id' = [write_ins_id EXCEPT ![iter[t]] = Ins[t]]

GlobalLockUp == crashed[NoInstance] = "no"

GrantUnowned(t) ==
  /\ pc[t] = "call" /\ GlobalLockUp /\ ~gmtx[iter[t]] /\ write_ins_id[iter[t]] = NoInstance
  /\ SetOwner(t)
  /\ page_buf' = [page_buf EXCEPT ![t] = GlobalPage(iter[t])]
  /\ Goto(t, "reply")
  /\ UNCHANGED <<nodeVars, buf, gmtx, wset, todo, iter, crashed, ghostVars>>

LockOwned(t) ==
  /\ pc[t] = "call" /\ GlobalLockUp /\ ~gmtx[iter[t]] /\ write_ins_id[iter[t]] # NoInstance
  /\ gmtx' = [gmtx EXCEPT ![iter[t]] = TRUE]
  /\ Goto(t, "invalid")
  /\ UNCHANGED <<nodeVars, buf, write_ins_id, wset, todo, iter, page_buf, crashed, ghostVars>>

Owner(t) == write_ins_id[iter[t]]

(***************************************************************************)
(* LockTable::LockInvalid, in the owner: the flag is raised before the     *)
(* mutex is taken; the wait ends when no thread has the page pinned; then  *)
(* the mutex is held until the page has been read.                         *)
(***************************************************************************)
RaiseInvalid(t) ==
  /\ pc[t] = "invalid" /\ crashed[Owner(t)] = "no"
  /\ invalid_req' = [invalid_req EXCEPT ![Owner(t)][iter[t]] = TRUE]
  /\ Goto(t, "waiting")
  /\ UNCHANGED <<lock_mode, count, thread_set, lock_remoting, mtx, buf, globalVars,
                 wset, todo, iter, page_buf, crashed, ghostVars>>

\* A thread of instance i has been granted p and has not stored it yet.
GrantInFlight(i, p) ==
  \E u \in Thread : Ins[u] = i /\ iter[u] = p /\ pc[u] \in {"reply", "put"}

NoPinsMut(i, p) == TRUE
NoPins(i, p) == thread_set[i][p] = {}

Revoke(t) ==
  /\ pc[t] = "waiting" /\ crashed[Owner(t)] = "no"
  /\ ~mtx[Owner(t)][iter[t]]
  /\ NoPins(Owner(t), iter[t])
  /\ IF count[Owner(t)][iter[t]] = 0
     THEN /\ lock_mode' = [lock_mode EXCEPT ![Owner(t)][iter[t]] = "O"]
          /\ mtx' = [mtx EXCEPT ![Owner(t)][iter[t]] = TRUE]
          /\ Goto(t, "revoked")
          /\ overtaken' = IF GrantInFlight(Owner(t), iter[t])
                          THEN overtaken \cup {iter[t]} ELSE overtaken
          /\ UNCHANGED <<count, thread_set, invalid_req, lock_remoting, buf, globalVars,
                         wset, todo, iter, page_buf, crashed, total, early, resent>>
     ELSE Fail(Owner(t), "count")

OwnersPageMut(t) == GlobalPage(iter[t])
OwnersPage(t) == buf[Owner(t)][iter[t]]

ReadRevoked(t) ==
  /\ pc[t] = "revoked" /\ crashed[Owner(t)] = "no"
  /\ page_buf' = [page_buf EXCEPT ![t] = OwnersPage(t)]
  /\ invalid_req' = [invalid_req EXCEPT ![Owner(t)][iter[t]] = FALSE]
  /\ mtx' = [mtx EXCEPT ![Owner(t)][iter[t]] = FALSE]
  /\ Goto(t, "answer")
  /\ UNCHANGED <<lock_mode, count, thread_set, lock_remoting, buf, globalVars,
                 wset, todo, iter, crashed, ghostVars>>

\* The Invalid handler checks page 0 once more; its reply ends LockRemote.
Answer(t) ==
  /\ pc[t] = "answer" /\ crashed[Owner(t)] = "no" /\ GlobalLockUp
  /\ IF iter[t] = 0 /\ lock_mode[Owner(t)][iter[t]] # "O"
     THEN Fail(Owner(t), "answer")
     ELSE /\ SetOwner(t)
          /\ gmtx' = [gmtx EXCEPT ![iter[t]] = FALSE]
          /\ Goto(t, "reply")
          /\ UNCHANGED <<nodeVars, buf, wset, todo, iter, page_buf, crashed, ghostVars>>

(***************************************************************************)
(* The reply reaches the worker: the mode is set first, then the page is   *)
(* stored in the buffer and lock_remoting is released.                     *)
(***************************************************************************)
Granted(t) ==
  /\ At(t, "reply")
  /\ IF Mode(t, iter[t]) = "O"
     THEN /\ lock_mode' = [lock_mode EXCEPT ![Ins[t]][iter[t]] = "P"]
          /\ Goto(t, "put")
          /\ UNCHANGED <<count, thread_set, invalid_req, lock_remoting, mtx, buf, globalVars,
                         wset, todo, iter, page_buf, crashed, ghostVars>>
     ELSE Fail(Ins[t], "reply")

StorePage(t) ==
  /\ At(t, "put")
  /\ buf' = [buf EXCEPT ![Ins[t]][iter[t]] = page_buf[t]]
  /\ lock_remoting' = [lock_remoting EXCEPT ![Ins[t]][iter[t]] = FALSE]
  /\ page_buf' = [page_buf EXCEPT ![t] = 0]
  /\ NextPage(t, "mode")
  /\ UNCHANGED <<lock_mode, count, thread_set, invalid_req, mtx, globalVars,
                 wset, crashed, ghostVars>>

(***************************************************************************)
(* The second loop of GetWritePageLock: assert(lock_mode != O), AddThread. *)
(***************************************************************************)
CheckOwned(t) ==
  /\ At(t, "pin")
  /\ \/ \E p \in First(t) :
          IF Mode(t, p) # "O"
          THEN /\ iter' = [iter EXCEPT ![t] = p]
               /\ Goto(t, "add")
               /\ UNCHANGED <<nodeVars, buf, globalVars, wset, todo, page_buf, crashed, ghostVars>>
          ELSE Fail(Ins[t], "pin")
     \/ /\ todo[t] = {}
        /\ todo' = [todo EXCEPT ![t] = wset[t]]
        /\ Goto(t, "run")
        /\ UNCHANGED <<nodeVars, buf, globalVars, wset, iter, page_buf, crashed, ghostVars>>

AddThread(t) ==
  /\ At(t, "add") /\ ~mtx[Ins[t]][iter[t]]
  /\ thread_set' = [thread_set EXCEPT ![Ins[t]][iter[t]] = @ \cup {t}]
  /\ NextPage(t, "pin")
  /\ UNCHANGED <<lock_mode, count, invalid_req, lock_remoting, mtx, buf, globalVars,
                 wset, page_buf, crashed, ghostVars>>

(***************************************************************************)
(* RowHandler::WriteRow, for each page of a transaction that commits, in   *)
(* the order of its requests.  A transaction writes one row of a page here *)
(* (one that writes several goes through the same steps for each).  The    *)
(* bound on the number of writes turns a commit into an abort.             *)
(***************************************************************************)
WriteRow(t) ==
  /\ At(t, "run")
  /\ \A p \in wset[t] : total[p] < MaxWrites \/ p \notin todo[t]
  /\ \E p \in todo[t] :
       IF Mode(t, p) # "O"
       THEN /\ iter' = [iter EXCEPT ![t] = p]
            /\ Goto(t, "lockx")
            /\ UNCHANGED <<nodeVars, buf, globalVars, wset, todo, page_buf, crashed, ghostVars>>
       ELSE Fail(Ins[t], "run")

\* Lock(X): the wait for mode P, then assert(0 == count++).
LockX(t) ==
  /\ At(t, "lockx") /\ ~mtx[Ins[t]][iter[t]] /\ Mode(t, iter[t]) = "P"
  /\ IF count[Ins[t]][iter[t]] = 0
     THEN /\ lock_mode' = [lock_mode EXCEPT ![Ins[t]][iter[t]] = "X"]
          /\ count' = [count EXCEPT ![Ins[t]][iter[t]] = 1]
          /\ Goto(t, "load")
          /\ UNCHANGED <<thread_set, invalid_req, lock_remoting, mtx, buf, globalVars,
                         wset, todo, iter, page_buf, crashed, ghostVars>>
     ELSE Fail(Ins[t], "lockx")

\* BufferGet of the page, and BufferPut of the page with the row replaced.
LoadPage(t) ==
  /\ At(t, "load")
  /\ page_buf' = [page_buf EXCEPT ![t] = buf[Ins[t]][iter[t]]]
  /\ early' = IF GrantInFlight(Ins[t], iter[t]) THEN early \cup {iter[t]} ELSE early
  /\ Goto(t, "store")
  /\ UNCHANGED <<nodeVars, buf, globalVars, wset, todo, iter, crashed, total, overtaken, resent>>

StoreRow(t) ==
  /\ At(t, "store")
  /\ buf' = [buf EXCEPT ![Ins[t]][iter[t]] = page_buf[t] + 1]
  /\ total' = [total EXCEPT ![iter[t]] = @ + 1]
  /\ page_buf' = [page_buf EXCEPT ![t] = 0]
  /\ Goto(t, "unlock")
  /\ UNCHANGED <<nodeVars, globalVars, wset, todo, iter, crashed, overtaken, early, resent>>

\* UnLock of a node in mode X; in mode O or P it changes nothing.
UnLock(t) ==
  /\ At(t, "unlock") /\ ~mtx[Ins[t]][iter[t]]
  /\ IF Mode(t, iter[t]) = "X"
     THEN /\ lock_mode' = [lock_mode EXCEPT ![Ins[t]][iter[t]] = "P"]
          /\ count' = [count EXCEPT ![Ins[t]][iter[t]] = @ - 1]
     ELSE UNCHANGED <<lock_mode, count>>
  /\ NextPage(t, "run")
  /\ UNCHANGED <<thread_set, invalid_req, lock_remoting, mtx, buf, globalVars,
                 wset, page_buf, crashed, ghostVars>>

\* finish: every page has been written (commit) or none has (abort).
Finish(t) ==
  /\ At(t, "run") /\ todo[t] \in {{}, wset[t]}
  /\ todo' = [todo EXCEPT ![t] = wset[t]]
  /\ Goto(t, "unpin")
  /\ UNCHANGED <<nodeVars, buf, globalVars, wset, iter, page_buf, crashed, ghostVars>>

\* RemoveThread of every page: assert(lock_mode != O), then the pin is dropped.
RemoveThread(t) ==
  /\ At(t, "unpin")
  /\ \/ \E p \in First(t) :
          IF Mode(t, p) # "O"
          THEN /\ ~mtx[Ins[t]][p]
               /\ thread_set' = [thread_set EXCEPT ![Ins[t]][p] = @ \ {t}]
               /\ todo' = [todo EXCEPT ![t] = @ \ {p}]
               /\ UNCHANGED <<lock_mode, count, invalid_req, lock_remoting, mtx, buf, globalVars,
                              pc, wset, iter, page_buf, crashed, ghostVars>>
          ELSE Fail(Ins[t], "unpin")
     \/ /\ todo[t] = {}
        /\ wset' = [wset EXCEPT ![t] = {}]
        /\ Goto(t, "start")
        /\ UNCHANGED <<nodeVars, buf, globalVars, todo, iter, page_buf, crashed, ghostVars>>

(***************************************************************************)
(* Failed calls.  LockRemote fails at the worker, or Invalid at GlobalLock,*)
(* whatever the state of the handler at the other end.                     *)
(***************************************************************************)
LockRemoteFails(t) ==
  /\ t \in Unreliable
  /\ pc[t] \in Serving \cup {"call", "reply"} /\ Alive(t)
  /\ Fail(Ins[t], "rpc")

InvalidFails(t) ==
  /\ t \in Unreliable
  /\ pc[t] \in Serving /\ GlobalLockUp
  /\ Fail(NoInstance, "rpc")

\* The answer is lost with the connection, and with it the content it carried;
\* the request is sent again.  GlobalLock has recorded the requester as the
\* owner by then: it makes the requester invalidate its own page and grants it
\* what its buffer held before the fetch.
Resend(t) ==
  /\ t \in Unreliable
  /\ At(t, "reply")
  /\ page_buf' = [page_buf EXCEPT ![t] = 0]
  /\ resent' = IF page_buf[t] # buf[Ins[t]][iter[t]]
                THEN resent \cup {iter[t]} ELSE resent
  /\ Goto(t, "call")
  /\ UNCHANGED <<nodeVars, buf, globalVars, wset, todo, iter, crashed, total, overtaken, early>>

-----------------------------------------------------------------------------
Acquire(t) == \/ CheckInvalid(t) \/ TestMode(t) \/ CasRemoting(t) \/ LostCas(t)
              \/ SpinOnMode(t) \/ SpinDone(t) \/ Granted(t) \/ StorePage(t)
              \/ CheckOwned(t) \/ AddThread(t)
Serve(t) == \/ GrantUnowned(t) \/ LockOwned(t) \/ RaiseInvalid(t) \/ Revoke(t)
            \/ ReadRevoked(t) \/ Answer(t)
Run(t) == \/ WriteRow(t) \/ LockX(t) \/ LoadPage(t) \/ StoreRow(t) \/ UnLock(t)
          \/ Finish(t) \/ RemoveThread(t)

Fault(t) == LockRemoteFails(t) \/ InvalidFails(t) \/ Resend(t)

Next == \E t \in Thread : Start(t) \/ Acquire(t) \/ Serve(t) \/ Run(t) \/ Fault(t)

Spec == Init /\ [][Next]_vars

\* A running worker and a running RPC handler are scheduled again.  A new
\* transaction need never start.
Fairness == \A t \in Thread : WF_vars(Acquire(t)) /\ WF_vars(Serve(t)) /\ WF_vars(Run(t))
FairSpec == Spec /\ Fairness

-----------------------------------------------------------------------------
\* Every variable has its type.
TypeOK ==
  /\ lock_mode \in [Instance -> [Page -> {"O", "P", "X"}]]
  /\ count \in [Instance -> [Page -> Int]]
  /\ thread_set \in [Instance -> [Page -> SUBSET Thread]]
  /\ invalid_req \in [Instance -> [Page -> BOOLEAN]]
  /\ lock_remoting \in [Instance -> [Page -> BOOLEAN]]
  /\ mtx \in [Instance -> [Page -> BOOLEAN]]
  /\ buf \in [Instance -> [Page -> Nat]]
  /\ write_ins_id \in [Page -> Instance \cup {NoInstance}]
  /\ gmtx \in [Page -> BOOLEAN]
  /\ pc \in [Thread -> Label]
  /\ wset \in [Thread -> SUBSET Page]
  /\ todo \in [Thread -> SUBSET Page]
  /\ iter \in [Thread -> Page \cup {NoPage}]
  /\ page_buf \in [Thread -> Nat]
  /\ crashed \in [Process -> Stop]
  /\ total \in [Page -> Nat]
  /\ overtaken \in SUBSET Page
  /\ early \in SUBSET Page
  /\ resent \in SUBSET Page

\* lock_remoting admits one thread of an instance at a time to the remote
\* fetch of a page, and GlobalLock's page mutex one LockRemote call at a time
\* to the invalidation of a page.
OneFetch ==
  \A t, u \in Thread : t # u /\ iter[t] = iter[u] =>
    /\ Ins[t] = Ins[u] => ~(pc[t] \in Fetching /\ pc[u] \in Fetching)
    /\ ~(pc[t] \in Serving /\ pc[u] \in Serving)

\* Mode P is exclusive (lock_table.h): two instances never both hold a page,
\* provided no revocation of the page has overtaken a grant that the
\* grantee had not installed yet.
ExclusiveUnlessOvertaken ==
  \A p \in Page \ overtaken : \A i, j \in Instance :
    lock_mode[i][p] # "O" /\ lock_mode[j][p] # "O" => i = j

\* A thread in WriteRow's critical section has the page pinned, in mode X,
\* alone; so LockInvalid never finds count # 0 (its assert) and Lock never
\* finds a second holder (its assert), whatever the timing of revocations.  A
\* thread that waits in Lock(X) waits for a local writer, whose UnLock notifies
\* it, and never for the assignment of mode P in GetWritePageLock, which
\* notifies nobody.
WriterHoldsPage ==
  /\ \A t \in Thread : pc[t] = "lockx" => Mode(t, iter[t]) # "O"
  /\ \A t \in Thread : pc[t] \in {"load", "store", "unlock"} =>
       /\ Mode(t, iter[t]) = "X"
       /\ t \in thread_set[Ins[t]][iter[t]]
       /\ \A u \in Thread : pc[u] \in {"load", "store", "unlock"} /\ Ins[u] = Ins[t]
                             /\ iter[u] = iter[t] => u = t
  /\ \A i \in Instance : crashed[i] \notin {"count", "lockx"}

\* The pages of which the code may have lost writes: a revocation overtook a
\* grant; a local thread wrote the page between the assignment of mode P and
\* BufferPut, which overwrites it; the answer with the page was lost and
\* LockRemote sent again, so that the requester was granted its old buffer.
Lossy == overtaken \cup early \cup resent

\* The instance that holds a page has every write ever made to it, but for the
\* three races (Lossy) in which the code does lose writes: however the steps of
\* workers, handlers and GlobalLock interleave, and whichever calls fail or are
\* sent again, a write is lost in none but these.
OwnerHasAllWrites ==
  \A p \in Page \ Lossy : \A i \in Instance :
    lock_mode[i][p] # "O" /\ ~GrantInFlight(i, p) =>
      buf[i][p] = total[p]

\* An invalidation that reached the owner is carried out: the pins that delay
\* it are dropped and no new transaction pins the page, unless a failed
\* assertion has stopped an instance.
InvalidationDone ==
  \A t \in Thread :
    pc[t] = "waiting" ~> pc[t] # "waiting" \/ \E i \in Process : crashed[i] # "no"

-----------------------------------------------------------------------------
(***************************************************************************)
(* What comments and assertions say and the code does not guarantee.       *)
(***************************************************************************)
\* lock_table.h 18: mode P means that this instance alone has the page.
ExclusiveOwner ==
  \A p \in Page : \A i, j \in Instance :
    lock_mode[i][p] # "O" /\ lock_mode[j][p] # "O" => i = j

\* ycsb_txn.cpp 76: after GetWritePageLock the transaction has the right to
\* write the pages of its write set for the rest of its life.
WritePermission ==
  \A t \in Thread : pc[t] \in {"run", "lockx", "load", "store", "unlock"} =>
    \A p \in wset[t] : Mode(t, p) # "O"

\* ycsb_txn.cpp 126: a thread that lost the race for lock_remoting finds it set.
LoserFindsRemoting == \A i \in Instance : crashed[i] # "lost"
=============================================================================
