--------------------------- MODULE PageLockProofs ---------------------------
(***************************************************************************)
(* Page ownership for any instances, threads, pages and write sets: the    *)
(* types, one fetch of a page at a time, one owner of a page at a time,    *)
(* writers that hold the page they write, and no write of a page lost when *)
(* it moves.                                                               *)
(***************************************************************************)
EXTENDS PageLock, TLAPS

\* A leaf that names no prover is one for Zenon; SMT is named where a step needs
\* arithmetic, records or sequences.
USE Zenon

\* In these states a thread is at the page iter.
AtPage == Fetching \cup {"cas", "lost", "spin", "spun", "add", "lockx",
                         "load", "store", "unlock"}

\* The page a thread is at exists, and so does the owner a call has found.
IterInv ==
  \A t \in Thread :
    /\ pc[t] \in AtPage => iter[t] \in Page
    /\ pc[t] \in Serving => write_ins_id[iter[t]] \in Instance

-----------------------------------------------------------------------------
(***************************************************************************)
(* Type correctness.  The first lemmas are about the operators the actions *)
(* share.                                                                  *)
(***************************************************************************)
LEMMA GotoType ==
  ASSUME TypeOK, NEW t \in Thread, NEW l \in Label, Goto(t, l)
  PROVE  pc' \in [Thread -> Label]
  BY DEF TypeOK, Goto

LEMMA NextPageType ==
  ASSUME TypeOK, NEW t \in Thread, NEW l \in Label, NextPage(t, l)
  PROVE  /\ pc' \in [Thread -> Label]
         /\ todo' \in [Thread -> SUBSET Page]
         /\ iter' \in [Thread -> Page \cup {NoPage}]
  BY GotoType DEF TypeOK, NextPage

LEMMA FailType ==
  ASSUME TypeOK, NEW i, i \in Instance \/ i = NoInstance, NEW w \in Stop, Fail(i, w)
  PROVE  TypeOK'
<1>1. crashed' \in [Process -> Stop]
  BY DEF TypeOK, Fail, Process
<1>2. QED
  BY <1>1 DEF TypeOK, Fail, nodeVars, globalVars, threadVars, ghostVars

LEMMA FirstType ==
  ASSUME TypeOK, NEW t \in Thread
  PROVE  /\ First(t) \subseteq Page
         /\ Ins[t] \in Instance
  BY InsAssumption DEF TypeOK, First

\* The page and the instances that a step of a thread at a page refers to.
LEMMA PageOf ==
  ASSUME TypeOK, IterInv, NEW t \in Thread
  PROVE  /\ Ins[t] \in Instance
         /\ pc[t] \in AtPage => iter[t] \in Page
         /\ pc[t] \in Serving => Owner(t) \in Instance
         /\ pc[t] = "call" => iter[t] \in Page
         /\ pc[t] \in Serving => iter[t] \in Page
  BY InsAssumption DEF TypeOK, IterInv, Owner, AtPage, Fetching, Serving

LEMMA AcquireType ==
  ASSUME TypeOK, IterInv, NEW t \in Thread, Start(t) \/ Acquire(t)
  PROVE  TypeOK'
<1> USE DEF At
<1>1. CASE Start(t)
  <2>1. wset' \in [Thread -> SUBSET Page] /\ todo' \in [Thread -> SUBSET Page]
    BY <1>1, WriteSetAssumption, SMTT(60) DEF Start, TypeOK
  <2>2. pc' \in [Thread -> Label]
    BY <1>1, GotoType DEF Start, Label, Local
  <2>3. QED
    BY <1>1, <2>1, <2>2 DEF Start, TypeOK, nodeVars, globalVars, ghostVars
<1>2. CASE CheckInvalid(t)
  <2>1. \E w \in SUBSET Page : todo' = [todo EXCEPT ![t] = w]
    BY <1>2 DEF CheckInvalid, TypeOK
  <2>2. todo' \in [Thread -> SUBSET Page]
    BY <2>1 DEF TypeOK
  <2>3. pc' \in [Thread -> Label]
    BY <1>2, GotoType DEF CheckInvalid, TypeOK, Label, Local
  <2>4. QED
    BY <1>2, <2>2, <2>3 DEF CheckInvalid, TypeOK, nodeVars, globalVars, ghostVars
<1>3. CASE TestMode(t)
  <2>1. todo' = todo \/ \E w \in SUBSET Page : todo' = [todo EXCEPT ![t] = w]
    BY <1>3 DEF TestMode, TypeOK
  <2>2. todo' \in [Thread -> SUBSET Page]
    BY Zenon, <2>1 DEF TypeOK
  <2>3. iter' = iter \/ \E p \in Page : iter' = [iter EXCEPT ![t] = p]
    BY <1>3, FirstType DEF TestMode
  <2>4. iter' \in [Thread -> Page \cup {NoPage}]
    BY Zenon, <2>3 DEF TypeOK
  <2>5. pc' \in [Thread -> Label]
    BY <1>3, GotoType DEF TestMode, TypeOK, Label, Local
  <2>6. QED
    BY <1>3, <2>2, <2>4, <2>5 DEF TestMode, TypeOK, nodeVars, globalVars, ghostVars
<1>4. CASE CasRemoting(t)
  <2>1. [lock_remoting EXCEPT ![Ins[t]][iter[t]] = TRUE] \in [Instance -> [Page -> BOOLEAN]]
    BY <1>4, PageOf DEF CasRemoting, TypeOK, AtPage
  <2>2. lock_remoting' \in [Instance -> [Page -> BOOLEAN]]
    BY Zenon, <1>4, <2>1 DEF CasRemoting, Remoting, TypeOK
  <2>3. pc' \in [Thread -> Label]
    BY <1>4, GotoType DEF CasRemoting, Label, Local, Fetching
  <2>4. QED
    BY <1>4, <2>2, <2>3 DEF CasRemoting, TypeOK, globalVars, ghostVars
<1>5. CASE LostCas(t)
  <2>1. CASE lock_remoting[Ins[t]][iter[t]]
    <3>1. pc' \in [Thread -> Label]
      BY <1>5, <2>1, GotoType DEF LostCas, Label, Local
    <3>2. QED
      BY <1>5, <2>1, <3>1, SMTT(60) DEF LostCas, TypeOK, nodeVars, globalVars, ghostVars
  <2>2. CASE ~lock_remoting[Ins[t]][iter[t]]
    BY <1>5, <2>2, FailType, FirstType DEF LostCas, Stop
  <2>3. QED
    BY <2>1, <2>2
<1>6. CASE SpinOnMode(t)
  <2>1. pc' \in [Thread -> Label]
    BY <1>6, GotoType DEF SpinOnMode, Label, Local
  <2>2. QED
    BY <1>6, <2>1 DEF SpinOnMode, TypeOK, nodeVars, globalVars, ghostVars
<1>7. CASE SpinDone(t)
  <2>1. CASE Mode(t, iter[t]) # "O"
    <3>1. NextPage(t, "mode") /\ "mode" \in Label
      BY <1>7, <2>1 DEF SpinDone, Label, Local
    <3>2. QED
      BY <1>7, <2>1, <3>1, NextPageType DEF SpinDone, TypeOK, nodeVars, globalVars, ghostVars
  <2>2. CASE Mode(t, iter[t]) = "O"
    BY <1>7, <2>2, FailType, FirstType DEF SpinDone, Stop
  <2>3. QED
    BY <2>1, <2>2
<1>8. CASE Granted(t)
  <2>1. CASE Mode(t, iter[t]) = "O"
    <3>1. [lock_mode EXCEPT ![Ins[t]][iter[t]] = "P"] \in [Instance -> [Page -> {"O", "P", "X"}]]
      BY <1>8, PageOf DEF Granted, TypeOK, AtPage, Fetching
    <3>2. pc' \in [Thread -> Label]
      BY <1>8, <2>1, GotoType DEF Granted, Label, Fetching
    <3>3. QED
      BY Zenon, <1>8, <2>1, <3>1, <3>2 DEF Granted, TypeOK, globalVars, ghostVars
  <2>2. CASE Mode(t, iter[t]) # "O"
    BY <1>8, <2>2, FailType, FirstType DEF Granted, Stop
  <2>3. QED
    BY <2>1, <2>2
<1>9. CASE StorePage(t)
  <2>1. [lock_remoting EXCEPT ![Ins[t]][iter[t]] = FALSE] \in [Instance -> [Page -> BOOLEAN]]
    BY <1>9, PageOf DEF StorePage, TypeOK, AtPage, Fetching
  <2>2. [buf EXCEPT ![Ins[t]][iter[t]] = page_buf[t]] \in [Instance -> [Page -> Nat]]
    BY <1>9, PageOf DEF StorePage, TypeOK, AtPage, Fetching
  <2>3. page_buf' \in [Thread -> Nat]
    BY <1>9 DEF StorePage, TypeOK
  <2>4. NextPage(t, "mode") /\ "mode" \in Label
    BY <1>9 DEF StorePage, Label, Local
  <2>5. QED
    BY <1>9, <2>1, <2>2, <2>3, <2>4, NextPageType DEF StorePage, TypeOK, globalVars, ghostVars
<1>10. CASE CheckOwned(t)
  <2>1. CASE Fail(Ins[t], "pin")
    BY <2>1, FailType, FirstType DEF Stop
  <2>2. CASE ~Fail(Ins[t], "pin")
    <3>1. iter' = iter \/ \E p \in Page : iter' = [iter EXCEPT ![t] = p]
      BY <1>10, <2>2, FirstType DEF CheckOwned
    <3>2. iter' \in [Thread -> Page \cup {NoPage}]
      BY <3>1 DEF TypeOK
    <3>3. todo' = todo \/ todo' = [todo EXCEPT ![t] = wset[t]]
      BY <1>10, <2>2 DEF CheckOwned
    <3>4. todo' \in [Thread -> SUBSET Page]
      BY <3>3 DEF TypeOK
    <3>5. pc' \in [Thread -> Label]
      BY <1>10, <2>2, GotoType DEF CheckOwned, Label, Local
    <3>6. UNCHANGED <<nodeVars, buf, globalVars, wset, page_buf, crashed, ghostVars>>
      BY <1>10, <2>2 DEF CheckOwned
    <3>7. QED
      BY <3>2, <3>4, <3>5, <3>6 DEF TypeOK, nodeVars, globalVars, ghostVars
  <2>3. QED
    BY <2>1, <2>2
<1>11. CASE AddThread(t)
  <2>1. [thread_set EXCEPT ![Ins[t]][iter[t]] = @ \cup {t}] \in [Instance -> [Page -> SUBSET Thread]]
    BY <1>11, PageOf, SMTT(60) DEF AddThread, TypeOK, AtPage
  <2>2. NextPage(t, "pin") /\ "pin" \in Label
    BY <1>11 DEF AddThread, Label, Local
  <2>3. QED
    BY <1>11, <2>1, <2>2, NextPageType DEF AddThread, TypeOK, globalVars, ghostVars
<1>12. QED
  BY <1>1, <1>2, <1>3, <1>4, <1>5, <1>6, <1>7, <1>8, <1>9, <1>10, <1>11 DEF Acquire

LEMMA ServeType ==
  ASSUME TypeOK, IterInv, NEW t \in Thread, Serve(t)
  PROVE  TypeOK'
<1> USE PageOf
<1>1. CASE GrantUnowned(t)
  <2>1. /\ write_ins_id' \in [Page -> Instance \cup {NoInstance}]
        /\ page_buf' \in [Thread -> Nat]
    BY <1>1 DEF GrantUnowned, SetOwner, GlobalPage, TypeOK
  <2>2. pc' \in [Thread -> Label]
    BY <1>1, GotoType DEF GrantUnowned, Label, Fetching
  <2>3. QED
    BY <1>1, <2>1, <2>2 DEF GrantUnowned, TypeOK, nodeVars, ghostVars
<1>2. CASE LockOwned(t)
  <2>1. gmtx' \in [Page -> BOOLEAN]
    BY <1>2 DEF LockOwned, TypeOK
  <2>2. pc' \in [Thread -> Label]
    BY <1>2, GotoType DEF LockOwned, Label, Fetching
  <2>3. QED
    BY <1>2, <2>1, <2>2 DEF LockOwned, TypeOK, nodeVars, ghostVars
<1>3. CASE RaiseInvalid(t)
  <2>1. [invalid_req EXCEPT ![Owner(t)][iter[t]] = TRUE] \in [Instance -> [Page -> BOOLEAN]]
    BY <1>3 DEF RaiseInvalid, TypeOK, Serving
  <2>2. pc' \in [Thread -> Label]
    BY <1>3, GotoType DEF RaiseInvalid, Label, Fetching
  <2>3. QED
    BY <1>3, <2>1, <2>2 DEF RaiseInvalid, TypeOK, globalVars, ghostVars
<1>4. CASE Revoke(t)
  <2>1. Owner(t) \in Instance /\ iter[t] \in Page
    BY <1>4 DEF Revoke, Serving
  <2>2. CASE count[Owner(t)][iter[t]] = 0
    <3>1. [lock_mode EXCEPT ![Owner(t)][iter[t]] = "O"] \in [Instance -> [Page -> {"O", "P", "X"}]]
      BY <2>1 DEF TypeOK
    <3>2. [mtx EXCEPT ![Owner(t)][iter[t]] = TRUE] \in [Instance -> [Page -> BOOLEAN]]
      BY <2>1 DEF TypeOK
    <3>3. overtaken' \in SUBSET Page
      BY <1>4, <2>1, <2>2, SMTT(60) DEF Revoke, TypeOK
    <3>4. pc' \in [Thread -> Label]
      BY <1>4, <2>2, GotoType DEF Revoke, Label, Fetching
    <3>5. QED
      BY Zenon, <1>4, <2>2, <3>1, <3>2, <3>3, <3>4 DEF Revoke, TypeOK, globalVars
  <2>3. CASE count[Owner(t)][iter[t]] # 0
    BY <1>4, <2>1, <2>3, FailType DEF Revoke, Stop
  <2>4. QED
    BY <2>2, <2>3
<1>5. CASE ReadRevoked(t)
  <2>1. Owner(t) \in Instance /\ iter[t] \in Page
    BY <1>5 DEF ReadRevoked, Serving
  <2>2. [invalid_req EXCEPT ![Owner(t)][iter[t]] = FALSE] \in [Instance -> [Page -> BOOLEAN]]
    BY <2>1 DEF TypeOK
  <2>3. [mtx EXCEPT ![Owner(t)][iter[t]] = FALSE] \in [Instance -> [Page -> BOOLEAN]]
    BY <2>1 DEF TypeOK
  <2>4. page_buf' \in [Thread -> Nat]
    BY <1>5, <2>1, SMTT(60) DEF ReadRevoked, OwnersPage, TypeOK
  <2>5. pc' \in [Thread -> Label]
    BY <1>5, GotoType DEF ReadRevoked, Label, Fetching
  <2>6. QED
    BY <1>5, <2>2, <2>3, <2>4, <2>5 DEF ReadRevoked, TypeOK, globalVars, ghostVars
<1>6. CASE Answer(t)
  <2>1. Owner(t) \in Instance /\ iter[t] \in Page
    BY <1>6 DEF Answer, Serving
  <2>2. CASE iter[t] = 0 /\ lock_mode[Owner(t)][iter[t]] # "O"
    BY <1>6, <2>1, <2>2, FailType DEF Answer, Stop
  <2>3. CASE ~(iter[t] = 0 /\ lock_mode[Owner(t)][iter[t]] # "O")
    <3>1. /\ write_ins_id' = [write_ins_id EXCEPT ![iter[t]] = Ins[t]]
          /\ gmtx' = [gmtx EXCEPT ![iter[t]] = FALSE]
      BY <1>6, <2>3 DEF Answer, SetOwner
    <3>2. write_ins_id' \in [Page -> Instance \cup {NoInstance}] /\ gmtx' \in [Page -> BOOLEAN]
      BY <2>1, <3>1, InsAssumption DEF TypeOK
    <3>3. pc' \in [Thread -> Label]
      BY <1>6, <2>3, GotoType DEF Answer, Label, Fetching
    <3>4. QED
      BY <1>6, <2>3, <3>2, <3>3, SMTT(60) DEF Answer, TypeOK, nodeVars, ghostVars
  <2>4. QED
    BY <2>2, <2>3
<1>7. QED
  BY <1>1, <1>2, <1>3, <1>4, <1>5, <1>6 DEF Serve

LEMMA FaultType ==
  ASSUME TypeOK, IterInv, NEW t \in Thread, Fault(t)
  PROVE  TypeOK'
<1>1. CASE LockRemoteFails(t)
  BY <1>1, FailType, FirstType DEF LockRemoteFails, Stop
<1>2. CASE InvalidFails(t)
  BY <1>2, FailType DEF InvalidFails, Stop
<1>3. CASE Resend(t)
  <2>1. iter[t] \in Page
    BY <1>3, PageOf DEF Resend, At, AtPage, Fetching
  <2>2. resent' \in SUBSET Page /\ page_buf' \in [Thread -> Nat]
    BY <1>3, <2>1 DEF Resend, TypeOK
  <2>3. pc' \in [Thread -> Label]
    BY <1>3, GotoType DEF Resend, Label, Fetching
  <2>4. QED
    BY <1>3, <2>2, <2>3 DEF Resend, TypeOK, nodeVars, globalVars
<1>4. QED
  BY <1>1, <1>2, <1>3 DEF Fault

LEMMA RunType ==
  ASSUME TypeOK, IterInv, NEW t \in Thread, Run(t)
  PROVE  TypeOK'
<1> USE DEF At
<1>1. CASE WriteRow(t)
  <2>1. CASE Fail(Ins[t], "run")
    BY <2>1, FailType, FirstType DEF Stop
  <2>2. CASE ~Fail(Ins[t], "run")
    <3>1. \E p \in Page : iter' = [iter EXCEPT ![t] = p]
      BY <1>1, <2>2 DEF WriteRow, TypeOK
    <3>2. iter' \in [Thread -> Page \cup {NoPage}]
      BY <3>1, SMTT(60) DEF TypeOK
    <3>3. pc' \in [Thread -> Label]
      BY <1>1, <2>2, GotoType DEF WriteRow, Label, Local
    <3>4. UNCHANGED <<nodeVars, buf, globalVars, wset, todo, page_buf, crashed, ghostVars>>
      BY <1>1, <2>2 DEF WriteRow
    <3>5. QED
      BY <3>2, <3>3, <3>4 DEF TypeOK, nodeVars, globalVars, ghostVars
  <2>3. QED
    BY <2>1, <2>2
<1>2. CASE LockX(t)
  <2>1. Ins[t] \in Instance /\ iter[t] \in Page
    BY <1>2, PageOf DEF LockX, AtPage
  <2>2. CASE count[Ins[t]][iter[t]] = 0
    <3>1. [lock_mode EXCEPT ![Ins[t]][iter[t]] = "X"] \in [Instance -> [Page -> {"O", "P", "X"}]]
      BY <2>1 DEF TypeOK
    <3>2. [count EXCEPT ![Ins[t]][iter[t]] = 1] \in [Instance -> [Page -> Int]]
      BY <2>1, SMTT(60) DEF TypeOK
    <3>3. pc' \in [Thread -> Label]
      BY <1>2, <2>2, GotoType DEF LockX, Label, Local
    <3>4. QED
      BY Zenon, <1>2, <2>2, <3>1, <3>2, <3>3 DEF LockX, TypeOK, globalVars, ghostVars
  <2>3. CASE count[Ins[t]][iter[t]] # 0
    BY <1>2, <2>1, <2>3, FailType DEF LockX, Stop
  <2>4. QED
    BY <2>2, <2>3
<1>3. CASE LoadPage(t)
  <2>1. Ins[t] \in Instance /\ iter[t] \in Page
    BY <1>3, PageOf DEF LoadPage, AtPage
  <2>2. page_buf' \in [Thread -> Nat] /\ early' \in SUBSET Page
    BY <1>3, <2>1, SMTT(60) DEF LoadPage, TypeOK
  <2>3. pc' \in [Thread -> Label]
    BY <1>3, GotoType DEF LoadPage, Label, Local
  <2>4. QED
    BY <1>3, <2>2, <2>3 DEF LoadPage, TypeOK, nodeVars, globalVars
<1>4. CASE StoreRow(t)
  <2>1. Ins[t] \in Instance /\ iter[t] \in Page
    BY <1>4, PageOf DEF StoreRow, AtPage
  <2>2. [buf EXCEPT ![Ins[t]][iter[t]] = page_buf[t] + 1] \in [Instance -> [Page -> Nat]]
    BY <2>1, SMTT(60) DEF TypeOK
  <2>3. page_buf' \in [Thread -> Nat] /\ total' \in [Page -> Nat]
    BY <1>4, <2>1, SMTT(60) DEF StoreRow, TypeOK
  <2>4. pc' \in [Thread -> Label]
    BY <1>4, GotoType DEF StoreRow, Label, Local
  <2>5. QED
    BY <1>4, <2>2, <2>3, <2>4 DEF StoreRow, TypeOK, nodeVars, globalVars
<1>5. CASE UnLock(t)
  <2>1. Ins[t] \in Instance /\ iter[t] \in Page
    BY <1>5, PageOf DEF UnLock, AtPage
  <2>2. [lock_mode EXCEPT ![Ins[t]][iter[t]] = "P"] \in [Instance -> [Page -> {"O", "P", "X"}]]
    BY <2>1 DEF TypeOK
  <2>3. [count EXCEPT ![Ins[t]][iter[t]] = @ - 1] \in [Instance -> [Page -> Int]]
    BY <2>1, SMTT(60) DEF TypeOK
  <2>4. NextPage(t, "run") /\ "run" \in Label
    BY <1>5 DEF UnLock, Label, Local
  <2>5. QED
    BY Zenon, <1>5, <2>2, <2>3, <2>4, NextPageType DEF UnLock, TypeOK, globalVars, ghostVars
<1>6. CASE Finish(t)
  <2>1. todo' \in [Thread -> SUBSET Page]
    BY <1>6 DEF Finish, TypeOK
  <2>2. pc' \in [Thread -> Label]
    BY <1>6, GotoType DEF Finish, Label, Local
  <2>3. QED
    BY <1>6, <2>1, <2>2 DEF Finish, TypeOK, nodeVars, globalVars, ghostVars
<1>7. CASE RemoveThread(t)
  <2>1. CASE Fail(Ins[t], "unpin")
    BY <2>1, FailType, FirstType DEF Stop
  <2>2. CASE todo[t] = {} /\ Goto(t, "start")
    <3>1. wset' \in [Thread -> SUBSET Page]
      BY Zenon, <1>7, <2>2 DEF RemoveThread, TypeOK, First
    <3>2. pc' \in [Thread -> Label]
      BY <2>2, GotoType DEF Label, Local
    <3>3. UNCHANGED <<nodeVars, buf, globalVars, todo, iter, page_buf, crashed, ghostVars>>
      BY <1>7, <2>2 DEF RemoveThread, First
    <3>4. QED
      BY <3>1, <3>2, <3>3 DEF TypeOK, nodeVars, globalVars, ghostVars
  <2>3. CASE \E p \in First(t) :
               /\ thread_set' = [thread_set EXCEPT ![Ins[t]][p] = @ \ {t}]
               /\ todo' = [todo EXCEPT ![t] = @ \ {p}]
               /\ UNCHANGED <<lock_mode, count, invalid_req, lock_remoting, mtx, buf, globalVars,
                              pc, wset, iter, page_buf, crashed, ghostVars>>
    <3>1. PICK p \in Page :
               /\ thread_set' = [thread_set EXCEPT ![Ins[t]][p] = @ \ {t}]
               /\ todo' = [todo EXCEPT ![t] = @ \ {p}]
      BY Zenon, <2>3, FirstType
    <3>2. [thread_set EXCEPT ![Ins[t]][p] = @ \ {t}] \in [Instance -> [Page -> SUBSET Thread]]
      BY FirstType, SMTT(60) DEF TypeOK
    <3>3. todo' \in [Thread -> SUBSET Page]
      BY <3>1 DEF TypeOK
    <3>4. QED
      BY ZenonT(60), <2>3, <3>1, <3>2, <3>3 DEF TypeOK, globalVars, ghostVars
  <2>4. QED
    BY <1>7, <2>1, <2>2, <2>3 DEF RemoveThread
<1>8. QED
  BY <1>1, <1>2, <1>3, <1>4, <1>5, <1>6, <1>7 DEF Run

-----------------------------------------------------------------------------
(***************************************************************************)
(* The invariant of the page ownership protocol, and the steps of PageLock *)
(* that are no part of the fetch of a page: they preserve it because they  *)
(* leave alone what it is about.                                           *)
(***************************************************************************)

(***************************************************************************)
(* The inductive invariant behind OneFetch and ExclusiveUnlessOvertaken.   *)
(***************************************************************************)
\* A fetching thread has its instance's lock_remoting flag of the page set; a
\* LockRemote call that serves it holds the mutex of the page.
FetchInv ==
  /\ OneFetch
  /\ \A t \in Thread :
       /\ pc[t] \in Fetching => lock_remoting[Ins[t]][iter[t]]
       /\ pc[t] \in Serving => gmtx[iter[t]]

Granting == {"reply", "put"}
Revoking == {"revoked", "answer"}

\* GlobalLock's record of the owner is right for a page no revocation has
\* overtaken: an instance that has the page, or a grant of it under way, is
\* write_ins_id; between a revocation and its answer nobody has the page.
OwnInv ==
  \A p \in Page \ overtaken :
    /\ \A i \in Instance : lock_mode[i][p] # "O" => write_ins_id[p] = i
    /\ \A t \in Thread : iter[t] = p /\ pc[t] \in Granting => write_ins_id[p] = Ins[t]
    /\ \A t \in Thread : iter[t] = p /\ pc[t] \in Revoking =>
         /\ \A i \in Instance : lock_mode[i][p] = "O"
         /\ \A u \in Thread : iter[u] = p => pc[u] \notin Granting

ProtocolInv == IterInv /\ FetchInv /\ OwnInv

\* A step of t outside the fetch of a page: it leaves alone what the protocol
\* between instances is about.
Elsewhere(t) == \A u \in Thread : u # t => pc'[u] = pc[u] /\ iter'[u] = iter[u]
SameOwners ==
  \A i \in Instance, p \in Page : lock_mode'[i][p] = "O" <=> lock_mode[i][p] = "O"
LocalStep(t) ==
  /\ UNCHANGED <<write_ins_id, gmtx, lock_remoting, overtaken>>
  /\ SameOwners
  /\ Elsewhere(t)
  /\ pc[t] \notin Fetching /\ pc'[t] \notin Fetching
  /\ pc'[t] \in AtPage => iter'[t] \in Page
Stopped == UNCHANGED <<write_ins_id, gmtx, lock_remoting, overtaken, lock_mode, pc, iter>>

LEMMA StoppedProtocol ==
  ASSUME ProtocolInv, Stopped
  PROVE  ProtocolInv'
  BY SMTT(60) DEF Stopped, ProtocolInv, IterInv, FetchInv, OneFetch, OwnInv

LEMMA FailStops ==
  ASSUME NEW i, NEW w, Fail(i, w)
  PROVE  Stopped
  BY DEF Fail, Stopped, nodeVars, globalVars, threadVars, ghostVars

\* Which of the labels lie in the sets of labels the invariants speak of.
LEMMA LocalPlaces ==
  /\ "start" \notin Fetching /\ "check" \notin Fetching /\ "mode" \notin Fetching
  /\ "cas" \notin Fetching /\ "lost" \notin Fetching /\ "spin" \notin Fetching
  /\ "spun" \notin Fetching /\ "pin" \notin Fetching /\ "add" \notin Fetching
  /\ "run" \notin Fetching /\ "lockx" \notin Fetching /\ "load" \notin Fetching
  /\ "store" \notin Fetching /\ "unlock" \notin Fetching /\ "unpin" \notin Fetching
  /\ "start" \notin AtPage /\ "check" \notin AtPage /\ "mode" \notin AtPage
  /\ "pin" \notin AtPage /\ "run" \notin AtPage /\ "unpin" \notin AtPage
  BY DEF AtPage, Fetching

LEMMA PagePlaces ==
  /\ "cas" \in AtPage /\ "lost" \in AtPage /\ "spin" \in AtPage /\ "spun" \in AtPage
  /\ "add" \in AtPage /\ "lockx" \in AtPage /\ "load" \in AtPage /\ "store" \in AtPage
  /\ "unlock" \in AtPage
  BY DEF AtPage

LEMMA FetchPlaces ==
  /\ Serving \subseteq Fetching /\ Fetching \subseteq AtPage
  /\ Granting \subseteq Fetching /\ Revoking \subseteq Serving
  /\ "cas" \notin Fetching /\ "mode" \notin Fetching /\ "mode" \notin AtPage
  /\ "call" \in Fetching /\ "call" \notin Serving /\ "call" \notin Granting
  /\ "invalid" \in Serving /\ "invalid" \notin Granting /\ "invalid" \notin Revoking
  /\ "waiting" \in Serving /\ "waiting" \notin Granting /\ "waiting" \notin Revoking
  /\ "revoked" \in Revoking /\ "revoked" \notin Granting
  /\ "answer" \in Revoking /\ "answer" \notin Granting
  /\ "reply" \in Granting /\ "reply" \notin Serving
  /\ "put" \in Granting /\ "put" \notin Serving
  BY DEF AtPage, Fetching, Serving, Granting, Revoking

LEMMA LocalProtocol ==
  ASSUME TypeOK, ProtocolInv, NEW t \in Thread, LocalStep(t)
  PROVE  ProtocolInv'
<1> USE DEF LocalStep, Elsewhere, SameOwners
<1>1. IterInv'
  BY FetchPlaces DEF ProtocolInv, IterInv
<1>2. FetchInv'
  BY FetchPlaces, SMTT(60) DEF ProtocolInv, FetchInv, OneFetch
<1>3. OwnInv'
  BY FetchPlaces, SMTT(60) DEF ProtocolInv, OwnInv
<1>4. QED
  BY <1>1, <1>2, <1>3 DEF ProtocolInv

LEMMA GotoStep ==
  ASSUME TypeOK, NEW t \in Thread, NEW l, Goto(t, l)
  PROVE  pc'[t] = l /\ \A u \in Thread : u # t => pc'[u] = pc[u]
  BY DEF TypeOK, Goto

LEMMA NextPageStep ==
  ASSUME TypeOK, NEW t \in Thread, NEW l, NextPage(t, l)
  PROVE  pc'[t] = l /\ Elsewhere(t)
<1>1. Goto(t, l) /\ iter' = [iter EXCEPT ![t] = NoPage]
  BY DEF NextPage
<1>2. \A u \in Thread : u # t => iter'[u] = iter[u]
  BY <1>1 DEF TypeOK
<1>3. QED
  BY <1>1, <1>2, GotoStep DEF Elsewhere

\* A step that changes no variable of the protocol but the place of t.
Quiet == UNCHANGED <<write_ins_id, gmtx, lock_remoting, overtaken, lock_mode>>

LEMMA QuietMove ==
  ASSUME TypeOK, NEW t \in Thread, NEW l, Quiet, Goto(t, l), iter' = iter,
         pc[t] \notin Fetching, l \notin Fetching,
         l \in AtPage => iter[t] \in Page
  PROVE  LocalStep(t)
<1>1. pc'[t] = l /\ \A u \in Thread : u # t => pc'[u] = pc[u]
  BY GotoStep
<1>2. QED
  BY <1>1 DEF LocalStep, Quiet, SameOwners, Elsewhere

LEMMA QuietVisit ==
  ASSUME TypeOK, NEW t \in Thread, NEW l, NEW p \in Page, Quiet, Goto(t, l),
         iter' = [iter EXCEPT ![t] = p], pc[t] \notin Fetching, l \notin Fetching
  PROVE  LocalStep(t)
<1>1. pc'[t] = l /\ \A u \in Thread : u # t => pc'[u] = pc[u]
  BY GotoStep
<1>2. iter'[t] = p /\ \A u \in Thread : u # t => iter'[u] = iter[u]
  BY DEF TypeOK
<1>3. QED
  BY <1>1, <1>2 DEF LocalStep, Quiet, SameOwners, Elsewhere

LEMMA QuietLeave ==
  ASSUME TypeOK, NEW t \in Thread, NEW l, Quiet, NextPage(t, l),
         pc[t] \notin Fetching, l \notin Fetching, l \notin AtPage
  PROVE  LocalStep(t)
  BY NextPageStep DEF LocalStep, Quiet, SameOwners

LEMMA QuietStay ==
  ASSUME TypeOK, IterInv, NEW t \in Thread, Quiet, pc' = pc, iter' = iter,
         pc[t] \notin Fetching
  PROVE  LocalStep(t)
<1>1. pc[t] \in AtPage => iter[t] \in Page
  BY DEF IterInv
<1>2. QED
  BY <1>1 DEF LocalStep, Quiet, SameOwners, Elsewhere

\* Start, the loops of GetWritePageLock outside the fetch, and the actions of
\* a running transaction are steps of that kind, or a failed assertion.
LEMMA LocalActions ==
  ASSUME TypeOK, IterInv, NEW t \in Thread,
         \/ Start(t) \/ CheckInvalid(t) \/ TestMode(t) \/ LostCas(t) \/ SpinOnMode(t)
         \/ SpinDone(t) \/ CheckOwned(t) \/ AddThread(t) \/ Run(t)
  PROVE  LocalStep(t) \/ Stopped
<1> USE DEF At, nodeVars, globalVars, threadVars, ghostVars
<1>1. CASE Start(t)
  <2>1. Quiet /\ iter' = iter /\ Goto(t, "check") /\ pc[t] = "start"
    BY <1>1 DEF Start, Quiet
  <2>2. QED
    BY <2>1, LocalPlaces, QuietMove
<1>2. CASE CheckInvalid(t)
  <2>1. Quiet /\ iter' = iter /\ (pc' = pc \/ Goto(t, "mode")) /\ pc[t] = "check"
    BY <1>2 DEF CheckInvalid, Quiet
  <2>2. QED
    BY <2>1, LocalPlaces, QuietMove, QuietStay
<1>3. CASE TestMode(t)
  <2>1. Quiet /\ pc[t] = "mode"
    BY <1>3 DEF TestMode, Quiet
  <2>2. \/ pc' = pc /\ iter' = iter
        \/ Goto(t, "pin") /\ iter' = iter
        \/ \E p \in First(t) : Goto(t, "cas") /\ iter' = [iter EXCEPT ![t] = p]
    BY <1>3 DEF TestMode
  <2>3. CASE pc' = pc /\ iter' = iter
    BY <2>1, <2>3, LocalPlaces, QuietStay
  <2>4. CASE Goto(t, "pin") /\ iter' = iter
    BY <2>1, <2>4, LocalPlaces, QuietMove
  <2>5. CASE \E p \in First(t) : Goto(t, "cas") /\ iter' = [iter EXCEPT ![t] = p]
    BY <2>1, <2>5, LocalPlaces, FirstType, QuietVisit
  <2>6. QED
    BY <2>2, <2>3, <2>4, <2>5
<1>4. CASE LostCas(t)
  <2>1. pc[t] = "lost" /\ iter[t] \in Page
    BY <1>4, PageOf, PagePlaces DEF LostCas
  <2>2. CASE Fail(Ins[t], "lost")
    BY <2>2, FailStops
  <2>3. CASE ~Fail(Ins[t], "lost")
    <3>1. Quiet /\ iter' = iter /\ Goto(t, "spin")
      BY <1>4, <2>3 DEF LostCas, Quiet
    <3>2. QED
      BY <2>1, <3>1, LocalPlaces, QuietMove
  <2>4. QED
    BY <2>2, <2>3
<1>5. CASE SpinOnMode(t)
  <2>1. Quiet /\ iter' = iter /\ Goto(t, "spun") /\ pc[t] = "spin"
    BY <1>5 DEF SpinOnMode, Quiet
  <2>2. iter[t] \in Page
    BY <2>1, PageOf, PagePlaces
  <2>3. QED
    BY <2>1, <2>2, LocalPlaces, QuietMove
<1>6. CASE SpinDone(t)
  <2>1. CASE Fail(Ins[t], "spun")
    BY <2>1, FailStops
  <2>2. CASE ~Fail(Ins[t], "spun")
    <3>1. Quiet /\ NextPage(t, "mode") /\ pc[t] = "spun"
      BY <1>6, <2>2 DEF SpinDone, Quiet
    <3>2. QED
      BY <3>1, LocalPlaces, QuietLeave
  <2>3. QED
    BY <2>1, <2>2
<1>7. CASE CheckOwned(t)
  <2>1. CASE Fail(Ins[t], "pin")
    BY <2>1, FailStops
  <2>2. CASE ~Fail(Ins[t], "pin")
    <3>1. pc[t] = "pin"
      BY <1>7 DEF CheckOwned
    <3>2. \/ Quiet /\ iter' = iter /\ Goto(t, "run")
          \/ \E p \in First(t) : Quiet /\ Goto(t, "add") /\ iter' = [iter EXCEPT ![t] = p]
      BY <1>7, <2>2 DEF CheckOwned, Quiet
    <3>3. CASE Quiet /\ iter' = iter /\ Goto(t, "run")
      BY <3>1, <3>3, LocalPlaces, QuietMove
    <3>4. CASE \E p \in First(t) : Quiet /\ Goto(t, "add") /\ iter' = [iter EXCEPT ![t] = p]
      BY <3>1, <3>4, LocalPlaces, FirstType, QuietVisit
    <3>5. QED
      BY <3>2, <3>3, <3>4
  <2>3. QED
    BY <2>1, <2>2
<1>8. CASE AddThread(t)
  <2>1. Quiet /\ NextPage(t, "pin") /\ pc[t] = "add"
    BY <1>8 DEF AddThread, Quiet
  <2>2. QED
    BY <2>1, LocalPlaces, QuietLeave
<1>9. CASE WriteRow(t)
  <2>1. PICK p \in todo[t] :
          \/ /\ Goto(t, "lockx") /\ iter' = [iter EXCEPT ![t] = p]
             /\ Quiet /\ pc[t] = "run"
          \/ Fail(Ins[t], "run")
    BY <1>9 DEF WriteRow, Quiet
  <2>2. p \in Page
    BY <2>1 DEF TypeOK
  <2>3. CASE Fail(Ins[t], "run")
    BY <2>3, FailStops
  <2>4. CASE Goto(t, "lockx") /\ iter' = [iter EXCEPT ![t] = p] /\ Quiet /\ pc[t] = "run"
    BY <2>2, <2>4, LocalPlaces, QuietVisit
  <2>5. QED
    BY <2>1, <2>3, <2>4
<1>10. CASE LockX(t)
  <2>1. pc[t] = "lockx" /\ Ins[t] \in Instance /\ iter[t] \in Page
    BY <1>10, PageOf, PagePlaces DEF LockX
  <2>2. CASE count[Ins[t]][iter[t]] = 0
    <3>1. /\ UNCHANGED <<write_ins_id, gmtx, lock_remoting, overtaken>>
          /\ iter' = iter /\ Goto(t, "load")
          /\ lock_mode[Ins[t]][iter[t]] = "P"
          /\ lock_mode' = [lock_mode EXCEPT ![Ins[t]][iter[t]] = "X"]
      BY <1>10, <2>2 DEF LockX, Mode
    <3>2. \A i \in Instance, p \in Page : lock_mode'[i][p] =
            IF i = Ins[t] /\ p = iter[t] THEN "X" ELSE lock_mode[i][p]
      BY <2>1, <3>1 DEF TypeOK
    <3>3. SameOwners
      BY <3>1, <3>2, SMTT(60) DEF SameOwners
    <3>4. pc'[t] = "load" /\ Elsewhere(t)
      BY <3>1, GotoStep DEF Elsewhere
    <3>5. QED
      BY <2>1, <3>1, <3>3, <3>4, LocalPlaces DEF LocalStep
  <2>3. CASE count[Ins[t]][iter[t]] # 0
    BY <1>10, <2>3, FailStops DEF LockX
  <2>4. QED
    BY <2>2, <2>3
<1>11. CASE LoadPage(t)
  <2>1. Quiet /\ iter' = iter /\ Goto(t, "store") /\ pc[t] = "load"
    BY <1>11 DEF LoadPage, Quiet
  <2>2. iter[t] \in Page
    BY <2>1, PageOf, PagePlaces
  <2>3. QED
    BY <2>1, <2>2, LocalPlaces, QuietMove
<1>12. CASE StoreRow(t)
  <2>1. Quiet /\ iter' = iter /\ Goto(t, "unlock") /\ pc[t] = "store"
    BY <1>12 DEF StoreRow, Quiet
  <2>2. iter[t] \in Page
    BY <2>1, PageOf, PagePlaces
  <2>3. QED
    BY <2>1, <2>2, LocalPlaces, QuietMove
<1>13. CASE UnLock(t)
  <2>1. pc[t] = "unlock" /\ Ins[t] \in Instance /\ iter[t] \in Page
    BY <1>13, PageOf, PagePlaces DEF UnLock
  <2>2. UNCHANGED <<write_ins_id, gmtx, lock_remoting, overtaken>> /\ NextPage(t, "run")
    BY <1>13 DEF UnLock
  <2>3. SameOwners
    <3>1. CASE Mode(t, iter[t]) = "X"
      <4>1. lock_mode' = [lock_mode EXCEPT ![Ins[t]][iter[t]] = "P"]
        BY <1>13, <3>1 DEF UnLock
      <4>2. \A i \in Instance, p \in Page : lock_mode'[i][p] =
              IF i = Ins[t] /\ p = iter[t] THEN "P" ELSE lock_mode[i][p]
        BY <2>1, <4>1 DEF TypeOK
      <4>3. QED
        BY <3>1, <4>2, SMTT(60) DEF Mode, SameOwners
    <3>2. CASE Mode(t, iter[t]) # "X"
      BY <1>13, <3>2 DEF UnLock, SameOwners
    <3>3. QED
      BY <3>1, <3>2
  <2>4. QED
    BY <2>1, <2>2, <2>3, NextPageStep, LocalPlaces DEF LocalStep
<1>14. CASE Finish(t)
  <2>1. Quiet /\ iter' = iter /\ Goto(t, "unpin") /\ pc[t] = "run"
    BY <1>14 DEF Finish, Quiet
  <2>2. QED
    BY <2>1, LocalPlaces, QuietMove
<1>15. CASE RemoveThread(t)
  <2>1. CASE Fail(Ins[t], "unpin")
    BY <2>1, FailStops
  <2>2. CASE ~Fail(Ins[t], "unpin")
    <3>1. pc[t] = "unpin"
      BY <1>15 DEF RemoveThread
    <3>2. Quiet /\ iter' = iter /\ (pc' = pc \/ Goto(t, "start"))
      BY <1>15, <2>2 DEF RemoveThread, Quiet
    <3>3. QED
      BY <3>1, <3>2, LocalPlaces, QuietMove, QuietStay
  <2>3. QED
    BY <2>1, <2>2
<1>16. QED
  BY <1>1, <1>2, <1>3, <1>4, <1>5, <1>6, <1>7, <1>8, <1>9, <1>10, <1>11, <1>12,
     <1>13, <1>14, <1>15 DEF Run

-----------------------------------------------------------------------------
(***************************************************************************)
(* The steps that fetch a page preserve the protocol invariant; the        *)
(* theorems about every behaviour of PageLock follow.                      *)
(***************************************************************************)

\* The actions of the fetch of a page, one by one.
LEMMA CasRemotingStep ==
  ASSUME TypeOK, ProtocolInv, NEW t \in Thread, CasRemoting(t)
  PROVE  ProtocolInv'
<1>1. /\ UNCHANGED <<write_ins_id, gmtx, overtaken, lock_mode, iter>>
      /\ pc[t] = "cas"
  BY DEF CasRemoting, At, globalVars, ghostVars
<1>2. Ins[t] \in Instance /\ iter[t] \in Page
  BY <1>1, PageOf, PagePlaces DEF ProtocolInv
<1>3. CASE lock_remoting[Ins[t]][iter[t]]
  <2>1. /\ lock_remoting' = lock_remoting
        /\ pc'[t] = "lost" /\ \A u \in Thread : u # t => pc'[u] = pc[u]
    BY <1>3, GotoStep DEF CasRemoting, Remoting
  <2>2. LocalStep(t)
    BY <1>1, <1>2, <2>1, LocalPlaces DEF LocalStep, SameOwners, Elsewhere
  <2>3. QED
    BY <2>2, LocalProtocol
<1>4. CASE ~lock_remoting[Ins[t]][iter[t]]
  <2>1. /\ lock_remoting' = [lock_remoting EXCEPT ![Ins[t]][iter[t]] = TRUE]
        /\ pc'[t] = "call" /\ \A u \in Thread : u # t => pc'[u] = pc[u]
    BY <1>4, GotoStep DEF CasRemoting, Remoting
  <2>2. \A i \in Instance, p \in Page :
          lock_remoting[i][p] \/ (i = Ins[t] /\ p = iter[t]) => lock_remoting'[i][p]
    BY <1>2, <2>1 DEF TypeOK
  <2>3. IterInv'
    BY <1>1, <1>2, <2>1, FetchPlaces, SMTT(60) DEF ProtocolInv, IterInv
  <2>4. \A u \in Thread : pc[u] \in Fetching => iter[u] \in Page /\ Ins[u] \in Instance
    BY PageOf, FetchPlaces DEF ProtocolInv
  <2>5. FetchInv'
    BY <1>1, <1>2, <1>4, <2>1, <2>2, <2>4, FetchPlaces, SMTT(60) DEF ProtocolInv, FetchInv, OneFetch
  <2>6. OwnInv'
    BY <1>1, <2>1, FetchPlaces, SMTT(60) DEF ProtocolInv, OwnInv
  <2>7. QED
    BY <2>3, <2>5, <2>6 DEF ProtocolInv
<1>5. QED
  BY <1>3, <1>4

LEMMA GrantUnownedStep ==
  ASSUME TypeOK, ProtocolInv, NEW t \in Thread, GrantUnowned(t)
  PROVE  ProtocolInv'
<1>1. /\ UNCHANGED <<gmtx, lock_remoting, overtaken, lock_mode, iter>>
      /\ pc[t] = "call" /\ ~gmtx[iter[t]] /\ write_ins_id[iter[t]] = NoInstance
      /\ write_ins_id' = [write_ins_id EXCEPT ![iter[t]] = Ins[t]]
      /\ pc'[t] = "reply" /\ \A u \in Thread : u # t => pc'[u] = pc[u]
  BY GotoStep DEF GrantUnowned, SetOwner, nodeVars, ghostVars
<1>2. iter[t] \in Page /\ \A u \in Thread : Ins[u] \in Instance
  BY <1>1, PageOf, InsAssumption DEF ProtocolInv
<1>3. \A p \in Page : write_ins_id'[p] = IF p = iter[t] THEN Ins[t] ELSE write_ins_id[p]
  BY <1>1, <1>2 DEF TypeOK
<1>4. IterInv'
  BY <1>1, <1>2, <1>3, FetchPlaces, SMTT(60) DEF ProtocolInv, IterInv
<1>5. FetchInv'
  BY <1>1, FetchPlaces, SMTT(60) DEF ProtocolInv, FetchInv, OneFetch
<1>6. OwnInv'
  BY <1>1, <1>2, <1>3, InstanceAssumption, FetchPlaces, SMTT(60) DEF ProtocolInv, OwnInv, FetchInv
<1>7. QED
  BY <1>4, <1>5, <1>6, SMTT(60) DEF ProtocolInv

LEMMA LockOwnedStep ==
  ASSUME TypeOK, ProtocolInv, NEW t \in Thread, LockOwned(t)
  PROVE  ProtocolInv'
<1>1. /\ UNCHANGED <<write_ins_id, lock_remoting, overtaken, lock_mode, iter>>
      /\ pc[t] = "call" /\ ~gmtx[iter[t]] /\ write_ins_id[iter[t]] # NoInstance
      /\ gmtx' = [gmtx EXCEPT ![iter[t]] = TRUE]
      /\ pc'[t] = "invalid" /\ \A u \in Thread : u # t => pc'[u] = pc[u]
  BY GotoStep DEF LockOwned, nodeVars, ghostVars
<1>2. iter[t] \in Page /\ \A u \in Thread : pc[u] \in Serving => iter[u] \in Page
  BY <1>1, PageOf DEF ProtocolInv
<1>3. \A p \in Page : gmtx[p] \/ p = iter[t] => gmtx'[p]
  BY <1>1, <1>2 DEF TypeOK
<1>4. write_ins_id[iter[t]] \in Instance
  BY <1>1, <1>2 DEF TypeOK
<1>5. IterInv'
  BY <1>1, <1>2, <1>4, FetchPlaces DEF ProtocolInv, IterInv
<1>6. FetchInv'
  BY <1>1, <1>2, <1>3, FetchPlaces, SMTT(60) DEF ProtocolInv, FetchInv, OneFetch
<1>7. OwnInv'
  BY <1>1, FetchPlaces, SMTT(60) DEF ProtocolInv, OwnInv
<1>8. QED
  BY <1>5, <1>6, <1>7, SMTT(60) DEF ProtocolInv

LEMMA RevokeStep ==
  ASSUME TypeOK, ProtocolInv, NEW t \in Thread, Revoke(t)
  PROVE  ProtocolInv'
<1>1. pc[t] = "waiting" /\ Owner(t) \in Instance /\ iter[t] \in Page
  BY PageOf, FetchPlaces DEF Revoke, ProtocolInv
<1>2. CASE count[Owner(t)][iter[t]] = 0
  <2>1. /\ UNCHANGED <<write_ins_id, gmtx, lock_remoting, iter>>
        /\ lock_mode' = [lock_mode EXCEPT ![Owner(t)][iter[t]] = "O"]
        /\ overtaken' = IF GrantInFlight(Owner(t), iter[t])
                        THEN overtaken \cup {iter[t]} ELSE overtaken
        /\ pc'[t] = "revoked" /\ \A u \in Thread : u # t => pc'[u] = pc[u]
    BY <1>2, GotoStep DEF Revoke, globalVars
  <2>2. \A i \in Instance, p \in Page : lock_mode'[i][p] =
          IF i = Owner(t) /\ p = iter[t] THEN "O" ELSE lock_mode[i][p]
    BY <1>1, <2>1 DEF TypeOK
  <2>3. IterInv'
    BY <1>1, <2>1, FetchPlaces, SMTT(60) DEF ProtocolInv, IterInv
  <2>4. FetchInv'
    BY <1>1, <2>1, FetchPlaces, SMTT(60) DEF ProtocolInv, FetchInv, OneFetch
  <2>5. OwnInv'
    <3>1. ASSUME NEW p \in Page \ overtaken'
          PROVE  p \in Page \ overtaken /\ (p = iter[t] => ~GrantInFlight(Owner(t), iter[t]))
      BY <2>1
    <3>2. ASSUME iter[t] \in Page \ overtaken'
          PROVE  /\ \A i \in Instance : lock_mode'[i][iter[t]] = "O"
                 /\ \A u \in Thread : iter[u] = iter[t] => pc[u] \notin Granting
      <4>1. iter[t] \in Page \ overtaken /\ ~GrantInFlight(Owner(t), iter[t])
        BY <3>1, <3>2
      <4>2. \A i \in Instance : lock_mode[i][iter[t]] # "O" => i = Owner(t)
        BY <4>1 DEF ProtocolInv, OwnInv, Owner
      <4>3. \A u \in Thread : iter[u] = iter[t] /\ pc[u] \in Granting => Ins[u] = Owner(t)
        BY <4>1, SMTT(60) DEF ProtocolInv, OwnInv, Owner
      <4>4. \A u \in Thread : iter[u] = iter[t] => pc[u] \notin Granting
        BY <4>1, <4>3 DEF GrantInFlight, Granting
      <4>5. QED
        BY <1>1, <2>2, <4>2, <4>4, SMTT(60)
    <3>3. QED
      BY <1>1, <2>1, <2>2, <3>1, <3>2, FetchPlaces, SMTT(60) DEF ProtocolInv, OwnInv
  <2>6. QED
    BY <2>3, <2>4, <2>5, SMTT(60) DEF ProtocolInv
<1>3. CASE count[Owner(t)][iter[t]] # 0
  BY <1>3, FailStops, StoppedProtocol DEF Revoke
<1>4. QED
  BY <1>2, <1>3

LEMMA AnswerStep ==
  ASSUME TypeOK, ProtocolInv, NEW t \in Thread, Answer(t)
  PROVE  ProtocolInv'
<1>1. pc[t] = "answer" /\ iter[t] \in Page
  BY PageOf, FetchPlaces DEF Answer, ProtocolInv
<1>2. CASE iter[t] = 0 /\ lock_mode[Owner(t)][iter[t]] # "O"
  BY <1>2, FailStops, StoppedProtocol DEF Answer
<1>3. CASE ~(iter[t] = 0 /\ lock_mode[Owner(t)][iter[t]] # "O")
  <2>1. /\ UNCHANGED <<lock_mode, lock_remoting, overtaken, iter>>
        /\ write_ins_id' = [write_ins_id EXCEPT ![iter[t]] = Ins[t]]
        /\ gmtx' = [gmtx EXCEPT ![iter[t]] = FALSE]
        /\ pc'[t] = "reply" /\ \A u \in Thread : u # t => pc'[u] = pc[u]
    BY <1>3, GotoStep DEF Answer, SetOwner, nodeVars, ghostVars
  <2>2. \A p \in Page :
          /\ write_ins_id'[p] = IF p = iter[t] THEN Ins[t] ELSE write_ins_id[p]
          /\ gmtx'[p] = IF p = iter[t] THEN FALSE ELSE gmtx[p]
    BY <1>1, <2>1 DEF TypeOK
  <2>3. \A u \in Thread : pc[u] \in Serving => iter[u] \in Page
    BY PageOf DEF ProtocolInv
  <2>4. \A u \in Thread : u # t /\ pc[u] \in Serving => iter[u] # iter[t]
    BY <1>1, FetchPlaces DEF ProtocolInv, FetchInv, OneFetch
  <2>5. IterInv'
    BY <1>1, <2>1, <2>2, <2>3, <2>4, FetchPlaces, SMTT(60) DEF ProtocolInv, IterInv
  <2>6. FetchInv'
    <3>1. OneFetch'
      BY <1>1, <2>1, FetchPlaces, SMTT(60) DEF ProtocolInv, FetchInv, OneFetch
    <3>2. ASSUME NEW u \in Thread
          PROVE  /\ (pc[u] \in Fetching)' => lock_remoting'[Ins[u]][iter'[u]]
                 /\ (pc[u] \in Serving)' => gmtx'[iter'[u]]
      BY <1>1, <2>1, <2>2, <2>3, <2>4, FetchPlaces, SMTT(60) DEF ProtocolInv, FetchInv
    <3>3. QED
      BY <3>1, <3>2 DEF FetchInv
  <2>7. OwnInv'
    <3>1. iter[t] \notin overtaken =>
            /\ \A i \in Instance : lock_mode[i][iter[t]] = "O"
            /\ \A u \in Thread : iter[u] = iter[t] => pc[u] \notin Granting
      BY <1>1, FetchPlaces, SMTT(60) DEF ProtocolInv, OwnInv
    <3>2. SUFFICES ASSUME NEW p \in Page \ overtaken
          PROVE  /\ \A i \in Instance : lock_mode[i][p] # "O" => write_ins_id'[p] = i
                 /\ \A u \in Thread : iter[u] = p /\ pc'[u] \in Granting =>
                      write_ins_id'[p] = Ins[u]
                 /\ \A u \in Thread : iter[u] = p /\ pc'[u] \in Revoking =>
                      /\ \A i \in Instance : lock_mode[i][p] = "O"
                      /\ \A v \in Thread : iter[v] = p => pc'[v] \notin Granting
      BY <2>1, SMTT(60) DEF OwnInv
    <3>3. CASE p = iter[t]
      <4>1. \A u \in Thread : iter[u] = p => u = t \/ pc'[u] \notin Granting
        BY <2>1, <3>1, <3>3, SMTT(60)
      <4>2. \A u \in Thread : iter[u] = p => pc'[u] \notin Serving
        BY <2>1, <2>4, <3>3, FetchPlaces
      <4>3. write_ins_id'[p] = Ins[t] /\ \A i \in Instance : lock_mode[i][p] = "O"
        BY <2>2, <3>1, <3>3
      <4>4. QED
        BY <4>1, <4>2, <4>3, FetchPlaces
    <3>4. CASE p # iter[t]
      BY <1>1, <2>1, <2>2, <3>4, FetchPlaces, SMTT(60) DEF ProtocolInv, OwnInv
    <3>5. QED
      BY <3>3, <3>4
  <2>8. QED
    BY <2>5, <2>6, <2>7, SMTT(60) DEF ProtocolInv
<1>4. QED
  BY <1>2, <1>3

LEMMA GrantedStep ==
  ASSUME TypeOK, ProtocolInv, NEW t \in Thread, Granted(t)
  PROVE  ProtocolInv'
<1>1. pc[t] = "reply" /\ Ins[t] \in Instance /\ iter[t] \in Page
  BY PageOf, FetchPlaces DEF Granted, At, ProtocolInv
<1>2. CASE Mode(t, iter[t]) = "O"
  <2>1. /\ UNCHANGED <<write_ins_id, gmtx, lock_remoting, overtaken, iter>>
        /\ lock_mode' = [lock_mode EXCEPT ![Ins[t]][iter[t]] = "P"]
        /\ pc'[t] = "put" /\ \A u \in Thread : u # t => pc'[u] = pc[u]
    BY <1>2, GotoStep DEF Granted, globalVars, ghostVars
  <2>2. \A i \in Instance, p \in Page : lock_mode'[i][p] =
          IF i = Ins[t] /\ p = iter[t] THEN "P" ELSE lock_mode[i][p]
    BY <1>1, <2>1 DEF TypeOK
  <2>3. IterInv'
    BY <1>1, <2>1, FetchPlaces, SMTT(60) DEF ProtocolInv, IterInv
  <2>4. FetchInv'
    BY <1>1, <2>1, FetchPlaces, SMTT(60) DEF ProtocolInv, FetchInv, OneFetch
  <2>5. OwnInv'
    BY <1>1, <2>1, <2>2, FetchPlaces, SMTT(60) DEF ProtocolInv, OwnInv
  <2>6. QED
    BY <2>3, <2>4, <2>5, SMTT(60) DEF ProtocolInv
<1>3. CASE Mode(t, iter[t]) # "O"
  BY <1>3, FailStops, StoppedProtocol DEF Granted
<1>4. QED
  BY <1>2, <1>3

LEMMA StorePageStep ==
  ASSUME TypeOK, ProtocolInv, NEW t \in Thread, StorePage(t)
  PROVE  ProtocolInv'
<1>1. /\ UNCHANGED <<write_ins_id, gmtx, overtaken, lock_mode>>
      /\ lock_remoting' = [lock_remoting EXCEPT ![Ins[t]][iter[t]] = FALSE]
      /\ pc[t] = "put" /\ pc'[t] = "mode" /\ Elsewhere(t)
  BY NextPageStep DEF StorePage, At, globalVars, ghostVars
<1>2. /\ Ins[t] \in Instance /\ iter[t] \in Page
      /\ \A u \in Thread : pc[u] \in Fetching => iter[u] \in Page /\ Ins[u] \in Instance
  BY <1>1, PageOf, FetchPlaces DEF ProtocolInv
<1>3. \A i \in Instance, p \in Page :
        lock_remoting[i][p] /\ ~(i = Ins[t] /\ p = iter[t]) => lock_remoting'[i][p]
  BY <1>1, <1>2, SMTT(60) DEF TypeOK
<1>4. \A u \in Thread : u # t /\ pc[u] \in Fetching => ~(Ins[u] = Ins[t] /\ iter[u] = iter[t])
  BY <1>1, FetchPlaces, SMTT(60) DEF ProtocolInv, FetchInv, OneFetch
<1>5. IterInv'
  BY <1>1, FetchPlaces, SMTT(60) DEF ProtocolInv, IterInv, Elsewhere
<1>6. FetchInv'
  <2>1. OneFetch'
    BY <1>1, FetchPlaces, SMTT(60) DEF ProtocolInv, FetchInv, OneFetch, Elsewhere
  <2>2. ASSUME NEW u \in Thread
        PROVE  /\ (pc[u] \in Fetching)' => lock_remoting'[Ins[u]][iter'[u]]
               /\ (pc[u] \in Serving)' => gmtx'[iter'[u]]
    BY <1>1, <1>2, <1>3, <1>4, FetchPlaces, SMTT(60) DEF ProtocolInv, FetchInv, Elsewhere
  <2>3. QED
    BY <2>1, <2>2, SMTT(60) DEF FetchInv
<1>7. OwnInv'
  BY <1>1, FetchPlaces, SMTT(60) DEF ProtocolInv, OwnInv, Elsewhere
<1>8. QED
  BY <1>5, <1>6, <1>7, SMTT(60) DEF ProtocolInv

\* RaiseInvalid and ReadRevoked change nothing the protocol invariant reads
\* but the pc of the call.
LEMMA ServeQuietly ==
  ASSUME TypeOK, ProtocolInv, NEW t \in Thread, RaiseInvalid(t) \/ ReadRevoked(t)
  PROVE  ProtocolInv'
<1>1. /\ UNCHANGED <<write_ins_id, gmtx, lock_remoting, overtaken, lock_mode, iter>>
      /\ \/ pc[t] = "invalid" /\ pc'[t] = "waiting"
         \/ pc[t] = "revoked" /\ pc'[t] = "answer"
      /\ \A u \in Thread : u # t => pc'[u] = pc[u]
  BY GotoStep, SMTT(60) DEF RaiseInvalid, ReadRevoked, globalVars, ghostVars
<1>2. \A u \in Thread :
        /\ pc'[u] \in AtPage <=> pc[u] \in AtPage
        /\ pc'[u] \in Fetching <=> pc[u] \in Fetching
        /\ pc'[u] \in Serving <=> pc[u] \in Serving
        /\ pc'[u] \in Granting <=> pc[u] \in Granting
        /\ pc'[u] \in Revoking <=> pc[u] \in Revoking
  BY <1>1, FetchPlaces, SMTT(60)
<1>3. IterInv' /\ FetchInv'
  BY <1>1, <1>2, SMTT(60) DEF ProtocolInv, IterInv, FetchInv, OneFetch
<1>4. OwnInv'
  BY <1>1, <1>2, SMTT(60) DEF ProtocolInv, OwnInv
<1>5. QED
  BY <1>3, <1>4 DEF ProtocolInv

\* A failed call stops a process; a call that is sent again gives up a grant.
LEMMA FaultStep ==
  ASSUME TypeOK, ProtocolInv, NEW t \in Thread, Fault(t)
  PROVE  ProtocolInv'
<1>1. CASE LockRemoteFails(t) \/ InvalidFails(t)
  BY <1>1, FailStops, StoppedProtocol, SMTT(60) DEF LockRemoteFails, InvalidFails
<1>2. CASE Resend(t)
  <2>1. /\ UNCHANGED <<write_ins_id, gmtx, lock_remoting, overtaken, lock_mode, iter>>
        /\ pc[t] = "reply" /\ pc'[t] = "call" /\ \A u \in Thread : u # t => pc'[u] = pc[u]
    BY <1>2, GotoStep DEF Resend, At, nodeVars, globalVars
  <2>2. \A u \in Thread :
          /\ pc'[u] \in AtPage => pc[u] \in AtPage
          /\ pc'[u] \in Fetching => pc[u] \in Fetching
          /\ pc'[u] \in Serving => pc[u] \in Serving
          /\ pc'[u] \in Granting => pc[u] \in Granting
          /\ pc'[u] \in Revoking => pc[u] \in Revoking
    BY <2>1, FetchPlaces
  <2>3. IterInv' /\ FetchInv'
    BY <2>1, <2>2, SMTT(60) DEF ProtocolInv, IterInv, FetchInv, OneFetch
  <2>4. OwnInv'
    BY <2>1, <2>2, SMTT(60) DEF ProtocolInv, OwnInv
  <2>5. QED
    BY <2>3, <2>4 DEF ProtocolInv
<1>3. QED
  BY <1>1, <1>2 DEF Fault

-----------------------------------------------------------------------------
\* What every reachable state satisfies: the types, and the protocol invariant.
LEMMA Inductive == Spec => [](TypeOK /\ ProtocolInv)
<1>1. Init => TypeOK /\ ProtocolInv
  <2>1. Init => TypeOK
    BY InsAssumption, SMTT(60) DEF Init, TypeOK, Label, Local, Stop
  <2>2. Init => ProtocolInv
    BY InsAssumption, SMTT(60) DEF Init, ProtocolInv, IterInv, FetchInv, OneFetch, OwnInv,
                         AtPage, Fetching, Serving, Granting, Revoking
  <2>3. QED
    BY <2>1, <2>2, SMTT(60)
<1>2. TypeOK /\ ProtocolInv /\ [Next]_vars => (TypeOK /\ ProtocolInv)'
  <2> SUFFICES ASSUME TypeOK, ProtocolInv, [Next]_vars
               PROVE  TypeOK' /\ ProtocolInv'
    OBVIOUS
  <2>1. CASE UNCHANGED vars
    <3>1. TypeOK'
      BY <2>1 DEF TypeOK, vars, nodeVars, globalVars, threadVars, ghostVars
    <3>2. Stopped
      BY <2>1 DEF Stopped, vars, nodeVars, globalVars, threadVars, ghostVars
    <3>3. QED
      BY <3>1, <3>2, StoppedProtocol, SMTT(60)
  <2>2. ASSUME NEW t \in Thread, Start(t) \/ Acquire(t) \/ Serve(t) \/ Run(t) \/ Fault(t)
        PROVE  TypeOK' /\ ProtocolInv'
    <3>1. TypeOK'
      BY <2>2, AcquireType, ServeType, RunType, FaultType DEF ProtocolInv
    <3>2. CASE \/ Start(t) \/ CheckInvalid(t) \/ TestMode(t) \/ LostCas(t) \/ SpinOnMode(t)
               \/ SpinDone(t) \/ CheckOwned(t) \/ AddThread(t) \/ Run(t)
      <4>1. LocalStep(t) \/ Stopped
        BY <3>2, LocalActions DEF ProtocolInv
      <4>2. QED
        BY <3>1, <4>1, LocalProtocol, StoppedProtocol
    <3>3. CASE CasRemoting(t) \/ Granted(t) \/ StorePage(t) \/ Serve(t)
      BY <3>1, <3>3, CasRemotingStep, GrantedStep, StorePageStep, GrantUnownedStep,
         LockOwnedStep, RevokeStep, AnswerStep, ServeQuietly DEF Serve
    <3>4. CASE Fault(t)
      BY <3>1, <3>4, FaultStep
    <3>5. QED
      BY <2>2, <3>2, <3>3, <3>4 DEF Acquire
  <2>3. QED
    BY <2>1, <2>2 DEF Next
<1>3. QED
  BY <1>1, <1>2, PTL DEF Spec

\* Type correctness of the page ownership protocol (GlobalLock, LockTable,
\* GetWritePageLock and WriteRow).
THEOREM TypeCorrect == Spec => []TypeOK
  BY Inductive, PTL

\* However many workers ask for a page, lock_remoting lets one thread of an
\* instance fetch it at a time and GlobalLock's mutex one invalidation at a time.
THEOREM FetchExclusive == Spec => []OneFetch
<1>1. TypeOK /\ ProtocolInv => OneFetch
  BY DEF ProtocolInv, FetchInv
<1>2. QED
  BY <1>1, Inductive, PTL

\* Two instances hold a page at the same time only if a revocation of it
\* overtook a grant: the race between LockInvalid and the lines after the
\* LockRemote call in GetWritePageLock is the only way to lose exclusiveness.
THEOREM OwnershipExclusive == Spec => []ExclusiveUnlessOvertaken
<1>1. TypeOK /\ ProtocolInv => ExclusiveUnlessOvertaken
  BY SMTT(60) DEF ProtocolInv, OwnInv, ExclusiveUnlessOvertaken
<1>2. QED
  BY <1>1, Inductive, PTL

-----------------------------------------------------------------------------
(***************************************************************************)
(* The pins of PageLock: while a transaction runs, every page of its write *)
(* set has its thread in thread_set, whatever the other threads do.        *)
(***************************************************************************)

Busy == {"load", "store", "unlock"}
Named == {"add", "lockx"} \cup Busy
Running == {"run", "lockx"} \cup Busy
Pins == {"pin", "add", "run", "lockx", "load", "store", "unlock"}

\* The loops of GetWritePageLock and WriteRow stay within the write set; the
\* pages the second loop has passed are pinned, and all of them are while the
\* transaction runs.
PinsOf(t) ==
  /\ todo[t] \subseteq wset[t]
  /\ pc[t] \in Named => iter[t] \in wset[t]
  /\ pc[t] \in {"pin", "add"} => \A p \in wset[t] \ todo[t] : t \in thread_set[Ins[t]][p]
  /\ pc[t] \in Running => \A p \in wset[t] : t \in thread_set[Ins[t]][p]

PinInv == \A t \in Thread : PinsOf(t)

\* What a step of t leaves alone of the other threads.
Alone(t) ==
  \A u \in Thread : u # t =>
    /\ pc'[u] = pc[u] /\ iter'[u] = iter[u] /\ wset'[u] = wset[u] /\ todo'[u] = todo[u]
    /\ \A p \in Page : u \in thread_set'[Ins[u]][p] <=> u \in thread_set[Ins[u]][p]

LEMMA PinFrame ==
  ASSUME TypeOK, PinInv, NEW t \in Thread, Alone(t), PinsOf(t)'
  PROVE  PinInv'
<1> SUFFICES ASSUME NEW u \in Thread PROVE PinsOf(u)'
  BY DEF PinInv
<1>1. CASE u = t
  BY <1>1
<1>2. CASE u # t
  <2>1. PinsOf(u) /\ wset[u] \subseteq Page
    BY DEF PinInv, TypeOK
  <2>2. /\ pc'[u] = pc[u] /\ iter'[u] = iter[u] /\ wset'[u] = wset[u] /\ todo'[u] = todo[u]
        /\ \A p \in Page : u \in thread_set'[Ins[u]][p] <=> u \in thread_set[Ins[u]][p]
    BY <1>2 DEF Alone
  <2>3. QED
    BY <2>1, <2>2 DEF PinsOf
<1>3. QED
  BY <1>1, <1>2

\* The forms in which the actions change the variables of one thread.
LEMMA AloneBy ==
  ASSUME TypeOK, NEW t \in Thread,
         pc' = pc \/ \E l : pc' = [pc EXCEPT ![t] = l],
         iter' = iter \/ \E p : iter' = [iter EXCEPT ![t] = p],
         wset' = wset \/ \E w : wset' = [wset EXCEPT ![t] = w],
         todo' = todo \/ \E w : todo' = [todo EXCEPT ![t] = w],
         thread_set' = thread_set
  PROVE  Alone(t)
<1>1. \A u \in Thread : u # t => pc'[u] = pc[u]
  BY DEF TypeOK
<1>2. \A u \in Thread : u # t => iter'[u] = iter[u]
  BY DEF TypeOK
<1>3. \A u \in Thread : u # t => wset'[u] = wset[u]
  BY DEF TypeOK
<1>4. \A u \in Thread : u # t => todo'[u] = todo[u]
  BY DEF TypeOK
<1>5. QED
  BY <1>1, <1>2, <1>3, <1>4 DEF Alone

-----------------------------------------------------------------------------
(***************************************************************************)
(* The pins.                                                               *)
(***************************************************************************)
LEMMA PinPlaces ==
  /\ Named \subseteq Pins /\ Running \subseteq Pins /\ "pin" \in Pins /\ "add" \in Pins
  /\ "pin" \notin Named /\ "pin" \notin Running /\ "add" \notin Running /\ "run" \notin Named
  /\ "add" \in Named /\ "lockx" \in Named /\ "load" \in Named /\ "store" \in Named
  /\ "unlock" \in Named /\ "run" \in Running /\ "lockx" \in Running /\ "load" \in Running
  /\ "store" \in Running /\ "unlock" \in Running
  BY DEF Pins, Named, Running, Busy

LEMMA IdlePlaces ==
  /\ "start" \notin Pins /\ "check" \notin Pins /\ "mode" \notin Pins /\ "cas" \notin Pins
  /\ "lost" \notin Pins /\ "spin" \notin Pins /\ "spun" \notin Pins /\ "call" \notin Pins
  /\ "invalid" \notin Pins /\ "waiting" \notin Pins /\ "revoked" \notin Pins
  /\ "answer" \notin Pins /\ "reply" \notin Pins /\ "put" \notin Pins /\ "unpin" \notin Pins
  BY DEF Pins

\* Where nothing has to be pinned, only the loop bound matters.
LEMMA PinIdle ==
  ASSUME TypeOK, PinInv, NEW t \in Thread, Alone(t), pc'[t] \notin Pins,
         todo'[t] \subseteq wset'[t]
  PROVE  PinInv'
<1>1. PinsOf(t)'
  BY PinPlaces DEF PinsOf
<1>2. QED
  BY <1>1, PinFrame

LEMMA PinGoto ==
  ASSUME TypeOK, PinInv, NEW t \in Thread, NEW l, Goto(t, l), l \notin Pins,
         UNCHANGED <<thread_set, wset, todo, iter>>
  PROVE  PinInv'
<1>1. Alone(t)
  BY AloneBy DEF Goto
<1>2. pc'[t] = l
  BY GotoStep
<1>3. todo'[t] \subseteq wset'[t]
  BY DEF PinInv, PinsOf
<1>4. QED
  BY <1>1, <1>2, <1>3, PinIdle

LEMMA PinNextPage ==
  ASSUME TypeOK, PinInv, NEW t \in Thread, NEW l, NextPage(t, l), l \notin Pins,
         UNCHANGED <<thread_set, wset>>
  PROVE  PinInv'
<1>1. /\ todo' = [todo EXCEPT ![t] = todo[t] \ {iter[t]}]
      /\ iter' = [iter EXCEPT ![t] = NoPage]
      /\ Goto(t, l)
  BY DEF NextPage
<1>2. Alone(t)
  BY <1>1, AloneBy DEF Goto
<1>3. pc'[t] = l
  BY <1>1, GotoStep
<1>4. todo'[t] = todo[t] \ {iter[t]}
  BY <1>1 DEF TypeOK
<1>5. todo'[t] \subseteq wset'[t]
  BY <1>4 DEF PinInv, PinsOf
<1>6. QED
  BY <1>2, <1>3, <1>5, PinIdle

LEMMA PinFail ==
  ASSUME PinInv, NEW i, NEW w, Fail(i, w)
  PROVE  PinInv'
<1>1. UNCHANGED <<thread_set, pc, wset, todo, iter>>
  BY DEF Fail, nodeVars, threadVars
<1>2. QED
  BY <1>1 DEF PinInv, PinsOf

LEMMA PinAcquire ==
  ASSUME TypeOK, PinInv, NEW t \in Thread, Start(t) \/ CheckInvalid(t) \/ TestMode(t)
  PROVE  PinInv'
<1>1. CASE Start(t)
  <2>1. PICK w \in WriteSet :
          wset' = [wset EXCEPT ![t] = w] /\ todo' = [todo EXCEPT ![t] = w]
    BY <1>1 DEF Start
  <2>2. Goto(t, "check") /\ UNCHANGED <<thread_set, iter>>
    BY <1>1 DEF Start, nodeVars
  <2>3. Alone(t)
    BY <2>1, <2>2, AloneBy DEF Goto
  <2>4. todo'[t] \subseteq wset'[t]
    BY <2>1 DEF TypeOK
  <2>5. QED
    BY <2>2, <2>3, <2>4, GotoStep, PinIdle, IdlePlaces
<1>2. CASE CheckInvalid(t)
  <2>1. pc[t] = "check" /\ UNCHANGED <<thread_set, iter, wset>>
    BY <1>2 DEF CheckInvalid, At, nodeVars
  <2>2. pc' = pc \/ Goto(t, "mode")
    BY <1>2 DEF CheckInvalid
  <2>3. \/ todo' = [todo EXCEPT ![t] = wset[t]]
        \/ \E p \in First(t) : todo' = [todo EXCEPT ![t] = todo[t] \ {p}]
    BY <1>2 DEF CheckInvalid
  <2>4. Alone(t)
    BY <2>1, <2>2, <2>3, AloneBy DEF Goto
  <2>5. todo'[t] \subseteq wset'[t]
    BY <2>1, <2>3, SMTT(60) DEF TypeOK, PinInv, PinsOf
  <2>6. pc'[t] \notin Pins
    BY <2>1, <2>2, GotoStep, IdlePlaces
  <2>7. QED
    BY <2>4, <2>5, <2>6, PinIdle
<1>3. CASE TestMode(t)
  <2>1. pc[t] = "mode" /\ UNCHANGED <<thread_set, wset>>
    BY <1>3 DEF TestMode, At, nodeVars
  <2>2. CASE Goto(t, "pin") /\ todo' = [todo EXCEPT ![t] = wset[t]] /\ iter' = iter
    <3>1. Alone(t)
      BY <2>1, <2>2, AloneBy DEF Goto
    <3>2. pc'[t] = "pin" /\ todo'[t] = wset'[t]
      BY <2>1, <2>2, GotoStep DEF TypeOK
    <3>3. PinsOf(t)'
      BY <3>2, PinPlaces DEF PinsOf
    <3>4. QED
      BY <3>1, <3>3, PinFrame
  <2>3. CASE \E p \in First(t) : /\ iter' = [iter EXCEPT ![t] = p]
                                 /\ Goto(t, "cas") /\ todo' = todo
    <3>1. Alone(t)
      BY <2>1, <2>3, AloneBy DEF Goto
    <3>2. Goto(t, "cas") /\ todo' = todo
      BY <2>3
    <3>3. pc'[t] = "cas"
      BY <3>2, GotoStep
    <3>4. PinsOf(t)
      BY DEF PinInv
    <3>5. todo'[t] \subseteq wset'[t]
      BY <2>1, <3>2, <3>4 DEF PinsOf
    <3>6. QED
      BY <3>1, <3>3, <3>5, PinIdle, IdlePlaces
  <2>4. CASE \E p \in First(t) : /\ todo' = [todo EXCEPT ![t] = todo[t] \ {p}]
                                 /\ UNCHANGED <<iter, pc>>
    <3>1. Alone(t)
      BY <2>1, <2>4, AloneBy
    <3>2. todo'[t] \subseteq wset'[t]
      BY <2>1, <2>4, SMTT(60) DEF TypeOK, PinInv, PinsOf
    <3>3. QED
      BY <2>1, <2>4, <3>1, <3>2, PinIdle, IdlePlaces
  <2>5. QED
    BY <1>3, <2>2, <2>3, <2>4 DEF TestMode
<1>4. QED
  BY <1>1, <1>2, <1>3

\* The second loop of GetWritePageLock pins the pages of the write set.
LEMMA PinPages ==
  ASSUME TypeOK, IterInv, PinInv, NEW t \in Thread, CheckOwned(t) \/ AddThread(t)
  PROVE  PinInv'
<1> PinsOf(t)
  BY DEF PinInv
<1>1. CASE CheckOwned(t)
  <2>1. pc[t] = "pin"
    BY <1>1 DEF CheckOwned, At
  <2>2. CASE Fail(Ins[t], "pin")
    BY <2>2, PinFail
  <2>3. CASE \E p \in First(t) : /\ iter' = [iter EXCEPT ![t] = p] /\ Goto(t, "add")
                                 /\ UNCHANGED <<thread_set, wset, todo>>
    <3>1. PICK p \in First(t) : iter' = [iter EXCEPT ![t] = p]
      BY <2>3
    <3>2. Goto(t, "add") /\ UNCHANGED <<thread_set, wset, todo>>
      BY <2>3
    <3>3. Alone(t)
      BY <3>1, <3>2, AloneBy DEF Goto
    <3>4. pc'[t] = "add" /\ iter'[t] \in wset[t]
      BY <3>1, <3>2, GotoStep, SMTT(60) DEF TypeOK, First, PinsOf
    <3>5. PinsOf(t)'
      BY <2>1, <3>2, <3>4, PinPlaces DEF PinsOf
    <3>6. QED
      BY <3>3, <3>5, PinFrame
  <2>4. CASE /\ todo[t] = {} /\ todo' = [todo EXCEPT ![t] = wset[t]] /\ Goto(t, "run")
             /\ UNCHANGED <<thread_set, wset, iter>>
    <3>1. Alone(t)
      BY <2>4, AloneBy DEF Goto
    <3>2. pc'[t] = "run" /\ todo'[t] = wset[t]
      BY <2>4, GotoStep DEF TypeOK
    <3>3. PinsOf(t)'
      BY <2>1, <2>4, <3>2, PinPlaces DEF PinsOf
    <3>4. QED
      BY <3>1, <3>3, PinFrame
  <2>5. QED
    BY <1>1, <2>2, <2>3, <2>4 DEF CheckOwned, nodeVars
<1>2. CASE AddThread(t)
  <2>1. pc[t] = "add" /\ wset' = wset /\ NextPage(t, "pin")
    BY <1>2 DEF AddThread, At
  <2>2. iter[t] \in Page /\ Ins[t] \in Instance
    BY <2>1, PageOf, PagePlaces
  <2>3. thread_set' = [thread_set EXCEPT ![Ins[t]][iter[t]] = thread_set[Ins[t]][iter[t]] \cup {t}]
    BY <1>2 DEF AddThread
  <2>4. \A i \in Instance, p \in Page : thread_set'[i][p] =
          IF i = Ins[t] /\ p = iter[t] THEN thread_set[i][p] \cup {t} ELSE thread_set[i][p]
    BY <2>2, <2>3 DEF TypeOK
  <2>5. /\ pc'[t] = "pin" /\ todo'[t] = todo[t] \ {iter[t]}
        /\ \A u \in Thread : u # t =>
             pc'[u] = pc[u] /\ iter'[u] = iter[u] /\ todo'[u] = todo[u]
    BY <2>1, GotoStep, SMTT(60) DEF NextPage, TypeOK
  <2>6. Alone(t)
    <3>1. ASSUME NEW u \in Thread, NEW p \in Page, u # t
          PROVE  u \in thread_set'[Ins[u]][p] <=> u \in thread_set[Ins[u]][p]
      <4>1. Ins[u] \in Instance
        BY InsAssumption
      <4>2. thread_set'[Ins[u]][p] = thread_set[Ins[u]][p] \cup {t}
              \/ thread_set'[Ins[u]][p] = thread_set[Ins[u]][p]
        BY <2>4, <4>1, ZenonT(30)
      <4>3. QED
        BY <3>1, <4>2
    <3>2. QED
      BY <2>1, <2>5, <3>1 DEF Alone
  <2>7. wset[t] \subseteq Page
    BY DEF TypeOK
  <2>8. \A p \in wset[t] \ todo'[t] : t \in thread_set'[Ins[t]][p]
    BY <2>1, <2>2, <2>4, <2>5, <2>7 DEF PinsOf
  <2>9. PinsOf(t)'
    BY <2>1, <2>5, <2>8, PinPlaces DEF PinsOf
  <2>10. QED
    BY <2>6, <2>9, PinFrame, SMTT(60)
<1>3. QED
  BY <1>1, <1>2

LEMMA PinRun ==
  ASSUME TypeOK, IterInv, PinInv, NEW t \in Thread, Run(t)
  PROVE  PinInv'
<1> PinsOf(t)
  BY DEF PinInv
<1>1. CASE WriteRow(t)
  <2>1. PICK p \in todo[t] :
          \/ /\ Goto(t, "lockx") /\ iter' = [iter EXCEPT ![t] = p] /\ pc[t] = "run"
             /\ UNCHANGED <<thread_set, wset, todo>>
          \/ Fail(Ins[t], "run")
    BY <1>1 DEF WriteRow, At, nodeVars
  <2>2. CASE Fail(Ins[t], "run")
    BY <2>2, PinFail
  <2>3. CASE ~Fail(Ins[t], "run")
    <3>1. Alone(t)
      BY <2>1, <2>3, AloneBy DEF Goto
    <3>2. pc'[t] = "lockx" /\ iter'[t] \in wset[t]
      BY <2>1, <2>3, GotoStep DEF TypeOK, PinsOf
    <3>3. PinsOf(t)'
      BY <2>1, <2>3, <3>2, PinPlaces DEF PinsOf
    <3>4. QED
      BY <3>1, <3>3, PinFrame
  <2>4. QED
    BY <2>2, <2>3
<1>2. CASE LockX(t) \/ LoadPage(t) \/ StoreRow(t)
  <2>1. CASE Fail(Ins[t], "lockx")
    BY <2>1, PinFail
  <2>2. CASE ~Fail(Ins[t], "lockx")
    <3>1. /\ UNCHANGED <<thread_set, wset, todo, iter>>
          /\ \/ pc[t] = "lockx" /\ Goto(t, "load")
             \/ pc[t] = "load" /\ Goto(t, "store")
             \/ pc[t] = "store" /\ Goto(t, "unlock")
      BY <1>2, <2>2 DEF LockX, LoadPage, StoreRow, At, nodeVars
    <3>2. Alone(t)
      BY <3>1, AloneBy DEF Goto
    <3>3. /\ pc[t] \in Running /\ pc[t] \in Named
          /\ pc'[t] \notin {"pin", "add"}
      BY <3>1, GotoStep, PinPlaces
    <3>4. PinsOf(t)'
      BY <3>1, <3>3 DEF PinsOf
    <3>5. QED
      BY <3>2, <3>4, PinFrame
  <2>3. QED
    BY <2>1, <2>2
<1>3. CASE UnLock(t)
  <2>1. pc[t] = "unlock" /\ NextPage(t, "run") /\ UNCHANGED <<thread_set, wset>>
    BY <1>3 DEF UnLock, At
  <2>2. /\ todo' = [todo EXCEPT ![t] = todo[t] \ {iter[t]}]
        /\ iter' = [iter EXCEPT ![t] = NoPage]
        /\ Goto(t, "run")
    BY <2>1 DEF NextPage
  <2>3. Alone(t)
    BY <2>1, <2>2, AloneBy DEF Goto
  <2>4. pc'[t] = "run" /\ todo'[t] = todo[t] \ {iter[t]}
    BY <2>2, GotoStep DEF TypeOK
  <2>5. PinsOf(t)'
    BY <2>1, <2>4, PinPlaces DEF PinsOf
  <2>6. QED
    BY <2>3, <2>5, PinFrame, SMTT(60)
<1>4. CASE Finish(t)
  <2>1. /\ Goto(t, "unpin") /\ todo' = [todo EXCEPT ![t] = wset[t]]
        /\ UNCHANGED <<thread_set, wset, iter>>
    BY <1>4 DEF Finish, nodeVars
  <2>2. Alone(t)
    BY <2>1, AloneBy DEF Goto
  <2>3. todo'[t] \subseteq wset'[t]
    BY <2>1 DEF TypeOK
  <2>4. QED
    BY <2>1, <2>2, <2>3, GotoStep, PinIdle, IdlePlaces
<1>5. CASE RemoveThread(t)
  <2>1. pc[t] = "unpin"
    BY <1>5 DEF RemoveThread, At
  <2>2. CASE Fail(Ins[t], "unpin")
    BY <2>2, PinFail
  <2>3. CASE \E p \in First(t) :
               /\ thread_set' = [thread_set EXCEPT ![Ins[t]][p] = thread_set[Ins[t]][p] \ {t}]
               /\ todo' = [todo EXCEPT ![t] = todo[t] \ {p}]
               /\ UNCHANGED <<pc, wset, iter>>
    <3>1. PICK p \in First(t) :
               /\ thread_set' = [thread_set EXCEPT ![Ins[t]][p] = thread_set[Ins[t]][p] \ {t}]
               /\ todo' = [todo EXCEPT ![t] = todo[t] \ {p}]
               /\ UNCHANGED <<pc, wset, iter>>
      BY <2>3
    <3>2. p \in Page /\ Ins[t] \in Instance
      BY FirstType
    <3>3. \A i \in Instance, q \in Page : thread_set'[i][q] =
            IF i = Ins[t] /\ q = p THEN thread_set[i][q] \ {t} ELSE thread_set[i][q]
      BY <3>1, <3>2 DEF TypeOK
    <3>4. todo'[t] = todo[t] \ {p} /\ \A u \in Thread : u # t => todo'[u] = todo[u]
      BY <3>1 DEF TypeOK
    <3>5. Alone(t)
      BY <3>1, <3>3, <3>4, InsAssumption, SMTT(60) DEF Alone
    <3>6. pc'[t] \notin Pins /\ todo'[t] \subseteq wset'[t]
      BY <2>1, <3>1, <3>4, IdlePlaces DEF PinsOf
    <3>7. QED
      BY <3>5, <3>6, PinIdle
  <2>4. CASE /\ todo[t] = {} /\ wset' = [wset EXCEPT ![t] = {}] /\ Goto(t, "start")
             /\ UNCHANGED <<thread_set, todo, iter>>
    <3>1. Alone(t)
      BY <2>4, AloneBy DEF Goto
    <3>2. QED
      BY <2>4, <3>1, GotoStep, PinIdle, IdlePlaces
  <2>5. QED
    BY <1>5, <2>2, <2>3, <2>4 DEF RemoveThread, nodeVars
<1>6. QED
  BY <1>1, <1>2, <1>3, <1>4, <1>5 DEF Run

LEMMA PinFault ==
  ASSUME TypeOK, PinInv, NEW t \in Thread, Fault(t)
  PROVE  PinInv'
<1>1. CASE LockRemoteFails(t) \/ InvalidFails(t)
  BY <1>1, PinFail DEF LockRemoteFails, InvalidFails
<1>2. CASE Resend(t)
  <2>1. UNCHANGED <<thread_set, wset, todo, iter>> /\ Goto(t, "call")
    BY <1>2 DEF Resend, nodeVars
  <2>2. QED
    BY <2>1, PinGoto, IdlePlaces
<1>3. QED
  BY <1>1, <1>2 DEF Fault

LEMMA PinFetch ==
  ASSUME TypeOK, PinInv, NEW t \in Thread,
         \/ CasRemoting(t) \/ LostCas(t) \/ SpinOnMode(t) \/ SpinDone(t)
         \/ Granted(t) \/ StorePage(t) \/ Serve(t)
  PROVE  PinInv'
<1> USE DEF nodeVars
<1>1. CASE CasRemoting(t)
  <2>1. UNCHANGED <<thread_set, wset, todo, iter>> /\ (Goto(t, "lost") \/ Goto(t, "call"))
    BY <1>1 DEF CasRemoting
  <2>2. QED
    BY <2>1, PinGoto, IdlePlaces
<1>2. CASE LostCas(t)
  <2>1. \/ UNCHANGED <<thread_set, wset, todo, iter>> /\ Goto(t, "spin")
        \/ Fail(Ins[t], "lost")
    BY <1>2 DEF LostCas
  <2>2. QED
    BY <2>1, PinGoto, PinFail, IdlePlaces
<1>3. CASE SpinOnMode(t)
  <2>1. UNCHANGED <<thread_set, wset, todo, iter>> /\ Goto(t, "spun")
    BY <1>3 DEF SpinOnMode
  <2>2. QED
    BY <2>1, PinGoto, IdlePlaces
<1>4. CASE SpinDone(t)
  <2>1. \/ UNCHANGED <<thread_set, wset>> /\ NextPage(t, "mode")
        \/ Fail(Ins[t], "spun")
    BY <1>4 DEF SpinDone
  <2>2. QED
    BY <2>1, PinNextPage, PinFail, IdlePlaces
<1>5. CASE Granted(t)
  <2>1. \/ UNCHANGED <<thread_set, wset, todo, iter>> /\ Goto(t, "put")
        \/ Fail(Ins[t], "reply")
    BY <1>5 DEF Granted
  <2>2. QED
    BY <2>1, PinGoto, PinFail, IdlePlaces
<1>6. CASE StorePage(t)
  <2>1. UNCHANGED <<thread_set, wset>> /\ NextPage(t, "mode")
    BY <1>6 DEF StorePage
  <2>2. QED
    BY <2>1, PinNextPage, IdlePlaces
<1>7. CASE GrantUnowned(t) \/ LockOwned(t) \/ RaiseInvalid(t) \/ ReadRevoked(t)
  <2>1. /\ UNCHANGED <<thread_set, wset, todo, iter>>
        /\ Goto(t, "reply") \/ Goto(t, "invalid") \/ Goto(t, "waiting") \/ Goto(t, "answer")
    BY <1>7 DEF GrantUnowned, LockOwned, RaiseInvalid, ReadRevoked
  <2>2. QED
    BY <2>1, PinGoto, IdlePlaces
<1>8. CASE Revoke(t)
  <2>1. \/ UNCHANGED <<thread_set, wset, todo, iter>> /\ Goto(t, "revoked")
        \/ Fail(Owner(t), "count")
    BY <1>8 DEF Revoke
  <2>2. QED
    BY <2>1, PinGoto, PinFail, IdlePlaces
<1>9. CASE Answer(t)
  <2>1. \/ UNCHANGED <<thread_set, wset, todo, iter>> /\ Goto(t, "reply")
        \/ Fail(Owner(t), "answer")
    BY <1>9 DEF Answer
  <2>2. QED
    BY <2>1, PinGoto, PinFail, IdlePlaces
<1>10. QED
  BY <1>1, <1>2, <1>3, <1>4, <1>5, <1>6, <1>7, <1>8, <1>9 DEF Serve

-----------------------------------------------------------------------------
(***************************************************************************)
(* A writer holds its page.                                                *)
(***************************************************************************)

\* A page is in mode X exactly while one thread is in WriteRow's critical
\* section for it, and count counts that thread.
HoldInv ==
  /\ \A t \in Thread : pc[t] \in Busy => lock_mode[Ins[t]][iter[t]] = "X"
  /\ \A t, u \in Thread : pc[t] \in Busy /\ pc[u] \in Busy /\ Ins[t] = Ins[u]
                            /\ iter[t] = iter[u] => t = u
  /\ \A i \in Instance, p \in Page :
       count[i][p] = IF lock_mode[i][p] = "X" THEN 1 ELSE 0
  /\ \A i \in Instance, p \in Page : lock_mode[i][p] = "X" =>
       \E t \in Thread : pc[t] \in Busy /\ Ins[t] = i /\ iter[t] = p
  /\ \A t \in Thread : pc[t] = "lockx" => lock_mode[Ins[t]][iter[t]] # "O"

NoBadStop == \A i \in Instance : crashed[i] \notin {"count", "lockx"}

-----------------------------------------------------------------------------
Writing == {"lockx", "load", "store", "unlock"}

LEMMA WritingPlaces ==
  /\ Busy \subseteq Writing /\ "lockx" \in Writing /\ "lockx" \notin Busy
  /\ "load" \in Busy /\ "store" \in Busy /\ "unlock" \in Busy
  /\ Writing \subseteq Named /\ Writing \subseteq Running /\ Writing \subseteq AtPage
  /\ "pin" \notin Writing /\ "add" \notin Writing /\ "run" \notin Writing
  BY DEF Writing, Busy, Named, Running, AtPage

LEMMA OtherPlaces ==
  /\ "start" \notin Writing /\ "check" \notin Writing /\ "mode" \notin Writing
  /\ "cas" \notin Writing /\ "lost" \notin Writing /\ "spin" \notin Writing
  /\ "spun" \notin Writing /\ "call" \notin Writing /\ "invalid" \notin Writing
  /\ "waiting" \notin Writing /\ "revoked" \notin Writing /\ "answer" \notin Writing
  /\ "reply" \notin Writing /\ "put" \notin Writing /\ "unpin" \notin Writing
  BY DEF Writing

LEMMA HoldFrame ==
  ASSUME HoldInv, NEW t \in Thread, UNCHANGED <<lock_mode, count>>, Elsewhere(t),
         pc'[t] \in Busy <=> pc[t] \in Busy,
         pc[t] \in Busy => iter'[t] = iter[t],
         pc'[t] = "lockx" => lock_mode[Ins[t]][iter'[t]] # "O"
  PROVE  HoldInv'
<1>1. \A u \in Thread : pc'[u] \in Busy <=> pc[u] \in Busy
  BY DEF Elsewhere
<1>2. \A u \in Thread : pc[u] \in Busy => iter'[u] = iter[u]
  BY DEF Elsewhere
<1>3. \A u \in Thread : pc'[u] = "lockx" => lock_mode[Ins[u]][iter'[u]] # "O"
  BY SMTT(60) DEF Elsewhere, HoldInv
<1>4. \A u \in Thread : pc'[u] \in Busy => lock_mode[Ins[u]][iter'[u]] = "X"
  BY <1>1, <1>2 DEF HoldInv
<1>5. \A u, v \in Thread : pc'[u] \in Busy /\ pc'[v] \in Busy /\ Ins[u] = Ins[v]
                             /\ iter'[u] = iter'[v] => u = v
  BY <1>1, <1>2, SMTT(60) DEF HoldInv
<1>6. \A i \in Instance, p \in Page : lock_mode[i][p] = "X" =>
        \E u \in Thread : pc'[u] \in Busy /\ Ins[u] = i /\ iter'[u] = p
  BY <1>1, <1>2, SMTT(60) DEF HoldInv
<1>7. \A i \in Instance, p \in Page : count[i][p] = IF lock_mode[i][p] = "X" THEN 1 ELSE 0
  BY DEF HoldInv
<1>8. QED
  BY <1>3, <1>4, <1>5, <1>6, <1>7, SMTT(60) DEF HoldInv

\* A step outside WriteRow that leaves modes and counts alone.
LEMMA HoldMove ==
  ASSUME TypeOK, HoldInv, NEW t \in Thread, UNCHANGED <<lock_mode, count>>,
         pc[t] \notin Writing,
         pc' = pc \/ \E l : l \notin Writing /\ Goto(t, l),
         iter' = iter \/ \E p : iter' = [iter EXCEPT ![t] = p]
  PROVE  HoldInv'
<1>1. pc'[t] \notin Writing /\ \A u \in Thread : u # t => pc'[u] = pc[u]
  BY GotoStep
<1>2. \A u \in Thread : u # t => iter'[u] = iter[u]
  BY DEF TypeOK
<1>3. QED
  BY <1>1, <1>2, HoldFrame, WritingPlaces DEF Elsewhere

LEMMA HoldNextPage ==
  ASSUME TypeOK, HoldInv, NEW t \in Thread, UNCHANGED <<lock_mode, count>>,
         pc[t] \notin Writing, NEW l, l \notin Writing, NextPage(t, l)
  PROVE  HoldInv'
  BY HoldMove DEF NextPage

LEMMA HoldFail ==
  ASSUME HoldInv, NEW i, NEW w, Fail(i, w)
  PROVE  HoldInv'
<1>1. UNCHANGED <<lock_mode, count, pc, iter>>
  BY DEF Fail, nodeVars, threadVars
<1>2. QED
  BY <1>1, SMTT(60) DEF HoldInv

\* A page nobody has pinned is not being written.
LEMMA Unpinned ==
  ASSUME TypeOK, PinInv, NEW t \in Thread, pc[t] \in Writing
  PROVE  ~NoPins(Ins[t], iter[t])
<1>1. iter[t] \in wset[t] /\ t \in thread_set[Ins[t]][iter[t]]
  BY WritingPlaces DEF PinInv, PinsOf
<1>2. QED
  BY <1>1 DEF NoPins

\* A mode other than X is replaced by a mode other than X.
LEMMA HoldSetMode ==
  ASSUME TypeOK, IterInv, HoldInv, NEW t \in Thread, NEW i \in Instance, NEW p \in Page,
         NEW m \in {"O", "P"}, lock_mode[i][p] # "X",
         lock_mode' = [lock_mode EXCEPT ![i][p] = m], UNCHANGED <<count, iter>>,
         NEW l, Goto(t, l), pc[t] \notin Writing, l \notin Writing,
         m = "P" \/ \A u \in Thread : Ins[u] = i /\ iter[u] = p => pc[u] \notin Writing
  PROVE  HoldInv'
<1>1. \A j \in Instance, q \in Page : lock_mode'[j][q] =
        IF j = i /\ q = p THEN m ELSE lock_mode[j][q]
  BY DEF TypeOK
<1>2. \A u \in Thread : pc'[u] \in Writing \/ pc[u] \in Writing =>
        u # t /\ pc'[u] = pc[u] /\ Ins[u] \in Instance /\ iter[u] \in Page
  BY GotoStep, PageOf, WritingPlaces, SMTT(60)
<1>3. \A u \in Thread : pc'[u] \in Busy <=> pc[u] \in Busy
  BY <1>2, WritingPlaces
<1>4. \A u \in Thread : pc'[u] \in Busy => lock_mode'[Ins[u]][iter[u]] = "X"
  BY <1>1, <1>2, <1>3, WritingPlaces, SMTT(60) DEF HoldInv
<1>5. \A u \in Thread : pc'[u] = "lockx" => lock_mode'[Ins[u]][iter[u]] # "O"
  BY <1>1, <1>2, WritingPlaces, SMTT(60) DEF HoldInv
<1>6. \A u, v \in Thread : pc'[u] \in Busy /\ pc'[v] \in Busy /\ Ins[u] = Ins[v]
                             /\ iter[u] = iter[v] => u = v
  BY <1>3 DEF HoldInv
<1>7. \A j \in Instance, q \in Page : lock_mode'[j][q] = "X" =>
        \E u \in Thread : pc'[u] \in Busy /\ Ins[u] = j /\ iter[u] = q
  BY <1>1, <1>3, SMTT(60) DEF HoldInv
<1>8. \A j \in Instance, q \in Page : count[j][q] = IF lock_mode'[j][q] = "X" THEN 1 ELSE 0
  BY <1>1, SMTT(60) DEF HoldInv
<1>9. QED
  BY <1>4, <1>5, <1>6, <1>7, <1>8, SMTT(60) DEF HoldInv

\* LockInvalid finds count = 0.
LEMMA HoldRevoke ==
  ASSUME TypeOK, IterInv, PinInv, HoldInv, NEW t \in Thread, Revoke(t)
  PROVE  HoldInv' /\ crashed' = crashed
<1>1. pc[t] = "waiting" /\ Owner(t) \in Instance /\ iter[t] \in Page
  BY PageOf, FetchPlaces DEF Revoke
<1>2. \A u \in Thread : Ins[u] = Owner(t) /\ iter[u] = iter[t] => pc[u] \notin Writing
  BY Unpinned DEF Revoke
<1>3. lock_mode[Owner(t)][iter[t]] # "X" /\ count[Owner(t)][iter[t]] = 0
  BY <1>1, <1>2, WritingPlaces, SMTT(60) DEF HoldInv
<1>4. /\ lock_mode' = [lock_mode EXCEPT ![Owner(t)][iter[t]] = "O"]
      /\ UNCHANGED <<count, iter, crashed>> /\ Goto(t, "revoked")
  BY <1>3 DEF Revoke
<1>5. QED
  BY <1>1, <1>2, <1>3, <1>4, HoldSetMode, OtherPlaces

LEMMA HoldGranted ==
  ASSUME TypeOK, IterInv, HoldInv, NEW t \in Thread, Granted(t)
  PROVE  HoldInv' /\ (crashed' = crashed \/ Fail(Ins[t], "reply"))
<1>1. pc[t] = "reply" /\ Ins[t] \in Instance /\ iter[t] \in Page
  BY PageOf, FetchPlaces DEF Granted, At
<1>2. CASE Mode(t, iter[t]) = "O"
  <2>1. /\ lock_mode' = [lock_mode EXCEPT ![Ins[t]][iter[t]] = "P"]
        /\ UNCHANGED <<count, iter, crashed>> /\ Goto(t, "put")
    BY <1>2 DEF Granted
  <2>2. QED
    BY <1>1, <1>2, <2>1, HoldSetMode, OtherPlaces, ZenonT(30) DEF Mode
<1>3. CASE Mode(t, iter[t]) # "O"
  BY <1>3, HoldFail DEF Granted
<1>4. QED
  BY <1>2, <1>3

\* Lock(X) finds count = 0.
LEMMA HoldLockX ==
  ASSUME TypeOK, IterInv, HoldInv, NEW t \in Thread, LockX(t)
  PROVE  HoldInv' /\ crashed' = crashed
<1> DEFINE i == Ins[t]  p == iter[t]
<1>1. pc[t] = "lockx" /\ i \in Instance /\ p \in Page
  BY PageOf, PagePlaces DEF LockX, At
<1>2. lock_mode[i][p] = "P" /\ count[i][p] = 0
  BY <1>1, SMTT(60) DEF LockX, Mode, HoldInv
<1>3. /\ lock_mode' = [lock_mode EXCEPT ![i][p] = "X"]
      /\ count' = [count EXCEPT ![i][p] = 1]
      /\ UNCHANGED <<iter, crashed>> /\ Goto(t, "load")
  BY <1>2 DEF LockX
<1> HIDE DEF i, p
<1>4. \A j \in Instance, q \in Page :
        /\ lock_mode'[j][q] = IF j = i /\ q = p THEN "X" ELSE lock_mode[j][q]
        /\ count'[j][q] = IF j = i /\ q = p THEN 1 ELSE count[j][q]
  BY <1>1, <1>3, SMTT(60) DEF TypeOK
<1>5. pc'[t] = "load" /\ \A u \in Thread : u # t => pc'[u] = pc[u]
  BY <1>3, GotoStep
<1>6. \A u \in Thread : pc'[u] \in Writing => Ins[u] \in Instance /\ iter[u] \in Page
  BY <1>1, <1>5, PageOf, WritingPlaces DEF i, p
<1>7. \A u \in Thread : u # t /\ pc[u] \in Busy => ~(Ins[u] = i /\ iter[u] = p)
  BY <1>2 DEF HoldInv
<1>8. \A u \in Thread : pc'[u] \in Busy => lock_mode'[Ins[u]][iter[u]] = "X"
  BY <1>4, <1>5, <1>6, WritingPlaces, SMTT(60) DEF HoldInv, i, p
<1>9. \A u \in Thread : pc'[u] = "lockx" => lock_mode'[Ins[u]][iter[u]] # "O"
  BY <1>4, <1>5, <1>6, WritingPlaces, SMTT(60) DEF HoldInv
<1>10. \A u, v \in Thread : pc'[u] \in Busy /\ pc'[v] \in Busy /\ Ins[u] = Ins[v]
                              /\ iter[u] = iter[v] => u = v
  BY <1>5, <1>7, SMTT(60) DEF HoldInv, i, p
<1>11. \A j \in Instance, q \in Page : lock_mode'[j][q] = "X" =>
         \E u \in Thread : pc'[u] \in Busy /\ Ins[u] = j /\ iter[u] = q
  <2> SUFFICES ASSUME NEW j \in Instance, NEW q \in Page, lock_mode'[j][q] = "X"
               PROVE  \E u \in Thread : pc'[u] \in Busy /\ Ins[u] = j /\ iter[u] = q
    OBVIOUS
  <2>1. CASE j = i /\ q = p
    BY <1>5, <2>1, WritingPlaces DEF i, p
  <2>2. CASE ~(j = i /\ q = p)
    <3>1. PICK u \in Thread : pc[u] \in Busy /\ Ins[u] = j /\ iter[u] = q
      BY <1>4, <2>2, SMTT(60) DEF HoldInv
    <3>2. QED
      BY <1>1, <1>5, <3>1, WritingPlaces
  <2>3. QED
    BY <2>1, <2>2
<1>12. \A j \in Instance, q \in Page : count'[j][q] = IF lock_mode'[j][q] = "X" THEN 1 ELSE 0
  BY <1>4, SMTT(60) DEF HoldInv
<1>13. QED
  BY <1>3, <1>8, <1>9, <1>10, <1>11, <1>12, SMTT(60) DEF HoldInv

LEMMA BusyMode ==
  ASSUME HoldInv, NEW t \in Thread, pc[t] \in Busy
  PROVE  lock_mode[Ins[t]][iter[t]] = "X"
  BY DEF HoldInv

LEMMA HoldUnLock ==
  ASSUME TypeOK, IterInv, HoldInv, NEW t \in Thread, UnLock(t)
  PROVE  HoldInv' /\ crashed' = crashed
<1> DEFINE i == Ins[t]  p == iter[t]
<1>1. pc[t] = "unlock" /\ i \in Instance /\ p \in Page
  BY PageOf, PagePlaces, SMTT(60) DEF UnLock, At
<1>2. lock_mode[i][p] = "X" /\ count[i][p] = 1
  BY <1>1, WritingPlaces, SMTT(60) DEF HoldInv
<1>3. /\ lock_mode' = [lock_mode EXCEPT ![i][p] = "P"]
      /\ count' = [count EXCEPT ![i][p] = count[i][p] - 1]
      /\ crashed' = crashed /\ NextPage(t, "run")
  BY <1>2 DEF UnLock, Mode
<1>4. \A u \in Thread : u # t /\ pc[u] \in Busy => ~(Ins[u] = i /\ iter[u] = p)
  BY <1>1, WritingPlaces, SMTT(60) DEF HoldInv
<1>5. pc'[t] = "run" /\ Elsewhere(t)
  BY <1>3, NextPageStep
<1> HIDE DEF i, p
<1>6. \A j \in Instance, q \in Page :
        /\ lock_mode'[j][q] = IF j = i /\ q = p THEN "P" ELSE lock_mode[j][q]
        /\ count'[j][q] = IF j = i /\ q = p THEN 0 ELSE count[j][q]
  BY <1>1, <1>2, <1>3, SMTT(60) DEF TypeOK
<1>7. \A u \in Thread : pc'[u] \in Writing =>
        /\ u # t /\ pc'[u] = pc[u] /\ iter'[u] = iter[u]
        /\ Ins[u] \in Instance /\ iter[u] \in Page
  BY <1>5, PageOf, WritingPlaces DEF Elsewhere
<1>8. \A u \in Thread : pc'[u] \in Busy => lock_mode'[Ins[u]][iter'[u]] = "X"
  <2> SUFFICES ASSUME NEW u \in Thread, pc'[u] \in Busy
               PROVE  lock_mode'[Ins[u]][iter'[u]] = "X"
    OBVIOUS
  <2>1. /\ u # t /\ pc[u] \in Busy /\ iter'[u] = iter[u]
        /\ Ins[u] \in Instance /\ iter[u] \in Page
    BY <1>7, WritingPlaces
  <2>2. lock_mode[Ins[u]][iter[u]] = "X"
    BY <2>1, BusyMode
  <2>3. ~(Ins[u] = i /\ iter[u] = p)
    BY <1>4, <2>1
  <2>4. lock_mode'[Ins[u]][iter[u]] = lock_mode[Ins[u]][iter[u]]
    BY <1>6, <2>1, <2>3, SMTT(60)
  <2>5. QED
    BY <2>1, <2>2, <2>4
<1>9. \A u \in Thread : pc'[u] = "lockx" => lock_mode'[Ins[u]][iter'[u]] # "O"
  BY <1>6, <1>7, WritingPlaces, SMTT(60) DEF HoldInv
<1>10. \A u, v \in Thread : pc'[u] \in Busy /\ pc'[v] \in Busy /\ Ins[u] = Ins[v]
                              /\ iter'[u] = iter'[v] => u = v
  BY <1>7, WritingPlaces, SMTT(60) DEF HoldInv
<1>11. \A j \in Instance, q \in Page : lock_mode'[j][q] = "X" =>
         \E u \in Thread : pc'[u] \in Busy /\ Ins[u] = j /\ iter'[u] = q
  <2> SUFFICES ASSUME NEW j \in Instance, NEW q \in Page, lock_mode'[j][q] = "X"
               PROVE  \E u \in Thread : pc'[u] \in Busy /\ Ins[u] = j /\ iter'[u] = q
    OBVIOUS
  <2>1. ~(j = i /\ q = p) /\ lock_mode[j][q] = "X"
    BY <1>6
  <2>2. PICK u \in Thread : pc[u] \in Busy /\ Ins[u] = j /\ iter[u] = q
    BY <2>1, SMTT(60) DEF HoldInv
  <2>3. u # t
    BY <2>1, <2>2 DEF i, p
  <2>4. QED
    BY <1>5, <2>2, <2>3 DEF Elsewhere
<1>12. \A j \in Instance, q \in Page : count'[j][q] = IF lock_mode'[j][q] = "X" THEN 1 ELSE 0
  BY <1>6, SMTT(60) DEF HoldInv
<1>13. QED
  BY <1>3, <1>8, <1>9, <1>10, <1>11, <1>12 DEF HoldInv

\* The steps of WriteRow between Lock and UnLock, and the one before.
LEMMA HoldWrite ==
  ASSUME TypeOK, HoldInv, NEW t \in Thread, WriteRow(t) \/ LoadPage(t) \/ StoreRow(t)
  PROVE  HoldInv' /\ (crashed' = crashed \/ Fail(Ins[t], "run"))
<1>1. CASE WriteRow(t)
  <2>1. PICK p \in todo[t] :
          \/ /\ Goto(t, "lockx") /\ iter' = [iter EXCEPT ![t] = p] /\ pc[t] = "run"
             /\ lock_mode[Ins[t]][p] # "O" /\ UNCHANGED <<lock_mode, count, crashed>>
          \/ Fail(Ins[t], "run")
    BY <1>1 DEF WriteRow, At, Mode, nodeVars
  <2>2. CASE Fail(Ins[t], "run")
    BY <2>2, HoldFail
  <2>3. CASE ~Fail(Ins[t], "run")
    <3>1. iter'[t] = p /\ \A u \in Thread : u # t => iter'[u] = iter[u]
      BY <2>1, <2>3, SMTT(60) DEF TypeOK
    <3>2. pc'[t] = "lockx" /\ Elsewhere(t)
      BY <2>1, <2>3, <3>1, GotoStep, SMTT(60) DEF Elsewhere
    <3>3. QED
      BY <2>1, <2>3, <3>1, <3>2, HoldFrame, WritingPlaces
  <2>4. QED
    BY <2>2, <2>3
<1>2. CASE LoadPage(t) \/ StoreRow(t)
  <2>1. /\ UNCHANGED <<lock_mode, count, iter, crashed>>
        /\ \/ pc[t] = "load" /\ Goto(t, "store")
           \/ pc[t] = "store" /\ Goto(t, "unlock")
    BY <1>2, SMTT(60) DEF LoadPage, StoreRow, At, nodeVars
  <2>2. pc[t] \in Busy /\ pc'[t] \in Busy /\ pc'[t] # "lockx" /\ Elsewhere(t)
    BY <2>1, GotoStep, WritingPlaces DEF Elsewhere
  <2>3. QED
    BY <2>1, <2>2, HoldFrame, SMTT(60)
<1>3. QED
  BY <1>1, <1>2

\* Every other step leaves modes and counts alone.
OtherStop == {"lost", "spun", "answer", "pin", "unpin"}

LEMMA HoldOther ==
  ASSUME TypeOK, HoldInv, NEW t \in Thread,
         \/ Start(t) \/ CheckInvalid(t) \/ TestMode(t) \/ CasRemoting(t) \/ LostCas(t)
         \/ SpinOnMode(t) \/ SpinDone(t) \/ StorePage(t) \/ CheckOwned(t) \/ AddThread(t)
         \/ GrantUnowned(t) \/ LockOwned(t) \/ RaiseInvalid(t) \/ ReadRevoked(t) \/ Answer(t)
         \/ Finish(t) \/ RemoveThread(t)
  PROVE  /\ HoldInv'
         /\ crashed' = crashed \/ \E i, w : Fail(i, w) /\ w \in OtherStop
<1> DEFINE Quiet2 == UNCHANGED <<lock_mode, count, crashed>> /\ pc[t] \notin Writing
           Stay == pc' = pc \/ \E l : l \notin Writing /\ Goto(t, l)
           Visit == iter' = iter \/ \E p : iter' = [iter EXCEPT ![t] = p]
           Stops(i, w) == Fail(i, w) /\ w \in OtherStop
<1> USE DEF nodeVars, At
<1>1. CASE Start(t)
  <2>1. Quiet2 /\ iter' = iter /\ Goto(t, "check")
    BY <1>1, OtherPlaces DEF Start
  <2>2. QED
    BY <2>1, HoldMove, OtherPlaces
<1>2. CASE CheckInvalid(t)
  <2>1. Quiet2 /\ iter' = iter /\ (pc' = pc \/ Goto(t, "mode"))
    BY <1>2, OtherPlaces DEF CheckInvalid
  <2>2. QED
    BY <2>1, HoldMove, OtherPlaces
<1>3. CASE TestMode(t)
  <2>1. Quiet2
    BY <1>3, OtherPlaces DEF TestMode
  <2>2. pc' = pc \/ Goto(t, "cas") \/ Goto(t, "pin")
    BY <1>3 DEF TestMode
  <2>3. Visit
    BY <1>3 DEF TestMode
  <2>4. QED
    BY <2>1, <2>2, <2>3, HoldMove, OtherPlaces, WritingPlaces
<1>4. CASE CasRemoting(t) \/ LockOwned(t) \/ RaiseInvalid(t) \/ ReadRevoked(t) \/ GrantUnowned(t)
  <2>1. Quiet2 /\ iter' = iter
    BY <1>4, OtherPlaces DEF CasRemoting, LockOwned, RaiseInvalid, ReadRevoked, GrantUnowned
  <2>2. \/ Goto(t, "lost") \/ Goto(t, "call") \/ Goto(t, "invalid") \/ Goto(t, "waiting")
        \/ Goto(t, "answer") \/ Goto(t, "reply")
    BY <1>4 DEF CasRemoting, LockOwned, RaiseInvalid, ReadRevoked, GrantUnowned
  <2>3. QED
    BY <2>1, <2>2, HoldMove, OtherPlaces
<1>5. CASE LostCas(t) \/ SpinOnMode(t)
  <2>1. CASE Fail(Ins[t], "lost")
    BY <2>1, HoldFail DEF OtherStop
  <2>2. CASE ~Fail(Ins[t], "lost")
    <3>1. Quiet2 /\ iter' = iter /\ (Goto(t, "spin") \/ Goto(t, "spun"))
      BY <1>5, <2>2, OtherPlaces DEF LostCas, SpinOnMode
    <3>2. QED
      BY <3>1, HoldMove, OtherPlaces
  <2>3. QED
    BY <2>1, <2>2
<1>6. CASE SpinDone(t) \/ StorePage(t)
  <2>1. CASE Fail(Ins[t], "spun")
    BY <2>1, HoldFail DEF OtherStop
  <2>2. CASE ~Fail(Ins[t], "spun")
    <3>1. Quiet2 /\ NextPage(t, "mode")
      BY <1>6, <2>2, OtherPlaces DEF SpinDone, StorePage
    <3>2. QED
      BY <3>1, HoldNextPage, OtherPlaces
  <2>3. QED
    BY <2>1, <2>2
<1>7. CASE CheckOwned(t)
  <2>1. CASE Fail(Ins[t], "pin")
    BY <2>1, HoldFail DEF OtherStop
  <2>2. CASE ~Fail(Ins[t], "pin")
    <3>1. Quiet2 /\ (Goto(t, "add") \/ Goto(t, "run")) /\ Visit
      BY <1>7, <2>2, WritingPlaces DEF CheckOwned
    <3>2. QED
      BY <3>1, HoldMove, WritingPlaces, SMTT(60)
  <2>3. QED
    BY <2>1, <2>2
<1>8. CASE AddThread(t)
  <2>1. Quiet2 /\ NextPage(t, "pin")
    BY <1>8, WritingPlaces DEF AddThread
  <2>2. QED
    BY <2>1, HoldNextPage, WritingPlaces
<1>9. CASE Answer(t)
  <2>1. CASE Fail(Owner(t), "answer")
    BY <2>1, HoldFail DEF OtherStop
  <2>2. CASE ~Fail(Owner(t), "answer")
    <3>1. Quiet2 /\ iter' = iter /\ Goto(t, "reply")
      BY <1>9, <2>2, OtherPlaces DEF Answer
    <3>2. QED
      BY <3>1, HoldMove, OtherPlaces
  <2>3. QED
    BY <2>1, <2>2
<1>10. CASE Finish(t)
  <2>1. Quiet2 /\ iter' = iter /\ Goto(t, "unpin")
    BY <1>10, WritingPlaces DEF Finish
  <2>2. QED
    BY <2>1, HoldMove, OtherPlaces
<1>11. CASE RemoveThread(t)
  <2>1. CASE Fail(Ins[t], "unpin")
    BY <2>1, HoldFail DEF OtherStop
  <2>2. CASE ~Fail(Ins[t], "unpin")
    <3>1. Quiet2 /\ iter' = iter /\ (pc' = pc \/ Goto(t, "start"))
      BY <1>11, <2>2, OtherPlaces DEF RemoveThread
    <3>2. QED
      BY <3>1, HoldMove, OtherPlaces
  <2>3. QED
    BY <2>1, <2>2
<1>12. QED
  BY <1>1, <1>2, <1>3, <1>4, <1>5, <1>6, <1>7, <1>8, <1>9, <1>10, <1>11, SMTT(60)

LEMMA HoldFault ==
  ASSUME TypeOK, HoldInv, NEW t \in Thread, Fault(t)
  PROVE  HoldInv' /\ (crashed' = crashed \/ \E i : Fail(i, "rpc"))
<1>1. CASE LockRemoteFails(t) \/ InvalidFails(t)
  BY <1>1, HoldFail DEF LockRemoteFails, InvalidFails
<1>2. CASE Resend(t)
  <2>1. /\ UNCHANGED <<lock_mode, count, iter, crashed>> /\ pc[t] \notin Writing
        /\ Goto(t, "call")
    BY <1>2, OtherPlaces DEF Resend, At, nodeVars
  <2>2. QED
    BY <2>1, HoldMove, OtherPlaces
<1>3. QED
  BY <1>1, <1>2 DEF Fault

-----------------------------------------------------------------------------
LEMMA StopStep ==
  ASSUME TypeOK, NoBadStop,
         crashed' = crashed \/ \E i, w : Fail(i, w) /\ w \notin {"count", "lockx"}
  PROVE  NoBadStop'
<1>1. CASE crashed' = crashed
  BY <1>1 DEF NoBadStop
<1>2. ASSUME NEW i, NEW w, Fail(i, w), w \notin {"count", "lockx"}
      PROVE  NoBadStop'
  <2>1. crashed' = [crashed EXCEPT ![i] = w]
    BY <1>2 DEF Fail
  <2>2. \A j \in Instance : crashed'[j] = crashed[j] \/ crashed'[j] = w
    BY <2>1, SMTT(60) DEF TypeOK
  <2>3. QED
    BY <1>2, <2>2 DEF NoBadStop
<1>3. QED
  BY <1>1, <1>2

WriterInv == PinInv /\ HoldInv /\ NoBadStop

LEMMA WriterStep ==
  ASSUME TypeOK, IterInv, WriterInv, NEW t \in Thread,
         Start(t) \/ Acquire(t) \/ Serve(t) \/ Run(t) \/ Fault(t)
  PROVE  WriterInv'
<1>1. PinInv'
  BY PinAcquire, PinPages, PinFetch, PinRun, PinFault DEF WriterInv, Acquire
<1>2. CASE Revoke(t) \/ LockX(t) \/ UnLock(t)
  BY <1>1, <1>2, HoldRevoke, HoldLockX, HoldUnLock, StopStep DEF WriterInv
<1>3. CASE Granted(t)
  <2>1. HoldInv' /\ (crashed' = crashed \/ Fail(Ins[t], "reply"))
    BY <1>3, HoldGranted DEF WriterInv
  <2>2. QED
    BY <1>1, <2>1, StopStep, SMTT(60) DEF WriterInv
<1>4. CASE WriteRow(t) \/ LoadPage(t) \/ StoreRow(t)
  <2>1. HoldInv' /\ (crashed' = crashed \/ Fail(Ins[t], "run"))
    BY <1>4, HoldWrite DEF WriterInv
  <2>2. QED
    BY <1>1, <2>1, StopStep, SMTT(60) DEF WriterInv
<1>5. CASE \/ Start(t) \/ CheckInvalid(t) \/ TestMode(t) \/ CasRemoting(t) \/ LostCas(t)
           \/ SpinOnMode(t) \/ SpinDone(t) \/ StorePage(t) \/ CheckOwned(t) \/ AddThread(t)
           \/ GrantUnowned(t) \/ LockOwned(t) \/ RaiseInvalid(t) \/ ReadRevoked(t) \/ Answer(t)
           \/ Finish(t) \/ RemoveThread(t)
  <2>1. HoldInv' /\ (crashed' = crashed \/ \E i, w : Fail(i, w) /\ w \in OtherStop)
    BY <1>5, HoldOther, SMTT(60) DEF WriterInv
  <2>2. QED
    BY <1>1, <2>1, StopStep DEF WriterInv, OtherStop
<1>6. CASE Fault(t)
  <2>1. HoldInv' /\ (crashed' = crashed \/ \E i : Fail(i, "rpc"))
    BY <1>6, HoldFault DEF WriterInv
  <2>2. QED
    BY <1>1, <2>1, StopStep, SMTT(60) DEF WriterInv
<1>7. QED
  BY <1>2, <1>3, <1>4, <1>5, <1>6 DEF Acquire, Serve, Run

LEMMA HoldSame ==
  ASSUME HoldInv, UNCHANGED <<lock_mode, count, pc, iter>>
  PROVE  HoldInv'
  BY SMTT(60) DEF HoldInv

LEMMA WriterInductive == Spec => []WriterInv
<1>1. Init => WriterInv
  BY SMTT(60) DEF Init, WriterInv, PinInv, PinsOf, HoldInv, NoBadStop, Named, Running, Busy, Process
<1>2. TypeOK /\ ProtocolInv /\ WriterInv /\ [Next]_vars => WriterInv'
  <2> SUFFICES ASSUME TypeOK, ProtocolInv, WriterInv, [Next]_vars
               PROVE  WriterInv'
    OBVIOUS
  <2>1. CASE UNCHANGED vars
    <3>1. UNCHANGED <<thread_set, lock_mode, count, pc, wset, todo, iter, crashed>>
      BY <2>1 DEF vars, nodeVars, threadVars
    <3>2. PinInv'
      BY <3>1 DEF WriterInv, PinInv, PinsOf
    <3>3. HoldInv'
      BY <3>1, HoldSame DEF WriterInv
    <3>4. NoBadStop'
      BY <3>1 DEF WriterInv, NoBadStop
    <3>5. QED
      BY <3>2, <3>3, <3>4 DEF WriterInv
  <2>2. CASE Next
    BY <2>2, WriterStep DEF Next, ProtocolInv
  <2>3. QED
    BY <2>1, <2>2
<1>3. QED
  BY <1>1, <1>2, Inductive, PTL DEF Spec

\* Whatever the timing of revocations, a thread between Lock and UnLock of
\* WriteRow has the page pinned, in mode X and alone: the assertions on count
\* in LockTable::Lock and LockInvalid never fail, and no thread waits in
\* Lock(X) for a page its instance does not own.
THEOREM WriteExclusive == Spec => []WriterHoldsPage
<1>1. WriterInv => WriterHoldsPage
  <2> SUFFICES ASSUME WriterInv PROVE WriterHoldsPage
    OBVIOUS
  <2>1. \A t \in Thread : pc[t] \in Busy => t \in thread_set[Ins[t]][iter[t]]
    BY DEF WriterInv, PinInv, PinsOf, Named, Running
  <2>2. QED
    BY <2>1, ZenonT(30) DEF WriterInv, HoldInv, NoBadStop, WriterHoldsPage, Mode, Busy
<1>2. QED
  BY <1>1, WriterInductive, PTL

-----------------------------------------------------------------------------
(***************************************************************************)
(* The inductive invariant behind OwnerHasAllWrites, for a page that is    *)
(* in none of the three races of Lossy.  The content                       *)
(* follows the ownership: in GlobalLock's buffer while nobody owns the     *)
(* page; in the owner's buffer; and, from the moment LockInvalid has read  *)
(* it until BufferPut has stored it, in the thread that fetches it.  A     *)
(* writer that has loaded the page still has the last version of it, and   *)
(* no grant to its instance is under way.                                  *)
(***************************************************************************)
PageContent(p) ==
  /\ write_ins_id[p] = NoInstance => total[p] = 0
  /\ \A t \in Thread : iter[t] = p /\ pc[t] \in {"answer", "reply", "put"} =>
       page_buf[t] = total[p]
  /\ \A t \in Thread : iter[t] = p /\ pc[t] = "store" =>
       page_buf[t] = total[p] /\ ~GrantInFlight(Ins[t], p)
  /\ \A i \in Instance : write_ins_id[p] = i /\ ~GrantInFlight(i, p) => buf[i][p] = total[p]

ContentInv == \A p \in Page \ Lossy : PageContent(p)

\* The labels PageContent speaks of.
Carrying == {"answer", "reply", "put", "store"}

\* A step of t leaves the content of page p alone.
Apart(t, p) ==
  /\ total'[p] = total[p] /\ write_ins_id'[p] = write_ins_id[p]
  /\ \A i \in Instance : buf'[i][p] = buf[i][p]
  /\ \A u \in Thread : u # t => page_buf'[u] = page_buf[u]
  /\ Elsewhere(t)
  /\ iter[t] = p => pc[t] \notin Carrying
  /\ iter'[t] = p => pc'[t] \notin Carrying

LEMMA ApartStep ==
  ASSUME NEW p \in Page, NEW t \in Thread, PageContent(p), Apart(t, p)
  PROVE  PageContent(p)'
<1>1. \A u \in Thread : pc'[u] \in Carrying /\ iter'[u] = p =>
        u # t /\ pc[u] = pc'[u] /\ iter[u] = p /\ page_buf'[u] = page_buf[u]
  BY DEF Apart, Elsewhere
<1>2. \A u \in Thread : pc[u] \in Carrying /\ iter[u] = p => pc'[u] = pc[u] /\ iter'[u] = p
  BY DEF Apart, Elsewhere
<1>3. \A i : GrantInFlight(i, p)' <=> GrantInFlight(i, p)
  BY <1>1, <1>2 DEF GrantInFlight, Carrying
<1>4. \A u \in Thread : iter'[u] = p /\ pc'[u] \in {"answer", "reply", "put"} =>
        page_buf'[u] = total'[p]
  BY <1>1 DEF PageContent, Carrying, Apart
<1>5. \A u \in Thread : iter'[u] = p /\ pc'[u] = "store" =>
        page_buf'[u] = total'[p] /\ ~GrantInFlight(Ins[u], p)
  BY <1>1 DEF PageContent, Carrying, Apart
<1>6. write_ins_id'[p] = NoInstance => total'[p] = 0
  BY DEF PageContent, Apart
<1>7. \A i \in Instance : write_ins_id'[p] = i /\ ~GrantInFlight(i, p)' => buf'[i][p] = total'[p]
  BY <1>3 DEF PageContent, Apart
<1>8. \A u \in Thread : iter'[u] = p /\ pc'[u] = "store" =>
        page_buf'[u] = total'[p] /\ ~GrantInFlight(Ins[u], p)'
  BY <1>3, <1>5
<1>9. QED
  BY <1>4, <1>6, <1>7, <1>8 DEF PageContent

\* What PageContent says of the threads other than t, and when a step of t
\* keeps it.
OthersCarry(t, p) ==
  \A u \in Thread : u # t /\ iter'[u] = p /\ pc'[u] \in {"answer", "reply", "put"} =>
    page_buf'[u] = total'[p]
OthersStore(t, p) ==
  \A u \in Thread : u # t /\ iter'[u] = p /\ pc'[u] = "store" =>
    page_buf'[u] = total'[p] /\ ~GrantInFlight(Ins[u], p)

LEMMA OthersKeep ==
  ASSUME NEW p, NEW t \in Thread, PageContent(p), Elsewhere(t), total'[p] = total[p],
         \A u \in Thread : u # t => page_buf'[u] = page_buf[u]
  PROVE  OthersCarry(t, p) /\ OthersStore(t, p)
<1>1. OthersCarry(t, p)
  BY DEF OthersCarry, PageContent, Elsewhere
<1>2. OthersStore(t, p)
  BY DEF OthersStore, PageContent, Elsewhere
<1>3. QED
  BY <1>1, <1>2

\* So only t itself is left to be shown.
LEMMA CarryAll ==
  ASSUME NEW p, NEW t \in Thread, OthersCarry(t, p),
         iter'[t] = p /\ pc'[t] \in {"answer", "reply", "put"} => page_buf'[t] = total'[p]
  PROVE  \A u \in Thread : iter'[u] = p /\ pc'[u] \in {"answer", "reply", "put"} =>
           page_buf'[u] = total'[p]
  BY DEF OthersCarry

LEMMA StoreAll ==
  ASSUME NEW p, NEW t \in Thread, OthersStore(t, p),
         pc'[t] = "store" => page_buf'[t] = total'[p] /\ ~GrantInFlight(Ins[t], p)
  PROVE  \A u \in Thread : iter'[u] = p /\ pc'[u] = "store" =>
           page_buf'[u] = total'[p] /\ ~GrantInFlight(Ins[u], p)
  BY DEF OthersStore

\* A step outside the transport and the writing of pages.
Idle(t) ==
  /\ UNCHANGED <<buf, total, write_ins_id, page_buf>>
  /\ Lossy \subseteq Lossy'
  /\ Elsewhere(t)
  /\ pc[t] \notin Carrying /\ pc'[t] \notin Carrying

Frozen == UNCHANGED <<buf, total, write_ins_id, page_buf, overtaken, early, resent, pc, iter>>

LEMMA IdleStep ==
  ASSUME ContentInv, NEW t \in Thread, Idle(t)
  PROVE  ContentInv'
<1>1. \A p \in Page : Apart(t, p)
  BY DEF Idle, Apart
<1>2. Page \ Lossy' \subseteq Page \ Lossy
  BY DEF Idle
<1>3. QED
  BY <1>1, <1>2, ApartStep DEF ContentInv

LEMMA FrozenStep ==
  ASSUME ContentInv, Frozen
  PROVE  ContentInv'
  BY SMTT(60) DEF ContentInv, Frozen, PageContent, GrantInFlight, Lossy

LEMMA FailFrozen ==
  ASSUME NEW i, NEW w, Fail(i, w)
  PROVE  Frozen
  BY DEF Fail, Frozen, nodeVars, globalVars, threadVars, ghostVars

LEMMA CarryPlaces ==
  /\ Carrying \subseteq Fetching \cup {"store"}
  /\ "call" \notin Carrying /\ "invalid" \notin Carrying /\ "waiting" \notin Carrying
  /\ "revoked" \notin Carrying /\ "cas" \notin Carrying /\ "lost" \notin Carrying
  /\ "mode" \notin Carrying /\ "load" \notin Carrying /\ "unlock" \notin Carrying
  /\ "answer" \in Carrying /\ "reply" \in Carrying /\ "put" \in Carrying
  /\ "store" \in Carrying
  BY DEF Carrying, Fetching

\* The steps of GetWritePageLock outside the fetch, and those of a running
\* transaction except the two that read and write the page.
LEMMA LocalIdle ==
  ASSUME TypeOK, IterInv, NEW t \in Thread,
         \/ Start(t) \/ CheckInvalid(t) \/ TestMode(t) \/ LostCas(t) \/ SpinOnMode(t)
         \/ SpinDone(t) \/ CheckOwned(t) \/ AddThread(t) \/ WriteRow(t) \/ LockX(t)
         \/ UnLock(t) \/ Finish(t) \/ RemoveThread(t)
  PROVE  Idle(t) \/ Frozen
<1>1. LocalStep(t) \/ Stopped
  BY LocalActions, SMTT(60) DEF Run
<1>2. UNCHANGED <<buf, total, page_buf, overtaken, early, resent>>
  BY DEF Start, CheckInvalid, TestMode, LostCas, SpinOnMode, SpinDone, CheckOwned,
        AddThread, WriteRow, LockX, UnLock, Finish, RemoveThread, Fail, ghostVars, threadVars
<1>3. pc[t] # "store"
  BY DEF Start, CheckInvalid, TestMode, LostCas, SpinOnMode, SpinDone, CheckOwned,
        AddThread, WriteRow, LockX, UnLock, Finish, RemoveThread, At
<1>4. \/ pc' = pc
      \/ \E l \in {"check", "mode", "cas", "pin", "spin", "spun", "add", "run", "lockx",
                   "load", "unpin", "start"} : Goto(t, l)
  BY DEF Start, CheckInvalid, TestMode, LostCas, SpinOnMode, SpinDone, CheckOwned,
        AddThread, WriteRow, LockX, UnLock, Finish, RemoveThread, Fail, threadVars, NextPage
<1>5. pc'[t] # "store"
  BY <1>3, <1>4, GotoStep
<1>6. CASE Stopped
  BY <1>2, <1>6 DEF Stopped, Frozen
<1>7. CASE LocalStep(t)
  BY <1>2, <1>3, <1>5, <1>7, CarryPlaces DEF LocalStep, Idle, Lossy
<1>8. QED
  BY <1>1, <1>6, <1>7

\* The steps of a fetch before the page is read, Revoke included.
LEMMA FetchIdle ==
  ASSUME TypeOK, NEW t \in Thread,
         CasRemoting(t) \/ LockOwned(t) \/ RaiseInvalid(t) \/ Revoke(t)
  PROVE  Idle(t) \/ Frozen
<1>1. CASE Revoke(t) /\ Fail(Owner(t), "count")
  BY <1>1, FailFrozen
<1>2. CASE ~(Revoke(t) /\ Fail(Owner(t), "count"))
  <2>1. UNCHANGED <<buf, total, write_ins_id, page_buf, early, resent, iter>>
    BY <1>2 DEF CasRemoting, LockOwned, RaiseInvalid, Revoke, ghostVars, globalVars
  <2>2. overtaken \subseteq overtaken'
    <3>1. CASE Revoke(t)
      BY <1>2, <3>1 DEF Revoke
    <3>2. CASE ~Revoke(t)
      BY <3>2 DEF CasRemoting, LockOwned, RaiseInvalid, ghostVars
    <3>3. QED
      BY <3>1, <3>2
  <2>3. pc[t] \in {"cas", "call", "invalid", "waiting"}
    BY DEF CasRemoting, LockOwned, RaiseInvalid, Revoke, At
  <2>4. \E l \in {"lost", "call", "invalid", "waiting", "revoked"} : Goto(t, l)
    BY <1>2 DEF CasRemoting, LockOwned, RaiseInvalid, Revoke
  <2>5. pc'[t] \in {"lost", "call", "invalid", "waiting", "revoked"} /\ Elsewhere(t)
    BY <2>1, <2>4, GotoStep DEF Elsewhere
  <2>6. QED
    BY <2>1, <2>2, <2>3, <2>5, CarryPlaces DEF Idle, Lossy
<1>3. QED
  BY <1>1, <1>2

\* A thread that stores its row is in the owner of the page.
LEMMA StoreOwner ==
  ASSUME TypeOK, ProtocolInv, HoldInv, NEW u \in Thread, pc[u] = "store", iter[u] \notin overtaken
  PROVE  /\ iter[u] \in Page /\ Ins[u] \in Instance
         /\ write_ins_id[iter[u]] = Ins[u] /\ lock_mode[Ins[u]][iter[u]] # "O"
<1>1. iter[u] \in Page /\ Ins[u] \in Instance
  BY PageOf, PagePlaces DEF ProtocolInv
<1>2. lock_mode[Ins[u]][iter[u]] = "X"
  BY WritingPlaces, BusyMode
<1>3. QED
  BY <1>1, <1>2 DEF ProtocolInv, OwnInv

\* What a step at page iter[t] leaves alone.
AtPageOnly(t) ==
  /\ \A p \in Page : p # iter[t] =>
       /\ total'[p] = total[p] /\ write_ins_id'[p] = write_ins_id[p]
       /\ \A i \in Instance : buf'[i][p] = buf[i][p]
  /\ \A u \in Thread : u # t => page_buf'[u] = page_buf[u]
  /\ Elsewhere(t)
  /\ iter'[t] \in {iter[t], NoPage}
  /\ Lossy \subseteq Lossy'

\* So only the content of that page is left to be shown.
LEMMA AtPageStep ==
  ASSUME ContentInv, NEW t \in Thread, AtPageOnly(t),
         \A p \in Page \ Lossy' : p = iter[t] => PageContent(p)'
  PROVE  ContentInv'
<1> SUFFICES ASSUME NEW p \in Page \ Lossy', p # iter[t]
             PROVE  PageContent(p)'
  BY DEF ContentInv
<1>1. PageContent(p)
  BY DEF ContentInv, AtPageOnly
<1>2. p # NoPage
  BY PageAssumption, SMTT(60) DEF NoPage
<1>3. Apart(t, p)
  BY <1>2 DEF AtPageOnly, Apart
<1>4. QED
  BY <1>1, <1>3, ApartStep

\* A page nobody owns is granted with the content of GlobalLock's buffer.
LEMMA GrantUnownedContent ==
  ASSUME TypeOK, ProtocolInv, HoldInv, ContentInv, NEW t \in Thread, GrantUnowned(t)
  PROVE  ContentInv'
<1>0. PICK p : p = iter[t]
  OBVIOUS
<1> USE <1>0
<1>1. /\ pc[t] = "call" /\ write_ins_id[p] = NoInstance
      /\ UNCHANGED <<buf, total, iter, overtaken, early, resent>> /\ Goto(t, "reply")
      /\ write_ins_id' = [write_ins_id EXCEPT ![p] = Ins[t]]
      /\ page_buf' = [page_buf EXCEPT ![t] = 0]
  BY DEF GrantUnowned, SetOwner, GlobalPage, ghostVars
<1>2. p \in Page /\ Ins[t] \in Instance /\ Ins[t] # NoInstance
  BY <1>1, PageOf, FetchPlaces, InstanceAssumption DEF ProtocolInv
<1>3. pc'[t] = "reply" /\ Elsewhere(t)
  BY <1>1, GotoStep DEF Elsewhere
<1>4. /\ page_buf'[t] = 0 /\ \A u \in Thread : u # t => page_buf'[u] = page_buf[u]
      /\ write_ins_id'[p] = Ins[t] /\ \A q \in Page : q # p => write_ins_id'[q] = write_ins_id[q]
  BY <1>1, <1>2, SMTT(60) DEF TypeOK
<1>5. AtPageOnly(t)
  BY <1>1, <1>3, <1>4 DEF AtPageOnly, Lossy
<1>6. ASSUME p \in Page \ Lossy'
      PROVE  PageContent(p)'
  <2>1. PageContent(p) /\ p \notin overtaken
    BY <1>1, <1>6 DEF ContentInv, Lossy
  <2>2. total'[p] = 0
    BY <1>1, <2>1 DEF PageContent
  <2>3. \A u \in Thread : iter'[u] = p /\ pc'[u] \in {"answer", "reply", "put"} =>
          page_buf'[u] = total'[p]
    <3>1. OthersCarry(t, p)
      BY <1>1, <1>3, <1>4, <2>1, <2>2, OthersKeep
    <3>2. iter'[t] = p /\ pc'[t] \in {"answer", "reply", "put"} => page_buf'[t] = total'[p]
      BY <1>1, <1>3, <1>4, <2>1, <2>2 DEF PageContent
    <3>3. QED
      BY <3>1, <3>2, CarryAll
  <2>4. \A u \in Thread : iter'[u] = p => pc'[u] # "store"
    <3> SUFFICES ASSUME NEW u \in Thread, iter'[u] = p, pc'[u] = "store"
                 PROVE  FALSE
      OBVIOUS
    <3>1. u # t /\ pc[u] = "store" /\ iter[u] = p
      BY <1>3 DEF Elsewhere
    <3>2. write_ins_id[p] = Ins[u] /\ Ins[u] \in Instance
      BY <2>1, <3>1, StoreOwner
    <3>3. QED
      BY <1>1, <3>2, InstanceAssumption
  <2>5. GrantInFlight(Ins[t], p)'
    BY <1>1, <1>3 DEF GrantInFlight
  <2>6. QED
    BY <1>2, <1>4, <2>3, <2>4, <2>5, SMTT(60) DEF PageContent
<1>7. QED
  BY <1>5, <1>6, AtPageStep

\* LockInvalid reads the page of the owner, in which no grant is under way.
LEMMA ReadRevokedContent ==
  ASSUME TypeOK, ProtocolInv, HoldInv, ContentInv, NEW t \in Thread, ReadRevoked(t)
  PROVE  ContentInv'
<1>0. PICK p : p = iter[t]
  BY SMTT(60)
<1> USE <1>0
<1>1. /\ pc[t] = "revoked" /\ UNCHANGED <<buf, total, iter, overtaken, early, resent, write_ins_id>>
      /\ Goto(t, "answer")
      /\ page_buf' = [page_buf EXCEPT ![t] = buf[write_ins_id[p]][p]]
  BY DEF ReadRevoked, OwnersPage, Owner, ghostVars, globalVars
<1>2. p \in Page /\ write_ins_id[p] \in Instance
  BY <1>1, PageOf, FetchPlaces DEF ProtocolInv, IterInv
<1>3. pc'[t] = "answer" /\ Elsewhere(t)
  BY <1>1, GotoStep, SMTT(60) DEF Elsewhere
<1>4. /\ page_buf'[t] = buf[write_ins_id[p]][p]
      /\ \A u \in Thread : u # t => page_buf'[u] = page_buf[u]
  BY <1>1, SMTT(60) DEF TypeOK
<1>5. AtPageOnly(t)
  BY <1>1, <1>3, <1>4, SMTT(60) DEF AtPageOnly, Lossy
<1>6. ASSUME p \in Page \ Lossy'
      PROVE  PageContent(p)'
  <2>1. PageContent(p) /\ p \notin overtaken
    BY <1>1, <1>6 DEF ContentInv, Lossy
  <2>2. \A i : ~GrantInFlight(i, p)
    BY <1>1, <1>2, <2>1, FetchPlaces, SMTT(60) DEF ProtocolInv, OwnInv, GrantInFlight, Granting
  <2>3. \A i : ~GrantInFlight(i, p)'
    BY <1>1, <1>3, <2>2 DEF GrantInFlight, Elsewhere
  <2>4. page_buf'[t] = total'[p]
    BY <1>1, <1>2, <1>4, <2>1, <2>2 DEF PageContent
  <2>5. \A u \in Thread : iter'[u] = p /\ pc'[u] \in {"answer", "reply", "put"} =>
          page_buf'[u] = total'[p]
    <3>1. OthersCarry(t, p)
      BY <1>1, <1>3, <1>4, <2>1, <2>4, OthersKeep
    <3>2. iter'[t] = p /\ pc'[t] \in {"answer", "reply", "put"} => page_buf'[t] = total'[p]
      BY <1>1, <1>3, <1>4, <2>1, <2>4 DEF PageContent
    <3>3. QED
      BY <3>1, <3>2, CarryAll
  <2>6. \A u \in Thread : iter'[u] = p /\ pc'[u] = "store" => page_buf'[u] = total'[p]
    <3>1. OthersStore(t, p)
      BY <1>1, <1>3, <1>4, <2>1, OthersKeep
    <3>2. pc'[t] = "store" => page_buf'[t] = total'[p] /\ ~GrantInFlight(Ins[t], p)
      BY <1>1, <1>3, <1>4, <2>1 DEF PageContent
    <3>3. QED
      BY <3>1, <3>2, StoreAll
  <2>7. QED
    BY <1>1, <2>1, <2>2, <2>3, <2>5, <2>6 DEF PageContent
<1>7. QED
  BY <1>5, <1>6, AtPageStep, SMTT(60)

\* The answer makes the caller's instance the owner, with the grant under way.
LEMMA AnswerContent ==
  ASSUME TypeOK, ProtocolInv, HoldInv, ContentInv, NEW t \in Thread, Answer(t)
  PROVE  ContentInv'
<1>0. PICK p : p = iter[t]
  BY SMTT(60)
<1> USE <1>0
<1>1. CASE Fail(Owner(t), "answer")
  BY <1>1, FailFrozen, FrozenStep
<1>2. CASE ~Fail(Owner(t), "answer")
  <2>1. /\ pc[t] = "answer" /\ UNCHANGED <<buf, total, iter, overtaken, early, resent, page_buf>>
        /\ Goto(t, "reply")
        /\ write_ins_id' = [write_ins_id EXCEPT ![p] = Ins[t]]
    BY <1>2 DEF Answer, SetOwner, ghostVars
  <2>2. p \in Page /\ Ins[t] \in Instance /\ Ins[t] # NoInstance
    BY <2>1, PageOf, FetchPlaces, InstanceAssumption DEF ProtocolInv
  <2>3. pc'[t] = "reply" /\ Elsewhere(t)
    BY <2>1, GotoStep, SMTT(60) DEF Elsewhere
  <2>4. write_ins_id'[p] = Ins[t] /\ \A q \in Page : q # p => write_ins_id'[q] = write_ins_id[q]
    BY <2>1, <2>2, SMTT(60) DEF TypeOK
  <2>5. AtPageOnly(t)
    BY <2>1, <2>3, <2>4 DEF AtPageOnly, Lossy
  <2>6. ASSUME p \in Page \ Lossy'
        PROVE  PageContent(p)'
    <3>1. PageContent(p) /\ p \notin overtaken
      BY <2>1, <2>6 DEF ContentInv, Lossy
    <3>2. \A u \in Thread : iter'[u] = p /\ pc'[u] \in {"answer", "reply", "put"} =>
            page_buf'[u] = total'[p]
      <4>1. OthersCarry(t, p)
        BY <2>1, <2>3, <3>1, OthersKeep
      <4>2. iter'[t] = p /\ pc'[t] \in {"answer", "reply", "put"} => page_buf'[t] = total'[p]
        BY <2>1, <2>3, <3>1 DEF PageContent
      <4>3. QED
        BY <4>1, <4>2, CarryAll
    <3>3. \A i \in Instance : lock_mode[i][p] = "O"
      BY <2>1, <2>2, <3>1, FetchPlaces, SMTT(60) DEF ProtocolInv, OwnInv
    <3>4. \A u \in Thread : iter'[u] = p => pc'[u] # "store"
      BY <2>1, <2>3, <3>1, <3>3, StoreOwner, SMTT(60) DEF Elsewhere
    <3>5. GrantInFlight(Ins[t], p)'
      BY <2>1, <2>3 DEF GrantInFlight
    <3>6. QED
      BY <2>2, <2>4, <3>2, <3>4, <3>5 DEF PageContent
  <2>7. QED
    BY <2>5, <2>6, AtPageStep, SMTT(60)
<1>3. QED
  BY <1>1, <1>2

\* The mode changes before the page is stored: the grant is still under way.
LEMMA GrantedContent ==
  ASSUME TypeOK, ContentInv, NEW t \in Thread, Granted(t)
  PROVE  ContentInv'
<1>0. PICK p : p = iter[t]
  OBVIOUS
<1> USE <1>0
<1>1. CASE Fail(Ins[t], "reply")
  BY <1>1, FailFrozen, FrozenStep
<1>2. CASE ~Fail(Ins[t], "reply")
  <2>1. /\ pc[t] = "reply" /\ Goto(t, "put")
        /\ UNCHANGED <<buf, total, iter, overtaken, early, resent, page_buf, write_ins_id>>
    BY <1>2 DEF Granted, At, ghostVars, globalVars
  <2>2. pc'[t] = "put" /\ Elsewhere(t)
    BY <2>1, GotoStep DEF Elsewhere
  <2>3. AtPageOnly(t)
    BY <2>1, <2>2 DEF AtPageOnly, Lossy
  <2>4. ASSUME p \in Page \ Lossy'
        PROVE  PageContent(p)'
    <3>1. PageContent(p)
      BY <2>1, <2>4 DEF ContentInv, Lossy
    <3>2. \A i : GrantInFlight(i, p)' <=> GrantInFlight(i, p)
      BY <2>1, <2>2 DEF GrantInFlight, Elsewhere
    <3>3. \A u \in Thread : iter'[u] = p /\ pc'[u] \in {"answer", "reply", "put"} =>
            page_buf'[u] = total'[p]
      <4>1. OthersCarry(t, p)
        BY <2>1, <2>2, <3>1, OthersKeep
      <4>2. iter'[t] = p /\ pc'[t] \in {"answer", "reply", "put"} => page_buf'[t] = total'[p]
        BY <2>1, <2>2, <3>1 DEF PageContent
      <4>3. QED
        BY <4>1, <4>2, CarryAll
    <3>4. \A u \in Thread : iter'[u] = p /\ pc'[u] = "store" =>
            page_buf'[u] = total'[p] /\ ~GrantInFlight(Ins[u], p)
      <4>1. OthersStore(t, p)
        BY <2>1, <2>2, <3>1, OthersKeep
      <4>2. pc'[t] = "store" => page_buf'[t] = total'[p] /\ ~GrantInFlight(Ins[t], p)
        BY <2>1, <2>2, <3>1 DEF PageContent
      <4>3. QED
        BY <4>1, <4>2, StoreAll
    <3>5. QED
      BY <2>1, <3>1, <3>2, <3>3, <3>4 DEF PageContent
  <2>5. QED
    BY <2>3, <2>4, AtPageStep
<1>3. QED
  BY <1>1, <1>2

\* BufferPut stores what the grant carried, which is the last version.
LEMMA StorePageContent ==
  ASSUME TypeOK, ProtocolInv, ContentInv, NEW t \in Thread, StorePage(t)
  PROVE  ContentInv'
<1>0. PICK p, o : p = iter[t] /\ o = Ins[t]
  OBVIOUS
<1> USE <1>0
<1>1. /\ pc[t] = "put" /\ UNCHANGED <<total, overtaken, early, resent, write_ins_id>>
      /\ buf' = [buf EXCEPT ![o][p] = page_buf[t]]
      /\ page_buf' = [page_buf EXCEPT ![t] = 0]
      /\ iter' = [iter EXCEPT ![t] = NoPage] /\ NextPage(t, "mode")
  BY DEF StorePage, At, ghostVars, globalVars, NextPage
<1>2. p \in Page /\ o \in Instance
  BY <1>1, PageOf, FetchPlaces DEF ProtocolInv
<1>3. pc'[t] = "mode" /\ Elsewhere(t)
  BY <1>1, NextPageStep
<1>4. /\ iter'[t] = NoPage
      /\ \A u \in Thread : u # t => page_buf'[u] = page_buf[u]
      /\ \A i \in Instance, q \in Page : buf'[i][q] =
           IF i = o /\ q = p THEN page_buf[t] ELSE buf[i][q]
  BY <1>1, <1>2 DEF TypeOK
<1>5. AtPageOnly(t)
  BY <1>1, <1>2, <1>3, <1>4, SMTT(60) DEF AtPageOnly, Lossy
<1>6. ASSUME p \in Page \ Lossy'
      PROVE  PageContent(p)'
  <2>1. PageContent(p) /\ p \notin overtaken
    BY <1>1, <1>6 DEF ContentInv, Lossy
  <2>2. \A i : GrantInFlight(i, p)' => GrantInFlight(i, p)
    BY <1>1, <1>3 DEF GrantInFlight, Elsewhere
  <2>3. \A u \in Thread : iter'[u] = p /\ pc'[u] \in {"answer", "reply", "put"} =>
          page_buf'[u] = total'[p]
    <3>1. OthersCarry(t, p)
      BY <1>1, <1>3, <1>4, <2>1, OthersKeep
    <3>2. iter'[t] = p /\ pc'[t] \in {"answer", "reply", "put"} => page_buf'[t] = total'[p]
      BY <1>1, <1>3, <1>4, <2>1 DEF PageContent
    <3>3. QED
      BY <3>1, <3>2, CarryAll
  <2>4. \A u \in Thread : iter'[u] = p /\ pc'[u] = "store" =>
          page_buf'[u] = total'[p] /\ ~GrantInFlight(Ins[u], p)
    <3>1. OthersStore(t, p)
      BY <1>1, <1>3, <1>4, <2>1, OthersKeep
    <3>2. pc'[t] = "store" => page_buf'[t] = total'[p] /\ ~GrantInFlight(Ins[t], p)
      BY <1>1, <1>3, <1>4, <2>1 DEF PageContent
    <3>3. QED
      BY <3>1, <3>2, StoreAll
  <2>5. write_ins_id[p] = o /\ buf'[o][p] = total[p]
    <3>1. write_ins_id[p] = o
      BY <1>1, <1>2, <2>1, FetchPlaces DEF ProtocolInv, OwnInv
    <3>2. page_buf[t] = total[p]
      BY <1>1, <2>1 DEF PageContent
    <3>3. buf'[o][p] = page_buf[t]
      BY <1>2, <1>4
    <3>4. QED
      BY <3>1, <3>2, <3>3
  <2>6. QED
    BY <1>1, <2>1, <2>2, <2>3, <2>4, <2>5 DEF PageContent
<1>7. QED
  BY <1>5, <1>6, AtPageStep

\* A writer loads the last version, unless it comes before the granted page
\* has been stored.
LEMMA LoadPageContent ==
  ASSUME TypeOK, ProtocolInv, HoldInv, ContentInv, NEW t \in Thread, LoadPage(t)
  PROVE  ContentInv'
<1>0. PICK p, o : p = iter[t] /\ o = Ins[t]
  OBVIOUS
<1> USE <1>0
<1>1. /\ pc[t] = "load" /\ UNCHANGED <<total, overtaken, resent, write_ins_id, buf, iter>>
      /\ page_buf' = [page_buf EXCEPT ![t] = buf[o][p]]
      /\ Goto(t, "store")
      /\ early' = IF GrantInFlight(o, p) THEN early \cup {p} ELSE early
  BY DEF LoadPage, At, globalVars
<1>2. p \in Page /\ o \in Instance
  BY <1>1, PageOf, PagePlaces DEF ProtocolInv
<1>3. pc'[t] = "store" /\ Elsewhere(t)
  BY <1>1, GotoStep DEF Elsewhere
<1>4. page_buf'[t] = buf[o][p] /\ \A u \in Thread : u # t => page_buf'[u] = page_buf[u]
  BY <1>1 DEF TypeOK
<1>5. early \subseteq early' /\ (GrantInFlight(o, p) => p \in early')
  BY <1>1
<1>6. AtPageOnly(t)
  BY <1>1, <1>3, <1>4, <1>5 DEF AtPageOnly, Lossy
<1>7. ASSUME p \in Page \ Lossy'
      PROVE  PageContent(p)'
  <2>1. PageContent(p) /\ p \notin overtaken /\ ~GrantInFlight(o, p)
    BY <1>1, <1>5, <1>7 DEF ContentInv, Lossy
  <2>2. \A i : GrantInFlight(i, p)' <=> GrantInFlight(i, p)
    BY <1>1, <1>3 DEF GrantInFlight, Elsewhere
  <2>3. lock_mode[o][p] = "X"
    BY <1>1, WritingPlaces, BusyMode
  <2>4. page_buf'[t] = total'[p]
    BY <1>1, <1>2, <1>4, <2>1, <2>3 DEF ProtocolInv, OwnInv, PageContent
  <2>5. \A u \in Thread : iter'[u] = p /\ pc'[u] \in {"answer", "reply", "put"} =>
          page_buf'[u] = total'[p]
    <3>1. OthersCarry(t, p)
      BY <1>1, <1>3, <1>4, <2>1, OthersKeep
    <3>2. iter'[t] = p /\ pc'[t] \in {"answer", "reply", "put"} => page_buf'[t] = total'[p]
      BY <1>1, <1>3, <1>4, <2>1 DEF PageContent
    <3>3. QED
      BY <3>1, <3>2, CarryAll
  <2>6. \A u \in Thread : iter'[u] = p /\ pc'[u] = "store" =>
          page_buf'[u] = total'[p] /\ ~GrantInFlight(Ins[u], p)
    <3>1. OthersStore(t, p)
      BY <1>1, <1>3, <1>4, <2>1, <2>4, OthersKeep
    <3>2. pc'[t] = "store" => page_buf'[t] = total'[p] /\ ~GrantInFlight(Ins[t], p)
      BY <1>1, <1>3, <1>4, <2>1, <2>4 DEF PageContent
    <3>3. QED
      BY <3>1, <3>2, StoreAll
  <2>7. QED
    BY <1>1, <2>1, <2>2, <2>5, <2>6 DEF PageContent
<1>8. QED
  BY <1>6, <1>7, AtPageStep

\* The write is made in the only current copy: the writer is in the owner, it
\* is alone, and no thread carries the page.
LEMMA StoreRowContent ==
  ASSUME TypeOK, ProtocolInv, HoldInv, ContentInv, NEW t \in Thread, StoreRow(t)
  PROVE  ContentInv'
<1>0. PICK p, o : p = iter[t] /\ o = Ins[t]
  BY SMTT(60)
<1> USE <1>0
<1>1. /\ pc[t] = "store" /\ UNCHANGED <<overtaken, early, resent, write_ins_id, iter>>
      /\ buf' = [buf EXCEPT ![o][p] = page_buf[t] + 1]
      /\ page_buf' = [page_buf EXCEPT ![t] = 0]
      /\ total' = [total EXCEPT ![p] = total[p] + 1]
      /\ Goto(t, "unlock")
  BY DEF StoreRow, At, globalVars
<1>2. p \in Page /\ o \in Instance /\ o # NoInstance
  BY <1>1, PageOf, PagePlaces, InstanceAssumption DEF ProtocolInv
<1>3. pc'[t] = "unlock" /\ Elsewhere(t)
  BY <1>1, GotoStep DEF Elsewhere
<1>4. /\ \A u \in Thread : u # t => page_buf'[u] = page_buf[u]
      /\ total'[p] = total[p] + 1 /\ \A q \in Page : q # p => total'[q] = total[q]
      /\ \A i \in Instance, q \in Page : buf'[i][q] =
           IF i = o /\ q = p THEN page_buf[t] + 1 ELSE buf[i][q]
  BY <1>1, <1>2 DEF TypeOK
<1>5. AtPageOnly(t)
  BY <1>1, <1>3, <1>4, SMTT(60) DEF AtPageOnly, Lossy
<1>6. ASSUME p \in Page \ Lossy'
      PROVE  PageContent(p)'
  <2>1. PageContent(p) /\ p \notin overtaken
    BY <1>1, <1>6 DEF ContentInv, Lossy
  <2>2. page_buf[t] = total[p] /\ ~GrantInFlight(o, p)
    BY <1>1, <2>1 DEF PageContent
  <2>3. write_ins_id[p] = o /\ lock_mode[o][p] # "O"
    BY <1>1, <2>1, StoreOwner
  <2>4. \A u \in Thread : iter[u] = p => pc[u] \notin Granting /\ pc[u] \notin Revoking
    BY <1>2, <2>1, <2>2, <2>3 DEF ProtocolInv, OwnInv, GrantInFlight, Granting
  <2>5. \A u \in Thread : iter'[u] = p => pc'[u] \notin {"answer", "reply", "put"}
    BY <1>1, <1>3, <2>4 DEF Elsewhere, Granting, Revoking
  <2>6. \A u \in Thread : iter'[u] = p => pc'[u] # "store"
    <3> SUFFICES ASSUME NEW u \in Thread, iter'[u] = p, pc'[u] = "store"
                 PROVE  FALSE
      OBVIOUS
    <3>1. u # t /\ pc[u] = "store" /\ iter[u] = p
      BY <1>3 DEF Elsewhere
    <3>2. Ins[u] = o
      BY <2>1, <2>3, <3>1, StoreOwner
    <3>3. QED
      BY <1>1, <3>1, <3>2, WritingPlaces, SMTT(60) DEF HoldInv
  <2>7. buf'[o][p] = total'[p]
    BY <1>2, <1>4, <2>2, SMTT(60)
  <2>8. QED
    BY <1>1, <1>2, <2>3, <2>5, <2>6, <2>7 DEF PageContent
<1>7. QED
  BY <1>5, <1>6, AtPageStep, SMTT(60)

LEMMA FaultContent ==
  ASSUME TypeOK, ContentInv, NEW t \in Thread, Fault(t)
  PROVE  ContentInv'
<1>1. CASE LockRemoteFails(t) \/ InvalidFails(t)
  BY <1>1, FailFrozen, FrozenStep DEF LockRemoteFails, InvalidFails
<1>2. CASE Resend(t)
  <2>0. PICK p : p = iter[t]
    OBVIOUS
  <2> USE <2>0
  <2>1. /\ pc[t] = "reply" /\ Goto(t, "call")
        /\ UNCHANGED <<buf, write_ins_id, iter, total, overtaken, early>>
        /\ page_buf' = [page_buf EXCEPT ![t] = 0]
        /\ resent' = IF page_buf[t] # buf[Ins[t]][p] THEN resent \cup {p} ELSE resent
    BY <1>2 DEF Resend, globalVars, At
  <2>2. pc'[t] = "call" /\ Elsewhere(t)
    BY <2>1, GotoStep DEF Elsewhere
  <2>3. \A u \in Thread : u # t => page_buf'[u] = page_buf[u]
    BY <2>1 DEF TypeOK
  <2>4. AtPageOnly(t)
    BY <2>1, <2>2, <2>3 DEF AtPageOnly, Lossy
  <2>5. ASSUME p \in Page \ Lossy'
        PROVE  PageContent(p)'
    <3>1. PageContent(p) /\ page_buf[t] = buf[Ins[t]][p]
      BY <2>1, <2>5 DEF ContentInv, Lossy
    <3>2. page_buf[t] = total[p]
      BY <2>1, <3>1 DEF PageContent
    <3>3. \A i : GrantInFlight(i, p)' => GrantInFlight(i, p)
      BY <2>1, <2>2 DEF GrantInFlight, Elsewhere
    <3>4. \A i : i # Ins[t] => (GrantInFlight(i, p)' <=> GrantInFlight(i, p))
      BY <2>1, <2>2 DEF GrantInFlight, Elsewhere
    <3>5. \A u \in Thread : iter'[u] = p /\ pc'[u] \in {"answer", "reply", "put"} =>
            page_buf'[u] = total'[p]
      <4>1. OthersCarry(t, p)
        BY <2>1, <2>2, <2>3, <3>1, OthersKeep
      <4>2. iter'[t] = p /\ pc'[t] \in {"answer", "reply", "put"} => page_buf'[t] = total'[p]
        BY <2>1, <2>2, <2>3, <3>1 DEF PageContent
      <4>3. QED
        BY <4>1, <4>2, CarryAll
    <3>6. \A u \in Thread : iter'[u] = p /\ pc'[u] = "store" =>
            page_buf'[u] = total'[p] /\ ~GrantInFlight(Ins[u], p)
      <4>1. OthersStore(t, p)
        BY <2>1, <2>2, <2>3, <3>1, OthersKeep
      <4>2. pc'[t] = "store" => page_buf'[t] = total'[p] /\ ~GrantInFlight(Ins[t], p)
        BY <2>1, <2>2, <2>3, <3>1 DEF PageContent
      <4>3. QED
        BY <4>1, <4>2, StoreAll
    <3>7. \A i \in Instance : write_ins_id'[p] = i /\ ~GrantInFlight(i, p)' =>
            buf'[i][p] = total'[p]
      BY <2>1, <3>1, <3>2, <3>4 DEF PageContent
    <3>8. QED
      BY <2>1, <3>1, <3>3, <3>5, <3>6, <3>7 DEF PageContent
  <2>6. QED
    BY <2>4, <2>5, AtPageStep
<1>3. QED
  BY <1>1, <1>2, SMTT(60) DEF Fault

-----------------------------------------------------------------------------
LEMMA ContentStep ==
  ASSUME TypeOK, ProtocolInv, WriterInv, ContentInv, NEW t \in Thread,
         Start(t) \/ Acquire(t) \/ Serve(t) \/ Run(t) \/ Fault(t)
  PROVE  ContentInv'
<1>1. HoldInv /\ IterInv
  BY DEF WriterInv, ProtocolInv
<1>2. CASE \/ Start(t) \/ CheckInvalid(t) \/ TestMode(t) \/ LostCas(t) \/ SpinOnMode(t)
           \/ SpinDone(t) \/ CheckOwned(t) \/ AddThread(t) \/ WriteRow(t) \/ LockX(t)
           \/ UnLock(t) \/ Finish(t) \/ RemoveThread(t)
  BY <1>1, <1>2, LocalIdle, IdleStep, FrozenStep
<1>3. CASE CasRemoting(t) \/ LockOwned(t) \/ RaiseInvalid(t) \/ Revoke(t)
  BY <1>3, FetchIdle, IdleStep, FrozenStep
<1>4. CASE GrantUnowned(t) \/ ReadRevoked(t) \/ Answer(t)
  BY <1>1, <1>4, GrantUnownedContent, ReadRevokedContent, AnswerContent
<1>5. CASE Granted(t) \/ StorePage(t) \/ LoadPage(t) \/ StoreRow(t)
  BY <1>1, <1>5, GrantedContent, StorePageContent, LoadPageContent, StoreRowContent
<1>6. CASE Fault(t)
  BY <1>6, FaultContent
<1>7. QED
  BY <1>2, <1>3, <1>4, <1>5, <1>6 DEF Acquire, Serve, Run

LEMMA ContentInductive == Spec => []ContentInv
<1>1. Init => ContentInv
  BY SMTT(60) DEF Init, ContentInv, PageContent
<1>2. TypeOK /\ ProtocolInv /\ WriterInv /\ ContentInv /\ [Next]_vars => ContentInv'
  <2> SUFFICES ASSUME TypeOK, ProtocolInv, WriterInv, ContentInv, [Next]_vars
               PROVE  ContentInv'
    OBVIOUS
  <2>1. CASE UNCHANGED vars
    <3>1. Frozen
      BY <2>1 DEF Frozen, vars, globalVars, threadVars, ghostVars
    <3>2. QED
      BY <3>1, FrozenStep
  <2>2. CASE Next
    BY <2>2, ContentStep DEF Next
  <2>3. QED
    BY <2>1, <2>2
<1>3. QED
  BY <1>1, <1>2, Inductive, WriterInductive, PTL DEF Spec

\* No write is lost when a page moves between instances: GlobalLock's record
\* of the owner, LockInvalid's read of the page and BufferPut in
\* GetWritePageLock keep every write with the owner, for a page in none of
\* the three races of Lossy, whatever the sets of instances, threads and pages.
THEOREM NoWriteLost == Spec => []OwnerHasAllWrites
<1>1. ProtocolInv /\ ContentInv => OwnerHasAllWrites
  <2> SUFFICES ASSUME ProtocolInv, ContentInv, NEW p \in Page \ Lossy,
                      NEW i \in Instance, lock_mode[i][p] # "O", ~GrantInFlight(i, p)
               PROVE  buf[i][p] = total[p]
    BY DEF OwnerHasAllWrites
  <2>1. write_ins_id[p] = i
    BY DEF ProtocolInv, OwnInv, Lossy
  <2>2. QED
    BY <2>1 DEF ContentInv, PageContent
<1>2. QED
  BY <1>1, Inductive, ContentInductive, PTL
=============================================================================
