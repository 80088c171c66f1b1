------------------------------- MODULE Startup -------------------------------
(***************************************************************************)
(* How the cluster starts: main of main_lock_service.cpp, which constructs *)
(* GlobalLock and then serves; main of main_instance.cpp, in which an      *)
(* instance starts its own server in a thread, sleeps, registers with      *)
(* GlobalLock (InstanceInitDone, whose handler calls set_instance_i) and   *)
(* polls GlobalLockInitDone until every instance has registered; and the   *)
(* failures of these calls.                                                *)
(*                                                                         *)
(* A call that fails ends in assert(false): the caller's process stops.    *)
(* The exception is Test, whose result nobody looks at.  A handler goes on *)
(* when its caller has given up or has stopped.  The RPC library delivers  *)
(* a request again when the connection is lost before the answer.          *)
(*                                                                         *)
(* An operator whose name ends in Mut is the next one with a fault in it;  *)
(* no specification uses it.                                               *)
(***************************************************************************)
EXTENDS Integers, FiniteSets

CONSTANTS Instance,       \* the instances, PROCESS_CNT of them
          Unreliable,     \* the instances whose calls may fail
          MaxDeliveries   \* bound: how often a registration is delivered

ASSUME UnreliableAssumption == Unreliable \subseteq Instance
ASSUME DeliveriesAssumption == MaxDeliveries \in Nat \ {0}

Delivery == 1 .. MaxDeliveries

VARIABLES
  service,      \* the process of GlobalLock: "init", "up" or "dead"
  main,         \* where main of each instance is
  delivered,    \* how often the registration of each instance was delivered
  handler,      \* where the handler of each delivery is
  client,       \* instances_[i].global_lock_service_client is set
  init_done     \* instances_[i].init_done

vars == <<service, main, delivered, handler, client, init_done>>

Started == {"run", "end"}

Init ==
  /\ service = "init"
  /\ main = [i \in Instance |-> "init"]
  /\ delivered = [i \in Instance |-> 0]
  /\ handler = [i \in Instance |-> [d \in Delivery |-> "none"]]
  /\ client = [i \in Instance |-> FALSE]
  /\ init_done = [i \in Instance |-> FALSE]

Goto(i, label) == main' = [main EXCEPT ![i] = label]
SetHandler(i, d, label) == handler' = [handler EXCEPT ![i][d] = label]

-----------------------------------------------------------------------------
(***************************************************************************)
(* main_lock_service: the constructor of GlobalLock, then Start.           *)
(***************************************************************************)
ServiceStart ==
  /\ service = "init"
  /\ service' = "up"
  /\ UNCHANGED <<main, delivered, handler, client, init_done>>

(***************************************************************************)
(* main_instance: ManagerInstance::Init.  The server of the instance is    *)
(* started in a thread and given 2 seconds; when it begins to listen is    *)
(* left out, as the only call made to it before the barrier is the Test of *)
(* GlobalLock's new client, whose result nobody looks at.                  *)
(***************************************************************************)
InitInstance(i) ==
  /\ main[i] = "init"
  /\ Goto(i, "register")
  /\ UNCHANGED <<service, delivered, handler, client, init_done>>

\* InstanceInitDone, after the client's Test: the request is delivered, if
\* GlobalLock listens; otherwise the call fails.
Register(i) ==
  /\ main[i] = "register"
  /\ \/ /\ service = "up"
        /\ delivered' = [delivered EXCEPT ![i] = 1]
        /\ SetHandler(i, 1, "begin")
        /\ Goto(i, "wait")
     \/ /\ service # "up"
        /\ Goto(i, "dead")
        /\ UNCHANGED <<delivered, handler>>
  /\ UNCHANGED <<service, client, init_done>>

(***************************************************************************)
(* GlobalLock::set_instance_i, in the handler of delivery d: the assert,   *)
(* the construction of the client (whose Test calls the instance back),    *)
(* and the flag.  The answer leaves when the handler returns (done_guard), *)
(* after all of them.  The handlers of several deliveries take no lock.    *)
(***************************************************************************)
AssertNotDone(i, d) ==
  /\ service = "up" /\ handler[i][d] = "begin"
  /\ \/ /\ ~init_done[i]
        /\ SetHandler(i, d, "client")
        /\ UNCHANGED service
     \/ /\ init_done[i]
        /\ service' = "dead"
        /\ UNCHANGED handler
  /\ UNCHANGED <<main, delivered, client, init_done>>

NewClientMut(i, d) ==
  /\ service = "up" /\ handler[i][d] = "client"
  /\ init_done' = [init_done EXCEPT ![i] = TRUE]
  /\ SetHandler(i, d, "flag")
  /\ UNCHANGED <<service, main, delivered, client>>
NewClient(i, d) ==
  /\ service = "up" /\ handler[i][d] = "client"
  /\ client' = [client EXCEPT ![i] = TRUE]
  /\ SetHandler(i, d, "flag")
  /\ UNCHANGED <<service, main, delivered, init_done>>

SetInitDoneMut(i, d) ==
  /\ service = "up" /\ handler[i][d] = "flag"
  /\ SetHandler(i, d, "done")
  /\ UNCHANGED <<service, main, delivered, client, init_done>>
SetInitDone(i, d) ==
  /\ service = "up" /\ handler[i][d] = "flag"
  /\ init_done' = [init_done EXCEPT ![i] = TRUE]
  /\ SetHandler(i, d, "done")
  /\ UNCHANGED <<service, main, delivered, client>>

Reply(i, d) ==
  /\ service = "up" /\ handler[i][d] = "done"
  /\ SetHandler(i, d, "replied")
  /\ UNCHANGED <<service, main, delivered, client, init_done>>

\* The answer of the last delivery reaches the instance.
Registered(i) ==
  /\ main[i] = "wait" /\ handler[i][delivered[i]] = "replied"
  /\ Goto(i, "poll")
  /\ UNCHANGED <<service, delivered, handler, client, init_done>>

(***************************************************************************)
(* The loop on GlobalLockInitDone.  GlobalLock::init_done reads the flags  *)
(* one by one without a lock; none of them is ever reset.                  *)
(***************************************************************************)
InitDoneMut == \E i \in Instance : init_done[i]
InitDone == \A i \in Instance : init_done[i]

Poll(i) ==
  /\ main[i] = "poll" /\ service = "up" /\ InitDone
  /\ Goto(i, "run")
  /\ UNCHANGED <<service, delivered, handler, client, init_done>>

\* The workers are joined; main then loops for ever and the server stays.
Join(i) ==
  /\ main[i] = "run"
  /\ Goto(i, "end")
  /\ UNCHANGED <<service, delivered, handler, client, init_done>>

(***************************************************************************)
(* Failures.  A call to a process that has stopped fails; a call of an     *)
(* unreliable instance may fail (its timeout is 500 ms and the handler     *)
(* makes a call of its own), or may be delivered again.                    *)
(***************************************************************************)
CallFails(i) ==
  /\ main[i] \in {"wait", "poll"}
  /\ service = "dead" \/ i \in Unreliable
  /\ Goto(i, "dead")
  /\ UNCHANGED <<service, delivered, handler, client, init_done>>

RedeliverMut(i) ==
  /\ main[i] = "wait" /\ i \in Unreliable
  /\ service = "up" /\ delivered[i] <= MaxDeliveries
  /\ delivered' = [delivered EXCEPT ![i] = @ + 1]
  /\ SetHandler(i, delivered[i] + 1, "begin")
  /\ UNCHANGED <<service, main, client, init_done>>
Redeliver(i) ==
  /\ main[i] = "wait" /\ i \in Unreliable
  /\ service = "up" /\ delivered[i] < MaxDeliveries
  /\ delivered' = [delivered EXCEPT ![i] = @ + 1]
  /\ SetHandler(i, delivered[i] + 1, "begin")
  /\ UNCHANGED <<service, main, client, init_done>>

Step(i) ==
  \/ InitInstance(i) \/ Register(i) \/ Registered(i) \/ Poll(i)
  \/ service = "dead" /\ CallFails(i)
  \/ \E d \in Delivery : \/ AssertNotDone(i, d) \/ NewClient(i, d)
                         \/ SetInitDone(i, d) \/ Reply(i, d)

Next ==
  \/ ServiceStart
  \/ \E i \in Instance : Step(i) \/ Join(i) \/ CallFails(i) \/ Redeliver(i)

Spec == Init /\ [][Next]_vars

\* Every process and every handler is scheduled again; the workers of an
\* instance need not end, and no call need fail.
FairSpec == Spec /\ WF_vars(ServiceStart) /\ \A i \in Instance : WF_vars(Step(i))

-----------------------------------------------------------------------------
\* Every variable has its type, and a handler runs for each delivery.
TypeOK ==
  /\ service \in {"init", "up", "dead"}
  /\ main \in [Instance -> {"init", "register", "wait", "poll", "dead"} \cup Started]
  /\ delivered \in [Instance -> 0 .. MaxDeliveries]
  /\ handler \in [Instance -> [Delivery -> {"none", "begin", "client", "flag", "done", "replied"}]]
  /\ client \in [Instance -> BOOLEAN] /\ init_done \in [Instance -> BOOLEAN]

\* main_instance.cpp 76: workers start only when every instance has been
\* initialised; and then GlobalLock has a client for every instance, so that
\* LockRemote, which calls Invalid through it, never finds a null pointer.
\* This holds whatever call failed or was delivered twice.
BarrierHolds ==
  \A i \in Instance : main[i] \in Started =>
    \A j \in Instance : client[j] /\ main[j] \notin {"init", "register"}

\* The barrier opens: unless a process has stopped, every instance starts its
\* workers.  In particular two handlers of one registration never leave the
\* cluster waiting.
AllStart ==
  <>(\/ service = "dead" \/ \E i \in Instance : main[i] = "dead"
     \/ \A i \in Instance : main[i] \in Started)

\* A registration that reaches GlobalLock once never stops it, whatever the
\* handlers of other registrations do and whichever call fails: when its assert
\* has stopped it, two handlers of one registration were at work, one that had
\* not begun when the other had set the flag.  The first need not have answered:
\* handlers that overlap can stop GlobalLock while the instance still waits.
StopsOnlyOnRepeat ==
  service = "dead" =>
    \E i \in Instance : \E d, e \in Delivery :
      handler[i][d] = "begin" /\ handler[i][e] \in {"done", "replied"}
=============================================================================
