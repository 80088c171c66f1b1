---------------------------- MODULE StartupProofs ----------------------------
(***************************************************************************)
(* The start barrier holds for every number of instances, whichever calls  *)
(* fail and however often a registration is delivered.                     *)
(***************************************************************************)
EXTENDS Startup, TLAPS

\* An instance has made its registration call.
Called(i) == main[i] \notin {"init", "register"}

\* BarrierHolds is not inductive: that an instance has a client when its flag is
\* set follows from the order of the stores in set_instance_i, and that it has
\* been initialised from the fact that a handler runs only for a call it made.
HandlerInv ==
  \A i \in Instance : \A d \in Delivery :
    /\ handler[i][d] # "none" => Called(i)
    /\ handler[i][d] \in {"flag", "done", "replied"} => client[i]
FlagInv == \A i \in Instance : init_done[i] => client[i] /\ Called(i)
StartedInv == \A i \in Instance : main[i] \in Started => InitDone
BarrierInv == TypeOK /\ HandlerInv /\ FlagInv /\ StartedInv

\* BarrierInv holds when no process has started.
LEMMA BarrierInit == Init => BarrierInv
  BY DeliveriesAssumption
  DEF Init, BarrierInv, HandlerInv, FlagInv, StartedInv, TypeOK, Called, Started, InitDone, Delivery

Stage == {"none", "begin", "client", "flag", "done", "replied"}

\* One handler moves: its own stage changes and no other.
LEMMA MoveHandler ==
  ASSUME handler \in [Instance -> [Delivery -> Stage]],
         NEW i \in Instance, NEW d \in Delivery, NEW label \in Stage,
         SetHandler(i, d, label)
  PROVE  /\ handler' \in [Instance -> [Delivery -> Stage]]
         /\ \A j \in Instance : \A e \in Delivery :
              handler'[j][e] = IF j = i /\ e = d THEN label ELSE handler[j][e]
  BY DEF SetHandler

\* main of an instance: initialisation, the registration call, its answer, the
\* poll that opens the barrier, and the end.
LEMMA BarrierMain ==
  ASSUME BarrierInv, NEW i \in Instance,
         \/ InitInstance(i) \/ Register(i) \/ Registered(i)
         \/ Poll(i) \/ Join(i) \/ CallFails(i)
  PROVE  BarrierInv'
<1> USE DEF BarrierInv, HandlerInv, FlagInv, StartedInv, TypeOK, Called, Started, InitDone
<1>1. CASE InitInstance(i)
  BY <1>1 DEF InitInstance, Goto
<1>3. CASE Register(i)
  <2>1. CASE service = "up"
    <3>1. 1 \in Delivery /\ 1 \in 0 .. MaxDeliveries
      BY DeliveriesAssumption DEF Delivery
    <3>2. SetHandler(i, 1, "begin") /\ main' = [main EXCEPT ![i] = "wait"]
      BY <1>3, <2>1 DEF Register, Goto
    <3>3. /\ handler' \in [Instance -> [Delivery -> Stage]]
          /\ \A j \in Instance : \A e \in Delivery :
               handler'[j][e] = IF j = i /\ e = 1 THEN "begin" ELSE handler[j][e]
      BY <3>1, <3>2, MoveHandler DEF Stage
    <3>4. delivered' \in [Instance -> 0 .. MaxDeliveries]
      BY <1>3, <2>1, <3>1 DEF Register
    <3>5. UNCHANGED <<service, client, init_done>>
      BY <1>3 DEF Register
    <3>6. TypeOK'
      BY <3>2, <3>3, <3>4, <3>5 DEF Stage
    <3>7. HandlerInv'
      BY <3>2, <3>3, <3>4, <3>5 DEF Stage
    <3>8. FlagInv'
      BY <3>2, <3>3, <3>4, <3>5 DEF Stage
    <3>9. StartedInv'
      BY <3>2, <3>3, <3>4, <3>5 DEF Stage
    <3> QED BY <3>6, <3>7, <3>8, <3>9
  <2>2. CASE service # "up"
    BY <1>3, <2>2 DEF Register, Goto
  <2> QED BY <2>1, <2>2
<1>4. CASE Registered(i)
  BY <1>4 DEF Registered, Goto
<1>5. CASE Poll(i)
  BY <1>5 DEF Poll, Goto
<1>6. CASE Join(i)
  BY <1>6 DEF Join, Goto
<1>7. CASE CallFails(i)
  BY <1>7 DEF CallFails, Goto
<1> QED BY <1>1, <1>3, <1>4, <1>5, <1>6, <1>7

\* The handlers in GlobalLock, and a request that is delivered again.
LEMMA BarrierHandler ==
  ASSUME BarrierInv, NEW i \in Instance,
         \/ \E d \in Delivery : \/ AssertNotDone(i, d) \/ NewClient(i, d)
                                \/ SetInitDone(i, d) \/ Reply(i, d)
         \/ Redeliver(i)
  PROVE  BarrierInv'
<1> USE DEF BarrierInv, HandlerInv, FlagInv, StartedInv, TypeOK, Called, Started, InitDone
<1>1. ASSUME NEW d \in Delivery, AssertNotDone(i, d) PROVE BarrierInv'
  <2>1. CASE init_done[i]
    BY <1>1, <2>1 DEF AssertNotDone
  <2>2. CASE ~init_done[i]
    <3>1. /\ handler' \in [Instance -> [Delivery -> Stage]]
          /\ \A j \in Instance : \A e \in Delivery :
               handler'[j][e] = IF j = i /\ e = d THEN "client" ELSE handler[j][e]
      BY <1>1, <2>2, MoveHandler DEF AssertNotDone, Stage
    <3>2. TypeOK'
      BY <1>1, <2>2, <3>1 DEF AssertNotDone, Stage
    <3>3. handler[i][d] = "begin" /\ UNCHANGED <<main, client>>
      BY <1>1 DEF AssertNotDone
    <3>4. HandlerInv'
      <4> SUFFICES ASSUME NEW j \in Instance, NEW e \in Delivery
                   PROVE  /\ handler'[j][e] # "none" => Called(j)'
                          /\ handler'[j][e] \in {"flag", "done", "replied"} => client'[j]
        OBVIOUS
      <4>1. CASE j = i /\ e = d
        BY <3>1, <3>3, <4>1
      <4>2. CASE ~(j = i /\ e = d)
        BY <3>1, <3>3, <4>2
      <4> QED BY <4>1, <4>2
    <3>5. FlagInv'
      BY <1>1, <2>2, <3>1 DEF AssertNotDone, Stage
    <3>6. StartedInv'
      BY <1>1, <2>2, <3>1 DEF AssertNotDone, Stage
    <3> QED BY <3>2, <3>4, <3>5, <3>6
  <2> QED BY <2>1, <2>2
<1>2. ASSUME NEW d \in Delivery, NewClient(i, d) PROVE BarrierInv'
  <2>1. /\ handler' \in [Instance -> [Delivery -> Stage]]
        /\ \A j \in Instance : \A e \in Delivery :
             handler'[j][e] = IF j = i /\ e = d THEN "flag" ELSE handler[j][e]
    BY <1>2, MoveHandler DEF NewClient, Stage
  <2>2. TypeOK'
    BY <1>2, <2>1 DEF NewClient, Stage
  <2>3. HandlerInv'
    BY <1>2, <2>1 DEF NewClient, Stage
  <2>4. FlagInv'
    BY <1>2, <2>1 DEF NewClient, Stage
  <2>5. StartedInv'
    BY <1>2, <2>1 DEF NewClient, Stage
  <2> QED BY <2>2, <2>3, <2>4, <2>5
<1>3. ASSUME NEW d \in Delivery, SetInitDone(i, d) PROVE BarrierInv'
  <2>1. /\ handler' \in [Instance -> [Delivery -> Stage]]
        /\ \A j \in Instance : \A e \in Delivery :
             handler'[j][e] = IF j = i /\ e = d THEN "done" ELSE handler[j][e]
    BY <1>3, MoveHandler DEF SetInitDone, Stage
  <2>2. TypeOK'
    BY <1>3, <2>1 DEF SetInitDone, Stage
  <2>3. HandlerInv'
    BY <1>3, <2>1 DEF SetInitDone, Stage
  <2>4. FlagInv'
    BY <1>3, <2>1 DEF SetInitDone, Stage
  <2>5. StartedInv'
    BY <1>3, <2>1 DEF SetInitDone, Stage
  <2> QED BY <2>2, <2>3, <2>4, <2>5
<1>4. CASE Redeliver(i)
  <2>1. delivered[i] + 1 \in 0 .. MaxDeliveries /\ delivered[i] + 1 \in Delivery
    BY <1>4, DeliveriesAssumption DEF Redeliver, Delivery
  <2>2. /\ handler' \in [Instance -> [Delivery -> Stage]]
        /\ \A j \in Instance : \A e \in Delivery :
             handler'[j][e] = IF j = i /\ e = delivered[i] + 1 THEN "begin" ELSE handler[j][e]
    BY <1>4, <2>1, MoveHandler DEF Redeliver, Stage
  <2>3. TypeOK'
    BY <1>4, <2>1, <2>2 DEF Redeliver, Stage
  <2>4. HandlerInv'
    BY <1>4, <2>1, <2>2 DEF Redeliver, Stage
  <2>5. FlagInv'
    BY <1>4, <2>1, <2>2 DEF Redeliver, Stage
  <2>6. StartedInv'
    BY <1>4, <2>1, <2>2 DEF Redeliver, Stage
  <2> QED BY <2>3, <2>4, <2>5, <2>6
<1>5. ASSUME NEW d \in Delivery, Reply(i, d) PROVE BarrierInv'
  <2>1. /\ handler' \in [Instance -> [Delivery -> Stage]]
        /\ \A j \in Instance : \A e \in Delivery :
             handler'[j][e] = IF j = i /\ e = d THEN "replied" ELSE handler[j][e]
    BY <1>5, MoveHandler DEF Reply, Stage
  <2>2. TypeOK'
    BY <1>5, <2>1 DEF Reply, Stage
  <2>3. HandlerInv'
    BY <1>5, <2>1 DEF Reply, Stage
  <2>4. FlagInv'
    BY <1>5, <2>1 DEF Reply, Stage
  <2>5. StartedInv'
    BY <1>5, <2>1 DEF Reply, Stage
  <2> QED BY <2>2, <2>3, <2>4, <2>5
<1> QED BY <1>1, <1>2, <1>3, <1>4, <1>5

\* Every step keeps BarrierInv.
LEMMA BarrierStep == BarrierInv /\ [Next]_vars => BarrierInv'
<1> SUFFICES ASSUME BarrierInv, [Next]_vars PROVE BarrierInv'
  OBVIOUS
<1>1. CASE ServiceStart
  BY <1>1 DEF ServiceStart, BarrierInv, HandlerInv, FlagInv, StartedInv, TypeOK, Called, Started, InitDone
<1>2. ASSUME NEW i \in Instance, Step(i) \/ Join(i) \/ CallFails(i) \/ Redeliver(i)
      PROVE  BarrierInv'
  BY <1>2, BarrierMain, BarrierHandler DEF Step
<1>3. CASE UNCHANGED vars
  BY <1>3 DEF vars, BarrierInv, HandlerInv, FlagInv, StartedInv, TypeOK, Called, Started, InitDone
<1> QED BY <1>1, <1>2, <1>3 DEF Next

\* BarrierInv always holds.
THEOREM BarrierCorrect == Spec => []BarrierInv
  BY BarrierInit, BarrierStep, PTL DEF Spec

\* Every variable of the start-up has its type, and no handler runs for a
\* delivery beyond the bound.
THEOREM StartupTypes == Spec => []TypeOK
<1>1. BarrierInv => TypeOK
  BY DEF BarrierInv
<1> QED BY <1>1, BarrierCorrect, PTL

\* Workers start only when every instance has been initialised and GlobalLock
\* has a client for each of them (main_instance.cpp 76), for any number of
\* instances, any failure of their calls and any number of deliveries.
THEOREM Barrier == Spec => []BarrierHolds
<1>1. BarrierInv => BarrierHolds
  BY DEF BarrierInv, FlagInv, StartedInv, BarrierHolds, Called, InitDone
<1> QED BY <1>1, BarrierCorrect, PTL

-----------------------------------------------------------------------------
\* StopsOnlyOnRepeat is not inductive: it needs that a flag is set by a handler,
\* which does not start again, and that no handler runs for a delivery that did
\* not happen.
Past == {"done", "replied"}
SetterInv == \A i \in Instance : init_done[i] => \E d \in Delivery : handler[i][d] \in Past
DeliveredInv == \A i \in Instance : \A d \in Delivery : handler[i][d] # "none" => d <= delivered[i]
StopInv == SetterInv /\ DeliveredInv /\ StopsOnlyOnRepeat

\* StopInv holds when no process has started.
LEMMA StopInit == Init => StopInv
  BY DEF Init, StopInv, SetterInv, DeliveredInv, StopsOnlyOnRepeat

\* The steps that move no handler keep StopInv.
LEMMA StopQuiet ==
  ASSUME BarrierInv, StopInv, UNCHANGED <<handler, delivered, init_done>>, service' = "dead" => service = "dead"
  PROVE  StopInv'
  BY DEF StopInv, SetterInv, DeliveredInv, StopsOnlyOnRepeat

\* A handler moves on while GlobalLock is up, and one that has set the flag can
\* only answer.
LEMMA StopMoves ==
  ASSUME BarrierInv, StopInv, NEW i \in Instance, NEW d \in Delivery, NEW label \in Stage,
         SetHandler(i, d, label), handler[i][d] \in Past => label \in Past, service' # "dead",
         \A j \in Instance : delivered[j] <= delivered'[j], d <= delivered'[i],
         \A j \in Instance : init_done'[j] => init_done[j] \/ (j = i /\ label \in Past),
         delivered' \in [Instance -> 0 .. MaxDeliveries]
  PROVE  StopInv'
<1>1. handler \in [Instance -> [Delivery -> Stage]] /\ delivered \in [Instance -> 0 .. MaxDeliveries]
  BY DEF BarrierInv, TypeOK, Stage
<1>2. \A j \in Instance : \A e \in Delivery :
        handler'[j][e] = IF j = i /\ e = d THEN label ELSE handler[j][e]
  BY <1>1, MoveHandler
<1>3. SetterInv'
  BY <1>2 DEF StopInv, SetterInv
<1>4. DeliveredInv'
  <2> SUFFICES ASSUME NEW j \in Instance, NEW e \in Delivery, handler'[j][e] # "none"
               PROVE  e <= delivered'[j]
    BY DEF DeliveredInv
  <2>1. CASE j = i /\ e = d
    BY <2>1
  <2>2. CASE ~(j = i /\ e = d)
    <3>1. e <= delivered[j]
      BY <1>2, <2>2 DEF StopInv, DeliveredInv
    <3>2. e \in Int /\ delivered[j] \in Int /\ delivered'[j] \in Int
      BY <1>1, DeliveriesAssumption DEF Delivery
    <3> QED
      BY <3>1, <3>2
  <2> QED
    BY <2>1, <2>2
<1>5. StopsOnlyOnRepeat'
  BY DEF StopsOnlyOnRepeat
<1> QED
  BY <1>3, <1>4, <1>5 DEF StopInv

\* The assert: the handler that fails it is not the one that set the flag.
LEMMA StopAssert ==
  ASSUME BarrierInv, StopInv, NEW i \in Instance, NEW d \in Delivery, AssertNotDone(i, d), init_done[i]
  PROVE  StopInv'
<1>1. UNCHANGED <<handler, delivered, init_done>> /\ handler[i][d] = "begin"
  BY DEF AssertNotDone
<1>2. PICK e \in Delivery : handler[i][e] \in Past
  BY DEF StopInv, SetterInv
<1> QED
  BY <1>1, <1>2 DEF StopInv, SetterInv, DeliveredInv, StopsOnlyOnRepeat, Past

\* Every step keeps StopInv.
LEMMA StopStep == BarrierInv /\ StopInv /\ BarrierInv' /\ [Next]_vars => StopInv'
<1> SUFFICES ASSUME BarrierInv, StopInv, BarrierInv', [Next]_vars PROVE StopInv'
  OBVIOUS
<1>0. delivered \in [Instance -> 0 .. MaxDeliveries] /\ delivered' \in [Instance -> 0 .. MaxDeliveries]
  BY DEF BarrierInv, TypeOK
<1>1. CASE ServiceStart \/ UNCHANGED vars
  BY <1>1, StopQuiet DEF ServiceStart, vars
<1>2. ASSUME NEW i \in Instance,
             \/ InitInstance(i) \/ Registered(i) \/ Poll(i) \/ Join(i) \/ CallFails(i)
      PROVE  StopInv'
  BY <1>2, StopQuiet DEF InitInstance, Registered, Poll, Join, CallFails
<1>3. ASSUME NEW i \in Instance, Register(i) PROVE StopInv'
  <2>1. CASE service = "up"
    <3>1. 1 \in Delivery /\ 1 \in 0 .. MaxDeliveries
      BY DeliveriesAssumption DEF Delivery
    <3>2. SetHandler(i, 1, "begin") /\ delivered' = [delivered EXCEPT ![i] = 1] /\ UNCHANGED <<service, init_done>>
      BY <1>3, <2>1 DEF Register
    <3>3. \A d \in Delivery : handler[i][d] = "none"
      BY <1>3 DEF Register, BarrierInv, HandlerInv, Called
    <3>4. ~init_done[i]
      BY <1>3 DEF Register, BarrierInv, FlagInv, Called
    <3>5. handler \in [Instance -> [Delivery -> Stage]]
      BY DEF BarrierInv, TypeOK, Stage
    <3>6. \A j \in Instance : \A e \in Delivery :
            handler'[j][e] = IF j = i /\ e = 1 THEN "begin" ELSE handler[j][e]
      BY <3>1, <3>2, <3>5, MoveHandler DEF Stage
    <3>7. \A j \in Instance : delivered'[j] = IF j = i THEN 1 ELSE delivered[j]
      BY <1>0, <3>2
    <3>8. SetterInv'
      BY <3>2, <3>4, <3>6 DEF StopInv, SetterInv
    <3>9. DeliveredInv'
      BY <3>3, <3>6, <3>7 DEF StopInv, DeliveredInv
    <3> QED
      BY <2>1, <3>2, <3>8, <3>9 DEF StopInv, StopsOnlyOnRepeat
  <2>2. CASE service # "up"
    BY <1>3, <2>2, StopQuiet DEF Register
  <2> QED
    BY <2>1, <2>2
<1>4. ASSUME NEW i \in Instance, Redeliver(i) PROVE StopInv'
  <2>1. delivered[i] + 1 \in Delivery /\ service' = "up" /\ init_done' = init_done
        /\ SetHandler(i, delivered[i] + 1, "begin") /\ delivered' = [delivered EXCEPT ![i] = delivered[i] + 1]
    BY <1>0, <1>4, DeliveriesAssumption DEF Redeliver, Delivery
  <2>2. PICK d \in Delivery : d = delivered[i] + 1
    BY <2>1
  <2>3. delivered[i] \in Int /\ ~(d <= delivered[i])
    BY <1>0, <2>2, DeliveriesAssumption
  <2>4. handler[i][d] = "none"
    BY <2>3 DEF StopInv, DeliveredInv
  <2>5. (\A j \in Instance : delivered[j] <= delivered'[j]) /\ d <= delivered'[i]
    BY <1>0, <2>1, <2>2, DeliveriesAssumption
  <2> QED
    BY <1>0, <2>1, <2>2, <2>4, <2>5, StopMoves DEF Stage, Past
<1>5. ASSUME NEW i \in Instance, NEW d \in Delivery,
             AssertNotDone(i, d) \/ NewClient(i, d) \/ SetInitDone(i, d) \/ Reply(i, d)
      PROVE  StopInv'
  <2>1. CASE AssertNotDone(i, d) /\ init_done[i]
    BY <2>1, StopAssert
  <2>2. CASE ~(AssertNotDone(i, d) /\ init_done[i])
    <3>1. PICK label \in Stage : /\ SetHandler(i, d, label)
                                 /\ handler[i][d] \in Past => label \in Past
                                 /\ \A j \in Instance : init_done'[j] => init_done[j] \/ (j = i /\ label \in Past)
      BY <1>5, <2>2 DEF AssertNotDone, NewClient, SetInitDone, Reply, Stage, Past, BarrierInv, TypeOK
    <3>2. service' # "dead" /\ delivered' = delivered /\ handler[i][d] # "none"
      BY <1>5, <2>2 DEF AssertNotDone, NewClient, SetInitDone, Reply
    <3>3. d <= delivered[i] /\ \A j \in Instance : delivered[j] <= delivered[j]
      BY <1>0, <3>2, DeliveriesAssumption DEF StopInv, DeliveredInv
    <3> QED
      BY <1>0, <3>1, <3>2, <3>3, StopMoves
  <2> QED
    BY <2>1, <2>2
<1> QED
  BY <1>1, <1>2, <1>3, <1>4, <1>5 DEF Next, Step

\* A registration that reaches GlobalLock once never stops it (the assert of
\* set_instance_i), for any number of instances and of deliveries, whichever
\* calls fail: it takes two handlers of one registration, one of which has set
\* the flag before the other begins.
THEOREM StopsOnRepeat == Spec => []StopsOnlyOnRepeat
<1>1. StopInv => StopsOnlyOnRepeat
  BY DEF StopInv
<1> QED BY <1>1, StopInit, StopStep, BarrierCorrect, PTL DEF Spec
=============================================================================
