----------------------------- MODULE AgvProofs -----------------------------
(***************************************************************************)
(* Proofs about module Agv, for every value of its constants that satisfies *)
(* the assumptions stated there.                                           *)
(***************************************************************************)
EXTENDS Agv, TLAPS

-----------------------------------------------------------------------------
(* Typing: one lemma for each group of variables *)

\* What clearing the order does to its variables, ss being a status function.
LEMMA ClearType ==
    ASSUME TypeOK, NEW ss \in [Tracked -> Statuses], ClearActiveOrder(ss)
    PROVE  RouteTypeOK' /\ st' \in [Tracked -> Statuses] /\ ran' \in [Tracked -> 0..Duration]
<1>1. RouteTypeOK'
    BY BoundsAssumption DEF ClearActiveOrder, TypeOK, RouteTypeOK, RequestStatuses
<1>2. st' \in [Tracked -> Statuses] /\ ran' \in [Tracked -> 0..Duration]
    BY BoundsAssumption DEF ClearActiveOrder, TypeOK, ActionTypeOK, Statuses
<1> QED BY <1>1, <1>2

\* A sweep yields statuses and timers of the right type.
LEMMA SweepType ==
    ASSUME ActionTypeOK, Sweep
    PROVE  st' \in [Tracked -> Statuses] /\ ran' \in [Tracked -> 0..Duration]
<1>1. PICK refused \in SUBSET {t \in MayFail : Due(t)} :
        /\ st' = [t \in Tracked |->
                    IF t \notin Actions \cup Timers THEN st[t]
                    ELSE IF Due(t) THEN IF t \in refused THEN "FAILED" ELSE "FINISHED"
                    ELSE IF st[t] = "WAITING" THEN "RUNNING" ELSE st[t]]
        /\ ran' = [t \in Tracked |->
                    IF t \in (Actions \cup Timers) \ Waiters /\ st[t] = "RUNNING" /\ ~Due(t)
                    THEN ran[t] + 1
                    ELSE IF st[t] = "PAUSED" THEN ran[t] ELSE 0]
    BY DEF Sweep
<1>2. st' \in [Tracked -> Statuses]
    BY <1>1 DEF ActionTypeOK, Statuses
<1>3. ASSUME NEW t \in Tracked, t \notin Waiters, st[t] = "RUNNING", ~Due(t)
      PROVE  ran[t] + 1 \in 0..Duration
    BY <1>3, BoundsAssumption DEF ActionTypeOK, Due
<1>4. ran' \in [Tracked -> 0..Duration]
    BY <1>1, <1>3, BoundsAssumption DEF ActionTypeOK
<1> QED BY <1>2, <1>4

\* Order handling, the instant actions and the ticks keep the route well typed.
LEMMA RouteTypeStep ==
    ASSUME TypeOK, Next PROVE RouteTypeOK'
<1> USE DEF TypeOK
<1>1. ASSUME HandleOrder PROVE RouteTypeOK'
  <2>1. PICK m \in OrderMsgs : AcceptNewOrder(m) \/ AcceptUpdate(m)
      BY <1>1 DEF HandleOrder
  <2>2. /\ order' = m /\ nodes' \subseteq Nat /\ edges' \subseteq Nat
        /\ gone' \in 0..TravelTicks
      BY <2>1, OrdersAssumption, BoundsAssumption DEF AcceptNewOrder, AcceptUpdate, TakeOver
  <2>3. lastSeq' \in Nat /\ req' \in [Seqs -> RequestStatuses]
      BY <2>1 DEF AcceptNewOrder, AcceptUpdate, RouteTypeOK, RequestStatuses
  <2> QED BY <2>2, <2>3 DEF RouteTypeOK
<1>2. ASSUME HandleInstantAction PROVE RouteTypeOK'
  <2>1. ASSUME NEW wake \in BOOLEAN, StartHibernation(wake) PROVE RouteTypeOK'
      BY <2>1, ClearType DEF StartHibernation, ActionTypeOK
  <2>2. ASSUME UNCHANGED routeVars PROVE RouteTypeOK'
      BY <2>2 DEF RouteTypeOK, routeVars
  <2> QED BY <1>2, <2>1, <2>2
          DEF HandleInstantAction, CancelOrder, StartPause, StopPause, StopHibernation, Shutdown,
              Retry, SkipRetry, TriggerById, TriggerWaiter, SetStatus, ClearInstantActions, TimerInstant
<1>3. ASSUME NEW e \in Seqs, NEW grant \in {"GRANTED", "REVOKED", "same"}, NEW withLease \in BOOLEAN,
             HandleResponse(e, grant, withLease)
      PROVE  RouteTypeOK'
    BY <1>3 DEF HandleResponse, RouteTypeOK, RequestStatuses
<1>4. ASSUME Tick PROVE RouteTypeOK'
  <2>1. CASE TickHibernating
      BY <2>1 DEF TickHibernating, RouteTypeOK, routeVars
  <2>2. CASE TickCancel
    <3>1. (IF st[cancelId] = "RUNNING" THEN [st EXCEPT ![cancelId] = "FINISHED"] ELSE st)
              \in [Tracked -> Statuses]
        BY DEF ActionTypeOK, Statuses
    <3> QED BY <2>2, <3>1, ClearType DEF TickCancel
  <2>3. CASE TickSuspended
      BY <2>3 DEF TickSuspended, RouteTypeOK, routeVars
  <2>4. CASE TickOrder
    <3>0. order' = order
        BY <2>4 DEF TickOrder
    <3>1. Expired \in [Seqs -> RequestStatuses]
        BY DEF Expired, RouteTypeOK, RequestStatuses
    <3>2. CASE NoRoute
        BY <3>0, <3>1, <3>2 DEF NoRoute, RouteTypeOK
    <3>3. ASSUME NEW n \in nodes,
                 Hold \/ FinishRoute(n) \/ AwaitBase(n) \/ AwaitAccess(n) \/ Drive(n)
          PROVE  RouteTypeOK'
      <4>1. n \in Nat
          BY DEF RouteTypeOK
      <4>2. CASE Hold \/ FinishRoute(n) \/ AwaitBase(n)
          BY <4>1, <4>2, <3>0, <3>1 DEF Hold, FinishRoute, AwaitBase, RouteTypeOK
      <4>3. CASE AwaitAccess(n)
          BY <4>3, <3>0, <3>1 DEF AwaitAccess, RouteTypeOK, RequestStatuses
      <4>4. CASE Drive(n)
        <5>1. req' = Expired /\ (EnRoute \/ ArriveFrom(n))
            BY <4>4 DEF Drive
        <5>2. CASE EnRoute
            BY <5>1, <5>2, <3>0, <3>1, BoundsAssumption DEF EnRoute, RouteTypeOK
        <5>3. CASE ArriveFrom(n)
            BY <4>1, <5>1, <5>3, <3>0, <3>1, BoundsAssumption DEF ArriveFrom, RouteTypeOK
        <5> QED BY <5>1, <5>2, <5>3
      <4> QED BY <3>3, <4>2, <4>3, <4>4
    <3> QED BY <2>4, <3>2, <3>3 DEF TickOrder
  <2> QED BY <1>4, <2>1, <2>2, <2>3, <2>4 DEF Tick
<1>5. ASSUME (\E e \in Seqs : LeaseRunsOut(e)) \/ InjectFault PROVE RouteTypeOK'
    BY <1>5 DEF LeaseRunsOut, InjectFault, RouteTypeOK, routeVars
<1> QED BY <1>1, <1>2, <1>3, <1>4, <1>5 DEF Next

\* Every message and every sweep keeps the statuses and timers well typed.
LEMMA ActionTypeStep ==
    ASSUME TypeOK, Next PROVE ActionTypeOK'
<1> USE DEF TypeOK
<1>0. \A t \in Tracked : t \in Actions \/ t \in Cancels \/ t \in Timers
    BY DEF Tracked
<1>1. ASSUME HandleOrder PROVE ActionTypeOK'
  <2>1. PICK m \in OrderMsgs : AcceptNewOrder(m) \/ AcceptUpdate(m)
      BY <1>1 DEF HandleOrder
  <2>2. cancelId' = cancelId
      BY <2>1 DEF AcceptNewOrder, AcceptUpdate, TakeOver
  <2>3. \A a : Registered(m, a) \in Statuses
      BY DEF Registered, Statuses
  <2>4. st' \in [Tracked -> Statuses] /\ ran' \in [Tracked -> 0..Duration]
      BY <2>1, <2>3, BoundsAssumption DEF AcceptNewOrder, AcceptUpdate, ActionTypeOK
  <2> QED BY <2>2, <2>4 DEF ActionTypeOK
<1>2. ASSUME HandleInstantAction PROVE ActionTypeOK'
  <2>1. ASSUME NEW i \in Cancels, CancelOrder(i) PROVE ActionTypeOK'
    <3>1. cancelId' \in Cancels \cup {NoCancel} /\ ran' = ran
        BY <2>1 DEF CancelOrder, ActionTypeOK
    <3>2. st' \in [Tracked -> Statuses]
        BY <2>1 DEF CancelOrder, ActionTypeOK, Statuses
    <3> QED BY <3>1, <3>2 DEF ActionTypeOK
  <2>2. CASE StartPause \/ StopPause
      BY <2>2 DEF StartPause, StopPause, PauseOrResume, ActionTypeOK, Statuses
  <2>3. ASSUME NEW wake \in BOOLEAN, StartHibernation(wake) PROVE ActionTypeOK'
      BY <2>3, ClearType DEF StartHibernation, ActionTypeOK
  <2>4. CASE StopHibernation \/ Shutdown
      BY <2>4 DEF StopHibernation, Shutdown, ActionTypeOK, actionVars
  <2>5. ASSUME NEW t \in Tracked, NEW s \in Statuses, SetStatus(t, s) PROVE ActionTypeOK'
      BY <2>5, BoundsAssumption DEF SetStatus, ActionTypeOK
  <2>6. ASSUME NEW t \in Tracked,
               Retry(t) \/ SkipRetry(t) \/ TriggerById(t) \/ TriggerWaiter(t) \/ TimerInstant(t)
        PROVE  ActionTypeOK'
      BY <2>5, <2>6 DEF Retry, SkipRetry, TriggerById, TriggerWaiter, TimerInstant, Statuses
  <2>7. CASE ClearInstantActions
      BY <2>7 DEF ClearInstantActions, ActionTypeOK, Statuses
  <2>8. TriggerIds \subseteq Tracked /\ Waiters \subseteq Tracked /\ Timers \subseteq Tracked
      BY ActionsAssumption DEF Tracked
  <2>9. \/ \E i \in Cancels : CancelOrder(i)
        \/ StartPause \/ StopPause \/ StopHibernation \/ Shutdown \/ ClearInstantActions
        \/ \E wake \in BOOLEAN : StartHibernation(wake)
        \/ \E t \in Tracked :
             Retry(t) \/ SkipRetry(t) \/ TriggerById(t) \/ TriggerWaiter(t) \/ TimerInstant(t)
      BY <1>2, <2>8, Zenon DEF HandleInstantAction
  <2> QED BY <2>1, <2>2, <2>3, <2>4, <2>6, <2>7, <2>9
<1>3. CASE \/ \E e \in Seqs, grant \in {"GRANTED", "REVOKED", "same"}, withLease \in BOOLEAN :
                HandleResponse(e, grant, withLease)
           \/ \E e \in Seqs : LeaseRunsOut(e)
    BY <1>3 DEF HandleResponse, LeaseRunsOut, ActionTypeOK, actionVars
<1>4. ASSUME Tick PROVE ActionTypeOK'
  <2>1. CASE TickHibernating \/ TickSuspended
      BY <2>1 DEF TickHibernating, TickSuspended, ActionTypeOK, actionVars
  <2>2. CASE TickCancel
    <3>1. (IF st[cancelId] = "RUNNING" THEN [st EXCEPT ![cancelId] = "FINISHED"] ELSE st)
              \in [Tracked -> Statuses]
        BY DEF ActionTypeOK, Statuses
    <3>2. cancelId' = NoCancel
        BY <2>2 DEF TickCancel
    <3> QED BY <2>2, <3>1, <3>2, ClearType DEF TickCancel, ActionTypeOK
  <2>3. CASE TickOrder
      BY <2>3, SweepType DEF TickOrder, ActionTypeOK
  <2> QED BY <1>4, <2>1, <2>2, <2>3 DEF Tick
<1>5. ASSUME InjectFault PROVE ActionTypeOK'
  <2>1. CASE UNCHANGED actionVars
      BY <1>5, <2>1 DEF InjectFault, ActionTypeOK, actionVars
  <2>2. ASSUME NEW t \in Retriable, FailAction(t) PROVE ActionTypeOK'
    <3>1. st' = [st EXCEPT ![t] = "FAILED"] \/ st' = [st EXCEPT ![t] = "RETRIABLE"]
      <4>1. CASE Legacy BY <4>1, <2>2 DEF FailAction
      <4>2. CASE ~Legacy BY <4>2, <2>2 DEF FailAction
      <4> QED BY <4>1, <4>2
    <3>2. ran' = [ran EXCEPT ![t] = 0] /\ cancelId' = cancelId
        BY <1>5, <2>2 DEF FailAction, InjectFault
    <3>3. t \in Tracked
        BY ActionsAssumption DEF Tracked
    <3>4. st' \in [Tracked -> Statuses]
        BY <3>1, <3>3 DEF ActionTypeOK, Statuses
    <3>5. ran' \in [Tracked -> 0..Duration]
        BY <3>2, <3>3, BoundsAssumption DEF ActionTypeOK
    <3> QED BY <3>2, <3>4, <3>5 DEF ActionTypeOK
  <2> QED BY <1>5, <2>1, <2>2 DEF InjectFault
<1> QED BY <1>1, <1>2, <1>3, <1>4, <1>5 DEF Next

\* Leases and fault timers stay in range: a fault only runs down or is set anew.
LEMMA ClockTypeStep ==
    ASSUME TypeOK, Next PROVE ClockTypeOK'
<1> USE DEF TypeOK
<1>1. ASSUME UNCHANGED <<lease, fault>> PROVE ClockTypeOK'
    BY <1>1 DEF ClockTypeOK
<1>2. ASSUME HandleOrder PROVE ClockTypeOK'
    BY <1>1, <1>2 DEF HandleOrder, AcceptNewOrder, AcceptUpdate, TakeOver
<1>3. ASSUME HandleInstantAction PROVE ClockTypeOK'
    BY <1>1, <1>3
       DEF HandleInstantAction, CancelOrder, StartPause, StopPause, StartHibernation, StopHibernation,
           Shutdown, Retry, SkipRetry, TriggerById, TriggerWaiter, SetStatus, ClearInstantActions,
           TimerInstant
<1>4. ASSUME NEW e \in Seqs, NEW grant \in {"GRANTED", "REVOKED", "same"}, NEW withLease \in BOOLEAN,
             HandleResponse(e, grant, withLease)
      PROVE  ClockTypeOK'
    BY <1>4 DEF HandleResponse, ClockTypeOK
<1>5. ASSUME NEW e \in Seqs, LeaseRunsOut(e) PROVE ClockTypeOK'
    BY <1>5 DEF LeaseRunsOut, ClockTypeOK
<1>6. ASSUME Tick PROVE ClockTypeOK'
    BY <1>1, <1>6 DEF Tick
<1>7. ASSUME InjectFault PROVE ClockTypeOK'
  <2>1. fault' \in [FaultKinds -> 0..FaultTicks] /\ lease' = lease
      BY <1>7 DEF InjectFault, NextFaults
  <2> QED BY <2>1 DEF ClockTypeOK
<1> QED BY <1>2, <1>3, <1>4, <1>5, <1>6, <1>7 DEF Next

\* The flags stay Boolean.
LEMMA FlagTypeStep ==
    ASSUME TypeOK, Next PROVE FlagTypeOK'
<1> USE DEF TypeOK
<1>1. ASSUME UNCHANGED <<driving, newBase, modeVars, loopVars>> PROVE FlagTypeOK'
    BY <1>1 DEF FlagTypeOK, modeVars, loopVars
<1>2. ASSUME HandleOrder PROVE FlagTypeOK'
  <2>1. PICK m \in OrderMsgs : TakeOver(m)
      BY <1>2 DEF HandleOrder, AcceptNewOrder, AcceptUpdate
  <2> QED BY <2>1 DEF TakeOver, FlagTypeOK, modeVars, loopVars
<1>3. ASSUME HandleInstantAction PROVE FlagTypeOK'
  <2>1. CASE StartPause \/ StopPause
      BY <2>1 DEF StartPause, StopPause, FlagTypeOK, routeVars, loopVars
  <2>2. ASSUME NEW wake \in BOOLEAN, StartHibernation(wake) PROVE FlagTypeOK'
      BY <2>2 DEF StartHibernation, ClearActiveOrder, FlagTypeOK, loopVars
  <2>3. CASE StopHibernation \/ Shutdown
      BY <2>3 DEF StopHibernation, Shutdown, FlagTypeOK, routeVars, loopVars
  <2>4. CASE UNCHANGED <<routeVars, modeVars, loopVars>>
      BY <1>1, <2>4 DEF routeVars
  <2> QED BY <1>3, <2>1, <2>2, <2>3, <2>4
          DEF HandleInstantAction, CancelOrder, Retry, SkipRetry, TriggerById, TriggerWaiter, SetStatus,
              ClearInstantActions, TimerInstant
<1>4. CASE \/ \E e \in Seqs, grant \in {"GRANTED", "REVOKED", "same"}, withLease \in BOOLEAN :
                HandleResponse(e, grant, withLease)
           \/ \E e \in Seqs : LeaseRunsOut(e)
    BY <1>1, <1>4 DEF HandleResponse, LeaseRunsOut, routeVars
<1>5. ASSUME Tick PROVE FlagTypeOK'
  <2>1. ticked' = TRUE /\ online' = online
      BY <1>5 DEF Tick
  <2>2. CASE TickHibernating
      BY <2>1, <2>2 DEF TickHibernating, FlagTypeOK, routeVars
  <2>3. CASE TickCancel
      BY <2>1, <2>3 DEF TickCancel, ClearActiveOrder, FlagTypeOK, modeVars
  <2>4. CASE TickSuspended
      BY <2>1, <2>4 DEF TickSuspended, FlagTypeOK, routeVars, modeVars
  <2>5. CASE TickOrder
    <3>1. UNCHANGED modeVars
        BY <2>5 DEF TickOrder
    <3>2. BaseIsShort \in BOOLEAN
        BY DEF BaseIsShort, FlagTypeOK
    <3>3. driving' \in BOOLEAN /\ newBase' \in BOOLEAN
      <4>1. \/ driving' = FALSE /\ newBase' = newBase
            \/ driving' = FALSE /\ newBase' = TRUE
            \/ driving' = FALSE /\ newBase' = BaseIsShort
            \/ driving' = TRUE /\ newBase' = BaseIsShort
          BY <2>5
             DEF TickOrder, NoRoute, Hold, FinishRoute, AwaitBase, AwaitAccess, Drive, EnRoute, ArriveFrom
      <4> QED BY <3>2, <4>1 DEF FlagTypeOK
    <3> QED BY <2>1, <3>1, <3>3 DEF FlagTypeOK, modeVars
  <2> QED BY <1>5, <2>2, <2>3, <2>4, <2>5 DEF Tick
<1>6. ASSUME InjectFault PROVE FlagTypeOK'
    BY <1>6 DEF InjectFault, FlagTypeOK, routeVars, modeVars
<1> QED BY <1>2, <1>3, <1>4, <1>5, <1>6 DEF Next

LEMMA TypeCorrectInit == Init => TypeOK
<1> SUFFICES ASSUME Init PROVE TypeOK
    OBVIOUS
<1>1. RouteTypeOK
    BY BoundsAssumption DEF Init, RouteTypeOK, RequestStatuses
<1>2. ActionTypeOK
    BY BoundsAssumption DEF Init, ActionTypeOK, Statuses
<1>3. ClockTypeOK
    BY BoundsAssumption DEF Init, ClockTypeOK
<1>4. FlagTypeOK
    BY DEF Init, FlagTypeOK
<1> QED BY <1>1, <1>2, <1>3, <1>4 DEF TypeOK

LEMMA TypeStep == TypeOK /\ [Next]_vars => TypeOK'
<1> SUFFICES ASSUME TypeOK, [Next]_vars PROVE TypeOK'
    OBVIOUS
<1>1. CASE Next
    BY <1>1, RouteTypeStep, ActionTypeStep, ClockTypeStep, FlagTypeStep DEF TypeOK
<1>2. CASE UNCHANGED vars
    BY <1>2 DEF vars, routeVars, actionVars, modeVars, loopVars,
                TypeOK, RouteTypeOK, ActionTypeOK, ClockTypeOK, FlagTypeOK
<1> QED BY <1>1, <1>2

\* Type correctness of the robot, for every fleet, route and action it is given.
THEOREM TypeCorrect == Spec => []TypeOK
BY TypeCorrectInit, TypeStep, PTL DEF Spec

-----------------------------------------------------------------------------
(* The inductive invariant *)

\* The actions of an order leave actionStates with it.
NoActionsWithoutOrder == order = NoOrder => \A a \in Actions : st[a] = "absent"

Inv ==
    /\ TypeOK
    /\ QuietWithoutOrder
    /\ NoActionsWithoutOrder
    /\ HibernatingIsQuiet
    /\ PausedOnlyWhilePaused
    /\ OrderActionsHaveState

LEMMA ActionsTracked == Actions \subseteq Tracked
BY DEF Tracked

\* What one sweep does to an entry.
LEMMA SweepEffect ==
    ASSUME TypeOK, Sweep, NEW t \in Tracked
    PROVE  /\ st'[t] = "absent" <=> st[t] = "absent"
           /\ st'[t] = "PAUSED" <=> st[t] = "PAUSED"
           /\ st[t] \in {"PAUSED", "RETRIABLE", "FINISHED", "FAILED"} => st'[t] = st[t]
           /\ st[t] \in {"WAITING", "RUNNING"} => st'[t] \in {"WAITING", "RUNNING", "FINISHED", "FAILED"}
           /\ st[t] = "RUNNING" => st'[t] \in {"RUNNING", "FINISHED", "FAILED"}
<1>1. PICK refused \in SUBSET {u \in MayFail : Due(u)} :
        st' = [u \in Tracked |->
                    IF u \notin Actions \cup Timers THEN st[u]
                    ELSE IF Due(u) THEN IF u \in refused THEN "FAILED" ELSE "FINISHED"
                    ELSE IF st[u] = "WAITING" THEN "RUNNING" ELSE st[u]]
    BY DEF Sweep
<1>2. Due(t) => st[t] \in {"WAITING", "RUNNING"}
    BY DEF Due
<1> QED BY <1>1, <1>2

\* Clearing the order leaves nothing of it.
LEMMA ClearQuiet ==
    ASSUME NEW ss, ClearActiveOrder(ss)
    PROVE  /\ QuietWithoutOrder' /\ NoActionsWithoutOrder'
           /\ order' = NoOrder /\ ~driving'
BY ActionsTracked DEF ClearActiveOrder, QuietWithoutOrder, NoActionsWithoutOrder

\* What an instant action can do to a robot that is not cleared by it.
LEMMA InstantEffect ==
    ASSUME TypeOK, HandleInstantAction,
           \A wake \in BOOLEAN : ~StartHibernation(wake)
    PROVE  /\ UNCHANGED routeVars
           /\ \A a \in Actions : st[a] = "absent" <=> st'[a] = "absent"
           /\ hibernating' => hibernating
<1>1. ASSUME NEW t \in Tracked, NEW s \in Statuses \ {"absent"}, SetStatus(t, s),
             t \in Actions => st[t] # "absent"
      PROVE  /\ UNCHANGED routeVars
             /\ \A a \in Actions : st[a] = "absent" <=> st'[a] = "absent"
             /\ hibernating' => hibernating
    BY <1>1 DEF SetStatus, modeVars, TypeOK, ActionTypeOK
<1>2. ASSUME NEW t \in Tracked,
             \/ Retry(t) \/ SkipRetry(t) \/ TriggerById(t) \/ TriggerWaiter(t)
             \/ t \in Timers /\ TimerInstant(t)
      PROVE  /\ UNCHANGED routeVars
             /\ \A a \in Actions : st[a] = "absent" <=> st'[a] = "absent"
             /\ hibernating' => hibernating
  <2>1. t \in Timers => t \notin Actions
      BY ActionsAssumption
  <2> QED BY <1>1, <1>2, <2>1
          DEF Retry, SkipRetry, TriggerById, TriggerWaiter, TimerInstant, Statuses
<1>3. ASSUME NEW i \in Cancels, CancelOrder(i)
      PROVE  /\ UNCHANGED routeVars
             /\ \A a \in Actions : st[a] = "absent" <=> st'[a] = "absent"
             /\ hibernating' => hibernating
  <2>1. i \notin Actions /\ Actions \subseteq Tracked
      BY ActionsAssumption, ActionsTracked
  <2> QED BY <1>3, <2>1 DEF CancelOrder, modeVars, TypeOK, ActionTypeOK
<1>4. ASSUME StartPause \/ StopPause \/ ClearInstantActions
      PROVE  /\ UNCHANGED routeVars
             /\ \A a \in Actions : st[a] = "absent" <=> st'[a] = "absent"
             /\ hibernating' => hibernating
    BY <1>4, ActionsTracked
       DEF StartPause, StopPause, PauseOrResume, ClearInstantActions, modeVars, TypeOK, ActionTypeOK
<1>5. ASSUME StopHibernation \/ Shutdown
      PROVE  /\ UNCHANGED routeVars
             /\ \A a \in Actions : st[a] = "absent" <=> st'[a] = "absent"
             /\ hibernating' => hibernating
    BY <1>5 DEF StopHibernation, Shutdown, actionVars
<1>6. TriggerIds \subseteq Tracked /\ Waiters \subseteq Tracked /\ Timers \subseteq Tracked
    BY ActionsAssumption DEF Tracked
<1>7. \/ \E i \in Cancels : CancelOrder(i)
      \/ StartPause \/ StopPause \/ StopHibernation \/ Shutdown \/ ClearInstantActions
      \/ \E t \in Tracked : \/ Retry(t) \/ SkipRetry(t) \/ TriggerById(t) \/ TriggerWaiter(t)
                            \/ t \in Timers /\ TimerInstant(t)
    BY <1>6, Zenon DEF HandleInstantAction
<1> QED BY <1>2, <1>3, <1>4, <1>5, <1>7

\* What a tick that works on the order does to the route.
LEMMA TickOrderEffect ==
    ASSUME TypeOK, TickOrder
    PROVE  /\ order' = order
           /\ nodes' \subseteq nodes /\ edges' \subseteq edges
           /\ nodes = {} => ~driving' /\ newBase' = newBase /\ req' = Expired
<1>1. order' = order
    BY DEF TickOrder
<1>2. CASE NoRoute
    BY <1>1, <1>2 DEF NoRoute
<1>3. CASE nodes # {} /\ ~NoRoute
    BY <1>1, <1>3 DEF TickOrder, Hold, FinishRoute, AwaitBase, AwaitAccess, Drive, EnRoute, ArriveFrom
<1> QED BY <1>2, <1>3 DEF TickOrder, NoRoute

LEMMA QuietStep ==
    ASSUME Inv, Next PROVE QuietWithoutOrder' /\ NoActionsWithoutOrder'
<1> USE DEF Inv, NoActionsWithoutOrder
<1>1. CASE HandleOrder
    BY <1>1, OrdersAssumption
       DEF HandleOrder, AcceptNewOrder, AcceptUpdate, TakeOver, QuietWithoutOrder
<1>2. CASE HandleInstantAction
  <2>1. ASSUME NEW wake \in BOOLEAN, StartHibernation(wake)
        PROVE  QuietWithoutOrder' /\ NoActionsWithoutOrder'
      BY <2>1, ClearQuiet DEF StartHibernation
  <2>2. CASE \A wake \in BOOLEAN : ~StartHibernation(wake)
      BY <1>2, <2>2, InstantEffect DEF QuietWithoutOrder, routeVars
  <2> QED BY <2>1, <2>2
<1>3. ASSUME NEW e \in Seqs, NEW grant \in {"GRANTED", "REVOKED", "same"}, NEW withLease \in BOOLEAN,
             HandleResponse(e, grant, withLease)
      PROVE  QuietWithoutOrder' /\ NoActionsWithoutOrder'
    BY <1>3 DEF HandleResponse, QuietWithoutOrder, actionVars
<1>4. ASSUME NEW e \in Seqs, LeaseRunsOut(e) PROVE QuietWithoutOrder' /\ NoActionsWithoutOrder'
    BY <1>4 DEF LeaseRunsOut, QuietWithoutOrder, routeVars, actionVars
<1>5. CASE Tick
  <2>1. CASE TickHibernating \/ TickSuspended
      BY <2>1 DEF TickHibernating, TickSuspended, QuietWithoutOrder, routeVars, actionVars
  <2>2. CASE TickCancel
      BY <2>2, ClearQuiet DEF TickCancel
  <2>3. CASE TickOrder
    <3>1. \A a \in Actions : st[a] = "absent" => st'[a] = "absent"
        BY <2>3, SweepEffect, ActionsTracked DEF TickOrder
    <3>2. \A e \in Seqs : req[e] = "none" => Expired[e] = "none"
        BY DEF Expired
    <3> QED BY <2>3, <3>1, <3>2, TickOrderEffect DEF QuietWithoutOrder
  <2> QED BY <1>5, <2>1, <2>2, <2>3 DEF Tick
<1>6. CASE InjectFault
  <2>1. UNCHANGED routeVars
      BY <1>6 DEF InjectFault
  <2>2. \A a \in Actions : st[a] = "absent" => st'[a] = "absent"
      BY <1>6, ActionsTracked DEF InjectFault, FailAction, actionVars, TypeOK, ActionTypeOK
  <2> QED BY <2>1, <2>2 DEF QuietWithoutOrder, routeVars
<1> QED BY <1>1, <1>2, <1>3, <1>4, <1>5, <1>6 DEF Next

LEMMA HibernatingStep ==
    ASSUME Inv, Next PROVE HibernatingIsQuiet'
<1> USE DEF Inv
<1>1. CASE HandleOrder
  <2>1. ~hibernating'
      BY <1>1 DEF HandleOrder, AcceptNewOrder, AcceptUpdate, TakeOver, Responsive, modeVars
  <2> QED BY <2>1 DEF HibernatingIsQuiet
<1>2. CASE HandleInstantAction
  <2>1. ASSUME NEW wake \in BOOLEAN, StartHibernation(wake) PROVE HibernatingIsQuiet'
      BY <2>1, ClearQuiet DEF StartHibernation, HibernatingIsQuiet
  <2>2. CASE \A wake \in BOOLEAN : ~StartHibernation(wake)
      BY <1>2, <2>2, InstantEffect DEF HibernatingIsQuiet, routeVars
  <2> QED BY <2>1, <2>2
<1>3. CASE \/ \E e \in Seqs, grant \in {"GRANTED", "REVOKED", "same"}, withLease \in BOOLEAN :
                HandleResponse(e, grant, withLease)
           \/ \E e \in Seqs : LeaseRunsOut(e)
    BY <1>3 DEF HandleResponse, LeaseRunsOut, HibernatingIsQuiet, routeVars, modeVars
<1>4. CASE Tick
  <2>1. CASE TickHibernating
      BY <2>1 DEF TickHibernating, HibernatingIsQuiet, routeVars, TypeOK, FlagTypeOK
  <2>2. CASE TickCancel \/ TickSuspended \/ TickOrder
    <3>1. ~hibernating'
        BY <2>2 DEF TickCancel, TickSuspended, TickOrder, modeVars
    <3> QED BY <3>1 DEF HibernatingIsQuiet
  <2> QED BY <1>4, <2>1, <2>2 DEF Tick
<1>5. CASE InjectFault
    BY <1>5 DEF InjectFault, HibernatingIsQuiet, routeVars, modeVars
<1> QED BY <1>1, <1>2, <1>3, <1>4, <1>5 DEF Next

LEMMA PausedStep ==
    ASSUME Inv, Next PROVE PausedOnlyWhilePaused'
<1> USE DEF Inv
<1>0. ASSUME paused' = paused, \A t \in Tracked : st'[t] = "PAUSED" => st[t] = "PAUSED"
      PROVE  PausedOnlyWhilePaused'
    BY <1>0 DEF PausedOnlyWhilePaused
<1>1. CASE HandleOrder
  <2>1. PICK m \in OrderMsgs : AcceptNewOrder(m) \/ AcceptUpdate(m)
      BY <1>1 DEF HandleOrder
  <2>2. \A a : Registered(m, a) # "PAUSED"
      BY DEF Registered
  <2>3. paused' = paused
      BY <2>1 DEF AcceptNewOrder, AcceptUpdate, TakeOver, modeVars
  <2>4. \A t \in Tracked : st'[t] = "PAUSED" => st[t] = "PAUSED"
      BY <2>1, <2>2 DEF AcceptNewOrder, AcceptUpdate
  <2> QED BY <1>0, <2>3, <2>4
<1>2. CASE HandleInstantAction
  <2>1. ASSUME NEW t \in Tracked, NEW s \in Statuses \ {"PAUSED"}, SetStatus(t, s)
        PROVE  PausedOnlyWhilePaused'
      BY <1>0, <2>1 DEF SetStatus, modeVars, TypeOK, ActionTypeOK
  <2>2. ASSUME NEW t \in Tracked,
               Retry(t) \/ SkipRetry(t) \/ TriggerById(t) \/ TriggerWaiter(t) \/ TimerInstant(t)
        PROVE  PausedOnlyWhilePaused'
      BY <2>1, <2>2 DEF Retry, SkipRetry, TriggerById, TriggerWaiter, TimerInstant, Statuses
  <2>3. ASSUME NEW i \in Cancels, CancelOrder(i) PROVE PausedOnlyWhilePaused'
      BY <1>0, <2>3 DEF CancelOrder, modeVars, TypeOK, ActionTypeOK
  <2>4. CASE StartPause
      BY <2>4 DEF StartPause, PausedOnlyWhilePaused
  <2>5. CASE StopPause
      BY <2>5 DEF StopPause, PauseOrResume, PausedOnlyWhilePaused
  <2>6. ASSUME NEW wake \in BOOLEAN, StartHibernation(wake) PROVE PausedOnlyWhilePaused'
      BY <1>0, <2>6 DEF StartHibernation, ClearActiveOrder
  <2>7. CASE StopHibernation \/ Shutdown \/ ClearInstantActions
      BY <1>0, <2>7 DEF StopHibernation, Shutdown, ClearInstantActions, actionVars, modeVars
  <2>8. TriggerIds \subseteq Tracked /\ Waiters \subseteq Tracked /\ Timers \subseteq Tracked
      BY ActionsAssumption DEF Tracked
  <2>9. \/ \E i \in Cancels : CancelOrder(i)
        \/ StartPause \/ StopPause \/ StopHibernation \/ Shutdown \/ ClearInstantActions
        \/ \E wake \in BOOLEAN : StartHibernation(wake)
        \/ \E t \in Tracked :
             Retry(t) \/ SkipRetry(t) \/ TriggerById(t) \/ TriggerWaiter(t) \/ TimerInstant(t)
      BY <1>2, <2>8, Zenon DEF HandleInstantAction
  <2> QED BY <2>2, <2>3, <2>4, <2>5, <2>6, <2>7, <2>9
<1>3. CASE \/ \E e \in Seqs, grant \in {"GRANTED", "REVOKED", "same"}, withLease \in BOOLEAN :
                HandleResponse(e, grant, withLease)
           \/ \E e \in Seqs : LeaseRunsOut(e)
    BY <1>0, <1>3 DEF HandleResponse, LeaseRunsOut, actionVars, modeVars
<1>4. CASE Tick
  <2>1. CASE TickHibernating \/ TickSuspended
      BY <1>0, <2>1 DEF TickHibernating, TickSuspended, actionVars, modeVars
  <2>2. CASE TickCancel
    <3>1. st \in [Tracked -> Statuses]
        BY DEF TypeOK, ActionTypeOK
    <3> QED BY <1>0, <2>2, <3>1 DEF TickCancel, ClearActiveOrder, modeVars
  <2>3. CASE TickOrder
      BY <1>0, <2>3, SweepEffect DEF TickOrder, modeVars
  <2> QED BY <1>4, <2>1, <2>2, <2>3 DEF Tick
<1>5. CASE InjectFault
    BY <1>0, <1>5 DEF InjectFault, FailAction, actionVars, modeVars, TypeOK, ActionTypeOK
<1> QED BY <1>1, <1>2, <1>3, <1>4, <1>5 DEF Next

LEMMA HaveStateStep ==
    ASSUME Inv, Next PROVE OrderActionsHaveState'
<1> USE DEF Inv
<1>0. ASSUME order' = order, \A a \in Actions : st[a] # "absent" => st'[a] # "absent"
      PROVE  OrderActionsHaveState'
    BY <1>0, OrdersAssumption DEF OrderActionsHaveState, TypeOK, RouteTypeOK
<1>1. CASE HandleOrder
  <2>1. PICK m \in OrderMsgs : AcceptNewOrder(m) \/ AcceptUpdate(m)
      BY <1>1 DEF HandleOrder
  <2>2. \A a \in m.acts : Registered(m, a) # "absent" /\ a \in Actions /\ a \in Tracked
      BY OrdersAssumption, ActionsTracked DEF Registered
  <2> QED BY <2>1, <2>2 DEF AcceptNewOrder, AcceptUpdate, TakeOver, OrderActionsHaveState
<1>2. CASE HandleInstantAction
  <2>1. ASSUME NEW wake \in BOOLEAN, StartHibernation(wake) PROVE OrderActionsHaveState'
      BY <2>1, ClearQuiet DEF StartHibernation, OrderActionsHaveState
  <2>2. CASE \A wake \in BOOLEAN : ~StartHibernation(wake)
      BY <1>0, <1>2, <2>2, InstantEffect DEF routeVars
  <2> QED BY <2>1, <2>2
<1>3. CASE \/ \E e \in Seqs, grant \in {"GRANTED", "REVOKED", "same"}, withLease \in BOOLEAN :
                HandleResponse(e, grant, withLease)
           \/ \E e \in Seqs : LeaseRunsOut(e)
    BY <1>0, <1>3 DEF HandleResponse, LeaseRunsOut, routeVars, actionVars
<1>4. CASE Tick
  <2>1. CASE TickHibernating \/ TickSuspended
      BY <1>0, <2>1 DEF TickHibernating, TickSuspended, routeVars, actionVars
  <2>2. CASE TickCancel
      BY <2>2, ClearQuiet DEF TickCancel, OrderActionsHaveState
  <2>3. CASE TickOrder
      BY <1>0, <2>3, SweepEffect, ActionsTracked DEF TickOrder
  <2> QED BY <1>4, <2>1, <2>2, <2>3 DEF Tick
<1>5. CASE InjectFault
    BY <1>0, <1>5, ActionsTracked
       DEF InjectFault, FailAction, routeVars, actionVars, TypeOK, ActionTypeOK
<1> QED BY <1>1, <1>2, <1>3, <1>4, <1>5 DEF Next

LEMMA InvInit == Init => Inv
BY TypeCorrectInit DEF Init, Inv, QuietWithoutOrder, NoActionsWithoutOrder, HibernatingIsQuiet,
   PausedOnlyWhilePaused, OrderActionsHaveState, Tracked

LEMMA InvStep == Inv /\ [Next]_vars => Inv'
<1> SUFFICES ASSUME Inv, [Next]_vars PROVE Inv'
    OBVIOUS
<1>1. CASE Next
    BY <1>1, TypeStep, QuietStep, HibernatingStep, PausedStep, HaveStateStep DEF Inv
<1>2. CASE UNCHANGED vars
  <2>1. TypeOK'
      BY <1>2, TypeStep DEF Inv
  <2>2. /\ QuietWithoutOrder' /\ NoActionsWithoutOrder' /\ HibernatingIsQuiet'
        /\ PausedOnlyWhilePaused' /\ OrderActionsHaveState'
      BY <1>2 DEF Inv, vars, routeVars, actionVars, modeVars, QuietWithoutOrder, NoActionsWithoutOrder,
                  HibernatingIsQuiet, PausedOnlyWhilePaused, OrderActionsHaveState
  <2> QED BY <2>1, <2>2 DEF Inv
<1> QED BY <1>1, <1>2

\* The invariant holds of every reachable state.
THEOREM Invariance == Spec => []Inv
BY InvInit, InvStep, PTL DEF Spec

\* A robot without an order holds no route, no requests and no grants of one, and does not
\* report driving (agv.py, _clear_active_order and tick).
THEOREM QuietWithoutOrderAlways == Spec => []QuietWithoutOrder
<1>1. Inv => QuietWithoutOrder
    BY DEF Inv
<1> QED BY <1>1, Invariance, PTL

\* A hibernating robot neither holds an order nor drives (agv.py, the hibernation gates).
THEOREM HibernatingIsQuietAlways == Spec => []HibernatingIsQuiet
<1>1. Inv => HibernatingIsQuiet
    BY DEF Inv
<1> QED BY <1>1, Invariance, PTL

\* PAUSED is a status of a paused robot's actions only (agv.py, _pause_or_resume).
THEOREM PausedOnlyWhilePausedAlways == Spec => []PausedOnlyWhilePaused
<1>1. Inv => PausedOnlyWhilePaused
    BY DEF Inv
<1> QED BY <1>1, Invariance, PTL

\* Every action of the current order has an entry in actionStates, also after an
\* update (agv.py, _accept_order and _register_order_action).
THEOREM OrderActionsHaveStateAlways == Spec => []OrderActionsHaveState
<1>1. Inv => OrderActionsHaveState
    BY DEF Inv
<1> QED BY <1>1, Invariance, PTL

-----------------------------------------------------------------------------
(* What a step may never do *)

\* Only a tick that works on the order takes anything off the route of an order
\* that stays.
LEMMA RouteShrinks ==
    ASSUME Inv, Next, order # NoOrder, order' = order, ~TickOrder
    PROVE  UNCHANGED <<nodes, edges, lastSeq>>
<1> USE DEF Inv
<1>1. CASE HandleOrder
  <2>1. PICK m \in OrderMsgs : AcceptNewOrder(m) \/ AcceptUpdate(m)
      BY <1>1 DEF HandleOrder
  <2>2. order' = m
      BY <2>1 DEF AcceptNewOrder, AcceptUpdate, TakeOver
  <2>3. ~(m.upd > m.upd)
      BY OrdersAssumption
  <2> QED BY <2>1, <2>2, <2>3 DEF AcceptNewOrder, AcceptUpdate, SameOrder
<1>2. CASE HandleInstantAction
    BY <1>2, InstantEffect, ClearQuiet DEF StartHibernation, routeVars
<1>3. CASE \/ \E e \in Seqs, grant \in {"GRANTED", "REVOKED", "same"}, withLease \in BOOLEAN :
                HandleResponse(e, grant, withLease)
           \/ \E e \in Seqs : LeaseRunsOut(e)
           \/ InjectFault
    BY <1>3 DEF HandleResponse, LeaseRunsOut, InjectFault, routeVars
<1>4. CASE Tick
    BY <1>4, ClearQuiet DEF Tick, TickHibernating, TickCancel, TickSuspended, routeVars
<1> QED BY <1>1, <1>2, <1>3, <1>4 DEF Next

\* The part of a tick that takes something off the route: nothing holds the robot
\* at node n, and only n and the edge after it go.
LEMMA Departure ==
    ASSUME Inv, TickOrder, nodes' # nodes \/ edges' # edges
    PROVE  \E n \in nodes :
             /\ ~Held(n)
             /\ FinishRoute(n) \/ (Drive(n) /\ ArriveFrom(n))
BY DEF TickOrder, NoRoute, Hold, AwaitBase, AwaitAccess, Drive, EnRoute

LEMMA DepartureLemma == Inv /\ [Next]_vars => DepartureStep
<1> SUFFICES ASSUME Inv, [Next]_vars, order # NoOrder, order' = order,
                    NEW a \in order.acts \cap Holding,
                    Place[a] \in (nodes \cup edges) \ (nodes' \cup edges')
             PROVE  st'[a] \in Terminal
    BY DEF DepartureStep
<1> USE DEF Inv
<1>1. TickOrder
    BY RouteShrinks DEF vars, routeVars
<1>2. PICK n \in nodes : ~Held(n) /\ (FinishRoute(n) \/ (Drive(n) /\ ArriveFrom(n)))
    BY <1>1, Departure
<1>3. Place[a] \in {n} \cup (edges \cap {n + 1})
    BY <1>2 DEF FinishRoute, ArriveFrom
<1>4. st'[a] \notin NonTerminal
    BY <1>2, <1>3 DEF Held, Blocking
<1>5. a \in Tracked /\ st[a] # "absent"
    BY OrdersAssumption, ActionsTracked DEF OrderActionsHaveState, TypeOK, RouteTypeOK
<1>6. st[a] # "PAUSED"
    BY <1>1, <1>5 DEF TickOrder, PausedOnlyWhilePaused
<1>7. st'[a] # "absent" /\ st'[a] # "PAUSED" /\ st'[a] \in Statuses
    BY <1>1, <1>5, <1>6, SweepEffect, SweepType DEF TickOrder, TypeOK
<1> QED BY <1>4, <1>7 DEF Statuses, NonTerminal, Terminal

\* tick() never leaves a node or an edge behind whose blocking actions have not
\* ended, whatever pauses, faults and retries came before (agv.py, _is_blocking).
THEOREM DepartsOnlyWhenDoneAlways == Spec => DepartsOnlyWhenDone
<1>1. Inv /\ [Next]_vars => [DepartureStep]_vars
    BY DepartureLemma
<1> QED BY <1>1, Invariance, PTL DEF Spec, DepartsOnlyWhenDone

LEMMA MotionLemma == Inv /\ [Next]_vars => MotionStep
<1> SUFFICES ASSUME Inv, [Next]_vars, order # NoOrder, order' = order,
                    lastSeq' # lastSeq, edges' # edges
             PROVE  MotionStep
    BY DEF MotionStep, Arrives
<1> USE DEF Inv
<1>1. TickOrder
    BY RouteShrinks DEF vars, routeVars
<1>2. PICK n \in nodes : ~Held(n) /\ (FinishRoute(n) \/ (Drive(n) /\ ArriveFrom(n)))
    BY <1>1, Departure
<1>3. Drive(n) /\ ArriveFrom(n)
    BY <1>2 DEF FinishRoute
<1>4. n \in Nat /\ lastSeq' - 1 = n + 1
    BY <1>3 DEF ArriveFrom, TypeOK, RouteTypeOK
<1>5. n + 1 \in edges /\ {n + 1, n + 1 + 1} \subseteq order.base
    BY <1>3, <1>4 DEF Drive, BaseAhead
<1>6. n + 1 \in order.corridors => req[n + 1] = "GRANTED" /\ lease[n + 1] # "past"
  <2>1. ASSUME n + 1 \in order.corridors PROVE n + 1 \in Seqs
      BY <2>1, OrdersAssumption DEF Seqs, TypeOK, RouteTypeOK
  <2>2. ASSUME n + 1 \in order.corridors PROVE Expired[n + 1] = "GRANTED"
      BY <1>3, <2>2 DEF Drive, Gated
  <2> QED BY <2>1, <2>2 DEF Expired
<1>7. ~paused /\ ~hibernating
    BY <1>1 DEF TickOrder
<1>8. \A k \in FaultKinds : fault[k] = 0
    BY <1>1, <1>2, BoundsAssumption DEF TickOrder, Held, FaultKinds, TypeOK, ClockTypeOK
<1> QED BY <1>4, <1>5, <1>6, <1>7, <1>8 DEF MotionStep

\* The robot only ever drives over its released base, with the grants and the
\* safety state that allow it (agv.py, tick and _check_access_gates).
THEOREM MotionIsPermittedAlways == Spec => MotionIsPermitted
<1>1. Inv /\ [Next]_vars => [MotionStep]_vars
    BY MotionLemma
<1> QED BY <1>1, Invariance, PTL DEF Spec, MotionIsPermitted

-----------------------------------------------------------------------------
(* The robot implements OrderContract *)

\* A step that keeps the order, adds nothing to its route and moves actions along
\* legal arcs is a step of the contract, or none.
LEMMA KeepOrder ==
    ASSUME Inv, Inv', order' = order,
           driving' \/ nodes' # {} \/ edges' # {} => driving \/ nodes # {} \/ edges # {},
           \A a \in Actions : Contract!Legal(a, st[a], st'[a])
    PROVE  [Contract!Next]_(Contract!vars)
<1>1. CASE order # NoOrder
  <2>1. order.id # NoOrder
      BY <1>1, OrdersAssumption DEF Inv, TypeOK, RouteTypeOK
  <2> QED BY <1>1, <2>1 DEF Contract!Next, Contract!Work
<1>2. CASE order = NoOrder
  <2>1. \A a \in Actions : st[a] = "absent" /\ st'[a] = "absent"
      BY <1>2 DEF Inv, NoActionsWithoutOrder
  <2>2. /\ ~(driving \/ nodes # {} \/ edges # {})
        /\ ~(driving' \/ nodes' # {} \/ edges' # {})
      BY <1>2 DEF Inv, QuietWithoutOrder
  <2> QED BY <1>2, <2>1, <2>2 DEF Contract!vars
<1> QED BY <1>1, <1>2

\* Dropping the order is the contract's Withdraw.
LEMMA ClearWithdraws ==
    ASSUME NEW ss, ClearActiveOrder(ss)
    PROVE  [Contract!Next]_(Contract!vars)
BY ActionsTracked DEF ClearActiveOrder, Contract!Next, Contract!Withdraw

LEMMA AcceptNewStarts ==
    ASSUME Inv, NEW m \in OrderMsgs, AcceptNewOrder(m)
    PROVE  Contract!Start
<1>1. order' = m /\ m # NoOrder /\ m.id # NoOrder /\ m.upd \in Nat
    BY OrdersAssumption DEF AcceptNewOrder, TakeOver
<1>2. ~Contract!Busy
    BY DEF Contract!Busy, Contract!Unfinished, AcceptNewOrder, IsIdle, Active
<1>3. \A a \in Actions : st'[a] \in {"absent", "WAITING", "FAILED"}
    BY ActionsTracked DEF AcceptNewOrder, Registered
<1>4. m.id \in {o.id : o \in OrderMsgs} \ {IF order = NoOrder THEN NoOrder ELSE order.id}
    BY <1>1 DEF AcceptNewOrder, SameOrder
<1> QED BY <1>1, <1>2, <1>3, <1>4 DEF Contract!Start

LEMMA AcceptUpdateExtends ==
    ASSUME Inv, NEW m \in OrderMsgs, AcceptUpdate(m)
    PROVE  Contract!Extend
<1>1. order' = m /\ m # NoOrder /\ m.id # NoOrder
    BY OrdersAssumption DEF AcceptUpdate, TakeOver
<1>2. order # NoOrder /\ order.id = m.id /\ m.upd > order.upd
    BY DEF AcceptUpdate, SameOrder
<1>3. \A a \in Actions :
        st'[a] \in IF st[a] = "absent" THEN {"absent", "WAITING", "FAILED"} ELSE {st[a]}
    BY ActionsTracked DEF AcceptUpdate, Registered
<1> QED BY <1>1, <1>2, <1>3 DEF Contract!Extend

\* The instant actions that keep the order move its actions along legal arcs.
LEMMA InstantLegal ==
    ASSUME Inv, HandleInstantAction,
           \A wake \in BOOLEAN : ~StartHibernation(wake),
           NEW a \in Actions
    PROVE  Contract!Legal(a, st[a], st'[a])
<1> USE DEF Inv
<1>1. a \in Tracked /\ a \notin Cancels /\ a \notin Timers
    BY ActionsTracked, ActionsAssumption
<1>2. ASSUME NEW t \in Tracked, Retry(t) \/ SkipRetry(t) \/ TriggerWaiter(t)
      PROVE  Contract!Legal(a, st[a], st'[a])
    BY <1>1, <1>2
       DEF Retry, SkipRetry, TriggerWaiter, SetStatus, Contract!Legal, Contract!Steps, TypeOK, ActionTypeOK
<1>8. ASSUME NEW t \in TriggerIds, TriggerById(t)
      PROVE  Contract!Legal(a, st[a], st'[a])
    BY <1>1, <1>8 DEF TriggerById, SetStatus, Contract!Legal, TypeOK, ActionTypeOK
<1>3. ASSUME NEW i \in Cancels \cup Timers, CancelOrder(i) \/ TimerInstant(i)
      PROVE  Contract!Legal(a, st[a], st'[a])
    BY <1>1, <1>3 DEF CancelOrder, TimerInstant, SetStatus, Contract!Legal, TypeOK, ActionTypeOK
<1>4. CASE StartPause \/ StopPause \/ ClearInstantActions
    BY <1>1, <1>4 DEF StartPause, StopPause, PauseOrResume, ClearInstantActions,
                      Contract!Legal, Contract!Steps
<1>5. CASE StopHibernation \/ Shutdown
    BY <1>5 DEF StopHibernation, Shutdown, actionVars, Contract!Legal
<1>6. Waiters \subseteq Tracked
    BY ActionsAssumption DEF Tracked
<1>7. \/ \E i \in Cancels \cup Timers : CancelOrder(i) \/ TimerInstant(i)
      \/ StartPause \/ StopPause \/ StopHibernation \/ Shutdown \/ ClearInstantActions
      \/ \E t \in Tracked : Retry(t) \/ SkipRetry(t) \/ TriggerWaiter(t)
      \/ \E t \in TriggerIds : TriggerById(t)
    BY <1>6, Zenon DEF HandleInstantAction
<1> QED BY <1>2, <1>3, <1>4, <1>5, <1>7, <1>8

LEMMA ContractStep ==
    ASSUME Inv, [Next]_vars
    PROVE  [Contract!Next]_(Contract!vars)
<1> USE DEF Inv
<1>0. Inv'
    BY InvStep
<1>1. CASE HandleOrder
    BY <1>1, AcceptNewStarts, AcceptUpdateExtends DEF HandleOrder, Contract!Next
<1>2. CASE HandleInstantAction
  <2>1. ASSUME NEW wake \in BOOLEAN, StartHibernation(wake) PROVE [Contract!Next]_(Contract!vars)
      BY <2>1, ClearWithdraws DEF StartHibernation
  <2>2. CASE \A wake \in BOOLEAN : ~StartHibernation(wake)
    <3>1. UNCHANGED routeVars
        BY <1>2, <2>2, InstantEffect
    <3>2. \A a \in Actions : Contract!Legal(a, st[a], st'[a])
        BY <1>2, <2>2, InstantLegal
    <3> QED BY <1>0, <3>1, <3>2, KeepOrder DEF routeVars
  <2> QED BY <2>1, <2>2
<1>3. CASE \/ \E e \in Seqs, grant \in {"GRANTED", "REVOKED", "same"}, withLease \in BOOLEAN :
                HandleResponse(e, grant, withLease)
           \/ \E e \in Seqs : LeaseRunsOut(e)
           \/ UNCHANGED vars
  <2>1. UNCHANGED <<order, nodes, edges, driving, st>>
      BY <1>3 DEF HandleResponse, LeaseRunsOut, vars, routeVars, actionVars
  <2>2. \A a \in Actions : Contract!Legal(a, st[a], st'[a])
      BY <2>1 DEF Contract!Legal
  <2> QED BY <1>0, <2>1, <2>2, KeepOrder
<1>4. CASE Tick
  <2>1. CASE TickHibernating \/ TickSuspended
    <3>1. UNCHANGED <<order, nodes, edges, driving, st>>
        BY <2>1 DEF TickHibernating, TickSuspended, routeVars, actionVars
    <3>2. \A a \in Actions : Contract!Legal(a, st[a], st'[a])
        BY <3>1 DEF Contract!Legal
    <3> QED BY <1>0, <3>1, <3>2, KeepOrder
  <2>2. CASE TickCancel
      BY <2>2, ClearWithdraws DEF TickCancel
  <2>3. CASE TickOrder
    <3>1. /\ order' = order
          /\ driving' \/ nodes' # {} \/ edges' # {} => driving \/ nodes # {} \/ edges # {}
        BY <2>3, TickOrderEffect
    <3>2. ASSUME NEW a \in Actions PROVE Contract!Legal(a, st[a], st'[a])
      <4>1. a \in Tracked /\ st[a] \in Statuses
          BY ActionsTracked DEF TypeOK, ActionTypeOK
      <4> QED BY <2>3, <4>1, SweepEffect DEF TickOrder, Statuses, Contract!Legal, Contract!Steps
    <3> QED BY <1>0, <3>1, <3>2, KeepOrder
  <2> QED BY <1>4, <2>1, <2>2, <2>3 DEF Tick
<1>5. CASE InjectFault
  <2>1. UNCHANGED <<order, nodes, edges, driving>>
      BY <1>5 DEF InjectFault, routeVars
  <2>2. ASSUME NEW a \in Actions PROVE Contract!Legal(a, st[a], st'[a])
      BY <1>5, ActionsTracked
         DEF InjectFault, FailAction, actionVars, Contract!Legal, Contract!Steps, TypeOK, ActionTypeOK
  <2> QED BY <1>0, <2>1, <2>2, KeepOrder
<1> QED BY <1>1, <1>2, <1>3, <1>4, <1>5 DEF Next

\* What fleet control sees of the order and its actions follows the contract: the
\* robot replaces no unfinished work, an update restarts and loses no action, and
\* no action leaves FINISHED, FAILED or RETRIABLE on its own; only a trigger that names
\* an action takes it out of turn.
THEOREM RobotImplementsContract == Spec => ImplementsContract
<1>1. Init => Contract!Init
    BY ActionsTracked DEF Init, Contract!Init
<1>2. Inv /\ [Next]_vars => [Contract!Next]_(Contract!vars)
    BY ContractStep
<1> QED BY <1>1, <1>2, Invariance, PTL DEF Spec, ImplementsContract, Contract!Spec

-----------------------------------------------------------------------------
(* The robot implements RobotModes *)

\* Only four instant actions change a mode or look at one, each as RobotModes has it.
LEMMA InstantModes ==
    ASSUME HandleInstantAction
    PROVE  [Modes!Message]_(Modes!vars)
<1> USE DEF Modes!vars, Modes!modes
<1>1. Listening
    BY Zenon DEF HandleInstantAction, CancelOrder, StartPause, StopPause, StartHibernation, StopHibernation,
       Shutdown, Retry, SkipRetry, TriggerById, TriggerWaiter, ClearInstantActions, TimerInstant, Responsive
<1>2. CASE UNCHANGED <<hibernating, wakeSet, shutdown, loopVars>>
    BY <1>2 DEF loopVars
<1>3. ASSUME NEW wake \in BOOLEAN, StartHibernation(wake)
      PROVE  Modes!Message
    BY <1>1, <1>3 DEF StartHibernation, Responsive, Listening, loopVars, Modes!Message, Modes!FallAsleep
<1>4. CASE StopHibernation
    BY <1>1, <1>4 DEF StopHibernation, Listening, loopVars, Modes!Message, Modes!WakeUp
<1>5. CASE Shutdown
    BY <1>1, <1>5 DEF Shutdown, Responsive, Listening, loopVars, Modes!Message, Modes!AgreeToShutDown
<1>6. ASSUME NEW t, \/ CancelOrder(t) \/ Retry(t) \/ SkipRetry(t)
                    \/ TriggerById(t) \/ TriggerWaiter(t) \/ TimerInstant(t)
      PROVE  UNCHANGED <<hibernating, wakeSet, shutdown, loopVars>>
    BY <1>6 DEF CancelOrder, Retry, SkipRetry, TriggerById, TriggerWaiter, TimerInstant, SetStatus, modeVars
<1>7. ASSUME StartPause \/ StopPause \/ ClearInstantActions
      PROVE  UNCHANGED <<hibernating, wakeSet, shutdown, loopVars>>
    BY <1>7 DEF StartPause, StopPause, ClearInstantActions, modeVars
<1> QED BY <1>2, <1>3, <1>4, <1>5, <1>6, <1>7, Zenon DEF HandleInstantAction

\* A tick changes no mode unless it is that of a hibernating robot, and the end of an
\* iteration is the end of the loop once the robot has agreed to shut down.
LEMMA ModesStep ==
    ASSUME TypeOK, [Next]_vars
    PROVE  [Modes!Next]_(Modes!vars)
<1> USE DEF Modes!vars, Modes!modes, Modes!Next
<1>1. CASE HandleOrder
  <2>1. UNCHANGED <<modeVars, loopVars>>
      BY <1>1 DEF HandleOrder, AcceptNewOrder, AcceptUpdate, TakeOver
  <2> QED BY <2>1 DEF modeVars, loopVars
<1>2. CASE HandleInstantAction
    BY <1>2, InstantModes
<1>3. CASE \/ \E e \in Seqs, grant \in {"GRANTED", "REVOKED", "same"}, withLease \in BOOLEAN :
                HandleResponse(e, grant, withLease)
           \/ \E e \in Seqs : LeaseRunsOut(e)
           \/ UNCHANGED vars
    BY <1>3 DEF HandleResponse, LeaseRunsOut, vars, modeVars, loopVars
<1>4. CASE Tick
  <2>1. Modes!AlarmRings \/ UNCHANGED <<hibernating, wakeSet, shutdown>>
    <3>1. CASE TickHibernating
        BY <3>1 DEF TickHibernating, Modes!AlarmRings, Modes!WakeUp
    <3>2. CASE TickCancel \/ TickSuspended \/ TickOrder
        BY <3>2 DEF TickCancel, TickSuspended, TickOrder, modeVars
    <3> QED BY <1>4, <3>1, <3>2 DEF Tick
  <2>2. ticked' /\ online' /\ ~ticked /\ online
      BY <1>4 DEF Tick, Listening
  <2> QED BY <2>1, <2>2 DEF Modes!Tick
<1>5. CASE InjectFault
  <2>1. UNCHANGED <<hibernating, wakeSet, shutdown>>
      BY <1>5 DEF InjectFault, modeVars
  <2>2. online /\ ticked /\ ~ticked' /\ (online' <=> ~shutdown)
      BY <1>5 DEF InjectFault, TypeOK, FlagTypeOK
  <2> QED BY <2>1, <2>2 DEF Modes!Resume, TypeOK, FlagTypeOK
<1> QED BY <1>1, <1>2, <1>3, <1>4, <1>5 DEF Next

\* What module Runtime takes for granted of the robot it runs is what the robot of
\* module Agv does: no message, tick or fault changes its modes in another way.
THEOREM RobotImplementsModes == Spec => ImplementsModes
<1>1. Init => Modes!Init
    BY DEF Init, Modes!Init
<1>2. TypeOK /\ [Next]_vars => [Modes!Next]_(Modes!vars)
    BY ModesStep
<1> QED BY <1>1, <1>2, TypeCorrect, PTL DEF Spec, ImplementsModes, Modes!Spec
=============================================================================
