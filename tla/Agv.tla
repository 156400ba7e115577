-------------------------------- MODULE Agv --------------------------------
(***************************************************************************)
(* One simulated robot: class SimulatedAgv of src/vda5050_sim/agv.py.      *)
(*                                                                         *)
(* A robot receives orders (a route of nodes and edges that carries        *)
(* actions), instant actions and corridor responses, and its movement loop *)
(* calls tick() and maybe_inject_fault() once per iteration.  None of      *)
(* these calls awaits, so each is one step here; and because the movement  *)
(* loop does not await between tick() and maybe_inject_fault() either, no  *)
(* message is handled between the two (variable ticked).                   *)
(*                                                                         *)
(* What is abstracted.  Nodes have even and edges odd sequenceIds, and two *)
(* orders that use the same sequenceId use the same node or edge.  The     *)
(* pose is the number of ticks the robot has been driving towards its next *)
(* node.  Action effects on maps, zone sets, loads and the battery are not *)
(* state of this module: they show as the choice between FINISHED and      *)
(* FAILED for the actions in MayFail.  Where the code takes the first      *)
(* matching entry of an action list, the model takes any.  Control actions *)
(* that are FINISHED or FAILED when received (startPause, retry, ...) leave*)
(* an entry nobody reads again; the entry is not kept.  Errors reported to *)
(* fleet control, and so handlers that only report one, are left out.  The *)
(* robot has been sent no zone set.                                        *)
(***************************************************************************)
EXTENDS Integers, FiniteSets

CONSTANTS
    OrderMsgs,      \* order messages fleet control may send, in any order and any number of times
    NoOrder,        \* order_id = ""
    Actions,        \* actionIds carried by nodes and edges
    Place,          \* Place[a]: the sequenceId of the node or edge that carries a
    Rejected,       \* order actions of the wrong scope or an unsupported type
    Cancels,        \* actionIds of cancelOrder instant actions
    NoCancel,       \* _cancel_requested_action_id is None
    Timers,         \* actionIds of instant actions that run on the action timer
    Holding,        \* actions whose blockingType is HARD, SOFT or SINGLE
    Retriable,      \* actions declared retriable
    Waiters,        \* order actions of type waitForTrigger
    MayFail,        \* actions whose effect or admission may be refused
    TriggerIds,     \* ids that fleet control puts into the actionId of a trigger
    Injected,       \* faults of the robot's fault profile with a non-zero probability
    Legacy,         \* protocol_version below 3.0.0
    Duration,       \* action_duration_s, in ticks
    TravelTicks,    \* driving ticks an edge takes at most
    FaultTicks,     \* ticks a field violation, SERVICE mode or emergency stop lasts
    Horizon         \* horizon_threshold_nodes

Tracked == Actions \cup Cancels \cup Timers
Seqs == UNION {m.nodes \cup m.edges : m \in OrderMsgs}
FaultKinds == {"field", "service", "estop"}

Statuses == {"absent", "WAITING", "RUNNING", "PAUSED", "RETRIABLE", "FINISHED", "FAILED"}
RequestStatuses == {"none", "REQUESTED", "GRANTED", "REVOKED", "EXPIRED"}

\* _ACTIVE_ACTION_STATUSES, what makes the robot busy, and the statuses that
\* hold movement.  INITIALIZING is never assigned by the code.
Active == {"WAITING", "RUNNING", "PAUSED"}
\* Mutant of NonTerminal: an action that waits for its retry no longer holds.
NonTerminalWithoutRetriable == {"WAITING", "RUNNING"}
NonTerminal == {"WAITING", "RUNNING", "RETRIABLE"}
Terminal == {"FINISHED", "FAILED"}

ASSUME OrdersAssumption ==
    /\ \A m \in OrderMsgs :
         /\ m.id # NoOrder /\ m.upd \in Nat
         /\ m.nodes \subseteq Nat
         /\ m.edges \subseteq Nat
         /\ m.base \subseteq m.nodes \cup m.edges
         /\ m.corridors \subseteq m.edges
         /\ m.acts \subseteq Actions
    /\ NoOrder \notin OrderMsgs

ASSUME ActionsAssumption ==
    /\ Place \in [Actions -> Nat]
    /\ Actions \cap (Cancels \cup Timers) = {}
    /\ Cancels \cap Timers = {}
    /\ NoCancel \notin Cancels
    /\ Rejected \subseteq Actions
    /\ Holding \subseteq Actions \cup Timers
    /\ Retriable \subseteq Actions \cup Timers
    /\ Waiters \subseteq Actions
    /\ MayFail \subseteq Actions \cup Timers
    /\ TriggerIds \subseteq Tracked

ASSUME BoundsAssumption ==
    /\ Duration \in Nat
    /\ TravelTicks \in Nat \ {0}
    /\ FaultTicks \in Nat \ {0}
    /\ Horizon \in Nat
    /\ Legacy \in BOOLEAN
    /\ Injected \subseteq FaultKinds \cup {"error"}

VARIABLES
    order,          \* the accepted order message (order_id, order_update_id, _order_snapshot)
    nodes, edges,   \* sequenceIds of the remaining nodes and edges
    lastSeq,        \* last_node_sequence_id
    gone,           \* ticks driven towards the next node
    driving, newBase,
    st,             \* actionStatus per tracked action ("absent": no entry)
    ran,            \* ticks since the action went RUNNING
    req, lease,     \* corridor request of an edge, and the lease on file for it
    paused, hibernating,
    wakeSet,        \* _wake_up_at is set
    cancelId,       \* _cancel_requested_action_id
    shutdown,       \* shutdown_requested
    fault,          \* ticks until a safety or mode fault clears (0: none)
    ticked,         \* tick() has run and maybe_inject_fault() has not
    online          \* the movement loop is alive

routeVars == <<order, nodes, edges, lastSeq, gone, driving, newBase, req>>
actionVars == <<st, ran>>
modeVars == <<paused, hibernating, wakeSet, shutdown>>
loopVars == <<ticked, online>>
vars == <<routeVars, actionVars, modeVars, loopVars, lease, cancelId, fault>>

RouteTypeOK ==
    /\ order \in OrderMsgs \cup {NoOrder}
    /\ nodes \subseteq Nat
    /\ edges \subseteq Nat
    /\ lastSeq \in Nat
    /\ gone \in 0..TravelTicks
    /\ req \in [Seqs -> RequestStatuses]

ActionTypeOK ==
    /\ st \in [Tracked -> Statuses]
    /\ ran \in [Tracked -> 0..Duration]
    /\ cancelId \in Cancels \cup {NoCancel}

ClockTypeOK ==
    /\ lease \in [Seqs -> {"none", "valid", "past"}]
    /\ fault \in [FaultKinds -> 0..FaultTicks]

FlagTypeOK ==
    /\ driving \in BOOLEAN
    /\ newBase \in BOOLEAN
    /\ paused \in BOOLEAN
    /\ hibernating \in BOOLEAN
    /\ wakeSet \in BOOLEAN
    /\ shutdown \in BOOLEAN
    /\ ticked \in BOOLEAN
    /\ online \in BOOLEAN

TypeOK == RouteTypeOK /\ ActionTypeOK /\ ClockTypeOK /\ FlagTypeOK

Init ==
    /\ order = NoOrder
    /\ nodes = {} /\ edges = {}
    /\ lastSeq = 0 /\ gone = 0
    /\ driving = FALSE /\ newBase = FALSE
    /\ st = [t \in Tracked |-> "absent"]
    /\ ran = [t \in Tracked |-> 0]
    /\ req = [e \in Seqs |-> "none"]
    /\ lease = [e \in Seqs |-> "none"]
    /\ paused = FALSE /\ hibernating = FALSE /\ wakeSet = FALSE /\ shutdown = FALSE
    /\ cancelId = NoCancel
    /\ fault = [k \in FaultKinds |-> 0]
    /\ ticked = FALSE /\ online = TRUE

-----------------------------------------------------------------------------
(* Orders *)

\* Mutant of IsIdle: the action states are not looked at.
IsIdleByRoute ==
    /\ ~driving
    /\ nodes = {} /\ edges = {}

IsIdle ==
    /\ ~driving
    /\ nodes = {} /\ edges = {}
    /\ \A a \in Actions : st[a] \notin Active

\* A callback runs while the movement loop sleeps; handle_order and every
\* instant action but stopHibernation also need a robot that is awake.
Listening == online /\ ~ticked
\* Mutant of Responsive: the check for hibernation is missing.
ResponsiveAsleep == Listening
Responsive == Listening /\ ~hibernating

\* _register_order_action: the entry a new action starts with.
Registered(m, a) ==
    IF a \notin m.acts THEN "absent" ELSE IF a \in Rejected THEN "FAILED" ELSE "WAITING"

\* The part of _accept_order that new orders and updates share.  The remaining
\* graph is replaced wholesale, also by an update.
TakeOver(m) ==
    /\ order' = m
    /\ nodes' = m.nodes
    /\ edges' = m.edges
    /\ newBase' = FALSE
    /\ gone' = 0
    /\ UNCHANGED <<driving, modeVars, loopVars, lease, cancelId, fault>>

SameOrder(m) == order # NoOrder /\ order.id = m.id

AcceptNewOrder(m) ==
    /\ Responsive
    /\ ~SameOrder(m)
    /\ IsIdle
    /\ TakeOver(m)
    /\ lastSeq' = 0
    /\ st' = [t \in Tracked |-> IF t \in Actions THEN Registered(m, t) ELSE st[t]]
    /\ ran' = [t \in Tracked |-> IF t \in Actions THEN 0 ELSE ran[t]]
    /\ req' = [e \in Seqs |-> "none"]

\* Mutant of AcceptUpdate: only a new order registers its actions.
AcceptUpdateUnregistered(m) ==
    /\ Responsive
    /\ SameOrder(m) /\ m.upd > order.upd
    /\ TakeOver(m)
    /\ UNCHANGED <<st, lastSeq, ran, req>>

AcceptUpdate(m) ==
    /\ Responsive
    /\ SameOrder(m) /\ m.upd > order.upd
    /\ TakeOver(m)
    /\ st' = [t \in Tracked |->
                IF t \in Actions /\ st[t] = "absent" THEN Registered(m, t) ELSE st[t]]
    /\ UNCHANGED <<lastSeq, ran, req>>

HandleOrder == \E m \in OrderMsgs : AcceptNewOrder(m) \/ AcceptUpdate(m)

\* Mutant of ClearActiveOrder: the corridor requests are left behind.
ClearActiveOrderButRequests(ss) ==
    /\ order' = NoOrder
    /\ nodes' = {} /\ edges' = {}
    /\ st' = [t \in Tracked |-> IF t \in Actions THEN "absent" ELSE ss[t]]
    /\ ran' = [t \in Tracked |-> IF t \in Actions THEN 0 ELSE ran[t]]
    /\ driving' = FALSE /\ newBase' = FALSE
    /\ gone' = 0
    /\ UNCHANGED <<lastSeq, req>>

\* _clear_active_order, with ss the entries of the instant actions afterwards.
ClearActiveOrder(ss) ==
    /\ order' = NoOrder
    /\ nodes' = {} /\ edges' = {}
    /\ st' = [t \in Tracked |-> IF t \in Actions THEN "absent" ELSE ss[t]]
    /\ ran' = [t \in Tracked |-> IF t \in Actions THEN 0 ELSE ran[t]]
    /\ req' = [e \in Seqs |-> "none"]
    /\ driving' = FALSE /\ newBase' = FALSE
    /\ gone' = 0
    /\ UNCHANGED lastSeq

-----------------------------------------------------------------------------
(* Instant actions *)

CancelOrder(i) ==
    /\ Responsive
    /\ st[i] = "absent"
    /\ IF order # NoOrder /\ ~IsIdle
       THEN /\ st' = [st EXCEPT ![i] = "RUNNING"]
            /\ cancelId' = i
       ELSE /\ st' = [st EXCEPT ![i] = "FAILED"]
            /\ UNCHANGED cancelId
    /\ UNCHANGED <<routeVars, ran, modeVars, loopVars, lease, fault>>

\* _pause_or_resume flips the entries of all three action lists.
PauseOrResume(from, to) ==
    st' = [t \in Tracked |-> IF st[t] = from THEN to ELSE st[t]]

StartPause ==
    /\ Responsive
    /\ paused' = TRUE
    /\ PauseOrResume("RUNNING", "PAUSED")
    /\ UNCHANGED <<routeVars, ran, hibernating, wakeSet, shutdown, loopVars, lease, cancelId, fault>>

\* Mutant of StopPause: the flag is reset and the PAUSED entries are forgotten.
StopPauseFlagOnly ==
    /\ Responsive
    /\ paused' = FALSE
    /\ UNCHANGED <<routeVars, actionVars, hibernating, wakeSet, shutdown, loopVars, lease, cancelId, fault>>

StopPause ==
    /\ Responsive
    /\ paused' = FALSE
    /\ PauseOrResume("PAUSED", "RUNNING")
    /\ UNCHANGED <<routeVars, ran, hibernating, wakeSet, shutdown, loopVars, lease, cancelId, fault>>

\* wake: the request carries a wakeUpTime.
StartHibernation(wake) ==
    /\ Responsive
    /\ ClearActiveOrder(st)
    /\ hibernating' = TRUE
    /\ wakeSet' = wake
    /\ UNCHANGED <<paused, shutdown, loopVars, lease, cancelId, fault>>

StopHibernation ==
    /\ Listening
    /\ hibernating' = FALSE
    /\ wakeSet' = FALSE
    /\ UNCHANGED <<routeVars, actionVars, paused, shutdown, loopVars, lease, cancelId, fault>>

Shutdown ==
    /\ Responsive
    /\ IsIdle
    /\ shutdown' = TRUE
    /\ UNCHANGED <<routeVars, actionVars, paused, hibernating, wakeSet, loopVars, lease, cancelId, fault>>

\* A control action that gives one tracked entry a new status.
SetStatus(t, status) ==
    /\ st' = [st EXCEPT ![t] = status]
    /\ ran' = [ran EXCEPT ![t] = 0]
    /\ UNCHANGED <<routeVars, modeVars, loopVars, lease, cancelId, fault>>

Retry(t) ==
    /\ Responsive
    /\ st[t] = "RETRIABLE"
    /\ SetStatus(t, "WAITING")

SkipRetry(t) ==
    /\ Responsive
    /\ st[t] = "RETRIABLE"
    /\ SetStatus(t, "FAILED")

\* A trigger that names an action finishes it whatever its type and status;
\* one that names none, or none the robot tracks, releases a running waiter.
TriggerById(t) ==
    /\ Responsive /\ ~Legacy
    /\ st[t] # "absent"
    /\ SetStatus(t, "FINISHED")

TriggerWaiter(t) ==
    /\ Responsive /\ ~Legacy
    /\ st[t] = "RUNNING"
    /\ SetStatus(t, "FINISHED")

ClearInstantActions ==
    /\ Responsive
    /\ st' = [t \in Tracked |->
                IF t \notin Actions /\ st[t] \in Terminal THEN "absent" ELSE st[t]]
    /\ UNCHANGED <<routeVars, ran, modeVars, loopVars, lease, cancelId, fault>>

\* An instant action on the action timer; a download may be refused as a duplicate.
TimerInstant(i) ==
    /\ Responsive
    /\ st[i] = "absent"
    /\ SetStatus(i, "WAITING") \/ (i \in MayFail /\ SetStatus(i, "FAILED"))

HandleInstantAction ==
    \/ \E i \in Cancels : CancelOrder(i)
    \/ StartPause
    \/ StopPause
    \/ \E wake \in BOOLEAN : StartHibernation(wake)
    \/ StopHibernation
    \/ Shutdown
    \/ \E t \in Tracked : Retry(t) \/ SkipRetry(t)
    \/ \E t \in TriggerIds : TriggerById(t)
    \/ \E t \in Waiters : TriggerWaiter(t)
    \/ ClearInstantActions
    \/ \E i \in Timers : TimerInstant(i)

-----------------------------------------------------------------------------
(* Corridor responses and leases *)

\* _apply_response: grant is the status the grantType maps to, "same" for
\* QUEUED; withLease tells whether the response carries a leaseExpiry.
HandleResponse(e, grant, withLease) ==
    /\ Listening
    /\ req[e] # "none"
    /\ req' = [req EXCEPT ![e] = IF grant = "same" THEN @ ELSE grant]
    /\ lease' = [lease EXCEPT ![e] = IF withLease THEN "valid" ELSE @]
    /\ UNCHANGED <<order, nodes, edges, lastSeq, gone, driving, newBase,
                   actionVars, modeVars, loopVars, cancelId, fault>>

\* The wall clock passes the expiry time on file for e.
LeaseRunsOut(e) ==
    /\ lease[e] = "valid"
    /\ lease' = [lease EXCEPT ![e] = "past"]
    /\ UNCHANGED <<routeVars, actionVars, modeVars, loopVars, cancelId, fault>>

\* Mutant of Expired: leases are never checked.
NeverExpired == req

\* _check_lease_expiry
Expired == [e \in Seqs |-> IF req[e] = "GRANTED" /\ lease[e] = "past" THEN "EXPIRED" ELSE req[e]]

-----------------------------------------------------------------------------
(* The action machine *)

\* Mutant of Due: the timer is looked at only in the sweep that starts the action.
DueAtStartOnly(t) == t \notin Waiters /\ st[t] = "WAITING" /\ Duration = 0

\* The action's timer is up at this sweep.  A waiter's never is.
Due(t) ==
    /\ t \notin Waiters
    /\ \/ st[t] = "WAITING" /\ Duration = 0
       \/ st[t] = "RUNNING" /\ ran[t] + 1 >= Duration

\* Mutant of Sweep: only the actions of remaining nodes and edges advance.
SweepOfRemaining ==
    LET swept == {a \in Actions : Place[a] \in nodes \cup edges} \cup Timers
    IN \E refused \in SUBSET {t \in MayFail : Due(t)} :
         /\ st' = [t \in Tracked |->
                     IF t \notin swept THEN st[t]
                     ELSE IF Due(t) THEN IF t \in refused THEN "FAILED" ELSE "FINISHED"
                     ELSE IF st[t] = "WAITING" THEN "RUNNING" ELSE st[t]]
         /\ ran' = [t \in Tracked |->
                     IF t \in swept \ Waiters /\ st[t] = "RUNNING" /\ ~Due(t)
                     THEN ran[t] + 1
                     ELSE IF st[t] = "PAUSED" THEN ran[t] ELSE 0]

\* _advance_all_pending: every entry of the action registry advances, also
\* those of nodes and edges not yet reached and those already left.
Sweep ==
    LET swept == Actions \cup Timers
    IN \E refused \in SUBSET {t \in MayFail : Due(t)} :
         /\ st' = [t \in Tracked |->
                     IF t \notin swept THEN st[t]
                     ELSE IF Due(t) THEN IF t \in refused THEN "FAILED" ELSE "FINISHED"
                     ELSE IF st[t] = "WAITING" THEN "RUNNING" ELSE st[t]]
         /\ ran' = [t \in Tracked |->
                     IF t \in swept \ Waiters /\ st[t] = "RUNNING" /\ ~Due(t)
                     THEN ran[t] + 1
                     ELSE IF st[t] = "PAUSED" THEN ran[t] ELSE 0]

\* _current_node: the node last reached if it is still in the graph, else the first.
Current(n) == n = lastSeq \/ (lastSeq \notin nodes /\ \A k \in nodes : n <= k)

\* _is_blocking for the actions of node n and the edge after it, and
\* _instant_action_is_blocking, on the statuses ss.
Blocking(n, ss) ==
    \E t \in Holding :
        /\ ss[t] \in NonTerminal
        /\ \/ t \in Timers
           \/ t \in order.acts /\ Place[t] \in {n} \cup (edges \cap {n + 1})

-----------------------------------------------------------------------------
(* tick() *)

TickHibernating ==
    /\ hibernating
    /\ \/ UNCHANGED <<hibernating, wakeSet>>
       \/ wakeSet /\ hibernating' = FALSE /\ wakeSet' = FALSE
    /\ UNCHANGED <<routeVars, actionVars, paused, shutdown, cancelId>>

\* Mutant of TickCancel: it comes after the early returns of a robot that is paused or not
\* in AUTOMATIC mode.
TickCancelUnlessSuspended ==
    /\ ~hibernating /\ ~paused /\ fault["service"] = 0
    /\ cancelId # NoCancel
    /\ ClearActiveOrder(IF st[cancelId] = "RUNNING" THEN [st EXCEPT ![cancelId] = "FINISHED"] ELSE st)
    /\ cancelId' = NoCancel
    /\ UNCHANGED modeVars

\* _finish_cancel
TickCancel ==
    /\ ~hibernating
    /\ cancelId # NoCancel
    /\ ClearActiveOrder(IF st[cancelId] = "RUNNING" THEN [st EXCEPT ![cancelId] = "FINISHED"] ELSE st)
    /\ cancelId' = NoCancel
    /\ UNCHANGED modeVars

\* Paused or not in AUTOMATIC mode: nothing advances, and driving keeps its value.
TickSuspended ==
    /\ ~hibernating
    /\ cancelId = NoCancel
    /\ paused \/ fault["service"] > 0
    /\ UNCHANGED <<routeVars, actionVars, modeVars, cancelId>>

NoRoute ==
    /\ nodes = {}
    /\ driving' = FALSE
    /\ req' = Expired
    /\ UNCHANGED <<nodes, edges, lastSeq, gone, newBase>>

\* A blocking action, a protective field or an emergency stop holds the robot at n.
Held(n) == Blocking(n, st') \/ fault["field"] > 0 \/ fault["estop"] > 0

Hold ==
    /\ driving' = FALSE
    /\ req' = Expired
    /\ UNCHANGED <<nodes, edges, lastSeq, gone, newBase>>

\* _maybe_request_new_base
BaseIsShort == newBase \/ Cardinality(nodes \cap order.base) <= Horizon

FinishRoute(n) ==
    /\ n + 1 \notin edges
    /\ driving' = FALSE
    /\ newBase' = BaseIsShort
    /\ lastSeq' = n
    /\ nodes' = nodes \ {n}
    /\ req' = Expired
    /\ UNCHANGED <<edges, gone>>

\* Mutant of BaseAhead: it looks one node too far.
BaseAheadByTwo(n) ==
    /\ n + 1 \in order.base
    /\ n + 2 \in nodes /\ n + 4 \in order.base

BaseAhead(n) ==
    /\ n + 1 \in order.base
    /\ n + 2 \in nodes /\ n + 2 \in order.base

AwaitBase(n) ==
    /\ n + 1 \in edges
    /\ ~BaseAhead(n)
    /\ driving' = FALSE
    /\ newBase' = TRUE
    /\ req' = Expired
    /\ UNCHANGED <<nodes, edges, lastSeq, gone>>

\* _check_access_gates: the corridor of edge e needs a grant, and the first
\* look at it creates the request.
Gated(e) == e \in order.corridors /\ Expired[e] # "GRANTED"

AwaitAccess(n) ==
    /\ n + 1 \in edges /\ BaseAhead(n) /\ Gated(n + 1)
    /\ driving' = FALSE
    /\ newBase' = BaseIsShort
    /\ req' = [Expired EXCEPT ![n + 1] = IF @ = "none" THEN "REQUESTED" ELSE @]
    /\ UNCHANGED <<nodes, edges, lastSeq, gone>>

\* _step_towards, while the node is further than one step away ...
EnRoute ==
    /\ gone + 1 < TravelTicks
    /\ gone' = gone + 1
    /\ driving' = TRUE
    /\ UNCHANGED <<nodes, edges, lastSeq>>

\* Mutant of ArriveFrom: the edge stays in the graph.
ArriveKeepingEdge(n) ==
    /\ gone' = 0
    /\ driving' = FALSE
    /\ lastSeq' = n + 2
    /\ nodes' = nodes \ {n}
    /\ UNCHANGED edges

\* ... and _arrive_at the node after edge n + 1: only that edge and node n leave
\* the graph.
ArriveFrom(n) ==
    /\ gone' = 0
    /\ driving' = FALSE
    /\ lastSeq' = n + 2
    /\ nodes' = nodes \ {n}
    /\ edges' = edges \ {n + 1}

Drive(n) ==
    /\ n + 1 \in edges /\ BaseAhead(n) /\ ~Gated(n + 1)
    /\ newBase' = BaseIsShort
    /\ req' = Expired
    /\ EnRoute \/ ArriveFrom(n)

TickOrder ==
    /\ ~hibernating
    /\ cancelId = NoCancel
    /\ ~paused /\ fault["service"] = 0
    /\ Sweep
    /\ \/ NoRoute
       \/ \E n \in nodes :
            /\ Current(n)
            /\ \/ Held(n) /\ Hold
               \/ ~Held(n) /\ (FinishRoute(n) \/ AwaitBase(n) \/ AwaitAccess(n) \/ Drive(n))
    /\ UNCHANGED <<order, modeVars, cancelId>>

Tick ==
    /\ Listening
    /\ ticked' = TRUE
    /\ TickHibernating \/ TickCancel \/ TickSuspended \/ TickOrder
    /\ UNCHANGED <<lease, fault, online>>

-----------------------------------------------------------------------------
(* maybe_inject_fault(), and the end of the movement loop's iteration *)

\* Each safety or mode fault runs off, or may strike when it is not on.
NextFaults ==
    {f \in [FaultKinds -> 0..FaultTicks] : \A k \in FaultKinds :
        IF fault[k] > 0 THEN f[k] = fault[k] - 1
        ELSE f[k] \in {0} \cup (IF k \in Injected THEN {FaultTicks} ELSE {})}

\* A running retriable action fails; RETRIABLE exists since 3.0.0 only.
FailAction(t) ==
    /\ "error" \in Injected
    /\ st[t] = "RUNNING"
    /\ st' = [st EXCEPT ![t] = IF Legacy THEN "FAILED" ELSE "RETRIABLE"]
    /\ ran' = [ran EXCEPT ![t] = 0]

InjectFault ==
    /\ online /\ ticked
    /\ fault' \in NextFaults
    /\ UNCHANGED actionVars \/ \E t \in Retriable : FailAction(t)
    /\ ticked' = FALSE
    /\ online' = ~shutdown
    /\ UNCHANGED <<routeVars, modeVars, lease, cancelId>>

-----------------------------------------------------------------------------
Next ==
    \/ HandleOrder
    \/ HandleInstantAction
    \/ \E e \in Seqs, grant \in {"GRANTED", "REVOKED", "same"}, withLease \in BOOLEAN :
         HandleResponse(e, grant, withLease)
    \/ \E e \in Seqs : LeaseRunsOut(e)
    \/ Tick
    \/ InjectFault

Spec == Init /\ [][Next]_vars

\* asyncio resumes the movement loop after every sleep.
Fairness == WF_vars(Tick) /\ WF_vars(InjectFault)

FairSpec == Spec /\ Fairness

-----------------------------------------------------------------------------
(* Safety *)

\* PAUSED is a status of actions of a paused robot only, so a resumed robot has
\* no action that neither tick nor stopPause would ever move on: no handler but
\* startPause makes one PAUSED, and none ends the pause without flipping it back.
PausedOnlyWhilePaused == \A t \in Tracked : st[t] = "PAUSED" => paused

\* A robot without an order holds nothing that the next one could take for its own: no
\* route, no corridor requests and so no grants, no newBaseRequest, and it does not report
\* driving.  What becomes of the actions is another matter: see CancelledWaiterFails.
QuietWithoutOrder ==
    order = NoOrder =>
        /\ nodes = {} /\ edges = {}
        /\ ~driving /\ ~newBase
        /\ \A e \in Seqs : req[e] = "none"

\* A hibernating robot has no order and does not drive, whatever it was doing
\* when startHibernation arrived and whatever arrives until it wakes.
HibernatingIsQuiet == hibernating => order = NoOrder /\ ~driving

\* Every action of the current order has an entry in actionStates, also those an
\* update brought: is_idle and the blocking check overlook an action without one.
OrderActionsHaveState == order # NoOrder => \A a \in order.acts : st[a] # "absent"

\* The step takes the robot over edge lastSeq' - 1 to the node lastSeq'.
Arrives ==
    /\ order # NoOrder /\ order' = order
    /\ lastSeq' # lastSeq /\ edges' # edges

\* The robot reaches a node only over a released edge that is still in its graph,
\* only if the node is released, and with a corridor's grant in force (lease not
\* past); never while paused, suspended, in a field violation or emergency stop.
MotionStep ==
    Arrives =>
        LET e == lastSeq' - 1
        IN /\ e \in edges /\ {e, e + 1} \subseteq order.base
           /\ e \in order.corridors => req[e] = "GRANTED" /\ lease[e] # "past"
           /\ ~paused /\ ~hibernating
           /\ \A k \in FaultKinds : fault[k] = 0
MotionIsPermitted == [][MotionStep]_vars

\* A node or edge leaves the remaining graph of an order that goes on only when
\* its HARD, SOFT and SINGLE actions have ended, through pauses, faults, retries
\* and skipped retries: tick() never departs while one still blocks.
DepartureStep ==
    order # NoOrder /\ order' = order =>
        \A a \in order.acts \cap Holding :
            Place[a] \in (nodes \cup edges) \ (nodes' \cup edges') => st'[a] \in Terminal
DepartsOnlyWhenDone == [][DepartureStep]_vars

\* agv.py: nodes and edges hold only the remaining, not yet consumed part of the graph.
\* True of stitched updates only: run agv_full_update shows a violation without them.
RemainingIsAhead == \A s \in nodes \cup edges : s >= lastSeq

\* Two nodes with nothing between them but edges, and no loose edges.
Connected(ns, es) ==
    /\ ns \cap es = {}
    /\ \A e \in es : {e - 1, e + 1} \subseteq ns
    /\ \A n, k \in ns : n < k => n + 1 \in es

\* Orders as VDA5050 wants them, which the robot does not check: a route is connected,
\* its first node is released, and an update begins no earlier than the base of the
\* messages before it ends.
StitchedUpdates ==
    /\ \A m \in OrderMsgs :
         /\ Connected(m.nodes, m.edges)
         /\ \A n \in m.nodes : (\A k \in m.nodes : n <= k) => n \in m.base
    /\ \A k, m \in OrderMsgs :
         k.id = m.id /\ k.upd < m.upd => \A b \in k.base, s \in m.nodes \cup m.edges : b <= s

\* An order that is fully released needs no other: a tick that works on it either finds
\* the robot held by an action, a fault or a corridor, or takes it further.  It never
\* waits for a base, whatever updates, cancels and consumed nodes came before.
AdvanceStep ==
    TickOrder /\ nodes # {} /\ order.base = order.nodes \cup order.edges =>
        \E n \in nodes :
            /\ Current(n)
            /\ \/ Held(n)
               \/ n + 1 \in edges /\ Gated(n + 1)
               \/ nodes' = nodes /\ gone' = gone + 1
               \/ nodes' = nodes \ {n} /\ lastSeq' \in {n, n + 2}
RouteAdvances == [][AdvanceStep]_vars

\* What fleet control relies on: module OrderContract, for this robot's order.
Contract == INSTANCE OrderContract WITH
    OrderIds <- {m.id : m \in OrderMsgs},
    NoId <- NoOrder,
    Named <- IF Legacy THEN {} ELSE TriggerIds,
    id <- IF order = NoOrder THEN NoOrder ELSE order.id,
    upd <- IF order = NoOrder THEN 0 ELSE order.upd,
    left <- driving \/ nodes # {} \/ edges # {},
    status <- [a \in Actions |-> st[a]]

\* The robot implements the contract: no order replaces unfinished work, an update
\* never restarts or loses an action, every action takes legal steps only.
ImplementsContract == Contract!Spec

\* What the robot's tasks rely on: module RobotModes.
Modes == INSTANCE RobotModes WITH ticking <- ticked \/ ~online

\* The robot implements the modes that module Runtime takes for granted: it is sent to
\* sleep, and agrees to shut down, only awake, wakes by itself only at the time it was
\* given, and ticks no more once it has agreed to shut down and that tick is over.
ImplementsModes == Modes!Spec

-----------------------------------------------------------------------------
(* Liveness, for FairSpec *)

\* A cancelOrder that was accepted is carried out (or overtaken by hibernation or
\* the end of the loop), also when pauses, faults and updates come in between.
CancelTakesEffect ==
    cancelId # NoCancel ~> order = NoOrder \/ hibernating \/ ~online

\* Nothing that only a message can bring about is missing: the order is fully
\* released, the robot is awake and not paused, no corridor is closed, and no
\* action waits for a trigger, a retry or a repeated instant action.
Unattended ==
    /\ order # NoOrder /\ order.base = order.nodes \cup order.edges
    /\ ~paused /\ ~hibernating /\ online
    /\ \A t \in Tracked : st[t] # "RETRIABLE" /\ (t \in Waiters \cup Timers => st[t] \notin NonTerminal)
    /\ \A e \in Seqs : req[e] \in {"none", "GRANTED"}

\* The faults leave the robot a tick now and then.  Several kinds could hold it for ever
\* in turns.
FaultsLetUp == []<>(~ticked /\ \A k \in FaultKinds : fault[k] = 0)

\* A robot that needs no more messages finishes its order, even if protective fields,
\* SERVICE mode and failing actions strike again and again: it ends idle and so accepts
\* the next order.
RouteCompletes == <>[]Unattended /\ FaultsLetUp => []<>IsIdle

\* On a robot that is left awake and unpaused an action does not stay RUNNING,
\* whether or not its node or edge is still in the graph; waiters excepted.
ActionsEnd ==
    <>[](~paused /\ ~hibernating /\ online) =>
        \A a \in Actions \ Waiters : st[a] = "RUNNING" ~> st[a] # "RUNNING"

-----------------------------------------------------------------------------
(* What the repository says of the robot and the code does not do; so is
   RemainingIsAhead above *)

\* tests/test_instant_actions.py: an accepted cancelOrder goes RUNNING->FINISHED on
\* the very next movement tick.
CancelFinishesOnNextTick ==
    [][cancelId # NoCancel /\ cancelId' = NoCancel => st'[cancelId] = "FINISHED"]_vars

\* tests/test_wait_for_trigger.py, and a comment in _advance_one: a waitForTrigger action
\* becomes FAILED if its order is cancelled while it waits.
CancelledWaiterFails ==
    [][cancelId # NoCancel /\ cancelId' = NoCancel =>
         \A a \in Waiters : st[a] = "RUNNING" => st'[a] = "FAILED"]_vars
=============================================================================
