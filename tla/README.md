# Verification of vda5050-sim

TLA+ models, model-checking runs and machine-checked proofs for the simulator of
mobile robots in `src/src/vda5050_sim` (paths below without a directory are files
of that package). The program plays the robots of a fleet that fleet control talks
to over the VDA 5050 protocol: it takes orders, instant actions, zone sets and
responses, moves robots along their routes, runs actions on timers, and publishes
state, connection, factsheet and visualization messages.

## 1. The system

### Components

| Component | State it keeps | Operations | Module |
|---|---|---|---|
| Order handling, `agv.py` 304-430 | `order_id`, `order_update_id`, remaining `nodes`/`edges`, `action_states`, `_action_registry` | `handle_order`, `_accept_order`, `_register_order_action`, `is_idle`, `_clear_active_order` | `Agv` |
| Instant actions, `agv.py` 432-692 | `instant_action_states`, `paused`, `hibernating`, `shutdown_requested`, `_cancel_requested_action_id` | `handle_instant_actions` and one branch per type | `Agv`, `Runtime` |
| Action machine, `agv.py` 1041-1118 | status and start time of every action | `_advance_one`, `_finish_action`, `_advance_all_pending`, `_is_blocking` | `Agv`, `Store` |
| Movement engine, `agv.py` 1120-1307 | `last_node_sequence_id`, `driving`, `new_base_request` | `tick`, `_arrive_at` | `Agv`, `Zones` |
| Movement geometry, `agv.py` 85-103, 1131-1188 | `x`, `y`, `theta` | `_step_towards`, `_resolve_edge_orientation`, `_angle_diff`, `_point_in_polygon` | `Motion` |
| Corridor access and leases, `agv.py` 854-920 | `edge_requests`, `_request_lease_expiry` | `_check_access_gates`, `_apply_response`, `_check_lease_expiry` | `Agv` |
| Fault injection, `agv.py` 1309-1386 | field violation, SERVICE mode, emergency stop and their timers | `maybe_inject_fault` | `Agv` |
| Maps and zone sets, `agv.py` 694-767, 783-852 | `_maps`, `_zone_sets`, `_zone_set_status`, `map_id` | download, enable, delete; `handle_zone_set` | `Store` |
| Zones, `agv.py` 922-1039 | `zone_requests`, `_zone_occupancy`, registered zone actions | gates, `_update_zone_actions` | `Zones` |
| Robot runtime, `fleet.py` | four asyncio tasks, `online`, `factsheet_requested`, `state_request_event` | the loops, `start`, `stop`, `_do_shutdown` | `Runtime` |
| Fleet, `fleet.py`, `main.py` | the runtimes | `start`, `stop`, `snapshot` | `Runtime` (one robot) |
| Transport, `transport.py` | broker client with its will, subscriptions | `connect`, `publish`, `subscribe`, `close`, `_listen` | `Runtime` |
| Legacy versions, `legacy_shapes.py` | none | renaming of fields | constant `Legacy` of `Agv` |
| Action catalog, `action_catalog.py` | none | scopes and capabilities | constants of `Agv`, `InstantOnly` of `Store` |
| Schemas, validation, configuration, HTTP and debug routes, log buffer | tables, types, settings | | not modelled (section 7) |

### How they interact

Everything runs in one asyncio event loop. A robot is an object that four tasks
and the message callbacks of its topics share: the movement loop calls `tick()` and
`maybe_inject_fault()` every 0.2 s, the connection loop publishes heartbeats, the
state loop publishes state and factsheets, the visualization loop publishes poses;
callbacks parse a message and call one handler. None of the methods of
`SimulatedAgv` awaits, so each is atomic, and what can interleave is whole methods;
the tasks do await (sleeps, timeouts, acknowledgements of published messages), and
between two awaits anything else may run. Robots share nothing but a NATS
connection. On MQTT every robot has a client of its own, with a last will, and the
client never reconnects: once the connection is lost `publish` raises, which ends
the task that called it for good, and no message comes in any more. The NATS client
reconnects by itself.

### What is hard here

- Messages arrive at any point between two ticks: a pause between an accepted
  cancel and the tick that carries it out, an update while an edge is being driven,
  a revocation or the end of a lease in the middle of a corridor.
- What is checked when a message is received takes effect ticks later: downloads,
  enables and deletes of maps and zone sets, cancel, shutdown, hibernation.
- Actions outlive their node or edge, their order's graph, and sometimes their
  order; pause, failure, retry and triggers move them between seven statuses.
- The tasks read the robot before an await and write after it: the event that wakes
  the state loop, the factsheet flag, the announcement of hibernation, stop().
- Identifiers are reused: requestIds across orders, zoneIds across zone sets,
  actionIds across orders.
- A connection is lost, or the process killed, between any two awaits, also in the
  middle of `stop()`; the broker speaks for the robot then; a new process takes over
  the session and the topic of the old one.
- A turn or a drive is given up half way, by a cancel, a new position or a fault, and
  the next leg starts from wherever that left the robot; `theta` is never brought back
  into one circle; a point on a vertex or at the height of one is a special case of
  the polygon test.

`PROJECT.json` lists these hazards one by one with the line where each bites and
the property that would catch it.

### What makes each component correct

- Orders: unfinished work is never replaced; an update neither loses nor restarts an
  action; nothing of an order is left after a cancel; the robot works a released
  route to its end and becomes idle.
- Actions: legal status changes only; a blocking action is never left behind
  unfinished; nothing stays RUNNING, or PAUSED on a robot that is not paused.
- Movement: only over released edges, with grants in force, no pause, no fault;
  facing the way the edge asks for, no faster than the zone allows, to the end of
  every leg.
- Maps and zone sets: one ENABLED version per map; statuses only for stored sets;
  an accepted download does not undo what came later.
- Zones: no closed zone is entered, exit actions follow entry actions.
- Runtime: the connection topic tells what the robot does; requests are answered;
  a stopped robot is silent and OFFLINE, a lost one CONNECTION_BROKEN.

## 2. Modules

```
OrderContract    <-- refined by --  Agv      <- MCAgv     AgvProofs    <- AgvRouteProofs
RobotModes       <-- refined by --  Agv
                 <-- used by -----  Runtime
ConnectionTopic  <-- refined by --  Runtime               RuntimeProofs
                                    Store    <- MCStore   StoreProofs  <- StoreOrderProofs
                                    Zones    <- MCZones   ZonesProofs
                                    Motion   <- MCMotion  MotionProofs
```

Every module states its abstractions in its head comment. `PROJECT.json` "map"
gives the source lines of every definition.

**`Agv`** is one robot in the hands of fleet control: order, instant-action and
response handlers, `tick()` split into its exits (hibernating, cancel, suspended,
order) and `maybe_inject_fault()`. `st` and `ran` are the status and timer of every
action, whichever of the code's lists it is in; `nodes`/`edges` hold the remaining
sequenceIds; `gone` is the number of ticks driven towards the next node, which
stands for the pose. `ticked` keeps the two calls of one loop iteration together:
no handler runs between them. A control action (startPause, retry, ...) is one step
and leaves no entry, since nothing reads the entry again.

**`OrderContract`** is what fleet control may rely on: the changes of order id,
update id and action statuses that a sequence of states can show. `Agv!Contract`
instantiates it with a refinement mapping (an order's id and update, whether the
robot is driving or has graph left, the statuses of order actions).

**`Runtime`** cuts the movement, connection and state loops and `stop()` at their
awaits; a task variable names the await it is in. The robot is reduced to the
attributes the loops read (`hibernating`, `wakeSet`, `shutdown`), which change as
`RobotModes` has it. `link` is the
session with the broker. `Lose` breaks it at any point and takes down the tasks that
await an acknowledgement; the others find out when they publish next. `AckTimesOut` is
an acknowledgement that does not come in time on a session that lives: the loop that
waited for it is gone for good. `LastWill` is the broker's part. `Kill` ends the process at any point and `Restart` starts it
again; `StopAborts` is `Fleet.stop()` ending at a client whose `close()` raises, of
this robot or another. The constant `Mqtt` tells the two transports apart: on NATS
there is no will, and the client rides out a lost connection. `askedState` and
`askedFactsheet` are history variables: a request since the last state or factsheet
was built.

**`RobotModes`** is where `Agv` and `Runtime` meet: how a robot falls asleep, wakes up
and agrees to shut down, whether a message or a tick makes it do so, and that the
movement loop does not go on after the tick that follows its agreement. `Runtime` takes
these steps from it (`Robot`), and `Agv` is shown to take no other (`Modes`). Nothing
runs between `tick()` and the end of the loop's iteration, so `Runtime` never sees
`ticking`; the last tick before a shutdown may still wake the robot (`GoOffline`).

**`ConnectionTopic`** is what fleet control may rely on when it reads the connection
topic: which connectionState may follow which, that OFFLINE is said only by a robot
that is leaving, that the broker alone speaks for a lost one, and that nobody else
speaks after the heartbeats have ended. `Runtime!Topic` instantiates it.

**`Store`** has the map and zone set actions with their timers. One tick of the
code, `_advance_all_pending`, is `Sweep` followed by one `AdvanceOne` per
unfinished action; `todo` is what is left of it, and nothing else runs while it is
not empty, so a tick stays atomic and the order of actions within it is kept.
`ArriveOnMap` is the end of a tick at a node of another map.

**`Zones`** puts the robot on a line of places with zones. `Tick` updates the zone
actions, ends expired grants, and stays, waits at a gate or drives a place; the
zone of the next node is looked up on the robot's own map, as in the code, and a
request is keyed by the zoneId and the zone set that `_zone_set_id_for` finds.

**`Motion`** is what `Agv` counts as one tick of driving: `Rotate`, `Drive` and
`Arrive` are the three ways through `_step_towards`; `Abandon` and
`InitializePosition` leave the robot somewhere on the way. The robot is on a straight
lane, so that distances are whole numbers, and angles are integers with `2 * Half`
to a circle, which are not normalised, as in the code. `PointInPolygon` is the code's
ray casting with the division multiplied out; the two zones are the halves of a
quadrilateral of any shape. The definitions at the end of the module,
`InsideTriangle` and `Same`, do not come from the code: they are the references it is
compared with.

## 3. Runs

| Run | Configuration | Result |
|---|---|---|
| `agv_safety` | two orders, a stitched update, a corridor with leases, a timer action, field violations, SERVICE mode, emergency stops, failing actions, triggers with and without an actionId | type invariant, 5 invariants, 3 action properties, the contract and the modes hold (1 468 256 states) |
| `agv_live` | the same orders, no timer action, field violations, SERVICE mode and failing actions, fair movement loop | 3 liveness properties hold (195 068 states) |
| `runtime` | MQTT with connection drops, lost connections, timed-out acknowledgements, kills and restarts, fair tasks | 2 invariants, 1 action property, the topic's protocol, 5 liveness properties hold (27 272 states) |
| `motion` | twelve quadrilaterals, two lanes, five positions, legs of six kinds, fair ticks | 3 invariants, 4 action properties, 1 liveness property hold (30 201 states) |
| `store` | three map versions on two maps, two zone sets, an order update with enables, a retriable action, a trigger | 3 invariants and 3 action properties hold (3.9 million states) |
| `zones` | four places, two maps, five zones in three sets, each zoneId used once | 2 invariants and 1 action property hold (308 480 states) |
| `agv_cancel`, `agv_full_update`, `agv_cancelled_waiter`, `runtime_offline`, `store_kept`, `zones_shared` | one property each | violated, see section 6 |

What the properties mean is said where they are defined, at the end of each module.
In short:

- `Agv`: `PausedOnlyWhilePaused`, `QuietWithoutOrder`, `HibernatingIsQuiet`,
  `OrderActionsHaveState` are invariants over every interleaving of pauses, faults,
  hibernation, retries and updates. `MotionIsPermitted` and `DepartsOnlyWhenDone`
  say what no step of the robot does. `RemainingIsAhead` and `RouteAdvances` are about
  orders as VDA 5050 wants them (`StitchedUpdates`): nothing behind the robot is left in
  its graph, and a tick on a fully released order takes it further unless an action, a
  fault or a corridor holds it. `ImplementsContract` and `ImplementsModes` are the
  refinements. `CancelTakesEffect`, `ActionsEnd` and
  `RouteCompletes` say what must happen in the end.
- `Runtime`: `BrokenIsNotOnline`, `SilentOnceTornDown`, `ImplementsTopic`,
  `HibernationAnnounced`, `WakingAnnounced`, `StateRequestAnswered`,
  `FactsheetAnswered`, and `LossReported`: whatever a robot said last, when it is gone
  without a close the topic ends up, and stays, as CONNECTION_BROKEN.
- `Store`: `OneVersionEnabled`, `StatusOfStored`, `OverlapOnlyByPush`,
  `EnabledUntilReplaced`, `EnableFollowsDownload`.
- `Zones`: `EntryIsPermitted`, `ExitAfterEntry`.
- `Motion`: `EntersAligned` and `TurnsToTheEnd` relate every tick to the half-done
  turns before it; `SlowInZone`, `AgreesWithHalfPlanes` and `HalvesMakeTheWhole`
  compare the zones with their geometry; `LegShortens` says that what is left to drive and
  to turn shrinks with every tick of a leg; `LegEnds` is liveness.

Deadlock is not checked: a robot that has been shut down, or an idle one that gets
no message, really stops.

### Bounds, and why they are enough

- `Agv` needs no state constraint: orders come from a set of three messages that may
  be sent in any order and any number of times. Two edges are the smallest route with
  a released and an unreleased part, an update and a node in between. `Duration = 1`
  separates the tick that starts an action from the one that ends it, `TravelTicks =
  2` puts the robot between two nodes for a tick, `FaultTicks = 1` lets a fault end
  and strike again. `Legacy` is `FALSE` in the runs; the theorems hold for both.
- `Store`: `Budget = 3` instant actions in all and `Backlog = 2` unfinished ones at
  a time, next to the order's actions, pushes, retries and triggers, which are not
  bounded. Three are enough for download, download again and enable, or download,
  enable and delete of one target; every pair of actions meets in one tick.
- `Zones` has no bound but its constants; the zones put an access gate, a blocked
  zone, one-way traffic and an action zone around the same nodes, and the last place
  is on another map.
- `Runtime` is finite as it is.
- `Motion`: with `Half = 8`, `Turn = 3` and `Tolerance = 1` a turn takes up to three
  ticks, the last one shorter, and may end inside the tolerance; half a turn and both
  ways round occur. `Speed = 3` on a lane with nodes at 0, 2 and 4 gives whole and
  partial steps and positions off the nodes. Lane 2 goes through vertices of the
  quadrilaterals, lane 1 between them; they are convex, concave and self-crossing,
  clockwise and not, with three vertices in line. `ThetaBound = 8` bounds the angle at
  which a leg or position is set, and the turn that has no end (section 6); within a
  leg angles go beyond it.

### Fairness

`FairSpec` of `Agv` is weak fairness of `Tick` and `InjectFault`: asyncio resumes
the movement loop after every `sleep`, and both calls are always enabled while the
loop lives. Messages are never assumed to come. `FairSpec` of `Runtime` is weak
fairness of each task's next step, since asyncio resumes a task after its sleep, its
timeout, its acknowledgement or with an exception, and of `LastWill`, since the broker
notices a dead client by its keep-alive time. Nothing is assumed to break, to be
killed or to be started again; the liveness properties of a robot that is up say so in
their premise (`Up`), and that the loop which has to act has not been ended by a publish
that raised (`Beating`, `Reporting`). `RouteCompletes` assumes `FaultsLetUp`: the robot
is again and again without a fault between two ticks. Each kind of fault ends by
itself, but two kinds could hold the robot for ever in turns, as TLC finds without the
premise; `CancelTakesEffect` and `ActionsEnd` need no such premise. `FairSpec` of `Motion` is weak fairness of `Tick`: nothing holds
the robot for ever. `LegEnds` excludes positions that are set again and again.

## 4. Proofs

`tlapm` checks every step of `AgvProofs`, `AgvRouteProofs`, `RuntimeProofs`,
`StoreProofs`, `StoreOrderProofs`, `ZonesProofs` and `MotionProofs`. The theorems hold
for all values of the constants that meet the named assumptions of the modules (which
TLC evaluates on the instances).

| Module | Theorems | Argument |
|---|---|---|
| `AgvProofs` | `TypeCorrect`, `QuietWithoutOrderAlways`, `HibernatingIsQuietAlways`, `PausedOnlyWhilePausedAlways`, `OrderActionsHaveStateAlways` | `Inv`, the conjunction of the five and of `NoActionsWithoutOrder` (no action of an order that is gone has a status), is inductive: one lemma per part, with one step per action. The types are needed throughout, for without them a write to the status or request of an action or edge says nothing of the others. |
| | `MotionIsPermittedAlways`, `DepartsOnlyWhenDoneAlways` | action properties, from `Inv` and the exits of `TickOrder` |
| | `RobotImplementsContract` | refinement of `OrderContract`, from `Inv`. A trigger that names an actionId finishes that action whatever its status, so the contract knows which actions fleet control may name (`Named`; none below 3.0.0) |
| | `RobotImplementsModes` | refinement of `RobotModes`, from the types: of all handlers only those of hibernation and shutdown touch the modes (`InstantModes`), and of all ticks only that of a hibernating robot |
| `AgvRouteProofs` | `RemainingIsAheadIfStitched`, `RouteAdvancesIfStitched` | for `StitchedUpdates`, any number and length of orders. `RouteInv` is inductive next to `Inv`: the remaining graph is connected and ahead of the robot, its first node is released, and whatever update may still come begins beyond the base the robot knows (`UpdatesAhead`). The first remaining node is then the current one, and all that can be missing at it is a released edge and node |
| `RuntimeProofs` | `TypeCorrect`, `BrokenIsNotOnlineAlways`, `SilentOnceTornDownAlways` | `Inv` adds that the robot is not online before its first ONLINE, and that the connection loop is dead once the tasks are cancelled |
| | `RuntimeImplementsTopic` | refinement of `ConnectionTopic`, on both transports. `SaidInv` ties the topic's last word to where the connection loop is and to its `was_hibernating`; one step lemma per group of actions |
| | `WillIsLastWord` | the safety core of `LossReported`, an invariant of `ConnectionTopic` carried over by the refinement |
| `StoreProofs` | `TypeCorrect`, `OneVersionEnabledAlways`, `StatusOfStoredAlways`, `OverlapOnlyByPushAlways` | each part of `Inv` is inductive next to the types; `StoreStep` reduces a step to an effect, a push or an arrival |
| | `PushedSetIsKeptIfOneWay` | for `OneWayOfDelivery`, no pushed set is also downloaded: only what was pushed has a geometry (`GeometryIsPushed`), and only a download that names it takes that away from a set that stays (`GeometryKept`) |
| `StoreOrderProofs` | `EnabledUntilReplacedAlways` | `StoredInv`: a stored map was brought by a download that has FINISHED, so one that overwrites it is a second one. Rests on `ScopesAssumption`: downloads and deletes are instant actions (`action_catalog.py`) |
| | `EnableFollowsDownloadAlways` | `SweepInv`: every instant action is in one place of the lists (`ListsInv`), a running timer is not up (`TimersInv`), and of two actions the timer of the one received first is not behind, and a tick ahead when only it has been visited (`OrderInv`). An enable whose time is up therefore finds no download before it under way. `DownloadedInv` says what became of one that ended |
| `ZonesProofs` | `TypeCorrect` | a step towards a node of the line stays on the line |
| | `EntryIsPermittedAlways` | for `UniqueIds`: the first stored set that has a zoneId is then the zone's own (`KeyOfZone`, with the least element of a set of naturals), so the grant that is looked at is the zone's |
| | `ExitAfterEntryAlways` | for `UniqueIds` and `DistinctActions`; `EnteredInv` strengthens it: every zone that counts as entered has its entry actions registered |
| `MotionProofs` | `TypeCorrect`, `SlowInZoneAlways` | by actions, the latter from `AgreesWithHalfPlanesAlways` |
| | `EntersAlignedAlways`, `TurnsToTheEndAlways` | lemmas on `%` (`ModShift`, `TurnedBySame`, `TurnedByPart`): what is left of a turn after a part of it is the rest of it |
| | `LegShortensAlways` | the same lemmas: a tick turns by some of what is left to turn (`RotateShortens`), or drives some of what is left to drive and has no turn left then (`DriveShortens`). `Left` is a natural number, so this is the induction that `LegEnds` needs |
| | `HalvesMakeTheWholeAlways` | whether a ray crosses an edge does not depend on its direction (`CrossesReverse`), so the crossings of both halves with the diagonal cancel out: a point is in the whole exactly when it is in exactly one half. This is a parity, and where the diagonal runs outside the whole (concave and crossing outlines) there are points in both halves and not in the whole |
| | `HalvesAreDisjoint` | where the diagonal has a vertex on either side, as in every convex outline, no point off the borders is in both halves: the sides a point sees of a triangle add up to its orientation (`SumOfSides`), and the two orientations would be the same. No run checks it |
| | `AgreesWithHalfPlanesAlways` | crossing an edge is a matter of the side the point is on (`CrossesBySide`). Either no edge reaches across the ray, or one vertex is alone on its side of it, and its two edges decide; `Balance`, an identity of the three sides, gives the third |

The premises of the conditional theorems are about what fleet control sends, which the
robot does not check, and each is needed: run `zones_shared` shows a violation without
`UniqueIds`, `agv_full_update` without `StitchedUpdates`, `store_kept` without
`OneWayOfDelivery`. The theorems say that nothing else is needed. The orders of
`agv_safety` meet `StitchedUpdates`, which VDA 5050 asks of every update.

Model-checked only: every liveness property, since the prover does not handle
fairness (`CancelTakesEffect`, `ActionsEnd`, `RouteCompletes`,
`HibernationAnnounced`, `WakingAnnounced`, `StateRequestAnswered`,
`FactsheetAnswered`, `LossReported`, `LegEnds`). Every invariant and action property
of the passing runs is proved. What is proved of three of the liveness properties is their
safety core: `RouteAdvances` of `RouteCompletes`, `LegShortens` of `LegEnds`,
`WillIsLastWord` of `LossReported`; that the steps they speak of are taken is fairness.

## 5. What each mutant shows

Next to the definitions that matter most there is a "Mutant of ..." with a bug one
could plausibly make there: an action that waits for its retry no longer blocks,
stopPause forgets the PAUSED entries, a cancel comes after the early return of a
paused robot, the factsheet flag is reset after the publish, the will is not
retained, an edge of a polygon owns both its ends. `PROJECT.json` "mutants" says
which property each one breaks.

## 6. Where code and documents disagree

- `agv_cancel`: a `startPause` between an accepted `cancelOrder` and the next tick
  leaves the entry of the cancel PAUSED, then RUNNING, for good
  (`_finish_cancel`, `agv.py:684`); a test's docstring promises FINISHED on the next
  tick.
- `agv_full_update`: an update with the full route brings consumed nodes back
  (`agv.py:389`); they stay, and the robot is never idle again.
- `agv_cancelled_waiter`: a `waitForTrigger` action that is RUNNING when its order is
  cancelled is dropped from `actionStates` (`_clear_active_order`, `agv.py:671`) and
  never FAILED, as a comment (`agv.py:1076`) and `tests/test_wait_for_trigger.py:3` say.
- `runtime_offline`: `stop()` publishes OFFLINE before it cancels the connection
  loop, which may publish ONLINE after it (`fleet.py:136`).
- `store_kept`: a zone set pushed while a download of the same id is under way is
  replaced by the download's empty placeholder (`agv.py:746`).
- `zones_shared`: `_zone_set_id_for` (`agv.py:969`) takes the first stored set with
  the zoneId, on any map, so a request may name the wrong set and its grant opens
  the wrong zone.

Also seen, and not checked by a run:

- A `stateRequest` that arrives while a state is being published does not wake the
  loop (`fleet.py:239`, against the comment below it); it is still answered with the
  next interval (`StateRequestAnswered`).
- All actions of an order start with the first tick after it was accepted
  (`agv.py:1081`), not when their node or edge is reached, as the description of WAITING
  has it (`state.schema.json:700`).
- A pushed zone set is ENABLED without disabling the others of its map (`agv.py:851`),
  while `state.schema.json:272` allows one per map; `OverlapOnlyByPush` shows that
  nothing else does this.
- On MQTT a publish whose acknowledgement does not come in time ends the loop that
  called it for good, although the session goes on: a robot without heartbeats, or
  without states, that the broker does not announce as lost.
- Zone actions run on the first visit only, because `_action_registry` is never
  emptied; one the robot rejects is not registered and adds a FAILED entry with every
  visit.
- A next node on another map is tested against no zone of that map.
- `theta` is never normalised, while `state.schema.json:496` gives it the range of one
  circle; the docstring of `_angle_diff` promises (-pi, pi], the code gives [-pi, pi).
- A TANGENTIAL orientation with `reachOrientationBeforeEntering` on a leg of no length
  is relative to the robot's own heading: the robot turns for ever (`Spins`, which
  `LegEnds` excepts).
- A cancelOrder that is pending when startHibernation drops the order stays pending
  (`_clear_active_order`, `agv.py:666`, does not reset it): once awake the robot cancels
  the order it accepts before its next tick.
- A second cancelOrder before the next tick takes the place of the first (`agv.py:518`),
  whose entry stays RUNNING for good.
- `initializePosition` sets x and y before it fails on a theta it cannot parse
  (`agv.py:799`).
- On MQTT `online` keeps its value when the connection is lost, since the loop that
  sets it has ended (`BrokenIsNotOnline` speaks of a live session). The debug route's
  `force_connection_state` leaves `online` FALSE while the heartbeats go on saying
  ONLINE (`fleet.py:191`).
- When `close()` of one client raises, `Fleet.stop()` leaves the rest unclosed, and
  the broker announces robots that have said OFFLINE as CONNECTION_BROKEN.

## 7. What is not modelled

- Geometry off a straight lane, and rounding: `Motion` has integer positions on a
  lane, `Agv` ticks instead of poses, `Zones` places on a line. A leg of an oblique
  direction differs in the heading only. A speed limit of zero, which stops the robot
  for good (`agv.py:1148-1158`), is excluded: limits are at least 1. Trajectories are not followed by the program either.
- Loads, battery, charging, certificates: effects that no other part reads, except
  that an effect may fail (`MayFail` of `Agv`).
- After `_do_shutdown` publishes OFFLINE the handlers still run until the topics are
  unsubscribed: `Runtime` has that window, `Agv` ends with the loop.
- The wire: NATS, MQTT and HTTP formats, legacy field names, message validation, the
  table of handlers per topic; a message that cannot be parsed is logged and dropped.
  These have no protocol state of their own. What a broker does with a retained message
  or a session is modelled as far as the topic's last message shows it.
- The visualization loop, which only publishes: it ends with a lost connection as the
  others do.
- HTTP and debug routes, log buffer, configuration, robot specifications: reads,
  tables, and debug-only shortcuts into the faults that `Agv` has anyway.
- Times without a time zone: a `leaseExpiry` (`agv.py:895`) or `wakeUpTime`
  (`agv.py:1217`) of that form raises a `TypeError` that nothing catches and ends the
  movement loop. `Agv` and `Runtime` take times with a zone, or such that do not parse.
- Protocol versions below 3.0.0 in `Store`: there `FailAction` would make an action FAILED
  where it makes it RETRIABLE. `Agv` has both (`Legacy`).
- The size of the NATS client's buffer: what is published while the connection is down is
  taken to fit.
- Zone actions a robot rejects, `clearZoneActions`.

## 8. Plan

Done: the five components above, with their proofs; the contract, the modes and the topic
that they refine; faults of connection and process; the pure algorithms of movement.

1. *Extend.* `Agv` with loads (pick and drop, whose effect may fail on the load's
   presence) and zone actions, so that `clearZoneActions` and the interplay of three
   action lists are covered.
2. *Compose.* One abstract request, from its first mention to its end, that the corridors
   of `Agv` and the zones of `Zones` both refine: the gates share requests and leases.
3. *Prove.* That a drive over an edge in `Agv` is a number of ticks of `Motion`; the
   safety cores of the remaining liveness properties.
