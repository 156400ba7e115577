------------------------------ MODULE Runtime ------------------------------
(***************************************************************************)
(* The tasks that run one robot and its session with the broker: class     *)
(* RobotRuntime of src/vda5050_sim/fleet.py, Fleet.stop() as one robot     *)
(* sees it, and the robot's Transport (transport.py).                      *)
(*                                                                         *)
(* Three asyncio tasks share the robot with the message handlers: the      *)
(* movement, connection and state loops.  A step of this module runs a     *)
(* task from one await to the next; a task is named by where it awaits.    *)
(* Two awaits in a row between which the task reads and writes nothing     *)
(* shared are one.  The visualization loop only publishes and is left out. *)
(*                                                                         *)
(* A published message is handed to the broker client when publish() is    *)
(* called, before it awaits the acknowledgement, so messages of one topic  *)
(* arrive in the order of the calls.  An MQTT client that has lost its     *)
(* connection never gets it back: publish() raises, which ends the loop    *)
(* that called it, and no message comes in.  It also raises when a message *)
(* is not acknowledged in time.  A message on its way when the             *)
(* connection breaks is one that was published a moment later.  The NATS   *)
(* client reconnects without end and keeps what is published meanwhile, so *)
(* there the loss of a connection is not seen.  The process may be killed  *)
(* and started again at any time.  Of the robot the tasks read its modes   *)
(* only, which are those of module RobotModes; module Agv implements it.   *)
(* The debug route that forces a connection state is left out.             *)
(***************************************************************************)
CONSTANTS
    Drops,          \* connection_drop_probability is not zero
    Mqtt            \* the transport: MQTT with a last will, else NATS

ConnectionStates == {"ONLINE", "OFFLINE", "HIBERNATING", "CONNECTION_BROKEN"}

ASSUME RuntimeAssumption == Drops \in BOOLEAN /\ Mqtt \in BOOLEAN

VARIABLES
    hibernating, wakeSet, shutdown, \* attributes of the SimulatedAgv
    factsheet,      \* factsheet_requested
    event,          \* state_request_event is set
    conn, was,      \* _connection_loop and its was_hibernating
    online,         \* what GET /fleet says of the robot
    move,           \* _movement_loop
    state,          \* _state_loop
    stop,           \* RobotRuntime.stop()
    subscribed,     \* messages reach the handlers
    link,           \* the client's session: up, lost, ended by the broker, closed
    last,           \* the last connectionState published ("none": none yet)
    askedState,     \* a stateRequest came in after the last state was built
    askedFactsheet  \* a factsheet is due since the last one was built

robotVars == <<hibernating, wakeSet, shutdown>>
connVars == <<conn, was, online>>
stateVars == <<state, event, factsheet, askedState, askedFactsheet>>
lifeVars == <<move, stop, subscribed>>
vars == <<robotVars, connVars, stateVars, lifeVars, link, last>>

\* The process is gone: after Fleet.stop(), or in the middle of it, or killed.
Ended == {"closed", "aborted", "killed"}

FlagTypeOK ==
    /\ hibernating \in BOOLEAN /\ wakeSet \in BOOLEAN /\ shutdown \in BOOLEAN
    /\ factsheet \in BOOLEAN /\ event \in BOOLEAN
    /\ askedState \in BOOLEAN /\ askedFactsheet \in BOOLEAN
    /\ was \in BOOLEAN /\ online \in BOOLEAN /\ subscribed \in BOOLEAN

ControlTypeOK ==
    /\ conn \in {"start", "settling", "sleeping", "dropped", "dead"}
    /\ move \in {"running", "offline", "unsubscribing", "done"}
    /\ state \in {"start", "asleep", "factsheet", "publishing", "waiting", "dead"}
    /\ stop \in {"no", "offline", "unsubscribing", "stopped"} \cup Ended
    /\ link \in {"up", "lost", "ended", "closed"}
    /\ last \in ConnectionStates \cup {"none"}

TypeOK == FlagTypeOK /\ ControlTypeOK

\* A new process, before its tasks have run.  Messages come in as soon as the
\* subscriptions are made.
Init ==
    /\ hibernating = FALSE /\ wakeSet = FALSE /\ shutdown = FALSE
    /\ factsheet = TRUE /\ askedFactsheet = TRUE
    /\ event = FALSE /\ askedState = FALSE
    /\ conn = "start" /\ was = FALSE /\ online = FALSE
    /\ move = "running" /\ state = "start" /\ stop = "no"
    /\ subscribed = TRUE
    /\ link = "up"
    /\ last = "none"

\* The robot.  No other task runs during an iteration of its movement loop, so none
\* finds it ticking.
Robot == INSTANCE RobotModes WITH ticking <- FALSE

-----------------------------------------------------------------------------
(* The connection loop *)

\* publish(), which raises and so ends the loop when the connection is lost.
Announce(s, next) ==
    \/ link = "up" /\ last' = s /\ conn' = next
    \/ link # "up" /\ conn' = "dead" /\ UNCHANGED last

\* It announces a broken connection first, and ONLINE 0.2 s later.
ConnStart ==
    /\ conn = "start"
    /\ Announce("CONNECTION_BROKEN", "settling")
    /\ UNCHANGED <<was, online>>

Settled ==
    /\ conn = "settling"
    /\ online' = TRUE /\ was' = FALSE
    /\ Announce("ONLINE", "sleeping")

HeartbeatAsleep ==
    /\ conn = "sleeping" /\ hibernating /\ ~was
    /\ Announce("HIBERNATING", "sleeping")
    /\ was' = TRUE
    /\ UNCHANGED online

\* Mutant of HeartbeatWoken: ONLINE is published and was_hibernating stays set.
HeartbeatWokenForgetful ==
    /\ conn = "sleeping" /\ ~hibernating /\ was
    /\ Announce("ONLINE", "sleeping")
    /\ UNCHANGED <<was, online>>

HeartbeatWoken ==
    /\ conn = "sleeping" /\ ~hibernating /\ was
    /\ Announce("ONLINE", "sleeping")
    /\ was' = FALSE
    /\ UNCHANGED online

HeartbeatAwake ==
    /\ conn = "sleeping" /\ ~hibernating /\ ~was
    /\ Announce("ONLINE", "sleeping")
    /\ UNCHANGED <<was, online>>

\* Mutant of Drop: the connection state in the spelling of VDA5050 before 3.0.
DropLegacySpelling ==
    /\ Drops
    /\ conn = "sleeping" /\ ~hibernating /\ ~was
    /\ online' = FALSE
    /\ Announce("CONNECTIONBROKEN", "dropped")
    /\ UNCHANGED was

\* Mutant of Drop: GET /fleet keeps calling the robot online.
DropUnnoticed ==
    /\ Drops
    /\ conn = "sleeping" /\ ~hibernating /\ ~was
    /\ Announce("CONNECTION_BROKEN", "dropped")
    /\ UNCHANGED <<was, online>>

\* Mutant of Drop: the faults are drawn before hibernation is looked at.
DropAsleep ==
    /\ Drops
    /\ conn = "sleeping"
    /\ online' = FALSE
    /\ Announce("CONNECTION_BROKEN", "dropped")
    /\ UNCHANGED was

\* A simulated drop, which the robot sleeps out for one more heartbeat.
Drop ==
    /\ Drops
    /\ conn = "sleeping" /\ ~hibernating /\ ~was
    /\ online' = FALSE
    /\ Announce("CONNECTION_BROKEN", "dropped")
    /\ UNCHANGED was

\* Mutant of Recover: the heartbeat of a robot that is not online yet is skipped.
RecoverOnlineOnly ==
    /\ conn = "dropped" /\ online
    /\ Announce("ONLINE", "sleeping")
    /\ UNCHANGED <<was, online>>

Recover ==
    /\ conn = "dropped"
    /\ online' = TRUE
    /\ Announce("ONLINE", "sleeping")
    /\ UNCHANGED was

ConnectionLoop ==
    /\ ConnStart \/ Settled \/ HeartbeatAsleep \/ HeartbeatWoken \/ HeartbeatAwake \/ Drop \/ Recover
    /\ UNCHANGED <<robotVars, stateVars, lifeVars, link>>

-----------------------------------------------------------------------------
(* The state loop *)

BuildState ==
    \/ link = "up" /\ state' = "publishing" /\ askedState' = FALSE
    \/ link # "up" /\ state' = "dead" /\ UNCHANGED askedState

PublishFactsheet ==
    /\ factsheet' = FALSE
    /\ \/ link = "up" /\ state' = "factsheet" /\ askedFactsheet' = FALSE
       \/ link # "up" /\ state' = "dead" /\ UNCHANGED askedFactsheet

\* The loop body up to its first await.
Round ==
    \/ hibernating /\ state' = "asleep" /\ UNCHANGED <<factsheet, askedState, askedFactsheet>>
    \/ ~hibernating /\ factsheet /\ PublishFactsheet /\ UNCHANGED askedState
    \/ ~hibernating /\ ~factsheet /\ BuildState /\ UNCHANGED <<factsheet, askedFactsheet>>

\* The loop creates the event when it starts.
StateStart == state = "start" /\ event' = FALSE /\ Round

StateAsleep == state = "asleep" /\ Round /\ UNCHANGED event

\* Mutant of FactsheetSent: factsheet_requested is reset after the publish.
FactsheetSentThenReset ==
    /\ state = "factsheet"
    /\ BuildState
    /\ factsheet' = FALSE
    /\ UNCHANGED <<event, askedFactsheet>>

\* Hibernation is not looked at again after the factsheet was published.
FactsheetSent ==
    /\ state = "factsheet"
    /\ BuildState
    /\ UNCHANGED <<event, factsheet, askedFactsheet>>

StateSent ==
    /\ state = "publishing"
    /\ event' = FALSE
    /\ state' = "waiting"
    /\ UNCHANGED <<factsheet, askedState, askedFactsheet>>

\* Mutant of StateWakes: the wait has no timeout.
StateWakesOnEventOnly == state = "waiting" /\ event /\ Round /\ UNCHANGED event

\* The wait ends when the event is set or after the publish interval.
StateWakes == state = "waiting" /\ Round /\ UNCHANGED event

StateLoop ==
    /\ StateStart \/ StateAsleep \/ FactsheetSent \/ StateSent \/ StateWakes
    /\ UNCHANGED <<robotVars, connVars, lifeVars, link, last>>

-----------------------------------------------------------------------------
(* The movement loop *)

\* The tick of a hibernating robot whose wakeUpTime has come.
AutoWake ==
    /\ move = "running" /\ ~shutdown
    /\ Robot!AlarmRings
    /\ UNCHANGED <<connVars, stateVars, lifeVars, link, last>>

\* The last connectionState; that it cannot be sent any more is suppressed.
SayOffline == last' = IF link = "up" THEN "OFFLINE" ELSE last

\* The last tick, which may still wake the robot, and the publish of _do_shutdown, ...
GoOffline ==
    /\ move = "running" /\ shutdown
    /\ Robot!AlarmRings \/ UNCHANGED robotVars
    /\ SayOffline
    /\ move' = "offline"
    /\ UNCHANGED <<connVars, stateVars, stop, subscribed, link>>

\* Mutant of CancelOthers: the connection loop is not among the cancelled tasks.
CancelStateLoopOnly ==
    /\ move = "offline"
    /\ move' = "unsubscribing"
    /\ state' = "dead"
    /\ UNCHANGED <<robotVars, connVars, event, factsheet, askedState, askedFactsheet,
                   stop, subscribed, link, last>>

\* ... which cancels the other tasks once the message is acknowledged, ...
CancelOthers ==
    /\ move = "offline"
    /\ move' = "unsubscribing"
    /\ conn' = "dead" /\ state' = "dead"
    /\ UNCHANGED <<robotVars, was, online, event, factsheet, askedState, askedFactsheet,
                   stop, subscribed, link, last>>

\* ... and unsubscribes, which raises on a lost connection and is not suppressed.
Unsubscribe ==
    /\ move = "unsubscribing"
    /\ move' = "done"
    /\ subscribed' = (subscribed /\ link # "up")
    /\ UNCHANGED <<robotVars, connVars, stateVars, stop, link, last>>

MovementLoop == AutoWake \/ GoOffline \/ CancelOthers \/ Unsubscribe

-----------------------------------------------------------------------------
(* stop(), and what Fleet.stop() does next *)

\* The application stops only after it has started, and then the tasks have run.
Stop ==
    /\ stop = "no"
    /\ conn # "start" /\ state # "start"
    /\ SayOffline
    /\ stop' = "offline"
    /\ UNCHANGED <<robotVars, connVars, stateVars, move, subscribed, link>>

StopCancels ==
    /\ stop = "offline"
    /\ stop' = "unsubscribing"
    /\ conn' = "dead" /\ state' = "dead" /\ move' = "done"
    /\ UNCHANGED <<robotVars, was, online, event, factsheet, askedState, askedFactsheet,
                   subscribed, link, last>>

StopUnsubscribes ==
    /\ stop = "unsubscribing"
    /\ stop' = "stopped"
    /\ subscribed' = FALSE
    /\ UNCHANGED <<robotVars, connVars, stateVars, move, link, last>>

\* Once all robots have stopped, Fleet.stop() closes the transports one by one.
StopCloses ==
    /\ stop = "stopped"
    /\ stop' = "closed"
    /\ link' = IF link = "up" THEN "closed" ELSE link
    /\ UNCHANGED <<robotVars, connVars, stateVars, move, subscribed, last>>

\* close() raises for an MQTT client that has lost its connection, of this robot or
\* of one whose turn came before: Fleet.stop() ends there, and the process with it,
\* leaving the rest of the clients unclosed.
StopAborts ==
    /\ Mqtt
    /\ stop = "stopped"
    /\ stop' = "aborted"
    /\ link' = IF link = "up" THEN "lost" ELSE link
    /\ UNCHANGED <<robotVars, connVars, stateVars, move, subscribed, last>>

StopRest == StopCancels \/ StopUnsubscribes \/ StopCloses \/ StopAborts

-----------------------------------------------------------------------------
(* Faults of the session and the process *)

\* The connection breaks.  A task that awaits an acknowledgement gets an exception;
\* of the connection loop it is open whether it awaits one or sleeps.
Lose ==
    /\ Mqtt
    /\ link = "up" /\ stop \notin Ended
    /\ link' = "lost"
    /\ conn' \in {conn} \cup (IF conn = "start" THEN {} ELSE {"dead"})
    /\ state' = IF state \in {"factsheet", "publishing"} THEN "dead" ELSE state
    /\ UNCHANGED <<robotVars, was, online, event, factsheet, askedState, askedFactsheet,
                   lifeVars, last>>

\* The broker takes a message and its acknowledgement does not come in time: publish()
\* raises, and the loop that called it ends although the session lives.  The OFFLINE of a
\* shutdown and of stop() goes on as if it were acknowledged.  unsubscribe() raises as well,
\* and the subscriptions left stay.
AckTimesOut ==
    /\ Mqtt
    /\ link = "up"
    /\ \/ /\ conn \in {"settling", "sleeping", "dropped"} /\ conn' = "dead"
          /\ UNCHANGED <<state, move>>
       \/ /\ state \in {"factsheet", "publishing"} /\ state' = "dead"
          /\ UNCHANGED <<conn, move>>
       \/ /\ move = "unsubscribing" /\ move' = "done"
          /\ UNCHANGED <<conn, state>>
    /\ UNCHANGED <<robotVars, was, online, event, factsheet, askedState, askedFactsheet,
                   stop, subscribed, link, last>>

\* Mutant of LastWill: the will is not retained.
LastWillNotRetained ==
    /\ link = "lost"
    /\ link' = "ended"
    /\ UNCHANGED <<robotVars, connVars, stateVars, lifeVars, last>>

\* The broker publishes the will of a client it has lost.  Nothing but close()
\* withdraws the will, OFFLINE does not.
LastWill ==
    /\ link = "lost"
    /\ link' = "ended"
    /\ last' = "CONNECTION_BROKEN"
    /\ UNCHANGED <<robotVars, connVars, stateVars, lifeVars>>

\* The process is killed.
Kill ==
    /\ stop \notin Ended
    /\ stop' = "killed"
    /\ conn' = "dead" /\ state' = "dead" /\ move' = "done"
    /\ link' = IF link # "up" THEN link ELSE IF Mqtt THEN "lost" ELSE "closed"
    /\ UNCHANGED <<robotVars, was, online, event, factsheet, askedState, askedFactsheet,
                   subscribed, last>>

\* It is started again.  The client identifier is the same, so the broker ends a
\* session it still holds, with its will, when the new client connects.
Restart ==
    /\ stop \in Ended
    /\ hibernating' = FALSE /\ wakeSet' = FALSE /\ shutdown' = FALSE
    /\ factsheet' = TRUE /\ askedFactsheet' = TRUE
    /\ event' = FALSE /\ askedState' = FALSE
    /\ conn' = "start" /\ was' = FALSE /\ online' = FALSE
    /\ move' = "running" /\ state' = "start" /\ stop' = "no"
    /\ subscribed' = TRUE
    /\ link' = "up"
    /\ last' = IF link = "lost" THEN "CONNECTION_BROKEN" ELSE last

Faults == Lose \/ AckTimesOut \/ LastWill \/ Kill \/ Restart

-----------------------------------------------------------------------------
(* Handlers of instant actions *)

\* _listen hands messages to the handlers until the connection is lost.
Receiving == subscribed /\ link = "up" /\ stop \notin Ended

StartHibernation(wake) ==
    /\ Receiving
    /\ Robot!FallAsleep(wake)
    /\ UNCHANGED <<connVars, stateVars, lifeVars, link, last>>

StopHibernation ==
    /\ Receiving
    /\ Robot!WakeUp
    /\ UNCHANGED <<connVars, stateVars, lifeVars, link, last>>

\* Accepted from an idle robot only; whether it is idle is module Agv's matter.
AcceptShutdown ==
    /\ Receiving
    /\ Robot!AgreeToShutDown
    /\ UNCHANGED <<connVars, stateVars, lifeVars, link, last>>

\* Before the state loop has started there is no event to set.
StateRequest ==
    /\ Receiving /\ ~hibernating
    /\ event' = (event \/ state # "start")
    /\ askedState' = TRUE
    /\ UNCHANGED <<state, factsheet, askedFactsheet, robotVars, connVars, lifeVars, link, last>>

FactsheetRequest ==
    /\ Receiving /\ ~hibernating
    /\ factsheet' = TRUE
    /\ askedFactsheet' = TRUE
    /\ UNCHANGED <<state, event, askedState, robotVars, connVars, lifeVars, link, last>>

Handlers ==
    \/ \E wake \in BOOLEAN : StartHibernation(wake)
    \/ StopHibernation
    \/ AcceptShutdown
    \/ StateRequest
    \/ FactsheetRequest

-----------------------------------------------------------------------------
Next ==
    \/ ConnectionLoop
    \/ StateLoop
    \/ MovementLoop
    \/ Stop
    \/ StopRest
    \/ Handlers
    \/ Faults

Spec == Init /\ [][Next]_vars

\* asyncio resumes every task after its sleep, its wait or its acknowledgement, and
\* the broker notices a lost connection by its keep-alive time.  Nothing has to
\* break, and nobody has to start a dead process again.
Fairness ==
    /\ WF_vars(ConnectionLoop)
    /\ WF_vars(StateLoop)
    /\ WF_vars(MovementLoop)
    /\ WF_vars(StopRest)
    /\ WF_vars(LastWill)

FairSpec == Spec /\ Fairness

-----------------------------------------------------------------------------
(* Safety *)

\* While its session lives, GET /fleet never calls a robot online that has announced
\* a broken connection, however drops, hibernation, shutdown, stop() and restarts
\* overlap.
BrokenIsNotOnline == last = "CONNECTION_BROKEN" /\ link = "up" => ~online

TornDown ==
    \/ move \in {"unsubscribing", "done"}
    \/ stop \in {"unsubscribing", "stopped"} \cup Ended

\* Once the tasks are cancelled or killed nothing but an OFFLINE is published: a
\* heartbeat cannot bring a robot back that has shut down and unsubscribed.
SilentOnceTornDown == [][TornDown /\ link' = link => last' \in {last, "OFFLINE"}]_vars

Voice == CASE conn = "start" -> "fresh" [] conn = "dead" -> "silent" [] OTHER -> "live"

Topic == INSTANCE ConnectionTopic WITH
    said <- last, session <- link, voice <- Voice, leaving <- shutdown \/ stop # "no"

\* The connection topic follows the protocol of module ConnectionTopic, through lost
\* connections, kills and restarts.
ImplementsTopic == Topic!Spec

-----------------------------------------------------------------------------
(* Liveness, for FairSpec *)

Up == ~shutdown /\ stop = "no" /\ link = "up"

\* The loop that has to act has not ended on a publish that raised: it never comes back.
Beating == Up /\ conn # "dead"
Reporting == Up /\ state # "dead"

\* A robot that stays in hibernation is announced as HIBERNATING in the end, also
\* if it fell asleep during a drop or had slept before.
HibernationAnnounced == <>[](Beating /\ hibernating) => <>[](last = "HIBERNATING")

\* A robot that stays awake is announced ONLINE again after every drop and sleep,
\* and after a restart.
WakingAnnounced == <>[](Beating /\ ~hibernating) => []<>(last = "ONLINE")

\* A stateRequest is followed by a state message built after it, also when it
\* comes in while the previous message is being published.
StateRequestAnswered == <>[](Reporting /\ ~hibernating) => (askedState ~> ~askedState)

\* So is a factsheetRequest, also one that comes in while a factsheet is published.
FactsheetAnswered == <>[](Reporting /\ ~hibernating) => (askedFactsheet ~> ~askedFactsheet)

\* A robot whose connection or process is gone without a close ends up, and stays,
\* as CONNECTION_BROKEN on the topic (README.md:145), whatever it said before.
LossReported == <>[](link \in {"lost", "ended"}) => <>[](last = "CONNECTION_BROKEN")

-----------------------------------------------------------------------------
(* What the repository says of the runtime and the code does not do *)

\* README.md: a clean shutdown publishes OFFLINE, so it does not look like a crash.
CleanShutdownIsOffline == stop = "closed" /\ link = "closed" => last = "OFFLINE"
=============================================================================
