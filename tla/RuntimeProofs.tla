--------------------------- MODULE RuntimeProofs ---------------------------
(* Theorems about module Runtime, and their proofs: typing, two properties, and
   the refinement of ConnectionTopic. *)
EXTENDS Runtime, TLAPS

-----------------------------------------------------------------------------
(* Typing *)

LEMMA TypeInit == Init => TypeOK
    BY DEF Init, TypeOK, FlagTypeOK, ControlTypeOK, ConnectionStates, Ended

LEMMA FlagStep == TypeOK /\ [Next]_vars => FlagTypeOK'
<1> SUFFICES ASSUME TypeOK, [Next]_vars PROVE FlagTypeOK'
    OBVIOUS
<1> USE DEF TypeOK, FlagTypeOK
<1>1. CASE ConnectionLoop
  <2>1. UNCHANGED <<robotVars, stateVars, lifeVars>>
      BY <1>1 DEF ConnectionLoop
  <2>2. was' \in BOOLEAN /\ online' \in BOOLEAN
    <3>1. CASE ConnStart \/ Settled \/ Recover
        BY <3>1 DEF ConnStart, Settled, Recover, Announce
    <3>2. CASE HeartbeatAsleep \/ HeartbeatWoken \/ HeartbeatAwake \/ Drop
        BY <3>2 DEF HeartbeatAsleep, HeartbeatWoken, HeartbeatAwake, Drop, Announce
    <3> QED BY <1>1, <3>1, <3>2 DEF ConnectionLoop
  <2> QED BY <2>1, <2>2 DEF robotVars, stateVars, lifeVars
<1>2. CASE StateLoop
  <2>1. UNCHANGED <<robotVars, connVars, lifeVars>>
      BY <1>2 DEF StateLoop
  <2>2. /\ askedState' \in BOOLEAN /\ factsheet' \in BOOLEAN
        /\ event' \in BOOLEAN /\ askedFactsheet' \in BOOLEAN
    <3>1. CASE StateStart \/ StateAsleep
        BY <3>1 DEF StateStart, StateAsleep, Round, BuildState, PublishFactsheet
    <3>2. CASE FactsheetSent \/ StateSent \/ StateWakes
        BY <3>2 DEF FactsheetSent, StateSent, StateWakes, Round, BuildState, PublishFactsheet
    <3> QED BY <1>2, <3>1, <3>2 DEF StateLoop
  <2> QED BY <2>1, <2>2 DEF robotVars, connVars, lifeVars
<1>3. CASE MovementLoop
  <2>1. CASE AutoWake
      BY <2>1 DEF AutoWake, Robot!AlarmRings, Robot!WakeUp, robotVars, connVars, stateVars, lifeVars
  <2>2. CASE GoOffline
      BY <2>2 DEF GoOffline, Robot!AlarmRings, Robot!WakeUp, SayOffline, robotVars, connVars, stateVars, lifeVars
  <2>3. CASE CancelOthers
      BY <2>3 DEF CancelOthers, robotVars, connVars, stateVars, lifeVars
  <2>4. CASE Unsubscribe
      BY <2>4 DEF Unsubscribe, robotVars, connVars, stateVars, lifeVars
  <2> QED BY <1>3, <2>1, <2>2, <2>3, <2>4 DEF MovementLoop
<1>4. CASE Stop \/ StopRest
  <2>1. CASE Stop
      BY <2>1 DEF Stop, robotVars, connVars, stateVars
  <2>2. CASE StopCancels
      BY <2>2 DEF StopCancels, robotVars, connVars, stateVars
  <2>3. CASE StopUnsubscribes
      BY <2>3 DEF StopUnsubscribes, robotVars, connVars, stateVars
  <2>4. CASE StopCloses
      BY <2>4 DEF StopCloses, robotVars, connVars, stateVars
  <2>5. CASE StopAborts
      BY <2>5 DEF StopAborts, robotVars, connVars, stateVars
  <2> QED BY <1>4, <2>1, <2>2, <2>3, <2>4, <2>5 DEF StopRest
<1>0. CASE Faults
  <2>1. CASE Lose
      BY <2>1 DEF Lose, robotVars, connVars, stateVars, lifeVars
  <2>2. CASE AckTimesOut \/ LastWill
      BY <2>2 DEF AckTimesOut, LastWill, robotVars, connVars, stateVars, lifeVars
  <2>3. CASE Kill
      BY <2>3 DEF Kill, robotVars, connVars, stateVars, lifeVars
  <2>4. CASE Restart
      BY <2>4 DEF Restart, robotVars, connVars, stateVars, lifeVars
  <2> QED BY <1>0, <2>1, <2>2, <2>3, <2>4 DEF Faults
<1>5. ASSUME NEW wake \in BOOLEAN, StartHibernation(wake) PROVE FlagTypeOK'
    BY <1>5 DEF StartHibernation, Robot!FallAsleep, connVars, stateVars, lifeVars
<1>6. CASE StopHibernation \/ AcceptShutdown
    BY <1>6 DEF StopHibernation, AcceptShutdown, Robot!WakeUp, Robot!AgreeToShutDown, connVars, stateVars, lifeVars
<1>7. CASE StateRequest \/ FactsheetRequest
    BY <1>7 DEF StateRequest, FactsheetRequest, robotVars, connVars, lifeVars
<1>8. CASE UNCHANGED vars
    BY <1>8 DEF vars, robotVars, connVars, stateVars, lifeVars
<1> QED BY <1>0, <1>1, <1>2, <1>3, <1>4, <1>5, <1>6, <1>7, <1>8 DEF Next, Handlers

LEMMA ControlStep == TypeOK /\ [Next]_vars => ControlTypeOK'
<1> SUFFICES ASSUME TypeOK, [Next]_vars PROVE ControlTypeOK'
    OBVIOUS
<1> USE DEF TypeOK, ControlTypeOK, ConnectionStates, Ended
<1>1. CASE ConnectionLoop
    BY <1>1 DEF ConnectionLoop, ConnStart, Settled, HeartbeatAsleep, HeartbeatWoken, HeartbeatAwake,
        Drop, Recover, Announce, robotVars, connVars, stateVars, lifeVars
<1>2. CASE StateLoop
    BY <1>2 DEF StateLoop, StateStart, StateAsleep, FactsheetSent, StateSent, StateWakes, Round,
        BuildState, PublishFactsheet, robotVars, connVars, lifeVars
<1>3. CASE MovementLoop
    BY <1>3 DEF MovementLoop, AutoWake, GoOffline, SayOffline, CancelOthers, Unsubscribe, robotVars, connVars,
        stateVars, lifeVars
<1>4. CASE Stop \/ StopRest
    BY <1>4 DEF Stop, SayOffline, StopRest, StopCancels, StopUnsubscribes, StopCloses, StopAborts, robotVars, connVars, stateVars
<1>0. CASE Faults
    BY <1>0 DEF Faults, Lose, AckTimesOut, LastWill, Kill, Restart, robotVars, connVars, stateVars, lifeVars
<1>5. ASSUME NEW wake \in BOOLEAN, StartHibernation(wake) PROVE ControlTypeOK'
    BY <1>5 DEF StartHibernation, Robot!FallAsleep, connVars, stateVars, lifeVars
<1>6. CASE StopHibernation \/ AcceptShutdown
    BY <1>6 DEF StopHibernation, AcceptShutdown, Robot!WakeUp, Robot!AgreeToShutDown, connVars, stateVars, lifeVars
<1>7. CASE StateRequest \/ FactsheetRequest
    BY <1>7 DEF StateRequest, FactsheetRequest, robotVars, connVars, lifeVars
<1>8. CASE UNCHANGED vars
    BY <1>8 DEF vars, robotVars, connVars, stateVars, lifeVars
<1> QED BY <1>0, <1>1, <1>2, <1>3, <1>4, <1>5, <1>6, <1>7, <1>8 DEF Next, Handlers

\* Every variable keeps its type: every published connectionState is one of the
\* four the ConnectionState enumeration has.
THEOREM TypeCorrect == Spec => []TypeOK
<1> QED BY TypeInit, FlagStep, ControlStep, PTL DEF Spec, TypeOK

-----------------------------------------------------------------------------
(* What GET /fleet says, and what is published after the tasks are cancelled *)

\* Until it first announces ONLINE the robot is not online, and once the tasks are
\* cancelled or killed the connection loop is gone.
Inv ==
    /\ BrokenIsNotOnline
    /\ conn \in {"start", "settling"} => ~online
    /\ TornDown => conn = "dead"
    /\ stop \in {"unsubscribing", "stopped"} \cup Ended => move = "done"

LEMMA InvInit == Init => Inv
    BY DEF Init, Inv, BrokenIsNotOnline, TornDown, Ended

LEMMA InvStep == TypeOK /\ Inv /\ [Next]_vars => Inv'
<1> SUFFICES ASSUME TypeOK, Inv, [Next]_vars PROVE Inv'
    OBVIOUS
<1> USE DEF Inv, BrokenIsNotOnline, TornDown, Ended
<1>1. CASE ConnectionLoop
    BY <1>1 DEF TypeOK, FlagTypeOK, ControlTypeOK, ConnectionLoop, ConnStart, Settled, HeartbeatAsleep, HeartbeatWoken,
        HeartbeatAwake, Drop, Recover, Announce, connVars, lifeVars
<1>2. CASE StateLoop
    BY <1>2 DEF StateLoop, connVars, lifeVars
<1>3. CASE MovementLoop
    BY <1>3 DEF TypeOK, ControlTypeOK, MovementLoop, AutoWake, GoOffline, SayOffline, CancelOthers, Unsubscribe, connVars, lifeVars
<1>4. CASE Stop
    BY <1>4 DEF Stop, SayOffline, connVars
<1>5. CASE StopRest
    BY <1>5 DEF TypeOK, ControlTypeOK, StopRest, StopCancels, StopUnsubscribes, StopCloses, StopAborts, connVars
<1>6. CASE Handlers
    BY <1>6 DEF Handlers, StartHibernation, StopHibernation, AcceptShutdown, StateRequest,
        FactsheetRequest, connVars, lifeVars
<1>7. CASE UNCHANGED vars
    BY <1>7 DEF vars, connVars, lifeVars
<1>8. CASE Faults
    BY <1>8 DEF TypeOK, ControlTypeOK, Faults, Lose, AckTimesOut, LastWill, Kill, Restart, connVars, lifeVars
<1> QED BY <1>1, <1>2, <1>3, <1>4, <1>5, <1>6, <1>7, <1>8 DEF Next

LEMMA Invariance == Spec => [](TypeOK /\ Inv)
<1> QED BY TypeInit, InvInit, FlagStep, ControlStep, InvStep, PTL DEF Spec, TypeOK

\* While its MQTT session lives, GET /fleet never calls a robot online that last announced
\* a broken connection.  Nothing is said of a robot whose connection is lost: there Settled
\* and Recover call it online before the publish that raises.
THEOREM BrokenIsNotOnlineAlways == Spec => []BrokenIsNotOnline
<1>1. Inv => BrokenIsNotOnline
    BY DEF Inv
<1> QED BY <1>1, Invariance, PTL

LEMMA SilentStep ==
    TypeOK /\ Inv /\ [Next]_vars => (TornDown /\ link' = link => last' \in {last, "OFFLINE"})
<1> SUFFICES ASSUME TypeOK, Inv, [Next]_vars, TornDown, link' = link PROVE last' \in {last, "OFFLINE"}
    OBVIOUS
<1>1. CASE ConnectionLoop
    BY <1>1 DEF Inv, ConnectionLoop, ConnStart, Settled, HeartbeatAsleep, HeartbeatWoken,
        HeartbeatAwake, Drop, Recover
<1>2. CASE StateLoop
    BY <1>2 DEF StateLoop
<1>3. CASE MovementLoop
    BY <1>3 DEF MovementLoop, AutoWake, GoOffline, SayOffline, CancelOthers, Unsubscribe
<1>4. CASE Stop \/ StopRest
    BY <1>4 DEF Stop, SayOffline, StopRest, StopCancels, StopUnsubscribes, StopCloses, StopAborts
<1>5. CASE Handlers
    BY <1>5 DEF Handlers, StartHibernation, StopHibernation, AcceptShutdown, StateRequest, FactsheetRequest
<1>6. CASE UNCHANGED vars
    BY <1>6 DEF vars
<1>7. CASE Faults
    BY <1>7 DEF Faults, Lose, AckTimesOut, LastWill, Kill, Restart
<1> QED BY <1>1, <1>2, <1>3, <1>4, <1>5, <1>6, <1>7 DEF Next

\* Once the tasks are cancelled, by shutdown or by stop(), nothing but OFFLINE is
\* published on the connection topic, until the session ends or a new process starts.
THEOREM SilentOnceTornDownAlways == Spec => SilentOnceTornDown
<1> QED BY SilentStep, Invariance, PTL DEF Spec, SilentOnceTornDown

-----------------------------------------------------------------------------
(* The runtime implements ConnectionTopic *)

\* What the connection loop has said last: while it awaits its next heartbeat with
\* was_hibernating not set, ONLINE, unless an OFFLINE came in between.
SaidInv ==
    /\ conn = "sleeping" /\ link = "up" /\ ~was => last \in {"ONLINE", "OFFLINE"}
    /\ conn \in {"settling", "dropped"} /\ link = "up" => last \in {"CONNECTION_BROKEN", "OFFLINE"}
    /\ conn = "sleeping" /\ link = "up" => last # "none"

LEMMA SaidInit == Init => SaidInv
    BY DEF Init, SaidInv

LEMMA SaidStep == TypeOK /\ Inv /\ SaidInv /\ [Next]_vars => SaidInv'
<1> SUFFICES ASSUME TypeOK, Inv, SaidInv, [Next]_vars PROVE SaidInv'
    OBVIOUS
<1> USE DEF SaidInv
<1>1. CASE ConnectionLoop
    BY <1>1 DEF TypeOK, FlagTypeOK, ControlTypeOK, ConnectionLoop, ConnStart, Settled, HeartbeatAsleep, HeartbeatWoken,
        HeartbeatAwake, Drop, Recover, Announce
<1>2. CASE StateLoop
    BY <1>2 DEF StateLoop, connVars
<1>3. CASE MovementLoop
    BY <1>3 DEF MovementLoop, AutoWake, GoOffline, SayOffline, CancelOthers, Unsubscribe, connVars
<1>4. CASE Stop \/ StopRest
    BY <1>4 DEF Stop, SayOffline, StopRest, StopCancels, StopUnsubscribes, StopCloses, StopAborts, connVars
<1>5. CASE Handlers
    BY <1>5 DEF Handlers, StartHibernation, StopHibernation, AcceptShutdown, StateRequest,
        FactsheetRequest, connVars
<1>6. CASE UNCHANGED vars
    BY <1>6 DEF vars, connVars
<1>7. CASE Faults
    BY <1>7 DEF Faults, Lose, AckTimesOut, LastWill, Kill, Restart, connVars
<1> QED BY <1>1, <1>2, <1>3, <1>4, <1>5, <1>6, <1>7 DEF Next

LEMMA TopicInit == Init => Topic!Init
    BY DEF Init, Topic!Init, Voice

LEMMA TopicConnection ==
    ASSUME TypeOK, Inv, SaidInv, ConnectionLoop
    PROVE  [Topic!Next]_(Topic!vars)
<1> USE DEF ConnectionLoop, Announce, Topic!Next, Topic!vars, Voice, robotVars, lifeVars
<1>1. CASE ConnStart
    BY <1>1 DEF ConnStart, Topic!FirstWord, Topic!FallSilent
<1>2. CASE Settled
    BY <1>2 DEF Settled, SaidInv, Topic!Heartbeat, Topic!Follows, Topic!FallSilent
<1>3. CASE HeartbeatAsleep
    BY <1>3 DEF HeartbeatAsleep, SaidInv, Topic!Heartbeat, Topic!Follows, Topic!FallSilent
<1>4. CASE HeartbeatWoken \/ HeartbeatAwake
    BY <1>4 DEF HeartbeatWoken, HeartbeatAwake, TypeOK, ControlTypeOK, ConnectionStates, SaidInv,
        Topic!Heartbeat, Topic!Follows, Topic!FallSilent
<1>5. CASE Drop
    BY <1>5 DEF Drop, SaidInv, Topic!Heartbeat, Topic!Follows, Topic!FallSilent
<1>6. CASE Recover
    BY <1>6 DEF Recover, SaidInv, Topic!Heartbeat, Topic!Follows, Topic!FallSilent
<1> QED BY <1>1, <1>2, <1>3, <1>4, <1>5, <1>6

LEMMA TopicStep ==
    TypeOK /\ Inv /\ SaidInv /\ [Next]_vars => [Topic!Next]_(Topic!vars)
<1> SUFFICES ASSUME TypeOK, Inv, SaidInv, [Next]_vars PROVE [Topic!Next]_(Topic!vars)
    OBVIOUS
<1> USE DEF Topic!Next, Topic!vars, Voice
<1>1. CASE ConnectionLoop
    BY <1>1, TopicConnection
<1>2. CASE StateLoop
    BY <1>2 DEF StateLoop, robotVars, connVars, lifeVars
<1>3. CASE MovementLoop
  <2>1. CASE AutoWake \/ Unsubscribe
    BY <2>1 DEF AutoWake, Robot!AlarmRings, Robot!WakeUp, Unsubscribe, robotVars, connVars, lifeVars
  <2>2. CASE GoOffline
    BY <2>2 DEF GoOffline, Robot!AlarmRings, Robot!WakeUp, SayOffline, robotVars, connVars, Topic!SignOff
  <2>3. CASE CancelOthers
    BY <2>3 DEF CancelOthers, robotVars, Topic!FallSilent
  <2> QED BY <1>3, <2>1, <2>2, <2>3 DEF MovementLoop
<1>4. CASE Stop
    BY <1>4 DEF Stop, SayOffline, robotVars, connVars, Topic!SignOff, Topic!ToldToLeave
<1>5. CASE StopRest
    BY <1>5 DEF StopRest, StopCancels, StopUnsubscribes, StopCloses, StopAborts, robotVars, connVars,
        Topic!FallSilent, Topic!BreakOff
<1>6. CASE Handlers
    BY <1>6 DEF Handlers, StartHibernation, StopHibernation, AcceptShutdown, StateRequest,
        FactsheetRequest, Robot!FallAsleep, Robot!WakeUp, Robot!AgreeToShutDown, robotVars, connVars,
        lifeVars, Topic!ToldToLeave
<1>7. CASE UNCHANGED vars
    BY <1>7 DEF vars, robotVars, connVars, lifeVars
<1>8. CASE Lose
    BY <1>8 DEF Lose, robotVars, lifeVars, Topic!BreakOff
<1>9. CASE LastWill
    BY <1>9 DEF LastWill, robotVars, connVars, lifeVars, Topic!LastWill
<1>10. CASE Kill
    BY <1>10 DEF Kill, Ended, robotVars, Topic!BreakOff, Topic!FallSilent
<1>11. CASE Restart
    BY <1>11 DEF Restart, Inv, TornDown, Topic!ComeBack
<1>12. CASE AckTimesOut
    BY <1>12 DEF AckTimesOut, robotVars, Topic!FallSilent
<1> QED BY <1>1, <1>2, <1>3, <1>4, <1>5, <1>6, <1>7, <1>8, <1>9, <1>10, <1>11, <1>12 DEF Next, Faults

\* The connection topic follows the protocol of ConnectionTopic, whatever the tasks,
\* the broker and the process do, on MQTT and on NATS.
THEOREM RuntimeImplementsTopic == Spec => ImplementsTopic
<1>1. Spec => [](TypeOK /\ Inv /\ SaidInv)
    BY TypeInit, InvInit, SaidInit, FlagStep, ControlStep, InvStep, SaidStep, PTL DEF Spec, TypeOK
<1> QED BY <1>1, TopicInit, TopicStep, PTL DEF Spec, ImplementsTopic, Topic!Spec

\* Once the broker has spoken for a lost robot nothing else comes on the topic, neither a
\* heartbeat of a task that still runs nor the OFFLINE of a shutdown or of stop(), until the
\* process is started again: what LossReported says of the end, of every state.  A
\* consequence of the protocol alone.
THEOREM WillIsLastWord == Spec => [](link = "ended" => last = "CONNECTION_BROKEN")
<1> DEFINE Spoken == link = "ended" => last = "CONNECTION_BROKEN"
<1>1. Topic!Init => Spoken
    BY DEF Topic!Init
<1>2. Spoken /\ [Topic!Next]_(Topic!vars) => Spoken'
    BY DEF Topic!Next, Topic!vars, Topic!FirstWord, Topic!Heartbeat, Topic!ToldToLeave, Topic!SignOff,
       Topic!FallSilent, Topic!BreakOff, Topic!LastWill, Topic!ComeBack
<1>3. ImplementsTopic => []Spoken
    BY <1>1, <1>2, PTL DEF ImplementsTopic, Topic!Spec
<1> QED BY <1>3, RuntimeImplementsTopic
=============================================================================
