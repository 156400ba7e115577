---------------------------- MODULE RobotModes ----------------------------
(***************************************************************************)
(* What the tasks of a robot may rely on when they look at it: how it      *)
(* falls asleep, wakes up and agrees to shut down, and who makes it do so. *)
(* Module Runtime takes its robot from here, and module Agv is shown to    *)
(* implement it.                                                           *)
(***************************************************************************)

VARIABLES
    hibernating,
    wakeSet,    \* it has been given a time to wake up by itself
    shutdown,   \* it has agreed to shut down
    ticking     \* the movement loop does not sleep: it ticks, or has ended

modes == <<hibernating, wakeSet, shutdown>>
vars == <<modes, ticking>>

Init ==
    /\ hibernating = FALSE /\ wakeSet = FALSE /\ shutdown = FALSE
    /\ ticking = FALSE

\* Only a robot that is awake can be sent to sleep, so the time it was given stands.
FallAsleep(wake) ==
    /\ ~hibernating
    /\ hibernating' = TRUE /\ wakeSet' = wake
    /\ UNCHANGED shutdown

WakeUp ==
    /\ hibernating' = FALSE /\ wakeSet' = FALSE
    /\ UNCHANGED shutdown

\* It may have agreed to shut down before it fell asleep.
AlarmRings == hibernating /\ wakeSet /\ WakeUp

AgreeToShutDown ==
    /\ ~hibernating
    /\ shutdown' = TRUE
    /\ UNCHANGED <<hibernating, wakeSet>>

\* A message comes in while the loop sleeps.
Message ==
    /\ ~ticking
    /\ (\E wake \in BOOLEAN : FallAsleep(wake)) \/ WakeUp \/ AgreeToShutDown
    /\ UNCHANGED ticking

\* A tick does nothing to the modes but wake the robot at the time it was given.
Tick ==
    /\ ~ticking
    /\ AlarmRings \/ UNCHANGED modes
    /\ ticking' = TRUE

\* The loop sleeps again, unless the robot has agreed to shut down.
Resume ==
    /\ ticking /\ ~shutdown
    /\ ticking' = FALSE
    /\ UNCHANGED modes

Next == Message \/ Tick \/ Resume

Spec == Init /\ [][Next]_vars
=============================================================================
