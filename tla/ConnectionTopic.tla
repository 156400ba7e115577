-------------------------- MODULE ConnectionTopic --------------------------
(***************************************************************************)
(* What fleet control may rely on when it reads the connection topic of a  *)
(* robot: which connectionState may follow which, who says it, and when    *)
(* the robot has said its last word.  Module Runtime is shown to implement *)
(* it.                                                                     *)
(***************************************************************************)

VARIABLES
    said,       \* the connectionState on the topic
    session,    \* of the robot with the broker: up, lost, ended by the broker, closed
    voice,      \* fresh: nothing said yet; live: heartbeats; silent: no more of them
    leaving     \* the robot has been told to shut down, or its process to end

vars == <<said, session, voice, leaving>>

Init == said = "none" /\ session = "up" /\ voice = "fresh" /\ leaving = FALSE

\* What the heartbeats may say next.  A robot that was announced as broken comes
\* back ONLINE; one that hibernates is not announced as broken.
Follows(s) ==
    CASE s = "ONLINE" -> {"ONLINE", "HIBERNATING", "CONNECTION_BROKEN"}
      [] s = "OFFLINE" -> {"ONLINE", "HIBERNATING", "CONNECTION_BROKEN"}
      [] OTHER -> {"ONLINE"}

FirstWord ==
    /\ voice = "fresh" /\ session = "up"
    /\ said' = "CONNECTION_BROKEN"
    /\ voice' = "live"
    /\ UNCHANGED <<session, leaving>>

Heartbeat ==
    /\ voice = "live" /\ session = "up"
    /\ said' \in Follows(said)
    /\ UNCHANGED <<session, voice, leaving>>

ToldToLeave ==
    /\ leaving' = TRUE
    /\ UNCHANGED <<said, session, voice>>

\* OFFLINE is said by a robot that is leaving, and may be said again.
SignOff ==
    /\ session = "up"
    /\ said' = "OFFLINE"
    /\ leaving' = TRUE
    /\ UNCHANGED <<session, voice>>

FallSilent ==
    /\ voice' = "silent"
    /\ leaving' \in {leaving, TRUE}
    /\ UNCHANGED <<said, session>>

\* A connection that breaks, or a process that dies, may take the voice with it.
BreakOff ==
    /\ session = "up"
    /\ session' \in {"lost", "closed"}
    /\ voice' \in {voice, "silent"}
    /\ leaving' \in {leaving, TRUE}
    /\ UNCHANGED said

\* The broker says it for a robot whose connection it has lost.
LastWill ==
    /\ session = "lost"
    /\ session' = "ended"
    /\ said' = "CONNECTION_BROKEN"
    /\ UNCHANGED <<voice, leaving>>

\* A new process takes over; the broker ends a lost session first.
ComeBack ==
    /\ voice = "silent"
    /\ session' = "up" /\ voice' = "fresh" /\ leaving' = FALSE
    /\ said' = IF session = "lost" THEN "CONNECTION_BROKEN" ELSE said

Next ==
    \/ FirstWord \/ Heartbeat \/ ToldToLeave \/ SignOff \/ FallSilent
    \/ BreakOff \/ LastWill \/ ComeBack

Spec == Init /\ [][Next]_vars
=============================================================================
