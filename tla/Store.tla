------------------------------- MODULE Store -------------------------------
(***************************************************************************)
(* The maps and zone sets a robot stores: the map and zone set actions of  *)
(* class SimulatedAgv in src/vda5050_sim/agv.py and its zoneSet topic.     *)
(*                                                                         *)
(* A download, enable or delete is checked when it is received and takes   *)
(* effect when the action timer ends it, ticks later; in between, other    *)
(* actions and pushed zone sets change the store.  One tick visits all     *)
(* unfinished actions, those of the order before the instant ones and each *)
(* kind in the order it was received: todo is what a tick has left to      *)
(* visit, and nothing else runs while it is not empty.                     *)
(*                                                                         *)
(* What is abstracted.  Pauses, faults and hibernation stop the ticks and  *)
(* the handlers of this module, which here need not happen; module Agv     *)
(* says when.  actionIds are not used twice.  An action that has ended     *)
(* keeps its status and leaves the lists.  The geometry of a zone set is   *)
(* whether it has any.  The robot is one of version 3.0.0 or above, which  *)
(* zone sets and triggers ask for; below it a fault ends an action as      *)
(* FAILED (Legacy in module Agv).                                          *)
(***************************************************************************)
EXTENDS Naturals, Sequences, FiniteSets

CONSTANTS
    Maps,           \* mapIds
    NoMap,          \* what is not stored has no map
    StartMap,       \* the map the robot is on at first
    Versions,       \* keys (mapId, mapVersion) of maps
    MapOf,          \* MapOf[v]: the mapId of key v
    ZoneSets,       \* zoneSetIds
    Ids,            \* actionIds
    Op,             \* Op[t]: the actionType
    Target,         \* Target[t]: the key, zoneSetId or mapId the parameters name
    NodeIds,        \* actions that nodes of orders carry, the others are instant
    Orders,         \* the actions of the orders, as sequences
    Pushes,         \* pairs of a zone set and its map sent on the zoneSet topic
    Retriable,      \* actions a fault may make RETRIABLE
    TriggerIds,     \* ids that fleet control puts into the actionId of a trigger
    Duration,       \* action_duration_s, in ticks
    Backlog,        \* bound: unfinished instant actions at a time
    Budget          \* bound: instant actions received in all

MapOps == {"downloadMap", "enableMap", "deleteMap"}
ZoneOps == {"downloadZoneSet", "enableZoneSet", "deleteZoneSet"}

\* action_catalog.py takes these as instant actions only: a node that carries one has it
\* rejected.
InstantOnly == {"downloadMap", "deleteMap", "downloadZoneSet", "deleteZoneSet"}

ASSUME ScopesAssumption == \A t \in NodeIds : Op[t] \notin InstantOnly

ASSUME KeysAssumption ==
    /\ StartMap \in Maps /\ NoMap \notin Maps
    /\ MapOf \in [Versions -> Maps]
    /\ Pushes \subseteq ZoneSets \X Maps

ASSUME IdsAssumption ==
    /\ \A t \in Ids :
         \/ Op[t] \in MapOps /\ Target[t] \in Versions
         \/ Op[t] \in ZoneOps /\ Target[t] \in ZoneSets
         \/ Op[t] = "initializePosition" /\ Target[t] \in Maps
    /\ NodeIds \subseteq Ids
    /\ Orders \subseteq Seq(NodeIds)
    /\ Retriable \subseteq Ids /\ TriggerIds \subseteq Ids
    /\ Duration \in Nat /\ Backlog \in Nat /\ Budget \in Nat

VARIABLES
    maps,           \* mapStatus per key ("absent": not stored)
    zoneSets,       \* mapId of each stored zone set
    geometry,       \* the stored zone sets that came with zones
    zoneStatus,     \* _zone_set_status
    mapId,          \* map_id, the map the robot is on
    st, ran,        \* status of each action, and ticks since it is RUNNING
    ordered,        \* unfinished actions in action_states
    instants,       \* unfinished actions in instant_action_states
    todo            \* what the running tick has not visited yet

mapVars == <<maps>>
zoneVars == <<zoneSets, geometry, zoneStatus>>
actionVars == <<st, ran, ordered, instants, todo>>
vars == <<mapVars, zoneVars, mapId, actionVars>>

Stored == {"DISABLED", "ENABLED"}
Statuses == {"absent", "WAITING", "RUNNING", "RETRIABLE", "FINISHED", "FAILED"}
Active == {"WAITING", "RUNNING"}
Terminal == {"FINISHED", "FAILED"}

StoreTypeOK ==
    /\ maps \in [Versions -> {"absent"} \cup Stored]
    /\ zoneSets \in [ZoneSets -> Maps \cup {NoMap}]
    /\ geometry \subseteq ZoneSets
    /\ zoneStatus \in [ZoneSets -> {"absent"} \cup Stored]
    /\ mapId \in Maps

ListTypeOK ==
    /\ ordered \in Seq(Ids)
    /\ instants \in Seq(Ids)
    /\ todo \in Seq(Ids)

TypeOK ==
    /\ StoreTypeOK
    /\ ListTypeOK
    /\ st \in [Ids -> Statuses]
    /\ ran \in [Ids -> 0..Duration]

Init ==
    /\ maps = [v \in Versions |-> "absent"]
    /\ zoneSets = [z \in ZoneSets |-> NoMap]
    /\ geometry = {}
    /\ zoneStatus = [z \in ZoneSets |-> "absent"]
    /\ mapId = StartMap
    /\ st = [t \in Ids |-> "absent"]
    /\ ran = [t \in Ids |-> 0]
    /\ ordered = <<>> /\ instants = <<>> /\ todo = <<>>

-----------------------------------------------------------------------------
(* What callbacks do, while the movement loop sleeps *)

Listening == todo = <<>>

\* _start_download_map and _start_download_zone_set find the target in the store.
Duplicate(i) ==
    \/ Op[i] = "downloadMap" /\ maps[Target[i]] # "absent"
    \/ Op[i] = "downloadZoneSet" /\ zoneSets[Target[i]] # NoMap

WithinBounds ==
    /\ Len(instants) < Backlog
    /\ Cardinality({i \in Ids \ NodeIds : st[i] # "absent"}) < Budget

\* Mutant of ReceiveInstant: the newest action comes first.
ReceiveInstantInFront(i) ==
    /\ Listening
    /\ st[i] = "absent"
    /\ IF Duplicate(i)
       THEN st' = [st EXCEPT ![i] = "FAILED"] /\ UNCHANGED instants
       ELSE /\ WithinBounds
            /\ st' = [st EXCEPT ![i] = "WAITING"]
            /\ instants' = <<i>> \o instants
    /\ UNCHANGED <<mapVars, zoneVars, mapId, ran, ordered, todo>>

ReceiveInstant(i) ==
    /\ Listening
    /\ st[i] = "absent"
    /\ IF Duplicate(i)
       THEN st' = [st EXCEPT ![i] = "FAILED"] /\ UNCHANGED instants
       ELSE /\ WithinBounds
            /\ st' = [st EXCEPT ![i] = "WAITING"]
            /\ instants' = Append(instants, i)
    /\ UNCHANGED <<mapVars, zoneVars, mapId, ran, ordered, todo>>

\* A new order is accepted by a robot whose order actions have ended or are RETRIABLE.
AcceptOrder(o) ==
    /\ Listening
    /\ \A t \in NodeIds : st[t] \notin Active
    /\ ordered' = o
    /\ st' = [t \in Ids |->
                IF t \notin NodeIds THEN st[t]
                ELSE IF \E k \in DOMAIN o : o[k] = t THEN "WAITING" ELSE "absent"]
    /\ UNCHANGED <<mapVars, zoneVars, mapId, ran, instants, todo>>

\* An order update adds the actions it brings.
ExtendOrder(o) ==
    /\ Listening
    /\ \A k \in DOMAIN o : st[o[k]] = "absent"
    /\ ordered' = ordered \o o
    /\ st' = [t \in Ids |-> IF \E k \in DOMAIN o : o[k] = t THEN "WAITING" ELSE st[t]]
    /\ UNCHANGED <<mapVars, zoneVars, mapId, ran, instants, todo>>

\* _clear_active_order, for cancelOrder and startHibernation: instant actions stay.
ClearActiveOrder ==
    /\ Listening
    /\ ordered' = <<>>
    /\ st' = [t \in Ids |-> IF t \in NodeIds THEN "absent" ELSE st[t]]
    /\ UNCHANGED <<mapVars, zoneVars, mapId, ran, instants, todo>>

\* Mutant of HandleZoneSet: the status is left for enableZoneSet to set.
HandleZoneSetUndecided(z, m) ==
    /\ Listening
    /\ zoneSets[z] = NoMap
    /\ zoneSets' = [zoneSets EXCEPT ![z] = m]
    /\ geometry' = geometry \cup {z}
    /\ UNCHANGED <<zoneStatus, mapVars, mapId, actionVars>>

\* handle_zone_set: what is pushed is ENABLED at once, whatever else its map has.
HandleZoneSet(z, m) ==
    /\ Listening
    /\ zoneSets[z] = NoMap
    /\ zoneSets' = [zoneSets EXCEPT ![z] = m]
    /\ geometry' = geometry \cup {z}
    /\ zoneStatus' = [zoneStatus EXCEPT ![z] = "ENABLED"]
    /\ UNCHANGED <<mapVars, mapId, actionVars>>

SetStatus(t, status) ==
    /\ st' = [st EXCEPT ![t] = status]
    /\ UNCHANGED <<mapVars, zoneVars, mapId, ran, ordered, instants, todo>>

\* A trigger that names an action ends it without its effect.
Trigger(t) == Listening /\ st[t] # "absent" /\ SetStatus(t, "FINISHED")

\* Since 3.0.0 a fault never ends a retriable action.
FailAction(t) == Listening /\ st[t] = "RUNNING" /\ SetStatus(t, "RETRIABLE")
Retry(t) == Listening /\ st[t] = "RETRIABLE" /\ SetStatus(t, "WAITING")
SkipRetry(t) == Listening /\ st[t] = "RETRIABLE" /\ SetStatus(t, "FAILED")

\* The end of a tick may bring the robot to a node, and so on another map.
ArriveOnMap(m) ==
    /\ Listening
    /\ mapId' = m
    /\ UNCHANGED <<mapVars, zoneVars, actionVars>>

-----------------------------------------------------------------------------
(* The effects of the actions that a tick ends *)

Ends(t, status) == st' = [st EXCEPT ![t] = status]

\* Mutant of DownloadMap: the new map is reported as the download left it.
DownloadMapAsReceived(t) ==
    /\ Op[t] = "downloadMap"
    /\ maps' = [maps EXCEPT ![Target[t]] = "RECEIVED"]
    /\ Ends(t, "FINISHED")
    /\ UNCHANGED <<zoneVars, mapId>>

\* Whatever is stored under the key by now is overwritten.
DownloadMap(t) ==
    /\ Op[t] = "downloadMap"
    /\ maps' = [maps EXCEPT ![Target[t]] = "DISABLED"]
    /\ Ends(t, "FINISHED")
    /\ UNCHANGED <<zoneVars, mapId>>

\* Mutant of EnableMap: the versions enabled before stay so.
EnableMapOnly(t) ==
    /\ Op[t] = "enableMap"
    /\ IF maps[Target[t]] = "absent"
       THEN Ends(t, "FAILED") /\ UNCHANGED maps
       ELSE Ends(t, "FINISHED") /\ maps' = [maps EXCEPT ![Target[t]] = "ENABLED"]
    /\ UNCHANGED <<zoneVars, mapId>>

\* Mutant of EnableMap: the other versions are looked for under every mapId.
EnableMapOverall(t) ==
    /\ Op[t] = "enableMap"
    /\ IF maps[Target[t]] = "absent"
       THEN Ends(t, "FAILED") /\ UNCHANGED maps
       ELSE /\ Ends(t, "FINISHED")
            /\ maps' = [v \in Versions |->
                          IF maps[v] = "absent" THEN "absent"
                          ELSE IF v = Target[t] THEN "ENABLED" ELSE "DISABLED"]
    /\ UNCHANGED <<zoneVars, mapId>>

EnableMap(t) ==
    /\ Op[t] = "enableMap"
    /\ IF maps[Target[t]] = "absent"
       THEN Ends(t, "FAILED") /\ UNCHANGED maps
       ELSE /\ Ends(t, "FINISHED")
            /\ maps' = [v \in Versions |->
                          IF maps[v] = "absent" \/ MapOf[v] # MapOf[Target[t]] THEN maps[v]
                          ELSE IF v = Target[t] THEN "ENABLED" ELSE "DISABLED"]
    /\ UNCHANGED <<zoneVars, mapId>>

DeleteMap(t) ==
    /\ Op[t] = "deleteMap"
    /\ Ends(t, IF maps[Target[t]] = "absent" THEN "FAILED" ELSE "FINISHED")
    /\ maps' = [maps EXCEPT ![Target[t]] = "absent"]
    /\ UNCHANGED <<zoneVars, mapId>>

\* An empty zone set for the map the robot is on when the download ends.
DownloadZoneSet(t) ==
    /\ Op[t] = "downloadZoneSet"
    /\ zoneSets' = [zoneSets EXCEPT ![Target[t]] = mapId]
    /\ geometry' = geometry \ {Target[t]}
    /\ zoneStatus' = [zoneStatus EXCEPT ![Target[t]] = "DISABLED"]
    /\ Ends(t, "FINISHED")
    /\ UNCHANGED <<mapVars, mapId>>

\* Mutant of EnableZoneSet: the others are those of the map the robot is on.
EnableZoneSetHere(t) ==
    /\ Op[t] = "enableZoneSet"
    /\ IF zoneSets[Target[t]] = NoMap
       THEN Ends(t, "FAILED") /\ UNCHANGED zoneStatus
       ELSE /\ Ends(t, "FINISHED")
            /\ zoneStatus' = [z \in ZoneSets |->
                                IF z = Target[t] THEN "ENABLED"
                                ELSE IF zoneSets[z] = mapId THEN "DISABLED" ELSE zoneStatus[z]]
    /\ UNCHANGED <<mapVars, zoneSets, geometry, mapId>>

EnableZoneSet(t) ==
    /\ Op[t] = "enableZoneSet"
    /\ IF zoneSets[Target[t]] = NoMap
       THEN Ends(t, "FAILED") /\ UNCHANGED zoneStatus
       ELSE /\ Ends(t, "FINISHED")
            /\ zoneStatus' = [z \in ZoneSets |->
                                IF zoneSets[z] # zoneSets[Target[t]] THEN zoneStatus[z]
                                ELSE IF z = Target[t] THEN "ENABLED" ELSE "DISABLED"]
    /\ UNCHANGED <<mapVars, zoneSets, geometry, mapId>>

DeleteZoneSet(t) ==
    /\ Op[t] = "deleteZoneSet"
    /\ Ends(t, IF zoneSets[Target[t]] = NoMap THEN "FAILED" ELSE "FINISHED")
    /\ zoneSets' = [zoneSets EXCEPT ![Target[t]] = NoMap]
    /\ geometry' = geometry \ {Target[t]}
    /\ zoneStatus' = IF zoneSets[Target[t]] = NoMap THEN zoneStatus
                     ELSE [zoneStatus EXCEPT ![Target[t]] = "absent"]
    /\ UNCHANGED <<mapVars, mapId>>

InitializePosition(t) ==
    /\ Op[t] = "initializePosition"
    /\ mapId' = Target[t]
    /\ Ends(t, "FINISHED")
    /\ UNCHANGED <<mapVars, zoneVars>>

\* _apply_action_effect
ApplyActionEffect(t) ==
    \/ DownloadMap(t) \/ EnableMap(t) \/ DeleteMap(t)
    \/ DownloadZoneSet(t) \/ EnableZoneSet(t) \/ DeleteZoneSet(t)
    \/ InitializePosition(t)

-----------------------------------------------------------------------------
(* The sweep of a tick, _advance_all_pending *)

Sweep ==
    /\ Listening
    /\ todo' = ordered \o instants
    /\ ordered' = <<>> /\ instants' = <<>>
    /\ UNCHANGED <<mapVars, zoneVars, mapId, st, ran>>

Due(t) ==
    \/ st[t] = "WAITING" /\ Duration = 0
    \/ st[t] = "RUNNING" /\ ran[t] + 1 >= Duration

\* The timer of t is not up: it starts or goes on.
Continue(t) ==
    /\ st[t] \in Active /\ ~Due(t)
    /\ st' = [st EXCEPT ![t] = "RUNNING"]
    /\ ran' = [ran EXCEPT ![t] = IF st[t] = "WAITING" THEN 0 ELSE @ + 1]
    /\ UNCHANGED <<mapVars, zoneVars, mapId>>

Finish(t) ==
    /\ Due(t)
    /\ ApplyActionEffect(t)
    /\ ran' = [ran EXCEPT ![t] = 0]

Skip(t) ==
    /\ st[t] \notin Active
    /\ UNCHANGED <<mapVars, zoneVars, mapId, st, ran>>

\* _advance_one, for the next action of the tick.
AdvanceOne ==
    /\ todo # <<>>
    /\ todo' = Tail(todo)
    /\ LET t == Head(todo)
           Keep(list) == IF st'[t] \in Terminal THEN list ELSE Append(list, t)
       IN /\ Continue(t) \/ Finish(t) \/ Skip(t)
          /\ IF t \in NodeIds
             THEN ordered' = Keep(ordered) /\ UNCHANGED instants
             ELSE instants' = Keep(instants) /\ UNCHANGED ordered

-----------------------------------------------------------------------------
Next ==
    \/ \E i \in Ids \ NodeIds : ReceiveInstant(i)
    \/ \E o \in Orders : AcceptOrder(o) \/ ExtendOrder(o)
    \/ ClearActiveOrder
    \/ \E push \in Pushes : HandleZoneSet(push[1], push[2])
    \/ \E t \in TriggerIds : Trigger(t)
    \/ \E t \in Retriable : FailAction(t)
    \/ \E t \in Ids : Retry(t) \/ SkipRetry(t)
    \/ \E m \in Maps : ArriveOnMap(m)
    \/ Sweep
    \/ AdvanceOne

Spec == Init /\ [][Next]_vars

-----------------------------------------------------------------------------
(* Properties *)

\* At most one version of a map is ENABLED, over downloads, retries and deletes
\* in any order: the versions of a mapId share the robot's coordinates.
OneVersionEnabled ==
    \A v, w \in Versions :
        maps[v] = "ENABLED" /\ maps[w] = "ENABLED" /\ MapOf[v] = MapOf[w] => v = w

\* A zone set has a status of its own exactly while it is stored: the state message
\* never falls back on ENABLED for a set without one.
StatusOfStored == \A z \in ZoneSets : zoneStatus[z] # "absent" <=> zoneSets[z] # NoMap

\* z and y are both in use on the same map.
Overlap(z, y) ==
    /\ zoneSets[z] # NoMap /\ zoneSets[z] = zoneSets[y]
    /\ zoneStatus[z] = "ENABLED" /\ zoneStatus[y] = "ENABLED"

\* Two zone sets of a map come to be ENABLED together only through the zoneSet
\* topic, where one of them is new: no sequence of downloads, enables, deletes and
\* changes of the robot's map brings it about.
OverlapStep ==
    \A z, y \in ZoneSets :
        z # y /\ Overlap(z, y)' => Overlap(z, y) \/ NoMap \in {zoneSets[z], zoneSets[y]}
OverlapOnlyByPush == [][OverlapStep]_vars

\* An ENABLED map goes out of use only for another version of it, by a delete, or
\* because it was downloaded twice.
DisplacedStep ==
    \A v \in Versions :
        maps[v] = "ENABLED" /\ maps'[v] = "DISABLED" =>
            \/ \E w \in Versions : MapOf[w] = MapOf[v] /\ maps'[w] = "ENABLED"
            \/ \E d, e \in Ids :
                 /\ d # e /\ Op[d] = "downloadMap" /\ Op[e] = "downloadMap"
                 /\ Target[d] = v /\ Target[e] = v
                 /\ st'[d] = "FINISHED" /\ st'[e] = "FINISHED"
EnabledUntilReplaced == [][DisplacedStep]_vars

Downloads(d, t) ==
    \/ Op[d] = "downloadMap" /\ Op[t] = "enableMap" /\ Target[d] = Target[t]
    \/ Op[d] = "downloadZoneSet" /\ Op[t] = "enableZoneSet" /\ Target[d] = Target[t]

Deleted(x) == \E t \in Ids : Op[t] \in {"deleteMap", "deleteZoneSet"} /\ Target[t] = x /\ st[t] = "FINISHED"

\* An instant enable may be sent right after the download of its target, without
\* waiting for it to end: when the enable fails, no download that was received before
\* it is still under way (those already visited by the tick are in instants), and one
\* that ended has been undone by a delete.  Retried and triggered downloads excepted.
EnableStep ==
    \A t \in Ids \ NodeIds :
        st[t] = "RUNNING" /\ st'[t] = "FAILED" =>
            \A d \in Ids \ (Retriable \cup TriggerIds) :
                Downloads(d, t) =>
                    /\ \A k \in DOMAIN instants : instants[k] # d
                    /\ st[d] = "FINISHED" => Deleted(Target[t])
EnableFollowsDownload == [][EnableStep]_vars

\* agv.py, handle_zone_set: a duplicate zoneSetId is rejected the same way whether it
\* is delivered by this topic or by downloadZoneSet.
PushedSetIsKept ==
    [][\A z \in geometry : zoneSets'[z] # NoMap => z \in geometry']_vars
=============================================================================
