------------------------------- MODULE Zones -------------------------------
(***************************************************************************)
(* What zones do to a robot: the access gates and the zone actions of      *)
(* class SimulatedAgv in src/vda5050_sim/agv.py.                           *)
(*                                                                         *)
(* The robot drives along a line of places, one place per tick at most,    *)
(* from node to node; a zone covers some of the places of its map.  Before *)
(* every move the gates look at the zones around the next node, and every  *)
(* tick looks at the ACTION zones around the robot.                        *)
(*                                                                         *)
(* What is abstracted.  On a line there are two headings, and a DIRECTED   *)
(* or BIDIRECTED zone is open to one of them; one that is open to both, or *)
(* SOFT, is no zone here.  Why else a tick leaves the robot where it is    *)
(* (pauses, faults, actions, corridors) is the business of module Agv, and *)
(* when zone sets come and go that of module Store; a set without geometry *)
(* is one that is not stored.  SPEED_LIMIT zones only change how long a    *)
(* drive takes, which is in module Motion.  Nodes have positions, and zone *)
(* actions are ones the robot supports; what becomes of them once          *)
(* registered is the action machine of module Agv.                         *)
(***************************************************************************)
EXTENDS Integers, Sequences

CONSTANTS
    Places,         \* positions on the line
    Start,          \* where the robot starts
    MapAt,          \* MapAt[p]: the map of a node at p
    Routes,         \* routes of orders: the places of the nodes ahead
    Landings,       \* pairs of a place and a map that initializePosition may name
    Sets,           \* zone sets fleet control may send
    MapOf,          \* MapOf[s]: the map of zone set s
    Zones,          \* the zones of all sets
    SetOf,          \* SetOf[z]: the zone set z belongs to
    ZoneId,         \* ZoneId[z]: its zoneId
    Kind,           \* what the zone is to the robot, one of Kinds
    Covers,         \* Covers[z]: the places inside its polygon
    Entry, Exit     \* actionIds of an action zone: entry and during, exit

ZoneIds == {ZoneId[z] : z \in Zones}
Maps == {MapAt[p] : p \in Places} \cup {MapOf[s] : s \in Sets}
ZoneActions == UNION {Entry[z] \cup Exit[z] : z \in Zones}
RequestStatuses == {"none", "REQUESTED", "GRANTED", "REVOKED", "EXPIRED"}

\* access: RELEASE or COORDINATED_REPLANNING; rightward, leftward: DIRECTED or
\* BIDIRECTED with a limitation other than SOFT, open to that heading only.
Kinds == {"access", "blocked", "rightward", "leftward", "action"}

ASSUME LineAssumption ==
    /\ Places \subseteq Int /\ Start \in Places
    /\ \A a, b \in Places : a..b \subseteq Places
    /\ Routes \subseteq Seq(Places)
    /\ Landings \subseteq Places \X Maps

ASSUME ZonesAssumption ==
    /\ SetOf \in [Zones -> Sets]
    /\ Kind \in [Zones -> Kinds]
    /\ \A z, y \in Zones : SetOf[z] = SetOf[y] /\ ZoneId[z] = ZoneId[y] => z = y
    /\ \A z \in Zones : Covers[z] \subseteq Places

VARIABLES
    stored,         \* the stored zone sets, oldest first
    pos, map,       \* where the robot is, and map_id
    route,          \* the nodes ahead of it (<<>>: idle)
    req,            \* requestStatus per zoneId and zone set ("none": no request)
    lease,          \* the lease on file per requestId, which is made from the zoneId
    newBase,        \* new_base_request, as far as zones set it
    occupied,       \* _zone_occupancy
    registered      \* actionIds of zones in _action_registry

driveVars == <<pos, map, route, newBase>>
requestVars == <<req, lease>>
actionVars == <<occupied, registered>>
vars == <<stored, driveVars, requestVars, actionVars>>

TypeOK ==
    /\ stored \in Seq(Sets)
    /\ pos \in Places /\ map \in Maps
    /\ route \in Seq(Places)
    /\ req \in [ZoneIds \X Sets -> RequestStatuses]
    /\ lease \in [ZoneIds -> {"none", "valid", "past"}]
    /\ newBase \in BOOLEAN
    /\ occupied \subseteq Zones
    /\ registered \subseteq ZoneActions

Init ==
    /\ stored = <<>>
    /\ pos = Start /\ map = MapAt[Start]
    /\ route = <<>> /\ newBase = FALSE
    /\ req = [k \in ZoneIds \X Sets |-> "none"]
    /\ lease = [i \in ZoneIds |-> "none"]
    /\ occupied = {} /\ registered = {}

-----------------------------------------------------------------------------
(* What is stored *)

IsStored(s) == \E k \in DOMAIN stored : stored[k] = s

\* _zone_objects_containing
ZonesAt(p) == {z \in Zones : IsStored(SetOf[z]) /\ MapOf[SetOf[z]] = map /\ p \in Covers[z]}

\* Mutant of HandleZoneSet: action zones around the robot count as entered already.
HandleZoneSetOccupying(s) ==
    /\ ~IsStored(s)
    /\ stored' = Append(stored, s)
    /\ occupied' = occupied \cup {z \in Zones : SetOf[z] = s /\ Kind[z] = "action" /\ pos \in Covers[z]}
    /\ UNCHANGED <<driveVars, requestVars, registered>>

HandleZoneSet(s) ==
    /\ ~IsStored(s)
    /\ stored' = Append(stored, s)
    /\ UNCHANGED <<driveVars, requestVars, actionVars>>

DeleteZoneSet(s) ==
    /\ \E k \in DOMAIN stored :
         /\ stored[k] = s
         /\ stored' = SubSeq(stored, 1, k - 1) \o SubSeq(stored, k + 1, Len(stored))
    /\ UNCHANGED <<driveVars, requestVars, actionVars>>

-----------------------------------------------------------------------------
(* Orders, responses and leases *)

\* A new order starts without requests; the leases on file stay.
AcceptNewOrder(r) ==
    /\ route = <<>>
    /\ route' = r
    /\ newBase' = FALSE
    /\ req' = [k \in ZoneIds \X Sets |-> "none"]
    /\ UNCHANGED <<stored, pos, map, lease, actionVars>>

\* An update replaces the nodes ahead, also when none is left, and keeps the requests.
\* Without an order there are none, and the step is that of a new order.
AcceptUpdate(r) ==
    /\ route' = r
    /\ newBase' = FALSE
    /\ UNCHANGED <<stored, pos, map, requestVars, actionVars>>

ClearActiveOrder ==
    /\ route' = <<>>
    /\ newBase' = FALSE
    /\ req' = [k \in ZoneIds \X Sets |-> "none"]
    /\ UNCHANGED <<stored, pos, map, lease, actionVars>>

\* Mutant of HandleResponse: QUEUED is taken for a status of the request.
HandleResponseQueued(i, grant, withLease) ==
    /\ \E s \in Sets : req[<<i, s>>] # "none"
    /\ req' = [k \in ZoneIds \X Sets |->
                 IF k[1] = i /\ req[k] # "none" THEN (IF grant = "same" THEN "QUEUED" ELSE grant) ELSE req[k]]
    /\ lease' = [lease EXCEPT ![i] = IF withLease THEN "valid" ELSE @]
    /\ UNCHANGED <<stored, driveVars, actionVars>>

\* _apply_response reaches every request with the requestId; "same" is QUEUED.
HandleResponse(i, grant, withLease) ==
    /\ \E s \in Sets : req[<<i, s>>] # "none"
    /\ req' = [k \in ZoneIds \X Sets |->
                 IF k[1] = i /\ req[k] # "none" /\ grant # "same" THEN grant ELSE req[k]]
    /\ lease' = [lease EXCEPT ![i] = IF withLease THEN "valid" ELSE @]
    /\ UNCHANGED <<stored, driveVars, actionVars>>

LeaseRunsOut(i) ==
    /\ lease[i] = "valid"
    /\ lease' = [lease EXCEPT ![i] = "past"]
    /\ UNCHANGED <<stored, driveVars, req, actionVars>>

\* _check_lease_expiry
Expired ==
    [k \in ZoneIds \X Sets |-> IF req[k] = "GRANTED" /\ lease[k[1]] = "past" THEN "EXPIRED" ELSE req[k]]

\* The effect of an initializePosition action: the robot is where it is told to be.
InitializePosition(p, m) ==
    /\ pos' = p /\ map' = m
    /\ UNCHANGED <<stored, route, newBase, requestVars, actionVars>>

-----------------------------------------------------------------------------
(* Zone actions *)

\* The ACTION zones around the robot.  Of zones with one zoneId the last one counts.
Present ==
    LET around == {z \in ZonesAt(pos) : Kind[z] = "action"}
        Rank(z) == CHOOSE k \in DOMAIN stored : stored[k] = SetOf[z]
    IN {z \in around : \A y \in around : ZoneId[y] = ZoneId[z] => Rank(y) <= Rank(z)}

\* Zones of zs whose zoneId is not among those of others.
Unmatched(zs, others) == {z \in zs : \A y \in others : ZoneId[y] # ZoneId[z]}

\* _update_zone_actions
UpdateZoneActions ==
    /\ occupied' = Present
    /\ registered' = registered
         \cup (UNION {Entry[z] : z \in Unmatched(Present, occupied)})
         \cup (UNION {Exit[z] : z \in Unmatched(occupied, Present)})

-----------------------------------------------------------------------------
(* The access gates *)

\* _zone_set_id_for: the first stored set, of whatever map, that has the zoneId.
SetFor(i) ==
    LET has == {k \in DOMAIN stored : \E z \in Zones : SetOf[z] = stored[k] /\ ZoneId[z] = i}
    IN stored[CHOOSE k \in has : \A j \in has : k <= j]

Key(z) == <<ZoneId[z], SetFor(ZoneId[z])>>

\* Mutant of Ahead: the zones are looked up where the robot is.
AheadHere == ZonesAt(pos)

\* The zones around the next node.
Ahead == ZonesAt(Head(route))

\* BLOCKED, or against the heading.  A robot that stands at the node heads to the right.
Closed(z) ==
    \/ Kind[z] = "blocked"
    \/ Kind[z] = "rightward" /\ Head(route) < pos
    \/ Kind[z] = "leftward" /\ Head(route) >= pos

\* _check_access_gates holds the robot ...
Held == \E z \in Ahead : Closed(z) \/ (Kind[z] = "access" /\ Expired[Key(z)] # "GRANTED")

\* ... and asks for what it has not asked for yet.
Requested ==
    [k \in ZoneIds \X Sets |->
       IF Expired[k] = "none" /\ \E z \in Ahead : Kind[z] = "access" /\ k = Key(z)
       THEN "REQUESTED" ELSE Expired[k]]

Wait ==
    /\ Held
    /\ req' = Requested
    /\ newBase' = (newBase \/ \E z \in Ahead : Closed(z))
    /\ UNCHANGED <<pos, map, route>>

\* A step towards the next node; at the node the robot is on its map.
Toward(p) == IF p > pos THEN pos + 1 ELSE IF p < pos THEN pos - 1 ELSE pos

Drive ==
    /\ ~Held
    /\ req' = Expired
    /\ pos' = Toward(Head(route))
    /\ IF pos' = Head(route)
       THEN route' = Tail(route) /\ map' = MapAt[pos']
       ELSE UNCHANGED <<route, map>>
    /\ UNCHANGED newBase

\* The tick ends before it gets to the gates.
Stay ==
    /\ req' = Expired
    /\ UNCHANGED driveVars

Tick ==
    /\ UpdateZoneActions
    /\ Stay \/ (route # <<>> /\ (Wait \/ Drive))
    /\ UNCHANGED <<stored, lease>>

-----------------------------------------------------------------------------
Next ==
    \/ \E s \in Sets : HandleZoneSet(s) \/ DeleteZoneSet(s)
    \/ \E r \in Routes : AcceptNewOrder(r) \/ AcceptUpdate(r)
    \/ ClearActiveOrder
    \/ \E i \in ZoneIds, grant \in {"GRANTED", "REVOKED", "same"}, withLease \in BOOLEAN :
         HandleResponse(i, grant, withLease)
    \/ \E i \in ZoneIds : LeaseRunsOut(i)
    \/ \E to \in Landings : InitializePosition(to[1], to[2])
    \/ Tick

Spec == Init /\ [][Next]_vars

-----------------------------------------------------------------------------
(* Properties *)

\* A tick moves the robot towards a node only if every zone of its map around the node is
\* open to it at that moment: none is closed to its heading, and the request that names
\* the zone and its zone set is GRANTED with a lease that is not past.  Zone sets,
\* revocations and the end of a lease may come in at any point of the way.
EntryStep ==
    Tick /\ pos' # pos =>
        \A z \in ZonesAt(Head(route)) :
            /\ ~Closed(z)
            /\ Kind[z] = "access" => req[<<ZoneId[z], SetOf[z]>>] = "GRANTED" /\ lease[ZoneId[z]] # "past"
EntryIsPermitted == [][EntryStep]_vars

\* A zone's exit actions never run before its entry actions, whether the robot leaves
\* the zone or the zone set is deleted, and wherever the robot is when it comes in.
ExitAfterEntry ==
    \A z \in Zones :
        Kind[z] = "action" /\ Exit[z] # {} /\ Exit[z] \subseteq registered => Entry[z] \subseteq registered
=============================================================================
