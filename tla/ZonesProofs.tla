----------------------------- MODULE ZonesProofs -----------------------------
(* Type correctness of Zones, and what the gates promise when no two zones share *)
(* a zoneId.                                                                     *)
EXTENDS Zones, WellFoundedInduction, TLAPS

\* A non-empty set of natural numbers has a least element.
LEMMA Least ==
    ASSUME NEW S \in SUBSET Nat, S # {}
    PROVE  \E k \in S : \A j \in S : k <= j
<1> DEFINE Less == OpToRel(<, Nat)
<1>1. \E k \in S : \A j \in S : ~ (<<j, k>> \in Less)
  <2>1. IsWellFoundedOn(Less, Nat)
      BY NatLessThanWellFounded, Zenon
  <2> HIDE DEF Less
  <2> QED BY <2>1, WFMin
<1>2. \A j, k \in Nat : j < k => <<j, k>> \in Less
    BY SMT DEF OpToRel
<1> HIDE DEF Less
<1>3. PICK k \in S : \A j \in S : ~ (<<j, k>> \in Less)
    BY <1>1
<1>4. \A j \in S : ~ (j < k)
    BY <1>2, <1>3
<1>5. \A j \in S : k <= j
    BY <1>4
<1> QED BY <1>5

\* No two zones share a zoneId, in whatever zone sets.
UniqueIds == \A z, y \in Zones : ZoneId[z] = ZoneId[y] => z = y

LEMMA KeyOfZone ==
    ASSUME TypeOK, UniqueIds, NEW z \in Zones, IsStored(SetOf[z])
    PROVE  Key(z) = <<ZoneId[z], SetOf[z]>>
<1> DEFINE has == {k \in DOMAIN stored : \E y \in Zones : SetOf[y] = stored[k] /\ ZoneId[y] = ZoneId[z]}
<1>1. has \in SUBSET Nat
    BY DEF TypeOK
<1>2. has # {}
    BY DEF IsStored
<1>3. \A k \in has : stored[k] = SetOf[z]
    BY DEF UniqueIds
<1>4. SetFor(ZoneId[z]) = stored[CHOOSE k \in has : \A j \in has : k <= j]
    BY DEF SetFor
<1>5. \E k \in has : \A j \in has : k <= j
    BY <1>1, <1>2, Least
<1>6. (CHOOSE k \in has : \A j \in has : k <= j) \in has
    BY <1>5
<1> QED BY <1>3, <1>4, <1>6 DEF Key

-----------------------------------------------------------------------------
(* Types *)

LEMMA TypeInit == Init => TypeOK
<1> SUFFICES ASSUME Init PROVE TypeOK
    OBVIOUS
<1>1. pos \in Places /\ map \in Maps
    BY LineAssumption DEF Init, Maps
<1>2. stored \in Seq(Sets) /\ route \in Seq(Places)
    BY DEF Init
<1>3. req \in [ZoneIds \X Sets -> RequestStatuses] /\ lease \in [ZoneIds -> {"none", "valid", "past"}]
    BY DEF Init, RequestStatuses
<1>4. newBase \in BOOLEAN /\ occupied \subseteq Zones /\ registered \subseteq ZoneActions
    BY DEF Init
<1> QED BY <1>1, <1>2, <1>3, <1>4 DEF TypeOK

\* A tick keeps the types of the way: the robot stays on the line.
LEMMA DriveTypes ==
    ASSUME TypeOK, route # <<>>, Drive
    PROVE  pos' \in Places /\ map' \in Maps /\ route' \in Seq(Places)
<1>1. Head(route) \in Places /\ Tail(route) \in Seq(Places)
    BY DEF TypeOK
<1> DEFINE goal == Head(route)
<1>2. pos \in Places /\ pos \in Int /\ goal \in Places /\ goal \in Int
    BY <1>1, LineAssumption DEF TypeOK
<1>3. pos' \in Places
  <2> HIDE DEF goal
  <2>1. CASE goal > pos
    <3>1. pos + 1 \in pos..goal
        BY <1>2, <2>1
    <3> QED BY <1>2, <2>1, <3>1, LineAssumption DEF Drive, Toward, goal
  <2>2. CASE goal < pos
    <3>1. pos - 1 \in goal..pos
        BY <1>2, <2>2
    <3> QED BY <1>2, <2>2, <3>1, LineAssumption DEF Drive, Toward, goal
  <2>3. CASE goal = pos
      BY <1>2, <2>3 DEF Drive, Toward, goal
  <2> QED BY <1>2, <2>1, <2>2, <2>3
<1>4. map' \in Maps
    BY <1>3 DEF Drive, Maps, TypeOK
<1>5. route' \in Seq(Places)
    BY <1>1 DEF Drive, TypeOK
<1> QED BY <1>3, <1>4, <1>5

LEMMA RequestTypes ==
    ASSUME TypeOK
    PROVE  /\ Expired \in [ZoneIds \X Sets -> RequestStatuses]
           /\ Requested \in [ZoneIds \X Sets -> RequestStatuses]
<1>1. Expired \in [ZoneIds \X Sets -> RequestStatuses]
    BY DEF Expired, TypeOK, RequestStatuses
<1> QED BY <1>1 DEF Requested, RequestStatuses

LEMMA ZoneActionTypes ==
    ASSUME TypeOK, UpdateZoneActions
    PROVE  occupied' \subseteq Zones /\ registered' \subseteq ZoneActions
<1>1. Present \subseteq Zones
    BY DEF Present, ZonesAt
<1>2. /\ UNION {Entry[z] : z \in Unmatched(Present, occupied)} \subseteq ZoneActions
      /\ UNION {Exit[z] : z \in Unmatched(occupied, Present)} \subseteq ZoneActions
    BY <1>1 DEF Unmatched, ZoneActions, TypeOK
<1>3. occupied' = Present
    BY DEF UpdateZoneActions
<1> DEFINE entered == UNION {Entry[z] : z \in Unmatched(Present, occupied)}
           left == UNION {Exit[z] : z \in Unmatched(occupied, Present)}
<1>4. registered' = registered \cup entered \cup left
    BY DEF UpdateZoneActions
<1>5. registered \subseteq ZoneActions
    BY DEF TypeOK
<1> HIDE DEF entered, left
<1>6. entered \subseteq ZoneActions /\ left \subseteq ZoneActions
    BY <1>2 DEF entered, left
<1> QED BY <1>1, <1>3, <1>4, <1>5, <1>6

LEMMA TypeStep == TypeOK /\ [Next]_vars => TypeOK'
<1> SUFFICES ASSUME TypeOK, [Next]_vars PROVE TypeOK'
    OBVIOUS
<1> USE DEF driveVars, requestVars, actionVars
<1>1. CASE \E s \in Sets : HandleZoneSet(s) \/ DeleteZoneSet(s)
  <2>1. PICK s \in Sets : HandleZoneSet(s) \/ DeleteZoneSet(s)
      BY <1>1
  <2>2. stored' \in Seq(Sets)
    <3>1. CASE HandleZoneSet(s)
        BY <3>1 DEF HandleZoneSet, TypeOK
    <3>2. CASE DeleteZoneSet(s)
      <4>1. PICK k \in DOMAIN stored :
              stored' = SubSeq(stored, 1, k - 1) \o SubSeq(stored, k + 1, Len(stored))
          BY <3>2 DEF DeleteZoneSet
      <4>2. /\ SubSeq(stored, 1, k - 1) \in Seq(Sets)
            /\ SubSeq(stored, k + 1, Len(stored)) \in Seq(Sets)
          BY DEF TypeOK
      <4> QED BY <4>1, <4>2
    <3> QED BY <2>1, <3>1, <3>2
  <2> QED BY <2>1, <2>2 DEF HandleZoneSet, DeleteZoneSet, TypeOK
<1>2. CASE \E r \in Routes : AcceptNewOrder(r) \/ AcceptUpdate(r)
  <2>1. PICK r \in Routes : AcceptNewOrder(r) \/ AcceptUpdate(r)
      BY <1>2
  <2>2. route' \in Seq(Places) /\ newBase' \in BOOLEAN /\ lease' = lease
      BY <2>1, LineAssumption DEF AcceptNewOrder, AcceptUpdate
  <2>3. req' \in [ZoneIds \X Sets -> RequestStatuses]
      BY <2>1 DEF AcceptNewOrder, AcceptUpdate, TypeOK, RequestStatuses
  <2>4. UNCHANGED <<stored, pos, map, occupied, registered>>
      BY <2>1 DEF AcceptNewOrder, AcceptUpdate
  <2> QED BY <2>2, <2>3, <2>4 DEF TypeOK
<1>3. CASE ClearActiveOrder
  <2>1. req' \in [ZoneIds \X Sets -> RequestStatuses]
      BY <1>3 DEF ClearActiveOrder, RequestStatuses
  <2>2. route' \in Seq(Places) /\ newBase' \in BOOLEAN
    <3>1. <<>> \in Seq(Places)
        OBVIOUS
    <3> QED BY <1>3, <3>1, Zenon DEF ClearActiveOrder
  <2>3. UNCHANGED <<stored, pos, map, lease, occupied, registered>>
      BY <1>3 DEF ClearActiveOrder
  <2> QED BY <2>1, <2>2, <2>3 DEF TypeOK
<1>4. CASE \E i \in ZoneIds, grant \in {"GRANTED", "REVOKED", "same"}, withLease \in BOOLEAN :
             HandleResponse(i, grant, withLease)
  <2>1. PICK i \in ZoneIds, grant \in {"GRANTED", "REVOKED", "same"}, withLease \in BOOLEAN :
             HandleResponse(i, grant, withLease)
      BY <1>4
  <2>2. req' \in [ZoneIds \X Sets -> RequestStatuses]
      BY <2>1 DEF HandleResponse, TypeOK, RequestStatuses
  <2>3. lease' \in [ZoneIds -> {"none", "valid", "past"}]
      BY <2>1 DEF HandleResponse, TypeOK
  <2> QED BY <2>1, <2>2, <2>3 DEF HandleResponse, TypeOK
<1>5. CASE \E i \in ZoneIds : LeaseRunsOut(i)
    BY <1>5 DEF LeaseRunsOut, TypeOK
<1>6. CASE Tick
  <2>1. occupied' \subseteq Zones /\ registered' \subseteq ZoneActions
      BY <1>6, ZoneActionTypes DEF Tick
  <2>2. CASE Stay
      BY <1>6, <2>1, <2>2, RequestTypes DEF Tick, Stay, TypeOK
  <2>3. CASE Wait
    <3>1. newBase' \in BOOLEAN
        BY <2>3 DEF Wait
    <3> QED BY <1>6, <2>1, <2>3, <3>1, RequestTypes DEF Tick, Wait, TypeOK
  <2>4. CASE route # <<>> /\ Drive
    <3>1. pos' \in Places /\ map' \in Maps /\ route' \in Seq(Places)
        BY <2>4, DriveTypes
    <3> QED BY <1>6, <2>1, <2>4, <3>1, RequestTypes DEF Tick, Drive, TypeOK
  <2> QED BY <1>6, <2>2, <2>3, <2>4 DEF Tick
<1>7. CASE \E to \in Landings : InitializePosition(to[1], to[2])
  <2>1. PICK to \in Landings : InitializePosition(to[1], to[2])
      BY <1>7
  <2>2. to[1] \in Places /\ to[2] \in Maps
      BY LineAssumption
  <2> QED BY <2>1, <2>2 DEF InitializePosition, TypeOK
<1>8. CASE UNCHANGED vars
    BY <1>8 DEF vars, TypeOK
<1> QED BY <1>1, <1>2, <1>3, <1>4, <1>5, <1>6, <1>7, <1>8 DEF Next

\* Type correctness of what zones do to a robot.
THEOREM TypeCorrect == Spec => []TypeOK
BY TypeInit, TypeStep, PTL DEF Spec

-----------------------------------------------------------------------------
(* The gates *)

LEMMA EntryNeedsPermission ==
    ASSUME TypeOK, UniqueIds
    PROVE  EntryStep
<1> SUFFICES ASSUME Tick, pos' # pos, NEW z \in ZonesAt(Head(route))
             PROVE  /\ ~Closed(z)
                    /\ Kind[z] = "access" =>
                         req[<<ZoneId[z], SetOf[z]>>] = "GRANTED" /\ lease[ZoneId[z]] # "past"
    BY DEF EntryStep
<1>1. ~Held
    BY DEF Tick, Stay, Wait, Drive, driveVars
<1>2. z \in Zones /\ IsStored(SetOf[z])
    BY DEF ZonesAt
<1>3. ~Closed(z)
    BY <1>1 DEF Held, Ahead
<1>4. ASSUME Kind[z] = "access"
      PROVE  req[<<ZoneId[z], SetOf[z]>>] = "GRANTED" /\ lease[ZoneId[z]] # "past"
  <2>1. Key(z) = <<ZoneId[z], SetOf[z]>>
      BY <1>2, KeyOfZone
  <2>2. Expired[Key(z)] = "GRANTED"
      BY <1>1, <1>4 DEF Held, Ahead
  <2>3. <<ZoneId[z], SetOf[z]>> \in ZoneIds \X Sets
      BY <1>2, ZonesAssumption DEF ZoneIds
  <2>4. Expired[<<ZoneId[z], SetOf[z]>>] =
          IF req[<<ZoneId[z], SetOf[z]>>] = "GRANTED" /\ lease[ZoneId[z]] = "past"
          THEN "EXPIRED" ELSE req[<<ZoneId[z], SetOf[z]>>]
      BY <2>3 DEF Expired
  <2> QED BY <2>1, <2>2, <2>4
<1> QED BY <1>3, <1>4

\* If no two zones share a zoneId, the robot moves only when every zone around its next
\* node is open to it by name (agv.py, _check_access_gates).
THEOREM EntryIsPermittedAlways ==
    ASSUME UniqueIds
    PROVE  Spec => EntryIsPermitted
<1>1. TypeOK /\ [Next]_vars => [EntryStep]_vars
    BY EntryNeedsPermission
<1> QED BY <1>1, TypeCorrect, PTL DEF Spec, EntryIsPermitted

-----------------------------------------------------------------------------
(* The zone actions *)

\* No two zones share an actionId, and no zone has one on entry and on exit.
DistinctActions ==
    /\ \A z \in Zones : Entry[z] \cap Exit[z] = {}
    /\ \A z, y \in Zones : z # y => (Entry[z] \cup Exit[z]) \cap (Entry[y] \cup Exit[y]) = {}

\* A zone that counts as entered has its entry actions registered, and so has one
\* with an exit action registered.
EnteredInv ==
    /\ \A z \in occupied : Entry[z] \subseteq registered
    /\ \A z \in Zones : Exit[z] \cap registered # {} => Entry[z] \subseteq registered

LEMMA EnteredInit == Init => EnteredInv
BY DEF Init, EnteredInv

LEMMA EnteredByTick ==
    ASSUME UniqueIds, DistinctActions, TypeOK, EnteredInv, UpdateZoneActions
    PROVE  EnteredInv'
<1> DEFINE entered == Unmatched(Present, occupied)
           left == Unmatched(occupied, Present)
<1>1. /\ occupied' = Present
      /\ registered' = registered \cup (UNION {Entry[z] : z \in entered}) \cup (UNION {Exit[z] : z \in left})
    BY DEF UpdateZoneActions
<1>2. Present \subseteq Zones /\ occupied \subseteq Zones
    BY DEF Present, ZonesAt, TypeOK
<1>3. \A z \in Present : z \in entered \/ z \in occupied
    BY <1>2 DEF Unmatched, UniqueIds
<1>4. left \subseteq occupied /\ entered \subseteq Zones
    BY <1>2 DEF Unmatched
<1> HIDE DEF entered, left
<1>5. registered \subseteq registered' /\ \A z \in entered : Entry[z] \subseteq registered'
    BY <1>1
<1>6. \A z \in occupied' : Entry[z] \subseteq registered'
    BY <1>1, <1>3, <1>5 DEF EnteredInv
<1>7. ASSUME NEW z \in Zones, Exit[z] \cap registered' # {}
      PROVE  Entry[z] \subseteq registered'
  <2>1. PICK a \in Exit[z] : a \in registered'
      BY <1>7
  <2>2. CASE a \in registered
      BY <2>1, <2>2, <1>5 DEF EnteredInv
  <2>3. CASE \E y \in entered : a \in Entry[y]
    <3>1. PICK y \in Zones : a \in Entry[y]
        BY <2>3, <1>4
    <3> QED BY <2>1, <3>1 DEF DistinctActions
  <2>4. CASE \E y \in left : a \in Exit[y]
    <3>1. PICK y \in left : a \in Exit[y]
        BY <2>4
    <3>2. y = z
        BY <2>1, <3>1, <1>2, <1>4 DEF DistinctActions
    <3>3. z \in occupied
        BY <3>1, <3>2, <1>4
    <3> QED BY <3>3, <1>5 DEF EnteredInv
  <2> QED BY <1>1, <2>1, <2>2, <2>3, <2>4
<1> QED BY <1>6, <1>7 DEF EnteredInv

LEMMA EnteredStep ==
    ASSUME UniqueIds, DistinctActions, TypeOK, EnteredInv, [Next]_vars
    PROVE  EnteredInv'
<1>1. CASE Tick
    BY <1>1, EnteredByTick DEF Tick
<1>2. CASE UNCHANGED actionVars
    BY <1>2 DEF actionVars, EnteredInv
<1>3. Tick \/ UNCHANGED actionVars
    BY DEF Next, vars, HandleZoneSet, DeleteZoneSet, AcceptNewOrder, AcceptUpdate, ClearActiveOrder,
       HandleResponse, LeaseRunsOut, InitializePosition
<1> QED BY <1>1, <1>2, <1>3

\* If no two zones share a zoneId or an actionId, a zone's exit actions are registered
\* only after its entry actions (agv.py, _update_zone_actions).
THEOREM ExitAfterEntryAlways ==
    ASSUME UniqueIds, DistinctActions
    PROVE  Spec => []ExitAfterEntry
<1>1. EnteredInv => ExitAfterEntry
    BY DEF EnteredInv, ExitAfterEntry
<1>2. TypeOK /\ EnteredInv /\ [Next]_vars => EnteredInv'
    BY EnteredStep
<1> QED BY <1>1, <1>2, EnteredInit, TypeCorrect, PTL DEF Spec
=============================================================================
