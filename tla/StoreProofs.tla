----------------------------- MODULE StoreProofs -----------------------------
(* Type correctness of Store and the invariants of what it stores. *)
EXTENDS Store, TLAPS

\* A step changes what is stored only by a push or by the effect of the action that
\* the tick ends.
LEMMA StoreStep ==
    ASSUME Next, TypeOK
    PROVE  \/ UNCHANGED <<maps, zoneSets, geometry, zoneStatus, mapId>>
           \/ \E m \in Maps : ArriveOnMap(m)
           \/ \E push \in Pushes : HandleZoneSet(push[1], push[2])
           \/ todo # <<>> /\ ApplyActionEffect(Head(todo))
<1>1. CASE \E i \in Ids \ NodeIds : ReceiveInstant(i)
    BY <1>1 DEF ReceiveInstant, mapVars, zoneVars
<1>2. CASE \E o \in Orders : AcceptOrder(o) \/ ExtendOrder(o)
    BY <1>2 DEF AcceptOrder, ExtendOrder, mapVars, zoneVars
<1>3. CASE ClearActiveOrder
    BY <1>3 DEF ClearActiveOrder, mapVars, zoneVars
<1>4. CASE \/ \E t \in TriggerIds : Trigger(t)
           \/ \E t \in Retriable : FailAction(t)
           \/ \E t \in Ids : Retry(t) \/ SkipRetry(t)
    BY <1>4 DEF Trigger, FailAction, Retry, SkipRetry, SetStatus, mapVars, zoneVars
<1>5. CASE Sweep
    BY <1>5 DEF Sweep, mapVars, zoneVars
<1>6. CASE AdvanceOne
    BY <1>6 DEF AdvanceOne, Continue, Finish, Skip, mapVars, zoneVars
<1> QED BY <1>1, <1>2, <1>3, <1>4, <1>5, <1>6 DEF Next

\* The action a tick visits next is one the robot was sent.
LEMMA HeadOfTodo ==
    ASSUME ListTypeOK, todo # <<>>
    PROVE  Head(todo) \in Ids /\ Tail(todo) \in Seq(Ids)
BY DEF ListTypeOK

\* Effects keep the types of the store.
LEMMA EffectTypes ==
    ASSUME StoreTypeOK, NEW t \in Ids, ApplyActionEffect(t)
    PROVE  StoreTypeOK'
<1> USE KeysAssumption, IdsAssumption DEF StoreTypeOK, Stored, MapOps, ZoneOps, mapVars, zoneVars
<1>1. CASE DownloadMap(t)
    BY <1>1 DEF DownloadMap
<1>2. CASE EnableMap(t)
    BY <1>2 DEF EnableMap
<1>3. CASE DeleteMap(t)
    BY <1>3 DEF DeleteMap
<1>4. CASE DownloadZoneSet(t)
    BY <1>4 DEF DownloadZoneSet
<1>5. CASE EnableZoneSet(t)
    BY <1>5 DEF EnableZoneSet
<1>6. CASE DeleteZoneSet(t)
    BY <1>6 DEF DeleteZoneSet
<1>7. CASE InitializePosition(t)
    BY <1>7 DEF InitializePosition
<1> QED BY <1>1, <1>2, <1>3, <1>4, <1>5, <1>6, <1>7 DEF ApplyActionEffect

LEMMA StoreTypes ==
    ASSUME TypeOK, Next
    PROVE  StoreTypeOK'
<1>1. CASE UNCHANGED <<maps, zoneSets, geometry, zoneStatus, mapId>>
    BY <1>1 DEF TypeOK, StoreTypeOK
<1>2. CASE \E push \in Pushes : HandleZoneSet(push[1], push[2])
  <2>1. PICK push \in Pushes : HandleZoneSet(push[1], push[2])
      BY <1>2
  <2>2. push[1] \in ZoneSets /\ push[2] \in Maps
      BY KeysAssumption
  <2> QED BY <2>1, <2>2 DEF HandleZoneSet, TypeOK, StoreTypeOK, Stored, mapVars
<1>3. CASE todo # <<>> /\ ApplyActionEffect(Head(todo))
    BY <1>3, HeadOfTodo, EffectTypes DEF TypeOK
<1>4. CASE \E m \in Maps : ArriveOnMap(m)
    BY <1>4 DEF ArriveOnMap, TypeOK, StoreTypeOK, mapVars, zoneVars
<1> QED BY <1>1, <1>2, <1>3, <1>4, StoreStep

-----------------------------------------------------------------------------
(* Types of the lists, the statuses and the timers *)

\* Every effect ends its action, FINISHED or FAILED.
LEMMA EffectEnds ==
    ASSUME NEW t \in Ids, ApplyActionEffect(t)
    PROVE  \E status \in Terminal : st' = [st EXCEPT ![t] = status]
BY DEF ApplyActionEffect, DownloadMap, EnableMap, DeleteMap, DownloadZoneSet, EnableZoneSet,
    DeleteZoneSet, InitializePosition, Ends, Terminal

\* Lists of actions grow by actions and by lists of actions.
LEMMA Lists ==
    ASSUME NEW S, NEW list \in Seq(S)
    PROVE  /\ <<>> \in Seq(S)
           /\ \A x \in S : Append(list, x) \in Seq(S)
           /\ \A more \in Seq(S) : list \o more \in Seq(S)
OBVIOUS

LEMMA ListGrows ==
    ASSUME NEW S, NEW list \in Seq(S), NEW x \in S, NEW grown \in {list, Append(list, x)}
    PROVE  grown \in Seq(S)
OBVIOUS

LEMMA ActionTypes ==
    ASSUME TypeOK, Next
    PROVE  ListTypeOK' /\ st' \in [Ids -> Statuses] /\ ran' \in [Ids -> 0..Duration]
<1> USE IdsAssumption DEF TypeOK, ListTypeOK, Statuses
<1>1. CASE \E i \in Ids \ NodeIds : ReceiveInstant(i)
  <2>1. PICK i \in Ids : ReceiveInstant(i)
      BY <1>1
  <2>2. \E status \in Statuses : st' = [st EXCEPT ![i] = status]
      BY <2>1 DEF ReceiveInstant
  <2>3. instants' = instants \/ instants' = Append(instants, i)
      BY <2>1 DEF ReceiveInstant
  <2>4. UNCHANGED <<ordered, todo, ran>>
      BY <2>1 DEF ReceiveInstant
  <2>5. ListTypeOK'
    <3>1. instants' \in {instants, Append(instants, i)} /\ instants \in Seq(Ids)
        BY <2>3
    <3>2. instants' \in Seq(Ids)
        BY ONLY <3>1, i \in Ids, ListGrows
    <3> QED BY <2>4, <3>2
  <2> QED BY <2>2, <2>4, <2>5
<1>2. CASE \E o \in Orders : AcceptOrder(o) \/ ExtendOrder(o)
  <2>1. PICK o \in Orders : AcceptOrder(o) \/ ExtendOrder(o)
      BY <1>2
  <2>2. o \in Seq(Ids)
      OBVIOUS
  <2>3. ordered' \in {<<>>, o, ordered \o o} /\ UNCHANGED <<instants, todo, ran>>
      BY <2>1 DEF AcceptOrder, ExtendOrder
  <2>4. ListTypeOK'
    <3>1. <<>> \in Seq(Ids) /\ ordered \o o \in Seq(Ids)
        BY <2>2, Lists
    <3> QED BY <2>2, <2>3, <3>1
  <2>5. st' \in [Ids -> Statuses]
    <3>1. CASE AcceptOrder(o)
        BY <3>1 DEF AcceptOrder
    <3>2. CASE ExtendOrder(o)
        BY <3>2 DEF ExtendOrder
    <3> QED BY <2>1, <3>1, <3>2
  <2> QED BY <2>3, <2>4, <2>5
<1>3. CASE ClearActiveOrder
    BY <1>3 DEF ClearActiveOrder
<1>4. CASE \E push \in Pushes : HandleZoneSet(push[1], push[2])
    BY <1>4 DEF HandleZoneSet, actionVars
<1>5. CASE \E m \in Maps : ArriveOnMap(m)
    BY <1>5 DEF ArriveOnMap, actionVars
<1>6. CASE \/ \E t \in TriggerIds : Trigger(t)
           \/ \E t \in Retriable : FailAction(t)
           \/ \E t \in Ids : Retry(t) \/ SkipRetry(t)
    BY <1>6 DEF Trigger, FailAction, Retry, SkipRetry, SetStatus
<1>7. CASE Sweep
    BY <1>7 DEF Sweep
<1>8. CASE AdvanceOne
  <2> DEFINE t == Head(todo)
  <2>1. t \in Ids /\ Tail(todo) \in Seq(Ids)
      BY <1>8, HeadOfTodo DEF AdvanceOne
  <2>2. ListTypeOK'
    <3>1. /\ todo' = Tail(todo)
          /\ ordered' \in {ordered, Append(ordered, t)}
          /\ instants' \in {instants, Append(instants, t)}
        BY <1>8 DEF AdvanceOne
    <3> HIDE DEF t
    <3>0. ordered \in Seq(Ids) /\ instants \in Seq(Ids)
        OBVIOUS
    <3>2. ordered' \in Seq(Ids)
        BY ONLY <2>1, <3>0, <3>1, ListGrows
    <3>3. instants' \in Seq(Ids)
        BY ONLY <2>1, <3>0, <3>1, ListGrows
    <3> QED BY <2>1, <3>1, <3>2, <3>3
  <2>3. CASE Continue(t)
      BY <2>1, <2>2, <2>3 DEF Continue, Due, Active
  <2>4. CASE Finish(t)
    <3>1. ran' \in [Ids -> 0..Duration]
      <4>1. ran' = [ran EXCEPT ![t] = 0]
          BY <2>4 DEF Finish
      <4>2. 0 \in 0..Duration
          OBVIOUS
      <4> HIDE DEF t
      <4> QED BY <4>1, <4>2
    <3>2. PICK status \in Terminal : st' = [st EXCEPT ![t] = status]
        BY <2>1, <2>4, EffectEnds DEF Finish
    <3> QED BY <2>2, <3>1, <3>2 DEF Terminal
  <2>5. CASE Skip(t)
      BY <2>2, <2>5 DEF Skip
  <2> QED BY <1>8, <2>3, <2>4, <2>5 DEF AdvanceOne
<1> QED BY <1>1, <1>2, <1>3, <1>4, <1>5, <1>6, <1>7, <1>8 DEF Next

-----------------------------------------------------------------------------
(* The invariant: each part is inductive next to the types *)

Inv == TypeOK /\ OneVersionEnabled /\ StatusOfStored

LEMMA InvInit == Init => Inv
BY KeysAssumption, IdsAssumption
   DEF Init, Inv, TypeOK, StoreTypeOK, ListTypeOK, OneVersionEnabled, StatusOfStored, Stored, Statuses

LEMMA OneVersionStep ==
    ASSUME Inv, Next
    PROVE  OneVersionEnabled'
<1> USE DEF Inv, OneVersionEnabled
<1>1. CASE UNCHANGED maps
    BY <1>1
<1>2. CASE todo # <<>> /\ ApplyActionEffect(Head(todo)) /\ ~UNCHANGED maps
  <2> DEFINE t == Head(todo)
  <2>1. t \in Ids
      BY <1>2, HeadOfTodo DEF TypeOK
  <2>2. DownloadMap(t) \/ EnableMap(t) \/ DeleteMap(t)
      BY <1>2 DEF ApplyActionEffect, DownloadZoneSet, EnableZoneSet, DeleteZoneSet,
         InitializePosition, mapVars
  <2> HIDE DEF t
  <2> USE KeysAssumption, IdsAssumption DEF TypeOK, StoreTypeOK, MapOps, ZoneOps
  <2>3. CASE DownloadMap(t)
      BY <2>1, <2>3 DEF DownloadMap
  <2>4. CASE EnableMap(t)
      BY <1>2, <2>1, <2>4 DEF EnableMap
  <2>5. CASE DeleteMap(t)
      BY <2>1, <2>5 DEF DeleteMap
  <2> QED BY <2>2, <2>3, <2>4, <2>5
<1> QED BY <1>1, <1>2, StoreStep DEF HandleZoneSet, ArriveOnMap, mapVars

LEMMA StatusStep ==
    ASSUME Inv, Next
    PROVE  StatusOfStored'
<1> USE DEF Inv, StatusOfStored
<1>1. CASE UNCHANGED <<zoneSets, zoneStatus>>
    BY <1>1
<1>2. CASE \E push \in Pushes : HandleZoneSet(push[1], push[2])
  <2>1. PICK push \in Pushes : HandleZoneSet(push[1], push[2])
      BY <1>2
  <2>2. push[1] \in ZoneSets /\ push[2] \in Maps
      BY KeysAssumption
  <2> QED BY <2>1, <2>2, KeysAssumption DEF HandleZoneSet, TypeOK, StoreTypeOK
<1>3. CASE todo # <<>> /\ ApplyActionEffect(Head(todo)) /\ ~UNCHANGED <<zoneSets, zoneStatus>>
  <2> DEFINE t == Head(todo)
  <2>1. t \in Ids
      BY <1>3, HeadOfTodo DEF TypeOK
  <2>2. DownloadZoneSet(t) \/ EnableZoneSet(t) \/ DeleteZoneSet(t)
      BY <1>3 DEF ApplyActionEffect, DownloadMap, EnableMap, DeleteMap, InitializePosition, zoneVars
  <2> HIDE DEF t
  <2> USE KeysAssumption, IdsAssumption DEF TypeOK, StoreTypeOK, MapOps, ZoneOps
  <2>3. CASE DownloadZoneSet(t)
      BY <2>1, <2>3 DEF DownloadZoneSet
  <2>4. CASE EnableZoneSet(t)
      BY <2>1, <2>4 DEF EnableZoneSet
  <2>5. CASE DeleteZoneSet(t)
      BY <2>1, <2>5 DEF DeleteZoneSet
  <2> QED BY <2>2, <2>3, <2>4, <2>5
<1> QED BY <1>1, <1>2, <1>3, StoreStep DEF ArriveOnMap, zoneVars

LEMMA InvStep == Inv /\ [Next]_vars => Inv'
<1> SUFFICES ASSUME Inv, [Next]_vars PROVE Inv'
    OBVIOUS
<1>1. CASE Next
    BY <1>1, StoreTypes, ActionTypes, OneVersionStep, StatusStep DEF Inv, TypeOK
<1>2. CASE UNCHANGED vars
    BY <1>2 DEF vars, mapVars, zoneVars, actionVars, Inv, TypeOK, StoreTypeOK, ListTypeOK,
       OneVersionEnabled, StatusOfStored
<1> QED BY <1>1, <1>2

THEOREM Invariance == Spec => []Inv
BY InvInit, InvStep, PTL DEF Spec

\* Type correctness of the robot's map and zone set store.
THEOREM TypeCorrect == Spec => []TypeOK
<1>1. Inv => TypeOK
    BY DEF Inv
<1> QED BY <1>1, Invariance, PTL

\* At most one version of a map is ENABLED (agv.py, _apply_enable_map).
THEOREM OneVersionEnabledAlways == Spec => []OneVersionEnabled
<1>1. Inv => OneVersionEnabled
    BY DEF Inv
<1> QED BY <1>1, Invariance, PTL

\* The two dictionaries of zone sets have the same keys (agv.py, handle_zone_set and
\* the zone set actions).
THEOREM StatusOfStoredAlways == Spec => []StatusOfStored
<1>1. Inv => StatusOfStored
    BY DEF Inv
<1> QED BY <1>1, Invariance, PTL

-----------------------------------------------------------------------------
(* What a step may never do *)

LEMMA OverlapNeedsPush ==
    ASSUME Inv, Next
    PROVE  OverlapStep
<1> USE DEF OverlapStep, Overlap
<1>1. CASE UNCHANGED <<zoneSets, zoneStatus>>
    BY <1>1
<1>2. CASE \E push \in Pushes : HandleZoneSet(push[1], push[2])
  <2>1. PICK push \in Pushes : HandleZoneSet(push[1], push[2])
      BY <1>2
  <2> QED BY <2>1, KeysAssumption DEF HandleZoneSet, Inv, TypeOK, StoreTypeOK
<1>3. CASE todo # <<>> /\ ApplyActionEffect(Head(todo)) /\ ~UNCHANGED <<zoneSets, zoneStatus>>
  <2> DEFINE t == Head(todo)
  <2>1. t \in Ids
      BY <1>3, HeadOfTodo DEF Inv, TypeOK
  <2>2. DownloadZoneSet(t) \/ EnableZoneSet(t) \/ DeleteZoneSet(t)
      BY <1>3 DEF ApplyActionEffect, DownloadMap, EnableMap, DeleteMap, InitializePosition, zoneVars
  <2> HIDE DEF t
  <2> USE KeysAssumption, IdsAssumption DEF Inv, TypeOK, StoreTypeOK, MapOps, ZoneOps
  <2>3. CASE DownloadZoneSet(t)
      BY <2>1, <2>3 DEF DownloadZoneSet
  <2>4. CASE EnableZoneSet(t)
      BY <2>1, <2>4 DEF EnableZoneSet
  <2>5. CASE DeleteZoneSet(t)
      BY <2>1, <2>5 DEF DeleteZoneSet
  <2> QED BY <2>2, <2>3, <2>4, <2>5
<1> QED BY <1>1, <1>2, <1>3, StoreStep DEF Inv, ArriveOnMap, zoneVars

\* Two zone sets of a map are ENABLED together only through a push (agv.py,
\* handle_zone_set against _apply_enable_zone_set).
THEOREM OverlapOnlyByPushAlways == Spec => OverlapOnlyByPush
<1>1. Inv /\ [Next]_vars => [OverlapStep]_vars
    BY OverlapNeedsPush
<1> QED BY <1>1, Invariance, PTL DEF Spec, OverlapOnlyByPush

-----------------------------------------------------------------------------
(* When a pushed zone set is safe *)

\* Fleet control delivers a zone set by the topic or by downloads, never by both.
OneWayOfDelivery ==
    \A t \in Ids, push \in Pushes : Op[t] = "downloadZoneSet" => Target[t] # push[1]

\* Only what was pushed has a geometry.
GeometryIsPushed == \A z \in geometry : \E push \in Pushes : push[1] = z

LEMMA GeometryStep ==
    ASSUME TypeOK, GeometryIsPushed, Next
    PROVE  GeometryIsPushed'
<1> USE DEF GeometryIsPushed
<1>1. CASE \E push \in Pushes : HandleZoneSet(push[1], push[2])
    BY <1>1 DEF HandleZoneSet
<1>2. CASE todo # <<>> /\ ApplyActionEffect(Head(todo))
    BY <1>2 DEF ApplyActionEffect, DownloadMap, EnableMap, DeleteMap, DownloadZoneSet, EnableZoneSet,
       DeleteZoneSet, InitializePosition, zoneVars
<1> QED BY <1>1, <1>2, StoreStep DEF ArriveOnMap, zoneVars

\* The geometry of a set is lost to a download that names it, or with the set itself.
LEMMA GeometryKept ==
    ASSUME TypeOK, Next, NEW z \in geometry, z \notin geometry'
    PROVE  zoneSets'[z] = NoMap \/ \E t \in Ids : Op[t] = "downloadZoneSet" /\ Target[t] = z
<1>1. z \in ZoneSets
    BY DEF TypeOK, StoreTypeOK
<1>2. todo # <<>> /\ ApplyActionEffect(Head(todo))
    BY StoreStep DEF HandleZoneSet, ArriveOnMap, zoneVars
<1>3. Head(todo) \in Ids
    BY <1>2, HeadOfTodo DEF TypeOK
<1>4. DownloadZoneSet(Head(todo)) \/ DeleteZoneSet(Head(todo))
    BY <1>2 DEF ApplyActionEffect, DownloadMap, EnableMap, DeleteMap, EnableZoneSet, InitializePosition, zoneVars
<1>5. CASE DownloadZoneSet(Head(todo))
    BY <1>3, <1>5 DEF DownloadZoneSet
<1>6. CASE DeleteZoneSet(Head(todo))
    BY <1>1, <1>6 DEF DeleteZoneSet, TypeOK, StoreTypeOK
<1> QED BY <1>4, <1>5, <1>6

\* A download of the same zone set is all that can undo a push without deleting it: no
\* enable, retry, trigger, change of map or delete of another set does (agv.py,
\* _apply_download_zone_set; run store_kept shows that the premise is needed).
THEOREM PushedSetIsKeptIfOneWay ==
    ASSUME OneWayOfDelivery
    PROVE  Spec => PushedSetIsKept
<1>1. Init => GeometryIsPushed
    BY DEF Init, GeometryIsPushed
<1>2. Inv /\ GeometryIsPushed /\ [Next]_vars => GeometryIsPushed'
    BY GeometryStep DEF Inv, vars, zoneVars, GeometryIsPushed
<1>3. Inv /\ GeometryIsPushed /\ [Next]_vars =>
        [\A z \in geometry : zoneSets'[z] # NoMap => z \in geometry']_vars
    BY GeometryKept, OneWayOfDelivery DEF Inv, GeometryIsPushed, OneWayOfDelivery
<1> QED BY <1>1, <1>2, <1>3, Invariance, PTL DEF Spec, PushedSetIsKept
=============================================================================
