-------------------------- MODULE StoreOrderProofs --------------------------
(* What the order in which actions are received means for maps and zone sets:   *)
(* EnabledUntilReplaced and EnableFollowsDownload of module Store.              *)
EXTENDS StoreProofs
\* What is stored was downloaded by an instant action that has FINISHED.
StoredInv ==
    \A v \in Versions : maps[v] # "absent" =>
        \E d \in Ids \ NodeIds : Op[d] = "downloadMap" /\ Target[d] = v /\ st[d] = "FINISHED"

-----------------------------------------------------------------------------
(* Steps *)

\* What a tick does to the action it visits.
Visit(t) == Continue(t) \/ Finish(t) \/ Skip(t)

\* The store of maps and zone sets changes by a push, or by the effect of an action
\* whose timer is up.
LEMMA StoreChange ==
    ASSUME TypeOK, Next, ~UNCHANGED <<maps, zoneSets>>
    PROVE  \/ \E push \in Pushes : HandleZoneSet(push[1], push[2])
           \/ \E t \in Ids : t = Head(todo) /\ Finish(t)
<1>1. CASE \E i \in Ids \ NodeIds : ReceiveInstant(i)
    BY <1>1 DEF ReceiveInstant, mapVars, zoneVars
<1>2. CASE \E o \in Orders : AcceptOrder(o) \/ ExtendOrder(o)
    BY <1>2 DEF AcceptOrder, ExtendOrder, mapVars, zoneVars
<1>3. CASE ClearActiveOrder
    BY <1>3 DEF ClearActiveOrder, mapVars, zoneVars
<1>4. CASE \/ \E t \in TriggerIds : Trigger(t)
           \/ \E t \in Retriable : FailAction(t)
           \/ \E t \in Ids : Retry(t) \/ SkipRetry(t)
    BY <1>4 DEF Trigger, FailAction, Retry, SkipRetry, SetStatus, mapVars, zoneVars
<1>5. CASE Sweep \/ \E m \in Maps : ArriveOnMap(m)
    BY <1>5 DEF Sweep, ArriveOnMap, mapVars, zoneVars
<1>6. CASE AdvanceOne
  <2>1. Head(todo) \in Ids
      BY <1>6, HeadOfTodo DEF AdvanceOne, TypeOK
  <2> QED BY <1>6, <2>1 DEF AdvanceOne, Continue, Skip, mapVars, zoneVars
<1> QED BY <1>1, <1>2, <1>3, <1>4, <1>5, <1>6 DEF Next

\* An instant action that is FINISHED stays so.
LEMMA FinishedStays ==
    ASSUME TypeOK, Next, NEW d \in Ids \ NodeIds, st[d] = "FINISHED"
    PROVE  st'[d] = "FINISHED"
<1> USE IdsAssumption DEF TypeOK
<1>1. CASE \E i \in Ids \ NodeIds : ReceiveInstant(i)
    BY <1>1 DEF ReceiveInstant
<1>2. CASE \E o \in Orders : AcceptOrder(o) \/ ExtendOrder(o)
  <2>1. PICK o \in Orders : AcceptOrder(o) \/ ExtendOrder(o)
      BY <1>2
  <2>2. \A k \in DOMAIN o : o[k] \in NodeIds
      OBVIOUS
  <2> QED BY <2>1, <2>2 DEF AcceptOrder, ExtendOrder
<1>3. CASE ClearActiveOrder
    BY <1>3 DEF ClearActiveOrder
<1>4. CASE \/ \E t \in TriggerIds : Trigger(t)
           \/ \E t \in Retriable : FailAction(t)
           \/ \E t \in Ids : Retry(t) \/ SkipRetry(t)
    BY <1>4 DEF Trigger, FailAction, Retry, SkipRetry, SetStatus
<1>5. CASE \/ Sweep \/ \E m \in Maps : ArriveOnMap(m)
           \/ \E push \in Pushes : HandleZoneSet(push[1], push[2])
    BY <1>5 DEF Sweep, ArriveOnMap, HandleZoneSet, actionVars
<1>6. CASE AdvanceOne
  <2> DEFINE t == Head(todo)
  <2>1. t \in Ids /\ Visit(t)
      BY <1>6, HeadOfTodo DEF AdvanceOne, TypeOK, Visit
  <2>2. CASE Finish(t)
    <3>1. \E status \in Terminal : st' = [st EXCEPT ![t] = status]
        BY <2>1, <2>2, EffectEnds DEF Finish
    <3>2. st[t] # "FINISHED"
        BY <2>2 DEF Finish, Due
    <3> HIDE DEF t
    <3> QED BY <3>1, <3>2
  <2>3. CASE Continue(t) \/ Skip(t)
      BY <2>1, <2>3 DEF Continue, Skip, Active
  <2> QED BY <2>1, <2>2, <2>3 DEF Visit
<1> QED BY <1>1, <1>2, <1>3, <1>4, <1>5, <1>6 DEF Next

-----------------------------------------------------------------------------
(* Maps *)

LEMMA StoredStep ==
    ASSUME TypeOK, StoredInv, Next
    PROVE  StoredInv'
<1> USE KeysAssumption, IdsAssumption, ScopesAssumption DEF StoredInv
<1>1. CASE UNCHANGED maps
    BY <1>1, FinishedStays
<1>2. CASE ~UNCHANGED maps
  <2>1. PICK t \in Ids : Finish(t)
      BY <1>2, StoreChange DEF HandleZoneSet, mapVars
  <2>2. DownloadMap(t) \/ EnableMap(t) \/ DeleteMap(t)
      BY <1>2, <2>1 DEF Finish, ApplyActionEffect, DownloadZoneSet, EnableZoneSet,
         DeleteZoneSet, InitializePosition, mapVars
  <2>3. SUFFICES ASSUME NEW v \in Versions, maps'[v] # "absent"
                 PROVE  \E d \in Ids \ NodeIds :
                            Op[d] = "downloadMap" /\ Target[d] = v /\ st'[d] = "FINISHED"
      OBVIOUS
  <2>4. CASE maps[v] # "absent"
      BY <2>4, FinishedStays
  <2>5. CASE maps[v] = "absent"
    <3>1. DownloadMap(t) /\ Target[t] = v
        BY <2>2, <2>3, <2>5 DEF DownloadMap, EnableMap, DeleteMap, TypeOK, StoreTypeOK
    <3> QED BY <3>1 DEF DownloadMap, InstantOnly, Ends, TypeOK
  <2> QED BY <2>4, <2>5
<1> QED BY <1>1, <1>2

LEMMA Displaced ==
    ASSUME TypeOK, StoredInv, Next
    PROVE  DisplacedStep
<1> USE KeysAssumption, IdsAssumption, ScopesAssumption
<1> SUFFICES ASSUME NEW v \in Versions, maps[v] = "ENABLED", maps'[v] = "DISABLED"
             PROVE  \/ \E w \in Versions : MapOf[w] = MapOf[v] /\ maps'[w] = "ENABLED"
                    \/ \E d, e \in Ids :
                         /\ d # e /\ Op[d] = "downloadMap" /\ Op[e] = "downloadMap"
                         /\ Target[d] = v /\ Target[e] = v
                         /\ st'[d] = "FINISHED" /\ st'[e] = "FINISHED"
    BY DEF DisplacedStep
<1>1. PICK t \in Ids : Finish(t)
    BY StoreChange DEF HandleZoneSet, mapVars
<1>2. DownloadMap(t) \/ EnableMap(t) \/ DeleteMap(t)
    BY <1>1 DEF Finish, ApplyActionEffect, DownloadZoneSet, EnableZoneSet, DeleteZoneSet,
       InitializePosition, mapVars
<1>3. CASE DownloadMap(t)
  <2>1. PICK d \in Ids \ NodeIds : Op[d] = "downloadMap" /\ Target[d] = v /\ st[d] = "FINISHED"
      BY DEF StoredInv
  <2>2. st'[d] = "FINISHED"
      BY <2>1, FinishedStays
  <2>3. Target[t] = v /\ st'[t] = "FINISHED" /\ Op[t] = "downloadMap"
      BY <1>3 DEF DownloadMap, Ends, TypeOK, StoreTypeOK
  <2>4. d # t
      BY <1>1, <2>1 DEF Finish, Due
  <2> QED BY <2>1, <2>2, <2>3, <2>4
<1>4. CASE EnableMap(t)
  <2>1. Target[t] \in Versions
      BY <1>4 DEF EnableMap, MapOps, ZoneOps
  <2>2. maps'[Target[t]] = "ENABLED" /\ MapOf[Target[t]] = MapOf[v]
      BY <1>4, <2>1 DEF EnableMap, TypeOK, StoreTypeOK
  <2> QED BY <2>1, <2>2
<1>5. CASE DeleteMap(t)
    BY <1>5 DEF DeleteMap, TypeOK, StoreTypeOK
<1> QED BY <1>2, <1>3, <1>4, <1>5

LEMMA StoredInit == Init => StoredInv
BY DEF Init, StoredInv

\* An ENABLED map goes out of use only for another version of it, by a delete, or
\* because it was downloaded twice (agv.py, _apply_enable_map, _apply_download_map).
THEOREM EnabledUntilReplacedAlways == Spec => EnabledUntilReplaced
<1>1. TypeOK /\ StoredInv /\ [Next]_vars => StoredInv'
    BY StoredStep DEF StoredInv, vars, mapVars, actionVars
<1>2. TypeOK /\ StoredInv /\ [Next]_vars => [DisplacedStep]_vars
    BY Displaced
<1> QED BY <1>1, <1>2, StoredInit, TypeCorrect, PTL DEF Spec, EnabledUntilReplaced

-----------------------------------------------------------------------------
(* The order of the lists *)

\* The actions that neither a node, nor a fault, nor a trigger can disturb.
Undisturbed == Ids \ (NodeIds \cup Retriable \cup TriggerIds)

\* Every unfinished instant action is in one place of the lists.
ListsInv ==
    /\ \A k \in DOMAIN ordered : ordered[k] \in NodeIds
    /\ \A k \in DOMAIN instants : instants[k] \notin NodeIds /\ st[instants[k]] # "absent"
    /\ \A k \in DOMAIN todo : todo[k] \notin NodeIds => st[todo[k]] # "absent"
    /\ \A i, j \in DOMAIN instants : instants[i] = instants[j] => i = j
    /\ \A i, j \in DOMAIN todo : todo[i] = todo[j] /\ todo[i] \notin NodeIds => i = j
    /\ \A i \in DOMAIN instants, j \in DOMAIN todo : instants[i] # todo[j]

\* A timer that runs is not up, and an undisturbed action that was visited runs.
TimersInv ==
    /\ \A t \in Ids : st[t] = "RUNNING" => ran[t] < Duration
    /\ \A t \in Ids : st[t] = "RETRIABLE" => t \in Retriable
    /\ \A k \in DOMAIN instants : instants[k] \in Undisturbed =>
          st[instants[k]] = "RUNNING" \/ (st[instants[k]] = "WAITING" /\ todo = <<>>)
    /\ \A k \in DOMAIN todo : todo[k] \in Undisturbed => st[todo[k]] \in Active

\* The timer of d is n ticks ahead of that of t at least.
NotBehind(d, t, n) ==
    d \in Undisturbed /\ st[t] = "RUNNING" => st[d] = "RUNNING" /\ ran[d] >= ran[t] + n

OrderInv ==
    /\ \A i, j \in DOMAIN instants : i < j => NotBehind(instants[i], instants[j], 0)
    /\ \A i, j \in DOMAIN todo :
          i < j /\ todo[j] \notin NodeIds => NotBehind(todo[i], todo[j], 0)
    /\ \A i \in DOMAIN instants, j \in DOMAIN todo :
          todo[j] \notin NodeIds => NotBehind(instants[i], todo[j], 1)

SweepInv == TypeOK /\ ListsInv /\ TimersInv /\ OrderInv

LEMMA SweepInvInit == Init => ListsInv /\ TimersInv /\ OrderInv
BY DEF Init, ListsInv, TimersInv, OrderInv

\* What a step between two ticks does that leaves the instant lists alone.
Quiet ==
    /\ Listening
    /\ UNCHANGED <<instants, todo, ran>>
    /\ \A k \in DOMAIN ordered' : ordered'[k] \in NodeIds
    /\ \A t \in Ids : st'[t] = "RUNNING" => st[t] = "RUNNING"
    /\ \A t \in Ids : st'[t] = "RETRIABLE" => t \in Retriable
    /\ \A t \in Ids \ NodeIds :
          st'[t] # st[t] => t \notin Undisturbed /\ st'[t] \notin {"absent", "RUNNING"}

LEMMA QuietSteps ==
    ASSUME SweepInv,
           \/ \E o \in Orders : AcceptOrder(o) \/ ExtendOrder(o)
           \/ ClearActiveOrder
           \/ \E push \in Pushes : HandleZoneSet(push[1], push[2])
           \/ \E t \in TriggerIds : Trigger(t)
           \/ \E t \in Retriable : FailAction(t)
           \/ \E t \in Ids : Retry(t) \/ SkipRetry(t)
           \/ \E m \in Maps : ArriveOnMap(m)
    PROVE  Quiet
<1>0. /\ st \in [Ids -> Statuses] /\ NodeIds \subseteq Ids /\ ordered \in Seq(Ids)
      /\ \A k \in DOMAIN ordered : ordered[k] \in NodeIds
      /\ \A t \in Ids : st[t] = "RETRIABLE" => t \in Retriable
    BY IdsAssumption DEF SweepInv, TypeOK, ListTypeOK, ListsInv, TimersInv
<1>1. CASE \E o \in Orders : AcceptOrder(o) \/ ExtendOrder(o)
  <2>1. PICK o \in Orders : AcceptOrder(o) \/ ExtendOrder(o)
      BY <1>1
  <2>2. o \in Seq(NodeIds) /\ \A k \in DOMAIN o : o[k] \in NodeIds
      BY IdsAssumption
  <2>3. ordered' = o \/ ordered' = ordered \o o
      BY <2>1 DEF AcceptOrder, ExtendOrder
  <2>4. ASSUME NEW k \in DOMAIN ordered'
        PROVE  ordered'[k] \in NodeIds
    <3>1. CASE ordered' = o
        BY <2>2, <3>1
    <3>2. CASE ordered' = ordered \o o
      <4>1. k \in 1..(Len(ordered) + Len(o))
          BY <1>0, <2>2, <3>2
      <4>2. CASE k <= Len(ordered)
          BY <1>0, <2>2, <3>2, <4>1, <4>2
      <4>3. CASE k > Len(ordered)
        <5>1. k - Len(ordered) \in DOMAIN o /\ (ordered \o o)[k] = o[k - Len(ordered)]
            BY <1>0, <2>2, <4>1, <4>3
        <5> QED BY <2>2, <3>2, <5>1
      <4> QED BY <1>0, <2>2, <4>1, <4>2, <4>3
    <3> QED BY <2>3, <3>1, <3>2
  <2>5. Listening /\ UNCHANGED <<instants, todo, ran>>
      BY <2>1 DEF AcceptOrder, ExtendOrder
  <2>6. \A t \in Ids : st'[t] = st[t] \/ (t \in NodeIds /\ st'[t] \in {"WAITING", "absent"})
    <3>1. CASE AcceptOrder(o)
      <4>1. st' = [t \in Ids |->
                     IF t \notin NodeIds THEN st[t]
                     ELSE IF \E k \in DOMAIN o : o[k] = t THEN "WAITING" ELSE "absent"]
          BY <3>1 DEF AcceptOrder
      <4> QED BY <4>1
    <3>2. CASE ExtendOrder(o)
      <4>1. st' = [t \in Ids |-> IF \E k \in DOMAIN o : o[k] = t THEN "WAITING" ELSE st[t]]
          BY <3>2 DEF ExtendOrder
      <4>2. ASSUME NEW t \in Ids, st'[t] # st[t]
            PROVE  st'[t] = "WAITING" /\ \E k \in DOMAIN o : o[k] = t
          BY <4>1, <4>2
      <4>3. \A k \in DOMAIN o : o[k] \in NodeIds
          BY <2>2
      <4> QED BY <4>2, <4>3, Zenon
    <3> QED BY <2>1, <3>1, <3>2
  <2> QED BY <1>0, <2>4, <2>5, <2>6 DEF Quiet, Undisturbed
<1>2. CASE ClearActiveOrder
    BY <1>0, <1>2 DEF ClearActiveOrder, Quiet
<1>3. CASE \/ \E push \in Pushes : HandleZoneSet(push[1], push[2])
           \/ \E m \in Maps : ArriveOnMap(m)
    BY <1>0, <1>3 DEF HandleZoneSet, ArriveOnMap, actionVars, Quiet
<1>4. CASE \E t \in TriggerIds : Trigger(t)
    BY <1>0, <1>4, IdsAssumption DEF Trigger, SetStatus, Undisturbed, Quiet
<1>5. CASE \E t \in Retriable : FailAction(t)
    BY <1>0, <1>5, IdsAssumption DEF FailAction, SetStatus, Undisturbed, Quiet
<1>6. CASE \E t \in Ids : Retry(t) \/ SkipRetry(t)
    BY <1>0, <1>6 DEF Retry, SkipRetry, SetStatus, Undisturbed, Quiet
<1> QED BY <1>1, <1>2, <1>3, <1>4, <1>5, <1>6

LEMMA QuietKeeps ==
    ASSUME SweepInv, TypeOK', Quiet
    PROVE  ListsInv' /\ TimersInv' /\ OrderInv'
<1> USE DEF SweepInv, TypeOK, ListTypeOK, Quiet
<1>0. /\ instants' = instants /\ todo' = <<>> /\ todo = <<>>
      /\ \A k \in DOMAIN instants : instants[k] \in Ids
    BY DEF Listening
<1>1. ListsInv'
    BY <1>0 DEF ListsInv
<1>2. TimersInv'
  <2>1. \A t \in Ids : st'[t] = "RUNNING" => ran'[t] < Duration
      BY DEF TimersInv
  <2>2. \A t \in Ids : st'[t] = "RETRIABLE" => t \in Retriable
      BY DEF TimersInv
  <2>3. \A k \in DOMAIN instants : instants[k] \in Undisturbed => st'[instants[k]] \in Active
      BY <1>0 DEF TimersInv, ListsInv, Undisturbed, Active
  <2> QED BY <1>0, <2>1, <2>2, <2>3 DEF TimersInv, Active
<1>3. OrderInv'
    BY <1>0 DEF OrderInv, NotBehind, ListsInv, Undisturbed
<1> QED BY <1>1, <1>2, <1>3

\* A received action waits at the end of the list.
LEMMA ReceiveKeeps ==
    ASSUME SweepInv, NEW i \in Ids \ NodeIds, ReceiveInstant(i)
    PROVE  ListsInv' /\ TimersInv' /\ OrderInv'
<1> USE DEF SweepInv, TypeOK, ListTypeOK
<1>0. /\ todo' = <<>> /\ todo = <<>> /\ UNCHANGED <<ordered, ran>>
      /\ \A k \in DOMAIN instants : instants[k] \in Ids /\ instants[k] # i
    BY DEF ReceiveInstant, Listening, ListsInv
<1>1. CASE Duplicate(i)
  <2>1. instants' = instants /\ st' = [st EXCEPT ![i] = "FAILED"]
      BY <1>1 DEF ReceiveInstant
  <2>2. ListsInv'
      BY <1>0, <2>1 DEF ListsInv
  <2>3. TimersInv'
      BY <1>0, <2>1 DEF TimersInv
  <2>4. OrderInv'
      BY <1>0, <2>1 DEF OrderInv, NotBehind
  <2> QED BY <2>2, <2>3, <2>4
<1>2. CASE ~Duplicate(i)
  <2>1. instants' = Append(instants, i) /\ st' = [st EXCEPT ![i] = "WAITING"]
      BY <1>2 DEF ReceiveInstant
  <2>2. \A k \in DOMAIN instants' :
            \/ k \in DOMAIN instants /\ instants'[k] = instants[k]
            \/ k = Len(instants) + 1 /\ instants'[k] = i
      BY <2>1
  <2>3. ListsInv'
      BY <1>0, <2>1, <2>2 DEF ListsInv
  <2>4. TimersInv'
      BY <1>0, <2>1, <2>2 DEF TimersInv, Active
  <2>5. OrderInv'
      BY <1>0, <2>1, <2>2 DEF OrderInv, NotBehind
  <2> QED BY <2>3, <2>4, <2>5
<1> QED BY <1>1, <1>2

\* A sweep takes the instant actions in the order they were received.
LEMMA SweepKeeps ==
    ASSUME SweepInv, Sweep
    PROVE  ListsInv' /\ TimersInv' /\ OrderInv'
<1> USE DEF SweepInv, TypeOK, ListTypeOK
<1>0. /\ instants' = <<>> /\ ordered' = <<>> /\ todo' = ordered \o instants /\ todo = <<>>
      /\ UNCHANGED <<st, ran>>
    BY DEF Sweep, Listening
<1>1. \A k \in DOMAIN todo' :
          \/ k \in DOMAIN ordered /\ todo'[k] \in NodeIds
          \/ /\ k - Len(ordered) \in DOMAIN instants
             /\ todo'[k] = instants[k - Len(ordered)] /\ todo'[k] \notin NodeIds
    BY <1>0 DEF ListsInv
<1>2. ListsInv'
  <2>1. \A k \in DOMAIN todo' : todo'[k] \notin NodeIds => st'[todo'[k]] # "absent"
      BY <1>0, <1>1 DEF ListsInv
  <2>2. ASSUME NEW i \in DOMAIN todo', NEW j \in DOMAIN todo',
               todo'[i] = todo'[j], todo'[i] \notin NodeIds
        PROVE  i = j
    <3>1. /\ i - Len(ordered) \in DOMAIN instants /\ todo'[i] = instants[i - Len(ordered)]
          /\ j - Len(ordered) \in DOMAIN instants /\ todo'[j] = instants[j - Len(ordered)]
        BY <1>1, <2>2
    <3>2. i - Len(ordered) = j - Len(ordered)
        BY <2>2, <3>1 DEF ListsInv
    <3>3. i \in Nat /\ j \in Nat /\ Len(ordered) \in Nat
        BY <1>0
    <3> QED BY <3>2, <3>3
  <2>3. DOMAIN instants' = {} /\ DOMAIN ordered' = {}
      BY <1>0
  <2> QED BY <2>1, <2>2, <2>3 DEF ListsInv
<1>3. TimersInv'
  <2>1. ASSUME NEW k \in DOMAIN todo', todo'[k] \in Undisturbed
        PROVE  st'[todo'[k]] \in Active
    <3>1. PICK j \in DOMAIN instants : todo'[k] = instants[j]
        BY <1>1, <2>1 DEF Undisturbed
    <3> QED BY <1>0, <2>1, <3>1 DEF TimersInv, Active
  <2>2. /\ \A t \in Ids : st'[t] = "RUNNING" => ran'[t] < Duration
        /\ \A t \in Ids : st'[t] = "RETRIABLE" => t \in Retriable
      BY <1>0 DEF TimersInv
  <2>3. DOMAIN instants' = {}
      BY <1>0
  <2> QED BY <2>1, <2>2, <2>3 DEF TimersInv
<1>4. OrderInv'
  <2>1. ASSUME NEW i \in DOMAIN todo', NEW j \in DOMAIN todo',
               i < j, todo'[j] \notin NodeIds, todo'[i] \in Undisturbed
        PROVE  NotBehind(todo'[i], todo'[j], 0)
    <3>1. todo'[i] \notin NodeIds
        BY <2>1 DEF Undisturbed
    <3>2. /\ i - Len(ordered) \in DOMAIN instants /\ todo'[i] = instants[i - Len(ordered)]
          /\ j - Len(ordered) \in DOMAIN instants /\ todo'[j] = instants[j - Len(ordered)]
        BY <1>1, <2>1, <3>1
    <3>3. i - Len(ordered) < j - Len(ordered)
      <4>1. i \in Nat /\ j \in Nat /\ Len(ordered) \in Nat
          BY <1>0
      <4> QED BY <2>1, <4>1
    <3> QED BY <3>2, <3>3 DEF OrderInv
  <2>2. \A i, j \in DOMAIN todo' :
            i < j /\ todo'[j] \notin NodeIds => NotBehind(todo'[i], todo'[j], 0)
      BY <2>1 DEF NotBehind
  <2>3. DOMAIN instants' = {} /\ UNCHANGED <<st, ran>>
      BY <1>0
  <2> QED BY <2>2, <2>3 DEF OrderInv, NotBehind
<1> QED BY <1>2, <1>3, <1>4

\* A visited action leaves todo, and stays in its list unless it has ended.
LEMMA Visited ==
    ASSUME SweepInv, AdvanceOne
    PROVE  LET t == Head(todo) IN
           /\ t \in Ids /\ t = todo[1] /\ 1 \in DOMAIN todo /\ todo # <<>>
           /\ Visit(t)
           /\ \A k \in DOMAIN todo' :
                 k \in Nat \ {0} /\ k + 1 \in DOMAIN todo /\ todo'[k] = todo[k + 1]
           /\ ordered' = ordered \/ (t \in NodeIds /\ ordered' = Append(ordered, t))
           /\ \/ instants' = instants /\ (t \in NodeIds \/ st'[t] \in Terminal)
              \/ t \notin NodeIds /\ st'[t] \notin Terminal /\ instants' = Append(instants, t)
<1> USE DEF SweepInv, TypeOK, ListTypeOK
<1>1. Head(todo) \in Ids /\ Head(todo) = todo[1] /\ 1 \in DOMAIN todo /\ todo # <<>>
    BY DEF AdvanceOne
<1>2. Visit(Head(todo))
    BY DEF AdvanceOne, Visit
<1>3. \A k \in DOMAIN Tail(todo) :
          k \in Nat \ {0} /\ k + 1 \in DOMAIN todo /\ Tail(todo)[k] = todo[k + 1]
    BY <1>1
<1>4. todo' = Tail(todo)
    BY DEF AdvanceOne
<1>5. ordered' = ordered \/ (Head(todo) \in NodeIds /\ ordered' = Append(ordered, Head(todo)))
    BY DEF AdvanceOne
<1>6. \/ instants' = instants /\ (Head(todo) \in NodeIds \/ st'[Head(todo)] \in Terminal)
      \/ /\ Head(todo) \notin NodeIds /\ st'[Head(todo)] \notin Terminal
         /\ instants' = Append(instants, Head(todo))
    BY DEF AdvanceOne
<1> QED BY <1>1, <1>2, <1>3, <1>4, <1>5, <1>6

\* What a visit does to the status and timer of its action, and to no other.
LEMMA VisitEffect ==
    ASSUME TypeOK, NEW t \in Ids, Visit(t)
    PROVE  /\ \A u \in Ids : u # t => st'[u] = st[u] /\ ran'[u] = ran[u]
           /\ \/ /\ st[t] \in Active /\ st'[t] = "RUNNING" /\ ran'[t] < Duration
                 /\ IF st[t] = "WAITING" THEN ran'[t] = 0 ELSE ran'[t] = ran[t] + 1
              \/ st[t] \in Active /\ st'[t] \in Terminal
              \/ st[t] \notin Active /\ st'[t] = st[t] /\ ran'[t] = ran[t]
<1> USE IdsAssumption DEF TypeOK
<1>1. CASE Continue(t)
    BY <1>1 DEF Continue, Due, Active
<1>2. CASE Finish(t)
  <2>1. PICK status \in Terminal : st' = [st EXCEPT ![t] = status]
      BY <1>2, EffectEnds DEF Finish
  <2> QED BY <1>2, <2>1 DEF Finish, Due, Active
<1>3. CASE Skip(t)
    BY <1>3 DEF Skip
<1> QED BY <1>1, <1>2, <1>3 DEF Visit

LEMMA AdvanceKeeps ==
    ASSUME SweepInv, AdvanceOne
    PROVE  ListsInv' /\ TimersInv' /\ OrderInv'
<1> DEFINE t == Head(todo)
<1>1. /\ t \in Ids /\ t = todo[1] /\ 1 \in DOMAIN todo /\ todo # <<>>
      /\ \A k \in DOMAIN todo' :
            k \in Nat \ {0} /\ k + 1 \in DOMAIN todo /\ todo'[k] = todo[k + 1]
      /\ ordered' = ordered \/ (t \in NodeIds /\ ordered' = Append(ordered, t))
      /\ \/ instants' = instants /\ (t \in NodeIds \/ st'[t] \in Terminal)
         \/ t \notin NodeIds /\ st'[t] \notin Terminal /\ instants' = Append(instants, t)
    BY Visited
<1>2. /\ \A u \in Ids : u # t => st'[u] = st[u] /\ ran'[u] = ran[u]
      /\ \/ /\ st[t] \in Active /\ st'[t] = "RUNNING" /\ ran'[t] < Duration
            /\ IF st[t] = "WAITING" THEN ran'[t] = 0 ELSE ran'[t] = ran[t] + 1
         \/ st[t] \in Active /\ st'[t] \in Terminal
         \/ st[t] \notin Active /\ st'[t] = st[t] /\ ran'[t] = ran[t]
    BY Visited, VisitEffect DEF SweepInv
<1>3. /\ \A k \in DOMAIN todo : todo[k] \in Ids
      /\ \A k \in DOMAIN instants : instants[k] \in Ids
      /\ st \in [Ids -> Statuses] /\ ran \in [Ids -> 0..Duration]
      /\ instants \in Seq(Ids) /\ ordered \in Seq(Ids) /\ todo \in Seq(Ids)
    BY DEF SweepInv, TypeOK, ListTypeOK
<1> HIDE DEF t
\* The other actions of the two lists are not t.
<1>4. /\ \A k \in DOMAIN todo' : todo'[k] \in Ids /\ (todo'[k] \notin NodeIds => todo'[k] # t)
      /\ \A k \in DOMAIN instants : instants[k] # t
  <2>1. ASSUME NEW k \in DOMAIN todo', todo'[k] \notin NodeIds
        PROVE  todo'[k] # t
    <3>1. k + 1 \in DOMAIN todo /\ todo'[k] = todo[k + 1] /\ k + 1 # 1
        BY <1>1
    <3> QED BY <1>1, <2>1, <3>1 DEF SweepInv, ListsInv
  <2> QED BY <1>1, <1>3, <2>1 DEF SweepInv, ListsInv
<1>5. \A k \in DOMAIN instants' :
          \/ k \in DOMAIN instants /\ instants'[k] = instants[k]
          \/ /\ k = Len(instants) + 1 /\ instants'[k] = t
             /\ t \notin NodeIds /\ st'[t] \notin Terminal
  <2>1. CASE instants' = instants
      BY <2>1
  <2>2. CASE t \notin NodeIds /\ st'[t] \notin Terminal /\ instants' = Append(instants, t)
      BY <1>3, <2>2
  <2> QED BY <1>1, <2>1, <2>2
<1>6. ListsInv'
  <2>1. \A k \in DOMAIN ordered' : ordered'[k] \in NodeIds
    <3>1. \A k \in DOMAIN ordered : ordered[k] \in NodeIds
        BY DEF SweepInv, ListsInv
    <3>2. CASE t \in NodeIds /\ ordered' = Append(ordered, t)
        BY <1>3, <3>1, <3>2
    <3> QED BY <1>1, <3>1, <3>2
  <2>2. \A k \in DOMAIN instants' : instants'[k] \notin NodeIds /\ st'[instants'[k]] # "absent"
      BY <1>1, <1>2, <1>3, <1>4, <1>5 DEF SweepInv, ListsInv
  <2>3. \A k \in DOMAIN todo' : todo'[k] \notin NodeIds => st'[todo'[k]] # "absent"
      BY <1>1, <1>2, <1>4 DEF SweepInv, ListsInv
  <2>4. \A i, j \in DOMAIN instants' : instants'[i] = instants'[j] => i = j
      BY <1>4, <1>5 DEF SweepInv, ListsInv
  <2>5. ASSUME NEW i \in DOMAIN todo', NEW j \in DOMAIN todo',
               todo'[i] = todo'[j], todo'[i] \notin NodeIds
        PROVE  i = j
    <3>1. i + 1 = j + 1
        BY <1>1, <2>5 DEF SweepInv, ListsInv
    <3> QED BY <1>1, <3>1
  <2>6. ASSUME NEW i \in DOMAIN instants', NEW j \in DOMAIN todo'
        PROVE  instants'[i] # todo'[j]
      BY <1>1, <1>4, <1>5 DEF SweepInv, ListsInv
  <2> QED BY <2>1, <2>2, <2>3, <2>4, <2>5, <2>6 DEF ListsInv
<1>7. TimersInv'
  <2>1. \A u \in Ids : st'[u] = "RUNNING" => ran'[u] < Duration
      BY <1>1, <1>2 DEF SweepInv, TimersInv, Active, Terminal
  <2>2. \A u \in Ids : st'[u] = "RETRIABLE" => u \in Retriable
      BY <1>1, <1>2 DEF SweepInv, TimersInv, Terminal
  <2>3. ASSUME NEW k \in DOMAIN instants', instants'[k] \in Undisturbed
        PROVE  st'[instants'[k]] = "RUNNING"
    <3>1. CASE k \in DOMAIN instants /\ instants'[k] = instants[k]
        BY <1>1, <1>2, <1>3, <1>4, <2>3, <3>1 DEF SweepInv, TimersInv
    <3>2. CASE instants'[k] = t /\ st'[t] \notin Terminal
        BY <1>1, <1>2, <2>3, <3>2 DEF SweepInv, TimersInv
    <3> QED BY <1>5, <3>1, <3>2
  <2>4. ASSUME NEW k \in DOMAIN todo', todo'[k] \in Undisturbed
        PROVE  st'[todo'[k]] \in Active
      BY <1>1, <1>2, <1>4, <2>4 DEF SweepInv, TimersInv, Undisturbed
  <2> QED BY <2>1, <2>2, <2>3, <2>4 DEF TimersInv
<1>8. ASSUME NEW i \in DOMAIN instants', NEW j \in DOMAIN instants', i < j
       PROVE  NotBehind(instants[i], instants[j], 0)'
  <2>1. CASE j \in DOMAIN instants /\ instants'[j] = instants[j]
    <3>1. i \in DOMAIN instants /\ instants'[i] = instants[i]
        BY <1>3, <1>5, <1>8, <2>1
    <3>2. NotBehind(instants[i], instants[j], 0)
        BY <1>8, <2>1, <3>1 DEF SweepInv, OrderInv
    <3> QED BY <1>2, <1>3, <1>4, <2>1, <3>1, <3>2 DEF NotBehind
  <2>2. CASE j = Len(instants) + 1 /\ instants'[j] = t /\ t \notin NodeIds /\ st'[t] \notin Terminal
    <3> DEFINE d == instants[i]
    <3>1. i \in DOMAIN instants /\ instants'[i] = d
        BY <1>3, <1>5, <1>8, <2>2
    <3>2. NotBehind(d, t, 1)
        BY <1>1, <2>2, <3>1 DEF SweepInv, OrderInv
    <3>3. d \in Undisturbed => st[d] = "RUNNING"
        BY <1>1, <3>1 DEF SweepInv, TimersInv
    <3>4. d \in Ids /\ st'[d] = st[d] /\ ran'[d] = ran[d] /\ ran[d] \in Nat /\ ran[t] \in Nat
        BY <1>1, <1>2, <1>3, <1>4, <3>1
    <3> HIDE DEF d
    <3>5. d \in Undisturbed /\ st'[t] = "RUNNING" => st'[d] = "RUNNING" /\ ran'[d] >= ran'[t] + 0
        BY <1>2, <2>2, <3>2, <3>3, <3>4 DEF NotBehind, Active, Terminal
    <3> QED BY <2>2, <3>1, <3>5 DEF NotBehind
  <2> QED BY <1>5, <2>1, <2>2
<1>9. ASSUME NEW i \in DOMAIN todo', NEW j \in DOMAIN todo', i < j, todo'[j] \notin NodeIds
       PROVE  NotBehind(todo[i], todo[j], 0)'
  <2>1. i + 1 < j + 1
      BY <1>1, <1>9
  <2>2. NotBehind(todo[i + 1], todo[j + 1], 0)
      BY <1>1, <1>9, <2>1 DEF SweepInv, OrderInv
  <2>3. todo'[i] \in Undisturbed => todo'[i] # t
      BY <1>4 DEF Undisturbed
  <2> QED BY <1>1, <1>2, <1>4, <1>9, <2>2, <2>3 DEF NotBehind
<1>10. ASSUME NEW i \in DOMAIN instants', NEW j \in DOMAIN todo', todo'[j] \notin NodeIds
       PROVE  NotBehind(instants[i], todo[j], 1)'
  <2> DEFINE u == todo[j + 1]
  <2>1. todo'[j] = u /\ u \in Ids /\ u # t /\ st'[u] = st[u] /\ ran'[u] = ran[u] /\ ran[u] \in Nat
      BY <1>1, <1>2, <1>3, <1>4, <1>10
  <2>2. CASE i \in DOMAIN instants /\ instants'[i] = instants[i]
    <3>1. NotBehind(instants[i], u, 1)
        BY <1>1, <1>10, <2>1, <2>2 DEF SweepInv, OrderInv
    <3> HIDE DEF u
    <3> QED BY <1>2, <1>3, <1>4, <2>1, <2>2, <3>1 DEF NotBehind
  <2>3. CASE instants'[i] = t /\ st'[t] \notin Terminal
    <3>1. 1 < j + 1
        BY <1>1
    <3>2. NotBehind(t, u, 0)
        BY <1>1, <1>10, <2>1, <3>1 DEF SweepInv, OrderInv
    <3>3. t \in Undisturbed => st[t] \in Active
        BY <1>1 DEF SweepInv, TimersInv
    <3>4. ran[t] \in Nat
        BY <1>1, <1>3
    <3> HIDE DEF u
    <3>5. t \in Undisturbed /\ st'[u] = "RUNNING" => st'[t] = "RUNNING" /\ ran'[t] >= ran'[u] + 1
        BY <1>2, <2>1, <2>3, <3>2, <3>3, <3>4 DEF NotBehind, Active
    <3> QED BY <2>1, <2>3, <3>5 DEF NotBehind
  <2> QED BY <1>5, <2>2, <2>3
<1>11. OrderInv'
    BY <1>8, <1>9, <1>10 DEF OrderInv
<1> QED BY <1>6, <1>7, <1>11

LEMMA SweepInvStep ==
    ASSUME SweepInv, [Next]_vars, TypeOK'
    PROVE  SweepInv'
<1>1. CASE UNCHANGED vars
    BY <1>1 DEF vars, actionVars, SweepInv, ListsInv, TimersInv, OrderInv, NotBehind
<1>2. CASE \E i \in Ids \ NodeIds : ReceiveInstant(i)
    BY <1>2, ReceiveKeeps DEF SweepInv
<1>3. CASE Sweep
    BY <1>3, SweepKeeps DEF SweepInv
<1>4. CASE AdvanceOne
    BY <1>4, AdvanceKeeps DEF SweepInv
<1>5. CASE Quiet
    BY <1>5, QuietKeeps DEF SweepInv
<1> QED BY <1>1, <1>2, <1>3, <1>4, <1>5, QuietSteps DEF Next

-----------------------------------------------------------------------------
(* Downloads and enables *)

\* What an undisturbed download brought is stored, or was deleted.
DownloadedInv ==
    \A d \in Undisturbed : st[d] = "FINISHED" =>
        /\ Op[d] = "downloadMap" => maps[Target[d]] # "absent" \/ Deleted(Target[d])
        /\ Op[d] = "downloadZoneSet" => zoneSets[Target[d]] # NoMap \/ Deleted(Target[d])

\* Without a trigger, an instant action ends in a tick that visits it.
LEMMA EndsInTick ==
    ASSUME TypeOK, Next, NEW d \in Ids \ NodeIds, st'[d] # st[d],
           \/ st'[d] = "FINISHED" /\ d \notin TriggerIds
           \/ st'[d] = "FAILED" /\ st[d] = "RUNNING"
    PROVE  todo # <<>> /\ d = Head(todo) /\ Finish(d)
<1>0. st \in [Ids -> Statuses]
    BY DEF TypeOK
<1>1. CASE \E i \in Ids \ NodeIds : ReceiveInstant(i)
    BY <1>0, <1>1 DEF ReceiveInstant
<1>2. CASE \E o \in Orders : AcceptOrder(o) \/ ExtendOrder(o)
  <2>1. PICK o \in Orders : AcceptOrder(o) \/ ExtendOrder(o)
      BY <1>2
  <2>2. \A k \in DOMAIN o : o[k] \in NodeIds
      BY IdsAssumption
  <2> QED BY <1>0, <2>1, <2>2 DEF AcceptOrder, ExtendOrder
<1>3. CASE ClearActiveOrder
    BY <1>0, <1>3 DEF ClearActiveOrder
<1>4. CASE \/ \E t \in TriggerIds : Trigger(t)
           \/ \E t \in Retriable : FailAction(t)
           \/ \E t \in Ids : Retry(t) \/ SkipRetry(t)
    BY <1>0, <1>4, IdsAssumption DEF Trigger, FailAction, Retry, SkipRetry, SetStatus
<1>5. CASE \/ Sweep \/ \E m \in Maps : ArriveOnMap(m)
           \/ \E push \in Pushes : HandleZoneSet(push[1], push[2])
    BY <1>5 DEF Sweep, ArriveOnMap, HandleZoneSet, actionVars
<1>6. CASE AdvanceOne
  <2>1. Head(todo) \in Ids /\ Visit(Head(todo)) /\ todo # <<>>
      BY <1>6, HeadOfTodo DEF AdvanceOne, TypeOK, Visit
  <2>2. d = Head(todo)
      BY <2>1, VisitEffect
  <2> QED BY <1>0, <2>1, <2>2 DEF Visit, Continue, Skip
<1> QED BY <1>1, <1>2, <1>3, <1>4, <1>5, <1>6 DEF Next

\* A delete that FINISHED is not forgotten.
LEMMA DeletedStays ==
    ASSUME TypeOK, Next, NEW x, Deleted(x)
    PROVE  Deleted(x)'
<1>1. PICK t \in Ids : Op[t] \in {"deleteMap", "deleteZoneSet"} /\ Target[t] = x /\ st[t] = "FINISHED"
    BY DEF Deleted
<1>2. t \notin NodeIds
    BY <1>1, ScopesAssumption DEF InstantOnly
<1> QED BY <1>1, <1>2, FinishedStays DEF Deleted

\* Only a delete takes something out of the store.
LEMMA GoneByDelete ==
    ASSUME TypeOK, Next
    PROVE  /\ \A v \in Versions : maps[v] # "absent" /\ maps'[v] = "absent" => Deleted(v)'
           /\ \A z \in ZoneSets : zoneSets[z] # NoMap /\ zoneSets'[z] = NoMap => Deleted(z)'
<1> USE KeysAssumption, IdsAssumption
<1>0. maps \in [Versions -> {"absent"} \cup Stored] /\ zoneSets \in [ZoneSets -> Maps \cup {NoMap}]
      /\ st \in [Ids -> Statuses] /\ mapId \in Maps
    BY DEF TypeOK, StoreTypeOK
<1>1. CASE UNCHANGED <<maps, zoneSets>>
    BY <1>1
<1>2. CASE \E push \in Pushes : HandleZoneSet(push[1], push[2])
  <2>1. PICK push \in Pushes : HandleZoneSet(push[1], push[2])
      BY <1>2
  <2> QED BY <1>0, <2>1 DEF HandleZoneSet, mapVars
<1>3. CASE \E t \in Ids : Finish(t)
  <2>1. PICK t \in Ids : ApplyActionEffect(t)
      BY <1>3 DEF Finish
  <2>2. CASE DownloadMap(t) \/ EnableMap(t) \/ DownloadZoneSet(t) \/ EnableZoneSet(t)
             \/ InitializePosition(t)
      BY <1>0, <2>2 DEF DownloadMap, EnableMap, DownloadZoneSet, EnableZoneSet,
         InitializePosition, mapVars, zoneVars
  <2>3. CASE DeleteMap(t)
      BY <1>0, <2>3 DEF DeleteMap, Ends, Deleted, zoneVars
  <2>4. CASE DeleteZoneSet(t)
      BY <1>0, <2>4 DEF DeleteZoneSet, Ends, Deleted, mapVars
  <2> QED BY <2>1, <2>2, <2>3, <2>4 DEF ApplyActionEffect
<1> QED BY <1>1, <1>2, <1>3, StoreChange

LEMMA DownloadedStep ==
    ASSUME TypeOK, DownloadedInv, Next
    PROVE  DownloadedInv'
<1> USE KeysAssumption, IdsAssumption
<1> SUFFICES ASSUME NEW d \in Undisturbed, st'[d] = "FINISHED"
             PROVE  /\ Op[d] = "downloadMap" => maps'[Target[d]] # "absent" \/ Deleted(Target[d])'
                    /\ Op[d] = "downloadZoneSet" => zoneSets'[Target[d]] # NoMap \/ Deleted(Target[d])'
    BY DEF DownloadedInv
<1>1. /\ d \in Ids \ NodeIds /\ d \notin TriggerIds
      /\ Op[d] = "downloadMap" => Target[d] \in Versions
      /\ Op[d] = "downloadZoneSet" => Target[d] \in ZoneSets
    BY DEF Undisturbed, MapOps, ZoneOps
<1>2. CASE st[d] = "FINISHED"
    BY <1>1, <1>2, DeletedStays, GoneByDelete DEF DownloadedInv
<1>3. CASE st[d] # "FINISHED"
  <2>1. ApplyActionEffect(d)
      BY <1>1, <1>3, EndsInTick DEF Finish
  <2>2. CASE Op[d] = "downloadMap"
    <3>1. DownloadMap(d)
        BY <2>1, <2>2 DEF ApplyActionEffect, EnableMap, DeleteMap, DownloadZoneSet,
           EnableZoneSet, DeleteZoneSet, InitializePosition
    <3>2. maps'[Target[d]] = "DISABLED"
        BY <1>1, <2>2, <3>1 DEF DownloadMap, TypeOK, StoreTypeOK
    <3> QED BY <2>2, <3>2
  <2>3. CASE Op[d] = "downloadZoneSet"
    <3>1. DownloadZoneSet(d)
        BY <2>1, <2>3 DEF ApplyActionEffect, EnableMap, DeleteMap, DownloadMap,
           EnableZoneSet, DeleteZoneSet, InitializePosition
    <3>2. zoneSets'[Target[d]] \in Maps
        BY <1>1, <2>3, <3>1 DEF DownloadZoneSet, TypeOK, StoreTypeOK
    <3> QED BY <2>3, <3>2
  <2> QED BY <2>2, <2>3
<1> QED BY <1>2, <1>3

LEMMA EnableFails ==
    ASSUME SweepInv, DownloadedInv, Next
    PROVE  EnableStep
<1> USE KeysAssumption, IdsAssumption
<1> SUFFICES ASSUME NEW t \in Ids \ NodeIds, st[t] = "RUNNING", st'[t] = "FAILED",
                    NEW d \in Ids \ (Retriable \cup TriggerIds), Downloads(d, t)
             PROVE  /\ \A k \in DOMAIN instants : instants[k] # d
                    /\ st[d] = "FINISHED" => Deleted(Target[t])
    BY DEF EnableStep
<1>1. TypeOK /\ todo # <<>> /\ t = Head(todo) /\ Finish(t)
    BY EndsInTick DEF SweepInv
<1>2. d \in Undisturbed /\ Target[d] = Target[t]
    BY ScopesAssumption DEF Downloads, Undisturbed, InstantOnly
<1>3. ASSUME NEW k \in DOMAIN instants, instants[k] = d
      PROVE  FALSE
  <2>1. 1 \in DOMAIN todo /\ todo[1] = t
      BY <1>1 DEF TypeOK, ListTypeOK
  <2>2. NotBehind(d, t, 1)
      BY <1>3, <2>1 DEF SweepInv, OrderInv
  <2>3. st[d] = "RUNNING" /\ ran[d] >= ran[t] + 1
      BY <1>2, <2>2 DEF NotBehind
  <2>4. ran[d] < Duration
      BY <2>3 DEF SweepInv, TimersInv
  <2>5. ran[t] + 1 >= Duration
      BY <1>1 DEF Finish, Due
  <2>6. ran[d] \in Nat /\ ran[t] \in Nat
      BY <1>1 DEF TypeOK
  <2> QED BY <2>3, <2>4, <2>5, <2>6
<1>4. CASE Op[t] = "enableMap"
  <2>1. EnableMap(t)
      BY <1>1, <1>4 DEF Finish, ApplyActionEffect, DownloadMap, DeleteMap, DownloadZoneSet,
         EnableZoneSet, DeleteZoneSet, InitializePosition
  <2>2. maps[Target[t]] = "absent"
      BY <1>1, <2>1 DEF EnableMap, Ends, TypeOK
  <2> QED BY <1>2, <1>3, <1>4, <2>2 DEF DownloadedInv, Downloads
<1>5. CASE Op[t] = "enableZoneSet"
  <2>1. EnableZoneSet(t)
      BY <1>1, <1>5 DEF Finish, ApplyActionEffect, DownloadMap, DeleteMap, DownloadZoneSet,
         EnableMap, DeleteZoneSet, InitializePosition
  <2>2. zoneSets[Target[t]] = NoMap
      BY <1>1, <2>1 DEF EnableZoneSet, Ends, TypeOK
  <2> QED BY <1>2, <1>3, <1>5, <2>2 DEF DownloadedInv, Downloads
<1> QED BY <1>4, <1>5 DEF Downloads

\* An instant enable may be sent right after the download of its target, without waiting
\* for it to end (agv.py, _advance_all_pending and _advance_one).
THEOREM EnableFollowsDownloadAlways == Spec => EnableFollowsDownload
<1>1. Init => SweepInv /\ DownloadedInv
  <2>1. Init => DownloadedInv
      BY DEF Init, DownloadedInv, Undisturbed
  <2> QED BY <2>1, SweepInvInit, InvInit DEF SweepInv, Inv
<1>2. SweepInv /\ DownloadedInv /\ TypeOK' /\ [Next]_vars => (SweepInv /\ DownloadedInv)'
  <2>1. SweepInv /\ DownloadedInv /\ UNCHANGED vars => DownloadedInv'
      BY DEF DownloadedInv, Deleted, vars, mapVars, zoneVars, actionVars
  <2> QED BY <2>1, SweepInvStep, DownloadedStep DEF SweepInv
<1>3. SweepInv /\ DownloadedInv /\ [Next]_vars => [EnableStep]_vars
    BY EnableFails
<1> QED BY <1>1, <1>2, <1>3, TypeCorrect, PTL DEF Spec, EnableFollowsDownload
=============================================================================
