--------------------------- MODULE AgvRouteProofs ---------------------------
(***************************************************************************)
(* Theorems about the route of an order in module Agv, for orders that are *)
(* shaped as VDA5050 wants them (StitchedUpdates): what remains of the     *)
(* route is ahead of the robot, and no tick leaves it stranded there.      *)
(***************************************************************************)
EXTENDS AgvProofs

\* No message that may still update the order begins before the last reached node.
UpdatesAhead ==
    \A m \in OrderMsgs :
        m.id = order.id /\ order.upd < m.upd => \A s \in m.nodes \cup m.edges : lastSeq <= s

\* What remains is a connected stretch of the order's route, and the last reached node
\* is its first one, unless the robot has not moved since the message was accepted.
RouteInv ==
    /\ RemainingIsAhead
    /\ Connected(nodes, edges)
    /\ order # NoOrder =>
         /\ UpdatesAhead
         /\ nodes \subseteq order.nodes /\ edges \subseteq order.edges
         /\ nodes = {} \/ lastSeq \in nodes \/ nodes = order.nodes

-----------------------------------------------------------------------------
(* Connected stretches *)

\* Without its first node and the edge after it a stretch is still connected, and all
\* of it lies two further on.
LEMMA ConnectedAfterFirst ==
    ASSUME NEW ns \in SUBSET Nat, NEW es \in SUBSET Nat, Connected(ns, es),
           NEW n \in ns, \A k \in ns : n <= k
    PROVE  /\ Connected(ns \ {n}, es \ {n + 1})
           /\ \A s \in (ns \ {n}) \cup (es \ {n + 1}) : s >= n + 2
<1>1. ASSUME NEW k \in ns \ {n} PROVE k >= n + 2
  <2>1. n + 1 \in es
      BY <1>1 DEF Connected
  <2>2. k # n + 1
      BY <2>1 DEF Connected
  <2> QED BY <1>1, <2>2
<1>2. ASSUME NEW e \in es \ {n + 1} PROVE e - 1 \in ns /\ e - 1 # n /\ e + 1 \in ns /\ e + 1 # n
    BY <1>2 DEF Connected
<1>3. ASSUME NEW e \in es \ {n + 1} PROVE e >= n + 2
    BY <1>1, <1>2
<1>4. Connected(ns \ {n}, es \ {n + 1})
    BY <1>2 DEF Connected
<1> QED BY <1>1, <1>3, <1>4

\* A stretch whose first node has no edge after it is that node.
LEMMA ConnectedAtEnd ==
    ASSUME NEW ns \in SUBSET Nat, NEW es \in SUBSET Nat, Connected(ns, es),
           NEW n \in ns, \A k \in ns : n <= k, n + 1 \notin es
    PROVE  ns = {n} /\ es = {}
<1>1. \A k \in ns : k = n
    BY DEF Connected
<1>2. ASSUME NEW e \in es PROVE FALSE
    BY <1>1, <1>2 DEF Connected
<1> QED BY <1>1, <1>2

\* Nothing is a connected stretch as well.
LEMMA ConnectedNothing == Connected({}, {})
BY DEF Connected

\* The node the robot works at is the first one that remains.
LEMMA CurrentIsFirst ==
    ASSUME RouteInv, TypeOK, NEW n \in nodes, Current(n)
    PROVE  \A k \in nodes : n <= k
BY DEF RouteInv, RemainingIsAhead, Current, TypeOK, RouteTypeOK

-----------------------------------------------------------------------------
(* The invariant *)

LEMMA RouteInit == Init => RouteInv
BY ConnectedNothing DEF Init, RouteInv, RemainingIsAhead

\* A message brings a whole route, and nothing of it is behind the robot.
LEMMA RouteAccepted ==
    ASSUME StitchedUpdates, Inv, RouteInv, HandleOrder
    PROVE  RouteInv'
<1>1. PICK m \in OrderMsgs : AcceptNewOrder(m) \/ AcceptUpdate(m)
    BY DEF HandleOrder
<1>2. /\ order' = m /\ nodes' = m.nodes /\ edges' = m.edges
      /\ m.nodes \subseteq Nat /\ m.edges \subseteq Nat
    BY <1>1, OrdersAssumption DEF AcceptNewOrder, AcceptUpdate, TakeOver
<1>3. Connected(m.nodes, m.edges)
    BY DEF StitchedUpdates
<1>4. CASE AcceptNewOrder(m)
  <2>1. lastSeq' = 0
      BY <1>4 DEF AcceptNewOrder
  <2>2. RemainingIsAhead'
      BY <1>2, <2>1 DEF RemainingIsAhead
  <2>3. UpdatesAhead'
    <3>1. \A k \in OrderMsgs : k.nodes \cup k.edges \subseteq Nat
        BY OrdersAssumption
    <3> QED BY <2>1, <3>1 DEF UpdatesAhead
  <2> QED BY <1>2, <1>3, <2>2, <2>3 DEF RouteInv
<1>5. CASE AcceptUpdate(m)
  <2>1. /\ order # NoOrder /\ order \in OrderMsgs
        /\ order.id = m.id /\ order.upd < m.upd /\ lastSeq' = lastSeq
        /\ m.upd \in Nat /\ order.upd \in Nat
      BY <1>5, OrdersAssumption DEF AcceptUpdate, SameOrder, Inv, TypeOK, RouteTypeOK
  <2>2. RemainingIsAhead'
      BY <1>2, <2>1 DEF RouteInv, UpdatesAhead, RemainingIsAhead, Inv, TypeOK, RouteTypeOK
  <2>3. UpdatesAhead'
    <3> SUFFICES ASSUME NEW k \in OrderMsgs, k.id = m.id, m.upd < k.upd,
                        NEW s \in k.nodes \cup k.edges
                 PROVE  lastSeq <= s
        BY <1>2, <2>1 DEF UpdatesAhead
    <3>1. order.upd < k.upd
        BY <2>1, OrdersAssumption
    <3> QED BY <2>1, <3>1 DEF RouteInv, UpdatesAhead
  <2> QED BY <1>2, <1>3, <2>2, <2>3 DEF RouteInv
<1> QED BY <1>1, <1>4, <1>5

\* Without an order nothing remains.
LEMMA RouteCleared ==
    ASSUME NEW ss, ClearActiveOrder(ss)
    PROVE  RouteInv'
BY ConnectedNothing DEF ClearActiveOrder, RouteInv, RemainingIsAhead

\* Steps that keep order, route and last node keep the invariant.
LEMMA RouteKept ==
    ASSUME RouteInv, UNCHANGED <<order, nodes, edges, lastSeq>>
    PROVE  RouteInv'
BY DEF RouteInv, RemainingIsAhead, UpdatesAhead

\* A tick takes the first node and its edge off the route, or the last node.
LEMMA RouteDriven ==
    ASSUME StitchedUpdates, Inv, RouteInv, TickOrder
    PROVE  RouteInv'
<1> USE DEF Inv
<1>0. order' = order /\ nodes \in SUBSET Nat /\ edges \in SUBSET Nat /\ lastSeq \in Nat
    BY DEF TickOrder, TypeOK, RouteTypeOK
<1>1. CASE UNCHANGED <<nodes, edges, lastSeq>>
    BY <1>0, <1>1, RouteKept
<1>2. ASSUME NEW n \in nodes, Current(n), FinishRoute(n)
      PROVE  RouteInv'
  <2>1. \A k \in nodes : n <= k
      BY <1>2, CurrentIsFirst
  <2>2. nodes = {n} /\ edges = {}
      BY <1>0, <1>2, <2>1, ConnectedAtEnd DEF FinishRoute, RouteInv
  <2>3. nodes' = {} /\ edges' = {} /\ lastSeq' = n
      BY <1>2, <2>2 DEF FinishRoute
  <2>4. order # NoOrder => UpdatesAhead'
    <3> SUFFICES ASSUME order # NoOrder, n # lastSeq,
                        NEW m \in OrderMsgs, m.id = order.id, order.upd < m.upd,
                        NEW s \in m.nodes \cup m.edges
                 PROVE  n <= s
        BY <1>0, <2>3 DEF RouteInv, UpdatesAhead
    <3>1. nodes = order.nodes /\ order \in OrderMsgs
        BY <2>2 DEF RouteInv, TypeOK, RouteTypeOK
    <3>2. n \in order.base
        BY <2>1, <3>1 DEF StitchedUpdates
    <3> QED BY <3>1, <3>2 DEF StitchedUpdates
  <2> QED BY <1>0, <2>3, <2>4, ConnectedNothing DEF RouteInv, RemainingIsAhead
<1>3. ASSUME NEW n \in nodes, Current(n), Drive(n), ArriveFrom(n)
      PROVE  RouteInv'
  <2>1. \A k \in nodes : n <= k
      BY <1>3, CurrentIsFirst
  <2>2. nodes' = nodes \ {n} /\ edges' = edges \ {n + 1} /\ lastSeq' = n + 2
      BY <1>3 DEF ArriveFrom
  <2>3. n + 2 \in nodes /\ n + 2 \in order.base
      BY <1>3 DEF Drive, BaseAhead
  <2>4. Connected(nodes', edges') /\ RemainingIsAhead'
      BY <1>0, <2>1, <2>2, ConnectedAfterFirst DEF RouteInv, RemainingIsAhead
  <2>5. order # NoOrder => UpdatesAhead'
    <3> SUFFICES ASSUME order # NoOrder,
                        NEW m \in OrderMsgs, m.id = order.id, order.upd < m.upd,
                        NEW s \in m.nodes \cup m.edges
                 PROVE  n + 2 <= s
        BY <1>0, <2>2 DEF UpdatesAhead
    <3>1. order \in OrderMsgs
        BY DEF TypeOK, RouteTypeOK
    <3> QED BY <2>3, <3>1 DEF StitchedUpdates
  <2>6. lastSeq' \in nodes'
      BY <1>0, <2>2, <2>3
  <2> QED BY <1>0, <2>2, <2>4, <2>5, <2>6 DEF RouteInv
<1>4. \/ UNCHANGED <<nodes, edges, lastSeq>>
      \/ \E n \in nodes : Current(n) /\ (FinishRoute(n) \/ (Drive(n) /\ ArriveFrom(n)))
    BY DEF TickOrder, NoRoute, Hold, AwaitBase, AwaitAccess, Drive, EnRoute
<1> QED BY <1>1, <1>2, <1>3, <1>4

LEMMA RouteStep ==
    ASSUME StitchedUpdates, Inv, RouteInv, [Next]_vars
    PROVE  RouteInv'
<1>1. CASE HandleOrder
    BY <1>1, RouteAccepted
<1>2. CASE HandleInstantAction
  <2>1. ASSUME NEW wake \in BOOLEAN, StartHibernation(wake) PROVE RouteInv'
      BY <2>1, RouteCleared DEF StartHibernation
  <2>2. CASE \A wake \in BOOLEAN : ~StartHibernation(wake)
      BY <1>2, <2>2, InstantEffect, RouteKept DEF routeVars, Inv
  <2> QED BY <2>1, <2>2
<1>3. CASE \/ \E e \in Seqs, grant \in {"GRANTED", "REVOKED", "same"}, withLease \in BOOLEAN :
                HandleResponse(e, grant, withLease)
           \/ \E e \in Seqs : LeaseRunsOut(e)
           \/ InjectFault
           \/ UNCHANGED vars
    BY <1>3, RouteKept DEF HandleResponse, LeaseRunsOut, InjectFault, vars, routeVars
<1>4. CASE Tick
  <2>1. CASE TickHibernating \/ TickSuspended
      BY <2>1, RouteKept DEF TickHibernating, TickSuspended, routeVars
  <2>2. CASE TickCancel
      BY <2>2, RouteCleared DEF TickCancel
  <2>3. CASE TickOrder
      BY <2>3, RouteDriven
  <2> QED BY <1>4, <2>1, <2>2, <2>3 DEF Tick
<1> QED BY <1>1, <1>2, <1>3, <1>4 DEF Next

THEOREM RouteInvariance ==
    ASSUME StitchedUpdates PROVE Spec => [](Inv /\ RouteInv)
<1>1. Init => RouteInv
    BY RouteInit
<1>2. Inv /\ RouteInv /\ [Next]_vars => RouteInv'
    BY RouteStep
<1> QED BY <1>1, <1>2, Invariance, PTL DEF Spec

\* With stitched updates the remaining graph is what the code says of it: nothing of it
\* is behind the robot (agv.py, _accept_order and _arrive_at).
THEOREM RemainingIsAheadIfStitched ==
    ASSUME StitchedUpdates PROVE Spec => []RemainingIsAhead
<1>1. RouteInv => RemainingIsAhead
    BY DEF RouteInv
<1> QED BY <1>1, RouteInvariance, PTL

-----------------------------------------------------------------------------
(* A tick takes the robot further *)

LEMMA AdvanceLemma ==
    ASSUME Inv, RouteInv, TickOrder, nodes # {}, order.base = order.nodes \cup order.edges
    PROVE  \E n \in nodes :
             /\ Current(n)
             /\ \/ Held(n)
                \/ n + 1 \in edges /\ Gated(n + 1)
                \/ nodes' = nodes /\ gone' = gone + 1
                \/ nodes' = nodes \ {n} /\ lastSeq' \in {n, n + 2}
<1>0. order # NoOrder
    BY DEF Inv, QuietWithoutOrder
<1>1. PICK n \in nodes :
        /\ Current(n)
        /\ Held(n) \/ FinishRoute(n) \/ AwaitBase(n) \/ AwaitAccess(n) \/ Drive(n)
    BY DEF TickOrder, NoRoute
<1>2. ~AwaitBase(n)
  <2> SUFFICES ASSUME n + 1 \in edges PROVE BaseAhead(n)
      BY DEF AwaitBase
  <2>1. (n + 1) + 1 \in nodes /\ n \in Nat
      BY DEF RouteInv, Connected, Inv, TypeOK, RouteTypeOK
  <2>2. n + 2 \in nodes
      BY <2>1
  <2> QED BY <1>0, <2>2 DEF BaseAhead, RouteInv
<1>3. ASSUME FinishRoute(n) PROVE nodes' = nodes \ {n} /\ lastSeq' = n
    BY <1>3 DEF FinishRoute
<1>4. ASSUME AwaitAccess(n) PROVE n + 1 \in edges /\ Gated(n + 1)
    BY <1>4 DEF AwaitAccess
<1>5. ASSUME Drive(n)
      PROVE  \/ nodes' = nodes /\ gone' = gone + 1
             \/ nodes' = nodes \ {n} /\ lastSeq' = n + 2
    BY <1>5 DEF Drive, EnRoute, ArriveFrom
<1> QED BY <1>1, <1>2, <1>3, <1>4, <1>5

\* On a fully released order no tick waits for a base: it is held by an action, a fault
\* or a corridor, or it takes the robot further (agv.py, tick).  With the fairness of
\* the movement loop this is what RouteCompletes rests on.
THEOREM RouteAdvancesIfStitched ==
    ASSUME StitchedUpdates PROVE Spec => RouteAdvances
<1>1. Inv /\ RouteInv /\ [Next]_vars => [AdvanceStep]_vars
    BY AdvanceLemma DEF AdvanceStep
<1> QED BY <1>1, RouteInvariance, PTL DEF Spec, RouteAdvances
=============================================================================
