------------------------------- MODULE Motion -------------------------------
(***************************************************************************)
(* How a robot gets to its next node: _step_towards of class SimulatedAgv  *)
(* in src/vda5050_sim/agv.py, the angle arithmetic and the point-in-       *)
(* polygon test behind it.                                                 *)
(*                                                                         *)
(* The robot drives on a lane, the line y = lane, from node to node: an    *)
(* edge and the node at its end are a leg.  Headings along the lane are 0  *)
(* and Half (pi); angles are integers with 2 * Half in a full circle, and  *)
(* as in the code nothing brings them back into one circle.  Two           *)
(* SPEED_LIMIT zones, the halves of a quadrilateral, adjoin each other     *)
(* along its diagonal.                                                     *)
(*                                                                         *)
(* What is abstracted.  A tick of this module is one that module Agv lets  *)
(* drive: nothing blocks it, and the edge and node are released.  The end  *)
(* of a leg is a tick's length away at the latest when it is reached, so   *)
(* distances are whole numbers.  Rounding, the battery and the distance    *)
(* counters are left out.                                                  *)
(***************************************************************************)
EXTENDS Integers, Sequences, FiniteSets

CONSTANTS
    Half,           \* pi
    Turn,           \* the angle turned in a tick
    Tolerance,      \* _ORIENTATION_TOLERANCE_RAD
    Speed,          \* the distance driven in a tick without limits
    Limits,         \* Limits[k]: maximumSpeed of half k of the quadrilateral
    Lanes,          \* y of the lanes the robot may be on
    Places,         \* x of the nodes
    Quads,          \* quadrilaterals: sequences of four vertices, pairs of x and y
    Legs,           \* edges and nodes an order may send
    Poses,          \* pairs of a place and an angle that initializePosition may name
    ThetaBound,     \* bound on theta when a leg or a position is set, or a turn has
                    \* no end, so that the model is finite
    Free            \* no orientation on the edge, or no theta on the node

\* to: x of the node.  orientation, kind, pre, max: orientation, orientationType,
\* reachOrientationBeforeEntering and maximumSpeed of the edge (Speed: no limit).
\* final: theta of the node.
LegType == [to : Places, orientation : Int \cup {Free}, kind : {"GLOBAL", "TANGENTIAL"},
            pre : BOOLEAN, max : Nat \ {0}, final : Int \cup {Free}]

ASSUME AngleAssumption ==
    /\ Half \in Nat \ {0} /\ Turn \in Nat \ {0} /\ Tolerance \in Nat
    /\ Free \notin Int

ASSUME DriveAssumption ==
    /\ Speed \in Nat \ {0} /\ Limits \in [1..2 -> Nat \ {0}]
    /\ Places \subseteq Int /\ Lanes \subseteq Int
    /\ Quads \subseteq Seq(Int \X Int) /\ \A q \in Quads : Len(q) = 4
    /\ Legs \subseteq LegType
    /\ Poses \subseteq Places \X Int

NoLeg == <<>>

VARIABLES
    quad, lane,     \* the zones' outline and the lane, fixed
    x, theta,       \* where the robot is and faces
    leg             \* the edge it is on and the node ahead, or NoLeg

vars == <<quad, lane, x, theta, leg>>

TypeOK ==
    /\ quad \in Quads /\ lane \in Lanes
    /\ x \in Int /\ theta \in Int
    /\ leg \in Legs \cup {NoLeg}

Init ==
    /\ quad \in Quads /\ lane \in Lanes
    /\ x \in Places /\ theta = 0
    /\ leg = NoLeg

-----------------------------------------------------------------------------
(* Angles *)

Abs(n) == IF n < 0 THEN -n ELSE n

Least(a, b) == IF a < b THEN a ELSE b

\* Mutant of AngleDiff: the difference is not brought into one circle.
AngleDiffPlain(target, current) == target - current

\* _angle_diff: the way from current to target, the shorter way round.
AngleDiff(target, current) == ((target - current + Half) % (2 * Half)) - Half

-----------------------------------------------------------------------------
(* Zones *)

\* Mutant of Crosses: an edge owns both its ends.
CrossesClosed(px, py, a, b) ==
    /\ (a[2] >= py) # (b[2] > py)
    /\ IF b[2] > a[2] THEN (px - a[1]) * (b[2] - a[2]) < (b[1] - a[1]) * (py - a[2])
                      ELSE (px - a[1]) * (b[2] - a[2]) > (b[1] - a[1]) * (py - a[2])

\* The ray from (px, py) in the direction of x crosses the edge from a to b; the
\* division of the code is multiplied out.
Crosses(px, py, a, b) ==
    /\ (a[2] > py) # (b[2] > py)
    /\ IF b[2] > a[2] THEN (px - a[1]) * (b[2] - a[2]) < (b[1] - a[1]) * (py - a[2])
                      ELSE (px - a[1]) * (b[2] - a[2]) > (b[1] - a[1]) * (py - a[2])

\* Mutant of Previous: the outline is not closed.
PreviousOpen(i, n) == IF i = 1 THEN 1 ELSE i - 1

Previous(i, n) == IF i = 1 THEN n ELSE i - 1

\* _point_in_polygon
PointInPolygon(px, py, vertices) ==
    LET n == Len(vertices)
    IN /\ n >= 3
       /\ Cardinality({i \in 1..n : Crosses(px, py, vertices[i], vertices[Previous(i, n)])}) % 2 = 1

HalfOf(q, k) == IF k = 1 THEN <<q[1], q[2], q[3]>> ELSE <<q[1], q[3], q[4]>>

\* _zone_objects_containing
ZonesAt(px) == {k \in 1..2 : PointInPolygon(px, lane, HalfOf(quad, k))}

-----------------------------------------------------------------------------
(* One tick of a leg *)

Distance == Abs(leg.to - x)

\* heading_to_target; on the spot it is wherever the robot faces.
Heading == IF Distance = 0 THEN theta ELSE IF leg.to > x THEN 0 ELSE Half

\* _resolve_edge_orientation
Desired ==
    IF leg.orientation = Free THEN Free
    ELSE IF leg.kind = "GLOBAL" THEN leg.orientation
    ELSE Heading + leg.orientation

\* Mutant of Step: the limit is looked up where the leg ends.
StepLimitAhead ==
    LET zoned(k, s) == IF k \in ZonesAt(leg.to) THEN Least(s, Limits[k]) ELSE s
    IN zoned(1, zoned(2, Least(Speed, leg.max)))

\* effective_speed * dt
Step ==
    LET zoned(k, s) == IF k \in ZonesAt(x) THEN Least(s, Limits[k]) ELSE s
    IN zoned(1, zoned(2, Least(Speed, leg.max)))

MustTurn == leg.pre /\ Desired # Free /\ Abs(AngleDiff(Desired, theta)) > Tolerance

\* The rest of the turn, cut to what a tick can turn.
TurnStep ==
    LET delta == AngleDiff(Desired, theta)
    IN IF delta < -Turn THEN -Turn ELSE IF delta > Turn THEN Turn ELSE delta

\* The turn never ends for a leg that ends where the robot stands and has an
\* orientation relative to the robot's own heading.
Spins == leg # NoLeg /\ MustTurn /\ Distance = 0 /\ leg.kind = "TANGENTIAL"

Rotate ==
    /\ leg # NoLeg /\ MustTurn
    /\ Spins => Abs(theta) <= ThetaBound
    /\ theta' = theta + TurnStep
    /\ UNCHANGED <<quad, lane, x, leg>>

\* Mutant of Drive: the robot turns while it drives off.
DriveTurning ==
    /\ leg # NoLeg
    /\ Distance > Step
    /\ x' = IF leg.to > x THEN x + Step ELSE x - Step
    /\ theta' = IF MustTurn THEN theta + TurnStep ELSE IF Desired # Free THEN Desired ELSE Heading
    /\ UNCHANGED <<quad, lane, leg>>

\* Mutant of Drive: the step is added whichever way the leg goes.
DriveForward ==
    /\ leg # NoLeg /\ ~MustTurn
    /\ Distance > Step
    /\ x' = x + Step
    /\ theta' = IF Desired # Free THEN Desired ELSE Heading
    /\ UNCHANGED <<quad, lane, leg>>

Drive ==
    /\ leg # NoLeg /\ ~MustTurn
    /\ Distance > Step
    /\ x' = IF leg.to > x THEN x + Step ELSE x - Step
    /\ theta' = IF Desired # Free THEN Desired ELSE Heading
    /\ UNCHANGED <<quad, lane, leg>>

\* Mutant of Arrive: the last stretch is only driven when it is a whole step.
ArriveExactly ==
    /\ leg # NoLeg /\ ~MustTurn
    /\ Distance = Step
    /\ x' = leg.to
    /\ theta' = IF Desired # Free THEN Desired ELSE IF leg.final # Free THEN leg.final ELSE theta
    /\ leg' = NoLeg
    /\ UNCHANGED <<quad, lane>>

\* Mutant of Arrive: the node's theta is taken although it has none.
ArriveFacingAnything ==
    /\ leg # NoLeg /\ ~MustTurn
    /\ Distance <= Step
    /\ x' = leg.to
    /\ theta' = IF Desired # Free THEN Desired ELSE leg.final
    /\ leg' = NoLeg
    /\ UNCHANGED <<quad, lane>>

Arrive ==
    /\ leg # NoLeg /\ ~MustTurn
    /\ Distance <= Step
    /\ x' = leg.to
    /\ theta' = IF Desired # Free THEN Desired ELSE IF leg.final # Free THEN leg.final ELSE theta
    /\ leg' = NoLeg
    /\ UNCHANGED <<quad, lane>>

Tick == Rotate \/ Drive \/ Arrive

-----------------------------------------------------------------------------
(* What comes from outside: orders, cancels, initializePosition *)

StartLeg(l) ==
    /\ leg = NoLeg
    /\ Abs(theta) <= ThetaBound
    /\ leg' = l
    /\ UNCHANGED <<quad, lane, x, theta>>

\* A cancel leaves the robot where it is, between two nodes or half turned.
Abandon ==
    /\ leg # NoLeg
    /\ leg' = NoLeg
    /\ UNCHANGED <<quad, lane, x, theta>>

\* initializePosition takes effect when its timer ends, also on the way.  A theta or
\* mapId it cannot parse fails the action after x and y have been set.
InitializePosition ==
    /\ Abs(theta) <= ThetaBound
    /\ \E p \in Poses : x' = p[1] /\ theta' \in {p[2], theta}
    /\ UNCHANGED <<quad, lane, leg>>

Next ==
    \/ Tick
    \/ \E l \in Legs : StartLeg(l)
    \/ Abandon
    \/ InitializePosition

Spec == Init /\ [][Next]_vars

\* asyncio resumes the movement loop after every sleep, and nothing holds the robot for
\* ever.
FairSpec == Spec /\ WF_vars(Tick)

-----------------------------------------------------------------------------
(* Driving *)

Same(a, b) == (a - b) % (2 * Half) = 0

\* Over an edge with reachOrientationBeforeEntering the robot moves only when it faces
\* the edge's orientation, give or take the tolerance, wherever a cancel or an
\* initializePosition left it.
EntersAligned ==
    [][Tick /\ x' # x /\ leg.pre /\ Desired # Free =>
          \E e \in -Tolerance..Tolerance : Same(theta + e, Desired)]_vars

\* A turn on the spot goes the shorter way round and not past its end: what is left of
\* it shrinks by what was turned, and never changes sides.
TurnsToTheEnd ==
    [][Rotate /\ Distance # 0 =>
          LET before == AngleDiff(Desired, theta)
              after == AngleDiff(Desired, theta')
          IN /\ Abs(after) = Abs(before) - Abs(theta' - theta)
             /\ Abs(theta' - theta) \in 1..Turn
             /\ Abs(before) <= Half]_vars

\* What is left of a leg: the way, and the turn to the edge's orientation.
Left == Distance + (IF Desired = Free THEN 0 ELSE Abs(AngleDiff(Desired, theta)))

\* With every tick less is left of any other leg, until it ends: neither a turn before an
\* edge nor an orientation taken on while driving ever costs more than it gains.  What is
\* left is a number, so a leg of length d is done after at most d + Half + 1 ticks.
LegShortens ==
    [][Tick /\ ~Spins => leg' = NoLeg \/ (leg' = leg /\ Left' \in 0..(Left - 1))]_vars

\* Unless positions are set again and again, every other leg comes to its end, for all
\* orientations, speed limits of at least 1 and half-done turns.
LegEnds ==
    <>[][~InitializePosition]_<<x, theta>> => [](leg # NoLeg => <>(leg = NoLeg \/ Spins))

-----------------------------------------------------------------------------
(* Zones *)

\* On which side of the line from a to b a point is.
Side(a, b, px, py) == (b[1] - a[1]) * (py - a[2]) - (b[2] - a[2]) * (px - a[1])

Within(n, a, b) == (a <= n /\ n <= b) \/ (b <= n /\ n <= a)

OnEdge(a, b, px, py) == Side(a, b, px, py) = 0 /\ Within(px, a[1], b[1]) /\ Within(py, a[2], b[2])

Edges(t) == {<<t[1], t[2]>>, <<t[2], t[3]>>, <<t[3], t[1]>>}

InsideTriangle(t, px, py) ==
    \/ \A e \in Edges(t) : Side(e[1], e[2], px, py) > 0
    \/ \A e \in Edges(t) : Side(e[1], e[2], px, py) < 0

\* The test agrees with the definition of a triangle by half-planes, whatever the order
\* of its vertices and also when the ray meets a vertex; on the border it may say either.
AgreesWithHalfPlanes ==
    \A k \in 1..2 :
        LET t == HalfOf(quad, k)
        IN \/ \E e \in Edges(t) : OnEdge(e[1], e[2], x, lane)
           \/ (k \in ZonesAt(x)) <=> InsideTriangle(t, x, lane)

\* Parity of zones that adjoin, for every point, those on the border between them
\* included: what is in the whole is in exactly one of its halves, and what is in exactly
\* one is in the whole. (Where the diagonal runs outside the whole, as in concave and
\* crossing outlines, the halves overlap: such points are in both and not in the whole.)
HalvesMakeTheWhole ==
    PointInPolygon(x, lane, quad) <=> Cardinality(ZonesAt(x)) = 1

\* No tick that starts inside a zone drives further than the zone allows.
SlowInZone ==
    [][Tick => \A k \in 1..2 :
          InsideTriangle(HalfOf(quad, k), x, lane) => Abs(x' - x) <= Limits[k]]_vars
=============================================================================
