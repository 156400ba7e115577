---------------------------- MODULE MotionProofs ----------------------------
(* Proofs about module Motion: the turns, and the point-in-polygon test for every *)
(* triangle and every quadrilateral with integer coordinates.                     *)
EXTENDS Motion, FiniteSetTheorems, TLAPS

-----------------------------------------------------------------------------
(* Types *)

LEMMA AngleDiffType ==
    ASSUME NEW target \in Int, NEW current \in Int
    PROVE  AngleDiff(target, current) \in -Half..(Half - 1)
<1>1. Half \in Nat \ {0}
  BY AngleAssumption
<1>2. (target - current + Half) % (2 * Half) \in 0..(2 * Half - 1)
  BY <1>1
<1> QED
  BY <1>1, <1>2 DEF AngleDiff

\* What is known of the robot on a leg.
LEMMA LegFacts ==
    ASSUME TypeOK, leg # NoLeg
    PROVE  /\ leg.to \in Int /\ leg.pre \in BOOLEAN /\ leg.max \in Nat \ {0}
           /\ leg.final \in Int \cup {Free}
           /\ Distance \in Nat /\ Heading \in Int
           /\ Desired \in Int \cup {Free}
<1>1. leg \in LegType
  BY DriveAssumption DEF TypeOK
<1>2. /\ leg.to \in Int /\ leg.pre \in BOOLEAN /\ leg.max \in Nat \ {0}
      /\ leg.final \in Int \cup {Free} /\ leg.orientation \in Int \cup {Free}
  BY <1>1, DriveAssumption DEF LegType
<1>3. x \in Int /\ theta \in Int /\ Half \in Int
  BY AngleAssumption DEF TypeOK
<1>4. Distance \in Nat
  BY <1>2, <1>3 DEF Distance, Abs
<1>5. Heading \in Int
  BY <1>3 DEF Heading
<1>6. Desired \in Int \cup {Free}
  BY <1>2, <1>5 DEF Desired
<1> QED
  BY <1>2, <1>4, <1>5, <1>6

\* A step is a positive whole number and no longer than any limit at the robot's place.
LEMMA StepType ==
    ASSUME TypeOK, leg # NoLeg
    PROVE  /\ Step \in Nat \ {0}
           /\ \A k \in ZonesAt(x) : Step <= Limits[k]
<1>1. leg.max \in Nat \ {0}
  BY LegFacts
<1>2. Speed \in Nat \ {0} /\ Limits[1] \in Nat \ {0} /\ Limits[2] \in Nat \ {0}
  BY DriveAssumption
<1>3. ZonesAt(x) \subseteq 1..2
  BY DEF ZonesAt
<1> DEFINE base == Least(Speed, leg.max)
<1>4. base \in Nat \ {0}
  BY <1>1, <1>2 DEF Least
<1> DEFINE second == IF 2 \in ZonesAt(x) THEN Least(base, Limits[2]) ELSE base
           first == IF 1 \in ZonesAt(x) THEN Least(second, Limits[1]) ELSE second
<1>5. Step = first
  BY DEF Step
<1> HIDE DEF base
<1>6. second \in Nat \ {0} /\ (2 \in ZonesAt(x) => second <= Limits[2])
  BY <1>2, <1>4 DEF Least
<1> HIDE DEF second
<1>7. first \in Nat \ {0} /\ first <= second /\ (1 \in ZonesAt(x) => first <= Limits[1])
  BY <1>2, <1>6 DEF Least
<1> HIDE DEF first
<1>8. ASSUME NEW k \in ZonesAt(x) PROVE first <= Limits[k]
  <2>1. CASE k = 1
    BY <1>7, <1>8, <2>1
  <2>2. CASE k = 2
    BY <1>2, <1>6, <1>7, <1>8, <2>2
  <2> QED
    BY <1>3, <1>8, <2>1, <2>2
<1> QED
  BY <1>5, <1>7, <1>8

\* A tick turns by at most Turn, in the direction of what is left, and not past it.
LEMMA TurnStepFacts ==
    ASSUME TypeOK, leg # NoLeg, MustTurn
    PROVE  LET delta == AngleDiff(Desired, theta)
           IN /\ Desired \in Int /\ delta \in -Half..(Half - 1)
              /\ TurnStep \in Int
              /\ delta > Tolerance => TurnStep \in 1..delta
              /\ delta < -Tolerance => TurnStep \in delta..(-1)
              /\ delta > Tolerance \/ delta < -Tolerance
              /\ TurnStep \in -Turn..Turn
<1> DEFINE delta == AngleDiff(Desired, theta)
<1>1. Desired \in Int
  BY LegFacts DEF MustTurn
<1>2. delta \in -Half..(Half - 1)
  BY <1>1, AngleDiffType DEF TypeOK
<1>3. Half \in Nat \ {0} /\ Turn \in Nat \ {0} /\ Tolerance \in Nat
  BY AngleAssumption
<1>4. Abs(delta) > Tolerance
  BY DEF MustTurn
<1>5. TurnStep = IF delta < -Turn THEN -Turn ELSE IF delta > Turn THEN Turn ELSE delta
  BY DEF TurnStep
<1> HIDE DEF delta
<1>6. delta \in Int
  BY <1>2, <1>3
<1>7. delta > Tolerance \/ delta < -Tolerance
  BY <1>3, <1>4, <1>6 DEF Abs
<1>8. /\ TurnStep \in Int
      /\ delta > Tolerance => TurnStep \in 1..delta
      /\ delta < -Tolerance => TurnStep \in delta..(-1)
      /\ TurnStep \in -Turn..Turn
  BY <1>3, <1>5, <1>6
<1> QED
  BY <1>1, <1>2, <1>7, <1>8 DEF delta

\* The types hold in every reachable state: no tick leaves the robot without a place or
\* an angle, whatever the edge and the node say of orientations (_step_towards).
THEOREM TypeCorrect == Spec => []TypeOK
<1>1. Init => TypeOK
  <2> SUFFICES ASSUME Init PROVE TypeOK
    OBVIOUS
  <2> QED
    BY DriveAssumption DEF Init, TypeOK
<1>2. TypeOK /\ [Next]_vars => TypeOK'
  <2> SUFFICES ASSUME TypeOK, [Next]_vars PROVE TypeOK'
    OBVIOUS
  <2>1. CASE Rotate
    <3>1. TurnStep \in Int
      BY <2>1, TurnStepFacts DEF Rotate
    <3> QED
      BY <2>1, <3>1 DEF Rotate, TypeOK
  <2>2. CASE Drive
    <3>1. leg.to \in Int /\ Step \in Int /\ Heading \in Int /\ Desired \in Int \cup {Free}
      BY <2>2, LegFacts, StepType DEF Drive
    <3> QED
      BY <2>2, <3>1 DEF Drive, TypeOK
  <2>3. CASE Arrive
    <3>1. leg.to \in Int /\ leg.final \in Int \cup {Free} /\ Desired \in Int \cup {Free}
      BY <2>3, LegFacts DEF Arrive
    <3> QED
      BY <2>3, <3>1 DEF Arrive, TypeOK
  <2>4. ASSUME NEW l \in Legs, StartLeg(l) PROVE TypeOK'
    BY <2>4 DEF StartLeg, TypeOK
  <2>5. CASE Abandon
    BY <2>5 DEF Abandon, TypeOK
  <2>6. CASE InitializePosition
    BY <2>6, DriveAssumption DEF InitializePosition, TypeOK
  <2>7. CASE UNCHANGED vars
    BY <2>7 DEF vars, TypeOK
  <2> QED
    BY <2>1, <2>2, <2>3, <2>4, <2>5, <2>6, <2>7 DEF Next, Tick
<1> QED
  BY <1>1, <1>2, PTL DEF Spec

-----------------------------------------------------------------------------
(* Turns *)

LEMMA ModOfProduct ==
    ASSUME NEW k \in Int, NEW m \in Nat \ {0}
    PROVE  (k * m) % m = 0
OBVIOUS

LEMMA ModOfMultiple ==
    ASSUME NEW a \in Int, NEW m \in Nat \ {0}
    PROVE  ((a % m) - a) % m = 0
<1> DEFINE k == a \div m
<1>1. k \in Int /\ a % m \in Int /\ a = (k * m) + (a % m)
  OBVIOUS
<1>2. (a % m) - a = (-k) * m
  <2> HIDE DEF k
  <2> QED
    BY <1>1
<1>3. -k \in Int
  BY <1>1
<1> QED
  BY <1>2, <1>3, ModOfProduct

LEMMA ModShift ==
    ASSUME NEW a \in Int, NEW s \in Int, NEW m \in Nat \ {0}, ((a % m) - s) \in 0..(m - 1)
    PROVE  (a - s) % m = (a % m) - s
OBVIOUS

\* Turning by the difference leads to the target, up to full circles.
LEMMA TurnedBySame ==
    ASSUME NEW target \in Int, NEW current \in Int
    PROVE  Same(current + AngleDiff(target, current), target)
<1> DEFINE way == target - current + Half
           circle == 2 * Half
<1>1. way \in Int /\ circle \in Nat \ {0} /\ Half \in Int
  BY AngleAssumption
<1>2. ((way % circle) - way) % circle = 0
  BY <1>1, ModOfMultiple
<1>3. way % circle \in Int
  BY <1>1
<1>4. current + AngleDiff(target, current) - target = (way % circle) - way
  BY <1>1, <1>3 DEF AngleDiff
<1>5. AngleDiff(target, current) \in Int
  BY AngleDiffType, <1>1
<1> DEFINE left == current + AngleDiff(target, current) - target
<1>6. left \in Int /\ left % circle = 0
  <2> HIDE DEF way, circle
  <2> QED
    BY <1>1, <1>2, <1>3, <1>4, <1>5
<1> QED
  BY <1>5, <1>6 DEF Same

\* Turning by a part of the difference leaves the rest of it.
LEMMA TurnedByPart ==
    ASSUME NEW target \in Int, NEW current \in Int, NEW s \in Int,
           AngleDiff(target, current) - s \in -Half..(Half - 1)
    PROVE  AngleDiff(target, current + s) = AngleDiff(target, current) - s
<1> DEFINE a == target - current + Half
           m == 2 * Half
<1>1. a \in Int /\ m \in Nat \ {0} /\ Half \in Nat \ {0} /\ m = Half + Half
  BY AngleAssumption
<1>2. AngleDiff(target, current) = (a % m) - Half
  BY DEF AngleDiff
<1>3. a % m \in Int
  BY <1>1
<1>4. (a % m) - s \in 0..(m - 1)
  BY <1>1, <1>2, <1>3
<1>5. (a - s) % m = (a % m) - s
  BY <1>1, <1>4, ModShift
<1>6. target - (current + s) + Half = a - s
  BY <1>1
<1>7. AngleDiff(target, current + s) = ((a - s) % m) - Half
  BY <1>6 DEF AngleDiff
<1> QED
  BY <1>1, <1>2, <1>3, <1>5, <1>7

\* The robot moves only facing the orientation of an edge that asks for it before
\* (the test of must_pre_rotate in _step_towards).
THEOREM EntersAlignedAlways == Spec => EntersAligned
<1>1. ASSUME TypeOK, Tick, x' # x, leg.pre, Desired # Free
      PROVE  \E e \in -Tolerance..Tolerance : Same(theta + e, Desired)
  <2>1. leg # NoLeg /\ ~MustTurn
    BY <1>1 DEF Tick, Rotate, Drive, Arrive
  <2> DEFINE e == AngleDiff(Desired, theta)
  <2>2. Desired \in Int /\ theta \in Int /\ Half \in Nat \ {0} /\ Tolerance \in Nat
    BY <1>1, <2>1, LegFacts, AngleAssumption DEF TypeOK
  <2>3. e \in Int
    BY <2>2, AngleDiffType
  <2>4. ~(Abs(e) > Tolerance)
    BY <1>1, <2>1 DEF MustTurn
  <2>5. Same(theta + e, Desired)
    BY <2>2, TurnedBySame
  <2> HIDE DEF e
  <2>6. e \in -Tolerance..Tolerance
    BY <2>2, <2>3, <2>4 DEF Abs
  <2> QED
    BY <2>5, <2>6
<1>2. TypeOK /\ [Next]_vars =>
        [Tick /\ x' # x /\ leg.pre /\ Desired # Free =>
            \E e \in -Tolerance..Tolerance : Same(theta + e, Desired)]_vars
  BY <1>1
<1> QED
  BY <1>2, TypeCorrect, PTL DEF Spec, EntersAligned

\* A tick of a turn takes a part of what is left of it off, and nothing else.
LEMMA TurnFacts ==
    ASSUME TypeOK, Rotate
    PROVE  LET before == AngleDiff(Desired, theta)
               after == AngleDiff(Desired, theta')
           IN /\ Abs(after) = Abs(before) - Abs(theta' - theta)
              /\ Abs(theta' - theta) \in 1..Turn
              /\ Abs(before) <= Half
<1> DEFINE before == AngleDiff(Desired, theta)
<1>1. leg # NoLeg /\ MustTurn /\ theta' = theta + TurnStep
  BY DEF Rotate
<1>2. theta \in Int /\ Half \in Nat \ {0} /\ Turn \in Nat \ {0} /\ Tolerance \in Nat
  BY AngleAssumption DEF TypeOK
<1>3. /\ Desired \in Int /\ before \in -Half..(Half - 1)
      /\ TurnStep \in Int
      /\ before > Tolerance => TurnStep \in 1..before
      /\ before < -Tolerance => TurnStep \in before..(-1)
      /\ before > Tolerance \/ before < -Tolerance
      /\ TurnStep \in -Turn..Turn
  BY <1>1, TurnStepFacts
<1>4. before - TurnStep \in -Half..(Half - 1)
  <2> HIDE DEF before
  <2> QED
    BY <1>2, <1>3
<1>5. AngleDiff(Desired, theta') = before - TurnStep
  BY <1>1, <1>2, <1>3, <1>4, TurnedByPart
<1>6. theta' - theta = TurnStep
  BY <1>1, <1>2, <1>3
<1>7. /\ Abs(before - TurnStep) = Abs(before) - Abs(TurnStep)
      /\ Abs(TurnStep) \in 1..Turn
      /\ Abs(before) <= Half
  <2> HIDE DEF before
  <2> QED
    BY <1>2, <1>3 DEF Abs
<1> QED
  BY <1>5, <1>6, <1>7

\* A turn before an edge goes the shorter way round and never past its end
\* (step_theta in _step_towards, _angle_diff).
THEOREM TurnsToTheEndAlways == Spec => TurnsToTheEnd
<1>1. TypeOK /\ [Next]_vars =>
        [Rotate /\ Distance # 0 =>
           LET before == AngleDiff(Desired, theta)
               after == AngleDiff(Desired, theta')
           IN /\ Abs(after) = Abs(before) - Abs(theta' - theta)
              /\ Abs(theta' - theta) \in 1..Turn
              /\ Abs(before) <= Half]_vars
  BY TurnFacts
<1> QED
  BY <1>1, TypeCorrect, PTL DEF Spec, TurnsToTheEnd

-----------------------------------------------------------------------------
(* The end of a leg *)

\* A robot that faces its target has no turn left.
LEMMA AngleDiffSelf ==
    ASSUME NEW a \in Int PROVE AngleDiff(a, a) = 0
<1>1. Half \in Nat \ {0} /\ a - a + Half = Half
  BY AngleAssumption
<1>2. Half % (2 * Half) = Half
  BY <1>1
<1> QED
  BY <1>1, <1>2 DEF AngleDiff

\* What is left of a leg is a number, and at most half a turn more than its length.
LEMMA LeftType ==
    ASSUME TypeOK, leg # NoLeg
    PROVE  Left \in Nat /\ Left <= Distance + Half
<1>1. Distance \in Nat /\ Desired \in Int \cup {Free} /\ theta \in Int /\ Half \in Nat \ {0}
  BY LegFacts, AngleAssumption DEF TypeOK
<1>2. CASE Desired = Free
  BY <1>1, <1>2 DEF Left
<1>3. CASE Desired # Free
  <2> DEFINE turn == AngleDiff(Desired, theta)
  <2>1. turn \in -Half..(Half - 1)
    BY <1>1, <1>3, AngleDiffType
  <2>2. Left = Distance + Abs(turn)
    BY <1>3 DEF Left
  <2> HIDE DEF turn
  <2> QED
    BY <1>1, <2>1, <2>2 DEF Abs
<1> QED
  BY <1>2, <1>3

\* A turn on the spot keeps the way and the orientation it turns to, unless that one
\* turns along.
LEMMA RotateShortens ==
    ASSUME TypeOK, Rotate, ~Spins
    PROVE  leg' = leg /\ Left' \in 0..(Left - 1)
<1>1. leg # NoLeg /\ MustTurn /\ Desired # Free /\ UNCHANGED <<x, leg>>
  BY DEF Rotate, MustTurn
<1>2. Distance' = Distance /\ Distance \in Nat /\ Desired \in Int
  BY <1>1, LegFacts DEF Distance
<1>3. leg.kind \in {"GLOBAL", "TANGENTIAL"}
  BY <1>1, DriveAssumption DEF TypeOK, LegType
<1>4. Desired' = Desired
  <2>1. CASE leg.kind = "GLOBAL"
    BY <1>1, <2>1 DEF Desired
  <2>2. CASE Distance # 0
    <3>1. Heading' = Heading
      BY <1>1, <1>2, <2>2 DEF Heading
    <3> QED
      BY <1>1, <3>1 DEF Desired
  <2> QED
    BY <1>1, <1>3, <2>1, <2>2 DEF Spins
<1> DEFINE before == AngleDiff(Desired, theta)
           after == AngleDiff(Desired, theta')
<1>5. Left = Distance + Abs(before) /\ Left' = Distance + Abs(after)
  BY <1>1, <1>2, <1>4 DEF Left
<1>6. Abs(after) = Abs(before) - Abs(theta' - theta) /\ Abs(theta' - theta) \in 1..Turn
  BY TurnFacts
<1>7. before \in -Half..(Half - 1) /\ Half \in Nat
  BY <1>2, AngleDiffType, AngleAssumption DEF TypeOK
<1>8. Abs(before) \in Nat
  <2> HIDE DEF before
  <2> QED
    BY <1>7 DEF Abs
<1> DEFINE turned == Abs(theta' - theta)
<1>9. turned \in Nat \ {0}
  BY <1>6, AngleAssumption
<1>10. Abs(after) >= 0
  <2>1. theta' \in Int
    BY <1>1, TurnStepFacts DEF Rotate, TypeOK
  <2>2. after \in -Half..(Half - 1)
    BY <1>2, <2>1, AngleDiffType
  <2> HIDE DEF after
  <2> QED
    BY <1>7, <2>2 DEF Abs
<1> HIDE DEF before, after, turned
<1> QED
  BY <1>1, <1>2, <1>5, <1>6, <1>8, <1>9, <1>10 DEF turned

\* Driving shortens the way by a step and leaves no turn.
LEMMA DriveShortens ==
    ASSUME TypeOK, Drive
    PROVE  leg' = leg /\ Left' \in 0..(Left - 1)
<1>1. leg # NoLeg /\ leg' = leg /\ Distance > Step
  BY DEF Drive
<1>2. /\ leg.to \in Int /\ x \in Int /\ theta \in Int /\ Distance \in Nat /\ Step \in Nat \ {0}
      /\ Desired \in Int \cup {Free} /\ Heading \in Int
  BY <1>1, LegFacts, StepType DEF TypeOK
<1>3. /\ Distance' = Distance - Step /\ Distance # 0 /\ Distance' # 0
      /\ leg.to > x' <=> leg.to > x
  BY <1>1, <1>2 DEF Drive, Distance, Abs
<1>4. Heading' = Heading
  BY <1>1, <1>3 DEF Heading
<1>5. Desired' = Desired
  BY <1>1, <1>4 DEF Desired
<1>6. Left >= Distance
  <2>1. AngleDiff(Desired, theta) \in Int \/ Desired = Free
    BY <1>2, AngleDiffType, AngleAssumption
  <2> QED
    BY <1>2, <2>1 DEF Left, Abs
<1>7. Left' = Distance - Step
  <2>1. CASE Desired = Free
    BY <1>2, <1>3, <1>5, <2>1 DEF Left
  <2>2. CASE Desired # Free
    <3>1. theta' = Desired
      BY <2>2 DEF Drive
    <3>2. Abs(AngleDiff(Desired', theta')) = 0
      BY <1>2, <1>5, <2>2, <3>1, AngleDiffSelf DEF Abs
    <3>3. Left' = Distance' + Abs(AngleDiff(Desired', theta'))
      BY <1>5, <2>2 DEF Left
    <3> QED
      BY <1>2, <1>3, <3>2, <3>3
  <2> QED
    BY <2>1, <2>2
<1>8. Left \in Nat
  BY <1>1, LeftType
<1> QED
  BY <1>1, <1>2, <1>6, <1>7, <1>8

\* Every tick of a leg that does not spin takes something off what is left of it
\* (_step_towards): the argument for LegEnds, for every leg, pose, speed and limit.
THEOREM LegShortensAlways == Spec => LegShortens
<1>1. ASSUME TypeOK, Tick, ~Spins
      PROVE  leg' = NoLeg \/ (leg' = leg /\ Left' \in 0..(Left - 1))
  <2>1. CASE Rotate
    BY <1>1, <2>1, RotateShortens
  <2>2. CASE Drive
    BY <1>1, <2>2, DriveShortens
  <2>3. CASE Arrive
    BY <2>3 DEF Arrive
  <2> QED
    BY <1>1, <2>1, <2>2, <2>3 DEF Tick
<1>2. TypeOK /\ [Next]_vars =>
        [Tick /\ ~Spins => leg' = NoLeg \/ (leg' = leg /\ Left' \in 0..(Left - 1))]_vars
  BY <1>1
<1> QED
  BY <1>2, TypeCorrect, PTL DEF Spec, LegShortens

-----------------------------------------------------------------------------
(* Crossings and sides *)

Point == Int \X Int

LEMMA SideType ==
    ASSUME NEW a \in Point, NEW b \in Point, NEW px \in Int, NEW py \in Int
    PROVE  Side(a, b, px, py) \in Int
BY DEF Side, Point

LEMMA ReverseIdentity ==
    ASSUME NEW a1 \in Int, NEW a2 \in Int, NEW b1 \in Int, NEW b2 \in Int,
           NEW px \in Int, NEW py \in Int
    PROVE  (a1 - b1) * (py - b2) - (a2 - b2) * (px - b1)
             = -((b1 - a1) * (py - a2) - (b2 - a2) * (px - a1))
OBVIOUS

LEMMA SideReverse ==
    ASSUME NEW a \in Point, NEW b \in Point, NEW px \in Int, NEW py \in Int
    PROVE  Side(b, a, px, py) = -Side(a, b, px, py)
<1> DEFINE a1 == a[1]
           a2 == a[2]
           b1 == b[1]
           b2 == b[2]
<1>1. a1 \in Int /\ a2 \in Int /\ b1 \in Int /\ b2 \in Int
  BY DEF Point
<1>2. /\ Side(b, a, px, py) = (a1 - b1) * (py - b2) - (a2 - b2) * (px - b1)
      /\ Side(a, b, px, py) = (b1 - a1) * (py - a2) - (b2 - a2) * (px - a1)
  BY DEF Side
<1> HIDE DEF a1, a2, b1, b2
<1> QED
  BY <1>1, <1>2, ReverseIdentity

\* The ray crosses an edge that has ends on both of its sides, and the point to the left.
LEMMA CrossesBySide ==
    ASSUME NEW a \in Point, NEW b \in Point, NEW px \in Int, NEW py \in Int
    PROVE  Crosses(px, py, a, b) <=>
              \/ a[2] > py /\ b[2] <= py /\ Side(a, b, px, py) < 0
              \/ a[2] <= py /\ b[2] > py /\ Side(a, b, px, py) > 0
<1> DEFINE run == (px - a[1]) * (b[2] - a[2])
           rise == (b[1] - a[1]) * (py - a[2])
<1>1. a[1] \in Int /\ a[2] \in Int /\ b[1] \in Int /\ b[2] \in Int
  BY DEF Point
<1>2. run \in Int /\ rise \in Int
  BY <1>1
<1>3. Side(a, b, px, py) = rise - run
  BY <1>1 DEF Side
<1>4. Crosses(px, py, a, b) <=>
         /\ (a[2] > py) # (b[2] > py)
         /\ IF b[2] > a[2] THEN run < rise ELSE run > rise
  BY DEF Crosses
<1> HIDE DEF run, rise
<1> QED
  BY <1>1, <1>2, <1>3, <1>4

\* An edge counts the same from both of its ends: zones that adjoin share a border.
LEMMA CrossesReverse ==
    ASSUME NEW a \in Point, NEW b \in Point, NEW px \in Int, NEW py \in Int
    PROVE  Crosses(px, py, a, b) <=> Crosses(px, py, b, a)
<1>1. a[2] \in Int /\ b[2] \in Int /\ Side(a, b, px, py) \in Int
  BY SideType DEF Point
<1>2. Side(b, a, px, py) = -Side(a, b, px, py)
  BY SideReverse
<1> QED
  BY <1>1, <1>2, CrossesBySide

-----------------------------------------------------------------------------
(* Counting crossings *)

Bit(b) == IF b THEN 1 ELSE 0

LEMMA BitType == ASSUME NEW b \in BOOLEAN PROVE Bit(b) \in 0..1
BY DEF Bit

LEMMA CountOne ==
    ASSUME NEW S, IsFiniteSet(S), NEW e
    PROVE  /\ IsFiniteSet(S \ {e})
           /\ Cardinality(S) = Cardinality(S \ {e}) + Bit(e \in S)
<1>1. /\ IsFiniteSet(S \ {e})
      /\ Cardinality(S \ {e}) = IF e \in S THEN Cardinality(S) - 1 ELSE Cardinality(S)
  BY FS_RemoveElement
<1>2. Cardinality(S) \in Int
  BY FS_CardinalityType
<1>3. CASE e \in S
  <2>1. Bit(e \in S) = 1
    BY <1>3 DEF Bit
  <2> QED
    BY <1>1, <1>2, <1>3, <2>1
<1>4. CASE e \notin S
  <2>1. Bit(e \in S) = 0
    BY <1>4 DEF Bit
  <2> QED
    BY <1>1, <1>2, <1>4, <2>1
<1> QED
  BY <1>3, <1>4

LEMMA CountFour ==
    ASSUME NEW S \in SUBSET (1..4)
    PROVE  Cardinality(S) = Bit(1 \in S) + Bit(2 \in S) + Bit(3 \in S) + Bit(4 \in S)
<1> DEFINE S1 == S \ {1}
           S2 == S1 \ {2}
           S3 == S2 \ {3}
           S4 == S3 \ {4}
<1>1. IsFiniteSet(S)
  <2>0. 1 \in Int /\ 4 \in Int
    OBVIOUS
  <2>1. IsFiniteSet(1..4)
    BY <2>0, FS_Interval, Zenon
  <2>2. S \subseteq 1..4
    OBVIOUS
  <2> QED
    BY <2>1, <2>2, FS_Subset
<1>2. IsFiniteSet(S1) /\ Cardinality(S) = Cardinality(S1) + Bit(1 \in S)
  BY <1>1, CountOne
<1>3. IsFiniteSet(S2) /\ Cardinality(S1) = Cardinality(S2) + Bit(2 \in S1)
  BY <1>2, CountOne
<1>4. IsFiniteSet(S3) /\ Cardinality(S2) = Cardinality(S3) + Bit(3 \in S2)
  BY <1>3, CountOne
<1>5. Cardinality(S3) = Cardinality(S4) + Bit(4 \in S3)
  BY <1>4, CountOne
<1>6. Cardinality(S4) = 0
  <2>1. S4 = {}
    OBVIOUS
  <2> HIDE DEF S4
  <2> QED
    BY <2>1, FS_EmptySet
<1>7. (2 \in S1 <=> 2 \in S) /\ (3 \in S2 <=> 3 \in S) /\ (4 \in S3 <=> 4 \in S)
  OBVIOUS
<1> HIDE DEF S1, S2, S3, S4
<1>8. /\ Bit(2 \in S1) = Bit(2 \in S)
      /\ Bit(3 \in S2) = Bit(3 \in S)
      /\ Bit(4 \in S3) = Bit(4 \in S)
  <2>1. Bit(2 \in S1) = Bit(2 \in S)
    BY <1>7, Zenon DEF Bit
  <2>2. Bit(3 \in S2) = Bit(3 \in S)
    BY <1>7, Zenon DEF Bit
  <2>3. Bit(4 \in S3) = Bit(4 \in S)
    BY <1>7, Zenon DEF Bit
  <2> QED
    BY <2>1, <2>2, <2>3
<1>9. /\ Bit(1 \in S) \in Int /\ Bit(2 \in S) \in Int
      /\ Bit(3 \in S) \in Int /\ Bit(4 \in S) \in Int
  BY DEF Bit
<1> QED
  BY <1>2, <1>3, <1>4, <1>5, <1>6, <1>8, <1>9

\* The outline of a triangle has three edges, that of a quadrilateral four.
LEMMA CrossingsOfTriangle ==
    ASSUME NEW a, NEW b, NEW c, NEW px, NEW py
    PROVE  PointInPolygon(px, py, <<a, b, c>>) <=>
              (Bit(Crosses(px, py, a, c)) + Bit(Crosses(px, py, b, a))
                 + Bit(Crosses(px, py, c, b))) % 2 = 1
<1> DEFINE t == <<a, b, c>>
           S == {i \in 1..3 : Crosses(px, py, t[i], t[Previous(i, 3)])}
<1>1. Len(t) = 3 /\ t[1] = a /\ t[2] = b /\ t[3] = c
  OBVIOUS
<1>2. Previous(1, 3) = 3 /\ Previous(2, 3) = 1 /\ Previous(3, 3) = 2
  BY DEF Previous
<1>3. PointInPolygon(px, py, t) <=> Cardinality(S) % 2 = 1
  BY <1>1 DEF PointInPolygon
<1>4. /\ 1 \in S <=> Crosses(px, py, a, c)
      /\ 2 \in S <=> Crosses(px, py, b, a)
      /\ 3 \in S <=> Crosses(px, py, c, b)
      /\ 4 \notin S
      /\ S \in SUBSET (1..4)
  BY <1>1, <1>2
<1> HIDE DEF S, t
<1>5. /\ Bit(1 \in S) = Bit(Crosses(px, py, a, c))
      /\ Bit(2 \in S) = Bit(Crosses(px, py, b, a))
      /\ Bit(3 \in S) = Bit(Crosses(px, py, c, b))
      /\ Bit(4 \in S) = 0
  <2>1. Bit(1 \in S) = Bit(Crosses(px, py, a, c))
    BY <1>4, Zenon DEF Bit
  <2>2. Bit(2 \in S) = Bit(Crosses(px, py, b, a))
    BY <1>4, Zenon DEF Bit
  <2>3. Bit(3 \in S) = Bit(Crosses(px, py, c, b))
    BY <1>4, Zenon DEF Bit
  <2>4. Bit(4 \in S) = 0
    BY <1>4, Zenon DEF Bit
  <2> QED
    BY <2>1, <2>2, <2>3, <2>4
<1>6. Cardinality(S) = Bit(1 \in S) + Bit(2 \in S) + Bit(3 \in S) + Bit(4 \in S)
  BY <1>4, CountFour
<1>7. /\ Bit(Crosses(px, py, a, c)) \in Int /\ Bit(Crosses(px, py, b, a)) \in Int
      /\ Bit(Crosses(px, py, c, b)) \in Int
  BY DEF Bit
<1>8. Cardinality(S) = Bit(Crosses(px, py, a, c)) + Bit(Crosses(px, py, b, a))
                         + Bit(Crosses(px, py, c, b))
  BY <1>5, <1>6, <1>7
<1> QED
  BY <1>3, <1>8 DEF t

LEMMA CrossingsOfQuad ==
    ASSUME NEW q \in Seq(Int \X Int), Len(q) = 4, NEW px, NEW py
    PROVE  PointInPolygon(px, py, q) <=>
              (Bit(Crosses(px, py, q[1], q[4])) + Bit(Crosses(px, py, q[2], q[1]))
                 + Bit(Crosses(px, py, q[3], q[2])) + Bit(Crosses(px, py, q[4], q[3]))) % 2 = 1
<1> DEFINE S == {i \in 1..4 : Crosses(px, py, q[i], q[Previous(i, 4)])}
<1>1. /\ Previous(1, 4) = 4 /\ Previous(2, 4) = 1
      /\ Previous(3, 4) = 2 /\ Previous(4, 4) = 3
  BY DEF Previous
<1>2. PointInPolygon(px, py, q) <=> Cardinality(S) % 2 = 1
  BY DEF PointInPolygon
<1>3. /\ 1 \in S <=> Crosses(px, py, q[1], q[4])
      /\ 2 \in S <=> Crosses(px, py, q[2], q[1])
      /\ 3 \in S <=> Crosses(px, py, q[3], q[2])
      /\ 4 \in S <=> Crosses(px, py, q[4], q[3])
      /\ S \in SUBSET (1..4)
  BY <1>1
<1> HIDE DEF S
<1>4. /\ Bit(1 \in S) = Bit(Crosses(px, py, q[1], q[4]))
      /\ Bit(2 \in S) = Bit(Crosses(px, py, q[2], q[1]))
      /\ Bit(3 \in S) = Bit(Crosses(px, py, q[3], q[2]))
      /\ Bit(4 \in S) = Bit(Crosses(px, py, q[4], q[3]))
  <2>1. Bit(1 \in S) = Bit(Crosses(px, py, q[1], q[4]))
    BY <1>3, Zenon DEF Bit
  <2>2. Bit(2 \in S) = Bit(Crosses(px, py, q[2], q[1]))
    BY <1>3, Zenon DEF Bit
  <2>3. Bit(3 \in S) = Bit(Crosses(px, py, q[3], q[2]))
    BY <1>3, Zenon DEF Bit
  <2>4. Bit(4 \in S) = Bit(Crosses(px, py, q[4], q[3]))
    BY <1>3, Zenon DEF Bit
  <2> QED
    BY <2>1, <2>2, <2>3, <2>4
<1>5. Cardinality(S) = Bit(1 \in S) + Bit(2 \in S) + Bit(3 \in S) + Bit(4 \in S)
  BY <1>3, CountFour
<1> QED
  BY <1>2, <1>4, <1>5

-----------------------------------------------------------------------------
(* Zones that adjoin *)

LEMMA ItemOf ==
    ASSUME NEW S, NEW s \in Seq(S), NEW i \in 1..Len(s)
    PROVE  s[i] \in S
OBVIOUS

LEMMA QuadFacts ==
    ASSUME TypeOK
    PROVE  /\ quad \in Seq(Int \X Int) /\ Len(quad) = 4
           /\ quad[1] \in Point /\ quad[2] \in Point /\ quad[3] \in Point /\ quad[4] \in Point
           /\ x \in Int /\ lane \in Int
<1>1. quad \in Seq(Int \X Int) /\ Len(quad) = 4
  BY DriveAssumption DEF TypeOK
<1>2. \A i \in 1..Len(quad) : quad[i] \in Int \X Int
  BY ONLY <1>1, ItemOf
<1>3. quad[1] \in Point /\ quad[2] \in Point /\ quad[3] \in Point /\ quad[4] \in Point
  BY <1>1, <1>2 DEF Point
<1> QED
  BY <1>1, <1>3, DriveAssumption DEF TypeOK

LEMMA HalvesAreTriangles ==
    /\ 1 \in ZonesAt(x) <=> PointInPolygon(x, lane, <<quad[1], quad[2], quad[3]>>)
    /\ 2 \in ZonesAt(x) <=> PointInPolygon(x, lane, <<quad[1], quad[3], quad[4]>>)
BY DEF ZonesAt, HalfOf

\* What the outline of the whole crosses, the outlines of the halves cross, and the
\* diagonal twice.
LEMMA HalvesCount ==
    ASSUME TypeOK
    PROVE  PointInPolygon(x, lane, quad) <=> ((1 \in ZonesAt(x)) # (2 \in ZonesAt(x)))
<1> DEFINE C(i, j) == Bit(Crosses(x, lane, quad[i], quad[j]))
<1>1. /\ C(1, 4) \in 0..1 /\ C(2, 1) \in 0..1 /\ C(3, 2) \in 0..1
      /\ C(4, 3) \in 0..1 /\ C(1, 3) \in 0..1
  BY DEF Bit
<1>2. C(3, 1) = C(1, 3)
  <2>1. Crosses(x, lane, quad[3], quad[1]) <=> Crosses(x, lane, quad[1], quad[3])
    BY QuadFacts, CrossesReverse
  <2> QED
    BY <2>1, Zenon DEF Bit
<1>3. PointInPolygon(x, lane, quad) <=> (C(1, 4) + C(2, 1) + C(3, 2) + C(4, 3)) % 2 = 1
  BY QuadFacts, CrossingsOfQuad
<1>4. 1 \in ZonesAt(x) <=> (C(1, 3) + C(2, 1) + C(3, 2)) % 2 = 1
  BY HalvesAreTriangles, CrossingsOfTriangle
<1>5. 2 \in ZonesAt(x) <=> (C(1, 4) + C(3, 1) + C(4, 3)) % 2 = 1
  BY HalvesAreTriangles, CrossingsOfTriangle
<1> HIDE DEF C
<1> QED
  BY <1>1, <1>2, <1>3, <1>4, <1>5

\* A point is in the whole exactly when it is in exactly one of the halves, for all
\* quadrilaterals and all points, those of the borders included (_point_in_polygon,
\* _zone_objects_containing): a parity.  That no point is in both halves needs a diagonal
\* inside the whole, see HalvesAreDisjoint.
THEOREM HalvesMakeTheWholeAlways == Spec => []HalvesMakeTheWhole
<1>1. ASSUME TypeOK PROVE HalvesMakeTheWhole
  <2> DEFINE Z == ZonesAt(x)
  <2>1. Z \in SUBSET (1..4) /\ 3 \notin Z /\ 4 \notin Z
    BY DEF ZonesAt
  <2>2. PointInPolygon(x, lane, quad) <=> ((1 \in Z) # (2 \in Z))
    BY <1>1, HalvesCount
  <2> HIDE DEF Z
  <2>3. Cardinality(Z) = Bit(1 \in Z) + Bit(2 \in Z) + Bit(3 \in Z) + Bit(4 \in Z)
    BY <2>1, CountFour
  <2>4. Bit(3 \in Z) = 0 /\ Bit(4 \in Z) = 0
    <3>1. Bit(3 \in Z) = 0
      BY <2>1, Zenon DEF Bit
    <3>2. Bit(4 \in Z) = 0
      BY <2>1, Zenon DEF Bit
    <3> QED
      BY <3>1, <3>2
  <2>5. /\ 1 \in Z => Bit(1 \in Z) = 1
        /\ 1 \notin Z => Bit(1 \in Z) = 0
    BY Zenon DEF Bit
  <2>6. /\ 2 \in Z => Bit(2 \in Z) = 1
        /\ 2 \notin Z => Bit(2 \in Z) = 0
    BY Zenon DEF Bit
  <2>7. Cardinality(Z) = 1 <=> ((1 \in Z) # (2 \in Z))
    BY <2>3, <2>4, <2>5, <2>6
  <2> QED
    BY <2>2, <2>7 DEF Z, HalvesMakeTheWhole
<1> QED
  BY <1>1, TypeCorrect, PTL

-----------------------------------------------------------------------------
(* The test and the half-planes *)

\* Moments of the heights of a triangle's vertices.
LEMMA BalanceIdentity ==
    ASSUME NEW a1 \in Int, NEW a2 \in Int, NEW b1 \in Int, NEW b2 \in Int,
           NEW c1 \in Int, NEW c2 \in Int, NEW px \in Int, NEW py \in Int
    PROVE  ((c1 - b1) * (py - b2) - (c2 - b2) * (px - b1)) * (a2 - py)
             + ((a1 - c1) * (py - c2) - (a2 - c2) * (px - c1)) * (b2 - py)
             + ((b1 - a1) * (py - a2) - (b2 - a2) * (px - a1)) * (c2 - py) = 0
OBVIOUS

LEMMA Balance ==
    ASSUME NEW a \in Point, NEW b \in Point, NEW c \in Point, NEW px \in Int, NEW py \in Int
    PROVE  Side(b, c, px, py) * (a[2] - py) + Side(c, a, px, py) * (b[2] - py)
             + Side(a, b, px, py) * (c[2] - py) = 0
<1> DEFINE a1 == a[1]
           a2 == a[2]
           b1 == b[1]
           b2 == b[2]
           c1 == c[1]
           c2 == c[2]
<1>1. /\ a1 \in Int /\ a2 \in Int /\ b1 \in Int /\ b2 \in Int /\ c1 \in Int /\ c2 \in Int
  BY DEF Point
<1>2. /\ Side(b, c, px, py) = (c1 - b1) * (py - b2) - (c2 - b2) * (px - b1)
      /\ Side(c, a, px, py) = (a1 - c1) * (py - c2) - (a2 - c2) * (px - c1)
      /\ Side(a, b, px, py) = (b1 - a1) * (py - a2) - (b2 - a2) * (px - a1)
  BY DEF Side
<1> HIDE DEF a1, a2, b1, b2, c1, c2
<1>3. Side(b, c, px, py) * (a2 - py) + Side(c, a, px, py) * (b2 - py)
        + Side(a, b, px, py) * (c2 - py) = 0
  BY <1>1, <1>2, BalanceIdentity
<1> QED
  BY <1>3 DEF a2, b2, c2

\* Signs of a product.
LEMMA SignOfProduct ==
    ASSUME NEW m \in Int, NEW n \in Int
    PROVE  /\ m * n \in Int
           /\ m > 0 /\ n > 0 => m * n > 0
           /\ m > 0 /\ n < 0 => m * n < 0
           /\ m < 0 /\ n > 0 => m * n < 0
           /\ m < 0 /\ n < 0 => m * n > 0
           /\ m = 0 \/ n = 0 => m * n = 0
OBVIOUS

\* A point on the line through a and b, and between them in height, is on the edge.
LEMMA BetweenIdentity ==
    ASSUME NEW a1 \in Int, NEW a2 \in Int, NEW b1 \in Int, NEW b2 \in Int,
           NEW px \in Int, NEW py \in Int,
           (b1 - a1) * (py - a2) = (b2 - a2) * (px - a1),
           b2 < a2, b2 <= py, py <= a2
    PROVE  Within(px, a1, b1)
<1>1. CASE a1 <= b1
  <2>1. (b2 - a2) * (px - a1) <= 0
    <3>1. (b1 - a1) * (py - a2) <= 0
      BY <1>1
    <3> QED
      BY <3>1
  <2>2. px >= a1
    BY <2>1
  <2>3. (b2 - a2) * (px - a1) >= (b2 - a2) * (b1 - a1)
    BY <1>1
  <2>4. px <= b1
    BY <2>3
  <2> QED
    BY <2>2, <2>4 DEF Within
<1>2. CASE b1 < a1
  <2>1. (b2 - a2) * (px - a1) >= 0
    <3>1. (b1 - a1) * (py - a2) >= 0
      BY <1>2
    <3> QED
      BY <3>1
  <2>2. px <= a1
    BY <2>1
  <2>3. (b2 - a2) * (px - a1) <= (b2 - a2) * (b1 - a1)
    BY <1>2
  <2>4. px >= b1
    BY <2>3
  <2> QED
    BY <2>2, <2>4 DEF Within
<1> QED
  BY <1>1, <1>2

LEMMA OnTheEdge ==
    ASSUME NEW a \in Point, NEW b \in Point, NEW px \in Int, NEW py \in Int,
           Side(a, b, px, py) = 0,
           \/ b[2] <= py /\ py < a[2]
           \/ a[2] <= py /\ py < b[2]
    PROVE  OnEdge(a, b, px, py)
<1> DEFINE a1 == a[1]
           a2 == a[2]
           b1 == b[1]
           b2 == b[2]
<1>1. a1 \in Int /\ a2 \in Int /\ b1 \in Int /\ b2 \in Int
  BY DEF Point
<1>2. /\ Side(a, b, px, py) = (b1 - a1) * (py - a2) - (b2 - a2) * (px - a1)
      /\ Side(b, a, px, py) = (a1 - b1) * (py - b2) - (a2 - b2) * (px - b1)
      /\ Side(b, a, px, py) = 0
      /\ OnEdge(a, b, px, py) <=> Within(px, a1, b1) /\ Within(py, a2, b2)
  <2>1. Side(b, a, px, py) = 0
    BY SideReverse
  <2> QED
    BY <2>1 DEF Side, OnEdge
<1>3. (b2 <= py /\ py < a2) \/ (a2 <= py /\ py < b2)
  OBVIOUS
<1> HIDE DEF a1, a2, b1, b2
<1>4. CASE b2 <= py /\ py < a2
  <2>1. (b1 - a1) * (py - a2) = (b2 - a2) * (px - a1)
    BY <1>1, <1>2
  <2>2. Within(px, a1, b1)
    <3>1. b2 < a2 /\ b2 <= py /\ py <= a2
      BY <1>1, <1>4
    <3> QED
      BY <1>1, <2>1, <3>1, BetweenIdentity, Zenon
  <2> QED
    BY <1>1, <1>2, <1>4, <2>2 DEF Within
<1>5. CASE a2 <= py /\ py < b2
  <2>1. (a1 - b1) * (py - b2) = (a2 - b2) * (px - b1)
    BY <1>1, <1>2
  <2>2. Within(px, b1, a1)
    <3>1. a2 < b2 /\ a2 <= py /\ py <= b2
      BY <1>1, <1>5
    <3> QED
      BY <1>1, <2>1, <3>1, BetweenIdentity, Zenon
  <2> QED
    BY <1>1, <1>2, <1>5, <2>2 DEF Within
<1> QED
  BY <1>3, <1>4, <1>5

\* The side of an edge that ends at the height of the point.
LEMMA SideAtHeight ==
    ASSUME NEW a \in Point, NEW b \in Point, NEW px \in Int, NEW py \in Int, b[2] = py
    PROVE  Side(a, b, px, py) = (py - a[2]) * (b[1] - px)
<1> DEFINE a1 == a[1]
           a2 == a[2]
           b1 == b[1]
           b2 == b[2]
<1>1. a1 \in Int /\ a2 \in Int /\ b1 \in Int /\ b2 = py
  BY DEF Point
<1>2. Side(a, b, px, py) = (b1 - a1) * (py - a2) - (b2 - a2) * (px - a1)
  BY DEF Side
<1> HIDE DEF a1, a2, b1, b2
<1>3. (b1 - a1) * (py - a2) - (py - a2) * (px - a1) = (py - a2) * (b1 - px)
  BY <1>1
<1>4. Side(a, b, px, py) = (py - a2) * (b1 - px)
  BY <1>1, <1>2, <1>3
<1> QED
  BY <1>4 DEF a2, b1

InsideOf(a, b, c, px, py) ==
    \/ Side(a, b, px, py) > 0 /\ Side(b, c, px, py) > 0 /\ Side(c, a, px, py) > 0
    \/ Side(a, b, px, py) < 0 /\ Side(b, c, px, py) < 0 /\ Side(c, a, px, py) < 0

OnBorder(a, b, c, px, py) ==
    OnEdge(a, b, px, py) \/ OnEdge(b, c, px, py) \/ OnEdge(c, a, px, py)

\* One vertex above the ray and two below.
LEMMA OneAbove ==
    ASSUME NEW a \in Point, NEW b \in Point, NEW c \in Point, NEW px \in Int, NEW py \in Int,
           a[2] > py, b[2] <= py, c[2] <= py, ~OnBorder(a, b, c, px, py)
    PROVE  /\ (Crosses(px, py, a, b) # Crosses(px, py, c, a)) <=> InsideOf(a, b, c, px, py)
           /\ ~Crosses(px, py, b, c)
<1> DEFINE u == Side(b, c, px, py)
           v == Side(c, a, px, py)
           w == Side(a, b, px, py)
           A == a[2] - py
           B == b[2] - py
           C == c[2] - py
<1>0. a[2] \in Int /\ b[2] \in Int /\ c[2] \in Int /\ b[1] \in Int /\ c[1] \in Int
  BY DEF Point
<1>1. u \in Int /\ v \in Int /\ w \in Int
  BY SideType
<1>2. A \in Int /\ B \in Int /\ C \in Int /\ A > 0 /\ B <= 0 /\ C <= 0
  BY <1>0
<1>3. w # 0 /\ v # 0
  BY OnTheEdge DEF OnBorder
<1>4. /\ Crosses(px, py, a, b) <=> w < 0
      /\ Crosses(px, py, c, a) <=> v > 0
      /\ ~Crosses(px, py, b, c)
  BY <1>0, CrossesBySide
<1>5. u * A + v * B + w * C = 0
  BY Balance
<1>6. B = 0 /\ C = 0 => ~(w < 0 /\ v < 0) /\ ~(w > 0 /\ v > 0)
  <2> SUFFICES ASSUME B = 0, C = 0, (w < 0 /\ v < 0) \/ (w > 0 /\ v > 0) PROVE FALSE
    OBVIOUS
  <2>1. b[2] = py /\ c[2] = py
    BY <1>0
  <2>2. w = (py - a[2]) * (b[1] - px)
    BY <2>1, SideAtHeight
  <2>3. -v = (py - a[2]) * (c[1] - px)
    <3>1. Side(a, c, px, py) = (py - a[2]) * (c[1] - px)
      BY <2>1, SideAtHeight
    <3> QED
      BY <3>1, SideReverse
  <2>4. u = 0
    <3>1. u = (py - b[2]) * (c[1] - px)
      BY <2>1, SideAtHeight
    <3> QED
      BY <1>0, <2>1, <3>1, SignOfProduct
  <2>5. py - a[2] < 0 /\ py - a[2] \in Int /\ b[1] - px \in Int /\ c[1] - px \in Int
    BY <1>0
  <2>6. (w < 0 => b[1] - px > 0) /\ (w > 0 => b[1] - px < 0)
    BY <2>2, <2>5, SignOfProduct
  <2>7. (v < 0 => c[1] - px < 0) /\ (v > 0 => c[1] - px > 0)
    BY <1>1, <2>3, <2>5, SignOfProduct
  <2>8. Within(px, b[1], c[1]) /\ Within(py, b[2], c[2])
    BY <1>0, <2>1, <2>6, <2>7 DEF Within
  <2> QED
    BY <2>4, <2>8 DEF OnBorder, OnEdge
<1> HIDE DEF u, v, w, A, B, C
<1>7. w < 0 /\ v < 0 => u < 0
  BY <1>1, <1>2, <1>5, <1>6, SignOfProduct
<1>8. w > 0 /\ v > 0 => u > 0
  BY <1>1, <1>2, <1>5, <1>6, SignOfProduct
<1>9. InsideOf(a, b, c, px, py) <=> (w > 0 /\ u > 0 /\ v > 0) \/ (w < 0 /\ u < 0 /\ v < 0)
  BY DEF InsideOf, u, v, w
<1>10. Crosses(px, py, a, b) \in BOOLEAN /\ Crosses(px, py, c, a) \in BOOLEAN
  BY DEF Crosses
<1>11. (Crosses(px, py, a, b) # Crosses(px, py, c, a)) <=> ((w < 0) # (v > 0))
  <2> HIDE DEF InsideOf
  <2> QED
    BY <1>4, <1>10
<1>12. ((w < 0) # (v > 0)) <=> InsideOf(a, b, c, px, py)
  BY <1>1, <1>3, <1>7, <1>8, <1>9
<1> QED
  BY <1>4, <1>11, <1>12

\* One vertex below the ray or at its height, and two above.
LEMMA OneBelow ==
    ASSUME NEW a \in Point, NEW b \in Point, NEW c \in Point, NEW px \in Int, NEW py \in Int,
           a[2] <= py, b[2] > py, c[2] > py, ~OnBorder(a, b, c, px, py)
    PROVE  /\ (Crosses(px, py, a, b) # Crosses(px, py, c, a)) <=> InsideOf(a, b, c, px, py)
           /\ ~Crosses(px, py, b, c)
<1> DEFINE u == Side(b, c, px, py)
           v == Side(c, a, px, py)
           w == Side(a, b, px, py)
           A == a[2] - py
           B == b[2] - py
           C == c[2] - py
<1>0. a[2] \in Int /\ b[2] \in Int /\ c[2] \in Int
  BY DEF Point
<1>1. u \in Int /\ v \in Int /\ w \in Int
  BY SideType
<1>2. A \in Int /\ B \in Int /\ C \in Int /\ A <= 0 /\ B > 0 /\ C > 0
  BY <1>0
<1>3. w # 0 /\ v # 0
  BY OnTheEdge DEF OnBorder
<1>4. /\ Crosses(px, py, a, b) <=> w > 0
      /\ Crosses(px, py, c, a) <=> v < 0
      /\ ~Crosses(px, py, b, c)
  BY <1>0, CrossesBySide
<1>5. u * A + v * B + w * C = 0
  BY Balance
<1>6. Crosses(px, py, a, b) \in BOOLEAN /\ Crosses(px, py, c, a) \in BOOLEAN
  BY DEF Crosses
<1> HIDE DEF u, v, w, A, B, C
<1>7. w < 0 /\ v < 0 => u < 0
  BY <1>1, <1>2, <1>5, SignOfProduct
<1>8. w > 0 /\ v > 0 => u > 0
  BY <1>1, <1>2, <1>5, SignOfProduct
<1>9. InsideOf(a, b, c, px, py) <=> (w > 0 /\ u > 0 /\ v > 0) \/ (w < 0 /\ u < 0 /\ v < 0)
  BY DEF InsideOf, u, v, w
<1>10. (Crosses(px, py, a, b) # Crosses(px, py, c, a)) <=> ((w > 0) # (v < 0))
  BY <1>4, <1>6
<1>11. ((w > 0) # (v < 0)) <=> InsideOf(a, b, c, px, py)
  BY <1>1, <1>3, <1>7, <1>8, <1>9
<1> QED
  BY <1>4, <1>10, <1>11

\* All vertices on one side of the ray.
LEMMA NoneAcross ==
    ASSUME NEW a \in Point, NEW b \in Point, NEW c \in Point, NEW px \in Int, NEW py \in Int,
           \/ a[2] > py /\ b[2] > py /\ c[2] > py
           \/ a[2] <= py /\ b[2] <= py /\ c[2] <= py
    PROVE  /\ ~Crosses(px, py, a, b) /\ ~Crosses(px, py, b, c) /\ ~Crosses(px, py, c, a)
           /\ ~InsideOf(a, b, c, px, py)
<1> DEFINE u == Side(b, c, px, py)
           v == Side(c, a, px, py)
           w == Side(a, b, px, py)
           A == a[2] - py
           B == b[2] - py
           C == c[2] - py
<1>0. a[2] \in Int /\ b[2] \in Int /\ c[2] \in Int /\ b[1] \in Int
  BY DEF Point
<1>1. u \in Int /\ v \in Int /\ w \in Int
  BY SideType
<1>2. A \in Int /\ B \in Int /\ C \in Int
  BY <1>0
<1>3. (A > 0 /\ B > 0 /\ C > 0) \/ (A <= 0 /\ B <= 0 /\ C <= 0)
  BY <1>0
<1>4. ~Crosses(px, py, a, b) /\ ~Crosses(px, py, b, c) /\ ~Crosses(px, py, c, a)
  BY <1>0, CrossesBySide
<1>5. u * A + v * B + w * C = 0
  BY Balance
<1>6. A = 0 /\ B = 0 => w = 0
  <2> SUFFICES ASSUME A = 0, B = 0 PROVE w = 0
    OBVIOUS
  <2>1. py - a[2] = 0 /\ b[2] = py
    BY <1>0
  <2>2. w = (py - a[2]) * (b[1] - px)
    BY <2>1, SideAtHeight
  <2> QED
    BY <1>0, <2>1, <2>2, SignOfProduct
<1> HIDE DEF u, v, w, A, B, C
<1>7. ~(u > 0 /\ v > 0 /\ w > 0)
  BY <1>1, <1>2, <1>3, <1>5, <1>6, SignOfProduct
<1>8. ~(u < 0 /\ v < 0 /\ w < 0)
  BY <1>1, <1>2, <1>3, <1>5, <1>6, SignOfProduct
<1>9. InsideOf(a, b, c, px, py) <=> (w > 0 /\ u > 0 /\ v > 0) \/ (w < 0 /\ u < 0 /\ v < 0)
  BY DEF InsideOf, u, v, w
<1> QED
  BY <1>4, <1>7, <1>8, <1>9

LEMMA Parity ==
    ASSUME NEW p \in BOOLEAN, NEW q \in BOOLEAN, NEW r \in BOOLEAN
    PROVE  (Bit(p) + Bit(q) + Bit(r)) % 2 = 1 <=> ((p # q) # r)
BY DEF Bit

\* One vertex of a triangle is alone on its side of the ray, or none is.
LEMMA ParityOfCrossings ==
    ASSUME NEW a \in Point, NEW b \in Point, NEW c \in Point, NEW px \in Int, NEW py \in Int,
           ~OnBorder(a, b, c, px, py)
    PROVE  ((Crosses(px, py, c, a) # Crosses(px, py, a, b)) # Crosses(px, py, b, c))
              <=> InsideOf(a, b, c, px, py)
<1> DEFINE ab == Crosses(px, py, a, b)
           bc == Crosses(px, py, b, c)
           ca == Crosses(px, py, c, a)
           inside == InsideOf(a, b, c, px, py)
<1>0. a[2] \in Int /\ b[2] \in Int /\ c[2] \in Int
  BY DEF Point
<1>1. ab \in BOOLEAN /\ bc \in BOOLEAN /\ ca \in BOOLEAN /\ inside \in BOOLEAN
  BY DEF Crosses, InsideOf
<1>2. /\ (InsideOf(b, c, a, px, py) <=> inside) /\ (InsideOf(c, a, b, px, py) <=> inside)
      /\ ~OnBorder(b, c, a, px, py) /\ ~OnBorder(c, a, b, px, py)
  BY DEF InsideOf, OnBorder
<1>3. CASE (a[2] > py <=> b[2] > py) /\ (b[2] > py <=> c[2] > py)
  <2>1. ~ab /\ ~bc /\ ~ca /\ ~inside
    BY <1>0, <1>3, NoneAcross
  <2> QED
    BY <1>1, <2>1
<1>4. CASE (a[2] > py <=> ~(b[2] > py)) /\ (b[2] > py <=> c[2] > py)
  <2>1. ((ab # ca) <=> inside) /\ ~bc
    BY <1>0, <1>4, OneAbove, OneBelow
  <2> QED
    BY <1>1, <2>1
<1>5. CASE (b[2] > py <=> ~(c[2] > py)) /\ (c[2] > py <=> a[2] > py)
  <2>1. ((bc # ab) <=> InsideOf(b, c, a, px, py)) /\ ~ca
    BY <1>0, <1>2, <1>5, OneAbove, OneBelow
  <2> QED
    BY <1>1, <1>2, <2>1
<1>6. CASE (c[2] > py <=> ~(a[2] > py)) /\ (a[2] > py <=> b[2] > py)
  <2>1. ((ca # bc) <=> InsideOf(c, a, b, px, py)) /\ ~ab
    BY <1>0, <1>2, <1>6, OneAbove, OneBelow
  <2> QED
    BY <1>1, <1>2, <2>1
<1> QED
  BY <1>3, <1>4, <1>5, <1>6

LEMMA TriangleTest ==
    ASSUME NEW a \in Point, NEW b \in Point, NEW c \in Point, NEW px \in Int, NEW py \in Int,
           ~OnBorder(a, b, c, px, py)
    PROVE  PointInPolygon(px, py, <<a, b, c>>) <=> InsideOf(a, b, c, px, py)
<1>1. /\ Bit(Crosses(px, py, a, c)) = Bit(Crosses(px, py, c, a))
      /\ Bit(Crosses(px, py, b, a)) = Bit(Crosses(px, py, a, b))
      /\ Bit(Crosses(px, py, c, b)) = Bit(Crosses(px, py, b, c))
  <2>1. /\ Crosses(px, py, a, c) <=> Crosses(px, py, c, a)
        /\ Crosses(px, py, b, a) <=> Crosses(px, py, a, b)
        /\ Crosses(px, py, c, b) <=> Crosses(px, py, b, c)
    BY CrossesReverse
  <2>2. Bit(Crosses(px, py, a, c)) = Bit(Crosses(px, py, c, a))
    BY <2>1, Zenon DEF Bit
  <2>3. Bit(Crosses(px, py, b, a)) = Bit(Crosses(px, py, a, b))
    BY <2>1, Zenon DEF Bit
  <2>4. Bit(Crosses(px, py, c, b)) = Bit(Crosses(px, py, b, c))
    BY <2>1, Zenon DEF Bit
  <2> QED
    BY <2>2, <2>3, <2>4
<1>2. /\ Crosses(px, py, c, a) \in BOOLEAN /\ Crosses(px, py, a, b) \in BOOLEAN
      /\ Crosses(px, py, b, c) \in BOOLEAN
  BY DEF Crosses
<1>3. (Bit(Crosses(px, py, c, a)) + Bit(Crosses(px, py, a, b)) + Bit(Crosses(px, py, b, c))) % 2 = 1
        <=> ((Crosses(px, py, c, a) # Crosses(px, py, a, b)) # Crosses(px, py, b, c))
  BY <1>2, Parity
<1> QED
  BY <1>1, <1>3, CrossingsOfTriangle, ParityOfCrossings

LEMMA TriangleParts ==
    ASSUME NEW a \in Point, NEW b \in Point, NEW c \in Point, NEW px \in Int, NEW py \in Int
    PROVE  /\ InsideTriangle(<<a, b, c>>, px, py) <=> InsideOf(a, b, c, px, py)
           /\ OnBorder(a, b, c, px, py) <=>
                 \E e \in Edges(<<a, b, c>>) : OnEdge(e[1], e[2], px, py)
           /\ InsideOf(a, b, c, px, py) => ~OnBorder(a, b, c, px, py)
<1> DEFINE t == <<a, b, c>>
<1>1. Edges(t) = {<<a, b>>, <<b, c>>, <<c, a>>}
  BY DEF Edges
<1>2. \A e \in Edges(t) :
        \/ e[1] = a /\ e[2] = b
        \/ e[1] = b /\ e[2] = c
        \/ e[1] = c /\ e[2] = a
  BY <1>1
<1>3. /\ \E e \in Edges(t) : e[1] = a /\ e[2] = b
      /\ \E e \in Edges(t) : e[1] = b /\ e[2] = c
      /\ \E e \in Edges(t) : e[1] = c /\ e[2] = a
  <2>1. /\ <<a, b>> \in Edges(t) /\ <<b, c>> \in Edges(t) /\ <<c, a>> \in Edges(t)
    BY <1>1
  <2>2. /\ <<a, b>>[1] = a /\ <<a, b>>[2] = b
        /\ <<b, c>>[1] = b /\ <<b, c>>[2] = c
        /\ <<c, a>>[1] = c /\ <<c, a>>[2] = a
    OBVIOUS
  <2> HIDE DEF t
  <2> QED
    BY <2>1, <2>2
<1> HIDE DEF t
<1>4. InsideTriangle(t, px, py) <=> InsideOf(a, b, c, px, py)
  <2>1. (\A e \in Edges(t) : Side(e[1], e[2], px, py) > 0) <=>
          Side(a, b, px, py) > 0 /\ Side(b, c, px, py) > 0 /\ Side(c, a, px, py) > 0
    BY <1>2, <1>3
  <2>2. (\A e \in Edges(t) : Side(e[1], e[2], px, py) < 0) <=>
          Side(a, b, px, py) < 0 /\ Side(b, c, px, py) < 0 /\ Side(c, a, px, py) < 0
    BY <1>2, <1>3
  <2> QED
    BY <2>1, <2>2 DEF InsideTriangle, InsideOf
<1>5. OnBorder(a, b, c, px, py) <=> \E e \in Edges(t) : OnEdge(e[1], e[2], px, py)
  BY <1>2, <1>3, Zenon DEF OnBorder
<1>6. InsideOf(a, b, c, px, py) => ~OnBorder(a, b, c, px, py)
  BY SideType DEF InsideOf, OnBorder, OnEdge
<1> QED
  BY <1>4, <1>5, <1>6 DEF t

\* The three vertices of a half.
LEMMA HalfFacts ==
    ASSUME TypeOK, NEW k \in 1..2
    PROVE  \E a, b, c \in Point :
              /\ HalfOf(quad, k) = <<a, b, c>>
              /\ k \in ZonesAt(x) <=> PointInPolygon(x, lane, <<a, b, c>>)
<1>1. quad[1] \in Point /\ quad[2] \in Point /\ quad[3] \in Point /\ quad[4] \in Point
  BY QuadFacts
<1>2. CASE k = 1
  <2>1. HalfOf(quad, k) = <<quad[1], quad[2], quad[3]>>
    BY <1>2 DEF HalfOf
  <2>2. k \in ZonesAt(x) <=> PointInPolygon(x, lane, <<quad[1], quad[2], quad[3]>>)
    BY <1>2, HalvesAreTriangles
  <2> QED
    BY <1>1, <2>1, <2>2
<1>3. CASE k = 2
  <2>1. HalfOf(quad, k) = <<quad[1], quad[3], quad[4]>>
    BY <1>3 DEF HalfOf
  <2>2. k \in ZonesAt(x) <=> PointInPolygon(x, lane, <<quad[1], quad[3], quad[4]>>)
    BY <1>3, HalvesAreTriangles
  <2> QED
    BY <1>1, <2>1, <2>2
<1>4. k = 1 \/ k = 2
  OBVIOUS
<1> QED
  BY <1>2, <1>3, <1>4

\* A point that is not on the border is in the triangle by the test if and only if it is
\* on the same side of all its edges, for all triangles and points (_point_in_polygon).
THEOREM AgreesWithHalfPlanesAlways == Spec => []AgreesWithHalfPlanes
<1>1. ASSUME TypeOK PROVE AgreesWithHalfPlanes
  <2> SUFFICES ASSUME NEW k \in 1..2,
                      ~\E e \in Edges(HalfOf(quad, k)) : OnEdge(e[1], e[2], x, lane)
               PROVE  (k \in ZonesAt(x)) <=> InsideTriangle(HalfOf(quad, k), x, lane)
    BY DEF AgreesWithHalfPlanes
  <2>1. PICK a, b, c \in Point :
              /\ HalfOf(quad, k) = <<a, b, c>>
              /\ k \in ZonesAt(x) <=> PointInPolygon(x, lane, <<a, b, c>>)
    BY <1>1, HalfFacts
  <2>2. x \in Int /\ lane \in Int
    BY <1>1, QuadFacts
  <2>3. ~OnBorder(a, b, c, x, lane)
    BY <2>1, <2>2, TriangleParts
  <2>4. PointInPolygon(x, lane, <<a, b, c>>) <=> InsideOf(a, b, c, x, lane)
    BY <2>2, <2>3, TriangleTest
  <2>5. InsideTriangle(<<a, b, c>>, x, lane) <=> InsideOf(a, b, c, x, lane)
    BY <2>2, TriangleParts
  <2> QED
    BY <2>1, <2>4, <2>5
<1> QED
  BY <1>1, TypeCorrect, PTL

-----------------------------------------------------------------------------
(* Halves that do not overlap *)

LEMMA SumIdentity ==
    ASSUME NEW a1 \in Int, NEW a2 \in Int, NEW b1 \in Int, NEW b2 \in Int,
           NEW c1 \in Int, NEW c2 \in Int, NEW px \in Int, NEW py \in Int
    PROVE  ((b1 - a1) * (py - a2) - (b2 - a2) * (px - a1))
             + ((c1 - b1) * (py - b2) - (c2 - b2) * (px - b1))
             + ((a1 - c1) * (py - c2) - (a2 - c2) * (px - c1))
             = (b1 - a1) * (c2 - a2) - (b2 - a2) * (c1 - a1)
OBVIOUS

\* What the point sees of the three edges adds up to what a vertex sees of the opposite one.
LEMMA SumOfSides ==
    ASSUME NEW a \in Point, NEW b \in Point, NEW c \in Point, NEW px \in Int, NEW py \in Int
    PROVE  Side(a, b, px, py) + Side(b, c, px, py) + Side(c, a, px, py) = Side(a, b, c[1], c[2])
<1> DEFINE a1 == a[1]
           a2 == a[2]
           b1 == b[1]
           b2 == b[2]
           c1 == c[1]
           c2 == c[2]
<1>1. /\ a1 \in Int /\ a2 \in Int /\ b1 \in Int /\ b2 \in Int /\ c1 \in Int /\ c2 \in Int
  BY DEF Point
<1>2. /\ Side(a, b, px, py) = (b1 - a1) * (py - a2) - (b2 - a2) * (px - a1)
      /\ Side(b, c, px, py) = (c1 - b1) * (py - b2) - (c2 - b2) * (px - b1)
      /\ Side(c, a, px, py) = (a1 - c1) * (py - c2) - (a2 - c2) * (px - c1)
      /\ Side(a, b, c1, c2) = (b1 - a1) * (c2 - a2) - (b2 - a2) * (c1 - a1)
  BY DEF Side
<1> HIDE DEF a1, a2, b1, b2, c1, c2
<1>3. Side(a, b, px, py) + Side(b, c, px, py) + Side(c, a, px, py) = Side(a, b, c1, c2)
  BY <1>1, <1>2, SumIdentity
<1> QED
  BY <1>3 DEF c1, c2

\* The diagonal from the first to the third vertex parts the other two, as it does in
\* every convex quadrilateral.
DiagonalParts ==
    LET s2 == Side(quad[1], quad[3], quad[2][1], quad[2][2])
        s4 == Side(quad[1], quad[3], quad[4][1], quad[4][2])
    IN (s2 > 0 /\ s4 < 0) \/ (s2 < 0 /\ s4 > 0)

OffBorders ==
    \A k \in 1..2 : \A e \in Edges(HalfOf(quad, k)) : ~OnEdge(e[1], e[2], x, lane)

\* Zones that adjoin along a diagonal with a vertex on either side of it never apply
\* together, and apply exactly where the whole would: off their borders, a point is in the
\* whole if it is in one of them, and in no two (_point_in_polygon,
\* _zone_objects_containing). HalvesMakeTheWhole alone would allow a point in both.
THEOREM HalvesAreDisjoint ==
    Spec => [](DiagonalParts /\ OffBorders =>
                 /\ ~(1 \in ZonesAt(x) /\ 2 \in ZonesAt(x))
                 /\ PointInPolygon(x, lane, quad) <=> (1 \in ZonesAt(x) \/ 2 \in ZonesAt(x)))
<1>1. ASSUME TypeOK, DiagonalParts, OffBorders
      PROVE  /\ ~(1 \in ZonesAt(x) /\ 2 \in ZonesAt(x))
             /\ PointInPolygon(x, lane, quad) <=> (1 \in ZonesAt(x) \/ 2 \in ZonesAt(x))
  <2> DEFINE q1 == quad[1]
             q2 == quad[2]
             q3 == quad[3]
             q4 == quad[4]
  <2>1. /\ q1 \in Point /\ q2 \in Point /\ q3 \in Point /\ q4 \in Point
        /\ x \in Int /\ lane \in Int
    BY <1>1, QuadFacts
  <2>2. /\ HalfOf(quad, 1) = <<q1, q2, q3>>
        /\ HalfOf(quad, 2) = <<q1, q3, q4>>
    BY DEF HalfOf
  <2>3. /\ 1 \in ZonesAt(x) <=> PointInPolygon(x, lane, <<q1, q2, q3>>)
        /\ 2 \in ZonesAt(x) <=> PointInPolygon(x, lane, <<q1, q3, q4>>)
    BY HalvesAreTriangles
  <2>4. \/ Side(q1, q3, q2[1], q2[2]) > 0 /\ Side(q1, q3, q4[1], q4[2]) < 0
        \/ Side(q1, q3, q2[1], q2[2]) < 0 /\ Side(q1, q3, q4[1], q4[2]) > 0
    BY <1>1 DEF DiagonalParts
  <2>5. /\ \A e \in Edges(<<q1, q2, q3>>) : ~OnEdge(e[1], e[2], x, lane)
        /\ \A e \in Edges(<<q1, q3, q4>>) : ~OnEdge(e[1], e[2], x, lane)
    BY <1>1, <2>2 DEF OffBorders
  <2> HIDE DEF q1, q2, q3, q4
  <2>6. ~OnBorder(q1, q2, q3, x, lane) /\ ~OnBorder(q1, q3, q4, x, lane)
    BY <2>1, <2>5, TriangleParts
  <2>7. /\ 1 \in ZonesAt(x) <=> InsideOf(q1, q2, q3, x, lane)
        /\ 2 \in ZonesAt(x) <=> InsideOf(q1, q3, q4, x, lane)
    BY <2>1, <2>3, <2>6, TriangleTest
  <2>8. /\ Side(q3, q1, x, lane) + Side(q1, q2, x, lane) + Side(q2, q3, x, lane)
             = Side(q3, q1, q2[1], q2[2])
        /\ Side(q1, q3, x, lane) + Side(q3, q4, x, lane) + Side(q4, q1, x, lane)
             = Side(q1, q3, q4[1], q4[2])
    BY <2>1, SumOfSides
  <2>9. /\ q2[1] \in Int /\ q2[2] \in Int /\ q4[1] \in Int /\ q4[2] \in Int
    BY <2>1 DEF Point
  <2>10. /\ Side(q3, q1, q2[1], q2[2]) = -Side(q1, q3, q2[1], q2[2])
         /\ Side(q3, q1, x, lane) = -Side(q1, q3, x, lane)
    BY <2>1, <2>9, SideReverse
  <2>11. /\ Side(q1, q3, q2[1], q2[2]) \in Int /\ Side(q1, q3, q4[1], q4[2]) \in Int
         /\ Side(q1, q3, x, lane) \in Int /\ Side(q1, q2, x, lane) \in Int
         /\ Side(q2, q3, x, lane) \in Int /\ Side(q3, q4, x, lane) \in Int
         /\ Side(q4, q1, x, lane) \in Int
    BY <2>1, <2>9, SideType
  <2>12. ~(InsideOf(q1, q2, q3, x, lane) /\ InsideOf(q1, q3, q4, x, lane))
    BY <2>4, <2>8, <2>10, <2>11 DEF InsideOf
  <2>13. PointInPolygon(x, lane, quad) <=> ((1 \in ZonesAt(x)) # (2 \in ZonesAt(x)))
    BY <1>1, HalvesCount
  <2>14. ~(1 \in ZonesAt(x) /\ 2 \in ZonesAt(x))
    BY <2>7, <2>12
  <2>15. (1 \in ZonesAt(x)) \in BOOLEAN /\ (2 \in ZonesAt(x)) \in BOOLEAN
    OBVIOUS
  <2> QED
    BY <2>13, <2>14, <2>15
<1> QED
  BY <1>1, TypeCorrect, PTL

\* No tick that starts inside a zone drives further than the zone allows
\* (effective_speed in _step_towards).
THEOREM SlowInZoneAlways == Spec => SlowInZone
<1>1. ASSUME TypeOK, Tick, NEW k \in 1..2, InsideTriangle(HalfOf(quad, k), x, lane)
      PROVE  Abs(x' - x) <= Limits[k]
  <2>1. k \in ZonesAt(x)
    <3>1. PICK a, b, c \in Point :
              /\ HalfOf(quad, k) = <<a, b, c>>
              /\ k \in ZonesAt(x) <=> PointInPolygon(x, lane, <<a, b, c>>)
      BY <1>1, HalfFacts
    <3>2. x \in Int /\ lane \in Int
      BY <1>1, QuadFacts
    <3>3. InsideOf(a, b, c, x, lane) /\ ~OnBorder(a, b, c, x, lane)
      BY <1>1, <3>1, <3>2, TriangleParts
    <3> QED
      BY <3>1, <3>2, <3>3, TriangleTest
  <2>2. leg # NoLeg
    BY <1>1 DEF Tick, Rotate, Drive, Arrive
  <2>3. Step \in Nat /\ Step <= Limits[k] /\ Limits[k] \in Nat /\ x \in Int /\ leg.to \in Int
    BY <1>1, <2>1, <2>2, StepType, LegFacts, DriveAssumption DEF TypeOK
  <2>4. CASE Rotate
    BY <2>3, <2>4 DEF Rotate, Abs
  <2>5. CASE Drive
    BY <2>3, <2>5 DEF Drive, Abs
  <2>6. CASE Arrive
    BY <2>3, <2>6 DEF Arrive, Abs, Distance
  <2> QED
    BY <1>1, <2>4, <2>5, <2>6 DEF Tick
<1>2. TypeOK /\ [Next]_vars =>
        [Tick => \A k \in 1..2 :
            InsideTriangle(HalfOf(quad, k), x, lane) => Abs(x' - x) <= Limits[k]]_vars
  BY <1>1
<1> QED
  BY <1>2, TypeCorrect, PTL DEF Spec, SlowInZone
=============================================================================
