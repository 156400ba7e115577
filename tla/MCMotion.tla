------------------------------ MODULE MCMotion ------------------------------
(* Instances of Motion for TLC: five positions on two lanes, and zones around them. *)
EXTENDS Motion

\* Quadrilaterals of every kind: convex, concave, crossing themselves, with three
\* vertices in line, clockwise and not.  Lane 2 goes through vertices, lane 1 between.

MCQuads == {<<a, b, c, d>> : a \in {<<0, 0>>}, b \in {<<2, 0>>, <<4, 2>>},
                             c \in {<<4, 4>>, <<2, 2>>}, d \in {<<0, 4>>, <<0, 2>>, <<4, 0>>}}

Edge(orientation, kind, pre, max, final) ==
    [to : {0, 4}, orientation : {orientation}, kind : {kind}, pre : {pre}, max : {max}, final : {final}]

\* Without orientation; facing across the lane; backwards; sideways; askew and not
\* turned before.
MCLegs ==
    Edge(Free, "GLOBAL", FALSE, 3, 4) \cup Edge(Free, "GLOBAL", TRUE, 3, Free)
    \cup Edge(4, "GLOBAL", TRUE, 2, 0)
    \cup Edge(8, "TANGENTIAL", TRUE, 3, Free)
    \cup Edge(-3, "TANGENTIAL", TRUE, 1, Free)
    \cup Edge(5, "TANGENTIAL", FALSE, 3, Free)

MCPoses == {<<0, 0>>, <<2, -7>>}
MCLimits == <<1, 2>>
=============================================================================
