------------------------------ MODULE MCZones ------------------------------
(* Instances of Zones for TLC: a line of four places, the last one on another map. *)
EXTENDS Zones

\* The aisle set has a zone that needs a grant and an action zone on the way to it, the
\* extra set a blocked zone at the same node and one-way traffic at the start; the dock
\* set is on the map of the last place.
MCZoneSet == {"gate", "scan", "block", "oneway", "dock"}
MCSetOf == [gate |-> "aisle", scan |-> "aisle", block |-> "extra", oneway |-> "extra", dock |-> "docks"]
MCMapOf == [aisle |-> "hall", extra |-> "hall", docks |-> "yard"]
MCKind == [gate |-> "access", scan |-> "action", block |-> "blocked", oneway |-> "rightward", dock |-> "access"]
MCCovers == [gate |-> {2}, scan |-> {1, 2}, block |-> {2}, oneway |-> {0}, dock |-> {0, 3}]
MCEntry == [z \in MCZoneSet |-> IF z = "scan" THEN {"arrive"} ELSE {}]
MCExit == [z \in MCZoneSet |-> IF z = "scan" THEN {"leave"} ELSE {}]
MCMapAt == [p \in 0..3 |-> IF p = 3 THEN "yard" ELSE "hall"]
MCLandings == {<<1, "hall">>}
MCRoutes == {<<2, 3>>, <<0>>}

\* Every zone has a zoneId of its own, or gate and dock share one.
OwnIds == [z \in MCZoneSet |-> z]
SharedIds == [OwnIds EXCEPT !["dock"] = "gate"]
=============================================================================
