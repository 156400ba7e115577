------------------------------- MODULE MCAgv -------------------------------
(* Instances of Agv for TLC: the routes, their actions and the variants of them. *)
EXTENDS Agv

\* Order A drives from node 0 over edge 1 to node 2 and, once released, over
\* edge 3 to node 4.  Its update arrives in one of two forms: stitched at the
\* last released node, or as the full extended route the repository's tests send.
OrderA == [id |-> "A", upd |-> 0, nodes |-> {0, 2, 4}, edges |-> {1, 3}, base |-> {0, 1, 2},
           corridors |-> {1}, acts |-> {"horn", "pick"}]

StitchedA == [id |-> "A", upd |-> 1, nodes |-> {2, 4}, edges |-> {3}, base |-> {2, 3, 4},
              corridors |-> {}, acts |-> {"pick", "scan"}]

FullA == [OrderA EXCEPT !.upd = 1, !.base = {0, 1, 2, 3, 4}]

\* Order B is a single node where the robot waits for a trigger.
OrderB == [id |-> "B", upd |-> 0, nodes |-> {0}, edges |-> {}, base |-> {0},
           corridors |-> {}, acts |-> {"wait"}]

MCPlace == [horn |-> 1, pick |-> 2, scan |-> 4, wait |-> 0]
MCActions == DOMAIN MCPlace

StitchedOrders == {OrderA, StitchedA, OrderB}
FullOrders == {OrderA, FullA}
=============================================================================
