---------------------------- MODULE MCMeshRouting ---------------------------
(***************************************************************************)
(* Instances of MeshRouting for TLC.  In the first one routers 1, 2 and 3  *)
(* hear each other, with a bad link between 1 and 3; 4 hears 3 and 5 hears *)
(* 4.  1 has a packet for 5 and 5 one for 3: two destinations, requests    *)
(* and routes in the tables of 3 and 4.                                    *)
(*                                                                         *)
(* In the second one a line 1, 2, 3 goes on to 5 by 4 and by 6, and both 1 *)
(* and 2 have packets for 5.                                               *)
(***************************************************************************)
EXTENDS MeshRouting

CONSTANTS p1, p2

MCNodes == 1 .. 5
MCLinks == {{1, 2}, {2, 3}, {1, 3}, {3, 4}, {4, 5}}
MCCost == [l \in MCLinks |-> IF l = {1, 3} THEN 7 ELSE 1]
MCPackets == {p1, p2}
MCFrom == [p \in MCPackets |-> IF p = p1 THEN 1 ELSE 5]
MCTo == [p \in MCPackets |-> IF p = p1 THEN 5 ELSE 3]
MCLate == {3}

TwoWayNodes == 1 .. 6
TwoWayLinks == {{1, 2}, {2, 3}, {3, 4}, {4, 5}, {3, 6}, {6, 5}}
TwoWayCost == [l \in TwoWayLinks |-> 1]
TwoWayPackets == {p1, p2}
TwoWayFrom == [p \in TwoWayPackets |-> IF p = p1 THEN 1 ELSE 2]
TwoWayTo == [p \in TwoWayPackets |-> 5]
TwoWayLate == {2}
=============================================================================
