--------------------------- MODULE MCNwkBroadcast ---------------------------
(***************************************************************************)
(* An instance of NwkBroadcast for TLC: a router with two router neighbors *)
(* and an end device child, one broadcast of its own and one that the      *)
(* child, or a device further away, originated.                            *)
(***************************************************************************)
EXTENDS NwkBroadcast

CONSTANTS mine, theirs

MCFrames == {mine, theirs}
MCOwn == {mine}
MCSrcOf == [f \in MCFrames |-> 0]
MCSrcChild == [f \in MCFrames |-> IF f = theirs THEN 3 ELSE 0]
MCDstOf == [f \in MCFrames |-> "all"]
MCOut == {1, 2}
MCIn == {11, 12}
MCNbrs == {1, 2, 3}
MCRouters == {1, 2}
MCNone == {}

=============================================================================
