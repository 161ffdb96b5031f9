---------------------------- MODULE MCApsReceive ----------------------------
(***************************************************************************)
(* Instances of ApsReceive for TLC.                                        *)
(***************************************************************************)
EXTENDS ApsReceive, TLC

CONSTANTS p1, p2

TwoPeers == {p1, p2}

\* p1 sends two packets, which gives the order first, second, copy of the first.
ThreePkts == p1 :> 2 @@ p2 :> 1
TwoPkts   == p1 :> 1 @@ p2 :> 1

=============================================================================
