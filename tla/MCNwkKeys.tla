----------------------------- MODULE MCNwkKeys -----------------------------
(* Instance of NwkKeys: a trust center and two routers.                    *)
EXTENDS NwkKeys, TLC

CONSTANTS tc, r1, r2

MCDevices == {r1, r2}
MCSymmetry == Permutations(MCDevices)
=============================================================================
