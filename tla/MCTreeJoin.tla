----------------------------- MODULE MCTreeJoin -----------------------------
(***************************************************************************)
(* An instance of TreeJoin for TLC: a coordinator, two routers and an end  *)
(* device that moves, in trees of two or three levels.                     *)
(***************************************************************************)
EXTENDS TreeJoin

CONSTANTS zc, r1, r2, e1

MCDevices == {zc, r1, r2, e1}
MCRouters == {r1, r2}
MCSymmetry == Permutations(MCRouters)
MCMovers == {e1}
MCConfigs == {[cm |-> 3, rm |-> 2, lm |-> 2], [cm |-> 2, rm |-> 1, lm |-> 2]}

\* Routers that move instead, in a deeper tree.
MCMoversOfRouters == {r1, r2}
MCDeepConfigs == {[cm |-> 2, rm |-> 2, lm |-> 3]}

=============================================================================
