----------------------------- MODULE MCAddrMap -----------------------------
(***************************************************************************)
(* Instances of AddrMap for TLC.                                           *)
(***************************************************************************)
EXTENDS AddrMap, TLC

CONSTANTS i1, i2

MCIeees == {i1, i2}

\* Both addresses have the same hash, the last entry: the search wraps.
MCHash == [i \in MCIeees |-> TableSize - 1]

\* With the same hash the two are interchangeable; no liveness is checked.
IeeeSymmetry == Permutations(MCIeees)

=============================================================================
