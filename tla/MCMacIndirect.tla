---------------------------- MODULE MCMacIndirect ----------------------------
(***************************************************************************)
(* Instances of MacIndirect for TLC.                                       *)
(***************************************************************************)
EXTENDS MacIndirect, TLC

CONSTANTS b1, b2, b3, b4, c1

\* Buffers are interchangeable.
MCSymmetry == Permutations(Bufs)

=============================================================================
