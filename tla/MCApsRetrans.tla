---------------------------- MODULE MCApsRetrans ----------------------------
(***************************************************************************)
(* Instances of ApsRetrans for TLC.                                        *)
(***************************************************************************)
EXTENDS ApsRetrans, TLC

CONSTANTS b1, b2, p1

MCBufs == {b1, b2}
MCPeers == {p1}

\* The buffers are interchangeable: nothing orders them.
BufSymmetry == Permutations(MCBufs)

=============================================================================
