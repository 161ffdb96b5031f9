----------------------------- MODULE MCBufPool -----------------------------
(***************************************************************************)
(* Instances of BufPool for TLC.                                           *)
(***************************************************************************)
EXTENDS BufPool, TLC

CONSTANTS c1, c2

MCCallbacks1 == {c1}
MCCallbacks2 == {c1, c2}

\* Callbacks are interchangeable; used only where no liveness is checked.
CallbackSymmetry == Permutations(MCCallbacks2)

=============================================================================
