----------------------------- MODULE AddrPairs -----------------------------
(***************************************************************************)
(* What the address translation table promises (include/zb_address.h): a   *)
(* set of pairs of a long and a short address, either of which may still   *)
(* be unknown.  No two pairs share an address; the latest news about an    *)
(* address replaces what was known of it.                                  *)
(***************************************************************************)
CONSTANTS Ieees, NoIeee, Shorts, NoShort

VARIABLE pairs

Pairs == (Ieees \cup {NoIeee}) \X (Shorts \cup {NoShort})

About(i, s) == {p \in pairs : p[1] = i \/ p[2] = s}

Init == pairs = {}

\* A device is first heard of by one of its addresses.
LearnIeee(i) ==
    /\ {p \in pairs : p[1] = i} = {}
    /\ pairs' = pairs \cup {<<i, NoShort>>}

LearnShort(s) ==
    /\ {p \in pairs : p[2] = s} = {}
    /\ pairs' = pairs \cup {<<NoIeee, s>>}

\* Both addresses of a device become known.
Bind(i, s) == pairs' = (pairs \ About(i, s)) \cup {<<i, s>>}

Forget(p) == pairs' = pairs \ {p}

Next ==
    \/ \E i \in Ieees : LearnIeee(i)
    \/ \E s \in Shorts : LearnShort(s)
    \/ \E i \in Ieees, s \in Shorts : Bind(i, s)
    \/ \E p \in pairs : Forget(p)

Spec == Init /\ [][Next]_pairs

=============================================================================
