------------------------------ MODULE TreeJoin ------------------------------
(***************************************************************************)
(* Joining the tree by association and the distributed assignment of       *)
(* network addresses: nwk/nwk_cr_join.c (parent), nwk/nwk_join.c (child),  *)
(* nwk/nwk_address_assign.c, and the parts of nwk/nwk_neighbor.c and       *)
(* zdo/zdo_rx.c that decide whether a parent knows a device already.       *)
(*                                                                         *)
(* Every device runs the same code.  The response of a parent waits in its *)
(* MAC queue until the child polls for it: it may be lost, come after the  *)
(* child has asked again, or arrive while its acknowledgement is lost.     *)
(***************************************************************************)
EXTENDS Integers, Sequences, FiniteSets, FiniteSetsExt, SequencesExt

CONSTANTS
    Devices, Coord,      \* all devices, and the one that formed the network
    RouterCap,           \* devices that first try to join as a router
    Movers,              \* devices that leave the network and join again
    Announcers,          \* devices whose announcements other devices hear
    Configs,             \* nib.max_children, max_routers, max_depth
    ZB_NEIGHBOR_TABLE_SIZE,
    ZB_MAC_PENDING_QUEUE_SIZE,
    CrossAnswers,        \* may a device get the response made for its earlier
                         \* request as the other kind of device
    MaxTries             \* bound: association requests that reach a parent

\* n turns of x := rm * x + b, from 1.
Growth(c, b) ==
    LET x[n \in 0 .. c.lm] == IF n = 0 THEN 1 ELSE c.rm * x[n - 1] + b IN x

\* A router at depth n has a block of its own address, the blocks of max_routers
\* routers and the addresses of the other children.
Blocks(c) == Growth(c, 1 + c.cm - c.rm)

\* The whole tree fits in the 16 bits of an address, and with it the power that
\* zb_nwk_daa_calc_cskip() keeps in 16 bits.
ASSUME JoinAssumption ==
    /\ IsFiniteSet(Devices)
    /\ Coord \in Devices /\ RouterCap \subseteq Devices
    /\ Movers \subseteq Devices \ {Coord} /\ Announcers \subseteq Devices
    /\ Configs \subseteq [cm : Nat, rm : Nat \ {0}, lm : 1 .. 15]
    /\ \A c \in Configs : Blocks(c)[c.lm] <= 65536 /\ Growth(c, 0)[c.lm - 1] < 65536
    /\ ZB_NEIGHBOR_TABLE_SIZE \in Nat \ {0}
    /\ ZB_MAC_PENDING_QUEUE_SIZE \in Nat \ {0}
    /\ CrossAnswers \in BOOLEAN

VARIABLES
    nib,     \* the limits, the same in every device
    nwk,     \* what a device knows of itself
    nbt,     \* neighbor table: an entry for every device, or Absent
    used,    \* base_neighbor_used
    pendq,   \* association responses in the MAC queue of a parent, with the
             \* kind of device they were made for (not in the frame)
    join,    \* the attempt to join that is under way
    seen,    \* extended neighbor table: beacons of the last scan
    tries    \* requests so far

joinVars == <<nib, nwk, nbt, used, pendq, join, seen, tries>>

NoAddr == -1
Absent == [addr |-> NoAddr, router |-> FALSE, rel |-> "absent"]
NotSeen == [addr |-> NoAddr, depth |-> 0, open |-> FALSE, potential |-> FALSE]
NoBeacons == [p \in Devices |-> NotSeen]
NoJoin == [st |-> "idle", par |-> Coord, router |-> FALSE]

-----------------------------------------------------------------------------
(* Addresses: zb_nwk_daa_calc_cskip() and the two macros of nwk_internal.h *)

Cskip_Deeper(c, depth) ==
    IF c.rm = 1
    THEN 1 + c.cm * (c.lm - depth - 2)
    ELSE LET k == IF depth + 1 < c.lm THEN c.lm - depth - 2 ELSE 0
         IN  (c.cm * Growth(c, 0)[k] - 1 - c.cm + c.rm) \div (c.rm - 1)

\* The size of the block of addresses of a child router.  Both operands of the
\* quotient are negative in the code; it is exact.
Cskip(c, depth) ==
    IF c.rm = 1
    THEN 1 + c.cm * (c.lm - depth - 1)
    ELSE LET k == IF depth < c.lm THEN c.lm - depth - 1 ELSE 0
         IN  (c.cm * Growth(c, 0)[k] - 1 - c.cm + c.rm) \div (c.rm - 1)

\* ZB_NWK_ROUTER_ADDRESS_ASSIGN(), ZB_NWK_ED_ADDRESS_ASSIGN()
Assigned(w, router) ==
    IF router THEN w.addr + w.rnum * w.cskip + 1
              ELSE w.addr + nib.rm * w.cskip + w.ednum + 1

JoinInit ==
    /\ nib \in Configs
    /\ nwk = [d \in Devices |->
                [joined |-> d = Coord, router |-> d \in RouterCap \cup {Coord},
                 addr |-> IF d = Coord THEN 0 ELSE NoAddr, depth |-> 0,
                 cskip |-> Cskip(nib, 0), rnum |-> 0, ednum |-> 0,
                 started |-> d = Coord, permit |-> d = Coord /\ nib.cm > 0]]
    /\ nbt = [d \in Devices |-> [e \in Devices |-> Absent]]
    /\ used = [d \in Devices |-> 0]
    /\ pendq = [d \in Devices |-> <<>>]
    /\ join = [d \in Devices |-> NoJoin]
    /\ seen = [d \in Devices |-> NoBeacons]
    /\ tries = 0

-----------------------------------------------------------------------------
(* Parent *)

\* zb_nwk_neighbor_get(): a new entry goes behind the ones made before; the
\* place of a deleted one is not used again.
TableFull(p) == used[p] = ZB_NEIGHBOR_TABLE_SIZE - 1

\* The new child is counted in the NIB.
CountChild(w, router) ==
    IF router THEN [w EXCEPT !.rnum = @ + 1] ELSE [w EXCEPT !.ednum = @ + 1]

HasRoom_AnyKind(w, router) ==
    nib.cm > w.ednum + w.rnum /\ w.depth < nib.lm

\* There is room for another child of this kind.
HasRoom(w, router) ==
    /\ nib.cm > w.ednum + w.rnum
    /\ w.depth < nib.lm
    /\ router => w.rnum < nib.rm

\* No place is left: association_permit and the beacon payload follow.
Closed(w) == [w EXCEPT !.permit = @ /\ w.rnum + w.ednum < nib.cm]

\* zb_nwk_accept_child(): the entry and the NIB after the request of d, and the
\* address to answer (NoAddr: MAC_OUT_OF_CAP).  A known device of the same kind
\* gets the address it had.  The child is counted before the tables are asked.
AcceptChild_Free(p, d, router) ==
    LET known == nbt[p][d]
        same == known.rel # "absent" /\ known.router = router
        w == nwk[p]
        fits == HasRoom(w, router)
        ok == fits /\ ~TableFull(p)
        a == Assigned([w EXCEPT !.rnum = Cardinality({e \in Devices :
                 nbt[p][e].rel = "child" /\ nbt[p][e].router}),
                               !.ednum = Cardinality({e \in Devices :
                 nbt[p][e].rel = "child" /\ ~nbt[p][e].router})], router)
    IN  IF same THEN [addr |-> known.addr, w |-> Closed(w), new |-> 0]
        ELSE [addr |-> IF ok THEN a ELSE NoAddr,
              w |-> Closed(IF fits THEN CountChild(w, router) ELSE w),
              new |-> IF ok THEN 1 ELSE 0]

AcceptChild(p, d, router) ==
    LET known == nbt[p][d]
        same == known.rel # "absent" /\ known.router = router
        w == nwk[p]
        fits == HasRoom(w, router)
        ok == fits /\ ~TableFull(p)
    IN  IF same THEN [addr |-> known.addr, w |-> Closed(w), new |-> 0]
        ELSE [addr |-> IF ok THEN Assigned(w, router) ELSE NoAddr,
              w |-> Closed(IF fits THEN CountChild(w, router) ELSE w),
              new |-> IF ok THEN 1 ELSE 0]

\* The neighbor table entry of d at p after that.
AcceptedEntry(acc, router) ==
    IF acc.addr = NoAddr THEN Absent
    ELSE [addr |-> acc.addr, router |-> router, rel |-> "child"]

\* zb_mlme_comm_status_indication(): a response that failed removes the child.
CommStatus(t, d, ok) == IF ok THEN t ELSE [t EXCEPT ![d] = Absent]

-----------------------------------------------------------------------------
(* Child *)

\* nwk_choose_parent(): the beacons a device may choose from.  Depth and link
\* quality decide between them; any of them can win.
Candidates(s) == {p \in Devices : s[p].open /\ s[p].potential}

\* nwk_association_join(): a parent is chosen and the request scheduled, or
\* there is none.
Chosen(s, router) ==
    IF Candidates(s) = {} THEN {NoJoin}
    ELSE {[st |-> "send", par |-> p, router |-> router] : p \in Candidates(s)}

\* The active scan: devices whose beacon says that they take children.
Scan ==
    [p \in Devices |->
       IF nwk[p].started
       THEN [addr |-> nwk[p].addr, depth |-> nwk[p].depth,
             open |-> nwk[p].permit, potential |-> TRUE]
       ELSE NotSeen]

\* The scan and zb_nlme_join_request() with the method association.
zb_nlme_join_request(d) ==
    /\ ~nwk[d].joined /\ join[d].st = "idle"
    /\ seen' = [seen EXCEPT ![d] = Scan]
    /\ Candidates(seen'[d]) # {}
    /\ \E j \in Chosen(seen'[d], d \in RouterCap) :
         join' = [join EXCEPT ![d] = j]
    /\ UNCHANGED <<nib, nwk, nbt, used, pendq, tries>>

\* The association request reaches the parent, which answers through its MAC
\* queue (zb_mlme_associate_indication(), zb_mlme_associate_response()); a full
\* queue is a failure of the response at once.  A parent that left does not hear.
zb_mlme_associate_indication(d) ==
    LET p == join[d].par
        acc == AcceptChild(p, d, join[d].router)
        tab == [nbt[p] EXCEPT ![d] = AcceptedEntry(acc, join[d].router)]
        full == Len(pendq[p]) = ZB_MAC_PENDING_QUEUE_SIZE
    IN  /\ join[d].st = "send" /\ nwk[p].started
        /\ tries < MaxTries
        /\ tries' = tries + 1
        /\ join' = [join EXCEPT ![d].st = "wait"]
        /\ nwk' = [nwk EXCEPT ![p] = acc.w]
        /\ used' = [used EXCEPT ![p] = @ + acc.new]
        /\ nbt' = [nbt EXCEPT ![p] = IF full THEN CommStatus(tab, d, FALSE)
                                             ELSE tab]
        /\ pendq' = IF full THEN pendq
                    ELSE [pendq EXCEPT ![p] =
                            Append(@, [dev |-> d, addr |-> acc.addr,
                                       router |-> join[d].router])]
        /\ UNCHANGED <<nib, seen>>

\* zb_mlme_associate_confirm() with a failure: another parent, then every parent
\* once more as an end device, then the failure is confirmed.  The beacons are of
\* no use after that: the next request follows a scan.
JoinFailed(d) ==
    LET s1 == [seen[d] EXCEPT ![join[d].par].potential = FALSE]
        s2 == [p \in Devices |-> [s1[p] EXCEPT !.potential = s1[p].open]]
        again == Candidates(s1) = {} /\ join[d].router
        s == IF again THEN s2 ELSE s1
        nobody == Candidates(s) = {}
    IN  /\ seen' = [seen EXCEPT ![d] = IF nobody THEN NoBeacons ELSE s]
        /\ \E j \in Chosen(s, join[d].router /\ ~again) :
             join' = [join EXCEPT ![d] = j]

\* Entries for the beacons of my network: zb_nwk_exneighbor_stop().  The beacons
\* are kept behind the neighbor table, in the same memory: how many of them get
\* an entry depends on it, and the last one cannot take the last place.
FromBeacons(d, par, kept) ==
    [p \in Devices |->
       IF p \in kept
       THEN [addr |-> seen[d][p].addr, router |-> TRUE,
             rel |-> IF p = par THEN "parent" ELSE "none"]
       ELSE IF p = par /\ nbt[d][p].rel # "absent"
            THEN [nbt[d][p] EXCEPT !.rel = "parent"]
            ELSE nbt[d][p]]

\* zb_mlme_associate_confirm() with an address: the device takes it, whatever
\* request it answers.  tab is the neighbor table of the parent.
JoinDone(d, a, tab) ==
    LET par == join[d].par
        depth == seen[d][par].depth + 1
        fresh == {p \in Devices : /\ seen[d][p].addr # NoAddr
                                  /\ nbt[d][p].rel = "absent"}
    IN  /\ nwk' = [nwk EXCEPT ![d].joined = TRUE, ![d].addr = a,
                              ![d].router = join[d].router,
                              ![d].depth = depth, ![d].cskip = Cskip(nib, depth)]
        /\ \E kept \in SUBSET fresh :
             /\ used[d] + Cardinality(kept) < ZB_NEIGHBOR_TABLE_SIZE
             /\ used' = [used EXCEPT ![d] = @ + Cardinality(kept)]
             /\ nbt' = [nbt EXCEPT ![par] = tab, ![d] = FromBeacons(d, par, kept)]
        /\ join' = [join EXCEPT ![d] = NoJoin]
        /\ seen' = [seen EXCEPT ![d] = NoBeacons]

-----------------------------------------------------------------------------
(* Responses *)

\* The first response for d in the queue of p is the i-th.
FirstFor(p, d, i) ==
    /\ i \in DOMAIN pendq[p] /\ pendq[p][i].dev = d
    /\ \A k \in 1 .. i - 1 : pendq[p][k].dev # d

\* The child polls its parent and gets the response; the acknowledgement comes
\* back or does not, and the parent learns which.
ResponseReceived(d, i, acked) ==
    LET p == join[d].par
        tab == CommStatus(nbt[p], d, acked)
    IN  /\ join[d].st = "wait" /\ FirstFor(p, d, i)
        /\ CrossAnswers \/ pendq[p][i].router = join[d].router
        /\ pendq' = [pendq EXCEPT ![p] = RemoveAt(@, i)]
        /\ IF pendq[p][i].addr # NoAddr
           THEN JoinDone(d, pendq[p][i].addr, tab)
           ELSE /\ JoinFailed(d)
                /\ nbt' = [nbt EXCEPT ![p] = tab]
                /\ UNCHANGED <<nwk, used>>
        /\ UNCHANGED <<nib, tries>>

\* A response leaves the queue without reaching the child: the transmission
\* failed, or zb_mac_pending_data_timeout().
ResponseLost(p, i) ==
    /\ pendq' = [pendq EXCEPT ![p] = RemoveAt(@, i)]
    /\ nbt' = [nbt EXCEPT ![p] = CommStatus(@, pendq[p][i].dev, FALSE)]
    /\ UNCHANGED <<nib, nwk, used, join, seen, tries>>

\* The request was not acknowledged, or the child stops waiting for the response.
AssociateFailed(d) ==
    /\ join[d].st \in {"send", "wait"}
    /\ JoinFailed(d)
    /\ UNCHANGED <<nib, nwk, nbt, used, pendq, tries>>

-----------------------------------------------------------------------------
(* After the join *)

\* zb_nlme_start_router_request() and zb_mlme_start_confirm(): a router begins
\* to take children; none at the largest depth.
StartRouter(d) ==
    /\ nwk[d].joined /\ nwk[d].router /\ ~nwk[d].started
    /\ nwk' = [nwk EXCEPT ![d].started = TRUE,
                 ![d].permit = /\ nib.cm > nwk[d].rnum + nwk[d].ednum
                               /\ nwk[d].depth < nib.lm]
    /\ UNCHANGED <<nib, nbt, used, pendq, join, seen, tries>>

\* zdo_device_annce_srv(), zdo_device_info_upd(): q gets the announcement of d,
\* directly or relayed.  Either way the address table takes the new address and
\* a child whose address changed becomes a previous child; only a device heard
\* directly is entered or completed as a neighbor.
DeviceAnnce(d, q, direct) ==
    LET e == nbt[q][d]
        rel == IF e.rel = "child" /\ e.addr # nwk[d].addr THEN "previous"
               ELSE IF direct /\ e.rel \in {"absent", "none"}
                    THEN IF nwk[d].router THEN "sibling" ELSE "none"
                    ELSE e.rel
        router == IF direct /\ (e.rel = "absent" \/ rel = "previous")
                  THEN nwk[d].router ELSE e.router
    IN  /\ d # q /\ nwk[d].joined /\ nwk[q].joined /\ nwk[q].router
        /\ e.rel = "absent" => direct /\ ~TableFull(q)
        /\ nbt' = [nbt EXCEPT ![q][d] = [addr |-> nwk[d].addr, router |-> router,
                                         rel |-> rel]]
        /\ used' = [used EXCEPT ![q] = IF e.rel = "absent" THEN @ + 1 ELSE @]
        /\ UNCHANGED <<nib, nwk, pendq, join, seen, tries>>

\* zb_nwk_do_leave(): a device leaves; those of hear get its leave command
\* (zb_nwk_leave_handler(), zb_nwk_forget_device()).
zb_nwk_do_leave(d, hear) ==
    /\ nwk[d].joined
    /\ nwk' = [nwk EXCEPT ![d].joined = FALSE, ![d].started = FALSE,
                          ![d].addr = NoAddr]
    /\ nbt' = [q \in Devices |->
                 IF q \in hear /\ nbt[q][d].addr = nwk[d].addr
                 THEN [nbt[q] EXCEPT ![d] = Absent] ELSE nbt[q]]
    /\ UNCHANGED <<nib, used, pendq, join, seen, tries>>

JoinNext ==
    \/ \E d \in Devices \ {Coord} :
         \/ zb_nlme_join_request(d)
         \/ zb_mlme_associate_indication(d)
         \/ \E i \in DOMAIN pendq[join[d].par], acked \in BOOLEAN : ResponseReceived(d, i, acked)
         \/ AssociateFailed(d)
         \/ StartRouter(d)
    \/ \E p \in Devices : \E i \in DOMAIN pendq[p] : ResponseLost(p, i)
    \/ \E d \in Announcers, q \in Devices, direct \in BOOLEAN :
         DeviceAnnce(d, q, direct)
    \/ \E d \in Movers :
         \E hear \in SUBSET {q \in Devices : nbt[q][d].rel # "absent"} :
           zb_nwk_do_leave(d, hear)

JoinSpec == JoinInit /\ [][JoinNext]_joinVars

-----------------------------------------------------------------------------
(* Properties *)

\* The shape of the state; the counts stay within the limits of the NIB and the
\* neighbor table within its size.
JoinTypeOK ==
    /\ nib \in Configs
    /\ \A d \in Devices :
         /\ nwk[d].joined <=> nwk[d].addr # NoAddr
         /\ nwk[d].started => nwk[d].joined /\ nwk[d].router
         /\ nwk[d].rnum + nwk[d].ednum <= nib.cm /\ nwk[d].rnum <= nib.rm
         /\ nwk[d].joined => nwk[d].depth <= nib.lm
         /\ used[d] < ZB_NEIGHBOR_TABLE_SIZE
         /\ Cardinality({e \in Devices : nbt[d][e].rel # "absent"}) <= used[d]
         /\ Len(pendq[d]) <= ZB_MAC_PENDING_QUEUE_SIZE
         /\ join[d].st # "idle" => ~nwk[d].joined

\* The addresses of the block of a router.
Block(d) == nwk[d].addr .. nwk[d].addr + Blocks(nib)[nib.lm - nwk[d].depth] - 1

\* No parent counted more end devices than its block has addresses for.
WithinQuota ==
    \A d \in Devices : nwk[d].ednum <= nib.cm - nib.rm

\* Every address d has, may still get, or is known by at a parent.
Claims(d) ==
    (IF nwk[d].joined THEN {nwk[d].addr} ELSE {})
    \cup {nbt[p][d].addr : p \in {p \in Devices : nbt[p][d].rel = "child"}}
    \cup UNION {{r.addr : r \in {r \in Range(pendq[p]) : r.dev = d}} \ {NoAddr} :
                  p \in Devices}

\* An address is never claimed by two devices, whatever responses were lost,
\* came late or lost their acknowledgement, as long as no parent took more end
\* devices than its block holds (zb_nwk_accept_child() never lowers a count).
UniqueWithinQuota ==
    WithinQuota =>
      \A d, e \in Devices : d # e => Claims(d) \cap Claims(e) = {}

\* The blocks of the routers of the tree are nested or disjoint, with the sizes
\* zb_nwk_daa_calc_cskip() gives: what tree routing relies on.
BlocksNested ==
    WithinQuota =>
      \A d, e \in Devices :
        nwk[d].joined /\ nwk[d].router /\ nwk[e].joined /\ nwk[e].router =>
          \/ Block(d) \cap Block(e) = {}
          \/ Block(d) \subseteq Block(e)
          \/ Block(e) \subseteq Block(d)

\* No two devices of the network have the same address, however many end devices
\* zb_nwk_accept_child() took.
UniqueAddresses ==
    \A d, e \in Devices :
      d # e /\ nwk[d].joined /\ nwk[e].joined => nwk[d].addr # nwk[e].addr
=============================================================================
