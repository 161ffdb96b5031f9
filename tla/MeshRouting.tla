---------------------------- MODULE MeshRouting -----------------------------
(***************************************************************************)
(* Route discovery among routers (nwk/nwk_cr_mesh_routing.c) and the       *)
(* choice of the next hop that uses it (nwk_calc_destination() and         *)
(* zb_nwk_forward() of nwk/nwk_main.c).                                    *)
(*                                                                         *)
(* Every node runs the same code.  A route request is broadcast to the     *)
(* neighbors, a reply goes back along the senders of the request; messages *)
(* come late and out of order, and one that never comes is lost.  An entry *)
(* of a table that ages expires at any moment after it was made.           *)
(***************************************************************************)
EXTENDS Integers, FiniteSets, FiniteSetsExt

CONSTANTS
    Nodes,            \* the routers, numbered from 1: 0 stands for none
    Links,            \* pairs of nodes that are neighbors of each other
    LinkCost,         \* NWK_CALC_PATH_COST() of a neighbor, from its LQI
    Packets, From, To, \* data packets, their sources and destinations
    ZB_NWK_STATIC_PATH_COST,
    ZB_NWK_ROUTING_TABLE_SIZE, ZB_NWK_ROUTE_DISCOVERY_TABLE_SIZE,
    ZB_NWK_PENDING_TABLE_SIZE,
    MaxRadius,        \* of data packets: the upper layer's, or 2 * max_depth
    MaxId,            \* bound: route requests of a node, fewer than a request
                      \* id has values
    LateNodes,        \* bound: nodes that a copy of a request may reach after
                      \* their broadcast transaction entry for it expired
    Coordinator,      \* the node with address 0, the one zeroed memory names
    NoPacket

Neighbors(n) == {m \in Nodes : {n, m} \in Links}
Dests == {To[p] : p \in Packets}

\* Packets go to other nodes, every table has an entry and a link costs 7 at most.
\* The expiry of a discovery reads route_disc_table with an index into
\* routing_table.
ASSUME MeshAssumption ==
    /\ Nodes \subseteq Nat \ {0} /\ IsFiniteSet(Nodes)
    /\ \A l \in Links : l \subseteq Nodes /\ Cardinality(l) = 2
    /\ From \in [Packets -> Nodes] /\ To \in [Packets -> Nodes]
    /\ \A p \in Packets : From[p] # To[p]
    /\ NoPacket \notin Packets
    /\ {ZB_NWK_ROUTING_TABLE_SIZE, ZB_NWK_ROUTE_DISCOVERY_TABLE_SIZE,
        ZB_NWK_PENDING_TABLE_SIZE, MaxRadius} \subseteq Nat \ {0}
    /\ ZB_NWK_ROUTING_TABLE_SIZE <= ZB_NWK_ROUTE_DISCOVERY_TABLE_SIZE
    /\ Coordinator \in Nodes \cup {0}
    /\ ZB_NWK_STATIC_PATH_COST \in 1 .. 7 /\ MaxId \in 1 .. 255
    /\ LateNodes \subseteq Nodes
    /\ \A l \in Links : LinkCost[l] \in 1 .. 7

VARIABLES
    route,    \* routing_table: status, next hop and index for every destination
    disc,     \* route_disc_table
    dest_addr, \* dest_addr in every entry of route_disc_table: it stays when the
              \* entry is freed
    pend,     \* pending_table
    bufreq,   \* calls of zb_nwk_mesh_initiate_route_discovery() to come
    rreq_id,  \* last request id used
    heard,    \* requests whose broadcast transaction entry lives
    msgs,     \* route requests and replies in flight
    pkt,      \* where every packet is
    forgot    \* history: requests that lost a discovery entry to a reply

meshVars == <<route, disc, dest_addr, pend, bufreq, rreq_id, heard, msgs, pkt, forgot>>

RSlots == 1 .. ZB_NWK_ROUTING_TABLE_SIZE
PSlots == 1 .. ZB_NWK_PENDING_TABLE_SIZE
DSlots == 1 .. ZB_NWK_ROUTE_DISCOVERY_TABLE_SIZE
NoDisc == [id |-> 0, src |-> 0, sender |-> 0, dest |-> 0, fwd |-> 0, res |-> 0]
NoRoute == [status |-> "none", next |-> 0, slot |-> 0]
EmptyPend == [pkt |-> NoPacket, waiting |-> FALSE]
Place(at, n, r) == [at |-> at, node |-> n, radius |-> r]

MeshInit ==
    /\ route = [n \in Nodes |-> [d \in Dests |-> NoRoute]]
    /\ disc = [n \in Nodes |-> [i \in DSlots |-> NoDisc]]
    /\ dest_addr = [n \in Nodes |-> [i \in DSlots |-> Coordinator]]
    /\ pend = [n \in Nodes |-> [i \in PSlots |-> EmptyPend]]
    /\ bufreq = [n \in Nodes |-> 0]
    /\ rreq_id = [n \in Nodes |-> 0]
    /\ heard = [n \in Nodes |-> {}]
    /\ msgs = {}
    /\ pkt = [p \in Packets |-> Place("fwd", From[p], MaxRadius)]
    /\ forgot = {}

-----------------------------------------------------------------------------
(* Next hop of a data packet: nwk_calc_destination(), zb_nwk_forward() *)

\* The route can be used.
Usable(r) == r.status \in {"active", "valid"}

\* zb_nwk_mesh_find_route_discovery_entry(): the discovery of d this node knows
\* of is its own one.  The first entry found decides.
OwnDiscovery(n, d) ==
    LET S == {i \in DSlots : disc[n][i].dest = d}
    IN  S # {} /\ disc[n][Min(S)].src = n

Transmit(p, n, next) ==
    /\ pkt' = [pkt EXCEPT ![p].at = "air", ![p].node = next]
    /\ UNCHANGED <<pend, bufreq>>

\* zb_nwk_mesh_add_buf_to_pending(): the packet takes the first free entry.  A
\* buffer for a route request is asked for, unless this node already discovers
\* the destination; the entry waits for one in either case.
AddPending(n, p) ==
    LET d == To[p]
        free == {i \in PSlots : pend[n][i] = EmptyPend}
        discovering == route[n][d].status = "underway" /\ OwnDiscovery(n, d)
    IN  IF free = {}
        THEN /\ pkt' = [pkt EXCEPT ![p].at = "dropped"]
             /\ UNCHANGED <<pend, bufreq>>
        ELSE /\ pkt' = [pkt EXCEPT ![p].at = "pend"]
             /\ pend' = [pend EXCEPT ![n][Min(free)] = [pkt |-> p, waiting |-> TRUE]]
             /\ bufreq' = IF discovering THEN bufreq ELSE [bufreq EXCEPT ![n] = @ + 1]

\* zb_nwk_forward() of a unicast packet: a neighbor gets it directly, a route
\* that can be used becomes active, otherwise a route is needed.
zb_nwk_forward_unicast(p) ==
    LET n == pkt[p].node
        d == To[p]
        r == route[n][d]
    IN  /\ pkt[p].at = "fwd"
        /\ \/ /\ d \in Neighbors(n)
              /\ Transmit(p, n, d)
              /\ UNCHANGED route
           \/ /\ d \notin Neighbors(n) /\ Usable(r)
              /\ Transmit(p, n, r.next)
              /\ route' = [route EXCEPT ![n][d].status = "active"]
           \/ /\ d \notin Neighbors(n) /\ ~Usable(r)
              /\ AddPending(n, p)
              /\ UNCHANGED route
        /\ UNCHANGED <<disc, dest_addr, rreq_id, heard, msgs, forgot>>

\* zb_mcps_data_indication(): the packet arrived, is forwarded, or has used up
\* its radius
DataIndication(p) ==
    LET n == pkt[p].node
        r == pkt[p].radius - 1
    IN  /\ pkt[p].at = "air"
        /\ pkt' = [pkt EXCEPT ![p] =
                     IF n = To[p] THEN Place("done", n, r)
                     ELSE IF r > 0 THEN Place("fwd", n, r)
                     ELSE Place("dropped", n, r)]
        /\ UNCHANGED <<route, disc, dest_addr, pend, bufreq, rreq_id, heard, msgs, forgot>>

-----------------------------------------------------------------------------
(* Route requests *)

\* NWK_CALC_PATH_COST() of the address in the network header; path_cost is a
\* byte, and the cost in the frame is added to it.
CostSize == 256
PathCost(n, src) ==
    IF src \in Neighbors(n) THEN LinkCost[{n, src}]
    ELSE IF src = n THEN 0 ELSE ZB_NWK_STATIC_PATH_COST

\* zb_nwk_mesh_send_rreq() and zb_nwk_mesh_send_rrep()
Rreq(n, src, id, d, cost) ==
    {[t |-> "rreq", from |-> n, to |-> m, src |-> src, id |-> id, dest |-> d,
      cost |-> cost] : m \in Neighbors(n)}
Rrep(n, to, src, id, d, cost) ==
    {[t |-> "rrep", from |-> n, to |-> to, src |-> src, id |-> id, dest |-> d,
      cost |-> cost]}

\* A cheaper path replaces the one the discovery table has.
Better_Always(cost, old) == TRUE
Better(cost, old) == cost < old

\* The next hop of a route: the MAC source of the reply.
NextHop_Responder(m) == m.dest
NextHop(m) == m.from

\* Answer for itself and for a neighbor, relay the others.
Answer(n, from, src, id, d, cost) ==
    IF d = n \/ d \in Neighbors(n) THEN Rrep(n, from, src, id, d, cost)
    ELSE Rreq(n, src, id, d, cost)

\* The entry of a request in the discovery table (there is at most one).
KnownDisc(n, id, src) == {i \in DSlots : disc[n][i].id = id /\ disc[n][i].src = src}

\* Free entries of the routing table; a new route takes the first one.
FreeRoutes(n) == RSlots \ {route[n][d].slot : d \in Dests}
NewRoute(n) == [status |-> "underway", next |-> 0, slot |-> Min(FreeRoutes(n))]

\* zb_nwk_mesh_rreq_handler() at node n.  "from" is the MAC source, n itself
\* for a discovery that starts here; "rest" are the other messages in flight.
\* Without memory both entries are freed, also a route that was there before.
RreqHandler(n, from, src, id, d, hdr_cost, rest) ==
    LET cost == (PathCost(n, src) + hdr_cost) % CostSize
        r == route[n][d]
        known == KnownDisc(n, id, src)
        free == {i \in DSlots : disc[n][i] = NoDisc}
        reply == Answer(n, from, src, id, d, cost)
        touched == IF r.status # "none" THEN route ELSE [route EXCEPT ![n][d] = NewRoute(n)]
        entry == [id |-> id, src |-> src, sender |-> from, dest |-> d,
                  fwd |-> cost, res |-> 255]
        nomem == (r.status = "none" /\ FreeRoutes(n) = {}) \/ (known = {} /\ free = {})
    IN  \/ /\ nomem
           /\ route' = [route EXCEPT ![n][d] = NoRoute]
           /\ msgs' = rest
           /\ UNCHANGED <<disc, dest_addr>>
        \/ /\ ~nomem /\ known # {} /\ Better(cost, disc[n][Min(known)].fwd)
           /\ route' = touched
           /\ disc' = [disc EXCEPT ![n][Min(known)].sender = from,
                                   ![n][Min(known)].fwd = cost]
           /\ msgs' = rest \cup reply
           /\ UNCHANGED dest_addr
        \/ /\ ~nomem /\ known # {} /\ ~Better(cost, disc[n][Min(known)].fwd)
           /\ route' = touched
           /\ msgs' = rest
           /\ UNCHANGED <<disc, dest_addr>>
        \/ /\ ~nomem /\ known = {}
           /\ route' = touched
           /\ disc' = [disc EXCEPT ![n][Min(free)] = entry]
           /\ dest_addr' = [dest_addr EXCEPT ![n][Min(free)] = d]
           /\ msgs' = rest \cup reply

\* zb_nwk_mesh_initiate_route_discovery(), called with the buffer it asked for:
\* the first pending packet that waits for a discovery
zb_nwk_mesh_initiate_route_discovery(n) ==
    LET W == {i \in PSlots : pend[n][i].waiting}
        i == Min(W)
        id == rreq_id[n] + 1
    IN  /\ bufreq[n] > 0
        /\ W # {}
        /\ rreq_id[n] < MaxId
        /\ bufreq' = [bufreq EXCEPT ![n] = @ - 1]
        /\ pend' = [pend EXCEPT ![n][i].waiting = FALSE]
        /\ rreq_id' = [rreq_id EXCEPT ![n] = id]
        /\ heard' = [heard EXCEPT ![n] = @ \cup {<<n, id>>}]
        /\ RreqHandler(n, n, n, id, To[pend[n][i].pkt], 0, msgs)
        /\ UNCHANGED <<pkt, forgot>>

\* No packet waits any more: the buffer is freed and ZB_ASSERT(0) is reached.
InitiateForNothing(n) ==
    /\ bufreq[n] > 0
    /\ \A i \in PSlots : ~pend[n][i].waiting
    /\ bufreq' = [bufreq EXCEPT ![n] = @ - 1]
    /\ UNCHANGED <<route, disc, dest_addr, pend, rreq_id, heard, msgs, pkt, forgot>>

\* A copy of a request that the broadcast transaction table knows is dropped.
RreqDuplicate(m) ==
    /\ m \in msgs /\ m.t = "rreq"
    /\ <<m.src, m.id>> \in heard[m.to]
    /\ msgs' = msgs \ {m}
    /\ UNCHANGED <<route, disc, dest_addr, pend, bufreq, rreq_id, heard, pkt, forgot>>

\* A route request reaches the handler: the first copy, or a copy that comes
\* after the entry of the broadcast transaction table has expired.  The radius
\* does not stop it: zb_mcps_data_indication() looks at it for data only.
RreqIndication(m) ==
    LET n == m.to
    IN  /\ m \in msgs /\ m.t = "rreq"
        /\ <<m.src, m.id>> \notin heard[n] \/ n \in LateNodes
        /\ heard' = [heard EXCEPT ![n] = @ \cup {<<m.src, m.id>>}]
        /\ RreqHandler(n, m.from, m.src, m.id, m.dest, m.cost, msgs \ {m})
        /\ UNCHANGED <<pend, bufreq, rreq_id, pkt, forgot>>

-----------------------------------------------------------------------------
(* Route replies *)

\* The pending table without the entries S.
Freed_Kept(n, S) == pend[n]
Freed(n, S) == [i \in PSlots |-> IF i \in S THEN EmptyPend ELSE pend[n][i]]

\* zb_nwk_mesh_rrep_handler(): a reply for which the request or the route is not
\* known frees the one that is; a reply no worse than the ones before gives the
\* next hop, and frees the pending packets or goes on to the sender of the
\* request.
zb_nwk_mesh_rrep_handler(m) ==
    LET n == m.to
        d == m.dest
        r == route[n][d]
        cost == (PathCost(n, m.from) + m.cost) % CostSize
        known == KnownDisc(n, m.id, m.src)
        k == Min(known)
        mine == {i \in PSlots : pend[n][i] # EmptyPend /\ To[pend[n][i].pkt] = d}
        ready == {pend[n][i].pkt : i \in mine}
    IN  /\ m \in msgs /\ m.t = "rrep"
        /\ \/ /\ known = {} \/ r.status = "none"
              /\ disc' = [disc EXCEPT ![n] =
                             [i \in DSlots |-> IF i \in known THEN NoDisc ELSE @[i]]]
              /\ route' = [route EXCEPT ![n][d] = NoRoute]
              /\ msgs' = msgs \ {m}
              /\ forgot' = IF known = {} THEN forgot ELSE forgot \cup {<<m.src, m.id>>}
              /\ UNCHANGED <<pend, pkt>>
           \/ /\ known # {} /\ r.status # "none" /\ cost > disc[n][k].res
              /\ msgs' = msgs \ {m}
              /\ UNCHANGED <<route, disc, pend, pkt, forgot>>
           \/ /\ known # {} /\ r.status # "none" /\ cost <= disc[n][k].res
              /\ disc' = [disc EXCEPT ![n][k].res = cost]
              /\ route' = [route EXCEPT ![n][d] =
                             [r EXCEPT !.status = IF @ = "underway" THEN "valid" ELSE @,
                                       !.next = NextHop(m)]]
              /\ IF m.src = n
                 THEN /\ pend' = [pend EXCEPT ![n] = Freed(n, mine)]
                      /\ pkt' = [p \in Packets |->
                                   IF p \in ready THEN [pkt[p] EXCEPT !.at = "fwd"] ELSE pkt[p]]
                      /\ msgs' = msgs \ {m}
                 ELSE /\ msgs' = (msgs \ {m}) \cup Rrep(n, disc[n][k].sender, m.src, m.id, d, cost)
                      /\ UNCHANGED <<pend, pkt>>
              /\ UNCHANGED forgot
        /\ UNCHANGED <<dest_addr, bufreq, rreq_id, heard>>

-----------------------------------------------------------------------------
(* Ageing *)

\* The route that goes with an expired discovery: the first one that is not
\* active and for which route_disc_table holds, at the place the route has in
\* routing_table, its destination.  The index in the condition is the one of
\* NWK_ARRAY_FIND_ENT(), not that of the expired entry.
Matching(n) ==
    {d \in Dests : /\ route[n][d].status \in {"underway", "valid"}
                   /\ dest_addr[n][route[n][d].slot] = d}
GivenUp(n) == {d \in Matching(n) : \A c \in Matching(n) : route[n][d].slot <= route[n][c].slot}

\* zb_nwk_mesh_expiry_route_disc(): an entry expires, and with it perhaps a
\* route.  The entry lives twice as long as copies of the request are on the
\* air, so the ones that have not arrived are lost.
ExpireDisc(n, i) ==
    LET e == disc[n][i]
    IN  /\ e # NoDisc
        /\ disc' = [disc EXCEPT ![n][i] = NoDisc]
        /\ \/ Matching(n) = {} /\ UNCHANGED route
           \/ \E d \in GivenUp(n) : route' = [route EXCEPT ![n][d] = NoRoute]
        /\ msgs' = {m \in msgs : m.t = "rreq" => <<m.src, m.id>> # <<e.src, e.id>>}
        /\ UNCHANGED <<dest_addr, pend, bufreq, rreq_id, heard, pkt, forgot>>

\* zb_nwk_mesh_expiry_pending(): the packet is freed
ExpirePending(n, i) ==
    /\ pend[n][i] # EmptyPend
    /\ pkt' = [pkt EXCEPT ![pend[n][i].pkt].at = "dropped"]
    /\ pend' = [pend EXCEPT ![n] = Freed(n, {i})]
    /\ UNCHANGED <<route, disc, dest_addr, bufreq, rreq_id, heard, msgs, forgot>>

MeshNext ==
    \/ \E p \in Packets : \/ zb_nwk_forward_unicast(p) \/ DataIndication(p)
    \/ \E n \in Nodes : \/ zb_nwk_mesh_initiate_route_discovery(n)
                        \/ InitiateForNothing(n)
                        \/ \E i \in DSlots : ExpireDisc(n, i)
                        \/ \E i \in PSlots : ExpirePending(n, i)
    \/ \E m \in msgs : RreqDuplicate(m) \/ RreqIndication(m) \/ zb_nwk_mesh_rrep_handler(m)

MeshSpec == MeshInit /\ [][MeshNext]_meshVars

-----------------------------------------------------------------------------
(* Properties *)

\* A route that can be used leads to a neighbor, and the states of routes and
\* packets are the ones zb_nwk.h knows.
MeshTypeOK ==
    /\ \A n \in Nodes, d \in Dests :
         /\ route[n][d].status \in {"none", "underway", "valid", "active"}
         /\ Usable(route[n][d]) => route[n][d].next \in Neighbors(n)
    /\ \A p \in Packets : pkt[p].at \in {"fwd", "pend", "air", "done", "dropped"}

\* A set of nodes without the originator would hand the reply m on for ever, each
\* to the sender of the request it noted.
GoesRound(m) ==
    \E C \in SUBSET (Nodes \ {m.src}) :
        /\ m.to \in C
        /\ \A n \in C : \E i \in KnownDisc(n, m.id, m.src) : disc[n][i].sender \in C

\* A reply on its way follows the senders of the request and cannot go round in
\* circles: it reaches the originator, or a node that has forgotten the request.
\* A node that gives its entry up because of a reply may enter the request again
\* with a worse path; this is said of requests to which that did not happen.
RepliesGetBack ==
    \A m \in msgs : m.t = "rrep" /\ <<m.src, m.id>> \notin forgot => ~GoesRound(m)

\* The same of every reply, as its handler supposes when it uses sender_addr.
RepliesAlwaysGetBack == \A m \in msgs : m.t = "rrep" => ~GoesRound(m)

\* A route that is not active has an entry in the discovery table for its
\* destination: only the age of a discovery ever frees the route ("free
\* corresponding route record if it's state is not active",
\* nwk_cr_mesh_routing.c:752).  It is broken with tables of two entries, because
\* zb_nwk_mesh_expiry_route_disc() compares the entry of the discovery table that
\* stands at the place of the route, not the one that expired.
UnderwayIsAged ==
    \A n \in Nodes, d \in Dests :
        route[n][d].status \in {"underway", "valid"}
          => \E i \in DSlots : disc[n][i].dest = d

\* A packet is in the pending table of the node that holds it, once, exactly
\* while it waits for a route: its buffer is neither sent and freed twice nor
\* lost.
PacketHeldOnce ==
    \A p \in Packets :
        Cardinality({ni \in Nodes \X PSlots : pend[ni[1]][ni[2]].pkt = p})
          = IF pkt[p].at = "pend" THEN 1 ELSE 0

\* A request has one entry in the discovery table of a node, so that its replies
\* are held against the cost and the sender of its best path.
OneEntry ==
    \A n \in Nodes, i, j \in DSlots :
        disc[n][i] # NoDisc /\ disc[n][j] # NoDisc
          /\ disc[n][i].id = disc[n][j].id /\ disc[n][i].src = disc[n][j].src => i = j

\* Whatever order requests, late copies, replies and expiries come in, packets
\* and requests are in the tables once.
HeldOnce == PacketHeldOnce /\ OneEntry

\* What the ZB_ASSERT(0) of zb_nwk_mesh_initiate_route_discovery() claims: when
\* the buffer for a route request comes, a packet still waits for it.
InitiateFindsPending ==
    \A n \in Nodes : bufreq[n] > 0 => \E i \in PSlots : pend[n][i].waiting
=============================================================================
