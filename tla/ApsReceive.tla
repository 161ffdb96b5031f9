----------------------------- MODULE ApsReceive -----------------------------
(***************************************************************************)
(* The receiving half of the APS sublayer: zb_nlde_data_indication() and   *)
(* the queue of packets that wait for an OUT buffer for their ACK          *)
(* (aps/aps_main.c), and the detection of duplicates (aps/aps_dups.c) with *)
(* the slots of the address table it keeps its memory in                   *)
(* (common/zb_address.c, short addresses only).                            *)
(*                                                                         *)
(* A peer numbers its packets and sends them in order; a copy of a packet  *)
(* may arrive again later.  ACK frames that arrive here are in ApsRetrans. *)
(* Time passes in units; alarms are due after DupCheckTimeout units.       *)
(* A peer is found by its short address as long as its slot is in use: for *)
(* the index this needs, see AddrMap.                                      *)
(***************************************************************************)
EXTENDS Integers, Sequences, FiniteSets

CONSTANTS
    Peers, NoAddr,     \* short addresses
    TableSize,         \* ZB_IEEE_ADDR_TABLE_SIZE
    AckQSize,          \* ZB_APS_RETRANS_ACK_Q_SIZE
    CounterSize,       \* values of the 8 bit APS counter
    OutBufs,           \* number of OUT buffers
    ZB_BUF_Q_SIZE,     \* requests that can wait for a buffer, IN and OUT together
    DupCheckTimeout,   \* ZB_APS_DUP_CHECK_TIMEOUT, in time units
    DupWindow,         \* units in which a duplicate is to be detected
    MaxPkts,           \* bound: packets of each peer
    MaxRepeats,        \* bound: arrivals of packets that had arrived before
    Outstanding,       \* packets a peer may still repeat
    Leaves             \* bound: devices that leave the network

ASSUME ReceiveAssumption ==
    /\ TableSize \in Nat \ {0} /\ AckQSize \in Nat \ {0}
    /\ CounterSize \in Nat \ {0} /\ MaxPkts \in [Peers -> 1 .. CounterSize]
    /\ OutBufs \in Nat \ {0} /\ ZB_BUF_Q_SIZE \in Nat
    /\ DupCheckTimeout \in Nat \ {0} /\ DupWindow \in Nat
    /\ MaxRepeats \in Nat /\ Outstanding \in Nat \ {0} /\ Leaves \in Nat
    /\ NoAddr \notin Peers

VARIABLES
    addr_map,            \* addr_map[]: used, addr and the memory of the dup check
    dups_alarm_running,  \* aps.dups_alarm_running
    alarms,              \* scheduled zb_aps_check_timer_cb: units left of each
    ack_q,               \* aps.retrans.ack_q: packets that wait for an OUT buffer
    out_free,            \* free OUT buffers
    out_queue,           \* sched.outbuf_queue: requests for an ACK, and others
    in_waiting,          \* requests in sched.inbuf_queue
    out_granted,         \* zb_aps_send_ack_and_continue scheduled with a buffer
    out_others,          \* OUT buffers in use elsewhere
    acks,                \* ACK frames the network layer has, each in an OUT buffer
    sent,                \* packets each peer has sent
    copies, repeats,     \* arrivals of each packet; arrivals that were repeats
    queued, acked,       \* arrivals put into ack_q, ACK frames made
    refused,             \* packets put into ack_q whose request found no place
    got, up, bad,        \* copies parsed; passed up; failing APS security
    last, age,           \* last packet parsed of a peer, and the time since
    left                 \* devices that left

vars == <<addr_map, dups_alarm_running, alarms, ack_q, out_free, out_queue,
          in_waiting, out_granted, out_others, refused, acks, sent, copies, repeats, queued, acked, got, up,
          bad, last, age, left>>
bufVars == <<out_free, out_queue, in_waiting, out_granted, out_others, refused>>
netVars == <<sent, copies, repeats, left>>
dupVars == <<addr_map, dups_alarm_running, alarms>>

Slots == 0 .. TableSize - 1
Pkts  == {p \in Peers \X (1 .. CounterSize) : p[2] <= MaxPkts[p[1]]}
Counter(p) == (p[2] - 1) % CounterSize
MaxAge == DupWindow + 1

Init ==
    /\ addr_map = [s \in Slots |-> [used |-> FALSE, addr |-> NoAddr,
                                    aps_dup_counter |-> 0, aps_dup_clock |-> 0]]
    /\ dups_alarm_running = FALSE
    /\ alarms = <<>>
    /\ ack_q = <<>>
    /\ out_free = OutBufs /\ out_queue = <<>> /\ in_waiting = 0
    /\ out_granted = 0 /\ out_others = 0 /\ refused = 0
    /\ acks = <<>>
    /\ sent = [a \in Peers |-> 0]
    /\ copies = [p \in Pkts |-> 0] /\ repeats = 0
    /\ queued = [p \in Pkts |-> 0] /\ acked = [p \in Pkts |-> 0]
    /\ got = [p \in Pkts |-> 0] /\ up = [p \in Pkts |-> 0] /\ bad = [p \in Pkts |-> 0]
    /\ last = [a \in Peers |-> 0] /\ age = [a \in Peers |-> 0]
    /\ left = 0

-----------------------------------------------------------------------------
\* sched.buf_freelist: IN and OUT requests wait in entries of the same list.
RoomToWait == Len(out_queue) + in_waiting < ZB_BUF_Q_SIZE

\* zb_get_out_buf_delayed(zb_aps_send_ack_and_continue): without a buffer the
\* request waits, without an entry to wait in it fails, which nobody notices.
GetOutBufDelayed ==
    \/ /\ out_free > 0
       /\ out_free' = out_free - 1
       /\ out_granted' = out_granted + 1
       /\ UNCHANGED <<out_queue, refused>>
    \/ /\ out_free = 0 /\ RoomToWait
       /\ out_queue' = Append(out_queue, "ack")
       /\ UNCHANGED <<out_free, out_granted, refused>>
    \/ /\ out_free = 0 /\ ~RoomToWait
       /\ refused' = refused + 1
       /\ UNCHANGED <<out_free, out_queue, out_granted>>

\* zb_free_buf() of an OUT buffer serves the first request that waits; others
\* is what the rest of the stack holds apart from that.
FreeOutBuf_NoWake(others) ==
    /\ out_free' = out_free + 1
    /\ out_others' = others
    /\ UNCHANGED <<out_queue, out_granted>>
FreeOutBuf(others) ==
    \/ /\ out_queue = <<>>
       /\ out_free' = out_free + 1
       /\ out_others' = others
       /\ UNCHANGED <<out_queue, out_granted>>
    \/ /\ out_queue # <<>>
       /\ out_queue' = Tail(out_queue)
       /\ \/ /\ Head(out_queue) = "ack"
             /\ out_granted' = out_granted + 1
             /\ out_others' = others
          \/ /\ Head(out_queue) = "other"
             /\ out_others' = others + 1
             /\ UNCHANGED out_granted
       /\ UNCHANGED out_free

\* !ZB_RING_BUFFER_IS_FULL(&ack_q)
RoomInAckQ_OffByOne == Len(ack_q) <= AckQSize
RoomInAckQ == Len(ack_q) < AckQSize

SlotsOf(a) == {s \in Slots : addr_map[s].used /\ addr_map[s].addr = a}
FreeSlots  == {s \in Slots : ~addr_map[s].used}
First(S)   == CHOOSE s \in S : \A r \in S : s <= r

\* The slot that zb_address_by_short(a, create) gives, TableSize if the table
\* is full.
SlotFor(a) ==
    IF SlotsOf(a) # {} THEN First(SlotsOf(a))
    ELSE IF FreeSlots # {} THEN First(FreeSlots) ELSE TableSize

\* A packet is a duplicate if the last one of this slot had its counter and
\* the slot's clock still runs.  A new slot keeps what it remembered before.
IsDup(s, c) == s \in Slots /\ addr_map[s].aps_dup_clock # 0 /\ addr_map[s].aps_dup_counter = c

\* aps_dup_clock of a slot that has just been used.
DupClock_Short == 1
DupClock == 3

\* aps_check_dups(): remembers the counter and starts the alarm.
aps_check_dups(a, c) ==
    LET s == SlotFor(a) IN
    IF s \in Slots
    THEN /\ addr_map' = [addr_map EXCEPT ![s] = [used |-> TRUE, addr |-> a,
                                                 aps_dup_counter |-> c,
                                                 aps_dup_clock |-> DupClock]]
         /\ dups_alarm_running' = TRUE
         /\ alarms' = IF dups_alarm_running THEN alarms ELSE Append(alarms, DupCheckTimeout)
    ELSE UNCHANGED dupVars

\* The rest of zb_nlde_data_indication_continue(): a duplicate, or a packet
\* that fails APS security, is freed, everything else goes up.
PassUpOrFree(p, secure) ==
    LET fresh == ~IsDup(SlotFor(p[1]), Counter(p)) IN
    /\ aps_check_dups(p[1], Counter(p))
    /\ up'  = IF fresh /\ secure THEN [up EXCEPT ![p] = @ + 1] ELSE up
    /\ bad' = IF fresh /\ ~secure THEN [bad EXCEPT ![p] = @ + 1] ELSE bad
    /\ got' = [got EXCEPT ![p] = @ + 1]
    /\ last' = [last EXCEPT ![p[1]] = p[2]]
    /\ age' = [age EXCEPT ![p[1]] = 0]

\* zb_nlde_data_indication(): a packet that asks for an ACK waits for an OUT
\* buffer if the queue has room; without room it goes on without an ACK.
zb_nlde_data_indication(p, ack_request, secure) ==
    /\ copies[p] = 0 \/ repeats < MaxRepeats
    /\ \/ p[2] = sent[p[1]] + 1
       \/ p[2] \in (sent[p[1]] - Outstanding + 1) .. sent[p[1]]
    /\ sent' = [sent EXCEPT ![p[1]] = IF p[2] > @ THEN p[2] ELSE @]
    /\ copies' = [copies EXCEPT ![p] = @ + 1]
    /\ repeats' = repeats + (IF copies[p] = 0 THEN 0 ELSE 1)
    /\ \/ /\ ack_request
          /\ RoomInAckQ
          /\ ack_q' = Append(ack_q, p)
          /\ queued' = [queued EXCEPT ![p] = @ + 1]
          /\ GetOutBufDelayed
          /\ UNCHANGED <<dupVars, got, up, bad, last, age>>
       \/ /\ ~ack_request \/ ~RoomInAckQ
          /\ PassUpOrFree(p, secure)
          /\ UNCHANGED <<ack_q, queued, out_free, out_queue, out_granted, refused>>
    /\ UNCHANGED <<in_waiting, out_others, acks, acked, left>>

\* zb_aps_send_ack_and_continue(), with an OUT buffer: the first packet of the
\* queue is acknowledged, be it a duplicate or not, and processed.
zb_aps_send_ack_and_continue_NoGet(secure) ==
    /\ out_granted > 0
    /\ out_granted' = out_granted - 1
    /\ acks' = Append(acks, Head(ack_q))
    /\ acked' = [acked EXCEPT ![Head(ack_q)] = @ + 1]
    /\ PassUpOrFree(Head(ack_q), secure)
    /\ UNCHANGED <<out_free, out_queue, in_waiting, out_others, refused, netVars,
                   queued, ack_q>>
zb_aps_send_ack_and_continue(secure) ==
    /\ out_granted > 0
    /\ out_granted' = out_granted - 1
    /\ ack_q' = Tail(ack_q)
    /\ acks' = Append(acks, Head(ack_q))
    /\ acked' = [acked EXCEPT ![Head(ack_q)] = @ + 1]
    /\ PassUpOrFree(Head(ack_q), secure)
    /\ UNCHANGED <<out_free, out_queue, in_waiting, out_others, refused, netVars,
                   queued>>

\* zb_nlde_data_confirm() of an ACK frame frees its buffer.
AckConfirmed ==
    /\ acks # <<>>
    /\ acks' = Tail(acks)
    /\ FreeOutBuf(out_others)
    /\ UNCHANGED <<dupVars, ack_q, in_waiting, refused, netVars, queued, acked, got, up,
                   bad, last, age>>

\* Other parts of the stack take, wait for and free OUT buffers.
OthersGet ==
    /\ out_free > 0
    /\ out_free' = out_free - 1
    /\ out_others' = out_others + 1
    /\ UNCHANGED <<dupVars, ack_q, out_queue, in_waiting, out_granted, refused, acks,
                   netVars, queued, acked, got, up, bad, last, age>>
OthersWait ==
    /\ out_free = 0 /\ RoomToWait
    /\ out_queue' = Append(out_queue, "other")
    /\ UNCHANGED <<dupVars, ack_q, out_free, in_waiting, out_granted, out_others, refused,
                   acks, netVars, queued, acked, got, up, bad, last, age>>
OthersFree ==
    /\ out_others > 0
    /\ FreeOutBuf(out_others - 1)
    /\ UNCHANGED <<dupVars, ack_q, in_waiting, refused, acks, netVars, queued, acked, got,
                   up, bad, last, age>>

\* Requests for IN buffers take an entry of the same list, and give it back.
InWaits ==
    /\ \/ RoomToWait /\ in_waiting' = in_waiting + 1
       \/ in_waiting > 0 /\ in_waiting' = in_waiting - 1
    /\ UNCHANGED <<dupVars, ack_q, out_free, out_queue, out_granted, out_others, refused,
                   acks, netVars, queued, acked, got, up, bad, last, age>>

\* The timer goes on while some clock does.
AlarmGoesOn_Once(map) == FALSE
AlarmGoesOn(map) == \E s \in Slots : map[s].used /\ map[s].aps_dup_clock # 0

\* zb_aps_check_timer_cb(): the clocks of used slots tick.
zb_aps_check_timer_cb ==
    /\ alarms # <<>> /\ Head(alarms) = 0
    /\ addr_map' = [s \in Slots |->
                      IF addr_map[s].used /\ addr_map[s].aps_dup_clock # 0
                      THEN [addr_map[s] EXCEPT !.aps_dup_clock = @ - 1] ELSE addr_map[s]]
    /\ dups_alarm_running' = AlarmGoesOn(addr_map')
    /\ alarms' = IF dups_alarm_running' THEN Append(Tail(alarms), DupCheckTimeout) ELSE Tail(alarms)
    /\ UNCHANGED <<ack_q, bufVars, acks, netVars, queued, acked, got, up, bad, last, age>>

\* A device leaves: zb_address_delete() marks its slot as free and leaves the
\* rest of it alone.
zb_address_delete(s) ==
    /\ addr_map[s].used
    /\ left < Leaves
    /\ left' = left + 1
    /\ addr_map' = [addr_map EXCEPT ![s].used = FALSE]
    /\ UNCHANGED <<dups_alarm_running, alarms, ack_q, bufVars, acks, sent, copies, repeats,
                   queued, acked, got, up, bad, last, age>>

\* Time passes only when no callback and no alarm is due.
TimePasses ==
    /\ out_granted = 0
    /\ \A k \in DOMAIN alarms : alarms[k] > 0
    /\ alarms' = [k \in DOMAIN alarms |-> alarms[k] - 1]
    /\ age' = [a \in Peers |-> IF age[a] < MaxAge THEN age[a] + 1 ELSE age[a]]
    /\ UNCHANGED <<addr_map, dups_alarm_running, ack_q, bufVars, acks, netVars, queued,
                   acked, got, up, bad, last>>

Next ==
    \/ \E p \in Pkts, ack_request, secure \in BOOLEAN :
            zb_nlde_data_indication(p, ack_request, secure)
    \/ \E secure \in BOOLEAN : zb_aps_send_ack_and_continue(secure)
    \/ AckConfirmed
    \/ OthersGet
    \/ OthersWait
    \/ OthersFree
    \/ InWaits
    \/ zb_aps_check_timer_cb
    \/ \E s \in Slots : zb_address_delete(s)
    \/ TimePasses

Spec == Init /\ [][Next]_vars

\* The scheduler runs the callbacks; every OUT buffer is freed at some time.
FairSpec ==
    /\ Spec
    /\ WF_vars(\E secure \in BOOLEAN : zb_aps_send_ack_and_continue(secure))
    /\ WF_vars(AckConfirmed)
    /\ WF_vars(OthersFree)

-----------------------------------------------------------------------------
(* Properties.                                                              *)

TypeOK ==
    /\ addr_map \in [Slots -> [used : BOOLEAN, addr : Peers \cup {NoAddr},
                               aps_dup_counter : 0 .. CounterSize - 1, aps_dup_clock : 0 .. 3]]
    /\ dups_alarm_running \in BOOLEAN
    /\ alarms \in Seq(0 .. DupCheckTimeout)
    /\ ack_q \in Seq(Pkts) /\ Len(ack_q) <= AckQSize
    /\ {out_free, in_waiting, out_granted, out_others, refused} \subseteq Nat
    /\ out_queue \in Seq({"ack", "other"})
    /\ Len(out_queue) + in_waiting <= ZB_BUF_Q_SIZE
    /\ acks \in Seq(Pkts)
    /\ sent \in [Peers -> 0 .. CounterSize]
    /\ copies \in [Pkts -> 0 .. MaxRepeats + 1] /\ repeats \in 0 .. MaxRepeats
    /\ {queued, acked, got, up, bad} \subseteq [Pkts -> 0 .. MaxRepeats + 1]
    /\ last \in [Peers -> 0 .. CounterSize] /\ age \in [Peers -> 0 .. MaxAge]
    /\ left \in 0 .. Leaves

\* How many of the requests that wait for an OUT buffer are for an ACK.
out_waiting == Cardinality({k \in 1 .. Len(out_queue) : out_queue[k] = "ack"})

\* Every packet in ack_q has exactly one request for an OUT buffer, waiting or
\* scheduled, or its request was refused: zb_aps_send_ack_and_continue() takes
\* the head of ack_q without looking whether there is one, and always finds
\* one.  No OUT buffer gets lost on the way.
OneBufferPerPacket ==
    /\ Len(ack_q) = out_waiting + out_granted + refused
    /\ out_free + out_granted + out_others + Len(acks) = OutBufs
    /\ out_queue # <<>> => out_free = 0

\* The same without refused requests.  It is broken when the list of requests
\* that wait is full: zb_nlde_data_indication() does not look at the result of
\* zb_get_out_buf_delayed() (aps_main.c:607), and one packet too many stays in
\* ack_q from then on.
RequestPerPacket == Len(ack_q) = out_waiting + out_granted

\* The clock of every used slot that remembers a packet is running, with
\* exactly one alarm: else the slot would reject a packet with this counter
\* whenever it comes.
EveryClockTicks ==
    /\ Len(alarms) = IF dups_alarm_running THEN 1 ELSE 0
    /\ \A s \in Slots :
          addr_map[s].used /\ addr_map[s].aps_dup_clock # 0 => dups_alarm_running

\* A copy of a packet is passed up a second time only if another packet of its
\* sender was received in between or if more than DupWindow has passed.
DupRejected ==
    [][\A p \in Pkts :
          up'[p] > up[p] /\ got[p] > 0 =>
              last[p[1]] # p[2] \/ age[p[1]] > DupWindow]_vars

\* A packet that was received, and perhaps acknowledged, was passed up or
\* failed its security check: the detection of duplicates drops no packet
\* that is the first of its kind.
NoFreshRejected == \A p \in Pkts : got[p] > 0 => up[p] + bad[p] > 0

\* What aps_check_dups() remembers of a peer is forgotten in time, and never
\* turns away a packet that was not received before.
DupMemorySound == EveryClockTicks /\ NoFreshRejected

\* As long as no request was refused, every packet put into ack_q is
\* acknowledged, however scarce OUT buffers are and whoever waits before it.
EveryQueuedAcked ==
    \A p \in Pkts : \A k \in 1 .. MaxRepeats + 1 :
        queued[p] >= k ~> acked[p] >= k \/ refused > 0

=============================================================================
