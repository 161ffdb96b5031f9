---------------------------- MODULE NwkBroadcast ----------------------------
(***************************************************************************)
(* Broadcasts in the network layer of a router (nwk/nwk_main.c): the table *)
(* of recent broadcasts (btt) that stops a frame from being handled twice, *)
(* the retransmission table (brrt) with its passive ACKs, the unicasts to  *)
(* end device children, the buffers that wait to be duplicated             *)
(* (wait_alloc), and the confirms.                                         *)
(*                                                                         *)
(* A callback that is scheduled with a buffer is the place "at" of that    *)
(* buffer; the order of the callback ring is left open.  Buffers come from *)
(* the two halves of the pool, which BufPool shows to be independent.      *)
(* Time is left open: an alarm fires at any moment after it was set, and   *)
(* the entries whose next_retransmit has come are chosen at every call.    *)
(***************************************************************************)
EXTENDS Integers, Sequences, FiniteSets, FiniteSetsExt

CONSTANTS
    OutBufs, InBufs,       \* the buffers of the two halves of the pool
    Nbrs,                  \* base_neighbor[]: indices 1 .. n
    Routers,               \* the neighbors that are routers or the coordinator
    RxOn,                  \* the neighbors with rx_on_when_idle
    Frames,                \* broadcast frames, each with its own sequence number
    Own,                   \* the frames this device originates
    SrcOf,                 \* neighbor that originated a frame, 0 if none of them
    DstOf,                 \* "all", "rxon" or "routers"
    ZB_NWK_BTR_TABLE_SIZE, ZB_NWK_BRR_TABLE_SIZE, ZB_NWK_WAIT_ALLOC_TABLE_SIZE,
    ZB_NWK_MAX_BROADCAST_RETRIES,
    DeliveryTime,          \* ZB_NWK_BROADCAST_DELIVERY_TIME(), in runs of the expiry
    AckBits,               \* bits of the passive_ack array
    MaxReceive,            \* bound: frames received
    NoFrame

\* The tables have room for one entry and a frame goes to at least one retry.
ASSUME BroadcastAssumption ==
    /\ OutBufs \cap InBufs = {} /\ 0 \notin OutBufs \cup InBufs
    /\ IsFiniteSet(OutBufs) /\ IsFiniteSet(InBufs)
    /\ Nbrs \subseteq Nat \ {0} /\ Routers \subseteq Nbrs /\ RxOn \subseteq Nbrs
    /\ Own \subseteq Frames /\ NoFrame \notin Frames
    /\ SrcOf \in [Frames -> Nbrs \cup {0}]
    /\ DstOf \in [Frames -> {"all", "rxon", "routers"}]
    /\ {ZB_NWK_BTR_TABLE_SIZE, ZB_NWK_BRR_TABLE_SIZE, ZB_NWK_WAIT_ALLOC_TABLE_SIZE,
        ZB_NWK_MAX_BROADCAST_RETRIES} \subseteq Nat \ {0}
    /\ {DeliveryTime, AckBits, MaxReceive} \subseteq Nat

VARIABLES
    buf,            \* where every buffer is, its frame and its msdu handle
    brrt, brrt_cnt, \* broadcast retransmission table
    btt, btt_cnt,   \* broadcast transaction table
    wait_alloc,     \* buffers to be duplicated, last one on top
    out_req,        \* nwk_broadcast_transmition() waiting for an OUT buffer
    dup_req,        \* new_buffer_allocated() waiting for an IN buffer
    stat_req,       \* call_status_indication() waiting for an IN buffer
    again,          \* nwk_broadcast_transmition(0) in the callback ring
    tx_alarm,       \* its alarm is set
    btr_alarm,      \* the alarm of zb_nwk_btr_expiry() is set
    joined,         \* ZG->nwk.handle.joined
    asked, confirmed, \* history: requests and confirms of own frames
    expired, indicated, \* history: btt entries that ended, indications
    received        \* history: frames received

vars == <<buf, brrt, brrt_cnt, btt, btt_cnt, wait_alloc, out_req, dup_req,
          stat_req, again, tx_alarm, btr_alarm, joined, asked, confirmed,
          expired, indicated, received>>

Bufs   == OutBufs \cup InBufs
Slots  == 1 .. ZB_NWK_BRR_TABLE_SIZE
BSlots == 1 .. ZB_NWK_BTR_TABLE_SIZE
Byte   == 0 .. 255
Places == {"free", "fwd", "brrt", "xmit", "mac", "brconf", "wait",
           "newbuf", "statbuf", "ind", "lost"}

Free == [at |-> "free", frame |-> NoFrame, handle |-> "none"]
At(place, f, h) == [at |-> place, frame |-> f, handle |-> h]

\* The buffers of a half are interchangeable: the first free one is taken.
FirstFree(half, b) ==
    b \in half /\ buf[b].at = "free" /\ \A c \in half : c < b => buf[c].at # "free"

Init ==
    /\ buf = [b \in Bufs |-> Free]
    /\ brrt = [i \in Slots |-> [used |-> FALSE, buf |-> 0, frame |-> NoFrame,
                                retries |-> 0, iter |-> 0, ack |-> {}]]
    /\ btt = [i \in BSlots |-> [used |-> FALSE, frame |-> NoFrame, exp |-> 0]]
    /\ brrt_cnt = 0 /\ btt_cnt = 0
    /\ wait_alloc = <<>>
    /\ out_req = 0 /\ dup_req = 0 /\ stat_req = 0 /\ again = 0
    /\ tx_alarm = FALSE /\ btr_alarm = FALSE /\ joined = TRUE
    /\ asked = {} /\ received = 0
    /\ confirmed = [f \in Frames |-> 0]
    /\ expired = [f \in Frames |-> 0]
    /\ indicated = [f \in Frames |-> 0]

-----------------------------------------------------------------------------
(* Broadcast transaction table *)

\* NWK_ARRAY_FIND_ENT(btt, ...): the frame was handled already
Known(f) == \E i \in BSlots : btt[i].used /\ btt[i].frame = f

\* A frame that is not in the table takes the first free entry
\* (NWK_ARRAY_GET_ENT) and starts the expiry if it is the only one.
AddBtt(f) ==
    LET i == Min({j \in BSlots : ~btt[j].used})
    IN  /\ \E j \in BSlots : ~btt[j].used
        /\ btt' = [btt EXCEPT ![i] = [used |-> TRUE, frame |-> f, exp |-> DeliveryTime]]
        /\ btt_cnt' = (btt_cnt + 1) % 256
        /\ btr_alarm' = (btr_alarm \/ btt_cnt' = 1)

BttFull == \A i \in BSlots : btt[i].used

KeepBtt == UNCHANGED <<btt, btt_cnt, btr_alarm>>

\* zb_nwk_btr_expiry(): once a second, as long as there are entries
zb_nwk_btr_expiry ==
    LET gone == {i \in BSlots : btt[i].used /\ btt[i].exp = 0}
    IN  /\ btr_alarm
        /\ btr_alarm' = (btt_cnt # 0)
        /\ IF btt_cnt = 0 THEN UNCHANGED <<btt, btt_cnt, expired>>
           ELSE /\ btt' = [i \in BSlots |->
                             IF i \in gone THEN [btt[i] EXCEPT !.used = FALSE, !.frame = NoFrame]
                             ELSE IF btt[i].used THEN [btt[i] EXCEPT !.exp = @ - 1]
                             ELSE btt[i]]
                /\ btt_cnt' = (btt_cnt - Cardinality(gone)) % 256
                /\ expired' = [f \in Frames |->
                     expired[f] + Cardinality({i \in gone : btt[i].frame = f})]
        /\ UNCHANGED <<buf, brrt, brrt_cnt, wait_alloc, out_req, dup_req, stat_req,
                       again, tx_alarm, joined, asked, confirmed, indicated,
                       received>>

-----------------------------------------------------------------------------
(* Broadcast retransmission table *)

\* zb_nwk_neighbor_next_ze_children_i(): the next end device child the
\* frame is unicast to, from index n on; 0 stands for ~0
NextChild(f, n) ==
    LET ok == {c \in Nbrs \ Routers : c >= n /\ \/ DstOf[f] = "all"
                                                \/ DstOf[f] = "rxon" /\ c \in RxOn}
    IN  IF ok = {} THEN 0 ELSE Min(ok)

\* ZB_SET_BIT_IN_BIT_VECTOR(passive_ack, n): a bit behind the array is not counted
SetAck(e, n) == [e EXCEPT !.ack = @ \cup ({n} \cap 1 .. AckBits)]

\* The passive ACKs make up for the retransmissions that are left:
\* as many as there are routers, less one for a frame of another device
Acked(e) ==
    Cardinality(e.ack) = Cardinality(Routers) - (IF e.frame \in Own THEN 0 ELSE 1)

\* NWK_ARRAY_PUT_ENT(): the entry keeps what it holds
Released(e) == [e EXCEPT !.used = FALSE, !.buf = 0]

Last_AcksOnly(e) == e.iter = 0 /\ Acked(e)
\* last packet retransmission?
Last(e) ==
    /\ e.iter = 0
    /\ e.retries >= ZB_NWK_MAX_BROADCAST_RETRIES \/ Acked(e)

\* The first entry to transmit: a new one, one with a child left, or one whose
\* next_retransmit has come, if there is one (0: none).
\* An entry whose next child is the originator only moves to the next child.
New  == {i \in Slots : brrt[i].used /\ brrt[i].retries = 0}
Child == {i \in Slots : brrt[i].used /\ brrt[i].iter # 0}
Skip == {i \in Child : brrt[i].iter = SrcOf[brrt[i].frame]}
Candidates ==
    IF New # {} THEN {Min(New)}
    ELSE IF Child \ Skip # {} THEN {Min(Child \ Skip)}
    ELSE {i \in Slots : brrt[i].used} \cup {0}
IsUnicast == New = {} /\ Child \ Skip # {}

\* The loop over the entries steps over the originators it meets first.
SkipOriginators ==
    [j \in Slots |->
        IF New = {} /\ j \in Skip /\ \A k \in Child \ Skip : j < k
        THEN [brrt[j] EXCEPT !.iter = NextChild(brrt[j].frame, brrt[j].iter + 1)]
        ELSE brrt[j]]

\* The entry after the transmission it was chosen for
Advance(e) ==
    IF IsUnicast
    THEN [SetAck(e, e.iter) EXCEPT !.iter = NextChild(e.frame, e.iter + 1)]
    ELSE [e EXCEPT !.retries = @ + 1]

TransmitNoBuf_NoAlarm(i, alarm) ==
    /\ brrt' = SkipOriginators
    /\ out_req' = out_req + (IF i # 0 THEN 1 ELSE 0)
    /\ tx_alarm' = alarm
    /\ UNCHANGED <<buf, brrt_cnt, btt, btt_cnt, wait_alloc, dup_req, stat_req,
                   btr_alarm, joined, asked, confirmed, expired, indicated, received>>
\* nwk_broadcast_transmition(0), with its alarm set or not: ask for a buffer if
\* an entry needs one, else wait for the first entry that will
TransmitNoBuf(i, alarm) ==
    /\ brrt' = SkipOriginators
    /\ IF i # 0
       THEN out_req' = out_req + 1 /\ tx_alarm' = alarm
       ELSE tx_alarm' = (alarm \/ brrt_cnt # 0) /\ UNCHANGED out_req
    /\ UNCHANGED <<buf, brrt_cnt, btt, btt_cnt, wait_alloc, dup_req, stat_req,
                   btr_alarm, joined, asked, confirmed, expired, indicated, received>>

\* It is called from the callback ring and from the alarm.
TransmitAgain ==
    /\ again > 0
    /\ again' = again - 1
    /\ \E i \in Candidates : TransmitNoBuf(i, tx_alarm)
TransmitAlarm ==
    /\ tx_alarm
    /\ \E i \in Candidates : TransmitNoBuf(i, FALSE)
    /\ UNCHANGED again

\* The copy that is sent before the last transmission is not confirmed.
Copy_KeepHandle(e) == At("mac", e.frame, buf[e.buf].handle)
Copy(e) == At("mac", e.frame, "internal")

\* nwk_broadcast_transmition(b) with the buffer it asked for: a copy goes to
\* the MAC with the internal handle, or the original with the handle of its
\* owner when it is the last transmission
TransmitBuf(b, i) ==
    LET e == Advance(SkipOriginators[i])
    IN  /\ buf[b].at = "xmit"
        /\ i \in Candidates
        /\ IF i = 0
           THEN /\ buf' = [buf EXCEPT ![b] = Free]
                /\ brrt' = SkipOriginators
                /\ tx_alarm' = (tx_alarm \/ brrt_cnt # 0)
                /\ UNCHANGED <<brrt_cnt, again>>
           ELSE /\ IF Last(e)
                   THEN /\ buf' = [buf EXCEPT ![b] = Free, ![e.buf].at = "mac"]
                        /\ brrt' = [SkipOriginators EXCEPT ![i] = Released(e)]
                        /\ brrt_cnt' = (brrt_cnt - 1) % 256
                   ELSE /\ buf' = [buf EXCEPT ![b] = Copy(e)]
                        /\ brrt' = [SkipOriginators EXCEPT ![i] = e]
                        /\ UNCHANGED brrt_cnt
                /\ again' = again + (IF brrt_cnt' # 0 THEN 1 ELSE 0)
                /\ UNCHANGED tx_alarm
        /\ UNCHANGED <<btt, btt_cnt, wait_alloc, out_req, dup_req, stat_req, btr_alarm,
                       joined, asked, confirmed, expired, indicated, received>>

-----------------------------------------------------------------------------
(* Requests *)

\* zb_nlde_data_request() with a broadcast destination
zb_nlde_data_request(b, f) ==
    /\ joined
    /\ f \in Own \ asked
    /\ FirstFree(OutBufs, b)
    /\ asked' = asked \cup {f}
    /\ buf' = [buf EXCEPT ![b] = At("fwd", f, "own")]
    /\ UNCHANGED <<brrt, brrt_cnt, btt, btt_cnt, wait_alloc, out_req, dup_req, stat_req,
                   again, tx_alarm, btr_alarm, joined, confirmed, expired, indicated,
                   received>>

\* zb_nwk_forward() of a broadcast: it takes its btt entry if it has none yet
\* and an entry of brrt; without one of them the packet is dropped
zb_nwk_forward(b) ==
    LET f == buf[b].frame
        i == Min({j \in Slots : ~brrt[j].used})
        room == brrt_cnt < ZB_NWK_BRR_TABLE_SIZE
    IN  /\ buf[b].at = "fwd"
        /\ \/ Known(f) /\ KeepBtt
           \/ ~Known(f) /\ AddBtt(f)
           \/ ~Known(f) /\ BttFull /\ KeepBtt
        /\ IF room /\ (Known(f) \/ ~BttFull)
           THEN /\ buf' = [buf EXCEPT ![b].at = "brrt"]
                /\ brrt' = [brrt EXCEPT ![i] =
                              [used |-> TRUE, buf |-> b, frame |-> f, retries |-> 0,
                               iter |-> NextChild(f, 0), ack |-> {}]]
                /\ brrt_cnt' = (brrt_cnt + 1) % 256
                /\ tx_alarm' = FALSE
                /\ out_req' = out_req + 1
           ELSE /\ buf' = [buf EXCEPT ![b] = Free]
                /\ UNCHANGED <<brrt, brrt_cnt, tx_alarm, out_req>>
        /\ UNCHANGED <<wait_alloc, dup_req, stat_req, again, joined, asked, confirmed, expired,
                       indicated, received>>

-----------------------------------------------------------------------------
(* Buffers that were asked for *)

\* The scheduler hands a free buffer to a request that waits for one.
Grant(b, place) ==
    /\ buf' = [buf EXCEPT ![b].at = place]
    /\ UNCHANGED <<brrt, brrt_cnt, btt, btt_cnt, wait_alloc, again, tx_alarm, btr_alarm,
                   joined, asked, confirmed, expired, indicated, received>>

GrantOut(b) ==
    /\ FirstFree(OutBufs, b) /\ out_req > 0
    /\ out_req' = out_req - 1
    /\ Grant(b, "xmit")
    /\ UNCHANGED <<dup_req, stat_req>>
GrantDup(b) ==
    /\ FirstFree(InBufs, b) /\ dup_req > 0
    /\ dup_req' = dup_req - 1
    /\ Grant(b, "newbuf")
    /\ UNCHANGED <<out_req, stat_req>>
GrantStat(b) ==
    /\ FirstFree(InBufs, b) /\ stat_req > 0
    /\ stat_req' = stat_req - 1
    /\ Grant(b, "statbuf")
    /\ UNCHANGED <<out_req, dup_req>>

\* new_buffer_allocated(): the copy goes up, the original is forwarded.  A
\* buffer that comes when nothing waits is not freed.
new_buffer_allocated(b) ==
    LET n == Len(wait_alloc)
        w == wait_alloc[n]
    IN  /\ buf[b].at = "newbuf"
        /\ IF n = 0
           THEN buf' = [buf EXCEPT ![b].at = "lost"] /\ UNCHANGED <<wait_alloc, dup_req>>
           ELSE /\ buf' = [buf EXCEPT ![b] = At("ind", buf[w].frame, "none"),
                                      ![w] = At("fwd", buf[w].frame, "internal")]
                /\ wait_alloc' = SubSeq(wait_alloc, 1, n - 1)
                /\ dup_req' = dup_req + (IF n > 1 THEN 1 ELSE 0)
        /\ UNCHANGED <<brrt, brrt_cnt, btt, btt_cnt, out_req, stat_req, again, tx_alarm,
                       btr_alarm, joined, asked, confirmed, expired, indicated, received>>

\* call_status_indication(b), with the buffer it asked for, passes it up
call_status_indication(b) ==
    /\ buf[b].at = "statbuf"
    /\ buf' = [buf EXCEPT ![b] = Free]
    /\ UNCHANGED <<brrt, brrt_cnt, btt, btt_cnt, wait_alloc, out_req, dup_req, stat_req,
                   again, tx_alarm, btr_alarm, joined, asked, confirmed, expired,
                   indicated, received>>

-----------------------------------------------------------------------------
(* Frames from the MAC *)

\* The passive ACK of neighbor n for frame f: an entry with all of its ACKs is
\* released and confirmed without more transmissions
PassiveAck(f, n) ==
    LET S == {j \in Slots : brrt[j].used /\ brrt[j].frame = f}
        i == Min(S)
        e == SetAck(brrt[i], n)
    IN  IF S = {} \/ n = 0 THEN [tbl |-> brrt, cnt |-> brrt_cnt, done |-> 0]
        ELSE IF Acked(e)
        THEN [tbl |-> [brrt EXCEPT ![i] = Released(e)],
              cnt |-> (brrt_cnt - 1) % 256, done |-> e.buf]
        ELSE [tbl |-> [brrt EXCEPT ![i] = e], cnt |-> brrt_cnt, done |-> 0]

\* What becomes of a received broadcast that is not a duplicate: a frame that
\* cannot be decrypted goes up as a status indication, one that is to be
\* relayed waits for a second buffer, the others only go up
Accept(bufs, b, f, ok, relay) ==
    IF ~ok THEN /\ buf' = [bufs EXCEPT ![b] = Free]
                /\ UNCHANGED <<wait_alloc, dup_req>>
    ELSE IF relay /\ Len(wait_alloc) < ZB_NWK_WAIT_ALLOC_TABLE_SIZE
    THEN /\ buf' = [bufs EXCEPT ![b] = At("wait", f, "none")]
         /\ wait_alloc' = Append(wait_alloc, b)
         /\ dup_req' = dup_req + 1
    ELSE /\ buf' = [bufs EXCEPT ![b] = At("ind", f, "none")]
         /\ UNCHANGED <<wait_alloc, dup_req>>

\* The neighbors relay a frame of this device once it was transmitted.
Aired(f) ==
    /\ Known(f) \/ expired[f] > 0
    /\ \A i \in Slots : brrt[i].used /\ brrt[i].frame = f => brrt[i].retries > 0

\* zb_mcps_data_indication() of a broadcast f from neighbor n (0: a device
\* that is not in the table), with a MAC buffer b: duplicates are dropped, and
\* so is a frame that finds btt full
zb_mcps_data_indication(b, f, n, ok, relay) ==
    LET p == PassiveAck(f, n)
        bufs == [c \in Bufs |-> IF c = p.done THEN [buf[c] EXCEPT !.at = "brconf"] ELSE buf[c]]
    IN  /\ received < MaxReceive
        /\ f \in Own => Aired(f)
        /\ FirstFree(InBufs, b)
        /\ received' = received + 1
        /\ brrt' = p.tbl
        /\ brrt_cnt' = p.cnt
        /\ \/ /\ Known(f) \/ BttFull
              /\ buf' = bufs
              /\ KeepBtt /\ UNCHANGED <<wait_alloc, dup_req>>
           \/ /\ ~Known(f)
              /\ AddBtt(f)
              /\ Accept(bufs, b, f, ok, relay)
        /\ UNCHANGED <<out_req, stat_req, again, tx_alarm, joined, asked, confirmed, expired,
                       indicated>>

\* nwk_frame_indication(): the frame is passed up, where its buffer is freed
nwk_frame_indication(b) ==
    /\ buf[b].at = "ind"
    /\ indicated' = [indicated EXCEPT ![buf[b].frame] = @ + 1]
    /\ buf' = [buf EXCEPT ![b] = Free]
    /\ UNCHANGED <<brrt, brrt_cnt, btt, btt_cnt, wait_alloc, out_req, dup_req, stat_req,
                   again, tx_alarm, btr_alarm, joined, asked, confirmed, expired, received>>

-----------------------------------------------------------------------------
(* Confirms *)

\* zb_mcps_data_confirm(): a copy is freed, or goes up as a status indication;
\* the original goes up with zb_nlde_data_confirm() and a failure asks for
\* another buffer for the indication.  The upper layer frees what it gets.
McpsConfirm(b, ok) ==
    LET own == buf[b].handle = "own"
    IN  /\ buf' = [buf EXCEPT ![b] = Free]
        /\ confirmed' = IF own THEN [confirmed EXCEPT ![buf[b].frame] = @ + 1] ELSE confirmed
        /\ stat_req' = stat_req + (IF own /\ ~ok THEN 1 ELSE 0)
        /\ UNCHANGED <<brrt, brrt_cnt, btt, btt_cnt, wait_alloc, out_req, dup_req, again,
                       tx_alarm, btr_alarm, joined, asked, expired, indicated, received>>

zb_mcps_data_confirm(b, ok) == buf[b].at = "mac" /\ McpsConfirm(b, ok)

\* zb_nwk_call_br_confirm(): a broadcast that was acknowledged by all
zb_nwk_call_br_confirm(b) == buf[b].at = "brconf" /\ McpsConfirm(b, TRUE)

-----------------------------------------------------------------------------
Step(b) ==
    \/ GrantOut(b)
    \/ GrantDup(b)
    \/ GrantStat(b)
    \/ zb_nwk_forward(b)
    \/ \E i \in Slots \cup {0} : TransmitBuf(b, i)
    \/ new_buffer_allocated(b)
    \/ call_status_indication(b)
    \/ nwk_frame_indication(b)
    \/ \E ok \in BOOLEAN : zb_mcps_data_confirm(b, ok)
    \/ zb_nwk_call_br_confirm(b)

Next ==
    \/ \E b \in OutBufs, f \in Frames : zb_nlde_data_request(b, f)
    \/ \E b \in InBufs, f \in Frames, n \in Routers \cup {0}, ok, relay \in BOOLEAN :
         zb_mcps_data_indication(b, f, n, ok, relay)
    \/ \E b \in Bufs : Step(b)
    \/ TransmitAgain
    \/ TransmitAlarm
    \/ zb_nwk_btr_expiry

Spec == Init /\ [][Next]_vars

-----------------------------------------------------------------------------
(* A device that leaves the network and joins again *)

\* zb_nwk_do_leave() with the rejoin flag, and the end of the rejoin: the
\* counters are cleared, the entries are not
zb_nwk_do_leave ==
    /\ joined
    /\ joined' = FALSE
    /\ btt_cnt' = 0 /\ brrt_cnt' = 0
    /\ UNCHANGED <<buf, brrt, btt, wait_alloc, out_req, dup_req, stat_req, again,
                   tx_alarm, btr_alarm, asked, confirmed, expired, indicated, received>>

LeaveSpec == Init /\ [][Next \/ zb_nwk_do_leave]_vars

-----------------------------------------------------------------------------
(* Properties *)

Used(tbl) == {i \in DOMAIN tbl : tbl[i].used}

\* Type invariant of the broadcast tables.
TypeOK ==
    /\ \A b \in Bufs : /\ buf[b].at \in Places /\ buf[b].frame \in Frames \cup {NoFrame}
                       /\ buf[b].handle \in {"none", "own", "internal"}
    /\ \A i \in Slots : /\ brrt[i].buf \in Bufs \cup {0}
                        /\ brrt[i].frame \in Frames \cup {NoFrame}
                        /\ brrt[i].retries \in 0 .. ZB_NWK_MAX_BROADCAST_RETRIES + 1
                        /\ brrt[i].iter \in Nbrs \cup {0} /\ brrt[i].ack \subseteq Nbrs
    /\ \A i \in BSlots : btt[i].exp \in 0 .. DeliveryTime
    /\ brrt_cnt \in Byte /\ btt_cnt \in Byte
    /\ {out_req, dup_req, stat_req, again} \subseteq Nat

\* zb_nwk_forward() asserts that it finds a free entry of brrt whenever
\* brrt_cnt says that there is one.
EntryFound ==
    brrt_cnt < ZB_NWK_BRR_TABLE_SIZE => \E i \in Slots : ~brrt[i].used

\* Every entry of brrt holds its buffer alone and every buffer given to the
\* table is in an entry, through the exchange of the original and the copy in
\* nwk_broadcast_transmition() and the release by passive ACKs.
EntryOwnsBuffer ==
    /\ \A i \in Used(brrt) : /\ buf[brrt[i].buf].at = "brrt"
                             /\ buf[brrt[i].buf].frame = brrt[i].frame
    /\ \A b \in Bufs : buf[b].at = "brrt" =>
         Cardinality({i \in Used(brrt) : brrt[i].buf = b}) = 1

\* An entry of brrt is never left without a call of
\* nwk_broadcast_transmition() to come: in the ring, waiting for a buffer, or
\* from its alarm, which zb_nwk_forward() cancels.
Driven ==
    Used(brrt) # {} =>
        again > 0 \/ out_req > 0 \/ tx_alarm \/ \E b \in Bufs : buf[b].at = "xmit"

\* The entries of brrt hold their buffers and are carried on to their end,
\* whichever of retries, served children and passive ACKs comes last.
EntriesSound == EntryOwnsBuffer /\ Driven

\* Only the last transmission of a broadcast is confirmed to the upper layer,
\* and a relayed one never is, whether the last transmission or the passive
\* ACKs end the entry.
ConfirmedOnce ==
    \A f \in Frames : confirmed[f] <= (IF f \in asked THEN 1 ELSE 0)

\* A broadcast goes up at most once in the life of its btt entry, and one of
\* this device does not come back to it in that time.
IndicatedOnce ==
    \A f \in Frames : indicated[f] <= expired[f] + (IF f \in Own THEN 0 ELSE 1)

\* A broadcast is delivered once: one confirm to its sender, one indication at
\* every receiver while btt remembers it.
OnceOnly == ConfirmedOnce /\ IndicatedOnce

\* nwk_broadcast_transmition() says when an entry may end: all end device
\* children were served, and the retries are used up or every router neighbor
\* (but the originator) was heard.
EndsServed ==
    \A i \in Slots : ~brrt[i].used /\ brrt[i].frame # NoFrame =>
        /\ brrt[i].iter = 0
        /\ \/ brrt[i].retries >= ZB_NWK_MAX_BROADCAST_RETRIES
           \/ Routers \ {SrcOf[brrt[i].frame]} \subseteq brrt[i].ack
=============================================================================
