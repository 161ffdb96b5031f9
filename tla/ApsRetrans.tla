----------------------------- MODULE ApsRetrans -----------------------------
(***************************************************************************)
(* The sending half of the APS sublayer (aps/aps_main.c): data requests,   *)
(* APS commands, the table of packets that wait for an APS acknowledgement *)
(* (ZG->aps.retrans.hash), its alarms, retransmissions and confirms.       *)
(*                                                                         *)
(* The network layer is abstract: it transmits a buffer it was given with  *)
(* zb_nlde_data_request and later gives it back with zb_nlde_data_confirm, *)
(* or finds no way to the destination and frees it without a confirm.      *)
(* The peer acknowledges each copy of a packet at any time after its       *)
(* transmission, or never.                                                 *)
(*                                                                         *)
(* A request is named by a number.  Endpoints, cluster and profile are     *)
(* left out: the APS counter already tells requests to one peer apart.     *)
(***************************************************************************)
EXTENDS Integers, Sequences, FiniteSets

CONSTANTS
    ZB_N_APS_RETRANS_ENTRIES,    \* size of retrans.hash
    ZB_N_APS_MAX_FRAME_ENTRIES,  \* initial aps_retries of an entry
    CounterSize,                 \* values of the 8 bit APS counter
    FirstCounter,                \* the value ZB_RANDOM() gives it at start
    Bufs,                        \* OUT buffers the requests travel in
    Peers,                       \* short addresses of the peers
    NoAddr, NoBuf,               \* the -1 of the addr and buf fields
    MaxReqs,                     \* bound: requests made in a behaviour
    MaxOutstanding,              \* bound: packets that wait for an APS ACK together
    DropKinds,                   \* kinds of requests that may find no route
    MaxAcks                      \* bound: ACKs of one packet that reach this device

ASSUME ApsAssumption ==
    /\ ZB_N_APS_RETRANS_ENTRIES \in Nat \ {0}
    /\ ZB_N_APS_MAX_FRAME_ENTRIES \in Nat \ {0}
    /\ CounterSize \in Nat \ {0}
    /\ FirstCounter \in 0 .. CounterSize - 1
    /\ MaxReqs \in Nat /\ MaxReqs <= CounterSize
    /\ MaxOutstanding \in Nat
    /\ NoBuf \notin Bufs /\ NoAddr \notin Peers
    /\ MaxAcks \in Nat
    /\ DropKinds \subseteq {"data", "command", "unacked"}

VARIABLES
    hash,         \* retrans.hash[]
    aps_counter,  \* aib.aps_counter
    alarms,       \* scheduled zb_aps_ack_timer_cb alarms, per entry index
    owner,        \* who may touch a buffer: "pool", "nwk", "aps" or "up"
    packet,       \* the request a buffer carries
    nwk_q,        \* buffers zb_nlde_data_request has yet to transmit
    nwk_sent,     \* transmitted buffers whose zb_nlde_data_confirm is to come
    confirm_q,    \* zb_apsde_data_confirm callbacks to come: <<buffer, request, status>>
    reqs,         \* the requests made so far, in order
    copies,       \* transmissions of each request
    acked,        \* ACKs of each request that have arrived
    result        \* what the upper layer was told about each request

vars == <<hash, aps_counter, alarms, owner, packet, nwk_q, nwk_sent, confirm_q,
          reqs, copies, acked, result>>

Idx == 0 .. ZB_N_APS_RETRANS_ENTRIES - 1
Ids == 1 .. MaxReqs
NoReq == 0

\* zb_aps_retrans_ent_state_e
FREE           == "FREE"
NOT_CONFIRMED  == "SENT_MAC_NOT_CONFIRMED_ALRM_RUNNING"
ACKED          == "SENT_MAC_NOT_CONFIRMED_APS_ACKED_ALRM_RUNNING"
MAC_CONFIRMED  == "SENT_MAC_CONFIRMED_ALRM_RUNNING"

\* A data frame that asks for an ACK, one that is to be acknowledged but has
\* no destination in the binding table, an APS command to one device, and
\* everything that is sent without an ACK request.
Kinds == {"data", "unbound", "command", "unacked"}
Statuses == {"OK", "NO_ACK", "TABLE_FULL", "NWK_ERROR"}

Entry == [state : {FREE, NOT_CONFIRMED, ACKED, MAC_CONFIRMED},
          addr : Peers \cup {NoAddr}, aps_counter : 0 .. CounterSize - 1,
          buf : Bufs \cup {NoBuf}, aps_retries : 0 .. ZB_N_APS_MAX_FRAME_ENTRIES]
Request == [kind : Kinds, addr : Peers, aps_counter : 0 .. CounterSize - 1]

-----------------------------------------------------------------------------
\* zb_aps_init()
zb_aps_init ==
    /\ aps_counter = FirstCounter
    /\ hash = [i \in Idx |-> [state |-> FREE, addr |-> NoAddr, aps_counter |-> 0,
                              buf |-> NoBuf, aps_retries |-> 0]]

Init ==
    /\ zb_aps_init
    /\ alarms = [i \in Idx |-> 0]
    /\ owner = [b \in Bufs |-> "pool"]
    /\ packet = [b \in Bufs |-> NoReq]
    /\ nwk_q = {} /\ nwk_sent = {}
    /\ confirm_q = {}
    /\ reqs = <<>>
    /\ copies = [r \in Ids |-> 0]
    /\ acked = [r \in Ids |-> 0]
    /\ result = [r \in Ids |-> <<>>]

-----------------------------------------------------------------------------
\* The first free entry, or the table size: the search of save_ack_data() and
\* of zb_aps_send_command().
FirstFree ==
    IF \E i \in Idx : hash[i].state = FREE
    THEN CHOOSE i \in Idx : /\ hash[i].state = FREE
                            /\ \A j \in Idx : j < i => hash[j].state # FREE
    ELSE ZB_N_APS_RETRANS_ENTRIES

NewEntry(b, addr) ==
    [state |-> NOT_CONFIRMED, addr |-> addr, aps_counter |-> aps_counter, buf |-> b,
     aps_retries |-> ZB_N_APS_MAX_FRAME_ENTRIES]

Outstanding == Cardinality({i \in Idx : hash[i].state # FREE})

\* The upper layer fills a buffer of the pool with request number Len(reqs)+1.
MakeRequest(kind, b, addr) ==
    /\ owner[b] = "pool"
    /\ Len(reqs) < MaxReqs
    /\ kind \in {"data", "command"} => Outstanding < MaxOutstanding
    /\ reqs' = Append(reqs, [kind |-> kind, addr |-> addr, aps_counter |-> aps_counter])
    /\ packet' = [packet EXCEPT ![b] = Len(reqs) + 1]
    /\ UNCHANGED <<nwk_sent, copies, acked, result>>

\* aps_data_hdr_fill_datareq() and the command header take the counter, then
\* increment it.
CounterInc_NoWrap == aps_counter' = aps_counter + 1
CounterInc == aps_counter' = (aps_counter + 1) % CounterSize

PassToNwk(b) ==
    /\ nwk_q' = nwk_q \cup {b}
    /\ owner' = [owner EXCEPT ![b] = "nwk"]

\* save_ack_data() reports a full table when the entry it has just filled is
\* the last one, and reports success (with index 0) when there was none.
TableFull(i) == i = ZB_N_APS_RETRANS_ENTRIES - 1
EntryRef(i)  == IF i \in Idx THEN i ELSE 0

\* zb_apsde_data_request() with ZB_APSDE_TX_OPT_ACK_TX.
zb_apsde_data_request_ack(b, addr) ==
    LET i == FirstFree IN
    /\ MakeRequest("data", b, addr)
    /\ CounterInc
    /\ hash' = IF i \in Idx THEN [hash EXCEPT ![i] = NewEntry(b, addr)] ELSE hash
    /\ IF TableFull(i)
       THEN /\ confirm_q' = confirm_q \cup {<<b, Len(reqs) + 1, "TABLE_FULL">>}
            /\ owner' = [owner EXCEPT ![b] = "up"]
            /\ UNCHANGED <<alarms, nwk_q>>
       ELSE /\ alarms' = [alarms EXCEPT ![EntryRef(i)] = @ + 1]
            /\ PassToNwk(b)
            /\ UNCHANGED confirm_q

\* zb_apsde_data_request() without an ACK request.
zb_apsde_data_request_noack(b, addr) ==
    /\ MakeRequest("unacked", b, addr)
    /\ CounterInc
    /\ PassToNwk(b)
    /\ UNCHANGED <<hash, alarms, confirm_q>>

\* zb_apsde_data_request() by binding, when no destination is bound: the
\* buffer goes back at once with the status zb_get_buf() gave it, zero.
zb_apsde_data_request_unbound(b, addr) ==
    /\ MakeRequest("unbound", b, addr)
    /\ confirm_q' = confirm_q \cup {<<b, Len(reqs) + 1, "OK">>}
    /\ owner' = [owner EXCEPT ![b] = "up"]
    /\ UNCHANGED <<hash, aps_counter, alarms, nwk_q>>

\* zb_aps_send_command(): a broadcast is not acknowledged; with a full table
\* the command goes out without an entry and without an alarm.
zb_aps_send_command(b, addr, need_ack) ==
    LET i == FirstFree IN
    /\ MakeRequest(IF need_ack THEN "command" ELSE "unacked", b, addr)
    /\ CounterInc
    /\ IF need_ack /\ i \in Idx
       THEN /\ hash' = [hash EXCEPT ![i] = NewEntry(b, addr)]
            /\ alarms' = [alarms EXCEPT ![i] = @ + 1]
       ELSE UNCHANGED <<hash, alarms>>
    /\ PassToNwk(b)
    /\ UNCHANGED confirm_q

-----------------------------------------------------------------------------
\* zb_schedule_alarm_cancel() removes one alarm of the entry, if there is one.
CancelAlarm_Skip(n) == n
CancelAlarm(n) == IF n > 0 THEN n - 1 ELSE 0

\* done_with_this_ack(): the upper layer gets the data buffer back with a
\* status, a command's buffer is freed, the entry is freed and one alarm of
\* that entry is cancelled.
done_with_this_ack(i, left, status) ==
    LET b == hash[i].buf
        r == packet[b]
    IN  /\ IF reqs[r].kind = "command"
           THEN /\ owner' = [owner EXCEPT ![b] = "pool"]
                /\ UNCHANGED confirm_q
           ELSE /\ owner' = [owner EXCEPT ![b] = "up"]
                /\ confirm_q' = confirm_q \cup {<<b, r, status>>}
        /\ hash' = [hash EXCEPT ![i].state = FREE, ![i].addr = NoAddr, ![i].buf = NoBuf]
        /\ alarms' = [alarms EXCEPT ![i] = CancelAlarm(left)]

\* zb_nwk_forward() hands the frame to the MAC, which transmits it.  The frame
\* may or may not arrive.
NwkTransmit(b) ==
    /\ b \in nwk_q
    /\ nwk_q' = nwk_q \ {b}
    /\ nwk_sent' = nwk_sent \cup {b}
    /\ copies' = [copies EXCEPT ![packet[b]] = @ + 1]
    /\ UNCHANGED <<hash, aps_counter, alarms, owner, packet, confirm_q, reqs,
                   acked, result>>

\* zb_nwk_forward() cannot route the frame, or zb_nwk_mesh_expiry_pending()
\* gives up waiting for a route: the buffer is freed, nobody is told.
NwkDrop(b) ==
    /\ b \in nwk_q
    /\ reqs[packet[b]].kind \in DropKinds
    /\ nwk_q' = nwk_q \ {b}
    /\ owner' = [owner EXCEPT ![b] = "pool"]
    /\ UNCHANGED <<hash, aps_counter, alarms, packet, nwk_sent, confirm_q, reqs,
                   copies, acked, result>>

\* ZB_APS_FC_GET_ACK_REQUEST() of the frame of request r.
AckRequested_Never(r) == FALSE
AckRequested(r) == reqs[r].kind \in {"data", "command"}

\* zb_nlde_data_confirm(): the network layer's status reaches the upper layer
\* only when no ACK was requested.
zb_nlde_data_confirm(b, status) ==
    LET r == packet[b]
        found == {i \in Idx : hash[i].buf = b}
        first == CHOOSE i \in found : \A j \in found : i <= j
    IN
    /\ b \in nwk_sent
    /\ nwk_sent' = nwk_sent \ {b}
    /\ \/ /\ ~AckRequested(r)
          /\ owner' = [owner EXCEPT ![b] = "up"]
          /\ confirm_q' = confirm_q \cup {<<b, r, status>>}
          /\ UNCHANGED <<hash, alarms>>
       \/ /\ AckRequested(r)
          /\ found # {}
          /\ hash[first].state = ACKED
          /\ done_with_this_ack(first, alarms[first], "OK")
       \/ /\ AckRequested(r)
          /\ found # {}
          /\ hash[first].state # ACKED
          /\ hash' = [hash EXCEPT ![first].state = MAC_CONFIRMED]
          /\ owner' = [owner EXCEPT ![b] = "aps"]
          /\ UNCHANGED <<alarms, confirm_q>>
       \/ /\ AckRequested(r)
          /\ found = {}
          /\ owner' = [owner EXCEPT ![b] = "pool"]
          /\ UNCHANGED <<hash, alarms, confirm_q>>
    /\ UNCHANGED <<aps_counter, packet, nwk_q, reqs, copies, acked, result>>

\* An ACK ends the entry unless its buffer is still with the network layer.
AckDone_Always(state) == TRUE
AckDone(state) == state # NOT_CONFIRMED

\* aps_ack_frame_handle(): an ACK of request r arrives.  The entry is found by
\* the peer's address and the APS counter, whatever its state.
aps_ack_frame_handle(r) ==
    LET found == {i \in Idx : /\ hash[i].addr = reqs[r].addr
                              /\ hash[i].aps_counter = reqs[r].aps_counter}
        first == CHOOSE i \in found : \A j \in found : i <= j
    IN
    /\ r \in 1 .. Len(reqs)
    /\ reqs[r].kind \in {"data", "command"}
    /\ acked[r] < copies[r] /\ acked[r] < MaxAcks
    /\ acked' = [acked EXCEPT ![r] = @ + 1]
    /\ \/ /\ found = {}
          /\ UNCHANGED <<hash, alarms, owner, confirm_q>>
       \/ /\ found # {}
          /\ ~AckDone(hash[first].state)
          /\ hash' = [hash EXCEPT ![first].state = ACKED]
          /\ UNCHANGED <<alarms, owner, confirm_q>>
       \/ /\ found # {}
          /\ AckDone(hash[first].state)
          /\ done_with_this_ack(first, alarms[first], "OK")
    /\ UNCHANGED <<aps_counter, packet, nwk_q, nwk_sent, reqs, copies, result>>

RetriesLeft(n) == IF n > 0 THEN n - 1 ELSE 0

\* The alarm that ran is scheduled again, even if no retry is left.
RescheduleAlarm_IfRetries(i, left) == IF left > 0 THEN alarms ELSE [alarms EXCEPT ![i] = @ - 1]
RescheduleAlarm(i, left) == alarms

Retransmit_KeepState(i, left) ==
    /\ hash' = [hash EXCEPT ![i].aps_retries = left]
    /\ PassToNwk(hash[i].buf)
Retransmit(i, left) ==
    /\ hash' = [hash EXCEPT ![i].aps_retries = left, ![i].state = NOT_CONFIRMED]
    /\ PassToNwk(hash[i].buf)

\* zb_aps_ack_timer_cb(): the alarm that runs is no longer scheduled.
zb_aps_ack_timer_cb(i) ==
    LET left == RetriesLeft(hash[i].aps_retries) IN
    /\ alarms[i] > 0
    /\ \/ /\ left = 0
          /\ hash[i].state = MAC_CONFIRMED
          /\ done_with_this_ack(i, alarms[i] - 1, "NO_ACK")
          /\ UNCHANGED nwk_q
       \/ /\ left > 0
          /\ hash[i].state = MAC_CONFIRMED
          /\ alarms' = RescheduleAlarm(i, left)
          /\ Retransmit(i, left)
          /\ UNCHANGED confirm_q
       \/ /\ hash[i].state # MAC_CONFIRMED
          /\ alarms' = RescheduleAlarm(i, left)
          /\ hash' = [hash EXCEPT ![i].aps_retries = left]
          /\ UNCHANGED <<owner, nwk_q, confirm_q>>
    /\ UNCHANGED <<aps_counter, packet, nwk_sent, reqs, copies, acked, result>>

\* zb_apsde_data_confirm(): the upper layer learns the result and frees or
\* reuses the buffer.  It does neither with the broadcast that switches the
\* network key, and with a device announcement made after the start: that
\* buffer is kept.
zb_apsde_data_confirm(c, kept) ==
    /\ c \in confirm_q
    /\ kept => reqs[c[2]].kind = "unacked"
    /\ confirm_q' = confirm_q \ {c}
    /\ result' = [result EXCEPT ![c[2]] = Append(@, c[3])]
    /\ owner' = [owner EXCEPT ![c[1]] = IF kept THEN "up" ELSE "pool"]
    /\ UNCHANGED <<hash, aps_counter, alarms, packet, nwk_q, nwk_sent, reqs, copies, acked>>

Next ==
    \/ \E b \in Bufs, a \in Peers :
         \/ zb_apsde_data_request_ack(b, a)
         \/ zb_apsde_data_request_noack(b, a)
         \/ zb_apsde_data_request_unbound(b, a)
         \/ \E need_ack \in BOOLEAN : zb_aps_send_command(b, a, need_ack)
    \/ \E b \in Bufs :
         \/ NwkTransmit(b)
         \/ NwkDrop(b)
         \/ \E status \in {"OK", "NWK_ERROR"} : zb_nlde_data_confirm(b, status)
    \/ \E r \in Ids : aps_ack_frame_handle(r)
    \/ \E i \in Idx : zb_aps_ack_timer_cb(i)
    \/ \E c \in confirm_q, kept \in BOOLEAN : zb_apsde_data_confirm(c, kept)

Spec == Init /\ [][Next]_vars

\* The scheduler runs every queued callback and every expired alarm; the
\* network layer transmits or drops what it was given.
FairSpec ==
    /\ Spec
    /\ \A b \in Bufs : /\ WF_vars(NwkTransmit(b) \/ NwkDrop(b))
                      /\ WF_vars(\E st \in {"OK", "NWK_ERROR"} : zb_nlde_data_confirm(b, st))
    /\ \A i \in Idx : WF_vars(zb_aps_ack_timer_cb(i))
    /\ WF_vars(\E c \in confirm_q, kept \in BOOLEAN : zb_apsde_data_confirm(c, kept))

-----------------------------------------------------------------------------
(* Properties.                                                              *)

TypeOK ==
    /\ hash \in [Idx -> Entry]
    /\ aps_counter \in 0 .. CounterSize - 1
    /\ alarms \in [Idx -> Nat]
    /\ owner \in [Bufs -> {"pool", "nwk", "aps", "up"}]
    /\ packet \in [Bufs -> Ids \cup {NoReq}]
    /\ nwk_q \subseteq Bufs /\ nwk_sent \subseteq Bufs
    /\ confirm_q \subseteq Bufs \X Ids \X Statuses
    /\ reqs \in Seq(Request)
    /\ copies \in [Ids -> Nat] /\ acked \in [Ids -> 0 .. MaxAcks]
    /\ result \in [Ids -> Seq(Statuses)]

\* An entry of the table owns its buffer: the buffer is with the network
\* layer exactly while the entry waits for the MAC, with the APS otherwise,
\* and no two entries share one.  zb_aps_ack_timer_cb() and
\* done_with_this_ack() use the buffer without any check.
EntryOwnsBuffer ==
    \A i \in Idx :
        hash[i].state # FREE =>
            /\ hash[i].buf \in Bufs
            /\ hash[i].state = MAC_CONFIRMED <=> owner[hash[i].buf] = "aps"
            /\ hash[i].state # MAC_CONFIRMED <=> owner[hash[i].buf] = "nwk"
            /\ \A j \in Idx \ {i} : hash[j].buf # hash[i].buf

\* A buffer is with the network layer only while a transmission of it is
\* queued or unconfirmed: no buffer is freed or reused under the MAC.
NwkOwnsBuffer == \A b \in Bufs : b \in nwk_q \cup nwk_sent <=> owner[b] = "nwk"

\* Table, network layer and owners of the buffers agree, in every order of
\* transmission, MAC confirm, APS ACK and timeout.
BuffersOwned == EntryOwnsBuffer /\ NwkOwnsBuffer

\* Every busy entry has exactly one alarm and a free entry has none: an alarm
\* left over would fire on index -1 of the pool, a missing one would keep the
\* entry for ever.
OneAlarmPerEntry ==
    \A i \in Idx : alarms[i] = IF hash[i].state = FREE THEN 0 ELSE 1

\* What the upper layer has been told, or is about to be told, about request r.
Told(r) == {result[r][k] : k \in DOMAIN result[r]}
           \cup {c[3] : c \in {d \in confirm_q : d[2] = r}}

\* The upper layer hears about a request at most once, whatever the order of
\* ACK, confirm and timeout: zb_apsde_data_confirm() frees the buffer.
ConfirmedOnce ==
    \A r \in Ids : Len(result[r]) + Cardinality({c \in confirm_q : c[2] = r}) <= 1

\* A data packet is reported as delivered only when the peer acknowledged this
\* very packet, and as not acknowledged only when it was really transmitted.
OkMeansAcked ==
    \A r \in 1 .. Len(reqs) :
        reqs[r].kind = "data" =>
            /\ "OK" \in Told(r) => acked[r] > 0
            /\ "NO_ACK" \in Told(r) => copies[r] > 0

\* zb_config.h: a packet goes out at most ZB_N_APS_MAX_FRAME_ENTRIES times.
BoundedTransmissions == \A r \in Ids : copies[r] <= ZB_N_APS_MAX_FRAME_ENTRIES

\* zb_aps_ack_timer_cb() is the only thing that ends an entry whose ACK never
\* comes: it is armed once for every entry, and gives up after the last retry.
RetriesEnd == OneAlarmPerEntry /\ BoundedTransmissions

\* zb_nlde_data_confirm() finds the entry of every packet that asked for an
\* ACK, in a state its assertion allows: the entry lives until the confirm, and
\* "not found (hmm...) - free it" frees no buffer that was freed before.
ConfirmFindsEntry ==
    \A b \in nwk_sent :
        reqs[packet[b]].kind = "data" =>
            \E i \in Idx : hash[i].buf = b /\ hash[i].state \in {NOT_CONFIRMED, ACKED}

\* The confirm of the network layer meets the entry it belongs to, and the
\* upper layer is told at most once.
ConfirmsMatch == ConfirmedOnce /\ ConfirmFindsEntry

\* zb_config.h: ZB_N_APS_RETRANS_ENTRIES is the "max number of packets waiting
\* for APS ACK".  A request refused with TABLE_FULL holds no entry of the table.
RefusedTakesNoEntry ==
    \A i \in Idx :
        hash[i].state # FREE => "TABLE_FULL" \notin Told(packet[hash[i].buf])

\* Every data request that asks for an ACK is confirmed to the upper layer, also
\* when every ACK is lost: zb_nwk.h promises "Later zb_nlde_data_confirm will be called to pass
\* NLDE-DATA.request result up", and the retransmissions end.
EveryRequestConfirmed ==
    \A r \in Ids :
        (r <= Len(reqs) /\ reqs[r].kind \in {"data", "unbound"}) ~> result[r] # <<>>

=============================================================================
