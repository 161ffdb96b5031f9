----------------------------- MODULE MacIndirect -----------------------------
(***************************************************************************)
(* The MAC of a parent: direct and indirect transmission.                  *)
(*                                                                         *)
(* A frame for a sleepy child, and every association response, waits in a  *)
(* slot of pending_data_queue, guarded by an alarm, until the child polls  *)
(* with a data request command.  Whatever needs the transmitter runs from  *)
(* the TX callback ring mac_tx_q, one callback at a time; its second half  *)
(* is tx_wait_cb, run by a later iteration of the main loop when the       *)
(* transceiver is done.  Between the two halves the ordinary callbacks and *)
(* alarms run, and most of them use the same MAC_CTX().pending_buf.        *)
(*                                                                         *)
(* Sources: mac/mac_cr_data.c, mac/mac_data.c, mac/mac_routines.c,         *)
(* mac/mac_cr_associate.c, the main loop and command dispatch of           *)
(* mac/mac.c, and zb_mlme_comm_status_indication() of nwk/nwk_join.c.      *)
(***************************************************************************)
EXTENDS Naturals, Sequences, FiniteSets, FiniteSetsExt

CONSTANTS
    Bufs,                         \* packet buffers
    Children,                     \* devices that poll this parent
    ZB_MAC_PENDING_QUEUE_SIZE,    \* slots of pending_data_queue
    ZB_MAC_QUEUE_SIZE,            \* entries of the TX callback ring
    None                          \* NULL: no buffer, no entry, no callback

ASSUME SizesAssumption ==
    /\ ZB_MAC_PENDING_QUEUE_SIZE \in Nat \ {0}
    /\ ZB_MAC_QUEUE_SIZE \in Nat \ {0}
    /\ IsFiniteSet(Bufs)
    /\ None \notin Bufs

VARIABLES
    slots,         \* pending_data_queue
    timers,        \* alarms zb_mac_pending_data_timeout armed for each slot
    pending_buf,   \* MAC_CTX().pending_buf
    mac_tx_q,      \* callbacks that wait for the transmitter
    tx_wait_cb,    \* the second half that waits for TX complete
    upper,         \* buffers scheduled to, or held by, the layers above
    free,          \* free buffers
    lost,          \* buffers nothing refers to any more
    aired,         \* history: data frames transmitted since handed down
    unsecured,     \* history: data frames a poll could not secure since then
    crashed,       \* history: a NULL buffer was used
    overlapped     \* history: the context of a poll was changed under it

vars == <<slots, timers, pending_buf, mac_tx_q, tx_wait_cb, upper, free, lost,
          aired, unsecured, crashed, overlapped>>

Slots == 1 .. ZB_MAC_PENDING_QUEUE_SIZE

\* A frame is addressed by the short or the long address of the child, and a
\* poll finds only the frames of its own addressing mode.
Addrs == [mode : {"short", "long"}, dev : Children]

\* One entry of pending_data_queue.
Pending == [buf : Bufs, dst : Addrs, frame : {"data", "command"}]

\* zb_handle_mcps_data_req() or zb_accept_data_request_cmd() with its buffer.
TxCalls ==
    [op : {"direct", "indirect", "poll"}, buf : Bufs, addr : Addrs]

\* zb_handle_mcps_data_req_continue(), or zb_handle_data_request_cmd_continue()
\* with mac_storage: the slot found and the frame that was in it.
TxWaits ==
    [op : {"direct"}, buf : Bufs, addr : Addrs]
        \cup [op : {"poll"}, buf : Bufs, i : Slots, sent : Pending]

\* NULL is neither an entry of the queue nor a callback.
ASSUME NoneAssumption == None \notin Pending \cup TxWaits

\* What the layers above hold a buffer as.
Roles == {"work", "associate", "confirm", "joined", "failed"}
Held  == [buf : Bufs, as : Roles, dev : Children]

Init ==
    /\ slots = [i \in Slots |-> None]
    /\ timers = [i \in Slots |-> 0]
    /\ pending_buf = None
    /\ mac_tx_q = << >>
    /\ tx_wait_cb = None
    /\ upper = {}
    /\ free = Bufs
    /\ lost = {}
    /\ aired = {}
    /\ unsecured = {}
    /\ crashed = FALSE
    /\ overlapped = FALSE

(***************************************************************************)
(* The pending queue.                                                      *)
(***************************************************************************)
\* check_pending_data(): the lowest slot with a frame for this address.
Found(addr) == {i \in Slots : slots[i] # None /\ slots[i].dst = addr}

check_pending_data(addr) == IF Found(addr) = {} THEN 0 ELSE Min(Found(addr))

Vacant == {i \in Slots : slots[i] = None}

\* zb_mac_put_data_to_pending_queue(): the lowest vacant slot, and its alarm.
Put_NoAlarm(e) ==
    LET i == Min(Vacant)
    IN  /\ slots' = [slots EXCEPT ![i] = e]
        /\ UNCHANGED timers

Put(e) ==
    LET i == Min(Vacant)
    IN  /\ slots' = [slots EXCEPT ![i] = e]
        /\ timers' = [timers EXCEPT ![i] = @ + 1]

\* Is the first half of a poll over and its second half still to come?
Polling == tx_wait_cb # None /\ tx_wait_cb.op = "poll"

\* An ordinary callback makes b the buffer it works on.
Focus(b) ==
    /\ pending_buf' = b
    /\ overlapped' = (overlapped \/ Polling)

(***************************************************************************)
(* The layers above.  They free what they hold, or turn it into a request. *)
(***************************************************************************)
Take(u, as) == (upper \ {u}) \cup {[u EXCEPT !.as = as]}

\* zb_get_out_buf(): a packet of this device's own.
GetOutBuf(b, c) ==
    /\ b \in free
    /\ free' = free \ {b}
    /\ upper' = upper \cup {[buf |-> b, as |-> "work", dev |-> c]}
    /\ UNCHANGED <<slots, timers, pending_buf, mac_tx_q, tx_wait_cb, lost,
                   aired, unsecured, crashed, overlapped>>

zb_free_buf(u) ==
    /\ u \in upper
    /\ u.as \in {"work", "confirm", "joined"}
    /\ upper' = upper \ {u}
    /\ free' = free \cup {u.buf}
    /\ aired' = aired \ {u.buf}
    /\ unsecured' = unsecured \ {u.buf}
    /\ UNCHANGED <<slots, timers, pending_buf, mac_tx_q, tx_wait_cb, lost,
                   crashed, overlapped>>

\* zb_schedule_tx_cb(): nobody looks at the answer, so a callback that does
\* not fit takes its buffer with it.
Schedule_OneMore(call) ==
    IF Len(mac_tx_q) <= ZB_MAC_QUEUE_SIZE
    THEN /\ mac_tx_q' = Append(mac_tx_q, call)
         /\ UNCHANGED lost
    ELSE /\ lost' = lost \cup {call.buf}
         /\ UNCHANGED mac_tx_q

Schedule(call) ==
    IF Len(mac_tx_q) < ZB_MAC_QUEUE_SIZE
    THEN /\ mac_tx_q' = Append(mac_tx_q, call)
         /\ UNCHANGED lost
    ELSE /\ lost' = lost \cup {call.buf}
         /\ UNCHANGED mac_tx_q

zb_mcps_data_request(u, op) ==
    /\ u \in upper
    /\ u.as = "work"
    /\ upper' = upper \ {u}
    /\ aired' = aired \ {u.buf}
    /\ unsecured' = unsecured \ {u.buf}
    /\ Schedule([op |-> op, buf |-> u.buf,
                 addr |-> [mode |-> "short", dev |-> u.dev]])
    /\ UNCHANGED <<slots, timers, pending_buf, tx_wait_cb, free, crashed,
                   overlapped>>

\* zb_mlme_associate_response(): an ordinary callback, it queues the response
\* at once.  Without a vacant slot the same buffer reports the failure.
zb_mlme_associate_response(u) ==
    /\ u \in upper
    /\ u.as = "associate"
    /\ aired' = aired \ {u.buf}
    /\ unsecured' = unsecured \ {u.buf}
    /\ \/ /\ Vacant # {}
          /\ upper' = upper \ {u}
          /\ Put([buf |-> u.buf, dst |-> [mode |-> "long", dev |-> u.dev],
                  frame |-> "command"])
          /\ Focus(u.buf)
       \/ /\ Vacant = {}
          /\ upper' = Take(u, "failed")
          /\ Focus(None)
          /\ UNCHANGED <<slots, timers>>
    /\ UNCHANGED <<mac_tx_q, tx_wait_cb, free, lost, crashed>>

\* zb_mlme_comm_status_indication(): a success becomes a join indication in
\* the same buffer; after a failure nobody frees the buffer.
zb_mlme_comm_status_indication(u) ==
    /\ u \in upper
    /\ \/ /\ u.as = "joined"
          /\ upper' = Take(u, "work")
          /\ UNCHANGED lost
       \/ /\ u.as = "failed"
          /\ upper' = upper \ {u}
          /\ lost' = lost \cup {u.buf}
    /\ UNCHANGED <<slots, timers, pending_buf, mac_tx_q, tx_wait_cb, free,
                   aired, unsecured, crashed, overlapped>>

(***************************************************************************)
(* Frames received.  Data frames and association requests are handled by   *)
(* ordinary callbacks; a data request waits for the transmitter.           *)
(***************************************************************************)
Receive(b, c, as) ==
    /\ b \in free
    /\ free' = free \ {b}
    /\ upper' = upper \cup {[buf |-> b, as |-> as, dev |-> c]}
    /\ Focus(b)
    /\ UNCHANGED <<slots, timers, mac_tx_q, tx_wait_cb, lost, aired,
                   unsecured, crashed>>

zb_handle_data_frame(b, c) == Receive(b, c, "work")

zb_accept_ass_request_cmd(b, c) == Receive(b, c, "associate")

DataRequestCommand(b, addr) ==
    /\ b \in free
    /\ free' = free \ {b}
    /\ Schedule([op |-> "poll", buf |-> b, addr |-> addr])
    /\ UNCHANGED <<slots, timers, pending_buf, tx_wait_cb, upper, aired,
                   unsecured, crashed, overlapped>>

(***************************************************************************)
(* zb_mac_main_loop(): the next TX callback, when TX is idle.              *)
(***************************************************************************)
NextTx(op) ==
    /\ tx_wait_cb = None
    /\ mac_tx_q # << >>
    /\ Head(mac_tx_q).op = op
    /\ mac_tx_q' = Tail(mac_tx_q)

\* zb_handle_mcps_data_req(), direct transmission.  A frame that cannot be
\* secured is not sent and never confirmed.
SendDirect ==
    /\ NextTx("direct")
    /\ LET b == Head(mac_tx_q).buf
       IN  /\ pending_buf' = b
           /\ \/ /\ tx_wait_cb' = Head(mac_tx_q)
                 /\ aired' = aired \cup {b}
                 /\ UNCHANGED lost
              \/ /\ lost' = lost \cup {b}
                 /\ UNCHANGED <<tx_wait_cb, aired>>
    /\ UNCHANGED <<slots, timers, upper, free, unsecured, crashed, overlapped>>

\* zb_handle_mcps_data_req(), indirect transmission.  Without a vacant slot
\* the request goes to the MAC_CTX().out ring, which nothing ever reads.
QueueIndirect ==
    /\ NextTx("indirect")
    /\ LET call == Head(mac_tx_q)
       IN  /\ pending_buf' = call.buf
           /\ \/ /\ Vacant # {}
                 /\ Put([buf |-> call.buf, dst |-> call.addr,
                         frame |-> "data"])
                 /\ UNCHANGED lost
              \/ /\ Vacant = {}
                 /\ lost' = lost \cup {call.buf}
                 /\ UNCHANGED <<slots, timers>>
    /\ UNCHANGED <<tx_wait_cb, upper, free, aired, unsecured, crashed,
                   overlapped>>

\* zb_handle_data_request_cmd(): nothing for this device.
PollNothing ==
    /\ NextTx("poll")
    /\ check_pending_data(Head(mac_tx_q).addr) = 0
    /\ free' = free \cup {Head(mac_tx_q).buf}
    /\ pending_buf' = None
    /\ UNCHANGED <<slots, timers, tx_wait_cb, upper, lost, aired,
                   unsecured, crashed, overlapped>>

\* zb_handle_data_request_cmd(): the frame found is sent; when it cannot be
\* secured it is not.  TX complete is awaited in both cases, and it comes in
\* both: the acknowledgement of the data request has raised tx_cnt already.
PollFound ==
    /\ NextTx("poll")
    /\ LET call == Head(mac_tx_q)
           i    == check_pending_data(call.addr)
           data == {b \in {slots[i].buf} : slots[i].frame = "data"}
       IN  /\ i # 0
           /\ pending_buf' = call.buf
           /\ \/ /\ aired' = aired \cup data
                 /\ UNCHANGED unsecured
              \/ /\ unsecured' = unsecured \cup data
                 /\ UNCHANGED aired
           /\ tx_wait_cb' = [op |-> "poll", buf |-> call.buf, i |-> i,
                             sent |-> slots[i]]
    /\ UNCHANGED <<slots, timers, upper, free, lost, crashed, overlapped>>

(***************************************************************************)
(* zb_mac_main_loop(): TX complete, the second halves.                     *)
(***************************************************************************)
zb_handle_mcps_data_req_continue ==
    /\ tx_wait_cb # None
    /\ tx_wait_cb.op = "direct"
    /\ upper' = upper \cup {[buf |-> tx_wait_cb.buf, as |-> "confirm",
                             dev |-> tx_wait_cb.addr.dev]}
    /\ pending_buf' = None
    /\ tx_wait_cb' = None
    /\ UNCHANGED <<slots, timers, mac_tx_q, free, lost, aired, unsecured,
                   crashed, overlapped>>

\* zb_handle_data_request_cmd_continue(): works on whatever is in the slot
\* and in pending_buf by now; the kind of frame is that of the one sent.
Reported(e, status) ==
    IF e.frame = "command"
    THEN {[buf |-> pending_buf, as |-> status, dev |-> e.dst.dev]}
    ELSE {[buf |-> e.buf, as |-> "confirm", dev |-> e.dst.dev]}

Reclaimed_NoReset(e) ==
    IF e.frame = "command" THEN {e.buf, pending_buf} ELSE {pending_buf} \ {None}

Reclaimed(e) ==
    IF e.frame = "command" THEN {e.buf} ELSE {pending_buf} \ {None}

CompletePoll ==
    /\ Polling
    /\ LET i == tx_wait_cb.i
           e == [slots[i] EXCEPT !.frame = tx_wait_cb.sent.frame]
       IN  /\ slots[i] # None
           /\ e.frame = "command" => pending_buf # None
           /\ \E status \in {"joined", "failed"} :
                 upper' = upper \cup Reported(e, status)
           /\ free' = free \cup Reclaimed(e)
           /\ slots' = [slots EXCEPT ![i] = None]
           /\ timers' = [timers EXCEPT ![i] = 0]
    /\ pending_buf' = None
    /\ tx_wait_cb' = None
    /\ UNCHANGED <<mac_tx_q, lost, aired, unsecured, crashed, overlapped>>

\* The slot was emptied, or pending_buf was reset, before TX was complete.
CompleteOnNull ==
    /\ Polling
    /\ \/ slots[tx_wait_cb.i] = None
       \/ tx_wait_cb.sent.frame = "command" /\ pending_buf = None
    /\ crashed' = TRUE
    /\ UNCHANGED <<slots, timers, pending_buf, mac_tx_q, tx_wait_cb, upper,
                   free, lost, aired, unsecured, overlapped>>

\* zb_mac_pending_data_timeout(): the frame's own buffer reports the failure,
\* as a comm status even for a data frame.
zb_mac_pending_data_timeout(i) ==
    /\ timers[i] > 0
    /\ timers' = [timers EXCEPT ![i] = @ - 1]
    /\ slots' = [slots EXCEPT ![i] = None]
    /\ upper' = upper \cup {[buf |-> e.buf, as |-> "failed", dev |-> e.dst.dev] :
                                e \in {slots[i]} \ {None}}
    /\ crashed' = (slots[i] = None)
    /\ overlapped' = (overlapped \/ (Polling /\ tx_wait_cb.i = i))
    /\ UNCHANGED <<pending_buf, mac_tx_q, tx_wait_cb, free, lost, aired,
                   unsecured>>

(***************************************************************************)
(* The next-state relation.                                                *)
(***************************************************************************)
Transmitter ==
    \/ SendDirect
    \/ QueueIndirect
    \/ PollNothing
    \/ PollFound
    \/ zb_handle_mcps_data_req_continue
    \/ CompletePoll
    \/ CompleteOnNull

Upper ==
    \/ \E b \in Bufs, c \in Children : GetOutBuf(b, c)
    \/ \E u \in upper :
          \/ zb_free_buf(u)
          \/ \E op \in {"direct", "indirect"} : zb_mcps_data_request(u, op)
          \/ zb_mlme_associate_response(u)
          \/ zb_mlme_comm_status_indication(u)

Received ==
    \E b \in Bufs :
        \/ \E c \in Children : zb_handle_data_frame(b, c)
        \/ \E c \in Children : zb_accept_ass_request_cmd(b, c)
        \/ \E addr \in Addrs : DataRequestCommand(b, addr)

Next ==
    /\ ~crashed
    /\ \/ Transmitter
       \/ Upper
       \/ Received
       \/ \E i \in Slots : zb_mac_pending_data_timeout(i)

Spec == Init /\ [][Next]_vars

(***************************************************************************)
(* Properties.                                                             *)
(***************************************************************************)
TypeOK ==
    /\ slots \in [Slots -> Pending \cup {None}]
    /\ timers \in [Slots -> {0, 1}]
    /\ pending_buf \in Bufs \cup {None}
    /\ mac_tx_q \in Seq(TxCalls)
    /\ Len(mac_tx_q) <= ZB_MAC_QUEUE_SIZE
    /\ tx_wait_cb \in TxWaits \cup {None}
    /\ upper \subseteq Held
    /\ free \subseteq Bufs
    /\ lost \subseteq Bufs
    /\ aired \subseteq Bufs
    /\ unsecured \subseteq Bufs
    /\ crashed \in BOOLEAN
    /\ overlapped \in BOOLEAN

\* A slot is occupied exactly when its timeout is armed, whatever overlaps
\* what: no frame stays queued for ever and no timeout finds an empty slot.
SlotTimers == \A i \in Slots : timers[i] = (IF slots[i] = None THEN 0 ELSE 1)

Holders(b) ==
    Cardinality({i \in Slots : slots[i] # None /\ slots[i].buf = b})
    + Cardinality({k \in DOMAIN mac_tx_q : mac_tx_q[k].buf = b})
    + Cardinality({u \in upper : u.buf = b})
    + (IF tx_wait_cb # None /\ tx_wait_cb.buf = b THEN 1 ELSE 0)
    + (IF b \in free THEN 1 ELSE 0)
    + (IF b \in lost THEN 1 ELSE 0)

\* As long as no callback or timeout came between the two halves of a poll,
\* every buffer is held exactly once: none is freed while it is in use, none
\* is handed up twice, and pending_buf, whatever it was left pointing to, is
\* never acted upon.
HeldOnce == ~overlapped => ~crashed /\ \A b \in Bufs : Holders(b) = 1

\* As long as nothing overlapped, a data confirm is for a frame that was
\* transmitted since it was handed down, or that a poll could not secure.
ConfirmMeansTried ==
    ~overlapped => \A u \in upper : u.as = "confirm" =>
                      u.buf \in aired \cup unsecured

\* The two halves of a transmission fit together as long as nothing overlaps
\* them: no buffer is lost or used twice, and no confirm is made up.
HalvesFit == HeldOnce /\ ConfirmMeansTried

\* The same without the frames that could not be secured.  The second half of
\* a poll breaks this: it does not ask whether the first half could secure the
\* frame (mac_cr_data.c:296, 445), and confirms what was never transmitted.
ConfirmMeansSent ==
    ~overlapped => \A u \in upper : u.as = "confirm" => u.buf \in aired

\* "Make sure, that there will be no races and context parameters are safe!"
\* (mac_cr_data.c:413): the second half of a poll finds its request in
\* pending_buf and the frame it sent in the slot.
ContextSafe ==
    Polling =>
        /\ pending_buf = tx_wait_cb.buf
        /\ slots[tx_wait_cb.i] = tx_wait_cb.sent

=============================================================================
