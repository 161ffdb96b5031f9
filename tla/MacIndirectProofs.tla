-------------------------- MODULE MacIndirectProofs --------------------------
(***************************************************************************)
(* Proofs about the transmitter of a parent, for every number of buffers,  *)
(* children, slots and entries of the TX ring.                             *)
(*                                                                         *)
(* Two facts hold whatever overlaps what: every variable keeps its type,   *)
(* and a slot is occupied exactly while its timeout is armed.  The rest    *)
(* holds until something comes between the two halves of a poll: every     *)
(* buffer is in one place, the second half finds what the first half left, *)
(* and the frame it confirms was transmitted or could not be secured.      *)
(***************************************************************************)
EXTENDS MacIndirect, FiniteSetTheorems, WellFoundedInduction, TLAPS

-----------------------------------------------------------------------------
(* The inductive invariant.                                                 *)

\* The places a buffer can be in, besides the sets free and lost.
InSlot(b)  == \E i \in Slots : slots[i] # None /\ slots[i].buf = b
InQueue(b) == \E k \in 1 .. Len(mac_tx_q) : mac_tx_q[k].buf = b
InUpper(b) == \E u \in upper : u.buf = b
InWait(b)  == tx_wait_cb # None /\ tx_wait_cb.buf = b

\* A place refers to a buffer once.
SlotsDiffer ==
    \A i, j \in Slots :
        slots[i] # None /\ slots[j] # None /\ slots[i].buf = slots[j].buf => i = j
QueueDiffers ==
    \A k, l \in 1 .. Len(mac_tx_q) : mac_tx_q[k].buf = mac_tx_q[l].buf => k = l
UpperDiffers == \A u, v \in upper : u.buf = v.buf => u = v

\* A buffer is in one place.
OnePlace ==
    \A b \in Bufs :
        /\ InSlot(b) \/ InQueue(b) \/ InUpper(b) \/ InWait(b) \/ b \in free \/ b \in lost
        /\ InSlot(b) => ~(InQueue(b) \/ InUpper(b) \/ InWait(b) \/ b \in free \/ b \in lost)
        /\ InQueue(b) => ~(InUpper(b) \/ InWait(b) \/ b \in free \/ b \in lost)
        /\ InUpper(b) => ~(InWait(b) \/ b \in free \/ b \in lost)
        /\ InWait(b) => ~(b \in free \/ b \in lost)
        /\ ~(b \in free /\ b \in lost)

\* The second half of a poll finds its request in pending_buf and the frame
\* it sent in the slot.
ContextKept ==
    Polling => pending_buf = tx_wait_cb.buf /\ slots[tx_wait_cb.i] = tx_wait_cb.sent

\* What is confirmed, now or when TX is complete, was transmitted, or could
\* not be secured in a poll.
AiredKept ==
    /\ \A u \in upper : u.as = "confirm" => u.buf \in aired \cup unsecured
    /\ tx_wait_cb # None /\ tx_wait_cb.op = "direct" => tx_wait_cb.buf \in aired
    /\ Polling /\ tx_wait_cb.sent.frame = "data" =>
         tx_wait_cb.sent.buf \in aired \cup unsecured

\* Everything that ends with the first overlap.
Undisturbed ==
    /\ SlotsDiffer /\ QueueDiffers /\ UpperDiffers
    /\ OnePlace
    /\ ContextKept
    /\ AiredKept
    /\ ~crashed

MacInv ==
    /\ TypeOK
    /\ SlotTimers
    /\ ~overlapped => Undisturbed

-----------------------------------------------------------------------------
(* What the searches, the queue and the slots give.                         *)

\* Min() of a set of numbers is one of them.
LEMMA MinOfNumbers ==
    ASSUME NEW S \in SUBSET Nat, S # {}
    PROVE  Min(S) \in S
<1> DEFINE R == {ss \in Nat \X Nat : ss[1] < ss[2]}
<1>1. IsWellFoundedOn(R, Nat)
  BY NatLessThanWellFounded DEF OpToRel
<1> HIDE DEF R
<1>2. PICK x \in S : \A y \in S : ~(<<y, x>> \in R)
  BY <1>1, WFMin
<1>3. \A y \in S : ~(y < x)
  BY <1>2 DEF R
<1>4. \A y \in S : x <= y
  BY <1>3
<1> QED
  BY <1>4 DEF Min

\* A frame is put into a vacant slot, a poll finds an occupied one.
LEMMA SlotsFound ==
    /\ Vacant # {} => Min(Vacant) \in Slots /\ slots[Min(Vacant)] = None
    /\ \A addr \in Addrs : check_pending_data(addr) # 0 =>
         check_pending_data(addr) \in Slots /\ slots[check_pending_data(addr)] # None
<1>1. \A S \in SUBSET Slots : S # {} => Min(S) \in S
  BY MinOfNumbers DEF Slots
<1>2. Vacant \in SUBSET Slots /\ \A addr \in Addrs : Found(addr) \in SUBSET Slots
  BY DEF Vacant, Found
<1>3. Vacant # {} => Min(Vacant) \in Slots /\ slots[Min(Vacant)] = None
  BY <1>1, <1>2 DEF Vacant
<1>4. ASSUME NEW addr \in Addrs, check_pending_data(addr) # 0
      PROVE  check_pending_data(addr) \in Slots /\ slots[check_pending_data(addr)] # None
  BY <1>1, <1>2, <1>4 DEF check_pending_data, Found
<1> QED
  BY <1>3, <1>4

\* A callback that enters the TX ring.
LEMMA Enqueued ==
    ASSUME TypeOK, NEW call \in TxCalls, mac_tx_q' = Append(mac_tx_q, call)
    PROVE  /\ \A b \in Bufs : InQueue(b)' <=> InQueue(b) \/ b = call.buf
           /\ QueueDiffers /\ ~InQueue(call.buf) => QueueDiffers'
<1>1. /\ mac_tx_q \in Seq(TxCalls) /\ Len(mac_tx_q) \in Nat /\ Len(mac_tx_q') = Len(mac_tx_q) + 1
      /\ \A k \in 1 .. Len(mac_tx_q) : mac_tx_q'[k] = mac_tx_q[k]
      /\ mac_tx_q'[Len(mac_tx_q) + 1] = call
  BY DEF TypeOK
<1>2. \A k \in 1 .. Len(mac_tx_q') : k \in 1 .. Len(mac_tx_q) \/ k = Len(mac_tx_q) + 1
  BY <1>1
<1>3. \A k \in 1 .. Len(mac_tx_q) : k \in 1 .. Len(mac_tx_q')
  BY <1>1
<1>4. Len(mac_tx_q) + 1 \in 1 .. Len(mac_tx_q')
  BY <1>1
<1>5. \A b \in Bufs : InQueue(b)' <=> InQueue(b) \/ b = call.buf
  BY <1>1, <1>2, <1>3, <1>4 DEF InQueue
<1>6. ASSUME QueueDiffers, ~InQueue(call.buf) PROVE QueueDiffers'
  BY <1>1, <1>2, <1>6 DEF QueueDiffers, InQueue
<1> QED
  BY <1>5, <1>6

\* The callback that leaves the TX ring.
LEMMA Dequeued ==
    ASSUME TypeOK, NEW op, NextTx(op)
    PROVE  /\ Head(mac_tx_q) \in TxCalls /\ Head(mac_tx_q).op = op
           /\ mac_tx_q' \in Seq(TxCalls) /\ Len(mac_tx_q') <= ZB_MAC_QUEUE_SIZE
           /\ InQueue(Head(mac_tx_q).buf)
           /\ QueueDiffers => /\ QueueDiffers'
                              /\ \A b \in Bufs : InQueue(b)' <=> InQueue(b) /\ b # Head(mac_tx_q).buf
<1>1. /\ mac_tx_q \in Seq(TxCalls) /\ Len(mac_tx_q) \in Nat \ {0}
      /\ Len(mac_tx_q') = Len(mac_tx_q) - 1 /\ mac_tx_q' \in Seq(TxCalls)
      /\ \A k \in 1 .. Len(mac_tx_q) - 1 : mac_tx_q'[k] = mac_tx_q[k + 1]
      /\ Head(mac_tx_q) = mac_tx_q[1] /\ Head(mac_tx_q) \in TxCalls
  BY DEF TypeOK, NextTx
<1>2. InQueue(Head(mac_tx_q).buf)
  BY <1>1 DEF InQueue
<1>3. Len(mac_tx_q') <= ZB_MAC_QUEUE_SIZE
  BY <1>1, SizesAssumption DEF TypeOK
<1>4. ASSUME QueueDiffers PROVE QueueDiffers'
  <2> SUFFICES ASSUME NEW k \in 1 .. Len(mac_tx_q'), NEW l \in 1 .. Len(mac_tx_q'),
                      mac_tx_q'[k].buf = mac_tx_q'[l].buf
               PROVE  k = l
    BY DEF QueueDiffers
  <2>1. mac_tx_q[k + 1].buf = mac_tx_q[l + 1].buf /\ k + 1 \in 1 .. Len(mac_tx_q) /\ l + 1 \in 1 .. Len(mac_tx_q)
    BY <1>1
  <2> QED
    BY <1>4, <2>1 DEF QueueDiffers
<1>5. ASSUME QueueDiffers, NEW b \in Bufs
      PROVE  InQueue(b)' <=> InQueue(b) /\ b # Head(mac_tx_q).buf
  <2>1. ASSUME InQueue(b)' PROVE InQueue(b) /\ b # Head(mac_tx_q).buf
    <3>1. PICK k \in 1 .. Len(mac_tx_q) - 1 : mac_tx_q[k + 1].buf = b
      BY <1>1, <2>1 DEF InQueue
    <3>2. k + 1 \in 1 .. Len(mac_tx_q) /\ 1 \in 1 .. Len(mac_tx_q) /\ k + 1 # 1
      BY <1>1
    <3> QED
      BY <1>1, <1>5, <3>1, <3>2 DEF InQueue, QueueDiffers
  <2>2. ASSUME InQueue(b), b # Head(mac_tx_q).buf PROVE InQueue(b)'
    <3>1. PICK k \in 1 .. Len(mac_tx_q) : mac_tx_q[k].buf = b
      BY <2>2 DEF InQueue
    <3>2. k # 1
      BY <1>1, <2>2, <3>1
    <3>3. k - 1 \in 1 .. Len(mac_tx_q') /\ k - 1 \in 1 .. Len(mac_tx_q) - 1 /\ (k - 1) + 1 = k
      BY <1>1, <3>2
    <3> QED
      BY <1>1, <3>1, <3>3 DEF InQueue
  <2> QED
    BY <2>1, <2>2
<1> QED
  BY <1>1, <1>2, <1>3, <1>4, <1>5 DEF NextTx

\* A frame is put into a vacant slot.
LEMMA SlotFilled ==
    ASSUME TypeOK, SlotTimers, Vacant # {}, NEW e \in Pending, Put(e)
    PROVE  /\ slots' \in [Slots -> Pending \cup {None}] /\ timers' \in [Slots -> {0, 1}]
           /\ SlotTimers'
           /\ \A i \in Slots : slots[i] # None => slots'[i] = slots[i]
           /\ \A b \in Bufs : InSlot(b)' <=> InSlot(b) \/ b = e.buf
           /\ SlotsDiffer /\ ~InSlot(e.buf) => SlotsDiffer'
<1>1. PICK i \in Slots : i = Min(Vacant) /\ slots[i] = None
  BY SlotsFound
<1>2. slots' = [slots EXCEPT ![i] = e] /\ timers' = [timers EXCEPT ![i] = @ + 1]
  BY <1>1 DEF Put
<1>3. e # None
  BY NoneAssumption
<1>4. timers[i] = 0
  BY <1>1 DEF SlotTimers
<1>5. /\ slots' \in [Slots -> Pending \cup {None}] /\ timers' \in [Slots -> {0, 1}]
      /\ slots'[i] = e /\ timers'[i] = 1
      /\ \A j \in Slots : j # i => slots'[j] = slots[j] /\ timers'[j] = timers[j]
  BY <1>2, <1>4 DEF TypeOK
<1>6. SlotTimers'
  BY <1>3, <1>5 DEF SlotTimers
<1>7. \A b \in Bufs : InSlot(b)' <=> InSlot(b) \/ b = e.buf
  BY <1>1, <1>3, <1>5 DEF InSlot
<1>8. SlotsDiffer /\ ~InSlot(e.buf) => SlotsDiffer'
  BY <1>5 DEF SlotsDiffer, InSlot
<1> QED
  BY <1>1, <1>5, <1>6, <1>7, <1>8

\* A slot is emptied and its timeout cancelled.
LEMMA SlotEmptied ==
    ASSUME TypeOK, SlotTimers, NEW i \in Slots, slots[i] # None,
           slots' = [slots EXCEPT ![i] = None], timers' = [timers EXCEPT ![i] = 0]
    PROVE  /\ slots' \in [Slots -> Pending \cup {None}] /\ timers' \in [Slots -> {0, 1}]
           /\ SlotTimers'
           /\ \A j \in Slots : j # i => slots'[j] = slots[j]
           /\ InSlot(slots[i].buf)
           /\ SlotsDiffer => /\ SlotsDiffer'
                             /\ \A b \in Bufs : InSlot(b)' <=> InSlot(b) /\ b # slots[i].buf
<1>1. /\ slots' \in [Slots -> Pending \cup {None}] /\ timers' \in [Slots -> {0, 1}]
      /\ slots'[i] = None /\ timers'[i] = 0
      /\ \A j \in Slots : j # i => slots'[j] = slots[j] /\ timers'[j] = timers[j]
  BY DEF TypeOK
<1>2. SlotTimers' /\ InSlot(slots[i].buf)
  BY <1>1 DEF SlotTimers, InSlot
<1>3. SlotsDiffer => SlotsDiffer'
  BY <1>1 DEF SlotsDiffer
<1>4. SlotsDiffer => \A b \in Bufs : InSlot(b)' <=> InSlot(b) /\ b # slots[i].buf
  BY <1>1 DEF SlotsDiffer, InSlot
<1> QED
  BY <1>1, <1>2, <1>3, <1>4

\* What does not change keeps its buffers.
LEMMA SamePlaces ==
    /\ UNCHANGED slots =>
         (SlotsDiffer => SlotsDiffer') /\ \A b \in Bufs : InSlot(b)' <=> InSlot(b)
    /\ UNCHANGED mac_tx_q =>
         (QueueDiffers => QueueDiffers') /\ \A b \in Bufs : InQueue(b)' <=> InQueue(b)
    /\ UNCHANGED upper =>
         (UpperDiffers => UpperDiffers') /\ \A b \in Bufs : InUpper(b)' <=> InUpper(b)
    /\ UNCHANGED tx_wait_cb => \A b \in Bufs : InWait(b)' <=> InWait(b)
    /\ UNCHANGED <<slots, timers>> => (SlotTimers => SlotTimers')
<1>1. UNCHANGED slots =>
        (SlotsDiffer => SlotsDiffer') /\ \A b \in Bufs : InSlot(b)' <=> InSlot(b)
  BY DEF SlotsDiffer, InSlot
<1>2. UNCHANGED mac_tx_q =>
        (QueueDiffers => QueueDiffers') /\ \A b \in Bufs : InQueue(b)' <=> InQueue(b)
  BY DEF QueueDiffers, InQueue
<1>3. UNCHANGED upper =>
        (UpperDiffers => UpperDiffers') /\ \A b \in Bufs : InUpper(b)' <=> InUpper(b)
  BY DEF UpperDiffers, InUpper
<1>4. UNCHANGED tx_wait_cb => \A b \in Bufs : InWait(b)' <=> InWait(b)
  BY DEF InWait
<1>5. UNCHANGED <<slots, timers>> => (SlotTimers => SlotTimers')
  BY DEF SlotTimers
<1> QED
  BY <1>1, <1>2, <1>3, <1>4, <1>5

\* A buffer is handed up, or leaves the layers above, or changes its role.
LEMMA HandedUp ==
    ASSUME NEW h \in Held, upper' = upper \cup {h}
    PROVE  /\ \A b \in Bufs : InUpper(b)' <=> InUpper(b) \/ b = h.buf
           /\ UpperDiffers /\ ~InUpper(h.buf) => UpperDiffers'
  BY DEF InUpper, UpperDiffers

LEMMA HandedDown ==
    ASSUME NEW u \in upper, upper' = upper \ {u}
    PROVE  /\ InUpper(u.buf)
           /\ UpperDiffers => /\ UpperDiffers'
                              /\ \A b \in Bufs : InUpper(b)' <=> InUpper(b) /\ b # u.buf
  BY DEF InUpper, UpperDiffers

LEMMA RoleChanged ==
    ASSUME TypeOK, NEW u \in upper, NEW as \in Roles, upper' = Take(u, as)
    PROVE  /\ upper' \subseteq Held
           /\ \A b \in Bufs : InUpper(b)' <=> InUpper(b)
           /\ UpperDiffers => UpperDiffers'
           /\ \A v \in upper' : v \in upper \/ (v.as = as /\ v.buf = u.buf)
<1> DEFINE h == [u EXCEPT !.as = as]
<1>1. u \in Held /\ upper \subseteq Held
  BY DEF TypeOK
<1>2. h \in Held /\ h.buf = u.buf /\ h.as = as
  BY <1>1 DEF Held
<1>3. upper' = (upper \ {u}) \cup {h}
  BY DEF Take
<1> HIDE DEF h
<1>4. ASSUME NEW v \in upper'
      PROVE  v \in upper \/ (v.as = as /\ v.buf = u.buf)
  <2>1. v \in upper \/ v = h
    BY <1>3
  <2> QED
    BY <1>2, <2>1
<1>5. upper' \subseteq Held
  BY <1>1, <1>2, <1>3
<1>6. \A b \in Bufs : InUpper(b)' <=> InUpper(b)
  BY <1>2, <1>3 DEF InUpper
<1>7. UpperDiffers => UpperDiffers'
  BY <1>2, <1>3 DEF UpperDiffers
<1> QED
  BY <1>4, <1>5, <1>6, <1>7

-----------------------------------------------------------------------------
(* The layers above.                                                        *)

\* The histories of a buffer that leaves the layers above do not concern what
\* the transmitter waits for.
LEMMA NotAwaited ==
    ASSUME TypeOK, Undisturbed, NEW u \in upper
    PROVE  /\ tx_wait_cb # None => tx_wait_cb.buf # u.buf
           /\ Polling => tx_wait_cb.sent.buf # u.buf
           /\ \A v \in upper \ {u} : v.buf # u.buf
<1>1. u.buf \in Bufs /\ InUpper(u.buf)
  BY DEF TypeOK, Held, InUpper
<1>2. ~InSlot(u.buf) /\ ~InWait(u.buf)
  BY <1>1 DEF Undisturbed, OnePlace
<1>3. Polling => tx_wait_cb.i \in Slots /\ slots[tx_wait_cb.i] = tx_wait_cb.sent
                 /\ tx_wait_cb.sent \in Pending
  BY DEF Undisturbed, ContextKept, Polling, TypeOK, TxWaits
<1>4. Polling => tx_wait_cb.sent.buf # u.buf
  BY <1>2, <1>3, NoneAssumption DEF InSlot
<1> QED
  BY <1>2, <1>4 DEF InWait, Undisturbed, UpperDiffers

\* A packet of this device's own, and one received.
LEMMA NewBufferKeeps ==
    ASSUME MacInv, NEW b \in Bufs, NEW c \in Children, NEW as \in Roles \ {"confirm"},
           b \in free, free' = free \ {b},
           upper' = upper \cup {[buf |-> b, as |-> as, dev |-> c]},
           \/ UNCHANGED <<pending_buf, overlapped>>
           \/ Focus(b),
           UNCHANGED <<slots, timers, mac_tx_q, tx_wait_cb, lost, aired, unsecured, crashed>>
    PROVE  MacInv'
<1> DEFINE h == [buf |-> b, as |-> as, dev |-> c]
<1>0. h \in Held
  BY DEF Held
<1>1. TypeOK'
  BY <1>0 DEF MacInv, TypeOK, Focus
<1>2. SlotTimers'
  BY SamePlaces DEF MacInv
<1>3. ASSUME ~overlapped' PROVE Undisturbed'
  <2>1. Undisturbed /\ (Polling => UNCHANGED pending_buf)
    BY <1>3 DEF MacInv, Focus, TypeOK
  <2>2. ~InUpper(b)
    BY <2>1 DEF Undisturbed, OnePlace
  <2>3. SlotsDiffer' /\ QueueDiffers' /\ UpperDiffers'
    BY <1>0, <2>1, <2>2, SamePlaces, HandedUp DEF Undisturbed
  <2>4. OnePlace'
    BY <1>0, <2>1, SamePlaces, HandedUp DEF Undisturbed, OnePlace
  <2>5. ContextKept'
    BY <2>1 DEF Undisturbed, ContextKept, Polling
  <2>6. AiredKept'
    <3>1. ASSUME NEW v \in upper', v.as = "confirm"
          PROVE  v \in upper
      <4>1. v \in upper \/ v = h
        OBVIOUS
      <4>2. h.as # "confirm"
        OBVIOUS
      <4> QED
        BY <3>1, <4>1, <4>2
    <3> QED
      BY <2>1, <3>1 DEF Undisturbed, AiredKept, Polling
  <2> QED
    BY <2>1, <2>3, <2>4, <2>5, <2>6 DEF Undisturbed
<1> QED
  BY <1>1, <1>2, <1>3 DEF MacInv

\* A buffer is freed.
LEMMA FreeKeeps ==
    ASSUME MacInv, NEW u \in upper, zb_free_buf(u)
    PROVE  MacInv'
<1> USE DEF zb_free_buf
<1>0. u \in Held /\ u.buf \in Bufs
  BY DEF MacInv, TypeOK, Held
<1>1. TypeOK'
  BY <1>0 DEF MacInv, TypeOK
<1>2. SlotTimers'
  BY SamePlaces DEF MacInv
<1>3. ASSUME ~overlapped' PROVE Undisturbed'
  <2>1. Undisturbed
    BY <1>3 DEF MacInv
  <2>2. SlotsDiffer' /\ QueueDiffers' /\ UpperDiffers'
    BY <2>1, SamePlaces, HandedDown DEF Undisturbed
  <2>3. OnePlace'
    BY <1>0, <2>1, SamePlaces, HandedDown DEF Undisturbed, OnePlace
  <2>4. ContextKept'
    BY <2>1 DEF Undisturbed, ContextKept, Polling
  <2>5. AiredKept'
    <3>1. TypeOK
      BY DEF MacInv
    <3> QED
      BY <2>1, <3>1, NotAwaited DEF Undisturbed, AiredKept, Polling
  <2> QED
    BY <2>1, <2>2, <2>3, <2>4, <2>5 DEF Undisturbed
<1> QED
  BY <1>1, <1>2, <1>3 DEF MacInv

\* A callback that finds the ring full takes its buffer with it.
LEMMA ScheduleEffect ==
    ASSUME TypeOK, NEW call \in TxCalls, Schedule(call)
    PROVE  /\ mac_tx_q' \in Seq(TxCalls) /\ Len(mac_tx_q') <= ZB_MAC_QUEUE_SIZE
           /\ \/ /\ UNCHANGED lost
                 /\ \A b \in Bufs : InQueue(b)' <=> InQueue(b) \/ b = call.buf
                 /\ QueueDiffers /\ ~InQueue(call.buf) => QueueDiffers'
              \/ /\ lost' = lost \cup {call.buf}
                 /\ \A b \in Bufs : InQueue(b)' <=> InQueue(b)
                 /\ QueueDiffers => QueueDiffers'
<1>1. CASE Len(mac_tx_q) < ZB_MAC_QUEUE_SIZE
  <2>1. mac_tx_q' = Append(mac_tx_q, call) /\ UNCHANGED lost
    BY <1>1 DEF Schedule
  <2>2. mac_tx_q' \in Seq(TxCalls) /\ Len(mac_tx_q') <= ZB_MAC_QUEUE_SIZE
    BY <1>1, <2>1, SizesAssumption DEF TypeOK
  <2> QED
    BY <2>1, <2>2, Enqueued
<1>2. CASE ~(Len(mac_tx_q) < ZB_MAC_QUEUE_SIZE)
  <2>1. UNCHANGED mac_tx_q /\ lost' = lost \cup {call.buf}
    BY <1>2 DEF Schedule
  <2> QED
    BY <2>1, SamePlaces DEF TypeOK
<1> QED
  BY <1>1, <1>2

\* A frame is handed down.
LEMMA DataRequestKeeps ==
    ASSUME MacInv, NEW u \in upper, NEW op \in {"direct", "indirect"}, zb_mcps_data_request(u, op)
    PROVE  MacInv'
<1> DEFINE call == [op |-> op, buf |-> u.buf, addr |-> [mode |-> "short", dev |-> u.dev]]
<1>0. u \in Held /\ u.buf \in Bufs /\ call \in TxCalls /\ Schedule(call)
  BY DEF MacInv, TypeOK, Held, TxCalls, Addrs, zb_mcps_data_request
<1>a. /\ upper' = upper \ {u} /\ aired' = aired \ {u.buf}
      /\ unsecured' = unsecured \ {u.buf}
      /\ UNCHANGED <<slots, timers, pending_buf, tx_wait_cb, free, crashed, overlapped>>
  BY DEF zb_mcps_data_request
<1>b. call.buf = u.buf
  OBVIOUS
<1> HIDE DEF call
<1>1. TypeOK'
  BY <1>0, <1>a, <1>b, ScheduleEffect DEF MacInv, TypeOK
<1>2. SlotTimers'
  BY <1>a, SamePlaces DEF MacInv
<1>3. ASSUME ~overlapped' PROVE Undisturbed'
  <2>1. Undisturbed /\ TypeOK
    BY <1>3, <1>a DEF MacInv
  <2>2. InUpper(u.buf)
    BY DEF InUpper
  <2>3. ~InQueue(u.buf) /\ ~InSlot(u.buf) /\ ~InWait(u.buf)
    BY <1>0, <2>1, <2>2 DEF Undisturbed, OnePlace
  <2>4. SlotsDiffer' /\ QueueDiffers' /\ UpperDiffers'
    BY <1>0, <1>a, <1>b, <2>1, <2>3, SamePlaces, HandedDown, ScheduleEffect DEF Undisturbed
  <2>5. OnePlace'
    <3>1. \A b \in Bufs : /\ InSlot(b)' <=> InSlot(b)
                          /\ InWait(b)' <=> InWait(b)
                          /\ InUpper(b)' <=> InUpper(b) /\ b # u.buf
      BY <1>a, <2>1, SamePlaces, HandedDown DEF Undisturbed
    <3>2. \/ /\ UNCHANGED lost
             /\ \A b \in Bufs : InQueue(b)' <=> InQueue(b) \/ b = u.buf
          \/ /\ lost' = lost \cup {u.buf}
             /\ \A b \in Bufs : InQueue(b)' <=> InQueue(b)
      BY <1>0, <1>b, <2>1, ScheduleEffect
    <3> QED
      BY <1>0, <1>a, <2>1, <2>2, <3>1, <3>2 DEF Undisturbed, OnePlace
  <2>6. ContextKept'
    BY <1>a, <2>1 DEF Undisturbed, ContextKept, Polling
  <2>7. AiredKept'
    <3>1. \A v \in upper' : v \in upper \ {u}
      BY <1>a
    <3> QED
      BY <1>a, <2>1, <3>1, NotAwaited DEF Undisturbed, AiredKept, Polling
  <2> QED
    BY <1>a, <2>1, <2>4, <2>5, <2>6, <2>7 DEF Undisturbed
<1> QED
  BY <1>1, <1>2, <1>3 DEF MacInv

\* An association response is queued, or fails for want of a slot.
LEMMA AssociateResponseKeeps ==
    ASSUME MacInv, NEW u \in upper, zb_mlme_associate_response(u)
    PROVE  MacInv'
<1> DEFINE e == [buf |-> u.buf, dst |-> [mode |-> "long", dev |-> u.dev], frame |-> "command"]
<1>0. u \in Held /\ u.buf \in Bufs /\ e \in Pending /\ e.buf = u.buf /\ TypeOK /\ SlotTimers
  BY DEF MacInv, TypeOK, Held, Pending, Addrs
<1>a. /\ aired' = aired \ {u.buf} /\ unsecured' = unsecured \ {u.buf}
      /\ UNCHANGED <<mac_tx_q, tx_wait_cb, free, lost, crashed>>
      /\ overlapped' = (overlapped \/ Polling)
  BY DEF zb_mlme_associate_response, Focus
<1>b. \/ /\ Vacant # {} /\ upper' = upper \ {u} /\ Put(e) /\ pending_buf' = u.buf
      \/ /\ upper' = Take(u, "failed") /\ pending_buf' = None /\ UNCHANGED <<slots, timers>>
  BY DEF zb_mlme_associate_response, Focus
<1> HIDE DEF e
<1>c. \/ /\ slots' \in [Slots -> Pending \cup {None}] /\ timers' \in [Slots -> {0, 1}]
         /\ SlotTimers'
      \/ UNCHANGED <<slots, timers>>
  BY <1>0, <1>b, SlotFilled
<1>1. TypeOK'
  <2>1. upper' \subseteq Held
    BY <1>0, <1>b, RoleChanged DEF Roles, TypeOK
  <2> QED
    BY <1>0, <1>a, <1>b, <1>c, <2>1 DEF TypeOK
<1>2. SlotTimers'
  BY <1>0, <1>c, SamePlaces
<1>3. ASSUME ~overlapped' PROVE Undisturbed'
  <2>1. Undisturbed /\ ~Polling
    BY <1>3, <1>a DEF MacInv, TypeOK
  <2>2. InUpper(u.buf)
    BY DEF InUpper
  <2>3. ~InQueue(u.buf) /\ ~InSlot(u.buf) /\ ~InWait(u.buf)
    BY <1>0, <2>1, <2>2 DEF Undisturbed, OnePlace
  <2>4. /\ QueueDiffers'
        /\ \A b \in Bufs : (InQueue(b)' <=> InQueue(b)) /\ (InWait(b)' <=> InWait(b))
    BY <1>a, <2>1, SamePlaces DEF Undisturbed
  <2>5. \/ /\ SlotsDiffer' /\ UpperDiffers'
           /\ \A b \in Bufs : /\ InSlot(b)' <=> InSlot(b) \/ b = u.buf
                              /\ InUpper(b)' <=> InUpper(b) /\ b # u.buf
        \/ /\ SlotsDiffer' /\ UpperDiffers'
           /\ \A b \in Bufs : (InSlot(b)' <=> InSlot(b)) /\ (InUpper(b)' <=> InUpper(b))
    <3>1. CASE Vacant # {} /\ upper' = upper \ {u} /\ Put(e)
      BY <1>0, <2>1, <2>3, <3>1, SlotFilled, HandedDown DEF Undisturbed
    <3>2. CASE upper' = Take(u, "failed") /\ UNCHANGED slots
      BY <1>0, <2>1, <3>2, SamePlaces, RoleChanged DEF Undisturbed, Roles
    <3> QED
      BY <1>b, <3>1, <3>2
  <2>6. OnePlace'
    BY <1>0, <1>a, <2>1, <2>2, <2>4, <2>5 DEF Undisturbed, OnePlace
  <2>7. ContextKept'
    BY <1>a, <2>1 DEF ContextKept, Polling
  <2>8. AiredKept'
    <3>1. \A v \in upper' : v.as = "confirm" => v \in upper /\ v.buf # u.buf
      <4>1. CASE upper' = upper \ {u}
        BY <2>1, <4>1 DEF Undisturbed, UpperDiffers
      <4>2. CASE upper' = Take(u, "failed")
        <5>1. \A v \in upper' : v.as = "confirm" => v \in upper
          BY <1>0, <4>2, RoleChanged DEF Roles
        <5>2. u.as = "associate"
          BY DEF zb_mlme_associate_response
        <5> QED
          BY <2>1, <5>1, <5>2 DEF Undisturbed, UpperDiffers
      <4> QED
        BY <1>b, <4>1, <4>2
    <3>2. tx_wait_cb # None => tx_wait_cb.buf # u.buf
      BY <2>3 DEF InWait
    <3> QED
      BY <1>a, <2>1, <3>1, <3>2 DEF Undisturbed, AiredKept, Polling
  <2> QED
    BY <1>a, <2>1, <2>4, <2>5, <2>6, <2>7, <2>8 DEF Undisturbed
<1> QED
  BY <1>1, <1>2, <1>3 DEF MacInv

\* A status of a joining child is indicated.
LEMMA CommStatusKeeps ==
    ASSUME MacInv, NEW u \in upper, zb_mlme_comm_status_indication(u)
    PROVE  MacInv'
<1>0. u \in Held /\ u.buf \in Bufs /\ TypeOK
  BY DEF MacInv, TypeOK, Held
<1>a. UNCHANGED <<slots, timers, pending_buf, mac_tx_q, tx_wait_cb, free, aired, unsecured, crashed, overlapped>>
  BY DEF zb_mlme_comm_status_indication
<1>b. \/ upper' = Take(u, "work") /\ UNCHANGED lost
      \/ upper' = upper \ {u} /\ lost' = lost \cup {u.buf}
  BY DEF zb_mlme_comm_status_indication
<1>1. TypeOK'
  <2>1. upper' \subseteq Held
    BY <1>0, <1>b, RoleChanged DEF Roles, TypeOK
  <2> QED
    BY <1>0, <1>a, <1>b, <2>1 DEF TypeOK
<1>2. SlotTimers'
  BY <1>a, SamePlaces DEF MacInv
<1>3. ASSUME ~overlapped' PROVE Undisturbed'
  <2>1. Undisturbed
    BY <1>3, <1>a DEF MacInv
  <2>2. InUpper(u.buf)
    BY DEF InUpper
  <2>3. /\ QueueDiffers' /\ SlotsDiffer'
        /\ \A b \in Bufs : /\ InQueue(b)' <=> InQueue(b)
                           /\ InWait(b)' <=> InWait(b)
                           /\ InSlot(b)' <=> InSlot(b)
    BY <1>a, <2>1, SamePlaces DEF Undisturbed
  <2>4. /\ UpperDiffers'
        /\ \A v \in upper' : v.as = "confirm" => v \in upper
        /\ \/ UNCHANGED lost /\ \A b \in Bufs : InUpper(b)' <=> InUpper(b)
           \/ /\ lost' = lost \cup {u.buf}
              /\ \A b \in Bufs : InUpper(b)' <=> InUpper(b) /\ b # u.buf
    BY <1>0, <1>b, <2>1, HandedDown, RoleChanged DEF Undisturbed, Roles
  <2>5. OnePlace'
    BY <1>0, <1>a, <2>1, <2>2, <2>3, <2>4 DEF Undisturbed, OnePlace
  <2>6. ContextKept' /\ AiredKept'
    BY <1>a, <2>1, <2>4 DEF Undisturbed, ContextKept, AiredKept, Polling
  <2> QED
    BY <1>a, <2>1, <2>3, <2>4, <2>5, <2>6 DEF Undisturbed
<1> QED
  BY <1>1, <1>2, <1>3 DEF MacInv

\* A poll arrives and waits for the transmitter.
LEMMA PollRequestKeeps ==
    ASSUME MacInv, NEW b \in Bufs, NEW addr \in Addrs, DataRequestCommand(b, addr)
    PROVE  MacInv'
<1> DEFINE call == [op |-> "poll", buf |-> b, addr |-> addr]
<1>0. call \in TxCalls /\ call.buf = b /\ Schedule(call) /\ TypeOK
  BY DEF MacInv, TxCalls, DataRequestCommand
<1>a. /\ b \in free /\ free' = free \ {b}
      /\ UNCHANGED <<slots, timers, pending_buf, tx_wait_cb, upper, aired, unsecured, crashed, overlapped>>
  BY DEF DataRequestCommand
<1> HIDE DEF call
<1>1. TypeOK'
  BY <1>0, <1>a, ScheduleEffect DEF TypeOK
<1>2. SlotTimers'
  BY <1>a, SamePlaces DEF MacInv
<1>3. ASSUME ~overlapped' PROVE Undisturbed'
  <2>1. Undisturbed
    BY <1>3, <1>a DEF MacInv
  <2>2. ~InQueue(b)
    BY <1>a, <2>1 DEF Undisturbed, OnePlace
  <2>3. /\ SlotsDiffer' /\ UpperDiffers'
        /\ \A c \in Bufs : /\ InSlot(c)' <=> InSlot(c)
                           /\ InWait(c)' <=> InWait(c)
                           /\ InUpper(c)' <=> InUpper(c)
    BY <1>a, <2>1, SamePlaces DEF Undisturbed
  <2>4. /\ QueueDiffers'
        /\ \/ UNCHANGED lost /\ \A c \in Bufs : InQueue(c)' <=> InQueue(c) \/ c = b
           \/ lost' = lost \cup {b} /\ \A c \in Bufs : InQueue(c)' <=> InQueue(c)
    BY <1>0, <2>1, <2>2, ScheduleEffect DEF Undisturbed
  <2>5. OnePlace'
    BY <1>a, <2>1, <2>3, <2>4 DEF Undisturbed, OnePlace
  <2>6. ContextKept' /\ AiredKept'
    BY <1>a, <2>1 DEF Undisturbed, ContextKept, AiredKept, Polling
  <2> QED
    BY <1>a, <2>1, <2>3, <2>4, <2>5, <2>6 DEF Undisturbed
<1> QED
  BY <1>1, <1>2, <1>3 DEF MacInv

-----------------------------------------------------------------------------
(* The transmitter.                                                         *)

\* A frame for a device that listens is transmitted, or cannot be secured.
LEMMA SendDirectKeeps ==
    ASSUME MacInv, SendDirect
    PROVE  MacInv'
<1>0. TypeOK /\ NextTx("direct") /\ tx_wait_cb = None
  BY DEF MacInv, SendDirect, NextTx
<1>1. PICK call \in TxCalls : call = Head(mac_tx_q) /\ call.op = "direct"
  BY <1>0, Dequeued
<1>2. /\ pending_buf' = call.buf
      /\ \/ tx_wait_cb' = call /\ aired' = aired \cup {call.buf} /\ UNCHANGED lost
         \/ UNCHANGED <<tx_wait_cb, aired>> /\ lost' = lost \cup {call.buf}
      /\ UNCHANGED <<slots, timers, upper, free, unsecured, crashed, overlapped>>
  BY <1>1 DEF SendDirect
<1>3. call.buf \in Bufs /\ call \in TxWaits /\ call # None
  BY <1>1, NoneAssumption DEF TxCalls, TxWaits
<1>4. /\ mac_tx_q' \in Seq(TxCalls) /\ Len(mac_tx_q') <= ZB_MAC_QUEUE_SIZE /\ InQueue(call.buf)
      /\ QueueDiffers => /\ QueueDiffers'
                         /\ \A b \in Bufs : InQueue(b)' <=> InQueue(b) /\ b # call.buf
  BY <1>0, <1>1, Dequeued
<1>5. TypeOK'
  BY <1>0, <1>2, <1>3, <1>4 DEF TypeOK
<1>6. SlotTimers'
  BY <1>2, SamePlaces DEF MacInv
<1>7. ASSUME ~overlapped' PROVE Undisturbed'
  <2>1. Undisturbed
    BY <1>2, <1>7 DEF MacInv
  <2>2. /\ SlotsDiffer' /\ UpperDiffers'
        /\ \A b \in Bufs : (InSlot(b)' <=> InSlot(b)) /\ (InUpper(b)' <=> InUpper(b))
    BY <1>2, <2>1, SamePlaces DEF Undisturbed
  <2>3. \A b \in Bufs : ~InWait(b)
    BY <1>0 DEF InWait
  <2>4. \/ (\A b \in Bufs : InWait(b)' <=> b = call.buf) /\ UNCHANGED lost
        \/ (\A b \in Bufs : ~InWait(b)') /\ lost' = lost \cup {call.buf}
    BY <1>0, <1>2, <1>3 DEF InWait
  <2>5. OnePlace'
    BY <1>2, <1>3, <1>4, <2>1, <2>2, <2>3, <2>4 DEF Undisturbed, OnePlace
  <2>6. ContextKept'
    BY <1>0, <1>1, <1>2 DEF ContextKept, Polling
  <2>7. AiredKept'
    BY <1>0, <1>1, <1>2, <2>1 DEF Undisturbed, AiredKept, Polling
  <2> QED
    BY <1>2, <1>4, <2>1, <2>2, <2>5, <2>6, <2>7 DEF Undisturbed
<1> QED
  BY <1>5, <1>6, <1>7 DEF MacInv

\* A frame for a sleeping child is put into a slot, or forgotten.
LEMMA QueueIndirectKeeps ==
    ASSUME MacInv, QueueIndirect
    PROVE  MacInv'
<1>0. TypeOK /\ SlotTimers /\ NextTx("indirect") /\ tx_wait_cb = None
  BY DEF MacInv, QueueIndirect, NextTx
<1>1. PICK call \in TxCalls : call = Head(mac_tx_q)
  BY <1>0, Dequeued
<1>2. PICK e \in Pending : e = [buf |-> call.buf, dst |-> call.addr, frame |-> "data"]
  BY DEF TxCalls, Pending
<1>3. /\ pending_buf' = call.buf
      /\ \/ Vacant # {} /\ Put(e) /\ UNCHANGED lost
         \/ lost' = lost \cup {call.buf} /\ UNCHANGED <<slots, timers>>
      /\ UNCHANGED <<tx_wait_cb, upper, free, aired, unsecured, crashed, overlapped>>
  BY <1>1, <1>2 DEF QueueIndirect
<1>4. call.buf \in Bufs /\ e.buf = call.buf
  BY <1>2 DEF TxCalls
<1>5. /\ mac_tx_q' \in Seq(TxCalls) /\ Len(mac_tx_q') <= ZB_MAC_QUEUE_SIZE /\ InQueue(call.buf)
      /\ QueueDiffers => /\ QueueDiffers'
                         /\ \A b \in Bufs : InQueue(b)' <=> InQueue(b) /\ b # call.buf
  BY <1>0, <1>1, Dequeued
<1>6. \/ /\ slots' \in [Slots -> Pending \cup {None}] /\ timers' \in [Slots -> {0, 1}]
         /\ SlotTimers'
      \/ UNCHANGED <<slots, timers>>
  BY <1>0, <1>3, SlotFilled
<1>7. TypeOK'
  BY <1>0, <1>3, <1>4, <1>5, <1>6 DEF TypeOK
<1>8. SlotTimers'
  BY <1>0, <1>6, SamePlaces
<1>9. ASSUME ~overlapped' PROVE Undisturbed'
  <2>1. Undisturbed
    BY <1>3, <1>9 DEF MacInv
  <2>2. /\ UpperDiffers'
        /\ \A b \in Bufs : (InWait(b)' <=> InWait(b)) /\ (InUpper(b)' <=> InUpper(b))
    BY <1>3, <2>1, SamePlaces DEF Undisturbed
  <2>3. ~InSlot(e.buf)
    BY <1>4, <1>5, <2>1 DEF Undisturbed, OnePlace
  <2>4. /\ SlotsDiffer'
        /\ \/ UNCHANGED lost /\ \A b \in Bufs : InSlot(b)' <=> InSlot(b) \/ b = call.buf
           \/ lost' = lost \cup {call.buf} /\ \A b \in Bufs : InSlot(b)' <=> InSlot(b)
    <3>1. CASE Vacant # {} /\ Put(e) /\ UNCHANGED lost
      BY <1>0, <1>4, <2>1, <2>3, <3>1, SlotFilled DEF Undisturbed
    <3>2. CASE lost' = lost \cup {call.buf} /\ UNCHANGED slots
      BY <2>1, <3>2, SamePlaces DEF Undisturbed
    <3> QED
      BY <1>3, <3>1, <3>2
  <2>5. OnePlace'
    BY <1>3, <1>4, <1>5, <2>1, <2>2, <2>4 DEF Undisturbed, OnePlace
  <2>6. ContextKept' /\ AiredKept'
    BY <1>0, <1>3, <2>1 DEF Undisturbed, ContextKept, AiredKept, Polling
  <2> QED
    BY <1>3, <1>5, <2>1, <2>2, <2>4, <2>5, <2>6 DEF Undisturbed
<1> QED
  BY <1>7, <1>8, <1>9 DEF MacInv

\* A poll finds nothing.
LEMMA PollNothingKeeps ==
    ASSUME MacInv, PollNothing
    PROVE  MacInv'
<1>0. TypeOK /\ NextTx("poll") /\ tx_wait_cb = None
  BY DEF MacInv, PollNothing, NextTx
<1>1. PICK call \in TxCalls : call = Head(mac_tx_q)
  BY <1>0, Dequeued
<1>2. /\ free' = free \cup {call.buf} /\ pending_buf' = None
      /\ UNCHANGED <<slots, timers, tx_wait_cb, upper, lost, aired, unsecured, crashed, overlapped>>
  BY <1>1 DEF PollNothing
<1>3. call.buf \in Bufs
  BY DEF TxCalls
<1>4. /\ mac_tx_q' \in Seq(TxCalls) /\ Len(mac_tx_q') <= ZB_MAC_QUEUE_SIZE /\ InQueue(call.buf)
      /\ QueueDiffers => /\ QueueDiffers'
                         /\ \A b \in Bufs : InQueue(b)' <=> InQueue(b) /\ b # call.buf
  BY <1>0, <1>1, Dequeued
<1>5. TypeOK'
  BY <1>0, <1>2, <1>3, <1>4 DEF TypeOK
<1>6. SlotTimers'
  BY <1>2, SamePlaces DEF MacInv
<1>7. ASSUME ~overlapped' PROVE Undisturbed'
  <2>1. Undisturbed
    BY <1>2, <1>7 DEF MacInv
  <2>2. /\ SlotsDiffer' /\ UpperDiffers'
        /\ \A b \in Bufs : /\ InSlot(b)' <=> InSlot(b)
                           /\ InUpper(b)' <=> InUpper(b)
                           /\ InWait(b)' <=> InWait(b)
    BY <1>2, <2>1, SamePlaces DEF Undisturbed
  <2>3. OnePlace'
    BY <1>2, <1>3, <1>4, <2>1, <2>2 DEF Undisturbed, OnePlace
  <2>4. ContextKept' /\ AiredKept'
    BY <1>0, <1>2, <2>1 DEF Undisturbed, ContextKept, AiredKept, Polling
  <2> QED
    BY <1>2, <1>4, <2>1, <2>2, <2>3, <2>4 DEF Undisturbed
<1> QED
  BY <1>5, <1>6, <1>7 DEF MacInv

\* A poll finds a frame: the first half.
LEMMA PollFoundKeeps ==
    ASSUME MacInv, PollFound
    PROVE  MacInv'
<1>0. TypeOK /\ NextTx("poll") /\ tx_wait_cb = None
  BY DEF MacInv, PollFound, NextTx
<1>1. PICK call \in TxCalls : call = Head(mac_tx_q)
  BY <1>0, Dequeued
<1>2. call.buf \in Bufs /\ call.addr \in Addrs
  BY DEF TxCalls
<1>3. PICK i \in Slots : i = check_pending_data(call.addr) /\ slots[i] # None
  BY <1>1, <1>2, SlotsFound DEF PollFound
<1>4. PICK e \in Pending : e = slots[i]
  BY <1>0, <1>3 DEF TypeOK
<1>5. /\ tx_wait_cb' = [op |-> "poll", buf |-> call.buf, i |-> i, sent |-> e]
      /\ LET data == {b \in {e.buf} : e.frame = "data"}
         IN  \/ aired' = aired \cup data /\ UNCHANGED unsecured
             \/ unsecured' = unsecured \cup data /\ UNCHANGED aired
  BY <1>1, <1>3, <1>4 DEF PollFound
<1>6. /\ pending_buf' = call.buf
      /\ UNCHANGED <<slots, timers, upper, free, lost, crashed, overlapped>>
  BY <1>1 DEF PollFound
<1>7. tx_wait_cb' \in TxWaits /\ tx_wait_cb' # None
  BY <1>2, <1>5, NoneAssumption DEF TxWaits
<1>8. /\ mac_tx_q' \in Seq(TxCalls) /\ Len(mac_tx_q') <= ZB_MAC_QUEUE_SIZE /\ InQueue(call.buf)
      /\ QueueDiffers => /\ QueueDiffers'
                         /\ \A b \in Bufs : InQueue(b)' <=> InQueue(b) /\ b # call.buf
  BY <1>0, <1>1, Dequeued
<1>9. e.buf \in Bufs
  BY DEF Pending
<1>10. TypeOK'
  <2>1. aired' \subseteq Bufs /\ unsecured' \subseteq Bufs
    BY <1>0, <1>5, <1>9 DEF TypeOK
  <2> QED
    BY <1>0, <1>2, <1>6, <1>7, <1>8, <2>1 DEF TypeOK
<1>11. SlotTimers'
  BY <1>6, SamePlaces DEF MacInv
<1>12. ASSUME ~overlapped' PROVE Undisturbed'
  <2>1. Undisturbed
    BY <1>6, <1>12 DEF MacInv
  <2>2. /\ SlotsDiffer' /\ UpperDiffers'
        /\ \A b \in Bufs : (InSlot(b)' <=> InSlot(b)) /\ (InUpper(b)' <=> InUpper(b))
    BY <1>6, <2>1, SamePlaces DEF Undisturbed
  <2>3. \A b \in Bufs : ~InWait(b) /\ (InWait(b)' <=> b = call.buf)
    BY <1>0, <1>5, <1>7 DEF InWait
  <2>4. OnePlace'
    BY <1>2, <1>6, <1>8, <2>1, <2>2, <2>3 DEF Undisturbed, OnePlace
  <2>5. ContextKept'
    BY <1>4, <1>5, <1>6 DEF ContextKept, Polling
  <2>6. AiredKept'
    BY <1>5, <1>6, <2>1 DEF Undisturbed, AiredKept, Polling
  <2> QED
    BY <1>6, <1>8, <2>1, <2>2, <2>4, <2>5, <2>6 DEF Undisturbed
<1> QED
  BY <1>10, <1>11, <1>12 DEF MacInv

\* The second half of a direct transmission confirms it.
LEMMA DirectContinueKeeps ==
    ASSUME MacInv, zb_handle_mcps_data_req_continue
    PROVE  MacInv'
<1>0. TypeOK
  BY DEF MacInv
<1>1. PICK w \in TxWaits : w = tx_wait_cb /\ w # None /\ w.op = "direct"
  BY <1>0 DEF TypeOK, zb_handle_mcps_data_req_continue
<1>2. w.buf \in Bufs /\ w.addr.dev \in Children
  BY <1>1 DEF TxWaits, Addrs
<1>3. PICK h \in Held : h = [buf |-> w.buf, as |-> "confirm", dev |-> w.addr.dev]
  BY <1>2 DEF Held, Roles
<1>4. h.buf = w.buf /\ h.as = "confirm"
  BY <1>3
<1>5. /\ upper' = upper \cup {h} /\ pending_buf' = None /\ tx_wait_cb' = None
      /\ UNCHANGED <<slots, timers, mac_tx_q, free, lost, aired, unsecured, crashed, overlapped>>
  BY <1>1, <1>3 DEF zb_handle_mcps_data_req_continue
<1>6. TypeOK'
  BY <1>0, <1>5 DEF TypeOK
<1>7. SlotTimers'
  BY <1>5, SamePlaces DEF MacInv
<1>8. ASSUME ~overlapped' PROVE Undisturbed'
  <2>1. Undisturbed
    BY <1>5, <1>8 DEF MacInv
  <2>2. /\ SlotsDiffer' /\ QueueDiffers'
        /\ \A b \in Bufs : (InSlot(b)' <=> InSlot(b)) /\ (InQueue(b)' <=> InQueue(b))
    BY <1>5, <2>1, SamePlaces DEF Undisturbed
  <2>3. \A b \in Bufs : (InWait(b) <=> b = w.buf) /\ ~InWait(b)'
    BY <1>1, <1>5 DEF InWait
  <2>4. ~InUpper(w.buf)
    BY <1>2, <2>1, <2>3 DEF Undisturbed, OnePlace
  <2>5. UpperDiffers' /\ \A b \in Bufs : InUpper(b)' <=> InUpper(b) \/ b = w.buf
    BY <1>4, <1>5, <2>1, <2>4, HandedUp DEF Undisturbed
  <2>6. OnePlace'
    BY <1>2, <1>5, <2>1, <2>2, <2>3, <2>5 DEF Undisturbed, OnePlace
  <2>7. ContextKept'
    BY <1>5 DEF ContextKept, Polling
  <2>8. AiredKept'
    <3>1. w.buf \in aired
      BY <1>1, <2>1 DEF Undisturbed, AiredKept
    <3> QED
      BY <1>4, <1>5, <2>1, <3>1 DEF Undisturbed, AiredKept, Polling
  <2> QED
    BY <1>5, <2>1, <2>2, <2>5, <2>6, <2>7, <2>8 DEF Undisturbed
<1> QED
  BY <1>6, <1>7, <1>8 DEF MacInv

\* The second half of a poll.  Undisturbed, it frees one of the two buffers
\* and hands the other one up.
LEMMA CompletePollKeeps ==
    ASSUME MacInv, CompletePoll
    PROVE  MacInv'
<1>0. TypeOK /\ SlotTimers
  BY DEF MacInv
<1>1. PICK w \in TxWaits : w = tx_wait_cb /\ w # None /\ w.op = "poll"
  BY <1>0 DEF TypeOK, CompletePoll, Polling
<1>2. /\ w.buf \in Bufs /\ w.sent \in Pending
      /\ \E i \in Slots : i = w.i
  BY <1>1 DEF TxWaits
<1>3. PICK i \in Slots : i = w.i
  BY <1>2
<1>4. slots[i] # None /\ slots[i] \in Pending
  BY <1>0, <1>1, <1>3 DEF TypeOK, CompletePoll
<1>5. PICK e \in Pending : e = [slots[i] EXCEPT !.frame = w.sent.frame]
  BY <1>2, <1>4 DEF Pending
<1>6. e.buf = slots[i].buf /\ e.frame = w.sent.frame /\ e.buf \in Bufs /\ e.dst.dev \in Children
  BY <1>4, <1>5 DEF Pending, Addrs
<1>7. PICK status \in {"joined", "failed"} : upper' = upper \cup Reported(e, status)
  BY <1>1, <1>3, <1>5 DEF CompletePoll
<1>8. /\ e.frame = "command" => pending_buf # None
      /\ free' = free \cup Reclaimed(e)
      /\ slots' = [slots EXCEPT ![i] = None] /\ timers' = [timers EXCEPT ![i] = 0]
      /\ pending_buf' = None /\ tx_wait_cb' = None
      /\ UNCHANGED <<mac_tx_q, lost, aired, unsecured, crashed, overlapped>>
  BY <1>1, <1>3, <1>5 DEF CompletePoll
<1>9. PICK h \in Held :
        /\ upper' = upper \cup {h}
        /\ \/ /\ e.frame = "command" /\ h.buf = pending_buf /\ h.as # "confirm"
              /\ free' = free \cup {e.buf}
           \/ /\ e.frame = "data" /\ h.buf = e.buf
              /\ free' = free \cup ({pending_buf} \ {None})
  <2>1. CASE e.frame = "command"
    <3>1. pending_buf \in Bufs
      BY <1>0, <1>8, <2>1 DEF TypeOK
    <3>2. PICK h \in Held : h = [buf |-> pending_buf, as |-> status, dev |-> e.dst.dev]
      BY <1>6, <3>1 DEF Held, Roles
    <3> QED
      BY <1>7, <1>8, <2>1, <3>2 DEF Reported, Reclaimed
  <2>2. CASE e.frame = "data"
    <3>1. PICK h \in Held : h = [buf |-> e.buf, as |-> "confirm", dev |-> e.dst.dev]
      BY <1>6 DEF Held, Roles
    <3> QED
      BY <1>7, <1>8, <2>2, <3>1 DEF Reported, Reclaimed
  <2>3. e.frame \in {"data", "command"}
    BY DEF Pending
  <2> QED
    BY <2>1, <2>2, <2>3
<1>10. /\ slots' \in [Slots -> Pending \cup {None}] /\ timers' \in [Slots -> {0, 1}]
       /\ SlotTimers' /\ InSlot(e.buf)
       /\ SlotsDiffer => /\ SlotsDiffer'
                         /\ \A b \in Bufs : InSlot(b)' <=> InSlot(b) /\ b # e.buf
  BY <1>0, <1>4, <1>6, <1>8, SlotEmptied
<1>11. TypeOK'
  <2>1. free' \subseteq Bufs /\ upper' \subseteq Held
    BY <1>0, <1>6, <1>9 DEF TypeOK
  <2> QED
    BY <1>0, <1>8, <1>10, <2>1 DEF TypeOK
<1>12. ASSUME ~overlapped' PROVE Undisturbed'
  <2>1. Undisturbed
    BY <1>8, <1>12 DEF MacInv
  <2>2. pending_buf = w.buf /\ e.buf = w.sent.buf /\ pending_buf # None
    BY <1>1, <1>2, <1>3, <1>6, <2>1, SizesAssumption DEF Undisturbed, ContextKept, Polling
  <2>3. \A b \in Bufs : (InWait(b) <=> b = w.buf) /\ ~InWait(b)'
    BY <1>1, <1>8 DEF InWait
  <2>4. e.buf # w.buf
    BY <1>2, <1>10, <2>1, <2>3 DEF Undisturbed, OnePlace
  <2>5. \/ h.buf = w.buf /\ h.as # "confirm" /\ free' = free \cup {e.buf}
        \/ h.buf = e.buf /\ e.frame = "data" /\ free' = free \cup {w.buf}
    BY <1>9, <2>2
  <2>6. ~InUpper(h.buf)
    BY <1>2, <1>6, <1>10, <2>1, <2>3, <2>5 DEF Undisturbed, OnePlace
  <2>7. UpperDiffers' /\ \A b \in Bufs : InUpper(b)' <=> InUpper(b) \/ b = h.buf
    BY <1>9, <2>1, <2>6, HandedUp DEF Undisturbed
  <2>8. QueueDiffers' /\ \A b \in Bufs : InQueue(b)' <=> InQueue(b)
    BY <1>8, <2>1, SamePlaces DEF Undisturbed
  <2>9. SlotsDiffer' /\ \A b \in Bufs : InSlot(b)' <=> InSlot(b) /\ b # e.buf
    BY <1>10, <2>1 DEF Undisturbed
  <2>10. OnePlace'
    BY <1>2, <1>6, <1>8, <1>10, <2>1, <2>3, <2>4, <2>5, <2>7, <2>8, <2>9
       DEF Undisturbed, OnePlace
  <2>11. ContextKept'
    BY <1>8 DEF ContextKept, Polling
  <2>12. AiredKept'
    <3>1. e.frame = "data" => e.buf \in aired \cup unsecured
      BY <1>1, <1>6, <2>1, <2>2 DEF Undisturbed, AiredKept, Polling
    <3> QED
      BY <1>8, <1>9, <2>1, <2>5, <3>1 DEF Undisturbed, AiredKept, Polling
  <2> QED
    BY <1>8, <2>1, <2>7, <2>8, <2>9, <2>10, <2>11, <2>12 DEF Undisturbed
<1> QED
  BY <1>10, <1>11, <1>12 DEF MacInv

\* The second half of a poll uses NULL only after an overlap.
LEMMA CompleteOnNullKeeps ==
    ASSUME MacInv, CompleteOnNull
    PROVE  MacInv'
<1>0. TypeOK
  BY DEF MacInv
<1>1. PICK w \in TxWaits : w = tx_wait_cb /\ w # None /\ w.op = "poll"
  BY <1>0 DEF TypeOK, CompleteOnNull, Polling
<1>2. w.buf \in Bufs /\ w.sent \in Pending
  BY <1>1 DEF TxWaits
<1>3. overlapped
  <2> SUFFICES ASSUME ~overlapped PROVE FALSE
    BY <1>0 DEF TypeOK
  <2>1. pending_buf = w.buf /\ slots[w.i] = w.sent
    BY <1>1 DEF MacInv, Undisturbed, ContextKept, Polling
  <2>2. pending_buf # None /\ slots[w.i] # None
    BY <1>2, <2>1, SizesAssumption, NoneAssumption
  <2> QED
    BY <1>1, <2>2 DEF CompleteOnNull
<1>4. /\ crashed' = TRUE
      /\ UNCHANGED <<slots, timers, pending_buf, mac_tx_q, tx_wait_cb, upper,
                     free, lost, aired, unsecured, overlapped>>
  BY DEF CompleteOnNull
<1>5. TypeOK'
  BY <1>0, <1>4 DEF TypeOK
<1>6. SlotTimers'
  BY <1>4, SamePlaces DEF MacInv
<1> QED
  BY <1>3, <1>4, <1>5, <1>6 DEF MacInv

\* A child does not poll in time.
LEMMA TimeoutKeeps ==
    ASSUME MacInv, NEW i \in Slots, zb_mac_pending_data_timeout(i)
    PROVE  MacInv'
<1>0. TypeOK /\ SlotTimers
  BY DEF MacInv
<1>1. timers[i] = 1 /\ slots[i] # None /\ slots[i] \in Pending
  BY <1>0 DEF TypeOK, SlotTimers, zb_mac_pending_data_timeout
<1>2. PICK e \in Pending : e = slots[i]
  BY <1>1
<1>3. e.buf \in Bufs /\ e.dst.dev \in Children /\ e # None
  BY <1>1, <1>2 DEF Pending, Addrs
<1>4. PICK h \in Held : h = [buf |-> e.buf, as |-> "failed", dev |-> e.dst.dev]
  BY <1>3 DEF Held, Roles
<1>5. h.buf = e.buf /\ h.as = "failed"
  BY <1>4
<1>6. upper' = upper \cup {h}
  <2>1. {slots[i]} \ {None} = {e}
    BY <1>2, <1>3
  <2>2. upper' = upper \cup {[buf |-> x.buf, as |-> "failed", dev |-> x.dst.dev] : x \in {e}}
    BY <2>1 DEF zb_mac_pending_data_timeout
  <2> QED
    BY <1>4, <2>2
<1>7. /\ slots' = [slots EXCEPT ![i] = None] /\ timers' = [timers EXCEPT ![i] = @ - 1]
      /\ crashed' = FALSE
      /\ overlapped' = (overlapped \/ (Polling /\ tx_wait_cb.i = i))
      /\ UNCHANGED <<pending_buf, mac_tx_q, tx_wait_cb, free, lost, aired, unsecured>>
  BY <1>1 DEF zb_mac_pending_data_timeout
<1>8. timers' = [timers EXCEPT ![i] = 0]
  BY <1>0, <1>1, <1>7 DEF TypeOK
<1>9. /\ slots' \in [Slots -> Pending \cup {None}] /\ timers' \in [Slots -> {0, 1}]
      /\ SlotTimers' /\ InSlot(e.buf)
      /\ \A j \in Slots : j # i => slots'[j] = slots[j]
      /\ SlotsDiffer => /\ SlotsDiffer'
                        /\ \A b \in Bufs : InSlot(b)' <=> InSlot(b) /\ b # e.buf
  BY <1>0, <1>1, <1>2, <1>7, <1>8, SlotEmptied
<1>10. TypeOK'
  <2>1. overlapped' \in BOOLEAN
    BY <1>7
  <2> QED
    BY <1>0, <1>6, <1>7, <1>9, <2>1 DEF TypeOK
<1>11. ASSUME ~overlapped' PROVE Undisturbed'
  <2>1. Undisturbed /\ ~(Polling /\ tx_wait_cb.i = i)
    BY <1>0, <1>7, <1>11 DEF MacInv, TypeOK
  <2>2. ~InUpper(e.buf)
    BY <1>3, <1>9, <2>1 DEF Undisturbed, OnePlace
  <2>3. UpperDiffers' /\ \A b \in Bufs : InUpper(b)' <=> InUpper(b) \/ b = e.buf
    BY <1>5, <1>6, <2>1, <2>2, HandedUp DEF Undisturbed
  <2>4. /\ QueueDiffers'
        /\ \A b \in Bufs : (InQueue(b)' <=> InQueue(b)) /\ (InWait(b)' <=> InWait(b))
    BY <1>7, <2>1, SamePlaces DEF Undisturbed
  <2>5. SlotsDiffer' /\ \A b \in Bufs : InSlot(b)' <=> InSlot(b) /\ b # e.buf
    BY <1>9, <2>1 DEF Undisturbed
  <2>6. OnePlace'
    BY <1>3, <1>7, <1>9, <2>1, <2>3, <2>4, <2>5 DEF Undisturbed, OnePlace
  <2>7. ContextKept'
    <3>1. Polling => tx_wait_cb.i \in Slots
      BY <1>0 DEF TypeOK, Polling, TxWaits
    <3> QED
      BY <1>7, <1>9, <2>1, <3>1 DEF Undisturbed, ContextKept, Polling
  <2>8. AiredKept'
    BY <1>5, <1>6, <1>7, <2>1 DEF Undisturbed, AiredKept, Polling
  <2> QED
    BY <1>7, <2>3, <2>4, <2>5, <2>6, <2>7, <2>8 DEF Undisturbed
<1> QED
  BY <1>9, <1>10, <1>11 DEF MacInv

-----------------------------------------------------------------------------
(* The invariant, and what it says of the two halves.                       *)

\* At first every buffer is free, and nothing is queued or awaited.
LEMMA InitHolds ==
    ASSUME Init
    PROVE  MacInv
<1> USE DEF Init
<1>1. TypeOK
  <2>1. mac_tx_q \in Seq(TxCalls) /\ Len(mac_tx_q) <= ZB_MAC_QUEUE_SIZE
    BY SizesAssumption
  <2>2. slots \in [Slots -> Pending \cup {None}] /\ timers \in [Slots -> {0, 1}]
    OBVIOUS
  <2> QED
    BY <2>1, <2>2 DEF TypeOK
<1>2. SlotTimers
  BY DEF SlotTimers
<1>3. /\ \A b \in Bufs : ~InSlot(b) /\ ~InQueue(b) /\ ~InUpper(b) /\ ~InWait(b)
      /\ SlotsDiffer /\ QueueDiffers /\ UpperDiffers
  <2>1. Len(mac_tx_q) = 0 /\ 1 .. 0 = {}
    OBVIOUS
  <2> QED
    BY <2>1 DEF InSlot, InQueue, InUpper, InWait, SlotsDiffer, QueueDiffers, UpperDiffers
<1>4. OnePlace /\ ContextKept /\ AiredKept
  BY <1>3 DEF OnePlace, ContextKept, AiredKept, Polling
<1> QED
  BY <1>1, <1>2, <1>3, <1>4 DEF MacInv, Undisturbed

\* A step that changes nothing.
LEMMA StutterKeeps ==
    ASSUME MacInv, UNCHANGED vars
    PROVE  MacInv'
<1> USE DEF vars
<1>1. TypeOK'
  BY DEF MacInv, TypeOK
<1>2. SlotTimers'
  BY SamePlaces DEF MacInv
<1>3. ASSUME ~overlapped' PROVE Undisturbed'
  <2>1. Undisturbed
    BY <1>3 DEF MacInv
  <2>2. SlotsDiffer' /\ QueueDiffers' /\ UpperDiffers' /\ OnePlace'
    BY <2>1, SamePlaces DEF Undisturbed, OnePlace
  <2>3. ContextKept' /\ AiredKept'
    BY <2>1 DEF Undisturbed, ContextKept, AiredKept, Polling
  <2> QED
    BY <2>1, <2>2, <2>3 DEF Undisturbed
<1> QED
  BY <1>1, <1>2, <1>3 DEF MacInv

\* Every step of the MAC keeps the invariant.
LEMMA NextKeeps ==
    ASSUME MacInv, Next
    PROVE  MacInv'
<1>1. CASE Transmitter
  BY <1>1, SendDirectKeeps, QueueIndirectKeeps, PollNothingKeeps, PollFoundKeeps,
     DirectContinueKeeps, CompletePollKeeps, CompleteOnNullKeeps DEF Transmitter
<1>2. ASSUME NEW b \in Bufs, NEW c \in Children, GetOutBuf(b, c)
      PROVE  MacInv'
  <2>1. "work" \in Roles \ {"confirm"}
    BY DEF Roles
  <2> QED
    BY <1>2, <2>1, NewBufferKeeps DEF GetOutBuf
<1>3. ASSUME NEW u \in upper,
             \/ zb_free_buf(u)
             \/ \E op \in {"direct", "indirect"} : zb_mcps_data_request(u, op)
             \/ zb_mlme_associate_response(u)
             \/ zb_mlme_comm_status_indication(u)
      PROVE  MacInv'
  BY <1>3, FreeKeeps, DataRequestKeeps, AssociateResponseKeeps, CommStatusKeeps
<1>4. ASSUME NEW b \in Bufs, NEW c \in Children,
             zb_handle_data_frame(b, c) \/ zb_accept_ass_request_cmd(b, c)
      PROVE  MacInv'
  <2>1. "work" \in Roles \ {"confirm"} /\ "associate" \in Roles \ {"confirm"}
    BY DEF Roles
  <2>2. PICK as \in Roles \ {"confirm"} : Receive(b, c, as)
    BY <1>4, <2>1 DEF zb_handle_data_frame, zb_accept_ass_request_cmd
  <2> QED
    BY <2>2, NewBufferKeeps DEF Receive
<1>5. ASSUME NEW b \in Bufs, NEW addr \in Addrs, DataRequestCommand(b, addr)
      PROVE  MacInv'
  BY <1>5, PollRequestKeeps
<1>6. ASSUME NEW i \in Slots, zb_mac_pending_data_timeout(i)
      PROVE  MacInv'
  BY <1>6, TimeoutKeeps
<1> QED
  BY <1>1, <1>2, <1>3, <1>4, <1>5, <1>6 DEF Next, Upper, Received

\* Theorem.  The invariant holds in every state the MAC reaches.
THEOREM MacInvariant == Spec => []MacInv
<1>1. MacInv /\ [Next]_vars => MacInv'
  BY NextKeeps, StutterKeeps
<1> QED
  BY <1>1, InitHolds, PTL DEF Spec

\* Theorem.  Every variable keeps its type: the TX ring never exceeds its
\* size, and a slot never has two timeouts.
THEOREM TypeCorrect == Spec => []TypeOK
<1>1. MacInv => TypeOK
  BY DEF MacInv
<1> QED
  BY <1>1, MacInvariant, PTL

\* Theorem.  A slot is occupied exactly while its timeout is armed, whatever
\* comes between the two halves of a poll.
THEOREM SlotsAreTimed == Spec => []SlotTimers
<1>1. MacInv => SlotTimers
  BY DEF MacInv
<1> QED
  BY <1>1, MacInvariant, PTL

\* What refers to a buffer at most once is counted as a truth value.
LEMMA CountOfOne ==
    ASSUME NEW S, \A x, y \in S : x = y
    PROVE  Cardinality(S) = IF S = {} THEN 0 ELSE 1
<1>1. CASE S = {}
  BY <1>1, FS_EmptySet
<1>2. CASE S # {}
  <2>1. PICK x \in S : S = {x}
    BY <1>2
  <2> QED
    BY <1>2, <2>1, FS_Singleton
<1> QED
  BY <1>1, <1>2

\* One place, and once in it: one holder.
LEMMA HeldByOne ==
    ASSUME TypeOK, Undisturbed, NEW b \in Bufs
    PROVE  Holders(b) = 1
<1> DEFINE InSlots == {i \in Slots : slots[i] # None /\ slots[i].buf = b}
           InRing  == {k \in DOMAIN mac_tx_q : mac_tx_q[k].buf = b}
           Above   == {u \in upper : u.buf = b}
<1>0. DOMAIN mac_tx_q = 1 .. Len(mac_tx_q)
  BY DEF TypeOK
<1>1. /\ \A x, y \in InSlots : x = y
      /\ \A x, y \in InRing : x = y
      /\ \A x, y \in Above : x = y
  BY <1>0 DEF Undisturbed, SlotsDiffer, QueueDiffers, UpperDiffers
<1>2. (InSlots # {} <=> InSlot(b)) /\ (InRing # {} <=> InQueue(b)) /\ (Above # {} <=> InUpper(b))
  BY <1>0 DEF InSlot, InQueue, InUpper
<1>3. Holders(b) = Cardinality(InSlots) + Cardinality(InRing) + Cardinality(Above)
                   + (IF InWait(b) THEN 1 ELSE 0)
                   + (IF b \in free THEN 1 ELSE 0) + (IF b \in lost THEN 1 ELSE 0)
  BY DEF Holders, InWait
<1> HIDE DEF InSlots, InRing, Above
<1>4. /\ Cardinality(InSlots) = IF InSlot(b) THEN 1 ELSE 0
      /\ Cardinality(InRing) = IF InQueue(b) THEN 1 ELSE 0
      /\ Cardinality(Above) = IF InUpper(b) THEN 1 ELSE 0
  BY <1>1, <1>2, CountOfOne
<1> QED
  BY <1>3, <1>4 DEF Undisturbed, OnePlace

\* Theorem.  As long as nothing came between the two halves of a poll, every
\* buffer is held exactly once, no NULL was used, and a data confirm is for
\* a frame that was transmitted or that a poll could not secure.
THEOREM HalvesFitTogether == Spec => []HalvesFit
<1>1. MacInv => HalvesFit
  BY HeldByOne DEF MacInv, HalvesFit, HeldOnce, ConfirmMeansTried, Undisturbed, AiredKept
<1> QED
  BY <1>1, MacInvariant, PTL

=============================================================================
