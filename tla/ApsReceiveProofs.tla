-------------------------- MODULE ApsReceiveProofs --------------------------
(***************************************************************************)
(* Proofs about the receiving half of the APS sublayer, for every number   *)
(* of peers, slots, OUT buffers and packets.                               *)
(*                                                                         *)
(* RcvInv accounts for buffers and packets and needs no assumption.        *)
(* MemInv says what the memory of the duplicate check means; it needs that *)
(* no device leaves, because a freed slot keeps its memory for the next    *)
(* device.  WindowInv adds the time: a packet is remembered for two alarm  *)
(* periods if every peer finds a slot.                                     *)
(***************************************************************************)
EXTENDS ApsReceive, FiniteSetTheorems, WellFoundedInduction, TLAPS

-----------------------------------------------------------------------------
(* The inductive invariants.                                                *)

\* How often a packet is in the queue.
Occ(seq, p) == Cardinality({k \in 1 .. Len(seq) : seq[k] = p})

\* Every arrival is in the queue or was processed, every queued packet is in
\* the queue or was acknowledged.
Counted ==
    \A p \in Pkts :
        /\ copies[p] <= repeats + 1
        /\ queued[p] <= copies[p]
        /\ acked[p] + Occ(ack_q, p) = queued[p]
        /\ got[p] + Occ(ack_q, p) = copies[p]
        /\ up[p] + bad[p] <= got[p]

RcvInv ==
    /\ TypeOK
    /\ OneBufferPerPacket
    /\ EveryClockTicks
    /\ Counted

\* Nobody leaves the network.
NobodyLeaves == Leaves = 0

\* A slot that is not in use remembers nothing, and a peer has one slot.
SlotsClean ==
    /\ \A s \in Slots : IF addr_map[s].used THEN addr_map[s].addr \in Peers
                         ELSE addr_map[s].aps_dup_clock = 0
    /\ \A s, r \in Slots :
         addr_map[s].used /\ addr_map[r].used /\ addr_map[s].addr = addr_map[r].addr => s = r

\* A running clock stands for the last packet of the peer.
Remembers ==
    \A s \in Slots, a \in Peers :
        addr_map[s].used /\ addr_map[s].addr = a /\ addr_map[s].aps_dup_clock # 0 =>
            /\ <<a, last[a]>> \in Pkts
            /\ got[<<a, last[a]>>] > 0
            /\ addr_map[s].aps_dup_counter = Counter(<<a, last[a]>>)

MemInv == SlotsClean /\ Remembers /\ NoFreshRejected

\* Every peer finds a slot, and a copy comes within two periods of the alarm.
RoomForAll ==
    /\ NobodyLeaves
    /\ IsFiniteSet(Peers) /\ Cardinality(Peers) <= TableSize
    /\ DupWindow < DupCheckTimeout + DupCheckTimeout

\* Time a clock has to run when the alarm has just gone off.
ClockTime(n) ==
    IF n = 3 THEN DupCheckTimeout + DupCheckTimeout
    ELSE IF n = 2 THEN DupCheckTimeout ELSE 0

\* The slot of a peer that was heard holds its last packet, and its clock
\* runs on until the window is over.
HeldFor(s, a) ==
    \/ age[a] > DupWindow
    \/ /\ addr_map[s].aps_dup_clock # 0
       /\ age[a] + alarms[1] + ClockTime(addr_map[s].aps_dup_clock)
            >= DupCheckTimeout + DupCheckTimeout

WindowInv ==
    \A a \in Peers : last[a] # 0 =>
        \E s \in Slots : addr_map[s].used /\ addr_map[s].addr = a /\ HeldFor(s, a)

-----------------------------------------------------------------------------
(* Packets, slots and the queue.                                            *)

\* What a packet is made of; its counter is not its number modulo anything
\* as long as the peer does not start over.
LEMMA PktFields ==
    ASSUME NEW p \in Pkts
    PROVE  /\ p[1] \in Peers /\ p[2] \in 1 .. CounterSize /\ p = <<p[1], p[2]>>
           /\ Counter(p) = p[2] - 1 /\ Counter(p) \in 0 .. CounterSize - 1
<1>1. p \in Peers \X (1 .. CounterSize)
  BY DEF Pkts
<1>2. p[1] \in Peers /\ p[2] \in 1 .. CounterSize /\ p = <<p[1], p[2]>>
  BY <1>1
<1>3. \A n \in 0 .. CounterSize - 1 : n % CounterSize = n
  BY ReceiveAssumption
<1>4. p[2] - 1 \in 0 .. CounterSize - 1
  BY <1>2, ReceiveAssumption
<1> QED
  BY <1>2, <1>3, <1>4 DEF Counter

\* The search for a slot finds the first one.
LEMMA FirstOfSlots ==
    ASSUME NEW S \in SUBSET Slots, S # {}
    PROVE  First(S) \in S
<1> DEFINE R == {ss \in Nat \X Nat : ss[1] < ss[2]}
<1>0. S \subseteq Nat
  BY ReceiveAssumption DEF Slots
<1>1. IsWellFoundedOn(R, Nat)
  BY NatLessThanWellFounded DEF OpToRel
<1> HIDE DEF R
<1>2. PICK x \in S : \A y \in S : ~(<<y, x>> \in R)
  BY <1>0, <1>1, WFMin
<1>3. \A y \in S : ~(y < x)
  BY <1>0, <1>2 DEF R
<1>4. \A y \in S : x <= y
  BY <1>0, <1>3
<1> QED
  BY <1>4 DEF First

\* The slot of a peer: its own one, else one that is not in use, else none.
LEMMA SlotFound ==
    ASSUME NEW a \in Peers
    PROVE  /\ SlotFor(a) \in Slots =>
                \/ addr_map[SlotFor(a)].used /\ addr_map[SlotFor(a)].addr = a
                \/ ~addr_map[SlotFor(a)].used /\ SlotsOf(a) = {}
           /\ SlotFor(a) \notin Slots => SlotsOf(a) = {} /\ FreeSlots = {}
<1>1. SlotsOf(a) # {} => SlotFor(a) \in SlotsOf(a)
  BY FirstOfSlots DEF SlotFor, SlotsOf
<1>2. SlotsOf(a) = {} /\ FreeSlots # {} => SlotFor(a) \in FreeSlots
  BY FirstOfSlots DEF SlotFor, FreeSlots
<1>3. SlotsOf(a) = {} /\ FreeSlots = {} => SlotFor(a) \notin Slots
  BY ReceiveAssumption DEF SlotFor, Slots
<1>4. CASE SlotsOf(a) # {}
  BY <1>1, <1>4 DEF SlotsOf
<1>5. CASE SlotsOf(a) = {} /\ FreeSlots # {}
  BY <1>2, <1>5 DEF FreeSlots
<1> QED
  BY <1>3, <1>4, <1>5

\* A packet that enters the queue, and one that leaves it.
LEMMA OccNat ==
    ASSUME NEW D, NEW seq \in Seq(D), NEW p
    PROVE  IsFiniteSet({k \in 1 .. Len(seq) : seq[k] = p}) /\ Occ(seq, p) \in Nat
<1>1. IsFiniteSet(1 .. Len(seq))
  BY FS_Interval
<1> QED
  BY <1>1, FS_Subset, FS_CardinalityType DEF Occ

LEMMA OccAppend ==
    ASSUME NEW D, NEW seq \in Seq(D), NEW x \in D, NEW p
    PROVE  Occ(Append(seq, x), p) = Occ(seq, p) + (IF x = p THEN 1 ELSE 0)
<1> DEFINE n == Len(seq)
           S == {k \in 1 .. n : seq[k] = p}
           T == {k \in 1 .. Len(Append(seq, x)) : Append(seq, x)[k] = p}
<1>1. /\ n \in Nat /\ Len(Append(seq, x)) = n + 1 /\ Append(seq, x)[n + 1] = x
      /\ \A k \in 1 .. n : Append(seq, x)[k] = seq[k]
  OBVIOUS
<1>2. T = IF x = p THEN S \cup {n + 1} ELSE S
  BY <1>1
<1>3. n + 1 \notin S
  BY <1>1
<1>4. IsFiniteSet(S) /\ Cardinality(S) \in Nat
  BY OccNat DEF Occ
<1> HIDE DEF S, T
<1>5. Cardinality(T) = Cardinality(S) + (IF x = p THEN 1 ELSE 0)
  <2>1. Cardinality(S \cup {n + 1}) = Cardinality(S) + 1
    BY <1>3, <1>4, FS_AddElement
  <2> QED
    BY <1>2, <1>4, <2>1
<1> QED
  BY <1>5 DEF Occ, S, T

LEMMA OccTail ==
    ASSUME NEW D, NEW seq \in Seq(D), seq # << >>, NEW p
    PROVE  Occ(seq, p) = Occ(Tail(seq), p) + (IF Head(seq) = p THEN 1 ELSE 0)
<1> DEFINE n == Len(seq)
           S == {k \in 1 .. n : seq[k] = p}
           T == {k \in 1 .. Len(Tail(seq)) : Tail(seq)[k] = p}
           f == [k \in T |-> k + 1]
<1>1. /\ n \in Nat \ {0} /\ Len(Tail(seq)) = n - 1 /\ Head(seq) = seq[1]
      /\ Tail(seq) \in Seq(D)
      /\ \A k \in 1 .. n - 1 : Tail(seq)[k] = seq[k + 1]
  OBVIOUS
<1>2. /\ T \subseteq 1 .. n - 1
      /\ \A k \in 1 .. n - 1 : k \in T <=> k + 1 \in S
      /\ \A k \in S : k \in 1 .. n
      /\ 1 \in S <=> Head(seq) = p
  BY <1>1
<1>3. IsFiniteSet(S) /\ Cardinality(S) \in Nat
  BY OccNat DEF Occ
<1>4. IsFiniteSet(T)
  BY <1>1, OccNat
<1> HIDE DEF S, T
<1>5. f \in Bijection(T, S \ {1})
  <2>1. \A k \in T : k \in 1 .. n - 1 /\ k + 1 \in S /\ k + 1 # 1
    BY <1>1, <1>2
  <2>2. f \in [T -> S \ {1}]
    BY <2>1
  <2>3. \A k, l \in T : f[k] = f[l] => k = l
    BY <2>1
  <2>4. \A m \in S \ {1} : \E k \in T : f[k] = m
    <3> TAKE m \in S \ {1}
    <3>1. m - 1 \in 1 .. n - 1 /\ (m - 1) + 1 = m
      BY <1>1, <1>2
    <3>2. m - 1 \in T
      BY <1>2, <3>1
    <3> QED
      BY <3>1, <3>2
  <2> HIDE DEF f
  <2> QED
    BY <2>2, <2>3, <2>4 DEF Bijection, Injection, Surjection, IsInjective
<1>6. Cardinality(S \ {1}) = Cardinality(T)
  BY <1>4, <1>5, FS_Bijection DEF ExistsBijection
<1>7. Cardinality(S \ {1}) = IF 1 \in S THEN Cardinality(S) - 1 ELSE Cardinality(S)
  BY <1>3, FS_RemoveElement
<1>8. Cardinality(S) = Cardinality(T) + (IF Head(seq) = p THEN 1 ELSE 0)
  BY <1>2, <1>3, <1>6, <1>7
<1> QED
  BY <1>8 DEF Occ, S, T

\* Requests for an ACK among those that wait for an OUT buffer.
Kinds == {"ack", "other"}

LEMMA WaitingCounted ==
    /\ out_waiting = Occ(out_queue, "ack")
    /\ out_waiting' = Occ(out_queue', "ack")
  BY DEF out_waiting, Occ

LEMMA WaitingNat ==
    ASSUME TypeOK
    PROVE  /\ out_queue \in Seq(Kinds) /\ out_waiting \in Nat
           /\ Len(out_queue) \in Nat /\ Len(out_queue) + in_waiting <= ZB_BUF_Q_SIZE
           /\ out_free \in Nat /\ in_waiting \in Nat /\ out_granted \in Nat
           /\ out_others \in Nat /\ refused \in Nat /\ ZB_BUF_Q_SIZE \in Nat
<1>1. out_queue \in Seq(Kinds)
  BY DEF TypeOK, Kinds
<1>2. out_waiting \in Nat
  BY <1>1, OccNat, WaitingCounted
<1> QED
  BY <1>1, <1>2, ReceiveAssumption DEF TypeOK

LEMMA WaitingNoMore ==
    ASSUME TypeOK, out_queue # << >>
    PROVE  /\ Len(Tail(out_queue)) = Len(out_queue) - 1 /\ Tail(out_queue) \in Seq(Kinds)
           /\ Occ(Tail(out_queue), "ack") \in Nat
           /\ out_waiting = Occ(Tail(out_queue), "ack")
                              + (IF Head(out_queue) = "ack" THEN 1 ELSE 0)
<1>1. out_queue \in Seq(Kinds)
  BY WaitingNat
<1>2. Len(Tail(out_queue)) = Len(out_queue) - 1 /\ Tail(out_queue) \in Seq(Kinds)
  BY <1>1
<1>3. Occ(Tail(out_queue), "ack") \in Nat
  BY <1>2, OccNat
<1> QED
  BY <1>1, <1>2, <1>3, OccTail, WaitingCounted

LEMMA WaitingOneMore ==
    ASSUME TypeOK, RoomToWait, NEW kind \in Kinds, out_queue' = Append(out_queue, kind),
           in_waiting' = in_waiting
    PROVE  /\ out_queue' \in Seq(Kinds) /\ out_queue' # << >>
           /\ Len(out_queue') + in_waiting' <= ZB_BUF_Q_SIZE
           /\ out_waiting' = out_waiting + (IF kind = "ack" THEN 1 ELSE 0)
<1>1. out_queue \in Seq(Kinds)
  BY WaitingNat
<1>2. /\ out_queue' \in Seq(Kinds) /\ out_queue' # << >>
      /\ Len(out_queue') = Len(out_queue) + 1
  BY <1>1
<1>3. Len(out_queue') + in_waiting' <= ZB_BUF_Q_SIZE
  BY <1>2, WaitingNat DEF RoomToWait
<1>4. Occ(Append(out_queue, kind), "ack") = Occ(out_queue, "ack") + (IF kind = "ack" THEN 1 ELSE 0)
  BY <1>1, OccAppend
<1> QED
  BY <1>2, <1>3, <1>4, WaitingCounted

LEMMA WaitingSame ==
    ASSUME UNCHANGED out_queue
    PROVE  out_waiting' = out_waiting
  BY WaitingCounted

-----------------------------------------------------------------------------
(* The accounts.                                                            *)

\* A slot of the table, and the counts of a packet.
Entry == [used : BOOLEAN, addr : Peers \cup {NoAddr},
          aps_dup_counter : 0 .. CounterSize - 1, aps_dup_clock : 0 .. 3]
Count == [Pkts -> 0 .. MaxRepeats + 1]

\* What was counted, one packet more.
OneMore(f, p) == [f EXCEPT ![p] = @ + 1]

LEMMA CountedOneMore ==
    ASSUME NEW f \in Count, NEW p \in Pkts, f[p] <= MaxRepeats
    PROVE  /\ OneMore(f, p) \in Count
           /\ OneMore(f, p)[p] = f[p] + 1
           /\ \A x \in Pkts : x # p => OneMore(f, p)[x] = f[x]
<1>1. f[p] + 1 \in 0 .. MaxRepeats + 1
  BY ReceiveAssumption DEF Count
<1> QED
  BY <1>1 DEF OneMore, Count

\* The duplicate check keeps the table typed and the alarm running.
LEMMA DupsChecked ==
    ASSUME TypeOK, EveryClockTicks, NEW p \in Pkts, aps_check_dups(p[1], Counter(p))
    PROVE  /\ addr_map' \in [Slots -> Entry] /\ dups_alarm_running' \in BOOLEAN
           /\ alarms' \in Seq(0 .. DupCheckTimeout)
           /\ EveryClockTicks'
<1>0. p[1] \in Peers /\ Counter(p) \in 0 .. CounterSize - 1
  BY PktFields
<1>1. /\ addr_map \in [Slots -> Entry] /\ dups_alarm_running \in BOOLEAN
      /\ alarms \in Seq(0 .. DupCheckTimeout)
  BY DEF TypeOK, Entry
<1>2. CASE SlotFor(p[1]) \in Slots
  <2>0. PICK c \in 0 .. CounterSize - 1, a \in Peers : c = Counter(p) /\ a = p[1]
    BY <1>0
  <2> DEFINE e == [used |-> TRUE, addr |-> a, aps_dup_counter |-> c, aps_dup_clock |-> 3]
  <2>1. e \in Entry
    BY DEF Entry
  <2>2. PICK s \in Slots : s = SlotFor(p[1])
    BY <1>2
  <2>3. /\ addr_map' = [addr_map EXCEPT ![s] = e] /\ dups_alarm_running' = TRUE
        /\ alarms' = IF dups_alarm_running THEN alarms ELSE Append(alarms, DupCheckTimeout)
    BY <1>2, <2>0, <2>2 DEF aps_check_dups, DupClock
  <2> HIDE DEF e
  <2>4. DupCheckTimeout \in 0 .. DupCheckTimeout
    BY ReceiveAssumption
  <2>5. alarms' \in Seq(0 .. DupCheckTimeout) /\ Len(alarms') = 1
    <3>1. CASE dups_alarm_running
      BY <1>1, <2>3, <3>1 DEF EveryClockTicks
    <3>2. CASE ~dups_alarm_running
      <4>1. Len(alarms) = 0 /\ alarms' = Append(alarms, DupCheckTimeout)
        BY <2>3, <3>2 DEF EveryClockTicks
      <4> QED
        BY <1>1, <2>4, <4>1
    <3> QED
      BY <3>1, <3>2
  <2>6. addr_map' \in [Slots -> Entry]
    BY <1>1, <2>1, <2>3
  <2>7. EveryClockTicks'
    BY <2>3, <2>5 DEF EveryClockTicks
  <2> QED
    BY <2>3, <2>5, <2>6, <2>7
<1>3. CASE SlotFor(p[1]) \notin Slots
  BY <1>1, <1>3 DEF aps_check_dups, dupVars, EveryClockTicks
<1> QED
  BY <1>2, <1>3

\* A packet that is processed is counted once, and goes up at most once.
LEMMA Processed ==
    ASSUME TypeOK, EveryClockTicks, NEW p \in Pkts, NEW secure \in BOOLEAN,
           PassUpOrFree(p, secure), got[p] <= MaxRepeats,
           \A x \in Pkts : up[x] + bad[x] <= got[x]
    PROVE  /\ addr_map' \in [Slots -> Entry] /\ dups_alarm_running' \in BOOLEAN
           /\ alarms' \in Seq(0 .. DupCheckTimeout)
           /\ EveryClockTicks'
           /\ {got', up', bad'} \subseteq Count
           /\ got'[p] = got[p] + 1
           /\ \A x \in Pkts : x # p => got'[x] = got[x]
           /\ \A x \in Pkts : up'[x] + bad'[x] <= got'[x]
           /\ last' \in [Peers -> 0 .. CounterSize] /\ age' \in [Peers -> 0 .. MaxAge]
<1>0. p[1] \in Peers /\ p[2] \in 1 .. CounterSize
  BY PktFields
<1>1. got \in Count /\ up \in Count /\ bad \in Count
  BY DEF TypeOK, Count
<1>2. \A x \in Pkts : got[x] \in Nat /\ up[x] \in Nat /\ bad[x] \in Nat
  BY <1>1, ReceiveAssumption DEF Count
<1>3. up[p] <= MaxRepeats /\ bad[p] <= MaxRepeats
  BY <1>2, ReceiveAssumption
<1>4. /\ got' = OneMore(got, p)
      /\ \/ up' = OneMore(up, p) /\ bad' = bad
         \/ bad' = OneMore(bad, p) /\ up' = up
         \/ up' = up /\ bad' = bad
  BY DEF PassUpOrFree, OneMore
<1>5. /\ got' \in Count /\ got'[p] = got[p] + 1
      /\ \A x \in Pkts : x # p => got'[x] = got[x]
  BY <1>1, <1>4, CountedOneMore
<1>6. /\ up' \in Count /\ bad' \in Count
      /\ \A x \in Pkts : x # p => up'[x] = up[x] /\ bad'[x] = bad[x]
      /\ up'[p] + bad'[p] <= up[p] + bad[p] + 1
  <2>1. CASE up' = OneMore(up, p) /\ bad' = bad
    BY <1>1, <1>2, <1>3, <2>1, CountedOneMore
  <2>2. CASE bad' = OneMore(bad, p) /\ up' = up
    BY <1>1, <1>2, <1>3, <2>2, CountedOneMore
  <2>3. CASE up' = up /\ bad' = bad
    BY <1>1, <1>2, <2>3
  <2> QED
    BY <1>4, <2>1, <2>2, <2>3
<1>7. \A x \in Pkts : up'[x] + bad'[x] <= got'[x]
  <2> TAKE x \in Pkts
  <2>1. CASE x = p
    <3>1. up'[p] \in Nat /\ bad'[p] \in Nat
      BY <1>6, ReceiveAssumption DEF Count
    <3> QED
      BY <1>2, <1>5, <1>6, <2>1, <3>1
  <2>2. CASE x # p
    BY <1>5, <1>6, <2>2
  <2> QED
    BY <2>1, <2>2
<1>8. last' \in [Peers -> 0 .. CounterSize] /\ age' \in [Peers -> 0 .. MaxAge]
  <2>1. /\ last' = [last EXCEPT ![p[1]] = p[2]] /\ age' = [age EXCEPT ![p[1]] = 0]
        /\ last \in [Peers -> 0 .. CounterSize] /\ age \in [Peers -> 0 .. MaxAge]
    BY DEF PassUpOrFree, TypeOK
  <2>2. 0 \in 0 .. MaxAge /\ p[2] \in 0 .. CounterSize
    BY <1>0, ReceiveAssumption DEF MaxAge
  <2> QED
    BY <2>1, <2>2
<1>9. aps_check_dups(p[1], Counter(p))
  BY DEF PassUpOrFree
<1> QED
  BY <1>5, <1>6, <1>7, <1>8, <1>9, DupsChecked

\* A packet arrives.
LEMMA IndicationKeeps ==
    ASSUME RcvInv, NEW p \in Pkts, NEW ack_request \in BOOLEAN, NEW secure \in BOOLEAN,
           zb_nlde_data_indication(p, ack_request, secure)
    PROVE  RcvInv'
<1>0. TypeOK /\ OneBufferPerPacket /\ EveryClockTicks /\ Counted
  BY DEF RcvInv
<1>1. /\ copies \in Count /\ queued \in Count /\ acked \in Count /\ got \in Count
      /\ up \in Count /\ bad \in Count
      /\ repeats \in 0 .. MaxRepeats /\ sent \in [Peers -> 0 .. CounterSize]
      /\ ack_q \in Seq(Pkts) /\ Len(ack_q) <= AckQSize
  BY <1>0 DEF TypeOK, Count
<1>2. p[1] \in Peers /\ p[2] \in 1 .. CounterSize
  BY PktFields
<1>3. /\ repeats' \in 0 .. MaxRepeats /\ repeats' >= repeats
      /\ copies[p] <= repeats'
  BY <1>0, <1>1, ReceiveAssumption DEF zb_nlde_data_indication, Counted, Count
<1>4. /\ copies' \in Count /\ copies'[p] = copies[p] + 1
      /\ \A x \in Pkts : x # p => copies'[x] = copies[x]
  <2>1. copies' = OneMore(copies, p)
    BY DEF zb_nlde_data_indication, OneMore
  <2>2. copies[p] <= MaxRepeats
    BY <1>1, <1>3, ReceiveAssumption DEF Count
  <2> QED
    BY <1>1, <2>1, <2>2, CountedOneMore
<1>5. sent' \in [Peers -> 0 .. CounterSize]
  BY <1>1, <1>2 DEF zb_nlde_data_indication
<1>6. \A x \in Pkts : /\ copies[x] \in Nat /\ queued[x] \in Nat /\ acked[x] \in Nat
                      /\ got[x] \in Nat /\ Occ(ack_q, x) \in Nat
  <2>1. \A x \in Pkts : Occ(ack_q, x) \in Nat
    BY <1>1, OccNat
  <2> QED
    BY <1>1, <2>1, ReceiveAssumption DEF Count
<1>7. \A x \in Pkts : copies'[x] <= repeats' + 1
  <2> TAKE x \in Pkts
  <2>1. copies[x] <= repeats + 1
    BY <1>0 DEF Counted
  <2>2. CASE x = p
    BY <1>3, <1>4, <1>6, <2>2
  <2>3. CASE x # p
    BY <1>1, <1>3, <1>4, <1>6, <2>1, <2>3
  <2> QED
    BY <2>2, <2>3
<1>8. UNCHANGED <<in_waiting, out_others, acks, acked, left>>
  BY DEF zb_nlde_data_indication
<1>9. CASE /\ ack_request
           /\ RoomInAckQ
           /\ ack_q' = Append(ack_q, p)
           /\ queued' = [queued EXCEPT ![p] = @ + 1]
           /\ GetOutBufDelayed
           /\ UNCHANGED <<dupVars, got, up, bad, last, age>>
  <2>1. UNCHANGED <<addr_map, dups_alarm_running, alarms, got, up, bad, last, age>>
    BY <1>9 DEF dupVars
  <2>2. /\ queued' \in Count /\ queued'[p] = queued[p] + 1
        /\ \A x \in Pkts : x # p => queued'[x] = queued[x]
    <3>1. queued' = OneMore(queued, p)
      BY <1>9 DEF OneMore
    <3>2. queued[p] <= MaxRepeats
      BY <1>0, <1>1, <1>3, <1>6, ReceiveAssumption DEF Counted
    <3> QED
      BY <1>1, <3>1, <3>2, CountedOneMore
  <2>3. ack_q' \in Seq(Pkts) /\ Len(ack_q') = Len(ack_q) + 1 /\ Len(ack_q') <= AckQSize
    BY <1>1, <1>9, ReceiveAssumption DEF RoomInAckQ
  <2>4. \A x \in Pkts : Occ(ack_q', x) = Occ(ack_q, x) + (IF p = x THEN 1 ELSE 0)
    BY <1>1, <1>9, OccAppend
  <2>5. Counted'
    <3> SUFFICES ASSUME NEW x \in Pkts
                 PROVE  /\ queued'[x] <= copies'[x]
                        /\ acked'[x] + Occ(ack_q', x) = queued'[x]
                        /\ got'[x] + Occ(ack_q', x) = copies'[x]
                        /\ up'[x] + bad'[x] <= got'[x]
      BY <1>7 DEF Counted
    <3>1. /\ queued[x] <= copies[x] /\ acked[x] + Occ(ack_q, x) = queued[x]
          /\ got[x] + Occ(ack_q, x) = copies[x] /\ up[x] + bad[x] <= got[x]
      BY <1>0 DEF Counted
    <3>2. CASE x = p
      BY <1>4, <1>6, <1>8, <2>1, <2>2, <2>4, <3>1, <3>2
    <3>3. CASE x # p
      BY <1>4, <1>6, <1>8, <2>1, <2>2, <2>4, <3>1, <3>3
    <3> QED
      BY <3>2, <3>3
  <2>6. /\ OneBufferPerPacket'
        /\ {out_free', in_waiting', out_granted', out_others', refused'} \subseteq Nat
        /\ out_queue' \in Seq(Kinds) /\ Len(out_queue') + in_waiting' <= ZB_BUF_Q_SIZE
    <3>1. /\ out_free \in Nat /\ in_waiting \in Nat /\ out_granted \in Nat
          /\ out_others \in Nat /\ refused \in Nat /\ out_waiting \in Nat
          /\ out_queue \in Seq(Kinds) /\ Len(out_queue) + in_waiting <= ZB_BUF_Q_SIZE
          /\ Len(acks) \in Nat /\ Len(ack_q) \in Nat
      <4>1. Len(acks) \in Nat /\ Len(ack_q) \in Nat
        BY <1>0 DEF TypeOK
      <4> QED
        BY <1>0, <4>1, WaitingNat
    <3>2. GetOutBufDelayed /\ out_others' = out_others /\ acks' = acks /\ in_waiting' = in_waiting
      BY <1>8, <1>9
    <3>3. /\ out_free' \in Nat /\ out_granted' \in Nat /\ refused' \in Nat
          /\ out_queue' \in Seq(Kinds) /\ Len(out_queue') + in_waiting' <= ZB_BUF_Q_SIZE
          /\ out_free' + out_granted' = out_free + out_granted
          /\ out_waiting' + out_granted' + refused' = out_waiting + out_granted + refused + 1
          /\ out_queue' # << >> => out_free' = 0
      <4>1. CASE /\ out_free > 0 /\ out_free' = out_free - 1
                 /\ out_granted' = out_granted + 1 /\ UNCHANGED <<out_queue, refused>>
        <5>1. out_waiting' = out_waiting
          BY <4>1, WaitingSame
        <5>2. out_queue = << >>
          BY <1>0, <4>1 DEF OneBufferPerPacket
        <5> QED
          BY <3>1, <3>2, <4>1, <5>1, <5>2
      <4>2. CASE /\ out_free = 0 /\ RoomToWait /\ out_queue' = Append(out_queue, "ack")
                 /\ UNCHANGED <<out_free, out_granted, refused>>
        <5>1. /\ out_queue' \in Seq(Kinds) /\ out_waiting' = out_waiting + 1
              /\ Len(out_queue') + in_waiting' <= ZB_BUF_Q_SIZE
          BY <1>0, <3>2, <4>2, WaitingOneMore DEF Kinds
        <5> QED
          BY <3>1, <3>2, <4>2, <5>1
      <4>3. CASE /\ out_free = 0 /\ ~RoomToWait /\ refused' = refused + 1
                 /\ UNCHANGED <<out_free, out_queue, out_granted>>
        <5>1. out_waiting' = out_waiting
          BY <4>3, WaitingSame
        <5> QED
          BY <3>1, <3>2, <4>3, <5>1
      <4> QED
        BY <3>2, <4>1, <4>2, <4>3 DEF GetOutBufDelayed
    <3>4. OneBufferPerPacket'
      <4>1. Len(ack_q) = out_waiting + out_granted + refused
            /\ out_free + out_granted + out_others + Len(acks) = OutBufs
        BY <1>0 DEF OneBufferPerPacket
      <4>2. out_waiting' \in Int
        <5>1. Occ(out_queue', "ack") \in Nat
          BY <3>3, OccNat
        <5> QED
          BY <5>1, WaitingCounted
      <4>3. Len(ack_q') = out_waiting' + out_granted' + refused'
        BY <2>3, <3>1, <3>3, <4>1, <4>2
      <4>4. out_free' + out_granted' + out_others' + Len(acks') = OutBufs
        BY <3>1, <3>2, <3>3, <4>1
      <4> QED
        BY <3>3, <4>3, <4>4 DEF OneBufferPerPacket
    <3> QED
      BY <3>1, <3>2, <3>3, <3>4
  <2>7. TypeOK'
    <3>1. {queued', acked', got', up', bad'} \subseteq Count
      BY <1>1, <1>8, <2>1, <2>2
    <3> QED
      BY <1>0, <1>3, <1>4, <1>5, <1>8, <2>1, <2>3, <2>6, <3>1 DEF TypeOK, Count, Kinds
  <2>8. EveryClockTicks'
    BY <1>0, <2>1 DEF EveryClockTicks
  <2> QED
    BY <2>5, <2>6, <2>7, <2>8 DEF RcvInv
<1>10. CASE /\ ~ack_request \/ ~RoomInAckQ
            /\ PassUpOrFree(p, secure)
            /\ UNCHANGED <<ack_q, queued, out_free, out_queue, out_granted, refused>>
  <2>1. got[p] <= MaxRepeats /\ \A x \in Pkts : up[x] + bad[x] <= got[x]
    BY <1>0, <1>1, <1>3, <1>6, ReceiveAssumption DEF Counted
  <2>2. /\ addr_map' \in [Slots -> Entry] /\ dups_alarm_running' \in BOOLEAN
        /\ alarms' \in Seq(0 .. DupCheckTimeout)
        /\ EveryClockTicks'
        /\ {got', up', bad'} \subseteq Count
        /\ got'[p] = got[p] + 1
        /\ \A x \in Pkts : x # p => got'[x] = got[x]
        /\ \A x \in Pkts : up'[x] + bad'[x] <= got'[x]
        /\ last' \in [Peers -> 0 .. CounterSize] /\ age' \in [Peers -> 0 .. MaxAge]
    BY <1>0, <1>10, <2>1, Processed
  <2>3. Counted'
    <3> SUFFICES ASSUME NEW x \in Pkts
                 PROVE  /\ queued'[x] <= copies'[x]
                        /\ acked'[x] + Occ(ack_q', x) = queued'[x]
                        /\ got'[x] + Occ(ack_q', x) = copies'[x]
      BY <1>7, <2>2 DEF Counted
    <3>1. /\ queued[x] <= copies[x] /\ acked[x] + Occ(ack_q, x) = queued[x]
          /\ got[x] + Occ(ack_q, x) = copies[x]
      BY <1>0 DEF Counted
    <3>2. Occ(ack_q', x) = Occ(ack_q, x)
      BY <1>10
    <3>3. CASE x = p
      BY <1>4, <1>6, <1>8, <1>10, <2>2, <3>1, <3>2, <3>3
    <3>4. CASE x # p
      BY <1>4, <1>6, <1>8, <1>10, <2>2, <3>1, <3>2, <3>4
    <3> QED
      BY <3>3, <3>4
  <2>4. OneBufferPerPacket'
    BY <1>0, <1>8, <1>10, WaitingSame DEF OneBufferPerPacket
  <2>5. TypeOK'
    <3>1. {queued', acked', got', up', bad'} \subseteq Count
      BY <1>1, <1>8, <1>10, <2>2
    <3> QED
      BY <1>0, <1>3, <1>4, <1>5, <1>8, <1>10, <2>2, <3>1 DEF TypeOK, Count, Entry
  <2> QED
    BY <2>2, <2>3, <2>4, <2>5 DEF RcvInv
<1> QED
  BY <1>9, <1>10 DEF zb_nlde_data_indication

\* What is counted in the queue needs nothing but the queue and the counts.
LEMMA CountedSame ==
    ASSUME Counted, UNCHANGED <<ack_q, copies, repeats, queued, acked, got, up, bad>>
    PROVE  Counted'
  BY DEF Counted

\* The first packet of the queue gets its ACK.
LEMMA SendAckKeeps ==
    ASSUME RcvInv, NEW secure \in BOOLEAN, zb_aps_send_ack_and_continue(secure)
    PROVE  RcvInv'
<1>0. TypeOK /\ OneBufferPerPacket /\ EveryClockTicks /\ Counted
  BY DEF RcvInv
<1>1. /\ copies \in Count /\ queued \in Count /\ acked \in Count /\ got \in Count
      /\ repeats \in 0 .. MaxRepeats
      /\ ack_q \in Seq(Pkts) /\ Len(ack_q) <= AckQSize /\ acks \in Seq(Pkts)
      /\ out_free \in Nat /\ out_waiting \in Nat /\ out_granted \in Nat /\ out_others \in Nat
      /\ in_waiting \in Nat /\ refused \in Nat
  BY <1>0, WaitingNat DEF TypeOK, Count
<1>2. /\ out_granted > 0 /\ out_granted' = out_granted - 1
      /\ UNCHANGED <<out_free, out_queue, in_waiting, out_others, refused, sent, copies, repeats,
                     left, queued>>
      /\ out_waiting' = out_waiting
  BY WaitingSame DEF zb_aps_send_ack_and_continue, netVars
<1>3. ack_q # << >> /\ Len(ack_q) \in Nat /\ Len(ack_q) = out_waiting + out_granted + refused
  BY <1>0, <1>1, <1>2 DEF OneBufferPerPacket
<1>4. PICK p \in Pkts : p = Head(ack_q)
  BY <1>1, <1>3
<1>5. /\ ack_q' = Tail(ack_q) /\ acks' = Append(acks, p) /\ acked' = OneMore(acked, p)
      /\ PassUpOrFree(p, secure)
  BY <1>4 DEF zb_aps_send_ack_and_continue, OneMore
<1>6. /\ ack_q' \in Seq(Pkts) /\ Len(ack_q') = Len(ack_q) - 1 /\ Len(ack_q') <= AckQSize
      /\ acks' \in Seq(Pkts) /\ Len(acks') = Len(acks) + 1 /\ Len(acks) \in Nat
  BY <1>1, <1>3, <1>5, ReceiveAssumption
<1>7. \A x \in Pkts : /\ Occ(ack_q', x) \in Nat
                      /\ Occ(ack_q, x) = Occ(ack_q', x) + (IF p = x THEN 1 ELSE 0)
  BY <1>1, <1>3, <1>4, <1>5, <1>6, OccTail, OccNat
<1>8. \A x \in Pkts : /\ copies[x] \in Nat /\ queued[x] \in Nat /\ acked[x] \in Nat
                      /\ got[x] \in Nat /\ copies[x] <= repeats + 1
                      /\ queued[x] <= copies[x] /\ acked[x] + Occ(ack_q, x) = queued[x]
                      /\ got[x] + Occ(ack_q, x) = copies[x] /\ up[x] + bad[x] <= got[x]
  BY <1>0, <1>1, ReceiveAssumption DEF Counted, Count
<1>9. acked[p] <= MaxRepeats /\ got[p] <= MaxRepeats
  BY <1>1, <1>7, <1>8, ReceiveAssumption
<1>10. /\ acked' \in Count /\ acked'[p] = acked[p] + 1
       /\ \A x \in Pkts : x # p => acked'[x] = acked[x]
  BY <1>1, <1>5, <1>9, CountedOneMore
<1>11. /\ addr_map' \in [Slots -> Entry] /\ dups_alarm_running' \in BOOLEAN
       /\ alarms' \in Seq(0 .. DupCheckTimeout)
       /\ EveryClockTicks'
       /\ {got', up', bad'} \subseteq Count
       /\ got'[p] = got[p] + 1
       /\ \A x \in Pkts : x # p => got'[x] = got[x]
       /\ \A x \in Pkts : up'[x] + bad'[x] <= got'[x]
       /\ last' \in [Peers -> 0 .. CounterSize] /\ age' \in [Peers -> 0 .. MaxAge]
  BY <1>0, <1>5, <1>8, <1>9, Processed
<1>12. Counted'
  <2> SUFFICES ASSUME NEW x \in Pkts
               PROVE  /\ copies'[x] <= repeats' + 1
                      /\ queued'[x] <= copies'[x]
                      /\ acked'[x] + Occ(ack_q', x) = queued'[x]
                      /\ got'[x] + Occ(ack_q', x) = copies'[x]
    BY <1>11 DEF Counted
  <2>1. CASE x = p
    <3>1. Occ(ack_q', p) \in Nat /\ Occ(ack_q, p) = Occ(ack_q', p) + 1
      BY <1>7
    <3>2. /\ copies[p] \in Nat /\ queued[p] \in Nat /\ acked[p] \in Nat /\ got[p] \in Nat
          /\ copies[p] <= repeats + 1 /\ queued[p] <= copies[p]
          /\ acked[p] + Occ(ack_q, p) = queued[p] /\ got[p] + Occ(ack_q, p) = copies[p]
      BY <1>8
    <3>3. /\ acked'[p] = acked[p] + 1 /\ got'[p] = got[p] + 1
          /\ copies'[p] = copies[p] /\ queued'[p] = queued[p] /\ repeats' = repeats
      BY <1>2, <1>10, <1>11
    <3>4. /\ copies'[p] <= repeats' + 1 /\ queued'[p] <= copies'[p]
          /\ acked'[p] + Occ(ack_q', p) = queued'[p]
          /\ got'[p] + Occ(ack_q', p) = copies'[p]
      BY <3>1, <3>2, <3>3
    <3> QED
      BY <2>1, <3>4
  <2>2. CASE x # p
    BY <1>2, <1>7, <1>8, <1>10, <1>11, <2>2
  <2> QED
    BY <2>1, <2>2
<1>13. OneBufferPerPacket'
  BY <1>0, <1>1, <1>2, <1>3, <1>6 DEF OneBufferPerPacket
<1>14. TypeOK'
  <2>1. {queued', acked', got', up', bad'} \subseteq Count
    BY <1>1, <1>2, <1>10, <1>11
  <2>2. {out_free', in_waiting', out_granted', out_others', refused'} \subseteq Nat
    BY <1>1, <1>2
  <2> QED
    BY <1>0, <1>2, <1>6, <1>11, <2>1, <2>2 DEF TypeOK, Count, Entry
<1> QED
  BY <1>11, <1>12, <1>13, <1>14 DEF RcvInv

\* A buffer that is freed goes to a request that waits, or becomes free.
LEMMA BufferFreed ==
    ASSUME TypeOK, OneBufferPerPacket, NEW others \in Nat, FreeOutBuf(others),
           UNCHANGED in_waiting
    PROVE  /\ out_free' \in Nat /\ out_waiting' \in Nat /\ out_granted' \in Nat
           /\ out_others' \in Nat /\ out_queue' \in Seq(Kinds)
           /\ Len(out_queue') + in_waiting' <= ZB_BUF_Q_SIZE
           /\ out_free' + out_granted' + out_others' = out_free + out_granted + others + 1
           /\ out_waiting' + out_granted' = out_waiting + out_granted
           /\ out_queue' # << >> => out_free' = 0
<1>1. /\ out_free \in Nat /\ out_waiting \in Nat /\ out_granted \in Nat /\ in_waiting \in Nat
      /\ out_queue \in Seq(Kinds) /\ Len(out_queue) \in Nat
      /\ Len(out_queue) + in_waiting <= ZB_BUF_Q_SIZE /\ ZB_BUF_Q_SIZE \in Nat
  BY WaitingNat
<1>2. CASE /\ out_queue = << >> /\ out_free' = out_free + 1 /\ out_others' = others
           /\ UNCHANGED <<out_queue, out_granted>>
  BY <1>1, <1>2, WaitingSame
<1>3. CASE /\ out_queue # << >> /\ out_queue' = Tail(out_queue) /\ UNCHANGED out_free
           /\ \/ /\ Head(out_queue) = "ack" /\ out_granted' = out_granted + 1
                 /\ out_others' = others
              \/ /\ Head(out_queue) = "other" /\ out_others' = others + 1
                 /\ UNCHANGED out_granted
  <2>1. /\ Len(out_queue') = Len(out_queue) - 1 /\ out_queue' \in Seq(Kinds)
        /\ out_waiting' \in Nat
        /\ out_waiting = out_waiting' + (IF Head(out_queue) = "ack" THEN 1 ELSE 0)
    BY <1>3, WaitingNoMore, WaitingCounted
  <2>2. out_free = 0
    BY <1>3 DEF OneBufferPerPacket
  <2>3. Len(out_queue') + in_waiting' <= ZB_BUF_Q_SIZE
    BY <1>1, <2>1
  <2>4. CASE Head(out_queue) = "ack" /\ out_granted' = out_granted + 1 /\ out_others' = others
    BY <1>1, <1>3, <2>1, <2>2, <2>3, <2>4
  <2>5. CASE Head(out_queue) = "other" /\ out_others' = others + 1 /\ UNCHANGED out_granted
    <3>1. Head(out_queue) # "ack"
      BY <2>5
    <3> QED
      BY <1>1, <1>3, <2>1, <2>2, <2>3, <2>5, <3>1
  <2> QED
    BY <1>3, <2>4, <2>5
<1> QED
  BY <1>2, <1>3 DEF FreeOutBuf

\* An ACK frame was transmitted; another part of the stack takes, waits for or
\* frees an OUT buffer, or waits for an IN buffer.
LEMMA BuffersKeep ==
    ASSUME RcvInv, AckConfirmed \/ OthersGet \/ OthersWait \/ OthersFree \/ InWaits
    PROVE  RcvInv'
<1>0. TypeOK /\ OneBufferPerPacket /\ EveryClockTicks /\ Counted
  BY DEF RcvInv
<1>1. /\ out_free \in Nat /\ out_waiting \in Nat /\ out_granted \in Nat /\ out_others \in Nat
      /\ in_waiting \in Nat /\ refused \in Nat /\ out_queue \in Seq(Kinds)
      /\ Len(out_queue) \in Nat /\ Len(out_queue) + in_waiting <= ZB_BUF_Q_SIZE
      /\ ZB_BUF_Q_SIZE \in Nat
      /\ acks \in Seq(Pkts) /\ Len(acks) \in Nat /\ Len(ack_q) \in Nat
  <2>1. acks \in Seq(Pkts) /\ Len(acks) \in Nat /\ Len(ack_q) \in Nat
    BY <1>0 DEF TypeOK
  <2> QED
    BY <1>0, <2>1, WaitingNat
<1>2. UNCHANGED <<addr_map, dups_alarm_running, alarms, ack_q, sent, copies, repeats, left,
                  queued, acked, got, up, bad, last, age, refused>>
  BY DEF AckConfirmed, OthersGet, OthersWait, OthersFree, InWaits, dupVars, netVars
<1> DEFINE Typed ==
        /\ acks' \in Seq(Pkts) /\ out_queue' \in Seq(Kinds)
        /\ Len(out_queue') + in_waiting' <= ZB_BUF_Q_SIZE
        /\ out_free' \in Nat /\ in_waiting' \in Nat /\ out_granted' \in Nat
        /\ out_others' \in Nat
<1>3. Typed /\ OneBufferPerPacket'
  <2>0. /\ Len(ack_q) = out_waiting + out_granted + refused
        /\ out_free + out_granted + out_others + Len(acks) = OutBufs
        /\ out_queue # << >> => out_free = 0
    BY <1>0 DEF OneBufferPerPacket
  <2>1. CASE AckConfirmed
    <3>1. acks' \in Seq(Pkts) /\ Len(acks') = Len(acks) - 1 /\ in_waiting' = in_waiting
      BY <1>1, <2>1 DEF AckConfirmed
    <3>2. FreeOutBuf(out_others)
      BY <2>1 DEF AckConfirmed
    <3>3. /\ out_free' \in Nat /\ out_waiting' \in Nat /\ out_granted' \in Nat
          /\ out_others' \in Nat /\ out_queue' \in Seq(Kinds)
          /\ Len(out_queue') + in_waiting' <= ZB_BUF_Q_SIZE
          /\ out_free' + out_granted' + out_others' = out_free + out_granted + out_others + 1
          /\ out_waiting' + out_granted' = out_waiting + out_granted
          /\ out_queue' # << >> => out_free' = 0
      BY <1>0, <1>1, <3>1, <3>2, BufferFreed
    <3>4. /\ Len(ack_q') = out_waiting' + out_granted' + refused'
          /\ out_free' + out_granted' + out_others' + Len(acks') = OutBufs
      <4>1. Len(ack_q') = Len(ack_q) /\ refused' = refused
        BY <1>2
      <4>2. Len(ack_q') = out_waiting' + out_granted' + refused'
        BY <1>1, <2>0, <3>3, <4>1
      <4>3. out_free' + out_granted' + out_others' + Len(acks') = OutBufs
        <5>1. PICK f, g, o, n \in Int : f = out_free /\ g = out_granted /\ o = out_others /\ n = Len(acks)
          BY <1>1
        <5>2. PICK f2, g2, o2, n2 \in Int :
                f2 = out_free' /\ g2 = out_granted' /\ o2 = out_others' /\ n2 = Len(acks')
          BY <1>1, <3>1, <3>3
        <5>3. f2 + g2 + o2 = f + g + o + 1
          BY <3>3, <5>1, <5>2
        <5>4. n2 - n = o - o - 1
          BY <1>1, <3>1, <5>1, <5>2
        <5>5. f2 + g2 + o2 + n2 = f + g + o + n
          BY <5>3, <5>4
        <5>6. f + g + o + n = OutBufs
          BY <2>0, <5>1
        <5> QED
          BY <5>2, <5>5, <5>6
      <4> QED
        BY <4>2, <4>3
    <3> QED
      BY <1>1, <3>1, <3>3, <3>4 DEF OneBufferPerPacket
  <2>2. CASE OthersGet
    <3>1. /\ out_free > 0 /\ out_free' = out_free - 1 /\ out_others' = out_others + 1
          /\ UNCHANGED <<out_queue, in_waiting, out_granted, acks>>
      BY <2>2 DEF OthersGet
    <3>2. out_waiting' = out_waiting
      BY <3>1, WaitingSame
    <3> QED
      BY <1>1, <1>2, <2>0, <3>1, <3>2 DEF OneBufferPerPacket
  <2>3. CASE OthersWait
    <3>1. /\ out_free = 0 /\ RoomToWait /\ out_queue' = Append(out_queue, "other")
          /\ UNCHANGED <<out_free, in_waiting, out_granted, out_others, acks>>
      BY <2>3 DEF OthersWait
    <3>2. /\ out_queue' \in Seq(Kinds) /\ Len(out_queue') + in_waiting' <= ZB_BUF_Q_SIZE
          /\ out_waiting' = out_waiting
      BY <1>0, <1>1, <3>1, WaitingOneMore DEF Kinds
    <3> QED
      BY <1>1, <1>2, <2>0, <3>1, <3>2 DEF OneBufferPerPacket
  <2>4. CASE OthersFree
    <3>1. /\ out_others - 1 \in Nat /\ acks' = acks /\ in_waiting' = in_waiting
          /\ FreeOutBuf(out_others - 1)
      BY <1>1, <2>4 DEF OthersFree
    <3>2. PICK others \in Nat : others = out_others - 1
      BY <3>1
    <3>3. /\ out_free' \in Nat /\ out_waiting' \in Nat /\ out_granted' \in Nat
          /\ out_others' \in Nat /\ out_queue' \in Seq(Kinds)
          /\ Len(out_queue') + in_waiting' <= ZB_BUF_Q_SIZE
          /\ out_free' + out_granted' + out_others' = out_free + out_granted + others + 1
          /\ out_waiting' + out_granted' = out_waiting + out_granted
          /\ out_queue' # << >> => out_free' = 0
      BY <1>0, <3>1, <3>2, BufferFreed
    <3>4. /\ Len(ack_q') = out_waiting' + out_granted' + refused'
          /\ out_free' + out_granted' + out_others' + Len(acks') = OutBufs
      <4>1. Len(ack_q') = Len(ack_q) /\ refused' = refused /\ acks' = acks
        BY <1>2, <3>1
      <4>2. Len(ack_q') = out_waiting' + out_granted' + refused'
        BY <1>1, <2>0, <3>3, <4>1
      <4>3. out_free' + out_granted' + out_others' + Len(acks') = OutBufs
        <5>1. PICK f, g, o, n \in Int : f = out_free /\ g = out_granted /\ o = out_others /\ n = Len(acks)
          BY <1>1
        <5>2. PICK f2, g2, o2, n2 \in Int :
                f2 = out_free' /\ g2 = out_granted' /\ o2 = out_others' /\ n2 = Len(acks')
          BY <1>1, <3>1, <3>3
        <5>3. f2 + g2 + o2 = f + g + others + 1
          BY <3>3, <5>1, <5>2
        <5>4. n2 - n = o - others - 1
          BY <1>1, <3>1, <3>2, <5>1, <5>2
        <5>5. f2 + g2 + o2 + n2 = f + g + o + n
          BY <5>3, <5>4
        <5>6. f + g + o + n = OutBufs
          BY <2>0, <5>1
        <5> QED
          BY <5>2, <5>5, <5>6
      <4> QED
        BY <4>2, <4>3
    <3> QED
      BY <1>1, <3>1, <3>3, <3>4 DEF OneBufferPerPacket
  <2>5. CASE InWaits
    <3>1. /\ UNCHANGED <<out_free, out_queue, out_granted, out_others, acks>>
          /\ \/ RoomToWait /\ in_waiting' = in_waiting + 1
             \/ in_waiting > 0 /\ in_waiting' = in_waiting - 1
      BY <2>5 DEF InWaits
    <3>2. in_waiting' \in Nat /\ Len(out_queue') + in_waiting' <= ZB_BUF_Q_SIZE
      BY <1>1, <3>1 DEF RoomToWait
    <3>3. out_waiting' = out_waiting
      BY <3>1, WaitingSame
    <3> QED
      BY <1>1, <1>2, <2>0, <3>1, <3>2, <3>3 DEF OneBufferPerPacket
  <2> QED
    BY <2>1, <2>2, <2>3, <2>4, <2>5
<1>4. TypeOK'
  BY <1>0, <1>2, <1>3 DEF TypeOK, Kinds
<1>5. EveryClockTicks' /\ Counted'
  BY <1>0, <1>2, CountedSame DEF EveryClockTicks
<1> QED
  BY <1>3, <1>4, <1>5 DEF RcvInv

\* The alarm of the duplicate check.
LEMMA TimerKeeps ==
    ASSUME RcvInv, zb_aps_check_timer_cb
    PROVE  RcvInv'
<1>0. TypeOK /\ OneBufferPerPacket /\ EveryClockTicks /\ Counted
  BY DEF RcvInv
<1>1. addr_map \in [Slots -> Entry] /\ alarms \in Seq(0 .. DupCheckTimeout)
  BY <1>0 DEF TypeOK, Entry
<1>2. UNCHANGED <<ack_q, out_free, out_queue, in_waiting, out_granted, out_others, refused,
                  acks, sent, copies, repeats, left, queued, acked, got, up, bad, last, age>>
  BY DEF zb_aps_check_timer_cb, bufVars, netVars
<1>3. /\ alarms # << >> /\ Len(alarms) = 1 /\ Len(Tail(alarms)) = 0
      /\ Tail(alarms) \in Seq(0 .. DupCheckTimeout)
  BY <1>0, <1>1 DEF zb_aps_check_timer_cb, EveryClockTicks
<1>4. addr_map' \in [Slots -> Entry]
  <2>1. \A s \in Slots : addr_map'[s] =
          IF addr_map[s].used /\ addr_map[s].aps_dup_clock # 0
          THEN [addr_map[s] EXCEPT !.aps_dup_clock = @ - 1] ELSE addr_map[s]
    BY DEF zb_aps_check_timer_cb
  <2>2. \A s \in Slots : addr_map'[s] \in Entry
    <3> TAKE s \in Slots
    <3>1. addr_map[s] \in Entry
      BY <1>1
    <3>2. addr_map[s].aps_dup_clock # 0 => addr_map[s].aps_dup_clock - 1 \in 0 .. 3
      BY <3>1 DEF Entry
    <3> QED
      BY <2>1, <3>1, <3>2 DEF Entry
  <2>3. DOMAIN addr_map' = Slots /\ addr_map' = [s \in Slots |-> addr_map'[s]]
    BY DEF zb_aps_check_timer_cb
  <2> QED
    BY <2>2, <2>3
<1>5. /\ dups_alarm_running' \in BOOLEAN
      /\ dups_alarm_running' <=>
           \E s \in Slots : addr_map'[s].used /\ addr_map'[s].aps_dup_clock # 0
      /\ alarms' = IF dups_alarm_running' THEN Append(Tail(alarms), DupCheckTimeout)
                   ELSE Tail(alarms)
  BY DEF zb_aps_check_timer_cb, AlarmGoesOn
<1>6. /\ alarms' \in Seq(0 .. DupCheckTimeout)
      /\ Len(alarms') = IF dups_alarm_running' THEN 1 ELSE 0
  <2>1. DupCheckTimeout \in 0 .. DupCheckTimeout
    BY ReceiveAssumption
  <2>2. CASE dups_alarm_running'
    BY <1>3, <1>5, <2>1, <2>2
  <2>3. CASE ~dups_alarm_running'
    BY <1>3, <1>5, <2>3
  <2> QED
    BY <2>2, <2>3
<1>7. TypeOK'
  BY <1>0, <1>2, <1>4, <1>5, <1>6 DEF TypeOK, Entry
<1>8. EveryClockTicks'
  BY <1>5, <1>6 DEF EveryClockTicks
<1>9. OneBufferPerPacket' /\ Counted'
  BY <1>0, <1>2, CountedSame, WaitingSame DEF OneBufferPerPacket
<1> QED
  BY <1>7, <1>8, <1>9 DEF RcvInv

\* A device leaves.
LEMMA DeleteKeeps ==
    ASSUME RcvInv, NEW s \in Slots, zb_address_delete(s)
    PROVE  RcvInv'
<1>0. TypeOK /\ OneBufferPerPacket /\ EveryClockTicks /\ Counted
  BY DEF RcvInv
<1>1. addr_map \in [Slots -> Entry]
  BY <1>0 DEF TypeOK, Entry
<1>2. /\ left < Leaves /\ left' = left + 1
      /\ addr_map' = [addr_map EXCEPT ![s].used = FALSE]
      /\ UNCHANGED <<dups_alarm_running, alarms, ack_q, out_free, out_queue, in_waiting,
                     out_granted, out_others, refused, acks, sent, copies, repeats, queued, acked, got, up, bad,
                     last, age>>
  BY DEF zb_address_delete, bufVars
<1>3. /\ addr_map' \in [Slots -> Entry]
      /\ \A r \in Slots : addr_map'[r].used => addr_map'[r] = addr_map[r]
  BY <1>1, <1>2 DEF Entry
<1>4. left' \in 0 .. Leaves
  <2>1. left \in 0 .. Leaves
    BY <1>0 DEF TypeOK
  <2> QED
    BY <1>2, <2>1, ReceiveAssumption
<1>5. TypeOK'
  BY <1>0, <1>2, <1>3, <1>4 DEF TypeOK, Entry
<1>6. EveryClockTicks'
  BY <1>0, <1>2, <1>3 DEF EveryClockTicks
<1>7. OneBufferPerPacket' /\ Counted'
  BY <1>0, <1>2, CountedSame, WaitingSame DEF OneBufferPerPacket
<1> QED
  BY <1>5, <1>6, <1>7 DEF RcvInv

\* Time passes.
LEMMA TimeKeeps ==
    ASSUME RcvInv, TimePasses
    PROVE  RcvInv'
<1>0. TypeOK /\ OneBufferPerPacket /\ EveryClockTicks /\ Counted
  BY DEF RcvInv
<1>1. alarms \in Seq(0 .. DupCheckTimeout) /\ age \in [Peers -> 0 .. MaxAge]
  BY <1>0 DEF TypeOK
<1>2. /\ alarms' = [k \in DOMAIN alarms |-> alarms[k] - 1]
      /\ \A k \in DOMAIN alarms : alarms[k] > 0
      /\ age' = [a \in Peers |-> IF age[a] < MaxAge THEN age[a] + 1 ELSE age[a]]
      /\ UNCHANGED <<addr_map, dups_alarm_running, ack_q, out_free, out_queue, in_waiting,
                     out_granted, out_others, refused, acks, sent, copies, repeats, left, queued, acked, got, up,
                     bad, last>>
  BY DEF TimePasses, bufVars, netVars
<1>3. /\ alarms' \in Seq(0 .. DupCheckTimeout) /\ Len(alarms') = Len(alarms)
  <2>1. DOMAIN alarms = 1 .. Len(alarms) /\ Len(alarms) \in Nat
    BY <1>1
  <2>2. \A k \in 1 .. Len(alarms) : alarms[k] - 1 \in 0 .. DupCheckTimeout
    <3>1. \A k \in 1 .. Len(alarms) : alarms[k] \in 0 .. DupCheckTimeout /\ alarms[k] > 0
      <4>1. \A k \in 1 .. Len(alarms) : alarms[k] \in 0 .. DupCheckTimeout
        <5> DEFINE S == 0 .. DupCheckTimeout
        <5>1. alarms \in Seq(S)
          BY <1>1
        <5> HIDE DEF S
        <5>2. \A k \in 1 .. Len(alarms) : alarms[k] \in S
          BY <5>1
        <5> QED
          BY <5>2 DEF S
      <4> QED
        BY <1>2, <2>1, <4>1
    <3> QED
      BY <3>1, ReceiveAssumption
  <2> QED
    BY <1>2, <2>1, <2>2
<1>4. age' \in [Peers -> 0 .. MaxAge]
  <2>1. MaxAge \in Nat
    BY ReceiveAssumption DEF MaxAge
  <2>2. \A a \in Peers : (IF age[a] < MaxAge THEN age[a] + 1 ELSE age[a]) \in 0 .. MaxAge
    BY <1>1, <2>1
  <2> QED
    BY <1>2, <2>2
<1>5. TypeOK'
  BY <1>0, <1>2, <1>3, <1>4 DEF TypeOK
<1>6. EveryClockTicks' /\ OneBufferPerPacket' /\ Counted'
  BY <1>0, <1>2, <1>3, CountedSame, WaitingSame DEF EveryClockTicks, OneBufferPerPacket
<1> QED
  BY <1>5, <1>6 DEF RcvInv

\* At first nothing was received.
LEMMA InitHolds ==
    ASSUME Init
    PROVE  RcvInv
<1> USE DEF Init
<1>1. TypeOK
  <2>1. addr_map \in [Slots -> Entry]
    <3>1. 0 \in 0 .. CounterSize - 1
      BY ReceiveAssumption
    <3> QED
      BY <3>1 DEF Entry
  <2>2. {copies, queued, acked, got, up, bad} \subseteq Count
    <3>1. 0 \in 0 .. MaxRepeats + 1
      BY ReceiveAssumption
    <3> QED
      BY <3>1 DEF Count
  <2>3. last \in [Peers -> 0 .. CounterSize] /\ age \in [Peers -> 0 .. MaxAge]
        /\ sent \in [Peers -> 0 .. CounterSize]
    <3>1. 0 \in 0 .. CounterSize /\ 0 \in 0 .. MaxAge
      BY ReceiveAssumption DEF MaxAge
    <3> QED
      BY <3>1
  <2>4. /\ alarms \in Seq(0 .. DupCheckTimeout) /\ acks \in Seq(Pkts)
        /\ ack_q \in Seq(Pkts) /\ Len(ack_q) <= AckQSize
    BY ReceiveAssumption
  <2>5. /\ {out_free, in_waiting, out_granted, out_others, refused} \subseteq Nat
        /\ out_queue \in Seq({"ack", "other"}) /\ Len(out_queue) + in_waiting <= ZB_BUF_Q_SIZE
        /\ repeats \in 0 .. MaxRepeats /\ left \in 0 .. Leaves
    BY ReceiveAssumption
  <2> QED
    BY <2>1, <2>2, <2>3, <2>4, <2>5 DEF TypeOK, Entry, Count
<1>2. OneBufferPerPacket /\ EveryClockTicks
  <2>1. Len(out_queue) = 0 /\ 1 .. 0 = {} /\ Len(ack_q) = 0 /\ Len(acks) = 0 /\ Len(alarms) = 0
    OBVIOUS
  <2>2. out_waiting = 0
    BY <2>1, FS_EmptySet DEF out_waiting
  <2> QED
    BY <2>1, <2>2, ReceiveAssumption DEF OneBufferPerPacket, EveryClockTicks
<1>3. Counted
  <2>1. \A p \in Pkts : Occ(ack_q, p) = 0
    <3>1. Len(ack_q) = 0 /\ 1 .. 0 = {}
      OBVIOUS
    <3> QED
      BY <3>1, FS_EmptySet DEF Occ
  <2> QED
    BY <2>1 DEF Counted
<1> QED
  BY <1>1, <1>2, <1>3 DEF RcvInv

\* Every step keeps the accounts.
LEMMA NextKeeps ==
    ASSUME RcvInv, [Next]_vars
    PROVE  RcvInv'
<1>1. CASE Next
  BY <1>1, IndicationKeeps, SendAckKeeps, BuffersKeep, TimerKeeps, DeleteKeeps, TimeKeeps
     DEF Next
<1>2. CASE UNCHANGED vars
  <2>1. TypeOK'
    BY <1>2 DEF vars, RcvInv, TypeOK
  <2>2. OneBufferPerPacket' /\ EveryClockTicks' /\ Counted'
    BY <1>2, CountedSame, WaitingSame DEF vars, RcvInv, OneBufferPerPacket, EveryClockTicks
  <2> QED
    BY <2>1, <2>2 DEF RcvInv
<1> QED
  BY <1>1, <1>2

\* Theorem.  The accounts hold in every state.
THEOREM RcvInvariant == Spec => []RcvInv
<1>1. RcvInv /\ [Next]_vars => RcvInv'
  BY NextKeeps
<1> QED
  BY <1>1, InitHolds, PTL DEF Spec

\* Theorem.  Every variable keeps its type and its bound: the queue never
\* exceeds its size, a clock never exceeds three.
THEOREM TypeCorrect == Spec => []TypeOK
<1>1. RcvInv => TypeOK
  BY DEF RcvInv
<1> QED
  BY <1>1, RcvInvariant, PTL

\* Theorem.  Every packet in ack_q has exactly one request for an OUT buffer,
\* or its request found the list of waiting requests full, and no OUT buffer is
\* lost on its way.
THEOREM BufferForEveryPacket == Spec => []OneBufferPerPacket
<1>1. RcvInv => OneBufferPerPacket
  BY DEF RcvInv
<1> QED
  BY <1>1, RcvInvariant, PTL

\* Theorem.  A clock that remembers a packet never stands still: exactly one
\* alarm of zb_aps_check_timer_cb() is set while there is one, also when
\* devices leave.
THEOREM ClocksTick == Spec => []EveryClockTicks
<1>1. RcvInv => EveryClockTicks
  BY DEF RcvInv
<1> QED
  BY <1>1, RcvInvariant, PTL

-----------------------------------------------------------------------------
(* The memory of the duplicate check.                                       *)

\* A packet is taken for a duplicate only if its peer's last packet was it.
LEMMA DupWasReceived ==
    ASSUME MemInv, NEW p \in Pkts, IsDup(SlotFor(p[1]), Counter(p))
    PROVE  last[p[1]] = p[2] /\ got[p] > 0
<1>1. PICK s \in Slots : s = SlotFor(p[1])
  BY DEF IsDup
<1>2. addr_map[s].aps_dup_clock # 0 /\ addr_map[s].aps_dup_counter = Counter(p)
  BY <1>1 DEF IsDup
<1>3. PICK a \in Peers : a = p[1]
  BY PktFields
<1>4. addr_map[s].used /\ addr_map[s].addr = a
  BY <1>1, <1>2, <1>3, SlotFound DEF MemInv, SlotsClean
<1>5. PICK x \in Pkts : x = <<a, last[a]>>
  BY <1>2, <1>4 DEF MemInv, Remembers
<1>6. got[x] > 0 /\ Counter(x) = Counter(p)
  BY <1>2, <1>4, <1>5 DEF MemInv, Remembers
<1>7. x[2] - 1 = p[2] - 1 /\ x[2] \in 1 .. CounterSize /\ p[2] \in 1 .. CounterSize
  BY <1>6, PktFields
<1>8. x[2] = p[2]
  BY <1>7, ReceiveAssumption
<1>9. x = p /\ last[a] = p[2]
  BY <1>3, <1>5, <1>8, PktFields
<1> QED
  BY <1>3, <1>6, <1>9

\* A packet is processed.
LEMMA ProcessedRemembers ==
    ASSUME RcvInv, MemInv, NEW p \in Pkts, NEW secure \in BOOLEAN, PassUpOrFree(p, secure)
    PROVE  MemInv'
<1>0. TypeOK
  BY DEF RcvInv
<1>1. /\ addr_map \in [Slots -> Entry] /\ got \in Count /\ up \in Count /\ bad \in Count
      /\ last \in [Peers -> 0 .. CounterSize]
  BY <1>0 DEF TypeOK, Entry, Count
<1>2. PICK a \in Peers : a = p[1] /\ p = <<a, p[2]>>
  BY PktFields
<1>3. \A x \in Pkts : got[x] \in Nat /\ up[x] \in Nat /\ bad[x] \in Nat
  BY <1>1, ReceiveAssumption DEF Count
<1>4. /\ got' = [got EXCEPT ![p] = @ + 1] /\ last' = [last EXCEPT ![a] = p[2]]
      /\ aps_check_dups(a, Counter(p))
      /\ up' = IF ~IsDup(SlotFor(a), Counter(p)) /\ secure THEN [up EXCEPT ![p] = @ + 1] ELSE up
      /\ bad' = IF ~IsDup(SlotFor(a), Counter(p)) /\ ~secure THEN [bad EXCEPT ![p] = @ + 1] ELSE bad
  BY <1>2 DEF PassUpOrFree
<1>5. /\ got'[p] = got[p] + 1 /\ \A x \in Pkts : got'[x] >= got[x] /\ (x # p => got'[x] = got[x])
      /\ last'[a] = p[2] /\ \A b \in Peers : b # a => last'[b] = last[b]
  BY <1>1, <1>3, <1>4 DEF Count
<1>6. NoFreshRejected'
  <2> SUFFICES ASSUME NEW x \in Pkts, got'[x] > 0
               PROVE  up'[x] + bad'[x] > 0
    BY DEF NoFreshRejected
  <2>1. up'[x] >= up[x] /\ bad'[x] >= bad[x] /\ up'[x] \in Nat /\ bad'[x] \in Nat
    BY <1>1, <1>3, <1>4 DEF Count
  <2>2. CASE got[x] > 0
    <3>1. up[x] + bad[x] > 0
      BY <2>2 DEF MemInv, NoFreshRejected
    <3> QED
      BY <1>3, <2>1, <3>1
  <2>3. CASE ~(got[x] > 0)
    <3>1. x = p
      BY <1>5, <2>3
    <3>2. ~IsDup(SlotFor(a), Counter(p))
      BY <1>2, <2>3, <3>1, DupWasReceived
    <3>3. up'[p] = up[p] + 1 \/ bad'[p] = bad[p] + 1
      BY <1>1, <1>4, <3>2 DEF Count
    <3> QED
      BY <1>3, <2>1, <3>1, <3>3
  <2> QED
    BY <2>2, <2>3
<1>7. CASE SlotFor(a) \in Slots
  <2>1. PICK s \in Slots : s = SlotFor(a)
    BY <1>7
  <2>2. /\ addr_map'[s].used /\ addr_map'[s].addr = a /\ addr_map'[s].aps_dup_counter = Counter(p)
        /\ \A r \in Slots : r # s => addr_map'[r] = addr_map[r]
    BY <1>1, <1>4, <2>1 DEF aps_check_dups
  <2>3. \A r \in Slots : addr_map[r].used /\ addr_map[r].addr = a => r = s
    BY <1>2, <2>1, SlotFound DEF MemInv, SlotsClean, SlotsOf
  <2>4. SlotsClean'
    BY <2>2, <2>3 DEF MemInv, SlotsClean
  <2>5. Remembers'
    <3> SUFFICES ASSUME NEW r \in Slots, NEW b \in Peers, addr_map'[r].used,
                        addr_map'[r].addr = b, addr_map'[r].aps_dup_clock # 0
                 PROVE  /\ <<b, last'[b]>> \in Pkts /\ got'[<<b, last'[b]>>] > 0
                        /\ addr_map'[r].aps_dup_counter = Counter(<<b, last'[b]>>)
      BY DEF Remembers
    <3>1. CASE r = s
      <4>1. b = a /\ <<b, last'[b]>> = p
        BY <1>2, <1>5, <2>2, <3>1
      <4> QED
        BY <1>3, <1>5, <2>2, <3>1, <4>1
    <3>2. CASE r # s
      <4>1. b # a /\ addr_map'[r] = addr_map[r] /\ last'[b] = last[b]
        BY <1>5, <2>2, <2>3, <3>2
      <4>2. PICK x \in Pkts : x = <<b, last[b]>> /\ got[x] > 0 /\ addr_map[r].aps_dup_counter = Counter(x)
        BY <4>1 DEF MemInv, Remembers
      <4>3. got'[x] > 0
        BY <1>3, <1>5, <4>2
      <4> QED
        BY <4>1, <4>2, <4>3
    <3> QED
      BY <3>1, <3>2
  <2> QED
    BY <1>6, <2>4, <2>5 DEF MemInv
<1>8. CASE SlotFor(a) \notin Slots
  <2>1. addr_map' = addr_map
    BY <1>4, <1>8 DEF aps_check_dups, dupVars
  <2>2. \A r \in Slots : ~(addr_map[r].used /\ addr_map[r].addr = a)
    BY <1>8, SlotFound DEF SlotsOf
  <2>3. SlotsClean'
    BY <2>1 DEF MemInv, SlotsClean
  <2>4. Remembers'
    <3> SUFFICES ASSUME NEW r \in Slots, NEW b \in Peers, addr_map[r].used,
                        addr_map[r].addr = b, addr_map[r].aps_dup_clock # 0
                 PROVE  /\ <<b, last'[b]>> \in Pkts /\ got'[<<b, last'[b]>>] > 0
                        /\ addr_map[r].aps_dup_counter = Counter(<<b, last'[b]>>)
      BY <2>1 DEF Remembers
    <3>1. b # a /\ last'[b] = last[b]
      BY <1>5, <2>2
    <3>2. PICK x \in Pkts : x = <<b, last[b]>> /\ got[x] > 0 /\ addr_map[r].aps_dup_counter = Counter(x)
      BY DEF MemInv, Remembers
    <3>3. got'[x] > 0
      BY <1>3, <1>5, <3>2
    <3> QED
      BY <3>1, <3>2, <3>3
  <2> QED
    BY <1>6, <2>3, <2>4 DEF MemInv
<1> QED
  BY <1>7, <1>8

\* The packet whose ACK is made is the first of the queue.
LEMMA HeadQueued ==
    ASSUME RcvInv, NEW secure \in BOOLEAN, zb_aps_send_ack_and_continue(secure)
    PROVE  Head(ack_q) \in Pkts /\ PassUpOrFree(Head(ack_q), secure)
<1>1. /\ ack_q \in Seq(Pkts) /\ Len(ack_q) = out_waiting + out_granted + refused
      /\ out_waiting \in Nat /\ out_granted \in Nat /\ refused \in Nat
  BY WaitingNat DEF RcvInv, TypeOK, OneBufferPerPacket
<1>2. out_granted > 0 /\ PassUpOrFree(Head(ack_q), secure)
  BY DEF zb_aps_send_ack_and_continue
<1>3. ack_q # << >>
  BY <1>1, <1>2
<1> QED
  BY <1>1, <1>2, <1>3

\* As long as nobody leaves, every step keeps the memory meaningful.
LEMMA MemKept ==
    ASSUME NobodyLeaves, RcvInv, MemInv, [Next]_vars
    PROVE  MemInv'
<1>1. ASSUME NEW p \in Pkts, NEW ack_request \in BOOLEAN, NEW secure \in BOOLEAN,
             zb_nlde_data_indication(p, ack_request, secure)
      PROVE  MemInv'
  <2>1. CASE PassUpOrFree(p, secure)
    BY <2>1, ProcessedRemembers
  <2>2. CASE UNCHANGED <<dupVars, got, up, bad, last, age>>
    BY <2>2 DEF dupVars, MemInv, SlotsClean, Remembers, NoFreshRejected
  <2> QED
    BY <1>1, <2>1, <2>2 DEF zb_nlde_data_indication
<1>2. ASSUME NEW secure \in BOOLEAN, zb_aps_send_ack_and_continue(secure)
      PROVE  MemInv'
  BY <1>2, HeadQueued, ProcessedRemembers
<1>3. CASE zb_aps_check_timer_cb
  <2>1. UNCHANGED <<got, up, bad, last>>
    BY <1>3 DEF zb_aps_check_timer_cb
  <2>2. \A s \in Slots : /\ addr_map'[s].used = addr_map[s].used
                         /\ addr_map'[s].addr = addr_map[s].addr
                         /\ addr_map'[s].aps_dup_counter = addr_map[s].aps_dup_counter
                         /\ addr_map[s].aps_dup_clock = 0 => addr_map'[s].aps_dup_clock = 0
    <3> TAKE s \in Slots
    <3>1. addr_map[s] \in Entry
      BY DEF RcvInv, TypeOK, Entry
    <3>2. addr_map'[s] = IF addr_map[s].used /\ addr_map[s].aps_dup_clock # 0
                         THEN [addr_map[s] EXCEPT !.aps_dup_clock = @ - 1] ELSE addr_map[s]
      BY <1>3 DEF zb_aps_check_timer_cb
    <3> QED
      BY <3>1, <3>2 DEF Entry
  <2> QED
    BY <2>1, <2>2 DEF MemInv, SlotsClean, Remembers, NoFreshRejected
<1>4. ASSUME NEW s \in Slots, zb_address_delete(s) PROVE FALSE
  BY <1>4 DEF zb_address_delete, NobodyLeaves, RcvInv, TypeOK
<1>5. CASE UNCHANGED <<addr_map, got, up, bad, last>>
  BY <1>5 DEF MemInv, SlotsClean, Remembers, NoFreshRejected
<1>6. AckConfirmed \/ OthersGet \/ OthersWait \/ OthersFree \/ InWaits \/ TimePasses \/ UNCHANGED vars
        => UNCHANGED <<addr_map, got, up, bad, last>>
  BY DEF AckConfirmed, OthersGet, OthersWait, OthersFree, InWaits, TimePasses, dupVars, vars
<1> QED
  BY <1>1, <1>2, <1>3, <1>4, <1>5, <1>6 DEF Next

\* Theorem.  As long as no device leaves the network, the duplicate check
\* forgets in time and drops no packet that is the first of its kind.
THEOREM DupMemoryIsSound ==
    ASSUME NobodyLeaves
    PROVE  Spec => []DupMemorySound
<1>1. Init => MemInv
  BY DEF Init, MemInv, SlotsClean, Remembers, NoFreshRejected
<1>2. RcvInv /\ MemInv /\ [Next]_vars => MemInv'
  BY MemKept
<1>3. RcvInv /\ MemInv => DupMemorySound
  BY DEF RcvInv, MemInv, DupMemorySound
<1> QED
  BY <1>1, <1>2, <1>3, RcvInvariant, PTL DEF Spec

-----------------------------------------------------------------------------
(* The window of the duplicate check.                                       *)

\* With a slot for every peer the search never fails.
LEMMA HasSlot ==
    ASSUME RoomForAll, RcvInv, SlotsClean, NEW a \in Peers
    PROVE  SlotFor(a) \in Slots
<1> SUFFICES ASSUME SlotFor(a) \notin Slots PROVE FALSE
  OBVIOUS
<1>1. \A s \in Slots : addr_map[s].used /\ addr_map[s].addr \in Peers /\ addr_map[s].addr # a
  BY SlotFound DEF SlotsOf, FreeSlots, SlotsClean
<1> DEFINE f == [s \in Slots |-> addr_map[s].addr]
<1>2. f \in [Slots -> Peers \ {a}]
  BY <1>1
<1>3. \A s, r \in Slots : f[s] = f[r] => s = r
  BY <1>1 DEF SlotsClean
<1> HIDE DEF f
<1>4. f \in Injection(Slots, Peers \ {a})
  BY <1>2, <1>3 DEF Injection, IsInjective
<1>5. /\ IsFiniteSet(Peers \ {a}) /\ Cardinality(Peers) \in Nat
      /\ Cardinality(Peers \ {a}) = Cardinality(Peers) - 1
  BY FS_RemoveElement, FS_CardinalityType DEF RoomForAll
<1>6. Cardinality(Slots) <= Cardinality(Peers \ {a})
  BY <1>4, <1>5, FS_Injection
<1>7. Cardinality(Slots) = TableSize
  <2>1. 0 \in Int /\ TableSize - 1 \in Int /\ ~(0 > TableSize - 1)
        /\ (TableSize - 1) - 0 + 1 = TableSize
    BY ReceiveAssumption
  <2> QED
    BY <2>1, FS_Interval DEF Slots
<1> QED
  BY <1>5, <1>6, <1>7, ReceiveAssumption DEF RoomForAll

\* A packet is processed: its peer is remembered anew, the others as before.
LEMMA ProcessedHeld ==
    ASSUME RoomForAll, RcvInv, MemInv, WindowInv, RcvInv',
           NEW p \in Pkts, NEW secure \in BOOLEAN, PassUpOrFree(p, secure)
    PROVE  WindowInv'
<1>0. addr_map \in [Slots -> Entry] /\ age \in [Peers -> 0 .. MaxAge]
      /\ last \in [Peers -> 0 .. CounterSize]
  BY DEF RcvInv, TypeOK, Entry
<1>1. PICK a \in Peers : a = p[1]
  BY PktFields
<1>2. PICK s \in Slots : s = SlotFor(a)
  BY HasSlot DEF MemInv
<1>3. /\ aps_check_dups(a, Counter(p))
      /\ last' = [last EXCEPT ![a] = p[2]] /\ age' = [age EXCEPT ![a] = 0]
  BY <1>1 DEF PassUpOrFree
<1>4. /\ addr_map'[s].used /\ addr_map'[s].addr = a /\ addr_map'[s].aps_dup_clock = 3
      /\ \A r \in Slots : r # s => addr_map'[r] = addr_map[r]
      /\ dups_alarm_running'
      /\ dups_alarm_running => alarms' = alarms
  BY <1>0, <1>2, <1>3 DEF aps_check_dups, DupClock
<1>5. /\ age'[a] = 0 /\ \A b \in Peers : b # a => last'[b] = last[b] /\ age'[b] = age[b]
  BY <1>0, <1>3
<1>6. \A r \in Slots : addr_map[r].used /\ addr_map[r].addr # a => r # s
  BY <1>2, SlotFound
<1>7. alarms'[1] \in Nat
  <2>1. Len(alarms') = 1
    BY <1>4 DEF RcvInv, EveryClockTicks
  <2>2. alarms' \in Seq(0 .. DupCheckTimeout)
    BY DEF RcvInv, TypeOK
  <2> DEFINE S == 0 .. DupCheckTimeout
  <2>3. S \subseteq Nat
    BY ReceiveAssumption
  <2>4. alarms' \in Seq(S)
    BY <2>2
  <2> HIDE DEF S
  <2>5. \A k \in 1 .. Len(alarms') : alarms'[k] \in S
    BY <2>4
  <2>6. 1 \in 1 .. Len(alarms')
    BY <2>1
  <2> QED
    BY <2>3, <2>5, <2>6
<1> SUFFICES ASSUME NEW b \in Peers, last'[b] # 0
             PROVE  \E r \in Slots : addr_map'[r].used /\ addr_map'[r].addr = b /\ HeldFor(r, b)'
  BY DEF WindowInv
<1>8. CASE b = a
  <2>1. HeldFor(s, b)'
    BY <1>4, <1>5, <1>7, <1>8, ReceiveAssumption DEF HeldFor, ClockTime
  <2> QED
    BY <1>4, <1>8, <2>1
<1>9. CASE b # a
  <2>1. PICK r \in Slots : addr_map[r].used /\ addr_map[r].addr = b /\ HeldFor(r, b)
    BY <1>5, <1>9 DEF WindowInv
  <2>2. addr_map'[r] = addr_map[r] /\ age'[b] = age[b]
    BY <1>4, <1>5, <1>6, <1>9, <2>1
  <2>3. addr_map[r].aps_dup_clock # 0 => alarms' = alarms
    BY <1>4, <2>1 DEF RcvInv, EveryClockTicks
  <2>4. HeldFor(r, b)'
    BY <2>1, <2>2, <2>3 DEF HeldFor
  <2> QED
    BY <2>1, <2>2, <2>4
<1> QED
  BY <1>8, <1>9

\* What is appended to an empty sequence is its first element.
LEMMA AppendToEmpty ==
    ASSUME NEW T, NEW seq \in Seq(T), Len(seq) = 0, NEW e \in T
    PROVE  Append(seq, e)[1] = e
  OBVIOUS

\* The alarm takes one from the clock and adds one period to the alarm.
LEMMA TimerHeld ==
    ASSUME RoomForAll, RcvInv, WindowInv, zb_aps_check_timer_cb
    PROVE  WindowInv'
<1>0. addr_map \in [Slots -> Entry] /\ age \in [Peers -> 0 .. MaxAge]
      /\ alarms \in Seq(0 .. DupCheckTimeout)
  BY DEF RcvInv, TypeOK, Entry
<1>1. /\ alarms[1] = 0 /\ Len(Tail(alarms)) = 0 /\ Tail(alarms) \in Seq(0 .. DupCheckTimeout)
      /\ UNCHANGED <<last, age>>
  <2>1. alarms # << >> /\ Head(alarms) = 0 /\ UNCHANGED <<last, age>>
    BY DEF zb_aps_check_timer_cb
  <2>2. Len(alarms) = IF dups_alarm_running THEN 1 ELSE 0
    BY DEF RcvInv, EveryClockTicks
  <2>3. Len(alarms) = 1
    BY <1>0, <2>1, <2>2
  <2>4. alarms[1] = 0
    BY <1>0, <2>1, <2>3
  <2>5. Len(Tail(alarms)) = 0 /\ Tail(alarms) \in Seq(0 .. DupCheckTimeout)
    BY <1>0, <2>1, <2>3
  <2> QED
    BY <2>1, <2>4, <2>5
<1>2. \A s \in Slots : addr_map[s].used =>
        /\ addr_map'[s].used /\ addr_map'[s].addr = addr_map[s].addr
        /\ addr_map[s].aps_dup_clock \in 0 .. 3
        /\ addr_map'[s].aps_dup_clock =
             IF addr_map[s].aps_dup_clock = 0 THEN 0 ELSE addr_map[s].aps_dup_clock - 1
  <2> TAKE s \in Slots
  <2>1. addr_map[s] \in Entry
    BY <1>0
  <2>2. addr_map'[s] = IF addr_map[s].used /\ addr_map[s].aps_dup_clock # 0
                       THEN [addr_map[s] EXCEPT !.aps_dup_clock = @ - 1] ELSE addr_map[s]
    BY DEF zb_aps_check_timer_cb
  <2> QED
    BY <2>1, <2>2 DEF Entry
<1>3. ASSUME NEW s \in Slots, addr_map'[s].used, addr_map'[s].aps_dup_clock # 0
      PROVE  alarms'[1] = DupCheckTimeout
  <2>1. dups_alarm_running'
    BY <1>3 DEF zb_aps_check_timer_cb, AlarmGoesOn
  <2>2. alarms' = Append(Tail(alarms), DupCheckTimeout)
    BY <2>1 DEF zb_aps_check_timer_cb
  <2>3. DupCheckTimeout \in 0 .. DupCheckTimeout
    BY ReceiveAssumption
  <2>4. Len(Tail(alarms)) + 1 = 1
    BY <1>1
  <2>5. Append(Tail(alarms), DupCheckTimeout)[1] = DupCheckTimeout
    BY <1>1, <2>3, <2>4, AppendToEmpty
  <2> QED
    BY <2>2, <2>5
<1> SUFFICES ASSUME NEW a \in Peers, last[a] # 0
             PROVE  \E s \in Slots : addr_map'[s].used /\ addr_map'[s].addr = a /\ HeldFor(s, a)'
  BY <1>1 DEF WindowInv
<1>4. PICK s \in Slots : addr_map[s].used /\ addr_map[s].addr = a /\ HeldFor(s, a)
  BY DEF WindowInv
<1>5. /\ addr_map'[s].used /\ addr_map'[s].addr = a
      /\ addr_map[s].aps_dup_clock \in 0 .. 3
      /\ addr_map'[s].aps_dup_clock =
           IF addr_map[s].aps_dup_clock = 0 THEN 0 ELSE addr_map[s].aps_dup_clock - 1
  BY <1>2, <1>4
<1>6. age[a] \in Nat /\ age'[a] = age[a] /\ DupCheckTimeout \in Nat
  BY <1>0, <1>1, ReceiveAssumption DEF MaxAge
<1>7. HeldFor(s, a)'
  <2>1. CASE age[a] > DupWindow
    BY <1>6, <2>1 DEF HeldFor
  <2>2. CASE ~(age[a] > DupWindow)
    <3>1. /\ addr_map[s].aps_dup_clock # 0
          /\ age[a] + 0 + ClockTime(addr_map[s].aps_dup_clock) >= DupCheckTimeout + DupCheckTimeout
      BY <1>1, <1>4, <2>2 DEF HeldFor
    <3>2. addr_map[s].aps_dup_clock # 1
      BY <1>6, <2>2, <3>1, ReceiveAssumption DEF ClockTime, RoomForAll
    <3>3. addr_map[s].aps_dup_clock \in {2, 3}
      BY <1>5, <3>1, <3>2
    <3>4. alarms'[1] = DupCheckTimeout
      BY <1>3, <1>5, <3>3
    <3>5. CASE addr_map[s].aps_dup_clock = 2
      <4>1. addr_map'[s].aps_dup_clock = 1 /\ age[a] + DupCheckTimeout >= DupCheckTimeout + DupCheckTimeout
        BY <1>5, <1>6, <3>1, <3>5 DEF ClockTime
      <4> QED
        BY <1>6, <3>4, <4>1 DEF HeldFor, ClockTime
    <3>6. CASE addr_map[s].aps_dup_clock = 3
      <4>1. addr_map'[s].aps_dup_clock = 2
        BY <1>5, <3>6
      <4> QED
        BY <1>6, <3>4, <4>1 DEF HeldFor, ClockTime
    <3> QED
      BY <3>3, <3>5, <3>6
  <2> QED
    BY <2>1, <2>2
<1> QED
  BY <1>5, <1>7

\* A unit of time goes from the alarm to the age of the last packet.
LEMMA TimeHeld ==
    ASSUME RcvInv, WindowInv, TimePasses
    PROVE  WindowInv'
<1>0. addr_map \in [Slots -> Entry] /\ age \in [Peers -> 0 .. MaxAge]
      /\ DOMAIN alarms = 1 .. Len(alarms) /\ DupWindow \in Nat /\ DupCheckTimeout \in Nat
  BY ReceiveAssumption DEF RcvInv, TypeOK, Entry
<1>1. /\ alarms' = [k \in DOMAIN alarms |-> alarms[k] - 1]
      /\ age' = [a \in Peers |-> IF age[a] < MaxAge THEN age[a] + 1 ELSE age[a]]
      /\ UNCHANGED <<addr_map, last>>
  BY DEF TimePasses
<1> SUFFICES ASSUME NEW a \in Peers, last[a] # 0
             PROVE  \E s \in Slots : addr_map[s].used /\ addr_map[s].addr = a /\ HeldFor(s, a)'
  BY <1>1 DEF WindowInv
<1>2. PICK s \in Slots : addr_map[s].used /\ addr_map[s].addr = a /\ HeldFor(s, a)
  BY DEF WindowInv
<1>3. age[a] \in Nat /\ age[a] <= MaxAge /\ MaxAge = DupWindow + 1
      /\ age'[a] = IF age[a] < MaxAge THEN age[a] + 1 ELSE age[a]
  BY <1>0, <1>1 DEF MaxAge
<1>4. CASE age[a] > DupWindow
  <2>1. age'[a] > DupWindow
    BY <1>0, <1>3, <1>4
  <2> QED
    BY <1>2, <2>1 DEF HeldFor
<1>5. CASE ~(age[a] > DupWindow)
  <2>1. addr_map[s].aps_dup_clock # 0
        /\ age[a] + alarms[1] + ClockTime(addr_map[s].aps_dup_clock) >= DupCheckTimeout + DupCheckTimeout
    BY <1>2, <1>5 DEF HeldFor
  <2>2. Len(alarms) = 1
    BY <1>2, <2>1 DEF RcvInv, EveryClockTicks
  <2>3. alarms'[1] = alarms[1] - 1 /\ alarms[1] \in Int
    <3>1. alarms \in Seq(0 .. DupCheckTimeout)
      BY DEF RcvInv, TypeOK
    <3> DEFINE S == 0 .. DupCheckTimeout
    <3>2. S \subseteq Int
      BY <1>0
    <3>3. alarms \in Seq(S)
      BY <3>1
    <3> HIDE DEF S
    <3>4. \A k \in 1 .. Len(alarms) : alarms[k] \in S
      BY <3>3
    <3>5. 1 \in 1 .. Len(alarms)
      BY <2>2
    <3>6. alarms[1] \in Int
      BY <3>2, <3>4, <3>5
    <3> QED
      BY <1>0, <1>1, <2>2, <3>6
  <2>4. age'[a] = age[a] + 1
    BY <1>0, <1>3, <1>5
  <2>5. ClockTime(addr_map[s].aps_dup_clock) \in Nat /\ addr_map'[s] = addr_map[s]
    BY <1>0, <1>1 DEF ClockTime
  <2>6. age'[a] + alarms'[1] + ClockTime(addr_map[s].aps_dup_clock) >= DupCheckTimeout + DupCheckTimeout
    BY <1>3, <2>1, <2>3, <2>4, <2>5
  <2> QED
    BY <1>2, <2>1, <2>5, <2>6 DEF HeldFor
<1> QED
  BY <1>2, <1>4, <1>5

\* Every step keeps the packets of the window remembered.
LEMMA WindowKept ==
    ASSUME RoomForAll, RcvInv, MemInv, WindowInv, RcvInv', [Next]_vars
    PROVE  WindowInv'
<1>1. ASSUME NEW p \in Pkts, NEW ack_request \in BOOLEAN, NEW secure \in BOOLEAN,
             zb_nlde_data_indication(p, ack_request, secure)
      PROVE  WindowInv'
  <2>1. CASE PassUpOrFree(p, secure)
    BY <2>1, ProcessedHeld
  <2>2. CASE UNCHANGED <<dupVars, got, up, bad, last, age>>
    BY <2>2 DEF dupVars, WindowInv, HeldFor
  <2> QED
    BY <1>1, <2>1, <2>2 DEF zb_nlde_data_indication
<1>2. ASSUME NEW secure \in BOOLEAN, zb_aps_send_ack_and_continue(secure)
      PROVE  WindowInv'
  BY <1>2, HeadQueued, ProcessedHeld
<1>3. CASE zb_aps_check_timer_cb
  BY <1>3, TimerHeld
<1>4. ASSUME NEW s \in Slots, zb_address_delete(s) PROVE FALSE
  BY <1>4 DEF zb_address_delete, RoomForAll, NobodyLeaves, RcvInv, TypeOK
<1>5. CASE TimePasses
  BY <1>5, TimeHeld
<1>6. CASE UNCHANGED <<addr_map, alarms, last, age>>
  BY <1>6 DEF WindowInv, HeldFor
<1>7. AckConfirmed \/ OthersGet \/ OthersWait \/ OthersFree \/ InWaits \/ UNCHANGED vars
        => UNCHANGED <<addr_map, alarms, last, age>>
  BY DEF AckConfirmed, OthersGet, OthersWait, OthersFree, InWaits, dupVars, vars
<1> QED
  BY <1>1, <1>2, <1>3, <1>4, <1>5, <1>6, <1>7 DEF Next

\* The last packet of a peer, come again in time, does not go up.
LEMMA CopyStays ==
    ASSUME RcvInv, MemInv, WindowInv, NEW p \in Pkts, NEW secure \in BOOLEAN,
           PassUpOrFree(p, secure), NEW x \in Pkts, up'[x] > up[x]
    PROVE  last[x[1]] # x[2] \/ age[x[1]] > DupWindow
<1> SUFFICES ASSUME last[x[1]] = x[2], ~(age[x[1]] > DupWindow) PROVE FALSE
  OBVIOUS
<1>0. up \in Count
  BY DEF RcvInv, TypeOK, Count
<1>1. up[x] \in Nat /\ x = p /\ ~IsDup(SlotFor(p[1]), Counter(p))
  BY <1>0, ReceiveAssumption DEF PassUpOrFree, Count
<1>2. PICK a \in Peers : a = x[1] /\ x = <<a, x[2]>> /\ x[2] # 0
  BY PktFields
<1>3. PICK s \in Slots : addr_map[s].used /\ addr_map[s].addr = a /\ addr_map[s].aps_dup_clock # 0
  BY <1>2 DEF WindowInv, HeldFor
<1>4. addr_map[s].aps_dup_counter = Counter(x)
  BY <1>2, <1>3 DEF MemInv, Remembers
<1>5. SlotFor(a) = s
  BY <1>3, SlotFound DEF SlotsOf, MemInv, SlotsClean
<1> QED
  BY <1>1, <1>2, <1>3, <1>4, <1>5 DEF IsDup

\* Theorem.  If every peer finds a slot, nobody leaves and the window is
\* shorter than two periods of the alarm, then a copy is passed up a second
\* time only after another packet of its sender or after the window.
THEOREM DuplicatesRejected ==
    ASSUME RoomForAll
    PROVE  Spec => DupRejected
<1>1. Init => MemInv /\ WindowInv
  BY DEF Init, MemInv, SlotsClean, Remembers, NoFreshRejected, WindowInv
<1>2. RcvInv /\ MemInv /\ WindowInv /\ RcvInv' /\ [Next]_vars => MemInv' /\ WindowInv'
  BY MemKept, WindowKept DEF RoomForAll
<1>3. RcvInv /\ MemInv /\ WindowInv /\ [Next]_vars =>
        [\A p \in Pkts : up'[p] > up[p] /\ got[p] > 0 =>
            last[p[1]] # p[2] \/ age[p[1]] > DupWindow]_vars
  <2> SUFFICES ASSUME RcvInv, MemInv, WindowInv, Next, NEW x \in Pkts, up'[x] > up[x]
               PROVE  last[x[1]] # x[2] \/ age[x[1]] > DupWindow
    OBVIOUS
  <2>1. ASSUME up' = up PROVE FALSE
    <3>1. up \in Count
      BY DEF RcvInv, TypeOK, Count
    <3>2. up[x] \in Nat
      BY <3>1, ReceiveAssumption DEF Count
    <3> QED
      BY <2>1, <3>2
  <2>2. ASSUME NEW p \in Pkts, NEW ack_request \in BOOLEAN, NEW secure \in BOOLEAN,
               zb_nlde_data_indication(p, ack_request, secure)
        PROVE  PassUpOrFree(p, secure)
    BY <2>1, <2>2 DEF zb_nlde_data_indication
  <2>3. ASSUME NEW secure \in BOOLEAN, zb_aps_send_ack_and_continue(secure)
        PROVE  Head(ack_q) \in Pkts /\ PassUpOrFree(Head(ack_q), secure)
    BY <2>3, HeadQueued
  <2>4. CASE \E p \in Pkts, ack_request, secure \in BOOLEAN :
               zb_nlde_data_indication(p, ack_request, secure)
    BY <2>2, <2>4, CopyStays
  <2>5. CASE \E secure \in BOOLEAN : zb_aps_send_ack_and_continue(secure)
    BY <2>3, <2>5, CopyStays
  <2>6. AckConfirmed \/ OthersGet \/ OthersWait \/ OthersFree \/ InWaits \/ zb_aps_check_timer_cb \/ TimePasses
          \/ (\E s \in Slots : zb_address_delete(s)) => up' = up
    BY DEF AckConfirmed, OthersGet, OthersWait, OthersFree, InWaits, zb_aps_check_timer_cb, TimePasses,
           zb_address_delete
  <2> QED
    BY <2>1, <2>4, <2>5, <2>6 DEF Next
<1> QED
  BY <1>1, <1>2, <1>3, RcvInvariant, PTL DEF Spec, DupRejected

=============================================================================
