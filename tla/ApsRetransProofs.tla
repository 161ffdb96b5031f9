-------------------------- MODULE ApsRetransProofs --------------------------
(***************************************************************************)
(* Proofs about the APS sender for every size of the retransmission table, *)
(* every number of retries, buffers, peers and requests.                   *)
(*                                                                         *)
(* The entry of a packet is found again in three ways: by its buffer when  *)
(* the network layer confirms, by its index when the alarm fires, by peer  *)
(* and APS counter when an ACK arrives.  ApsInv says that all three lead   *)
(* to the same entry, and where the buffer of every request is.            *)
(***************************************************************************)
EXTENDS ApsRetrans, FiniteSetTheorems, WellFoundedInduction, TLAPS

\* The conditions the run is made under, and the disagreements of the README
\* begin without: one entry of the table is spare, the peer acknowledges a
\* packet once, and an acknowledged packet finds a route.
NormalUse ==
    /\ MaxOutstanding < ZB_N_APS_RETRANS_ENTRIES
    /\ MaxAcks <= 1
    /\ DropKinds \subseteq {"unacked"}

-----------------------------------------------------------------------------
(* The inductive invariant.                                                 *)

\* A buffer in use carries a request of its own.
PacketsNumbered ==
    /\ Len(reqs) <= MaxReqs
    /\ \A b \in Bufs : /\ packet[b] \in 0 .. Len(reqs)
                       /\ owner[b] # "pool" => packet[b] # NoReq
    /\ \A b, c \in Bufs : packet[b] = packet[c] /\ packet[b] # NoReq => b = c

\* Nothing has happened to a request that was not made.
NotYetMade ==
    \A r \in Ids : r > Len(reqs) => copies[r] = 0 /\ acked[r] = 0 /\ result[r] = <<>>

\* How many values ago the APS counter had the value of request r.
Age(r) ==
    IF reqs[r].aps_counter < aps_counter
    THEN aps_counter - 1 - reqs[r].aps_counter
    ELSE aps_counter - 1 - reqs[r].aps_counter + CounterSize

\* The counter has not come round yet, so it tells requests apart.
CountersDiffer ==
    \A r \in 1 .. Len(reqs) : reqs[r].kind # "unbound" =>
        /\ Age(r) <= Len(reqs) - r
        /\ \A s \in 1 .. Len(reqs) :
             s > r /\ reqs[s].kind # "unbound" => Age(s) < Age(r)

\* An entry describes the request in its buffer.
EntryMatches ==
    \A i \in Idx :
        /\ hash[i].state = FREE => hash[i].buf = NoBuf /\ hash[i].addr = NoAddr
        /\ hash[i].state # FREE =>
             /\ hash[i].buf \in Bufs
             /\ AckRequested(packet[hash[i].buf])
             /\ hash[i].addr = reqs[packet[hash[i].buf]].addr
             /\ hash[i].aps_counter = reqs[packet[hash[i].buf]].aps_counter

\* A packet that asked for an ACK is in an entry until it is done.
HasEntry(b) == \E i \in Idx : hash[i].buf = b
PacketHasEntry ==
    \A b \in Bufs :
        /\ owner[b] = "aps" => HasEntry(b)
        /\ owner[b] = "nwk" /\ AckRequested(packet[b]) => HasEntry(b)

\* A transmission is queued or unconfirmed, not both.
OneTransmission == nwk_q \cap nwk_sent = {}

\* An ACK is noted in the entry until the entry ends.
AckNoted ==
    \A i \in Idx : hash[i].state # FREE =>
        (hash[i].state = ACKED <=> acked[packet[hash[i].buf]] > 0)

\* Transmissions made and retries left of a packet in an entry.
RetriesCounted ==
    \A i \in Idx : hash[i].state # FREE =>
        LET n == copies[packet[hash[i].buf]]
        IN  IF hash[i].buf \in nwk_q
            THEN /\ n + hash[i].aps_retries <= ZB_N_APS_MAX_FRAME_ENTRIES
                 /\ n < ZB_N_APS_MAX_FRAME_ENTRIES
            ELSE /\ n + hash[i].aps_retries <= ZB_N_APS_MAX_FRAME_ENTRIES + 1
                 /\ n > 0

\* A packet without ACK request is transmitted once.
UnackedOnce ==
    \A b \in nwk_q : ~AckRequested(packet[b]) => copies[packet[b]] = 0

\* A confirm on its way has its buffer for itself, and is the first about
\* its request.
ConfirmsOwn ==
    /\ \A c \in confirm_q : /\ owner[c[1]] = "up" /\ packet[c[1]] = c[2]
                            /\ result[c[2]] = <<>>
    /\ \A c, d \in confirm_q : c[1] = d[1] => c = d
    /\ \A b \in Bufs : owner[b] \in {"nwk", "aps"} => result[packet[b]] = <<>>
    /\ \A r \in Ids : Len(result[r]) <= 1

\* What is told about a data packet is true.
Truthful(r, status) ==
    reqs[r].kind = "data" => /\ status = "OK" => acked[r] > 0
                             /\ status = "NO_ACK" => copies[r] > 0
ConfirmsTrue ==
    /\ \A c \in confirm_q : Truthful(c[2], c[3])
    /\ \A r \in 1 .. Len(reqs) : result[r] # <<>> => Truthful(r, result[r][1])

ApsInv ==
    /\ TypeOK
    /\ PacketsNumbered
    /\ NotYetMade
    /\ CountersDiffer
    /\ EntryMatches
    /\ PacketHasEntry
    /\ EntryOwnsBuffer
    /\ NwkOwnsBuffer
    /\ OneTransmission
    /\ OneAlarmPerEntry
    /\ AckNoted
    /\ RetriesCounted
    /\ UnackedOnce
    /\ BoundedTransmissions
    /\ ConfirmsOwn
    /\ ConfirmsTrue

-----------------------------------------------------------------------------
(* What the counter and the table search give.                              *)

\* The counter goes up by one and comes round to zero.
LEMMA CounterStep ==
    ASSUME NEW n \in 0 .. CounterSize - 1
    PROVE  (n + 1) % CounterSize = IF n + 1 = CounterSize THEN 0 ELSE n + 1
  BY ApsAssumption

\* Two requests that drew a counter value never share it.
LEMMA SameCounterSameRequest ==
    ASSUME TypeOK, CountersDiffer, NEW r \in 1 .. Len(reqs), NEW s \in 1 .. Len(reqs),
           reqs[r].kind # "unbound", reqs[s].kind # "unbound",
           reqs[r].aps_counter = reqs[s].aps_counter
    PROVE  r = s
<1>1. Age(r) = Age(s)
  BY DEF Age
<1>2. Age(r) \in Int /\ Age(s) \in Int
  <2>1. reqs[r] \in Request /\ reqs[s] \in Request /\ aps_counter \in Int
    BY ApsAssumption DEF TypeOK
  <2> QED
    BY <2>1, ApsAssumption DEF Age, Request
<1>3. CASE r < s
  BY <1>1, <1>2, <1>3 DEF CountersDiffer
<1>4. CASE s < r
  BY <1>1, <1>2, <1>4 DEF CountersDiffer
<1> QED
  BY <1>3, <1>4

\* With one entry spare, the search ends at a free entry, and not the last.
LEMMA FreeEntryFound ==
    ASSUME NormalUse, TypeOK, Outstanding < MaxOutstanding
    PROVE  /\ FirstFree \in Idx
           /\ hash[FirstFree].state = FREE
           /\ ~TableFull(FirstFree)
<1> DEFINE N == ZB_N_APS_RETRANS_ENTRIES
           busy == {i \in Idx : hash[i].state # FREE}
           low  == 0 .. N - 2
<1>0. N \in Nat \ {0} /\ MaxOutstanding \in Nat
  BY ApsAssumption
<1>1. IsFiniteSet(Idx) /\ IsFiniteSet(low) /\ Cardinality(low) = N - 1
  BY <1>0, FS_Interval DEF Idx
<1>2. IsFiniteSet(busy) /\ Cardinality(busy) \in Nat
  BY <1>1, FS_Subset, FS_CardinalityType
<1>3. Cardinality(busy) < N - 1
  BY <1>0, <1>2 DEF NormalUse, Outstanding
<1>4. ~(low \subseteq busy)
  BY <1>0, <1>1, <1>2, <1>3, FS_Subset
<1>5. PICK k \in low : hash[k].state = FREE /\ k \in Idx
  BY <1>0, <1>4 DEF Idx
<1>6. \E i \in Idx : hash[i].state = FREE /\ \A j \in Idx : j < i => hash[j].state # FREE
  <2> DEFINE free == {i \in Idx : hash[i].state = FREE}
  <2>1. free \subseteq Nat /\ free # {}
    BY <1>5 DEF Idx
  <2> DEFINE R == {ss \in Nat \X Nat : ss[1] < ss[2]}
  <2>0. IsWellFoundedOn(R, Nat)
    BY NatLessThanWellFounded DEF OpToRel
  <2> HIDE DEF R
  <2>2. PICK i \in free : \A j \in free : ~(<<j, i>> \in R)
    BY <2>0, <2>1, WFMin
  <2> USE DEF R
  <2>3. \A j \in free : ~(j < i)
    BY <2>1, <2>2
  <2> QED
    BY <2>3
<1>7. /\ FirstFree \in Idx /\ hash[FirstFree].state = FREE
      /\ \A j \in Idx : j < FirstFree => hash[j].state # FREE
  BY <1>6 DEF FirstFree
<1> QED
  BY <1>0, <1>5, <1>7 DEF TableFull, Idx

\* A buffer in use carries a request, an entry refers to one.
LEMMA BufferInUse ==
    ASSUME ApsInv
    PROVE  /\ \A b \in Bufs : owner[b] # "pool" => packet[b] \in Ids /\ packet[b] \in 1 .. Len(reqs)
           /\ \A i \in Idx : hash[i].state # FREE => packet[hash[i].buf] \in Ids /\ hash[i].buf \in Bufs
           /\ \A i \in Idx : hash[i].aps_retries \in Nat
           /\ \A r \in Ids : copies[r] \in Nat /\ acked[r] \in Nat
<1>1. Len(reqs) \in Nat /\ MaxReqs \in Nat /\ Len(reqs) <= MaxReqs
  BY ApsAssumption DEF ApsInv, TypeOK, PacketsNumbered
<1>2. \A b \in Bufs : owner[b] # "pool" => packet[b] \in Ids /\ packet[b] \in 1 .. Len(reqs)
  BY <1>1 DEF ApsInv, PacketsNumbered, Ids, NoReq
<1>3. \A i \in Idx : hash[i].state # FREE => packet[hash[i].buf] \in Ids /\ hash[i].buf \in Bufs
  BY <1>2 DEF ApsInv, EntryOwnsBuffer
<1>4. \A i \in Idx : hash[i].aps_retries \in Nat
  BY ApsAssumption DEF ApsInv, TypeOK, Entry
<1>5. \A r \in Ids : copies[r] \in Nat /\ acked[r] \in Nat
  BY ApsAssumption DEF ApsInv, TypeOK
<1> QED
  BY <1>2, <1>3, <1>4, <1>5

\* A transmission keeps the invariant.
LEMMA TransmitKeeps ==
    ASSUME NormalUse, ApsInv, NEW b \in Bufs, NwkTransmit(b)
    PROVE  ApsInv'
<1>0. owner[b] = "nwk" /\ packet[b] \in Ids
  BY BufferInUse DEF ApsInv, NwkOwnsBuffer, NwkTransmit
<1>1. TypeOK'
  <2>1. copies' \in [Ids -> Nat]
    BY <1>0 DEF ApsInv, TypeOK, NwkTransmit
  <2> QED
    BY <2>1 DEF ApsInv, TypeOK, NwkTransmit
<1>2. PacketsNumbered'
  BY <1>0 DEF ApsInv, PacketsNumbered, NoReq, NwkTransmit
<1>3. NotYetMade'
  BY <1>0, ApsAssumption DEF ApsInv, TypeOK, NotYetMade, PacketsNumbered, Ids, NwkTransmit
<1>4. CountersDiffer'
  BY <1>0 DEF ApsInv, CountersDiffer, Age, NwkTransmit
<1>5. EntryMatches'
  BY <1>0 DEF ApsInv, EntryMatches, AckRequested, NwkTransmit
<1>6. PacketHasEntry'
  BY <1>0 DEF ApsInv, PacketHasEntry, HasEntry, AckRequested, NwkTransmit
<1>7. EntryOwnsBuffer'
  BY <1>0 DEF ApsInv, EntryOwnsBuffer, NwkTransmit
<1>8. NwkOwnsBuffer'
  BY <1>0 DEF ApsInv, NwkOwnsBuffer, NwkTransmit
<1>9. OneTransmission'
  BY <1>0 DEF ApsInv, OneTransmission, NwkTransmit
<1>10. OneAlarmPerEntry'
  BY <1>0 DEF ApsInv, OneAlarmPerEntry, NwkTransmit
<1>11. AckNoted'
  BY <1>0 DEF ApsInv, AckNoted, NwkTransmit
<1>12. RetriesCounted'
  <2> SUFFICES ASSUME NEW i \in Idx, hash[i].state # FREE
               PROVE  LET n == copies'[packet[hash[i].buf]]
                      IN  IF hash[i].buf \in nwk_q'
                          THEN /\ n + hash[i].aps_retries <= ZB_N_APS_MAX_FRAME_ENTRIES
                               /\ n < ZB_N_APS_MAX_FRAME_ENTRIES
                          ELSE /\ n + hash[i].aps_retries <= ZB_N_APS_MAX_FRAME_ENTRIES + 1
                               /\ n > 0
    BY DEF RetriesCounted, NwkTransmit
  <2>1. CASE hash[i].buf = b
    BY SMTT(40), <1>0, <2>1, BufferInUse, ApsAssumption DEF ApsInv, TypeOK, RetriesCounted, NwkTransmit
  <2>2. CASE hash[i].buf # b
    <3>1. packet[hash[i].buf] # packet[b]
      BY <1>0, <2>2, BufferInUse, ApsAssumption DEF ApsInv, PacketsNumbered, Ids, NoReq
    <3>2. copies'[packet[hash[i].buf]] = copies[packet[hash[i].buf]]
      BY <1>0, <3>1, BufferInUse DEF ApsInv, TypeOK, NwkTransmit
    <3> QED
      BY <2>2, <3>2 DEF ApsInv, RetriesCounted, NwkTransmit
  <2> QED
    BY <2>1, <2>2
<1>13. UnackedOnce'
  BY <1>0, ApsAssumption
     DEF ApsInv, TypeOK, UnackedOnce, PacketsNumbered, NwkOwnsBuffer, AckRequested,
         NwkTransmit
<1>14. BoundedTransmissions'
  <2>1. CASE AckRequested(packet[b])
    <3>1. PICK i \in Idx : hash[i].buf = b
      BY <1>0, <2>1 DEF ApsInv, PacketHasEntry, HasEntry
    <3>2. hash[i].state # FREE
      BY <3>1, ApsAssumption DEF ApsInv, EntryMatches
    <3>3. copies[packet[b]] < ZB_N_APS_MAX_FRAME_ENTRIES
      BY <3>1, <3>2 DEF ApsInv, RetriesCounted, NwkTransmit
    <3> QED
      BY <1>0, <3>3, BufferInUse, ApsAssumption
         DEF ApsInv, TypeOK, BoundedTransmissions, NwkTransmit
  <2>2. CASE ~AckRequested(packet[b])
    <3>1. copies[packet[b]] = 0
      BY <2>2 DEF ApsInv, UnackedOnce, NwkTransmit
    <3> QED
      BY <1>0, <3>1, BufferInUse, ApsAssumption
         DEF ApsInv, TypeOK, BoundedTransmissions, NwkTransmit
  <2> QED
    BY <2>1, <2>2
<1>15. ConfirmsOwn'
  BY <1>0 DEF ApsInv, ConfirmsOwn, NwkTransmit
<1>16. ConfirmsTrue'
  BY SMTT(40), <1>0, ApsAssumption
     DEF ApsInv, TypeOK, ConfirmsTrue, ConfirmsOwn, PacketsNumbered, NotYetMade, Truthful,
         NwkTransmit
<1> QED
  BY <1>1, <1>2, <1>3, <1>4, <1>5, <1>6, <1>7, <1>8, <1>9, <1>10, <1>11, <1>12, <1>13, <1>14,
     <1>15, <1>16
     DEF ApsInv

\* A packet without ACK request that finds no route.
LEMMA DropKeeps ==
    ASSUME NormalUse, ApsInv, NEW b \in Bufs, NwkDrop(b)
    PROVE  ApsInv'
<1>0. /\ owner[b] = "nwk" /\ ~AckRequested(packet[b])
      /\ \A i \in Idx : hash[i].state # FREE => hash[i].buf # b
  BY ApsAssumption DEF ApsInv, EntryMatches, NwkOwnsBuffer, AckRequested, NwkDrop, NormalUse
<1>1. TypeOK'
  BY <1>0 DEF ApsInv, TypeOK, Entry, Request, Statuses, Kinds, NwkDrop
<1>2. PacketsNumbered'
  BY <1>0 DEF ApsInv, PacketsNumbered, NoReq, NwkDrop
<1>3. NotYetMade'
  BY <1>0 DEF ApsInv, NotYetMade, Ids, NwkDrop
<1>4. CountersDiffer'
  BY <1>0 DEF ApsInv, CountersDiffer, Age, NwkDrop
<1>5. EntryMatches'
  BY <1>0 DEF ApsInv, EntryMatches, AckRequested, NwkDrop
<1>6. PacketHasEntry'
  BY <1>0 DEF ApsInv, PacketHasEntry, HasEntry, AckRequested, NwkDrop
<1>7. EntryOwnsBuffer'
  BY <1>0 DEF ApsInv, EntryOwnsBuffer, NwkDrop
<1>8. NwkOwnsBuffer'
  BY <1>0, ApsAssumption DEF ApsInv, TypeOK, NwkOwnsBuffer, OneTransmission, NwkDrop
<1>9. OneTransmission'
  BY <1>0 DEF ApsInv, OneTransmission, NwkDrop
<1>10. OneAlarmPerEntry'
  BY <1>0 DEF ApsInv, OneAlarmPerEntry, NwkDrop
<1>11. AckNoted'
  BY <1>0 DEF ApsInv, AckNoted, NwkDrop
<1>12. RetriesCounted'
  BY <1>0 DEF ApsInv, RetriesCounted, NwkDrop
<1>13. UnackedOnce'
  BY <1>0 DEF ApsInv, UnackedOnce, AckRequested, NwkDrop
<1>14. BoundedTransmissions'
  BY <1>0 DEF ApsInv, BoundedTransmissions, NwkDrop
<1>15. ConfirmsOwn'
  BY <1>0 DEF ApsInv, ConfirmsOwn, NwkDrop
<1>16. ConfirmsTrue'
  BY <1>0 DEF ApsInv, ConfirmsTrue, Truthful, NwkDrop
<1> QED
  BY <1>1, <1>2, <1>3, <1>4, <1>5, <1>6, <1>7, <1>8, <1>9, <1>10, <1>11, <1>12, <1>13, <1>14,
     <1>15, <1>16
     DEF ApsInv
-----------------------------------------------------------------------------
\* The states of an entry are four different strings.
USE DEF FREE, NOT_CONFIRMED, ACKED, MAC_CONFIRMED

-----------------------------------------------------------------------------
(* What an action does to one entry, one buffer or one request, the others  *)
(* staying as they are.                                                     *)

SameBut(f, g, S, x) == \A y \in S : y # x => g[y] = f[y]

OwnerBecomes(b, who) ==
    /\ owner' \in [Bufs -> {"pool", "nwk", "aps", "up"}]
    /\ owner'[b] = who
    /\ SameBut(owner, owner', Bufs, b)

\* Entry i goes on with the same packet.
EntryBecomes(i, state, left) ==
    /\ hash' \in [Idx -> Entry]
    /\ SameBut(hash, hash', Idx, i)
    /\ hash'[i].state = state /\ hash'[i].aps_retries = left
    /\ hash'[i].buf = hash[i].buf /\ hash'[i].addr = hash[i].addr
    /\ hash'[i].aps_counter = hash[i].aps_counter

EntryFreed(i) ==
    /\ hash' \in [Idx -> Entry]
    /\ SameBut(hash, hash', Idx, i)
    /\ hash'[i].state = FREE /\ hash'[i].buf = NoBuf /\ hash'[i].addr = NoAddr

EntryTaken(i, b, a) ==
    /\ hash' \in [Idx -> Entry]
    /\ SameBut(hash, hash', Idx, i)
    /\ hash'[i].state = NOT_CONFIRMED /\ hash'[i].buf = b /\ hash'[i].addr = a
    /\ hash'[i].aps_counter = aps_counter
    /\ hash'[i].aps_retries = ZB_N_APS_MAX_FRAME_ENTRIES

AckCounted(r) ==
    /\ acked' \in [Ids -> 0 .. MaxAcks]
    /\ acked'[r] = acked[r] + 1
    /\ SameBut(acked, acked', Ids, r)

RequestMade(kind, b, a) ==
    /\ owner[b] = "pool"
    /\ Len(reqs) \in Nat /\ Len(reqs) + 1 <= MaxReqs /\ Len(reqs') = Len(reqs) + 1
    /\ reqs' \in Seq(Request)
    /\ \A r \in 1 .. Len(reqs) : reqs'[r] = reqs[r]
    /\ reqs'[Len(reqs) + 1].kind = kind /\ reqs'[Len(reqs) + 1].addr = a
    /\ reqs'[Len(reqs) + 1].aps_counter = aps_counter
    /\ packet' \in [Bufs -> Ids \cup {NoReq}]
    /\ packet'[b] = Len(reqs) + 1
    /\ SameBut(packet, packet', Bufs, b)
    /\ UNCHANGED <<nwk_sent, copies, acked, result>>

\* The updates of the actions are of these forms.
LEMMA EntryUpdates ==
    ASSUME TypeOK, NEW i \in Idx
    PROVE  /\ \A st \in {NOT_CONFIRMED, ACKED, MAC_CONFIRMED} :
                hash' = [hash EXCEPT ![i].state = st]
                => EntryBecomes(i, st, hash[i].aps_retries)
           /\ \A left \in 0 .. hash[i].aps_retries :
                /\ hash' = [hash EXCEPT ![i].aps_retries = left]
                   => EntryBecomes(i, hash[i].state, left)
                /\ hash' = [hash EXCEPT ![i].aps_retries = left, ![i].state = NOT_CONFIRMED]
                   => EntryBecomes(i, NOT_CONFIRMED, left)
           /\ hash' = [hash EXCEPT ![i].state = FREE, ![i].addr = NoAddr, ![i].buf = NoBuf]
              => EntryFreed(i)
           /\ \A b \in Bufs, a \in Peers :
                hash' = [hash EXCEPT ![i] = NewEntry(b, a)] => EntryTaken(i, b, a)
<1>1. hash \in [Idx -> Entry] /\ hash[i] \in Entry /\ aps_counter \in 0 .. CounterSize - 1
  BY DEF TypeOK
<1>2. hash[i].aps_retries \in 0 .. ZB_N_APS_MAX_FRAME_ENTRIES
  BY <1>1 DEF Entry
<1>3. ASSUME NEW st \in {NOT_CONFIRMED, ACKED, MAC_CONFIRMED},
             hash' = [hash EXCEPT ![i].state = st]
      PROVE  EntryBecomes(i, st, hash[i].aps_retries)
  BY <1>1, <1>3 DEF EntryBecomes, Entry, SameBut
<1>4. ASSUME NEW left \in 0 .. hash[i].aps_retries,
             hash' = [hash EXCEPT ![i].aps_retries = left]
      PROVE  EntryBecomes(i, hash[i].state, left)
  BY <1>1, <1>2, <1>4, ApsAssumption DEF EntryBecomes, Entry, SameBut
<1>5. ASSUME NEW left \in 0 .. hash[i].aps_retries,
             hash' = [hash EXCEPT ![i].aps_retries = left, ![i].state = NOT_CONFIRMED]
      PROVE  EntryBecomes(i, NOT_CONFIRMED, left)
  <2>1. hash' = [hash EXCEPT ![i] = [@ EXCEPT !.aps_retries = left, !.state = NOT_CONFIRMED]]
    BY <1>1, <1>5 DEF Entry
  <2>2. [hash[i] EXCEPT !.aps_retries = left, !.state = NOT_CONFIRMED] \in Entry
    <3>1. left \in 0 .. ZB_N_APS_MAX_FRAME_ENTRIES
      BY <1>2, ApsAssumption
    <3> QED
      BY <1>1, <3>1 DEF Entry
  <2> QED
    BY <1>1, <1>2, <2>1, <2>2 DEF EntryBecomes, Entry, SameBut
<1>6. ASSUME hash' = [hash EXCEPT ![i].state = FREE, ![i].addr = NoAddr, ![i].buf = NoBuf]
      PROVE  EntryFreed(i)
  BY <1>1, <1>6 DEF EntryFreed, Entry, SameBut
<1>7. ASSUME NEW b \in Bufs, NEW a \in Peers, hash' = [hash EXCEPT ![i] = NewEntry(b, a)]
      PROVE  EntryTaken(i, b, a)
  BY <1>1, <1>7, ApsAssumption DEF EntryTaken, Entry, SameBut, NewEntry
<1> QED
  BY <1>3, <1>4, <1>5, <1>6, <1>7

\* A new request is the last one, and the buffer carries it.
LEMMA MakeRequestEffect ==
    ASSUME TypeOK, PacketsNumbered, NEW kind \in Kinds, NEW b \in Bufs, NEW a \in Peers,
           MakeRequest(kind, b, a)
    PROVE  RequestMade(kind, b, a)
<1>1. reqs \in Seq(Request) /\ Len(reqs) \in Nat /\ MaxReqs \in Nat
  BY ApsAssumption DEF TypeOK
<1>2. [kind |-> kind, addr |-> a, aps_counter |-> aps_counter] \in Request
  BY DEF Request, TypeOK
<1>3. /\ reqs' \in Seq(Request) /\ Len(reqs') = Len(reqs) + 1
      /\ \A r \in 1 .. Len(reqs) : reqs'[r] = reqs[r]
      /\ reqs'[Len(reqs) + 1] = [kind |-> kind, addr |-> a, aps_counter |-> aps_counter]
  BY <1>1, <1>2 DEF MakeRequest
<1>4. packet' \in [Bufs -> Ids \cup {NoReq}] /\ packet'[b] = Len(reqs) + 1
  BY <1>1 DEF MakeRequest, TypeOK, Ids
<1> QED
  BY <1>1, <1>3, <1>4 DEF RequestMade, SameBut, MakeRequest, TypeOK

\* A confirm on its way names a buffer, a request and a status.
LEMMA ConfirmFields ==
    ASSUME TypeOK
    PROVE  \A c \in confirm_q : /\ c[1] \in Bufs /\ c[2] \in Ids /\ c[3] \in Statuses
                                /\ c = <<c[1], c[2], c[3]>>
  BY DEF TypeOK

\* The counter of a new request is the newest: every other one is a value older.
LEMMA RequestCounters ==
    ASSUME ApsInv, NEW b \in Bufs, NEW a \in Peers, NEW kind \in Kinds, RequestMade(kind, b, a),
           IF kind = "unbound" THEN UNCHANGED aps_counter ELSE CounterInc
    PROVE  CountersDiffer'
<1>0. \A x \in 1 .. Len(reqs) : reqs[x] \in Request
  BY DEF ApsInv, TypeOK
<1>a. /\ Len(reqs) \in Nat /\ Len(reqs') = Len(reqs) + 1
      /\ Len(reqs) + 1 <= MaxReqs /\ MaxReqs <= CounterSize /\ MaxReqs \in Nat
      /\ aps_counter \in 0 .. CounterSize - 1 /\ CounterSize \in Nat \ {0}
      /\ reqs'[Len(reqs) + 1].aps_counter = aps_counter
      /\ reqs'[Len(reqs) + 1].kind = kind
      /\ \A x \in 1 .. Len(reqs) : reqs'[x] = reqs[x]
  BY ApsAssumption DEF ApsInv, TypeOK, RequestMade
<1>1. /\ Len(reqs) < CounterSize
      /\ \A x \in 1 .. Len(reqs) : reqs[x].aps_counter \in 0 .. CounterSize - 1
  BY <1>0, <1>a DEF Request
<1>2. \A x \in 1 .. Len(reqs) : Age(x) \in 0 .. CounterSize - 1
  BY SMTT(40), <1>a, <1>1 DEF Age
<1>3. \A x \in 1 .. Len(reqs) : reqs[x].kind # "unbound" =>
        /\ Age(x) <= Len(reqs) - x
        /\ \A s \in 1 .. Len(reqs) : s > x /\ reqs[s].kind # "unbound" => Age(s) < Age(x)
  BY DEF ApsInv, CountersDiffer
<1>4. SUFFICES ASSUME NEW x \in 1 .. Len(reqs'), reqs'[x].kind # "unbound"
               PROVE  /\ Age(x)' <= Len(reqs') - x
                      /\ \A s \in 1 .. Len(reqs') :
                           s > x /\ reqs'[s].kind # "unbound" => Age(s)' < Age(x)'
  BY DEF CountersDiffer
<1>5. CASE kind = "unbound"
  <2>1. \A y \in 1 .. Len(reqs) : Age(y)' = Age(y)
    BY <1>a, <1>5 DEF Age
  <2>2. \A y \in 1 .. Len(reqs') : reqs'[y].kind # "unbound" =>
            y \in 1 .. Len(reqs) /\ reqs[y].kind # "unbound"
    BY <1>a, <1>5
  <2> QED
    BY <1>a, <1>1, <1>2, <1>3, <1>4, <2>1, <2>2
<1>6. CASE kind # "unbound"
  <2>1. aps_counter' = IF aps_counter + 1 = CounterSize THEN 0 ELSE aps_counter + 1
    BY <1>a, <1>1, <1>6, CounterStep DEF CounterInc
  <2>a. PICK n : n = Len(reqs) + 1
    OBVIOUS
  <2>2. Age(n)' = 0
    BY <1>a, <2>1, <2>a DEF Age
  <2>3. ASSUME NEW y \in 1 .. Len(reqs), reqs[y].kind # "unbound"
        PROVE  Age(y)' = Age(y) + 1
    <3>1. Age(y) < CounterSize - 1
      BY <1>a, <1>1, <1>2, <1>3, <2>3
    <3>2. reqs'[y].aps_counter = reqs[y].aps_counter
      BY <1>a, <1>1
    <3>3. /\ reqs[y].aps_counter \in 0 .. CounterSize - 1
          /\ aps_counter \in 0 .. CounterSize - 1 /\ CounterSize \in Nat \ {0}
      BY <1>a, <1>1
    <3>4. CASE reqs[y].aps_counter < aps_counter
      BY SMTT(40), <2>1, <3>1, <3>2, <3>3, <3>4 DEF Age
    <3>5. CASE ~(reqs[y].aps_counter < aps_counter)
      BY SMTT(40), <2>1, <3>1, <3>2, <3>3, <3>5 DEF Age
    <3> QED
      BY <3>4, <3>5
  <2>4. \A y \in 1 .. Len(reqs') : y = n \/ y \in 1 .. Len(reqs)
    BY <1>a, <2>a
  <2>5. CASE x = n
    BY <1>a, <2>a, <2>2, <2>5
  <2>6. CASE x \in 1 .. Len(reqs)
    <3>1. reqs[x].kind # "unbound" /\ Age(x)' = Age(x) + 1 /\ Age(x) <= Len(reqs) - x
      BY <1>a, <1>1, <1>3, <1>4, <2>3, <2>6
    <3> SUFFICES ASSUME NEW s \in 1 .. Len(reqs'), s > x, reqs'[s].kind # "unbound"
                 PROVE  Age(s)' < Age(x)'
      BY <1>a, <1>1, <1>2, <2>6, <3>1
    <3>2. CASE s = n
      BY <1>2, <2>2, <2>6, <3>1, <3>2
    <3>3. CASE s \in 1 .. Len(reqs)
      <4>1. reqs[s].kind # "unbound" /\ Age(s)' = Age(s) + 1
        BY <1>a, <2>3, <3>3
      <4>2. Age(s) < Age(x)
        BY <1>3, <2>6, <3>1, <3>3, <4>1
      <4> QED
        BY <1>2, <2>6, <3>1, <3>3, <4>1, <4>2
    <3> QED
      BY <2>4, <3>2, <3>3
  <2> QED
    BY <2>4, <2>5, <2>6
<1> QED
  BY <1>5, <1>6

\* A data request or a command that gets an entry.
LEMMA RequestWithEntry ==
    ASSUME NormalUse, ApsInv, NEW b \in Bufs, NEW a \in Peers, NEW kind \in {"data", "command"},
           NEW i \in Idx, hash[i].state = FREE,
           RequestMade(kind, b, a), CounterInc, OwnerBecomes(b, "nwk"), nwk_q' = nwk_q \cup {b},
           EntryTaken(i, b, a),
           alarms' \in [Idx -> Nat], alarms'[i] = alarms[i] + 1, SameBut(alarms, alarms', Idx, i),
           UNCHANGED confirm_q
    PROVE  ApsInv'
<1> DEFINE r == Len(reqs) + 1
<1>a. /\ owner[b] = "pool" /\ owner'[b] = "nwk" /\ packet'[b] = r /\ r \in Ids /\ Len(reqs') = r
      /\ Len(reqs) \in Nat /\ reqs'[r].kind = kind /\ MaxReqs \in Nat
      /\ copies[r] = 0 /\ acked[r] = 0 /\ result[r] = <<>>
  BY ApsAssumption DEF RequestMade, OwnerBecomes, Ids, ApsInv, NotYetMade
<1>b. /\ \A c \in Bufs : c # b => owner'[c] = owner[c] /\ packet'[c] = packet[c]
      /\ \A c \in Bufs : packet[c] # r
      /\ \A x \in 1 .. Len(reqs) : reqs'[x] = reqs[x]
      /\ \A c \in Bufs : owner[c] # "pool" => c # b /\ packet[c] \in 1 .. Len(reqs)
  BY <1>a, BufferInUse DEF RequestMade, OwnerBecomes, SameBut, ApsInv, PacketsNumbered
<1>c. \A j \in Idx : hash[j].state # FREE =>
         /\ hash[j].buf # b /\ hash[j].buf \in Bufs
         /\ packet'[hash[j].buf] = packet[hash[j].buf] /\ packet[hash[j].buf] \in 1 .. Len(reqs)
         /\ owner'[hash[j].buf] = owner[hash[j].buf]
  BY <1>a, <1>b DEF ApsInv, EntryOwnsBuffer
<1>d. \A x \in 1 .. Len(reqs) : AckRequested(x)' = AckRequested(x)
  BY <1>b DEF AckRequested
<1> HIDE DEF r
<1>1. TypeOK'
  BY SMTT(40), BufferInUse, ApsAssumption
     DEF ApsInv, TypeOK, RequestMade, CounterInc, OwnerBecomes, EntryTaken, SameBut
<1>2. PacketsNumbered'
  BY <1>a, <1>b DEF ApsInv, PacketsNumbered, r, NoReq, Ids
<1>3. NotYetMade'
  BY <1>a DEF ApsInv, NotYetMade, RequestMade, r, Ids
<1>4. CountersDiffer'
  BY RequestCounters DEF Kinds
<1>5. EntryMatches'
  BY <1>a, <1>b, <1>c, <1>d
     DEF ApsInv, EntryMatches, RequestMade, SameBut, AckRequested, EntryTaken
<1>6. PacketHasEntry'
  <2> SUFFICES ASSUME NEW c \in Bufs
               PROVE  /\ owner'[c] = "aps" => HasEntry(c)'
                      /\ owner'[c] = "nwk" /\ AckRequested(packet[c])' => HasEntry(c)'
    BY DEF PacketHasEntry
  <2>1. CASE c = b
    BY <2>1 DEF HasEntry, EntryTaken
  <2>2. CASE c # b
    <3>1. owner'[c] = owner[c] /\ packet'[c] = packet[c]
      BY <1>b, <2>2
    <3>2. owner[c] # "pool" => AckRequested(packet[c])' = AckRequested(packet[c])
      BY <1>b, <1>d, <3>1
    <3>3. HasEntry(c) => HasEntry(c)'
      BY ApsAssumption DEF HasEntry, EntryTaken, SameBut, ApsInv, EntryMatches
    <3> QED
      BY <3>1, <3>2, <3>3 DEF ApsInv, PacketHasEntry
  <2> QED
    BY <2>1, <2>2
<1>7. EntryOwnsBuffer'
  BY <1>a, <1>c, ApsAssumption DEF ApsInv, EntryOwnsBuffer, EntryMatches, SameBut, EntryTaken
<1>8. NwkOwnsBuffer'
  BY DEF ApsInv, NwkOwnsBuffer, RequestMade, CounterInc, OwnerBecomes, EntryTaken, SameBut
<1>9. OneTransmission'
  BY BufferInUse, ApsAssumption
     DEF ApsInv, TypeOK, OneTransmission, NwkOwnsBuffer, RequestMade, CounterInc,
         OwnerBecomes, EntryTaken, SameBut
<1>10. OneAlarmPerEntry'
  BY DEF ApsInv, OneAlarmPerEntry, RequestMade, CounterInc, OwnerBecomes, EntryTaken, SameBut
<1>11. AckNoted'
  BY <1>a, <1>c DEF ApsInv, AckNoted, RequestMade, SameBut, EntryTaken
<1>12. RetriesCounted'
  BY <1>a, <1>c, ApsAssumption DEF ApsInv, RetriesCounted, RequestMade, SameBut, EntryTaken
<1>13. UnackedOnce'
  BY ZenonT(60), <1>a, <1>b, <1>d DEF ApsInv, UnackedOnce, NwkOwnsBuffer, RequestMade, TypeOK
<1>14. BoundedTransmissions'
  BY DEF ApsInv, BoundedTransmissions, RequestMade, CounterInc, OwnerBecomes, EntryTaken,
     SameBut
<1>15. ConfirmsOwn'
  BY <1>a, <1>b, ConfirmFields DEF ApsInv, ConfirmsOwn, RequestMade
<1>16. ConfirmsTrue'
  <2>1. \A c \in confirm_q : c[1] \in Bufs /\ c[2] \in 1 .. Len(reqs)
    BY <1>b, ConfirmFields DEF ApsInv, ConfirmsOwn
  <2>2. \A c \in confirm_q : Truthful(c[2], c[3])'
    BY <1>b, <2>1 DEF ApsInv, ConfirmsTrue, Truthful, RequestMade
  <2>3. \A x \in 1 .. Len(reqs) : result[x] # <<>> => Truthful(x, result[x][1])'
    BY <1>b DEF ApsInv, ConfirmsTrue, Truthful, RequestMade
  <2>4. \A x \in 1 .. Len(reqs') : x = r \/ x \in 1 .. Len(reqs)
    BY <1>a DEF r
  <2> QED
    BY <1>a, <2>2, <2>3, <2>4 DEF ConfirmsTrue, RequestMade
<1> QED
  BY <1>1, <1>2, <1>3, <1>4, <1>5, <1>6, <1>7, <1>8, <1>9, <1>10, <1>11, <1>12, <1>13, <1>14,
     <1>15, <1>16
     DEF ApsInv

\* A packet that asks for no ACK.
LEMMA RequestWithoutEntry ==
    ASSUME NormalUse, ApsInv, NEW b \in Bufs, NEW a \in Peers,
           RequestMade("unacked", b, a), CounterInc, OwnerBecomes(b, "nwk"), nwk_q' = nwk_q \cup {b},
           UNCHANGED <<hash, alarms, confirm_q>>
    PROVE  ApsInv'
<1> DEFINE r == Len(reqs) + 1
<1>a. /\ owner[b] = "pool" /\ owner'[b] = "nwk" /\ packet'[b] = r /\ r \in Ids /\ Len(reqs') = r
      /\ Len(reqs) \in Nat /\ reqs'[r].kind = "unacked" /\ MaxReqs \in Nat
      /\ copies[r] = 0 /\ acked[r] = 0 /\ result[r] = <<>>
  BY ApsAssumption DEF RequestMade, OwnerBecomes, Ids, ApsInv, NotYetMade
<1>b. /\ \A c \in Bufs : c # b => owner'[c] = owner[c] /\ packet'[c] = packet[c]
      /\ \A c \in Bufs : packet[c] # r
      /\ \A x \in 1 .. Len(reqs) : reqs'[x] = reqs[x]
      /\ \A c \in Bufs : owner[c] # "pool" => c # b /\ packet[c] \in 1 .. Len(reqs)
  BY <1>a, BufferInUse DEF RequestMade, OwnerBecomes, SameBut, ApsInv, PacketsNumbered
<1>c. \A j \in Idx : hash[j].state # FREE =>
         /\ hash[j].buf # b /\ hash[j].buf \in Bufs
         /\ packet'[hash[j].buf] = packet[hash[j].buf] /\ packet[hash[j].buf] \in 1 .. Len(reqs)
         /\ owner'[hash[j].buf] = owner[hash[j].buf]
  BY <1>a, <1>b DEF ApsInv, EntryOwnsBuffer
<1>d. \A x \in 1 .. Len(reqs) : AckRequested(x)' = AckRequested(x)
  BY <1>b DEF AckRequested
<1> HIDE DEF r
<1>1. TypeOK'
  <2>1. aps_counter' \in 0 .. CounterSize - 1
    BY ApsAssumption DEF ApsInv, TypeOK, CounterInc
  <2> QED
    BY <2>1 DEF ApsInv, TypeOK, RequestMade, OwnerBecomes
<1>2. PacketsNumbered'
  BY <1>a, <1>b DEF ApsInv, PacketsNumbered, r, NoReq, Ids
<1>3. NotYetMade'
  BY <1>a DEF ApsInv, NotYetMade, RequestMade, r, Ids
<1>4. CountersDiffer'
  BY RequestCounters DEF Kinds
<1>5. EntryMatches'
  BY <1>a, <1>b, <1>c, <1>d DEF ApsInv, EntryMatches, AckRequested
<1>6. PacketHasEntry'
  BY <1>a, <1>b, <1>d DEF ApsInv, PacketHasEntry, HasEntry, AckRequested
<1>7. EntryOwnsBuffer'
  BY <1>a, <1>c DEF ApsInv, EntryOwnsBuffer
<1>8. NwkOwnsBuffer'
  BY DEF ApsInv, NwkOwnsBuffer, RequestMade, CounterInc, OwnerBecomes, SameBut
<1>9. OneTransmission'
  BY BufferInUse, ApsAssumption
     DEF ApsInv, TypeOK, OneTransmission, NwkOwnsBuffer, RequestMade, CounterInc,
         OwnerBecomes, SameBut
<1>10. OneAlarmPerEntry'
  BY DEF ApsInv, OneAlarmPerEntry
<1>11. AckNoted'
  BY <1>a, <1>c DEF ApsInv, AckNoted, RequestMade, SameBut
<1>12. RetriesCounted'
  BY <1>a, <1>c DEF ApsInv, RetriesCounted, RequestMade, SameBut
<1>13. UnackedOnce'
  BY ZenonT(60), <1>a, <1>b, <1>d DEF ApsInv, UnackedOnce, NwkOwnsBuffer, RequestMade, TypeOK
<1>14. BoundedTransmissions'
  BY DEF ApsInv, BoundedTransmissions, RequestMade, CounterInc, OwnerBecomes, SameBut
<1>15. ConfirmsOwn'
  BY <1>a, <1>b, ConfirmFields DEF ApsInv, ConfirmsOwn, RequestMade
<1>16. ConfirmsTrue'
  BY SMTT(40), <1>a, <1>b, ConfirmFields, BufferInUse
     DEF ApsInv, ConfirmsTrue, ConfirmsOwn, Truthful, RequestMade
<1> QED
  BY <1>1, <1>2, <1>3, <1>4, <1>5, <1>6, <1>7, <1>8, <1>9, <1>10, <1>11, <1>12, <1>13, <1>14,
     <1>15, <1>16
     DEF ApsInv

\* A request without destination.
LEMMA RequestUnbound ==
    ASSUME NormalUse, ApsInv, NEW b \in Bufs, NEW a \in Peers,
           RequestMade("unbound", b, a), OwnerBecomes(b, "up"),
           confirm_q' = confirm_q \cup {<<b, Len(reqs) + 1, "OK">>},
           UNCHANGED <<hash, alarms, aps_counter, nwk_q>>
    PROVE  ApsInv'
<1> DEFINE r == Len(reqs) + 1
<1>a. /\ owner[b] = "pool" /\ owner'[b] = "up" /\ packet'[b] = r /\ r \in Ids /\ Len(reqs') = r
      /\ Len(reqs) \in Nat /\ reqs'[r].kind = "unbound" /\ MaxReqs \in Nat
      /\ copies[r] = 0 /\ acked[r] = 0 /\ result[r] = <<>>
  BY ApsAssumption DEF RequestMade, OwnerBecomes, Ids, ApsInv, NotYetMade
<1>b. /\ \A c \in Bufs : c # b => owner'[c] = owner[c] /\ packet'[c] = packet[c]
      /\ \A c \in Bufs : packet[c] # r
      /\ \A x \in 1 .. Len(reqs) : reqs'[x] = reqs[x]
      /\ \A c \in Bufs : owner[c] # "pool" => c # b /\ packet[c] \in 1 .. Len(reqs)
  BY <1>a, BufferInUse DEF RequestMade, OwnerBecomes, SameBut, ApsInv, PacketsNumbered
<1>c. \A j \in Idx : hash[j].state # FREE =>
         /\ hash[j].buf # b /\ hash[j].buf \in Bufs
         /\ packet'[hash[j].buf] = packet[hash[j].buf] /\ packet[hash[j].buf] \in 1 .. Len(reqs)
         /\ owner'[hash[j].buf] = owner[hash[j].buf]
  BY <1>a, <1>b DEF ApsInv, EntryOwnsBuffer
<1>d. \A x \in 1 .. Len(reqs) : AckRequested(x)' = AckRequested(x)
  BY <1>b DEF AckRequested
<1> HIDE DEF r
<1>1. TypeOK'
  <2>1. confirm_q' \subseteq Bufs \X Ids \X Statuses
    BY <1>a DEF ApsInv, TypeOK, Statuses, r
  <2> QED
    BY <2>1 DEF ApsInv, TypeOK, RequestMade, OwnerBecomes
<1>2. PacketsNumbered'
  BY <1>a, <1>b DEF ApsInv, PacketsNumbered, r, NoReq, Ids
<1>3. NotYetMade'
  BY <1>a DEF ApsInv, NotYetMade, RequestMade, r, Ids
<1>4. CountersDiffer'
  BY RequestCounters DEF Kinds
<1>5. EntryMatches'
  BY <1>a, <1>b, <1>c, <1>d DEF ApsInv, EntryMatches, AckRequested
<1>6. PacketHasEntry'
  BY <1>a, <1>b, <1>d DEF ApsInv, PacketHasEntry, HasEntry, AckRequested
<1>7. EntryOwnsBuffer'
  BY <1>a, <1>c DEF ApsInv, EntryOwnsBuffer
<1>8. NwkOwnsBuffer'
  BY DEF ApsInv, NwkOwnsBuffer, RequestMade, OwnerBecomes, SameBut
<1>9. OneTransmission'
  BY DEF ApsInv, OneTransmission, RequestMade, OwnerBecomes, SameBut
<1>10. OneAlarmPerEntry'
  BY DEF ApsInv, OneAlarmPerEntry
<1>11. AckNoted'
  BY <1>a, <1>c DEF ApsInv, AckNoted, RequestMade, SameBut
<1>12. RetriesCounted'
  BY <1>a, <1>c DEF ApsInv, RetriesCounted, RequestMade, SameBut
<1>13. UnackedOnce'
  BY ZenonT(60), <1>a, <1>b, <1>d DEF ApsInv, UnackedOnce, NwkOwnsBuffer, RequestMade, TypeOK
<1>14. BoundedTransmissions'
  BY DEF ApsInv, BoundedTransmissions, RequestMade, OwnerBecomes, SameBut
<1>15. ConfirmsOwn'
  <2>1. \A c \in confirm_q : /\ c[1] \in Bufs /\ c[1] # b /\ owner'[c[1]] = "up"
                             /\ packet'[c[1]] = c[2] /\ result[c[2]] = <<>>
    BY <1>a, <1>b, ConfirmFields DEF ApsInv, ConfirmsOwn
  <2>2. \A c \in confirm_q' : c \in confirm_q \/ c = <<b, r, "OK">>
    BY DEF r
  <2>3. /\ \A c \in confirm_q' : /\ owner'[c[1]] = "up" /\ packet'[c[1]] = c[2]
                                  /\ result[c[2]] = <<>>
        /\ \A c, d \in confirm_q' : c[1] = d[1] => c = d
    BY <1>a, <2>1, <2>2 DEF ApsInv, ConfirmsOwn
  <2> QED
    BY <1>a, <1>b, <2>3 DEF ApsInv, ConfirmsOwn, RequestMade
<1>16. ConfirmsTrue'
  BY <1>a, <1>b, ConfirmFields, BufferInUse
     DEF ApsInv, ConfirmsTrue, ConfirmsOwn, Truthful, RequestMade
<1> QED
  BY <1>1, <1>2, <1>3, <1>4, <1>5, <1>6, <1>7, <1>8, <1>9, <1>10, <1>11, <1>12, <1>13, <1>14,
     <1>15, <1>16
     DEF ApsInv

\* The end of an entry.
LEMMA EntryEnds ==
    ASSUME NormalUse, ApsInv, NEW i \in Idx, hash[i].state # FREE, EntryFreed(i),
           hash[i].buf \notin nwk_q, nwk_sent' = nwk_sent \ {hash[i].buf},
           NEW status \in Statuses, NEW r, r = packet[hash[i].buf], Truthful(r, status)',
           \/ /\ OwnerBecomes(hash[i].buf, "pool")
              /\ UNCHANGED confirm_q
           \/ /\ OwnerBecomes(hash[i].buf, "up")
              /\ confirm_q' = confirm_q \cup {<<hash[i].buf, packet[hash[i].buf], status>>},
           alarms' \in [Idx -> Nat], alarms'[i] = 0, SameBut(alarms, alarms', Idx, i),
           UNCHANGED acked \/ AckCounted(packet[hash[i].buf]),
           UNCHANGED <<aps_counter, packet, nwk_q, reqs, copies, result>>
    PROVE  ApsInv'
<1> DEFINE b == hash[i].buf
<1>a. /\ b \in Bufs /\ owner[b] \in {"nwk", "aps"} /\ NoBuf \notin Bufs
      /\ \A j \in Idx \ {i} : hash[j].buf # b
  BY ApsAssumption DEF ApsInv, EntryOwnsBuffer
<1>b. /\ r \in Ids /\ r \in 1 .. Len(reqs) /\ result[r] = <<>> /\ acked[r] \in Nat
      /\ \A c \in Bufs : owner[c] # "pool" /\ c # b => packet[c] # r
  BY <1>a, BufferInUse DEF ApsInv, ConfirmsOwn, PacketsNumbered
<1>1. TypeOK'
  BY BufferInUse, ApsAssumption
     DEF ApsInv, TypeOK, EntryFreed, OwnerBecomes, AckCounted, SameBut
<1>2. PacketsNumbered'
  BY DEF ApsInv, PacketsNumbered, EntryOwnsBuffer, NwkOwnsBuffer, NoReq, EntryFreed,
     OwnerBecomes, AckCounted, SameBut
<1>3. NotYetMade'
  BY <1>a, <1>b DEF ApsInv, NotYetMade, AckCounted, SameBut
<1>4. CountersDiffer'
  BY DEF ApsInv, CountersDiffer, Age
<1>5. EntryMatches'
  BY DEF ApsInv, EntryMatches, AckRequested, EntryFreed, OwnerBecomes, AckCounted, SameBut
<1>6. PacketHasEntry'
  BY DEF ApsInv, PacketHasEntry, HasEntry, AckRequested, EntryFreed, OwnerBecomes,
     AckCounted, SameBut
<1>7. EntryOwnsBuffer'
  <2> SUFFICES ASSUME NEW j \in Idx, hash'[j].state # FREE
               PROVE  /\ hash'[j].buf \in Bufs
                      /\ hash'[j].state = MAC_CONFIRMED <=> owner'[hash'[j].buf] = "aps"
                      /\ hash'[j].state # MAC_CONFIRMED <=> owner'[hash'[j].buf] = "nwk"
                      /\ \A k \in Idx \ {j} : hash'[k].buf # hash'[j].buf
    BY DEF EntryOwnsBuffer
  <2>1. j # i /\ hash'[j] = hash[j] /\ hash[j].buf # b
    BY <1>a DEF EntryFreed, SameBut
  <2>2. hash[j].buf \in Bufs /\ owner'[hash[j].buf] = owner[hash[j].buf]
    BY <2>1 DEF ApsInv, EntryOwnsBuffer, OwnerBecomes, SameBut
  <2> QED
    BY <1>a, <2>1, <2>2 DEF ApsInv, EntryOwnsBuffer, EntryFreed, SameBut
<1>8. NwkOwnsBuffer'
  BY DEF ApsInv, NwkOwnsBuffer, EntryFreed, OwnerBecomes, AckCounted, SameBut
<1>9. OneTransmission'
  BY DEF ApsInv, OneTransmission
<1>10. OneAlarmPerEntry'
  BY DEF ApsInv, OneAlarmPerEntry, EntryFreed, OwnerBecomes, AckCounted, SameBut
<1>11. AckNoted'
  <2> SUFFICES ASSUME NEW j \in Idx, hash'[j].state # FREE
               PROVE  hash'[j].state = ACKED <=> acked'[packet[hash'[j].buf]] > 0
    BY DEF AckNoted
  <2>1. j # i /\ hash'[j] = hash[j] /\ hash[j].buf # b
    BY <1>a DEF EntryFreed, SameBut
  <2>2. packet[hash[j].buf] # r /\ packet[hash[j].buf] \in Ids
    BY <1>b, <2>1, BufferInUse DEF ApsInv, EntryOwnsBuffer
  <2>3. acked'[packet[hash[j].buf]] = acked[packet[hash[j].buf]]
    BY <2>2 DEF AckCounted, SameBut
  <2> QED
    BY <2>1, <2>3 DEF ApsInv, AckNoted
<1>12. RetriesCounted'
  BY DEF ApsInv, RetriesCounted, EntryFreed, OwnerBecomes, AckCounted, SameBut
<1>13. UnackedOnce'
  BY DEF ApsInv, UnackedOnce, AckRequested
<1>14. BoundedTransmissions'
  BY DEF ApsInv, BoundedTransmissions
<1>15. ConfirmsOwn'
  <2>1. \A c \in confirm_q : c[1] # b /\ owner'[c[1]] = owner[c[1]]
    BY <1>a, ConfirmFields DEF ApsInv, ConfirmsOwn, OwnerBecomes, SameBut
  <2>2. \A c \in confirm_q' : \/ c \in confirm_q
                              \/ c = <<b, r, status>> /\ owner'[b] = "up"
    BY DEF OwnerBecomes
  <2>3. /\ \A c \in confirm_q' : /\ owner'[c[1]] = "up" /\ packet[c[1]] = c[2]
                                  /\ result[c[2]] = <<>>
        /\ \A c, d \in confirm_q' : c[1] = d[1] => c = d
    BY <1>b, <2>1, <2>2 DEF ApsInv, ConfirmsOwn
  <2>4. \A c \in Bufs : owner'[c] \in {"nwk", "aps"} => owner[c] \in {"nwk", "aps"}
    BY <1>a DEF OwnerBecomes, SameBut
  <2> QED
    BY <2>3, <2>4 DEF ApsInv, ConfirmsOwn
<1>16. ConfirmsTrue'
  <2>1. ASSUME NEW x \in Ids, acked[x] > 0
        PROVE  acked'[x] > 0
    <3>1. CASE UNCHANGED acked
      BY <2>1, <3>1
    <3>2. CASE AckCounted(r) /\ x = r
      BY <1>b, <3>2 DEF AckCounted
    <3>3. CASE AckCounted(r) /\ x # r
      BY <2>1, <3>3 DEF AckCounted, SameBut
    <3> QED
      BY <3>1, <3>2, <3>3
  <2>2. \A x \in Ids, st \in Statuses : Truthful(x, st) => Truthful(x, st)'
    BY <2>1 DEF Truthful
  <2>3. \A c \in confirm_q : Truthful(c[2], c[3])'
    BY <2>2, ConfirmFields DEF ApsInv, ConfirmsTrue
  <2>4. Truthful(r, status)'
    OBVIOUS
  <2>a. \A x \in 1 .. Len(reqs) : x \in Ids
    BY ApsAssumption DEF ApsInv, PacketsNumbered, Ids, TypeOK
  <2>5. \A x \in 1 .. Len(reqs) : result[x] # <<>> => Truthful(x, result[x][1])'
    BY <2>1, <2>a DEF ApsInv, ConfirmsTrue, Truthful
  <2>6. \A c \in confirm_q' : c \in confirm_q \/ c = <<b, r, status>>
    OBVIOUS
  <2>7. ASSUME NEW c \in confirm_q'
        PROVE  Truthful(c[2], c[3])'
    <3>1. CASE c \in confirm_q
      BY <2>3, <3>1
    <3>2. CASE c = <<b, r, status>>
      <4>1. c[2] = r /\ c[3] = status
        BY <3>2
      <4> QED
        BY <2>4, <4>1 DEF Truthful
    <3> QED
      BY <2>6, <3>1, <3>2
  <2> QED
    BY <2>5, <2>7 DEF ConfirmsTrue
<1> QED
  BY <1>1, <1>2, <1>3, <1>4, <1>5, <1>6, <1>7, <1>8, <1>9, <1>10, <1>11, <1>12, <1>13, <1>14,
     <1>15, <1>16
     DEF ApsInv

\* The network layer confirms a packet without ACK request.
LEMMA UnackedConfirmed ==
    ASSUME NormalUse, ApsInv, NEW b \in nwk_sent, NEW status \in {"OK", "NWK_ERROR"},
           nwk_sent' = nwk_sent \ {b}, ~AckRequested(packet[b]),
           OwnerBecomes(b, "up"),
           confirm_q' = confirm_q \cup {<<b, packet[b], status>>},
           UNCHANGED <<hash, alarms, aps_counter, packet, nwk_q, reqs, copies, acked, result>>
    PROVE  ApsInv'
<1> DEFINE r == packet[b]
<1>a. b \in Bufs /\ owner[b] = "nwk"
  BY DEF ApsInv, TypeOK, NwkOwnsBuffer
<1>b. r \in Ids /\ r \in 1 .. Len(reqs) /\ result[r] = <<>> /\ status \in Statuses
  BY <1>a, BufferInUse DEF ApsInv, ConfirmsOwn, Statuses
<1>1. TypeOK'
  <2>1. confirm_q' \subseteq Bufs \X Ids \X Statuses
    BY <1>a, <1>b DEF ApsInv, TypeOK
  <2> QED
    BY <2>1 DEF ApsInv, TypeOK, OwnerBecomes
<1>2. PacketsNumbered'
  BY <1>a, <1>b DEF ApsInv, PacketsNumbered, OwnerBecomes, SameBut, NoReq
<1>3. NotYetMade'
  BY DEF ApsInv, NotYetMade, Ids
<1>4. CountersDiffer'
  BY DEF ApsInv, CountersDiffer, Age
<1>5. EntryMatches'
  BY DEF ApsInv, EntryMatches, AckRequested
<1>6. PacketHasEntry'
  BY DEF ApsInv, PacketHasEntry, HasEntry, AckRequested, OwnerBecomes, SameBut
<1>7. EntryOwnsBuffer'
  BY BufferInUse, ApsAssumption
     DEF ApsInv, TypeOK, EntryOwnsBuffer, EntryMatches, NwkOwnsBuffer, OwnerBecomes, SameBut
<1>8. NwkOwnsBuffer'
  BY BufferInUse, ApsAssumption
     DEF ApsInv, TypeOK, NwkOwnsBuffer, OneTransmission, OwnerBecomes, SameBut
<1>9. OneTransmission'
  BY DEF ApsInv, OneTransmission
<1>10. OneAlarmPerEntry'
  BY DEF ApsInv, OneAlarmPerEntry
<1>11. AckNoted'
  BY DEF ApsInv, AckNoted
<1>12. RetriesCounted'
  BY DEF ApsInv, RetriesCounted
<1>13. UnackedOnce'
  BY DEF ApsInv, UnackedOnce, AckRequested
<1>14. BoundedTransmissions'
  BY DEF ApsInv, BoundedTransmissions
<1>15. ConfirmsOwn'
  <2>1. \A c \in confirm_q : c[1] # b /\ owner'[c[1]] = owner[c[1]]
    BY <1>a, ConfirmFields DEF ApsInv, ConfirmsOwn, OwnerBecomes, SameBut
  <2>2. /\ \A c \in confirm_q' : /\ owner'[c[1]] = "up" /\ packet[c[1]] = c[2]
                                  /\ result[c[2]] = <<>>
        /\ \A c, d \in confirm_q' : c[1] = d[1] => c = d
    BY <1>b, <2>1 DEF ApsInv, ConfirmsOwn, OwnerBecomes
  <2>3. \A c \in Bufs : owner'[c] \in {"nwk", "aps"} => owner[c] \in {"nwk", "aps"}
    BY <1>a DEF OwnerBecomes, SameBut
  <2> QED
    BY <2>2, <2>3 DEF ApsInv, ConfirmsOwn
<1>16. ConfirmsTrue'
  <2>1. Truthful(r, status)
    BY DEF Truthful, AckRequested
  <2>2. \A c \in confirm_q' : Truthful(c[2], c[3])
    BY <2>1 DEF ApsInv, ConfirmsTrue
  <2> QED
    BY <2>2 DEF ApsInv, ConfirmsTrue, Truthful
<1> QED
  BY <1>1, <1>2, <1>3, <1>4, <1>5, <1>6, <1>7, <1>8, <1>9, <1>10, <1>11, <1>12, <1>13, <1>14,
     <1>15, <1>16
     DEF ApsInv

\* The network layer confirms a packet that waits for its ACK.
LEMMA MacConfirmed ==
    ASSUME NormalUse, ApsInv, NEW i \in Idx, hash[i].state = NOT_CONFIRMED,
           EntryBecomes(i, MAC_CONFIRMED, hash[i].aps_retries),
           hash[i].buf \in nwk_sent, nwk_sent' = nwk_sent \ {hash[i].buf},
           OwnerBecomes(hash[i].buf, "aps"),
           UNCHANGED <<alarms, confirm_q, aps_counter, packet, nwk_q, reqs, copies, acked, result>>
    PROVE  ApsInv'
<1>1. TypeOK'
  BY DEF ApsInv, TypeOK, EntryBecomes, OwnerBecomes, SameBut
<1>2. PacketsNumbered'
  BY BufferInUse, ApsAssumption, ConfirmFields
     DEF ApsInv, TypeOK, PacketsNumbered, EntryOwnsBuffer, NwkOwnsBuffer, ConfirmsOwn, Ids,
         NoReq, EntryBecomes, OwnerBecomes, SameBut
<1>3. NotYetMade'
  BY DEF ApsInv, NotYetMade, Ids
<1>4. CountersDiffer'
  BY DEF ApsInv, CountersDiffer, Age
<1>5. EntryMatches'
  BY DEF ApsInv, EntryMatches, AckRequested, EntryBecomes, OwnerBecomes, SameBut
<1>6. PacketHasEntry'
  BY DEF ApsInv, PacketHasEntry, HasEntry, AckRequested, EntryBecomes, OwnerBecomes, SameBut
<1>7. EntryOwnsBuffer'
  BY DEF ApsInv, EntryOwnsBuffer, EntryBecomes, OwnerBecomes, SameBut
<1>8. NwkOwnsBuffer'
  BY BufferInUse, ApsAssumption
     DEF ApsInv, TypeOK, NwkOwnsBuffer, OneTransmission, EntryBecomes, OwnerBecomes, SameBut
<1>9. OneTransmission'
  BY DEF ApsInv, OneTransmission
<1>10. OneAlarmPerEntry'
  BY DEF ApsInv, OneAlarmPerEntry, EntryBecomes, OwnerBecomes, SameBut
<1>11. AckNoted'
  BY DEF ApsInv, AckNoted, EntryBecomes, OwnerBecomes, SameBut
<1>12. RetriesCounted'
  BY DEF ApsInv, RetriesCounted, EntryBecomes, OwnerBecomes, SameBut
<1>13. UnackedOnce'
  BY DEF ApsInv, UnackedOnce, AckRequested
<1>14. BoundedTransmissions'
  BY DEF ApsInv, BoundedTransmissions
<1>15. ConfirmsOwn'
  BY SMTT(40), BufferInUse, ApsAssumption, ConfirmFields
     DEF ApsInv, TypeOK, ConfirmsOwn, NwkOwnsBuffer, PacketsNumbered, EntryBecomes,
         OwnerBecomes, SameBut
<1>16. ConfirmsTrue'
  BY DEF ApsInv, ConfirmsTrue, Truthful
<1> QED
  BY <1>1, <1>2, <1>3, <1>4, <1>5, <1>6, <1>7, <1>8, <1>9, <1>10, <1>11, <1>12, <1>13, <1>14,
     <1>15, <1>16
     DEF ApsInv

\* An ACK that arrives before the confirm.
LEMMA AckBeforeConfirm ==
    ASSUME NormalUse, ApsInv, NEW i \in Idx, hash[i].state = NOT_CONFIRMED,
           EntryBecomes(i, ACKED, hash[i].aps_retries), AckCounted(packet[hash[i].buf]),
           UNCHANGED <<alarms, owner, confirm_q, aps_counter, packet, nwk_q, nwk_sent, reqs, copies, result>>
    PROVE  ApsInv'
<1> DEFINE r == packet[hash[i].buf]
<1>a. r \in Ids /\ r \in 1 .. Len(reqs)
  BY BufferInUse DEF ApsInv, EntryOwnsBuffer
<1>b. \A x \in Ids : acked[x] > 0 => acked'[x] > 0
  BY <1>a, BufferInUse DEF AckCounted, SameBut
<1> HIDE DEF r
<1>1. TypeOK'
  BY DEF ApsInv, TypeOK, EntryBecomes, AckCounted, SameBut
<1>2. PacketsNumbered'
  BY DEF ApsInv, PacketsNumbered, NoReq
<1>3. NotYetMade'
  BY <1>a DEF ApsInv, NotYetMade, AckCounted, SameBut, r
<1>4. CountersDiffer'
  BY DEF ApsInv, CountersDiffer, Age
<1>5. EntryMatches'
  BY DEF ApsInv, EntryMatches, AckRequested, EntryBecomes, AckCounted, SameBut
<1>6. PacketHasEntry'
  BY DEF ApsInv, PacketHasEntry, HasEntry, AckRequested, EntryBecomes, AckCounted, SameBut
<1>7. EntryOwnsBuffer'
  BY DEF ApsInv, EntryOwnsBuffer, EntryBecomes, AckCounted, SameBut
<1>8. NwkOwnsBuffer'
  BY DEF ApsInv, NwkOwnsBuffer
<1>9. OneTransmission'
  BY DEF ApsInv, OneTransmission
<1>10. OneAlarmPerEntry'
  BY DEF ApsInv, OneAlarmPerEntry, EntryBecomes, AckCounted, SameBut
<1>11. AckNoted'
  BY SMTT(40), BufferInUse
     DEF ApsInv, AckNoted, EntryOwnsBuffer, PacketsNumbered, NoReq, EntryBecomes, AckCounted,
         SameBut
<1>12. RetriesCounted'
  BY DEF ApsInv, RetriesCounted, EntryBecomes, AckCounted, SameBut
<1>13. UnackedOnce'
  BY DEF ApsInv, UnackedOnce, AckRequested
<1>14. BoundedTransmissions'
  BY DEF ApsInv, BoundedTransmissions
<1>15. ConfirmsOwn'
  BY DEF ApsInv, ConfirmsOwn
<1>16. ConfirmsTrue'
  <2>1. \A x \in Ids, st \in Statuses : Truthful(x, st) => Truthful(x, st)'
    BY <1>b DEF Truthful
  <2>2. \A c \in confirm_q : Truthful(c[2], c[3])'
    BY <2>1, ConfirmFields DEF ApsInv, ConfirmsTrue
  <2>3. \A x \in 1 .. Len(reqs) : x \in Ids
    BY ApsAssumption DEF ApsInv, PacketsNumbered, Ids, TypeOK
  <2>4. \A x \in 1 .. Len(reqs) : result[x] # <<>> => Truthful(x, result[x][1])'
    BY <1>b, <2>3 DEF ApsInv, ConfirmsTrue, Truthful
  <2> QED
    BY <2>2, <2>4 DEF ConfirmsTrue
<1> QED
  BY <1>1, <1>2, <1>3, <1>4, <1>5, <1>6, <1>7, <1>8, <1>9, <1>10, <1>11, <1>12, <1>13, <1>14,
     <1>15, <1>16
     DEF ApsInv

\* An ACK of a packet whose entry has ended.
LEMMA LateAck ==
    ASSUME NormalUse, ApsInv, NEW r \in Ids, r \in 1 .. Len(reqs), AckCounted(r),
           \A i \in Idx : hash[i].state # FREE => packet[hash[i].buf] # r,
           UNCHANGED <<hash, alarms, owner, confirm_q, aps_counter, packet, nwk_q, nwk_sent, reqs, copies, result>>
    PROVE  ApsInv'
<1>b. \A x \in Ids : acked[x] > 0 => acked'[x] > 0
  BY BufferInUse DEF AckCounted, SameBut
<1>1. TypeOK'
  BY DEF ApsInv, TypeOK, AckCounted, SameBut
<1>2. PacketsNumbered'
  BY DEF ApsInv, PacketsNumbered, NoReq
<1>3. NotYetMade'
  BY DEF ApsInv, NotYetMade, Ids, AckCounted, SameBut
<1>4. CountersDiffer'
  BY DEF ApsInv, CountersDiffer, Age
<1>5. EntryMatches'
  BY DEF ApsInv, EntryMatches, AckRequested
<1>6. PacketHasEntry'
  BY DEF ApsInv, PacketHasEntry, HasEntry, AckRequested
<1>7. EntryOwnsBuffer'
  BY DEF ApsInv, EntryOwnsBuffer
<1>8. NwkOwnsBuffer'
  BY DEF ApsInv, NwkOwnsBuffer
<1>9. OneTransmission'
  BY DEF ApsInv, OneTransmission
<1>10. OneAlarmPerEntry'
  BY DEF ApsInv, OneAlarmPerEntry
<1>11. AckNoted'
  BY BufferInUse, ApsAssumption DEF ApsInv, AckNoted, AckCounted, SameBut
<1>12. RetriesCounted'
  BY DEF ApsInv, RetriesCounted
<1>13. UnackedOnce'
  BY DEF ApsInv, UnackedOnce, AckRequested
<1>14. BoundedTransmissions'
  BY DEF ApsInv, BoundedTransmissions
<1>15. ConfirmsOwn'
  BY DEF ApsInv, ConfirmsOwn
<1>16. ConfirmsTrue'
  <2>1. \A x \in Ids, st \in Statuses : Truthful(x, st) => Truthful(x, st)'
    BY <1>b DEF Truthful
  <2>2. \A c \in confirm_q : Truthful(c[2], c[3])'
    BY <2>1, ConfirmFields DEF ApsInv, ConfirmsTrue
  <2>3. \A x \in 1 .. Len(reqs) : x \in Ids
    BY ApsAssumption DEF ApsInv, PacketsNumbered, Ids, TypeOK
  <2>4. \A x \in 1 .. Len(reqs) : result[x] # <<>> => Truthful(x, result[x][1])'
    BY <1>b, <2>3 DEF ApsInv, ConfirmsTrue, Truthful
  <2> QED
    BY <2>2, <2>4 DEF ConfirmsTrue
<1> QED
  BY <1>1, <1>2, <1>3, <1>4, <1>5, <1>6, <1>7, <1>8, <1>9, <1>10, <1>11, <1>12, <1>13, <1>14,
     <1>15, <1>16
     DEF ApsInv

\* A retransmission.
LEMMA RetransmitKeeps ==
    ASSUME NormalUse, ApsInv, NEW i \in Idx, hash[i].state = MAC_CONFIRMED, hash[i].aps_retries > 1,
           EntryBecomes(i, NOT_CONFIRMED, hash[i].aps_retries - 1),
           OwnerBecomes(hash[i].buf, "nwk"), nwk_q' = nwk_q \cup {hash[i].buf},
           UNCHANGED <<alarms, confirm_q, aps_counter, packet, nwk_sent, reqs, copies, acked, result>>
    PROVE  ApsInv'
<1>1. TypeOK'
  BY BufferInUse, ApsAssumption DEF ApsInv, TypeOK, EntryBecomes, OwnerBecomes, SameBut
<1>2. PacketsNumbered'
  BY DEF ApsInv, PacketsNumbered, EntryOwnsBuffer, NwkOwnsBuffer, NoReq, EntryBecomes,
     OwnerBecomes, SameBut
<1>3. NotYetMade'
  BY DEF ApsInv, NotYetMade, Ids
<1>4. CountersDiffer'
  BY DEF ApsInv, CountersDiffer, Age
<1>5. EntryMatches'
  BY DEF ApsInv, EntryMatches, AckRequested, EntryBecomes, OwnerBecomes, SameBut
<1>6. PacketHasEntry'
  BY DEF ApsInv, PacketHasEntry, HasEntry, AckRequested, EntryBecomes, OwnerBecomes, SameBut
<1>7. EntryOwnsBuffer'
  BY DEF ApsInv, EntryOwnsBuffer, EntryBecomes, OwnerBecomes, SameBut
<1>8. NwkOwnsBuffer'
  BY DEF ApsInv, NwkOwnsBuffer, EntryBecomes, OwnerBecomes, SameBut
<1>9. OneTransmission'
  BY DEF ApsInv, OneTransmission, EntryOwnsBuffer, NwkOwnsBuffer, EntryBecomes, OwnerBecomes,
     SameBut
<1>10. OneAlarmPerEntry'
  BY DEF ApsInv, OneAlarmPerEntry, EntryBecomes, OwnerBecomes, SameBut
<1>11. AckNoted'
  BY DEF ApsInv, AckNoted, EntryBecomes, OwnerBecomes, SameBut
<1>12. RetriesCounted'
  <2> SUFFICES ASSUME NEW j \in Idx, hash'[j].state # FREE
               PROVE  LET n == copies[packet[hash'[j].buf]]
                      IN  IF hash'[j].buf \in nwk_q'
                          THEN /\ n + hash'[j].aps_retries <= ZB_N_APS_MAX_FRAME_ENTRIES
                               /\ n < ZB_N_APS_MAX_FRAME_ENTRIES
                          ELSE /\ n + hash'[j].aps_retries <= ZB_N_APS_MAX_FRAME_ENTRIES + 1
                               /\ n > 0
    BY DEF RetriesCounted
  <2>1. CASE j = i
    <3>1. copies[packet[hash[i].buf]] \in Nat /\ hash[i].aps_retries \in Nat
      BY BufferInUse
    <3>2. RetriesCounted /\ hash[i].state # FREE /\ hash[i].buf \notin nwk_q
      BY DEF ApsInv, EntryOwnsBuffer, NwkOwnsBuffer
    <3> QED
      BY <2>1, <3>1, <3>2, ApsAssumption DEF RetriesCounted, EntryBecomes
  <2>2. CASE j # i
    <3>1. hash'[j] = hash[j]
      BY <2>2 DEF EntryBecomes, SameBut
    <3>2. hash[j].buf # hash[i].buf
      BY <2>2, <3>1 DEF ApsInv, EntryOwnsBuffer
    <3> QED
      BY <3>1, <3>2 DEF ApsInv, RetriesCounted
  <2> QED
    BY <2>1, <2>2
<1>13. UnackedOnce'
  BY DEF ApsInv, UnackedOnce, EntryMatches, AckRequested, EntryBecomes, OwnerBecomes, SameBut
<1>14. BoundedTransmissions'
  BY DEF ApsInv, BoundedTransmissions
<1>15. ConfirmsOwn'
  BY BufferInUse, ConfirmFields
     DEF ApsInv, ConfirmsOwn, PacketsNumbered, NwkOwnsBuffer, EntryOwnsBuffer, ConfirmsOwn,
         EntryBecomes, OwnerBecomes, SameBut
<1>16. ConfirmsTrue'
  BY DEF ApsInv, ConfirmsTrue, Truthful
<1> QED
  BY <1>1, <1>2, <1>3, <1>4, <1>5, <1>6, <1>7, <1>8, <1>9, <1>10, <1>11, <1>12, <1>13, <1>14,
     <1>15, <1>16
     DEF ApsInv

\* The alarm of an entry that still waits for the MAC.
LEMMA TickKeeps ==
    ASSUME NormalUse, ApsInv, NEW i \in Idx, hash[i].state # FREE, NEW left \in Nat, left <= hash[i].aps_retries,
           EntryBecomes(i, hash[i].state, left),
           UNCHANGED <<alarms, owner, nwk_q, confirm_q, aps_counter, packet, nwk_sent, reqs, copies, acked, result>>
    PROVE  ApsInv'
<1>1. TypeOK'
  BY DEF ApsInv, TypeOK, EntryBecomes, SameBut
<1>2. PacketsNumbered'
  BY DEF ApsInv, PacketsNumbered, NoReq
<1>3. NotYetMade'
  BY DEF ApsInv, NotYetMade, Ids
<1>4. CountersDiffer'
  BY DEF ApsInv, CountersDiffer, Age
<1>5. EntryMatches'
  BY DEF ApsInv, EntryMatches, AckRequested, EntryBecomes, SameBut
<1>6. PacketHasEntry'
  BY DEF ApsInv, PacketHasEntry, HasEntry, AckRequested, EntryBecomes, SameBut
<1>7. EntryOwnsBuffer'
  BY DEF ApsInv, EntryOwnsBuffer, EntryBecomes, SameBut
<1>8. NwkOwnsBuffer'
  BY DEF ApsInv, NwkOwnsBuffer
<1>9. OneTransmission'
  BY DEF ApsInv, OneTransmission
<1>10. OneAlarmPerEntry'
  BY DEF ApsInv, OneAlarmPerEntry, EntryBecomes, SameBut
<1>11. AckNoted'
  BY DEF ApsInv, AckNoted, EntryBecomes, SameBut
<1>12. RetriesCounted'
  <2> SUFFICES ASSUME NEW j \in Idx, hash'[j].state # FREE
               PROVE  LET n == copies[packet[hash'[j].buf]]
                      IN  IF hash'[j].buf \in nwk_q'
                          THEN /\ n + hash'[j].aps_retries <= ZB_N_APS_MAX_FRAME_ENTRIES
                               /\ n < ZB_N_APS_MAX_FRAME_ENTRIES
                          ELSE /\ n + hash'[j].aps_retries <= ZB_N_APS_MAX_FRAME_ENTRIES + 1
                               /\ n > 0
    BY DEF RetriesCounted
  <2>1. CASE j = i
    <3>1. copies[packet[hash[i].buf]] \in Nat /\ hash[i].aps_retries \in Nat
      BY BufferInUse
    <3>2. RetriesCounted /\ hash[i].state # FREE
      BY DEF ApsInv
    <3> QED
      BY <2>1, <3>1, <3>2, ApsAssumption DEF RetriesCounted, EntryBecomes
  <2>2. CASE j # i
    <3>1. hash'[j] = hash[j]
      BY <2>2 DEF EntryBecomes, SameBut
    <3>2. hash[j].buf # hash[i].buf
      BY <2>2, <3>1 DEF ApsInv, EntryOwnsBuffer
    <3> QED
      BY <3>1, <3>2 DEF ApsInv, RetriesCounted
  <2> QED
    BY <2>1, <2>2
<1>13. UnackedOnce'
  BY DEF ApsInv, UnackedOnce, AckRequested
<1>14. BoundedTransmissions'
  BY DEF ApsInv, BoundedTransmissions
<1>15. ConfirmsOwn'
  BY DEF ApsInv, ConfirmsOwn
<1>16. ConfirmsTrue'
  BY DEF ApsInv, ConfirmsTrue, Truthful
<1> QED
  BY <1>1, <1>2, <1>3, <1>4, <1>5, <1>6, <1>7, <1>8, <1>9, <1>10, <1>11, <1>12, <1>13, <1>14,
     <1>15, <1>16
     DEF ApsInv

\* The upper layer is told.
LEMMA ToldKeeps ==
    ASSUME NormalUse, ApsInv, NEW c \in confirm_q, NEW who \in {"up", "pool"}, OwnerBecomes(c[1], who),
           confirm_q' = confirm_q \ {c}, result' \in [Ids -> Seq(Statuses)],
           result'[c[2]] = Append(result[c[2]], c[3]), SameBut(result, result', Ids, c[2]),
           UNCHANGED <<hash, aps_counter, alarms, packet, nwk_q, nwk_sent, reqs, copies, acked>>
    PROVE  ApsInv'
<1>a. /\ c[1] \in Bufs /\ c[2] \in Ids /\ owner[c[1]] = "up" /\ packet[c[1]] = c[2]
      /\ result[c[2]] = <<>> /\ c[3] \in Statuses
  BY ConfirmFields DEF ApsInv, ConfirmsOwn
<1>b. result'[c[2]] = <<c[3]>> /\ Len(result'[c[2]]) = 1 /\ result'[c[2]][1] = c[3]
  BY <1>a
<1>1. TypeOK'
  BY DEF ApsInv, TypeOK, OwnerBecomes, SameBut
<1>2. PacketsNumbered'
  BY BufferInUse, ConfirmFields
     DEF ApsInv, PacketsNumbered, EntryOwnsBuffer, NwkOwnsBuffer, NoReq, ConfirmsOwn,
         OwnerBecomes, SameBut
<1>3. NotYetMade'
  BY BufferInUse, ConfirmFields DEF ApsInv, NotYetMade, Ids, ConfirmsOwn, OwnerBecomes, SameBut
<1>4. CountersDiffer'
  BY DEF ApsInv, CountersDiffer, Age
<1>5. EntryMatches'
  BY DEF ApsInv, EntryMatches, AckRequested
<1>6. PacketHasEntry'
  BY DEF ApsInv, PacketHasEntry, HasEntry, AckRequested, OwnerBecomes, SameBut
<1>7. EntryOwnsBuffer'
  <2>1. \A j \in Idx : hash[j].state # FREE => owner'[hash[j].buf] = owner[hash[j].buf]
    BY <1>a DEF ApsInv, EntryOwnsBuffer, OwnerBecomes, SameBut
  <2> QED
    BY <2>1 DEF ApsInv, EntryOwnsBuffer
<1>8. NwkOwnsBuffer'
  BY <1>a DEF ApsInv, NwkOwnsBuffer, OwnerBecomes, SameBut
<1>9. OneTransmission'
  BY DEF ApsInv, OneTransmission
<1>10. OneAlarmPerEntry'
  BY DEF ApsInv, OneAlarmPerEntry
<1>11. AckNoted'
  BY DEF ApsInv, AckNoted
<1>12. RetriesCounted'
  BY DEF ApsInv, RetriesCounted
<1>13. UnackedOnce'
  BY DEF ApsInv, UnackedOnce, AckRequested
<1>14. BoundedTransmissions'
  BY DEF ApsInv, BoundedTransmissions
<1>15. ConfirmsOwn'
  <2>1. \A d \in confirm_q' : d \in confirm_q /\ d[1] # c[1]
    BY DEF ApsInv, ConfirmsOwn
  <2>2. \A d \in confirm_q' : d[1] \in Bufs /\ packet[d[1]] = d[2] /\ d[2] # c[2] /\ d[2] \in Ids
    BY <1>a, <2>1, BufferInUse, ConfirmFields DEF ApsInv, ConfirmsOwn, PacketsNumbered
  <2>3. \A d \in confirm_q' : /\ owner'[d[1]] = "up" /\ packet[d[1]] = d[2]
                              /\ result'[d[2]] = <<>>
    BY <2>1, <2>2 DEF ApsInv, ConfirmsOwn, OwnerBecomes, SameBut
  <2>4. \A x \in Bufs : owner'[x] \in {"nwk", "aps"} => result'[packet[x]] = <<>>
    <3> SUFFICES ASSUME NEW x \in Bufs, owner'[x] \in {"nwk", "aps"}
                 PROVE  result'[packet[x]] = <<>>
      OBVIOUS
    <3>1. x # c[1] /\ owner[x] = owner'[x]
      BY <1>a DEF OwnerBecomes, SameBut
    <3>2. packet[x] # c[2] /\ packet[x] \in Ids
      BY <1>a, <3>1, BufferInUse DEF ApsInv, PacketsNumbered
    <3> QED
      BY <3>1, <3>2 DEF ApsInv, ConfirmsOwn, SameBut
  <2>5. \A r \in Ids : Len(result'[r]) <= 1
    BY SMTT(40), <1>b DEF ApsInv, ConfirmsOwn, SameBut
  <2> QED
    BY <2>1, <2>3, <2>4, <2>5 DEF ApsInv, ConfirmsOwn
<1>16. ConfirmsTrue'
  <2>1. Truthful(c[2], c[3])
    BY DEF ApsInv, ConfirmsTrue
  <2>2. \A x \in 1 .. Len(reqs) : x # c[2] => result'[x] = result[x]
    BY ApsAssumption DEF ApsInv, TypeOK, PacketsNumbered, SameBut, Ids
  <2>3. \A x \in 1 .. Len(reqs) : result'[x] # <<>> => Truthful(x, result'[x][1])
    BY <1>b, <2>1, <2>2 DEF ApsInv, ConfirmsTrue
  <2> QED
    BY <2>3 DEF ApsInv, ConfirmsTrue, Truthful
<1> QED
  BY <1>1, <1>2, <1>3, <1>4, <1>5, <1>6, <1>7, <1>8, <1>9, <1>10, <1>11, <1>12, <1>13, <1>14,
     <1>15, <1>16
     DEF ApsInv

-----------------------------------------------------------------------------
(* Every action has one of these effects.                                   *)

\* A free entry is found for a packet that waits for an ACK.
LEMMA RequestKeeps ==
    ASSUME NormalUse, ApsInv, NEW b \in Bufs, NEW a \in Peers,
           \/ zb_apsde_data_request_ack(b, a)
           \/ zb_apsde_data_request_noack(b, a)
           \/ zb_apsde_data_request_unbound(b, a)
           \/ \E need_ack \in BOOLEAN : zb_aps_send_command(b, a, need_ack)
    PROVE  ApsInv'
<1> USE DEF Kinds
<1>0. TypeOK /\ PacketsNumbered
  BY DEF ApsInv
<1>1. ASSUME NEW who, owner' = [owner EXCEPT ![b] = who], who \in {"nwk", "up"}
      PROVE  OwnerBecomes(b, who)
  BY <1>0, <1>1 DEF TypeOK, OwnerBecomes, SameBut
<1>2. ASSUME NEW i \in Idx, alarms' = [alarms EXCEPT ![i] = @ + 1]
      PROVE  /\ alarms' \in [Idx -> Nat] /\ alarms'[i] = alarms[i] + 1
             /\ SameBut(alarms, alarms', Idx, i)
  BY <1>0, <1>2 DEF TypeOK, SameBut
<1>3. CASE zb_apsde_data_request_ack(b, a)
  <2> DEFINE i == FirstFree
  <2>1. MakeRequest("data", b, a) /\ CounterInc
    BY <1>3 DEF zb_apsde_data_request_ack
  <2>2. i \in Idx /\ hash[i].state = FREE /\ ~TableFull(i)
    BY <1>0, <2>1, FreeEntryFound DEF MakeRequest
  <2>3. /\ hash' = [hash EXCEPT ![i] = NewEntry(b, a)]
        /\ alarms' = [alarms EXCEPT ![i] = @ + 1]
        /\ PassToNwk(b) /\ UNCHANGED confirm_q
    BY <1>3, <2>2 DEF zb_apsde_data_request_ack, EntryRef
  <2> HIDE DEF i
  <2>4. RequestMade("data", b, a) /\ EntryTaken(i, b, a) /\ OwnerBecomes(b, "nwk")
    BY <1>0, <1>1, <2>1, <2>2, <2>3, EntryUpdates, MakeRequestEffect DEF PassToNwk
  <2> QED
    BY <1>2, <2>1, <2>2, <2>3, <2>4, RequestWithEntry DEF PassToNwk
<1>4. CASE zb_apsde_data_request_noack(b, a)
  BY <1>0, <1>1, <1>4, MakeRequestEffect, RequestWithoutEntry
     DEF zb_apsde_data_request_noack, PassToNwk
<1>5. CASE zb_apsde_data_request_unbound(b, a)
  BY <1>0, <1>1, <1>5, MakeRequestEffect, RequestUnbound DEF zb_apsde_data_request_unbound
<1>6. CASE zb_aps_send_command(b, a, FALSE)
  BY <1>0, <1>1, <1>6, MakeRequestEffect, RequestWithoutEntry
     DEF zb_aps_send_command, PassToNwk
<1>7. CASE zb_aps_send_command(b, a, TRUE)
  <2> DEFINE i == FirstFree
  <2>1. MakeRequest("command", b, a) /\ CounterInc /\ PassToNwk(b) /\ UNCHANGED confirm_q
    BY <1>7 DEF zb_aps_send_command
  <2>2. i \in Idx /\ hash[i].state = FREE
    BY <1>0, <2>1, FreeEntryFound DEF MakeRequest
  <2>3. /\ hash' = [hash EXCEPT ![i] = NewEntry(b, a)]
        /\ alarms' = [alarms EXCEPT ![i] = @ + 1]
    BY <1>7, <2>2 DEF zb_aps_send_command
  <2> HIDE DEF i
  <2>4. RequestMade("command", b, a) /\ EntryTaken(i, b, a) /\ OwnerBecomes(b, "nwk")
    BY <1>0, <1>1, <2>1, <2>2, <2>3, EntryUpdates, MakeRequestEffect DEF PassToNwk
  <2> QED
    BY <1>2, <2>1, <2>2, <2>3, <2>4, RequestWithEntry DEF PassToNwk
<1> QED
  BY <1>3, <1>4, <1>5, <1>6, <1>7

\* What done_with_this_ack() does to the table, the alarms and the buffer.
LEMMA DoneEffect ==
    ASSUME ApsInv, NEW i \in Idx, hash[i].state # FREE, NEW left \in 0 .. 1, NEW status \in Statuses,
           done_with_this_ack(i, left, status)
    PROVE  /\ EntryFreed(i)
           /\ \/ OwnerBecomes(hash[i].buf, "pool") /\ UNCHANGED confirm_q
              \/ /\ OwnerBecomes(hash[i].buf, "up")
                 /\ confirm_q' = confirm_q \cup {<<hash[i].buf, packet[hash[i].buf], status>>}
           /\ alarms' \in [Idx -> Nat] /\ alarms'[i] = 0 /\ SameBut(alarms, alarms', Idx, i)
<1> DEFINE b == hash[i].buf
<1>1. TypeOK /\ b \in Bufs
  BY DEF ApsInv, EntryOwnsBuffer
<1>2. EntryFreed(i)
  BY <1>1, EntryUpdates DEF done_with_this_ack
<1>3. alarms' = [alarms EXCEPT ![i] = 0]
  <2>1. CancelAlarm(left) = 0
    BY DEF CancelAlarm
  <2> QED
    BY <2>1 DEF done_with_this_ack
<1>4. alarms' \in [Idx -> Nat] /\ alarms'[i] = 0 /\ SameBut(alarms, alarms', Idx, i)
  BY <1>1, <1>3 DEF TypeOK, SameBut
<1>5. \A who \in {"pool", "up"} : owner' = [owner EXCEPT ![b] = who] => OwnerBecomes(b, who)
  BY <1>1 DEF TypeOK, OwnerBecomes, SameBut
<1> QED
  BY <1>2, <1>4, <1>5 DEF done_with_this_ack

\* A confirm of the network layer meets the entry of its packet, if it has one.
LEMMA NldeConfirmKeeps ==
    ASSUME NormalUse, ApsInv, NEW b \in Bufs, NEW status \in {"OK", "NWK_ERROR"},
           zb_nlde_data_confirm(b, status)
    PROVE  ApsInv'
<1> DEFINE found == {i \in Idx : hash[i].buf = b}
           first == CHOOSE i \in found : \A j \in found : i <= j
<1>1. b \in nwk_sent /\ owner[b] = "nwk" /\ b \notin nwk_q
  BY DEF zb_nlde_data_confirm, ApsInv, NwkOwnsBuffer, OneTransmission
<1>2. ASSUME NEW who \in {"up", "aps"}, owner' = [owner EXCEPT ![b] = who]
      PROVE  OwnerBecomes(b, who)
  BY <1>2 DEF ApsInv, TypeOK, OwnerBecomes, SameBut
<1>3. CASE ~AckRequested(packet[b])
  BY <1>1, <1>2, <1>3, UnackedConfirmed DEF zb_nlde_data_confirm
<1>4. CASE AckRequested(packet[b])
  <2>1. PICK i \in Idx : hash[i].buf = b
    BY <1>1, <1>4 DEF ApsInv, PacketHasEntry, HasEntry
  <2>2. /\ hash[i].state \in {NOT_CONFIRMED, ACKED}
        /\ \A j \in Idx : hash[j].buf = b => j = i
    BY ZenonT(60), <1>1, <2>1, ApsAssumption DEF ApsInv, TypeOK, Entry, EntryMatches, EntryOwnsBuffer
  <2>3. found = {i}
    BY <2>1, <2>2
  <2>4. first = i /\ found # {}
    BY <2>3 DEF Idx
  <2> HIDE DEF found, first
  <2>5. CASE hash[i].state = ACKED
    <3>1. done_with_this_ack(i, alarms[i], "OK") /\ nwk_sent' = nwk_sent \ {b}
      BY <1>4, <2>4, <2>5 DEF zb_nlde_data_confirm, found, first
    <3>2. alarms[i] \in 0 .. 1
      BY <2>5 DEF ApsInv, OneAlarmPerEntry
    <3>3. PICK r : r = packet[b]
      OBVIOUS
    <3>4. Truthful(r, "OK")'
      BY <2>1, <2>5, <3>3 DEF Truthful, zb_nlde_data_confirm, ApsInv, AckNoted
    <3>5. UNCHANGED <<aps_counter, packet, nwk_q, reqs, copies, acked, result>>
      BY DEF zb_nlde_data_confirm
    <3> QED
      BY <1>1, <2>1, <2>5, <3>1, <3>2, <3>3, <3>4, <3>5, DoneEffect, EntryEnds DEF Statuses
  <2>6. CASE hash[i].state # ACKED
    <3>1. /\ hash' = [hash EXCEPT ![i].state = MAC_CONFIRMED]
          /\ owner' = [owner EXCEPT ![b] = "aps"] /\ nwk_sent' = nwk_sent \ {b}
          /\ UNCHANGED <<alarms, confirm_q, aps_counter, packet, nwk_q, reqs, copies, acked, result>>
      BY <1>4, <2>4, <2>6 DEF zb_nlde_data_confirm, found, first
    <3>2. EntryBecomes(i, MAC_CONFIRMED, hash[i].aps_retries)
      BY <3>1, EntryUpdates DEF ApsInv
    <3> QED
      BY <1>1, <1>2, <2>1, <2>2, <2>6, <3>1, <3>2, MacConfirmed
  <2> QED
    BY <2>5, <2>6
<1> QED
  BY <1>3, <1>4

\* An ACK is matched by peer and counter: with the entry of its own packet, if
\* that still has one.
LEMMA AckKeeps ==
    ASSUME NormalUse, ApsInv, NEW r \in Ids, aps_ack_frame_handle(r)
    PROVE  ApsInv'
<1> DEFINE found == {i \in Idx : /\ hash[i].addr = reqs[r].addr
                                 /\ hash[i].aps_counter = reqs[r].aps_counter}
           first == CHOOSE i \in found : \A j \in found : i <= j
<1>1. /\ r \in 1 .. Len(reqs) /\ AckRequested(r)
      /\ acked[r] < MaxAcks /\ acked[r] \in Nat /\ MaxAcks \in Nat /\ MaxAcks <= 1
      /\ acked[r] < copies[r]
      /\ acked' = [acked EXCEPT ![r] = @ + 1]
      /\ UNCHANGED <<aps_counter, packet, nwk_q, nwk_sent, reqs, copies, result>>
  BY Zenon, BufferInUse, ApsAssumption DEF aps_ack_frame_handle, AckRequested, NormalUse
<1>2. AckCounted(r) /\ acked[r] = 0
  BY <1>1 DEF AckCounted, SameBut, ApsInv, TypeOK
<1>3. reqs[r] \in Request
  BY <1>1 DEF ApsInv, TypeOK
<1>4. ASSUME NEW i \in Idx
      PROVE  i \in found <=> hash[i].state # FREE /\ packet[hash[i].buf] = r
  <2>1. CASE hash[i].state = FREE
    BY <1>3, <2>1, ApsAssumption DEF ApsInv, EntryMatches, Request
  <2>2. CASE hash[i].state # FREE
    <3>1. PICK s : s = packet[hash[i].buf]
      OBVIOUS
    <3>2. /\ s \in 1 .. Len(reqs) /\ AckRequested(s)
          /\ hash[i].addr = reqs[s].addr /\ hash[i].aps_counter = reqs[s].aps_counter
      BY <2>2, <3>1, BufferInUse DEF ApsInv, EntryMatches, EntryOwnsBuffer
    <3>3. reqs[s].aps_counter = reqs[r].aps_counter => s = r
      BY SMTT(40), <1>1, <3>2, SameCounterSameRequest DEF ApsInv, AckRequested
    <3> QED
      BY <2>2, <3>1, <3>2, <3>3
  <2> QED
    BY <2>1, <2>2
<1>5. CASE found = {}
  <2>1. UNCHANGED <<hash, alarms, owner, confirm_q>>
    BY Zenon, <1>5 DEF aps_ack_frame_handle
  <2> QED
    BY <1>1, <1>2, <1>4, <1>5, <2>1, LateAck
<1>6. CASE found # {}
  <2>1. PICK i \in Idx : i \in found
    BY <1>6
  <2>2. \A j \in found : j = i
    BY <1>4, <2>1, BufferInUse DEF ApsInv, PacketsNumbered, EntryOwnsBuffer, Ids, NoReq
  <2>3. found = {i}
    BY <2>1, <2>2
  <2>4. first = i
    BY <2>1, <2>3 DEF Idx
  <2>5. hash[i].state # FREE /\ packet[hash[i].buf] = r /\ hash[i].state # ACKED
    BY <1>2, <1>4, <2>1 DEF ApsInv, AckNoted
  <2> HIDE DEF found, first
  <2>6. CASE hash[i].state = NOT_CONFIRMED
    <3>1. hash' = [hash EXCEPT ![i].state = ACKED] /\ UNCHANGED <<alarms, owner, confirm_q>>
      BY Zenon, <1>6, <2>4, <2>6 DEF aps_ack_frame_handle, found, first, AckDone
    <3>2. EntryBecomes(i, ACKED, hash[i].aps_retries)
      BY <3>1, EntryUpdates DEF ApsInv
    <3> QED
      BY SMTT(40), <1>1, <1>2, <2>5, <2>6, <3>1, <3>2, AckBeforeConfirm
  <2>7. CASE hash[i].state = MAC_CONFIRMED
    <3>1. done_with_this_ack(i, alarms[i], "OK")
      BY Zenon, <1>6, <2>4, <2>7 DEF aps_ack_frame_handle, found, first, AckDone
    <3>2. alarms[i] \in 0 .. 1
      BY <2>7 DEF ApsInv, OneAlarmPerEntry
    <3>3. /\ hash[i].buf \in Bufs /\ hash[i].buf \notin nwk_q
          /\ nwk_sent' = nwk_sent \ {hash[i].buf}
      BY <1>1, <2>7 DEF ApsInv, EntryOwnsBuffer, NwkOwnsBuffer
    <3>4. Truthful(r, "OK")'
      BY <1>1, <1>2 DEF Truthful, AckCounted
    <3> QED
      BY SMTT(40), <1>1, <1>2, <2>5, <3>1, <3>2, <3>3, <3>4, DoneEffect, EntryEnds DEF Statuses
  <2>8. hash[i].state \in {FREE, NOT_CONFIRMED, ACKED, MAC_CONFIRMED}
    BY DEF ApsInv, TypeOK, Entry
  <2> QED
    BY <2>5, <2>6, <2>7, <2>8
<1> QED
  BY <1>5, <1>6

\* The alarm of an entry ends it after the last retry, and not before.
LEMMA TimerKeeps ==
    ASSUME NormalUse, ApsInv, NEW i \in Idx, zb_aps_ack_timer_cb(i)
    PROVE  ApsInv'
<1> DEFINE n == hash[i].aps_retries
           left == RetriesLeft(n)
<1>1. /\ hash[i].state # FREE /\ alarms[i] = 1 /\ n \in Nat
      /\ left \in 0 .. n /\ (left > 0 => n > 1 /\ left = n - 1)
      /\ UNCHANGED <<aps_counter, packet, nwk_sent, reqs, copies, acked, result>>
  BY BufferInUse DEF zb_aps_ack_timer_cb, ApsInv, OneAlarmPerEntry, RetriesLeft
<1>2. /\ hash[i].buf \in Bufs
      /\ hash[i].state = MAC_CONFIRMED =>
           hash[i].buf \notin nwk_q /\ nwk_sent' = nwk_sent \ {hash[i].buf}
  BY <1>1 DEF ApsInv, EntryOwnsBuffer, NwkOwnsBuffer
<1> HIDE DEF left
<1>3. CASE left = 0 /\ hash[i].state = MAC_CONFIRMED
  <2>1. done_with_this_ack(i, 0, "NO_ACK") /\ UNCHANGED nwk_q
    BY <1>1, <1>3 DEF zb_aps_ack_timer_cb, left
  <2>2. PICK r : r = packet[hash[i].buf]
    OBVIOUS
  <2>3. Truthful(r, "NO_ACK")'
    BY <1>1, <1>2, <1>3, <2>2 DEF Truthful, ApsInv, RetriesCounted
  <2> QED
    BY <1>1, <1>2, <1>3, <2>1, <2>2, <2>3, DoneEffect, EntryEnds DEF Statuses
<1>4. CASE left > 0 /\ hash[i].state = MAC_CONFIRMED
  <2>1. Retransmit(i, left) /\ UNCHANGED <<alarms, confirm_q>>
    BY <1>1, <1>4 DEF zb_aps_ack_timer_cb, left, RescheduleAlarm
  <2>2. EntryBecomes(i, NOT_CONFIRMED, left)
    BY <1>1, <2>1, EntryUpdates DEF Retransmit, ApsInv
  <2>3. OwnerBecomes(hash[i].buf, "nwk")
    BY <1>2, <2>1 DEF Retransmit, PassToNwk, OwnerBecomes, SameBut, ApsInv, TypeOK
  <2> QED
    BY <1>1, <1>4, <2>1, <2>2, <2>3, RetransmitKeeps DEF Retransmit, PassToNwk
<1>5. CASE hash[i].state # MAC_CONFIRMED
  <2>1. hash' = [hash EXCEPT ![i].aps_retries = left] /\ UNCHANGED <<alarms, owner, nwk_q, confirm_q>>
    BY <1>5 DEF zb_aps_ack_timer_cb, left, RescheduleAlarm
  <2>2. EntryBecomes(i, hash[i].state, left)
    BY <1>1, <2>1, EntryUpdates DEF ApsInv
  <2> QED
    BY <1>1, <2>1, <2>2, TickKeeps
<1> QED
  BY <1>1, <1>3, <1>4, <1>5

\* The upper layer learns the result.
LEMMA ConfirmKeeps ==
    ASSUME NormalUse, ApsInv, NEW c \in confirm_q, NEW kept \in BOOLEAN,
           zb_apsde_data_confirm(c, kept)
    PROVE  ApsInv'
<1> DEFINE who == IF kept THEN "up" ELSE "pool"
<1>1. c[1] \in Bufs /\ c[2] \in Ids /\ c[3] \in Statuses
  BY ConfirmFields DEF ApsInv
<1>2. OwnerBecomes(c[1], who)
  BY <1>1 DEF zb_apsde_data_confirm, OwnerBecomes, SameBut, ApsInv, TypeOK
<1>3. Append(result[c[2]], c[3]) \in Seq(Statuses)
  BY <1>1 DEF ApsInv, TypeOK
<1>4. /\ result' \in [Ids -> Seq(Statuses)]
      /\ result'[c[2]] = Append(result[c[2]], c[3])
      /\ SameBut(result, result', Ids, c[2])
  BY <1>1, <1>3 DEF zb_apsde_data_confirm, SameBut, ApsInv, TypeOK
<1> QED
  BY <1>2, <1>4, ToldKeeps DEF zb_apsde_data_confirm

-----------------------------------------------------------------------------
(* Theorems.                                                                *)

\* zb_aps_init() establishes the invariant.
LEMMA InitInv == Init => ApsInv
<1> SUFFICES ASSUME Init PROVE ApsInv
  OBVIOUS
<1> USE ApsAssumption DEF Init, zb_aps_init
<1>1. /\ \A i \in Idx : hash[i].state = FREE /\ hash[i].buf = NoBuf /\ hash[i].addr = NoAddr
      /\ hash \in [Idx -> Entry]
  BY DEF Entry
<1>2. Len(reqs) = 0 /\ reqs \in Seq(Request) /\ reqs = <<>>
  OBVIOUS
<1>3. result \in [Ids -> Seq(Statuses)] /\ \A r \in Ids : Len(result[r]) = 0
  OBVIOUS
<1>4. TypeOK
  BY <1>1, <1>2, <1>3 DEF TypeOK
<1>5. PacketsNumbered /\ NotYetMade /\ CountersDiffer
  BY <1>2 DEF PacketsNumbered, NotYetMade, CountersDiffer, NoReq
<1>6. EntryMatches /\ EntryOwnsBuffer /\ OneAlarmPerEntry /\ AckNoted /\ RetriesCounted
  BY <1>1 DEF EntryMatches, EntryOwnsBuffer, OneAlarmPerEntry, AckNoted, RetriesCounted
<1>7. PacketHasEntry /\ NwkOwnsBuffer /\ OneTransmission /\ UnackedOnce /\ BoundedTransmissions
  BY DEF PacketHasEntry, NwkOwnsBuffer, OneTransmission, UnackedOnce, BoundedTransmissions
<1>8. ConfirmsOwn
  BY <1>3 DEF ConfirmsOwn
<1>9. ConfirmsTrue
  BY <1>2 DEF ConfirmsTrue
<1> QED
  BY <1>4, <1>5, <1>6, <1>7, <1>8, <1>9 DEF ApsInv

\* A step that leaves the sender alone.
LEMMA StutterKeeps ==
    ASSUME ApsInv, UNCHANGED vars
    PROVE  ApsInv'
<1> USE DEF vars
<1>1. TypeOK' /\ PacketsNumbered' /\ NotYetMade' /\ CountersDiffer' /\ EntryMatches'
  BY DEF ApsInv, TypeOK, PacketsNumbered, NotYetMade, CountersDiffer, Age, EntryMatches,
     AckRequested
<1>2. PacketHasEntry' /\ EntryOwnsBuffer' /\ NwkOwnsBuffer' /\ OneTransmission' /\ OneAlarmPerEntry'
  BY DEF ApsInv, PacketHasEntry, HasEntry, AckRequested, EntryOwnsBuffer, NwkOwnsBuffer,
         OneTransmission, OneAlarmPerEntry
<1>3. AckNoted' /\ RetriesCounted' /\ UnackedOnce' /\ BoundedTransmissions'
  BY DEF ApsInv, AckNoted, RetriesCounted, UnackedOnce, AckRequested, BoundedTransmissions
<1>4. ConfirmsOwn' /\ ConfirmsTrue'
  BY DEF ApsInv, ConfirmsOwn, ConfirmsTrue, Truthful
<1> QED
  BY <1>1, <1>2, <1>3, <1>4 DEF ApsInv

\* In normal use the sender keeps its invariant, in every order of requests,
\* transmissions, MAC confirms, APS ACKs and timeouts.
THEOREM ApsInvariant == ASSUME NormalUse PROVE Spec => []ApsInv
<1>1. ASSUME ApsInv, [Next]_vars PROVE ApsInv'
  <2>1. ASSUME NEW b \in Bufs, NEW a \in Peers,
               \/ zb_apsde_data_request_ack(b, a)
               \/ zb_apsde_data_request_noack(b, a)
               \/ zb_apsde_data_request_unbound(b, a)
               \/ \E need_ack \in BOOLEAN : zb_aps_send_command(b, a, need_ack)
        PROVE  ApsInv'
    BY <1>1, <2>1, RequestKeeps
  <2>2. ASSUME NEW b \in Bufs, NwkTransmit(b) PROVE ApsInv'
    BY <1>1, <2>2, TransmitKeeps
  <2>3. ASSUME NEW b \in Bufs, NwkDrop(b) PROVE ApsInv'
    BY <1>1, <2>3, DropKeeps
  <2>4. ASSUME NEW b \in Bufs, NEW status \in {"OK", "NWK_ERROR"}, zb_nlde_data_confirm(b, status)
        PROVE  ApsInv'
    BY <1>1, <2>4, NldeConfirmKeeps
  <2>5. ASSUME NEW r \in Ids, aps_ack_frame_handle(r) PROVE ApsInv'
    BY <1>1, <2>5, AckKeeps
  <2>6. ASSUME NEW i \in Idx, zb_aps_ack_timer_cb(i) PROVE ApsInv'
    BY <1>1, <2>6, TimerKeeps
  <2>7. ASSUME NEW c \in confirm_q, NEW kept \in BOOLEAN, zb_apsde_data_confirm(c, kept)
        PROVE  ApsInv'
    BY <1>1, <2>7, ConfirmKeeps
  <2>8. CASE UNCHANGED vars
    BY <1>1, <2>8, StutterKeeps
  <2> QED
    BY <1>1, <2>1, <2>2, <2>3, <2>4, <2>5, <2>6, <2>7, <2>8 DEF Next
<1> QED
  BY <1>1, InitInv, PTL DEF Spec

\* Every variable stays within its type.
THEOREM TypeCorrect == ASSUME NormalUse PROVE Spec => []TypeOK
<1>1. ApsInv => TypeOK
  BY DEF ApsInv
<1> QED
  BY <1>1, ApsInvariant, PTL

\* Entry, network layer and upper layer never hold a buffer at the same time:
\* zb_aps_ack_timer_cb() and done_with_this_ack() use the buffer of the entry
\* without a check, zb_nlde_data_confirm() the one it is given.
THEOREM BuffersStayOwned == ASSUME NormalUse PROVE Spec => []BuffersOwned
<1>1. ApsInv => BuffersOwned
  BY DEF ApsInv, BuffersOwned
<1> QED
  BY <1>1, ApsInvariant, PTL

\* No entry without its alarm, no alarm without its entry, and never more
\* transmissions than ZB_N_APS_MAX_FRAME_ENTRIES.
THEOREM RetriesAreBounded == ASSUME NormalUse PROVE Spec => []RetriesEnd
<1>1. ApsInv => RetriesEnd
  BY DEF ApsInv, RetriesEnd
<1> QED
  BY <1>1, ApsInvariant, PTL

\* One confirm for one request at most, and zb_nlde_data_confirm() finds the
\* entry of every packet that asked for an ACK.
THEOREM ConfirmsAreMatched == ASSUME NormalUse PROVE Spec => []ConfirmsMatch
<1>1. ASSUME ApsInv PROVE ConfirmedOnce
  <2> SUFFICES ASSUME NEW r \in Ids
               PROVE  Len(result[r]) + Cardinality({c \in confirm_q : c[2] = r}) <= 1
    BY DEF ConfirmedOnce
  <2> DEFINE coming == {c \in confirm_q : c[2] = r}
  <2>1. Len(result[r]) \in Nat /\ Len(result[r]) <= 1
    BY <1>1 DEF ApsInv, TypeOK, ConfirmsOwn
  <2>2. CASE coming = {}
    <3>1. Cardinality(coming) = 0
      BY <2>2, FS_EmptySet
    <3> QED
      BY <2>1, <3>1
  <2>3. CASE coming # {}
    <3>1. PICK c \in coming : TRUE
      BY <2>3
    <3>2. \A d \in coming : d = c
      <4> SUFFICES ASSUME NEW d \in coming PROVE d[1] = c[1]
        BY <1>1, <3>1 DEF ApsInv, ConfirmsOwn
      <4>1. /\ c[1] \in Bufs /\ d[1] \in Bufs
            /\ packet[c[1]] = r /\ packet[d[1]] = r
        BY <1>1, <3>1, ConfirmFields DEF ApsInv, ConfirmsOwn
      <4>2. r # NoReq
        BY DEF Ids, NoReq
      <4> QED
        BY <1>1, <4>1, <4>2 DEF ApsInv, PacketsNumbered
    <3>3. coming = {c}
      BY <3>1, <3>2
    <3>4. result[r] = <<>> /\ Len(result[r]) = 0
      BY <1>1, <3>1 DEF ApsInv, ConfirmsOwn
    <3>5. Cardinality(coming) = 1
      BY <3>3, FS_Singleton
    <3> QED
      BY <3>4, <3>5
  <2> QED
    BY <2>2, <2>3
<1>2. ASSUME ApsInv PROVE ConfirmFindsEntry
  <2> SUFFICES ASSUME NEW b \in nwk_sent, reqs[packet[b]].kind = "data"
               PROVE  \E i \in Idx : hash[i].buf = b /\ hash[i].state \in {NOT_CONFIRMED, ACKED}
    BY DEF ConfirmFindsEntry
  <2>1. b \in Bufs /\ owner[b] = "nwk" /\ AckRequested(packet[b])
    BY <1>2 DEF ApsInv, TypeOK, NwkOwnsBuffer, AckRequested
  <2>2. PICK i \in Idx : hash[i].buf = b
    BY <1>2, <2>1 DEF ApsInv, PacketHasEntry, HasEntry
  <2>3. hash[i].state # FREE /\ hash[i].state # MAC_CONFIRMED /\ hash[i] \in Entry
    BY <1>2, <2>1, <2>2, ApsAssumption DEF ApsInv, EntryMatches, EntryOwnsBuffer, TypeOK
  <2> QED
    BY <2>2, <2>3 DEF Entry
<1>3. ApsInv => ConfirmsMatch
  BY <1>1, <1>2 DEF ConfirmsMatch
<1> QED
  BY <1>3, ApsInvariant, PTL

\* A data packet is reported as delivered only if the peer acknowledged it,
\* and as not acknowledged only if it was transmitted.
THEOREM ReportsAreTrue == ASSUME NormalUse PROVE Spec => []OkMeansAcked
<1>1. ASSUME ApsInv, NEW r \in 1 .. Len(reqs), reqs[r].kind = "data"
      PROVE  /\ "OK" \in Told(r) => acked[r] > 0
             /\ "NO_ACK" \in Told(r) => copies[r] > 0
  <2>0. r \in Ids
    BY <1>1, ApsAssumption DEF ApsInv, TypeOK, PacketsNumbered, Ids
  <2>1. \A st : st \in Told(r) => Truthful(r, st)
    <3> SUFFICES ASSUME NEW st, st \in Told(r) PROVE Truthful(r, st)
      OBVIOUS
    <3>1. CASE \E c \in confirm_q : c[2] = r /\ st = c[3]
      BY <1>1, <3>1 DEF ApsInv, ConfirmsTrue
    <3>2. CASE \E k \in DOMAIN result[r] : st = result[r][k]
      <4>1. PICK k \in DOMAIN result[r] : st = result[r][k]
        BY <3>2
      <4>2. result[r] \in Seq(Statuses) /\ Len(result[r]) <= 1
        BY <1>1, <2>0 DEF ApsInv, TypeOK, ConfirmsOwn
      <4>3. k = 1 /\ result[r] # <<>>
        BY <4>1, <4>2
      <4> QED
        BY <1>1, <4>1, <4>3 DEF ApsInv, ConfirmsTrue
    <3> QED
      BY <3>1, <3>2 DEF Told
  <2> QED
    BY <1>1, <2>1 DEF Truthful
<1>2. ApsInv => OkMeansAcked
  BY <1>1 DEF OkMeansAcked
<1> QED
  BY <1>2, ApsInvariant, PTL

=============================================================================
