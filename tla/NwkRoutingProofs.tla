-------------------------- MODULE NwkRoutingProofs --------------------------
(***************************************************************************)
(* Proofs about the network layer of routers.                              *)
(*                                                                         *)
(* The broadcasts of one router, for every neighborhood, every pool of     *)
(* buffers, every number of frames and every size of the tables that a     *)
(* counter of one byte can count (TablesFit).                              *)
(*                                                                         *)
(* The discovery of routes, for every network of routers, every choice of  *)
(* packets and every size of the tables; that replies find their way back, *)
(* for networks whose path costs fit a byte (CostsFit).                    *)
(***************************************************************************)
EXTENDS NwkBroadcast, MeshRouting, FiniteSetTheorems, SequenceTheorems, WellFoundedInduction, TLAPS

\* brrt_cnt and btt_cnt are bytes.
TablesFit ==
    ZB_NWK_BRR_TABLE_SIZE <= 255 /\ ZB_NWK_BTR_TABLE_SIZE <= 255

-----------------------------------------------------------------------------
(* The inductive invariant.                                                 *)

Buffers == [at : Places, frame : Frames \cup {NoFrame}, handle : {"none", "own", "internal"}]
Retries == 0 .. ZB_NWK_MAX_BROADCAST_RETRIES + 1
Entries == [used : BOOLEAN, buf : Bufs \cup {0}, frame : Frames \cup {NoFrame},
            retries : Retries, iter : Nbrs \cup {0}, ack : SUBSET Nbrs]
BEntries == [used : BOOLEAN, frame : Frames \cup {NoFrame}, exp : 0 .. DeliveryTime]

\* The variables with their full types.
Types ==
    /\ buf \in [Bufs -> Buffers]
    /\ brrt \in [Slots -> Entries] /\ btt \in [BSlots -> BEntries]
    /\ wait_alloc \in Seq(Bufs)
    /\ out_req \in Nat /\ dup_req \in Nat /\ stat_req \in Nat /\ again \in Nat
    /\ tx_alarm \in BOOLEAN /\ btr_alarm \in BOOLEAN
    /\ confirmed \in [Frames -> Nat] /\ expired \in [Frames -> Nat]
    /\ indicated \in [Frames -> Nat]
    /\ asked \subseteq Own

\* A buffer that is on its way holds a frame.
Framed ==
    \A b \in Bufs :
        buf[b].at \in {"fwd", "brrt", "mac", "brconf", "wait", "ind"} => buf[b].frame \in Frames

\* The counters count the entries.
BrrtCounted == brrt_cnt = Cardinality(Used(brrt))
BttCounted == btt_cnt = Cardinality(Used(btt))

\* Every entry of brrt has a buffer of its own with its frame, and every
\* buffer in the table has an entry.
EntryBufs ==
    /\ \A i \in Slots : brrt[i].used =>
         /\ brrt[i].buf \in Bufs
         /\ buf[brrt[i].buf].at = "brrt" /\ buf[brrt[i].buf].frame = brrt[i].frame
    /\ \A i, j \in Slots : brrt[i].used /\ brrt[j].used /\ brrt[i].buf = brrt[j].buf => i = j
    /\ \A b \in Bufs : buf[b].at = "brrt" => \E i \in Slots : brrt[i].used /\ brrt[i].buf = b

\* How far an entry is: before its first children, between two retries, or
\* serving the children after the originator, when no retry comes any more.
RetryOK(e) ==
    \/ e.retries <= 1
    \/ e.iter = 0 /\ e.retries < ZB_NWK_MAX_BROADCAST_RETRIES
    \/ e.iter > SrcOf[e.frame]
RetriesBounded == \A i \in Slots : brrt[i].used => RetryOK(brrt[i])

\* A frame has one entry of btt at most.
BttUnique ==
    \A i, j \in BSlots : btt[i].used /\ btt[j].used /\ btt[i].frame = btt[j].frame => i = j

\* The buffers to be duplicated wait for it, each of them once.
Waiting ==
    /\ \A k \in 1 .. Len(wait_alloc) : buf[wait_alloc[k]].at = "wait"
    /\ \A k, l \in 1 .. Len(wait_alloc) : wait_alloc[k] = wait_alloc[l] => k = l

\* The request of an own frame is in one buffer, or confirmed.
OwnOnce ==
    \A f \in Frames :
        /\ \A b, c \in Bufs : buf[b].handle = "own" /\ buf[c].handle = "own"
                              /\ buf[b].frame = f /\ buf[c].frame = f => b = c
        /\ \A b \in Bufs : buf[b].handle = "own" /\ buf[b].frame = f =>
                              confirmed[f] = 0 /\ f \in asked
        /\ confirmed[f] <= 1 /\ (confirmed[f] = 1 => f \in asked)

\* The buffers with frame f that will go up.
Pending(f) == {b \in Bufs : buf[b].at \in {"wait", "ind"} /\ buf[b].frame = f}

\* How often f was entered in btt.
Entered(f) == expired[f] + (IF Known(f) THEN 1 ELSE 0)

\* A frame goes up, or will, for one of its entries each; the first entry of an
\* own frame is made when it is sent.
GoesUp ==
    \A f \in Frames :
        /\ indicated[f] + Cardinality(Pending(f)) <= Entered(f)
        /\ f \in Own => \/ indicated[f] + Cardinality(Pending(f)) = 0
                        \/ indicated[f] + Cardinality(Pending(f)) < Entered(f)

BroadcastInv ==
    /\ Types
    /\ Framed
    /\ BrrtCounted
    /\ BttCounted
    /\ EntryBufs
    /\ RetriesBounded
    /\ Driven
    /\ BttUnique
    /\ Waiting
    /\ OwnOnce
    /\ GoesUp

-----------------------------------------------------------------------------
(* The operators of the model.                                              *)

\* A nonempty set of numbers has a least one.
LEMMA LeastOf ==
  ASSUME NEW S, S \subseteq Nat, S # {}
  PROVE  Min(S) \in S /\ \A y \in S : Min(S) <= y
<1> DEFINE R == {ss \in Nat \X Nat : ss[1] < ss[2]}
<1>0. IsWellFoundedOn(R, Nat)
  BY NatLessThanWellFounded DEF OpToRel
<1> HIDE DEF R
<1>1. PICK x \in S : \A y \in S : ~(<<y, x>> \in R)
  BY <1>0, WFMin
<1>2. \A y \in S : ~(y < x)
  BY <1>1 DEF R
<1>3. \A y \in S : x <= y
  BY <1>2
<1> QED
  BY <1>3 DEF Min

\* zb_nwk_neighbor_next_ze_children_i() finds a neighbor from index n on, or
\* none.
LEMMA ChildFound ==
  ASSUME NEW f \in Frames, NEW n \in Nat
  PROVE  /\ NextChild(f, n) \in Nbrs \cup {0}
         /\ NextChild(f, n) # 0 => NextChild(f, n) >= n
<1> DEFINE ok == {c \in Nbrs \ Routers : c >= n /\ \/ DstOf[f] = "all"
                                                   \/ DstOf[f] = "rxon" /\ c \in RxOn}
<1>1. ok \subseteq Nbrs /\ ok \subseteq Nat /\ \A c \in ok : c >= n
  BY BroadcastAssumption
<1>2. NextChild(f, n) = IF ok = {} THEN 0 ELSE Min(ok)
  BY DEF NextChild
<1>3. ok # {} => Min(ok) \in ok
  BY <1>1, LeastOf
<1> HIDE DEF ok
<1> QED
  BY <1>1, <1>2, <1>3

\* The pool and the tables are finite, and a table has one slot per index.
LEMMA FiniteParts ==
  /\ IsFiniteSet(Bufs)
  /\ IsFiniteSet(Slots) /\ Cardinality(Slots) = ZB_NWK_BRR_TABLE_SIZE
  /\ IsFiniteSet(BSlots) /\ Cardinality(BSlots) = ZB_NWK_BTR_TABLE_SIZE
  /\ Slots \subseteq Nat /\ BSlots \subseteq Nat /\ 0 \notin Slots
<1>1. IsFiniteSet(Bufs)
  BY BroadcastAssumption, FS_Union DEF Bufs
<1>2. IsFiniteSet(Slots) /\ Cardinality(Slots) = ZB_NWK_BRR_TABLE_SIZE
  BY BroadcastAssumption, FS_Interval, SMTT(40) DEF Slots
<1>3. IsFiniteSet(BSlots) /\ Cardinality(BSlots) = ZB_NWK_BTR_TABLE_SIZE
  BY BroadcastAssumption, FS_Interval, SMTT(40) DEF BSlots
<1>4. Slots \subseteq Nat /\ BSlots \subseteq Nat /\ 0 \notin Slots
  BY BroadcastAssumption DEF Slots, BSlots
<1> QED
  BY <1>1, <1>2, <1>3, <1>4

\* What the counters count fits their byte.
LEMMA CountsFit ==
  ASSUME TablesFit, Types
  PROVE  /\ Used(brrt) = {i \in Slots : brrt[i].used} /\ Used(btt) = {i \in BSlots : btt[i].used}
         /\ IsFiniteSet(Used(brrt)) /\ Cardinality(Used(brrt)) \in Byte
         /\ Cardinality(Used(brrt)) <= ZB_NWK_BRR_TABLE_SIZE
         /\ IsFiniteSet(Used(btt)) /\ Cardinality(Used(btt)) \in Byte
         /\ Cardinality(Used(btt)) <= ZB_NWK_BTR_TABLE_SIZE
<1>1. Used(brrt) = {i \in Slots : brrt[i].used} /\ Used(btt) = {i \in BSlots : btt[i].used}
  BY DEF Used, Types
<1>2. Used(brrt) \subseteq Slots /\ Used(btt) \subseteq BSlots
  BY <1>1
<1>3. /\ IsFiniteSet(Used(brrt)) /\ Cardinality(Used(brrt)) <= Cardinality(Slots)
      /\ IsFiniteSet(Used(btt)) /\ Cardinality(Used(btt)) <= Cardinality(BSlots)
  BY <1>2, FiniteParts, FS_Subset
<1>4. Cardinality(Used(brrt)) \in Nat /\ Cardinality(Used(btt)) \in Nat
  BY <1>3, FS_CardinalityType
<1>5. ZB_NWK_BRR_TABLE_SIZE \in Nat /\ ZB_NWK_BTR_TABLE_SIZE \in Nat
  BY BroadcastAssumption
<1> QED
  BY <1>1, <1>3, <1>4, <1>5, FiniteParts DEF TablesFit, Byte

\* An entry in use holds a frame.
LEMMA EntryFramed ==
  ASSUME Types, Framed, EntryBufs, NEW i \in Slots, brrt[i].used
  PROVE  /\ brrt[i].frame \in Frames /\ brrt[i].buf \in Bufs /\ buf[brrt[i].buf].at = "brrt"
         /\ buf[brrt[i].buf].frame = brrt[i].frame
BY DEF Framed, EntryBufs

\* The child and the retries of an entry are numbers.
LEMMA EntryNumbers ==
  ASSUME NEW e \in Entries
  PROVE  e.iter \in Nat /\ e.iter + 1 \in Nat /\ e.retries \in Nat /\ e.iter \in Nbrs \cup {0}
<1>1. Nbrs \cup {0} \subseteq Nat /\ ZB_NWK_MAX_BROADCAST_RETRIES \in Nat
  BY BroadcastAssumption
<1>2. e.iter \in Nbrs \cup {0} /\ e.retries \in Retries
  BY DEF Entries
<1>3. Retries \subseteq Nat
  BY <1>1 DEF Retries
<1>4. e.iter \in Nat /\ e.retries \in Nat
  BY <1>1, <1>2, <1>3
<1> QED
  BY <1>2, <1>4

\* Stepping over the originators leaves an entry as it is but for its child.
LEMMA SkipEffect ==
  ASSUME Types, Framed, EntryBufs, RetriesBounded, NEW j \in Slots
  PROVE  /\ SkipOriginators[j] \in Entries
         /\ SkipOriginators[j].used = brrt[j].used /\ SkipOriginators[j].buf = brrt[j].buf
         /\ SkipOriginators[j].frame = brrt[j].frame
         /\ SkipOriginators[j].retries = brrt[j].retries
         /\ brrt[j].used => RetryOK(SkipOriginators[j])
         /\ \/ /\ SkipOriginators[j] = brrt[j]
               /\ ~(New = {} /\ Child \ Skip = {} /\ j \in Skip)
            \/ /\ j \in Skip /\ brrt[j].retries <= 1
               /\ \/ SkipOriginators[j].iter = 0
                  \/ SkipOriginators[j].iter > SrcOf[brrt[j].frame]
<1> DEFINE e == brrt[j]
<1> DEFINE n == NextChild(e.frame, e.iter + 1)
<1> DEFINE s == SkipOriginators[j]
<1>1. e \in Entries
  BY DEF Types
<1>2. CASE ~(New = {} /\ j \in Skip /\ \A k \in Child \ Skip : j < k)
  <2>1. s = e
    BY <1>2 DEF SkipOriginators
  <2>2. ~(New = {} /\ Child \ Skip = {} /\ j \in Skip)
    BY <1>2
  <2> QED
    BY <1>1, <2>1, <2>2 DEF RetriesBounded
<1>3. CASE New = {} /\ j \in Skip /\ \A k \in Child \ Skip : j < k
  <2>1. s = [e EXCEPT !.iter = n]
    BY <1>3 DEF SkipOriginators
  <2>2. e.used /\ e.iter # 0 /\ e.iter = SrcOf[e.frame]
    BY <1>3 DEF Skip, Child
  <2>3. e.frame \in Frames
    BY <2>2, EntryFramed
  <2>4. e.iter \in Nat /\ e.iter + 1 \in Nat /\ e.retries \in Int
    BY <1>1, EntryNumbers
  <2>5. n \in Nbrs \cup {0} /\ (n # 0 => n >= e.iter + 1)
    BY <2>3, <2>4, ChildFound
  <2>6. e.retries <= 1
    BY <2>2, <2>4 DEF RetriesBounded, RetryOK
  <2> HIDE DEF n
  <2>7. /\ s \in Entries /\ s.used = e.used /\ s.buf = e.buf /\ s.frame = e.frame
        /\ s.retries = e.retries /\ s.iter = n
    <3>1. [e EXCEPT !.iter = n] \in Entries
      BY <1>1, <2>5 DEF Entries
    <3>2. DOMAIN e = {"used", "buf", "frame", "retries", "iter", "ack"}
      BY <1>1 DEF Entries
    <3> QED
      BY <2>1, <3>1, <3>2
  <2>8. n = 0 \/ n > SrcOf[e.frame]
    BY <2>2, <2>4, <2>5, BroadcastAssumption
  <2>9. RetryOK(s)
    BY <2>6, <2>7 DEF RetryOK
  <2> QED
    BY <1>3, <2>6, <2>7, <2>8, <2>9
<1> QED
  BY <1>2, <1>3

\* The entry that is chosen is in use, and the choice says how far it is.
LEMMA Chosen ==
  ASSUME Types, NEW i \in Candidates, i # 0
  PROVE  /\ i \in Slots /\ brrt[i].used = TRUE
         /\ \/ New # {} /\ brrt[i].retries = 0
            \/ IsUnicast /\ i \in Child \ Skip
            \/ New = {} /\ Child \ Skip = {} /\ brrt[i].retries # 0
<1>1. /\ New \subseteq Slots /\ Child \ Skip \subseteq Slots /\ Slots \subseteq Nat
      /\ \A j \in New : brrt[j].used /\ brrt[j].retries = 0
      /\ \A j \in Child : brrt[j].used
  BY FiniteParts DEF New, Child
<1>2. \A j \in Slots : brrt[j].used \in BOOLEAN
  BY DEF Types, Entries
<1>3. CASE New # {}
  <2>1. i = Min(New)
    BY <1>3 DEF Candidates
  <2>2. i \in New
    BY <2>1, <1>1, <1>3, LeastOf
  <2> QED
    BY <2>2, <1>1, <1>2, <1>3
<1>4. CASE New = {} /\ Child \ Skip # {}
  <2>1. i = Min(Child \ Skip)
    BY <1>4 DEF Candidates
  <2>2. i \in Child \ Skip
    <3>1. Child \ Skip \subseteq Nat
      BY <1>1
    <3> QED
      BY <2>1, <3>1, <1>4, LeastOf
  <2> QED
    BY <2>2, <1>1, <1>2, <1>4 DEF IsUnicast
<1>5. CASE New = {} /\ Child \ Skip = {}
  <2>1. i \in Slots /\ brrt[i].used
    BY <1>5 DEF Candidates
  <2>2. brrt[i].retries # 0
    BY <2>1, <1>5 DEF New
  <2> QED
    BY <2>1, <2>2, <1>2, <1>5
<1> QED
  BY <1>3, <1>4, <1>5

\* A transmission leaves the entry with its buffer and its frame, and it ends
\* the entry or leaves it on its way.
LEMMA AdvanceEffect ==
  ASSUME Types, Framed, EntryBufs, RetriesBounded, NEW i \in Candidates, i # 0
  PROVE  LET e == Advance(SkipOriginators[i])
         IN  /\ e \in Entries
             /\ e.used = TRUE /\ e.buf = brrt[i].buf /\ e.frame = brrt[i].frame
             /\ Last(e) \/ RetryOK(e)
<1> DEFINE o == brrt[i]
<1> DEFINE s == SkipOriginators[i]
<1> DEFINE e == Advance(s)
<1>1. i \in Slots /\ o.used = TRUE
  BY Chosen
<1>2. /\ s \in Entries /\ s.used = TRUE /\ s.buf = o.buf /\ s.frame = o.frame
      /\ s.retries = o.retries /\ RetryOK(s)
      /\ \/ s = o /\ ~(New = {} /\ Child \ Skip = {} /\ i \in Skip)
         \/ i \in Skip /\ o.retries <= 1 /\ (s.iter = 0 \/ s.iter > SrcOf[o.frame])
  BY <1>1, SkipEffect
<1>3. o \in Entries /\ o.frame \in Frames
  BY <1>1, EntryFramed DEF Types
<1>4. SrcOf[o.frame] \in Nat
  <2>1. Nbrs \cup {0} \subseteq Nat /\ SrcOf \in [Frames -> Nbrs \cup {0}]
    BY BroadcastAssumption
  <2> QED
    BY <2>1, <1>3
<1>5. ZB_NWK_MAX_BROADCAST_RETRIES \in Nat /\ ZB_NWK_MAX_BROADCAST_RETRIES >= 1
  BY BroadcastAssumption
<1> HIDE DEF s
<1>6. CASE IsUnicast /\ i \in Child \ Skip
  <2> DEFINE n == NextChild(s.frame, s.iter + 1)
  <2>1. s = o
    BY <1>6, <1>2
  <2>2. o.iter # 0 /\ o.iter # SrcOf[o.frame]
    BY <1>6, <1>1 DEF Child, Skip
  <2>3. e = [SetAck(s, s.iter) EXCEPT !.iter = n]
    BY <1>6 DEF Advance
  <2>4. s.iter \in Nat /\ s.iter + 1 \in Nat /\ s.retries \in Nat /\ s.iter \in Nbrs \cup {0}
    BY <1>2, EntryNumbers
  <2>5. n \in Nbrs \cup {0} /\ (n # 0 => n >= s.iter + 1)
    BY <2>4, <1>2, <1>3, ChildFound
  <2> HIDE DEF n
  <2>6. DOMAIN s = {"used", "buf", "frame", "retries", "iter", "ack"} /\ s.ack \subseteq Nbrs
    BY <1>2 DEF Entries
  <2>7. /\ e \in Entries /\ e.used = TRUE /\ e.buf = o.buf /\ e.frame = o.frame
        /\ e.retries = s.retries /\ e.iter = n
    <3> DEFINE a == s.ack \cup ({s.iter} \cap 1 .. AckBits)
    <3>1. a \subseteq Nbrs
      BY <2>1, <2>2, <2>4, <2>6
    <3>2. e = [[s EXCEPT !.ack = a] EXCEPT !.iter = n]
      BY <2>3 DEF SetAck
    <3> HIDE DEF a, e
    <3>3. [[s EXCEPT !.ack = a] EXCEPT !.iter = n] \in Entries
      BY <1>2, <2>5, <3>1 DEF Entries
    <3> QED
      BY <3>2, <3>3, <1>2, <2>6
  <2> HIDE DEF e
  <2>8. CASE n = 0
    <3>1. RetryOK(e) \/ Last(e)
      BY <2>4, <2>7, <2>8, <1>5 DEF RetryOK, Last
    <3> QED
      BY <3>1, <2>7 DEF e, s
  <2>9. CASE n # 0
    <3>1. s.retries <= 1 \/ s.iter > SrcOf[s.frame]
      BY <2>1, <2>2, <1>2 DEF RetryOK
    <3>2. s.frame = e.frame /\ SrcOf[e.frame] \in Nat /\ e.iter >= s.iter + 1 /\ e.iter \in Nat
      <4>1. Nbrs \cup {0} \subseteq Nat
        BY BroadcastAssumption
      <4>2. n \in Nat
        BY <4>1, <2>5
      <4> QED
        BY <4>2, <2>1, <2>5, <2>7, <2>9, <1>4
    <3>4. e.retries <= 1 \/ e.iter > SrcOf[e.frame]
      BY <3>1, <3>2, <2>4, <2>7
    <3>3. RetryOK(e)
      BY <3>4 DEF RetryOK
    <3> QED
      BY <3>3, <2>7 DEF e, s
  <2> QED
    BY <2>8, <2>9
<1>7. CASE ~IsUnicast
  <2>1. e = [s EXCEPT !.retries = @ + 1]
    BY <1>7 DEF Advance
  <2>2. s.iter \in Nat /\ s.retries \in Nat
    BY <1>2, EntryNumbers
  <2>3. DOMAIN s = {"used", "buf", "frame", "retries", "iter", "ack"}
    BY <1>2 DEF Entries
  <2>4. \/ s.retries = 0
        \/ s.retries = 1 /\ (s.iter = 0 \/ s.iter > SrcOf[o.frame])
        \/ s.iter = 0 /\ s.retries < ZB_NWK_MAX_BROADCAST_RETRIES
    <3>1. CASE o.retries = 0
      BY <3>1, <1>2
    <3>2. CASE New = {} /\ Child \ Skip = {} /\ o.retries # 0
      <4>1. o.iter = 0 \/ i \in Skip
        BY <1>1, <3>2 DEF Child
      <4>2. CASE s = o /\ ~(New = {} /\ Child \ Skip = {} /\ i \in Skip)
        <5>1. i \notin Skip /\ s.iter = 0
          BY <4>1, <4>2, <3>2
        <5> QED
          BY <5>1, <2>2, <1>2, <1>4, <3>2 DEF RetryOK
      <4>3. CASE i \in Skip /\ o.retries <= 1 /\ (s.iter = 0 \/ s.iter > SrcOf[o.frame])
        BY <4>3, <2>2, <1>2, <3>2
      <4> QED
        BY <4>2, <4>3, <1>2
    <3> QED
      BY <3>1, <3>2, <1>7, Chosen
  <2>5. s.retries + 1 \in Retries
    BY <2>2, <2>4, <1>5 DEF Retries
  <2>6. /\ e \in Entries /\ e.used = TRUE /\ e.buf = o.buf /\ e.frame = o.frame
        /\ e.retries = s.retries + 1 /\ e.iter = s.iter
    <3>1. [s EXCEPT !.retries = s.retries + 1] \in Entries
      BY <1>2, <2>5 DEF Entries
    <3> QED
      BY <2>1, <3>1, <1>2, <2>3
  <2> HIDE DEF e
  <2>7. RetryOK(e) \/ Last(e)
    BY <2>2, <2>4, <2>6, <1>4, <1>5, <1>2 DEF RetryOK, Last
  <2> QED
    BY <2>6, <2>7 DEF e, s
<1> QED
  BY <1>6, <1>7, Chosen DEF IsUnicast

-----------------------------------------------------------------------------
(* What a step leaves alone.                                                *)

\* The entries keep their buffers and frames.
SameEntries ==
    \A j \in Slots : /\ brrt'[j].used = brrt[j].used /\ brrt'[j].buf = brrt[j].buf
                     /\ brrt'[j].frame = brrt[j].frame

\* The buffers of the table are the same, and hold what they held.
SameTableBufs ==
    \A c \in Bufs : /\ buf'[c].at = "brrt" <=> buf[c].at = "brrt"
                    /\ buf[c].at = "brrt" => buf'[c].frame = buf[c].frame

\* No buffer starts or stops being on its way up.
SameGoing ==
    \A c \in Bufs : /\ buf'[c].at \in {"wait", "ind"} <=> buf[c].at \in {"wait", "ind"}
                    /\ buf[c].at \in {"wait", "ind"} => buf'[c].frame = buf[c].frame

\* No buffer becomes the one of an own request.
NoNewOwn ==
    \A c \in Bufs : buf'[c].handle = "own" =>
                      buf[c].handle = "own" /\ buf'[c].frame = buf[c].frame

\* No entry is added and no call of nwk_broadcast_transmition() is lost.
KeepsDriven ==
    /\ Used(brrt)' \subseteq Used(brrt)
    /\ out_req' >= out_req /\ again' >= again /\ (tx_alarm => tx_alarm')
    /\ \A c \in Bufs : buf[c].at = "xmit" => buf'[c].at = "xmit"

\* Entries that keep their buffers keep them rightly.
LEMMA EntriesKept ==
  ASSUME Types, Types', EntryBufs, SameEntries, SameTableBufs
  PROVE  EntryBufs'
<1>1. \A i \in Slots : brrt'[i].used => brrt'[i].buf \in Bufs
  BY DEF EntryBufs, SameEntries
<1>2. \A i \in Slots : brrt'[i].used =>
        buf'[brrt'[i].buf].at = "brrt" /\ buf'[brrt'[i].buf].frame = brrt'[i].frame
  BY DEF EntryBufs, SameEntries, SameTableBufs
<1>3. \A i, j \in Slots :
        brrt'[i].used /\ brrt'[j].used /\ brrt'[i].buf = brrt'[j].buf => i = j
  BY DEF EntryBufs, SameEntries
<1>4. \A b \in Bufs : buf'[b].at = "brrt" => \E i \in Slots : brrt'[i].used /\ brrt'[i].buf = b
  BY DEF EntryBufs, SameEntries, SameTableBufs
<1> QED
  BY <1>1, <1>2, <1>3, <1>4 DEF EntryBufs

\* The counter stays right.
LEMMA CountKept ==
  ASSUME Types, Types', SameEntries
  PROVE  /\ Used(brrt)' = Used(brrt)
         /\ BrrtCounted /\ brrt_cnt' = brrt_cnt => BrrtCounted'
<1>1. Used(brrt)' = {i \in Slots : brrt'[i].used} /\ Used(brrt) = {i \in Slots : brrt[i].used}
  BY DEF Used, Types
<1>2. Used(brrt)' = Used(brrt)
  BY <1>1 DEF SameEntries
<1> QED
  BY <1>2 DEF BrrtCounted

\* The buffers on their way up can be counted.
LEMMA PendingFinite ==
  ASSUME NEW f
  PROVE  IsFiniteSet(Pending(f)) /\ Cardinality(Pending(f)) \in Nat
<1>1. Pending(f) \subseteq Bufs
  BY DEF Pending
<1> QED
  BY <1>1, FiniteParts, FS_Subset, FS_CardinalityType

\* The number of entries a frame had is a number.
LEMMA EnteredNat ==
  ASSUME Types, NEW f \in Frames
  PROVE  Entered(f) \in Nat /\ indicated[f] \in Nat /\ expired[f] \in Nat /\ confirmed[f] \in Nat
BY DEF Types, Entered

\* Nothing more goes up, and no entry of btt is forgotten.
LEMMA GoesUpKept ==
  ASSUME Types, Types', GoesUp, SameGoing, indicated' = indicated,
         \A f \in Frames : Entered(f)' >= Entered(f)
  PROVE  GoesUp'
<1> SUFFICES ASSUME NEW f \in Frames
             PROVE  /\ indicated'[f] + Cardinality(Pending(f)') <= Entered(f)'
                    /\ f \in Own =>
                         \/ indicated'[f] + Cardinality(Pending(f)') = 0
                         \/ indicated'[f] + Cardinality(Pending(f)') < Entered(f)'
  BY DEF GoesUp
<1>1. Pending(f)' = Pending(f)
  BY DEF SameGoing, Pending
<1>2. Cardinality(Pending(f)) \in Nat /\ Entered(f) \in Nat /\ indicated[f] \in Nat
  BY PendingFinite, EnteredNat
<1>3. Entered(f)' \in Nat
  BY DEF Types, Entered
<1>4. /\ indicated[f] + Cardinality(Pending(f)) <= Entered(f)
      /\ f \in Own => \/ indicated[f] + Cardinality(Pending(f)) = 0
                      \/ indicated[f] + Cardinality(Pending(f)) < Entered(f)
  BY DEF GoesUp
<1>5. Entered(f)' >= Entered(f)
  OBVIOUS
<1> QED
  BY <1>1, <1>2, <1>3, <1>4, <1>5

\* The requests stay where they are, or are gone.
LEMMA OwnKept ==
  ASSUME OwnOnce, NoNewOwn, confirmed' = confirmed, asked' = asked
  PROVE  OwnOnce'
<1> SUFFICES ASSUME NEW f \in Frames
             PROVE  /\ \A b, c \in Bufs : buf'[b].handle = "own" /\ buf'[c].handle = "own"
                              /\ buf'[b].frame = f /\ buf'[c].frame = f => b = c
                    /\ \A b \in Bufs : buf'[b].handle = "own" /\ buf'[b].frame = f =>
                              confirmed'[f] = 0 /\ f \in asked'
                    /\ confirmed'[f] <= 1 /\ (confirmed'[f] = 1 => f \in asked')
  BY DEF OwnOnce
<1> QED
  BY DEF OwnOnce, NoNewOwn

\* The calls that drive the table are still there.
LEMMA DrivenKept ==
  ASSUME Types, Types', Driven, KeepsDriven
  PROVE  Driven'
<1>1. out_req \in Nat /\ out_req' \in Nat /\ again \in Nat /\ again' \in Nat
  BY DEF Types
<1> QED
  BY <1>1 DEF Driven, KeepsDriven

\* btt stays as it is.
LEMMA BttKept ==
  ASSUME KeepBtt, expired' = expired
  PROVE  /\ BttCounted => BttCounted'
         /\ BttUnique => BttUnique'
         /\ \A f \in Frames : Known(f)' = Known(f) /\ Entered(f)' = Entered(f)
BY DEF KeepBtt, BttCounted, BttUnique, Known, Entered

\* A frame that is not in btt gets an entry of its own.
LEMMA AddBttEffect ==
  ASSUME TablesFit, Types, BttCounted, BttUnique, NEW f \in Frames, ~Known(f), AddBtt(f),
         expired' = expired
  PROVE  /\ btt' \in [BSlots -> BEntries] /\ btr_alarm' \in BOOLEAN
         /\ BttCounted' /\ BttUnique'
         /\ Entered(f)' = Entered(f) + 1 /\ Entered(f) = expired[f]
         /\ \A g \in Frames : g # f => Entered(g)' = Entered(g)
<1> DEFINE S == {j \in BSlots : ~btt[j].used}
<1> DEFINE i == Min(S)
<1> DEFINE e == [used |-> TRUE, frame |-> f, exp |-> DeliveryTime]
<1>1. i \in BSlots /\ ~btt[i].used
  <2>1. S \subseteq Nat /\ S # {}
    BY FiniteParts DEF AddBtt
  <2>2. i \in S
    BY <2>1, LeastOf
  <2> QED
    BY <2>2
<1>2. /\ btt' = [btt EXCEPT ![i] = e]
      /\ btt_cnt' = (btt_cnt + 1) % 256
      /\ btr_alarm' = (btr_alarm \/ btt_cnt' = 1)
  BY DEF AddBtt
<1> HIDE DEF i
<1>3. e \in BEntries /\ e.used = TRUE /\ e.frame = f
  BY BroadcastAssumption DEF BEntries
<1> HIDE DEF e
<1>4. btt \in [BSlots -> BEntries] /\ btr_alarm \in BOOLEAN
  BY DEF Types
<1>5. /\ btt' \in [BSlots -> BEntries] /\ btt'[i] = e
      /\ \A j \in BSlots : j # i => btt'[j] = btt[j]
  BY <1>1, <1>2, <1>3, <1>4
<1>6. btr_alarm' \in BOOLEAN
  BY <1>2, <1>4
<1>7. BttCounted'
  <2>1. Used(btt)' = {j \in BSlots : btt'[j].used}
    BY <1>5 DEF Used
  <2>2. Used(btt)' = Used(btt) \cup {i} /\ i \notin Used(btt)
    BY <2>1, <1>1, <1>3, <1>5, CountsFit
  <2>3. Cardinality(Used(btt)') = Cardinality(Used(btt)) + 1
    BY <2>2, CountsFit, FS_AddElement
  <2>4. Cardinality(Used(btt)') <= ZB_NWK_BTR_TABLE_SIZE
    <3>1. Used(btt)' \subseteq BSlots
      BY <2>1
    <3> QED
      BY <3>1, FiniteParts, FS_Subset
  <2>5. Cardinality(Used(btt)) \in Nat /\ ZB_NWK_BTR_TABLE_SIZE \in Nat
    BY BroadcastAssumption, CountsFit, FS_CardinalityType
  <2>6. (Cardinality(Used(btt)) + 1) % 256 = Cardinality(Used(btt)) + 1
    BY <2>3, <2>4, <2>5 DEF TablesFit
  <2> QED
    BY <2>3, <2>6, <1>2 DEF BttCounted
<1>8. BttUnique'
  BY <1>1, <1>3, <1>5 DEF BttUnique, Known
<1>9. \A g \in Frames : Known(g)' <=> (Known(g) \/ g = f)
  BY <1>1, <1>3, <1>5 DEF Known
<1>10. \A g \in Frames : expired[g] \in Nat
  BY DEF Types
<1> QED
  BY <1>5, <1>6, <1>7, <1>8, <1>9, <1>10 DEF Entered

-----------------------------------------------------------------------------
(* The steps of one buffer.                                                 *)

\* A callback that works on one buffer.
LEMMA OneBuffer ==
  ASSUME Types, NEW b \in Bufs, NEW v \in Buffers, buf' = [buf EXCEPT ![b] = v]
  PROVE  /\ buf' \in [Bufs -> Buffers] /\ buf'[b] = v
         /\ \A c \in Bufs : c # b => buf'[c] = buf[c]
BY DEF Types

\* A buffer that takes another place keeps its frame and its handle.
LEMMA OneMoves ==
  ASSUME Types, NEW b \in Bufs, NEW p \in Places, buf' = [buf EXCEPT ![b].at = p]
  PROVE  /\ buf' \in [Bufs -> Buffers] /\ buf'[b].at = p
         /\ buf'[b].frame = buf[b].frame /\ buf'[b].handle = buf[b].handle
         /\ \A c \in Bufs : c # b => buf'[c] = buf[c]
<1> DEFINE v == [buf[b] EXCEPT !.at = p]
<1>1. buf[b] \in Buffers
  BY DEF Types
<1>2. v \in Buffers /\ v.at = p /\ v.frame = buf[b].frame /\ v.handle = buf[b].handle
  BY <1>1 DEF Buffers
<1>3. buf' = [buf EXCEPT ![b] = v]
  OBVIOUS
<1> HIDE DEF v
<1> QED
  BY <1>2, <1>3, OneBuffer

\* What a callback writes into its buffer.
LEMMA Written ==
  /\ Free \in Buffers /\ Free.at = "free" /\ Free.handle = "none"
  /\ \A p \in Places, f \in Frames \cup {NoFrame}, h \in {"none", "own", "internal"} :
       /\ At(p, f, h) \in Buffers /\ At(p, f, h).at = p
       /\ At(p, f, h).frame = f /\ At(p, f, h).handle = h
BY DEF Free, At, Buffers, Places

\* The tables and what is counted stay as they are.
TablesStay ==
    UNCHANGED <<brrt, brrt_cnt, btt, btt_cnt, btr_alarm, expired>>

LEMMA TablesKept ==
  ASSUME Types, Types', BrrtCounted, BttCounted, BttUnique, RetriesBounded, TablesStay
  PROVE  /\ SameEntries /\ BrrtCounted' /\ BttCounted' /\ BttUnique' /\ RetriesBounded'
         /\ Used(brrt)' = Used(brrt)
         /\ \A f \in Frames : Entered(f)' >= Entered(f)
<1>1. SameEntries
  BY DEF SameEntries, TablesStay
<1>2. BrrtCounted' /\ Used(brrt)' = Used(brrt)
  BY <1>1, CountKept DEF TablesStay
<1>3. BttCounted' /\ BttUnique' /\ \A f \in Frames : Entered(f)' = Entered(f)
  BY BttKept DEF TablesStay, KeepBtt
<1>4. RetriesBounded'
  BY DEF RetriesBounded, TablesStay, RetryOK
<1>5. \A f \in Frames : Entered(f) \in Nat
  BY EnteredNat
<1> QED
  BY <1>1, <1>2, <1>3, <1>4, <1>5

\* A step that moves one buffer which is in no table and does not go up.
LEMMA OneAside ==
  ASSUME BroadcastInv, Types', Framed', Driven', OwnOnce', TablesStay,
         UNCHANGED <<wait_alloc, indicated>>,
         NEW b \in Bufs, \A c \in Bufs : c # b => buf'[c] = buf[c],
         buf[b].at \notin {"brrt", "wait", "ind"}, buf'[b].at \notin {"brrt", "wait", "ind"}
  PROVE  BroadcastInv'
<1>i. Types /\ BrrtCounted /\ BttCounted /\ EntryBufs /\ RetriesBounded
      /\ BttUnique /\ Waiting /\ GoesUp
  BY DEF BroadcastInv
<1>1. /\ SameEntries /\ BrrtCounted' /\ BttCounted' /\ BttUnique' /\ RetriesBounded'
      /\ \A g \in Frames : Entered(g)' >= Entered(g)
  BY <1>i, TablesKept
<1>2. EntryBufs'
  <2>1. SameTableBufs
    BY DEF SameTableBufs
  <2> QED
    BY <2>1, <1>i, <1>1, EntriesKept
<1>3. Waiting'
  <2>1. wait_alloc \in Seq(Bufs)
    BY <1>i DEF Types
  <2> QED
    BY <2>1, <1>i DEF Waiting
<1>4. GoesUp'
  <2>1. SameGoing
    BY DEF SameGoing
  <2> QED
    BY <2>1, <1>i, <1>1, GoesUpKept
<1> QED
  BY <1>1, <1>2, <1>3, <1>4 DEF BroadcastInv

\* zb_nlde_data_request() puts the request in a free buffer.
LEMMA RequestKeeps ==
  ASSUME BroadcastInv, NEW b \in OutBufs, NEW f \in Frames, zb_nlde_data_request(b, f)
  PROVE  BroadcastInv'
<1> DEFINE v == At("fwd", f, "own")
<1>1. b \in Bufs /\ buf[b].at = "free" /\ f \in Own /\ f \notin asked
  BY DEF zb_nlde_data_request, FirstFree, Bufs
<1>2. v \in Buffers /\ v.at = "fwd" /\ v.frame = f /\ v.handle = "own"
  BY Written DEF Places
<1>3. /\ buf' = [buf EXCEPT ![b] = v] /\ asked' = asked \cup {f}
      /\ UNCHANGED <<brrt, brrt_cnt, btt, btt_cnt, wait_alloc, out_req, dup_req, stat_req,
                     again, tx_alarm, btr_alarm, confirmed, expired, indicated>>
  BY DEF zb_nlde_data_request
<1> HIDE DEF v
<1>i. Types /\ Framed /\ BrrtCounted /\ BttCounted /\ BttUnique /\ RetriesBounded /\ Driven
      /\ OwnOnce
  BY DEF BroadcastInv
<1>4. /\ buf' \in [Bufs -> Buffers] /\ buf'[b] = v
      /\ \A c \in Bufs : c # b => buf'[c] = buf[c]
  BY <1>1, <1>2, <1>3, <1>i, OneBuffer
<1>5. Types'
  BY <1>i, <1>1, <1>3, <1>4 DEF Types
<1>6. TablesStay
  BY <1>3 DEF TablesStay
<1>7. Framed'
  BY <1>i, <1>2, <1>4 DEF Framed
<1>9. Driven'
  <2>1. Used(brrt)' = Used(brrt)
    BY <1>i, <1>5, <1>6, TablesKept
  <2>2. KeepsDriven
    BY <2>1, <1>i, <1>1, <1>3, <1>4 DEF KeepsDriven, Types
  <2> QED
    BY <2>2, <1>i, <1>5, DrivenKept
<1>10. OwnOnce'
  <2>1. \A c \in Bufs : buf[c].handle = "own" => buf[c].frame # f
    BY <1>i, <1>1 DEF OwnOnce
  <2>2. confirmed[f] = 0
    <3>1. confirmed[f] \in Nat
      BY <1>i DEF Types
    <3> QED
      BY <3>1, <1>i, <1>1 DEF OwnOnce
  <2> SUFFICES ASSUME NEW g \in Frames
               PROVE  /\ \A c, d \in Bufs : buf'[c].handle = "own" /\ buf'[d].handle = "own"
                                /\ buf'[c].frame = g /\ buf'[d].frame = g => c = d
                      /\ \A c \in Bufs : buf'[c].handle = "own" /\ buf'[c].frame = g =>
                                confirmed'[g] = 0 /\ g \in asked'
                      /\ confirmed'[g] <= 1 /\ (confirmed'[g] = 1 => g \in asked')
    BY DEF OwnOnce
  <2>3. CASE g = f
    BY <2>1, <2>2, <2>3, <1>2, <1>3, <1>4
  <2>4. CASE g # f
    BY <2>4, <1>i, <1>2, <1>3, <1>4 DEF OwnOnce
  <2> QED
    BY <2>3, <2>4
<1> QED
  BY <1>1, <1>2, <1>3, <1>4, <1>5, <1>6, <1>7, <1>9, <1>10, OneAside

\* A request that waits for a buffer gets it; the one for a transmission goes
\* on driving the table.
LEMMA GrantKeeps ==
  ASSUME BroadcastInv, NEW b \in Bufs, GrantOut(b) \/ GrantDup(b) \/ GrantStat(b)
  PROVE  BroadcastInv'
<1>i. Types /\ Framed /\ BrrtCounted /\ BttCounted /\ BttUnique /\ RetriesBounded /\ Driven
      /\ OwnOnce
  BY DEF BroadcastInv
<1>1. PICK p \in {"xmit", "newbuf", "statbuf"} : Grant(b, p)
  BY DEF GrantOut, GrantDup, GrantStat
<1>2. p \in Places /\ buf' = [buf EXCEPT ![b].at = p]
  BY <1>1 DEF Grant, Places
<1>3. buf[b].at = "free"
  BY DEF GrantOut, GrantDup, GrantStat, FirstFree
<1>4. /\ buf' \in [Bufs -> Buffers] /\ buf'[b].at = p
      /\ buf'[b].frame = buf[b].frame /\ buf'[b].handle = buf[b].handle
      /\ \A c \in Bufs : c # b => buf'[c] = buf[c]
  BY <1>2, <1>i, OneMoves
<1>5. /\ UNCHANGED <<brrt, brrt_cnt, btt, btt_cnt, btr_alarm, expired>>
      /\ UNCHANGED <<wait_alloc, asked, confirmed, indicated>>
      /\ UNCHANGED <<again, tx_alarm>>
  BY <1>1 DEF Grant
<1>6. /\ out_req' \in Nat /\ dup_req' \in Nat /\ stat_req' \in Nat
      /\ (out_req' = out_req \/ buf'[b].at = "xmit")
  <2>1. out_req \in Nat /\ dup_req \in Nat /\ stat_req \in Nat
    BY <1>i DEF Types
  <2>2. CASE GrantOut(b)
    <3>1. buf'[b].at = "xmit"
      <4>1. buf' = [buf EXCEPT ![b].at = "xmit"]
        BY <2>2 DEF GrantOut, Grant
      <4>2. "xmit" \in Places
        BY DEF Places
      <4> QED
        BY <4>1, <4>2, <1>i, OneMoves
    <3> QED
      BY <2>1, <2>2, <3>1 DEF GrantOut
  <2>3. CASE GrantDup(b)
    BY <2>1, <2>3 DEF GrantDup
  <2>4. CASE GrantStat(b)
    BY <2>1, <2>4 DEF GrantStat
  <2> QED
    BY <2>2, <2>3, <2>4
<1>7. Types'
  BY <1>i, <1>4, <1>5, <1>6 DEF Types
<1>8. TablesStay
  BY <1>5 DEF TablesStay
<1>9. Driven'
  <2>1. Used(brrt)' = Used(brrt)
    BY <1>i, <1>7, <1>8, TablesKept
  <2>2. CASE buf'[b].at = "xmit"
    BY <2>2 DEF Driven
  <2>3. CASE out_req' = out_req
    <3>1. \A c \in Bufs : buf[c].at = "xmit" => buf'[c].at = "xmit"
      BY <1>3, <1>4
    <3> QED
      BY <3>1, <2>1, <2>3, <1>i, <1>5 DEF Driven
  <2> QED
    BY <2>2, <2>3, <1>6
<1>10. OwnOnce'
  <2>1. NoNewOwn
    BY <1>4 DEF NoNewOwn
  <2> QED
    BY <2>1, <1>i, <1>5, OwnKept
<1>11. Framed'
  BY <1>i, <1>4 DEF Framed
<1> QED
  BY <1>3, <1>4, <1>5, <1>7, <1>8, <1>9, <1>10, <1>11, OneAside

\* call_status_indication() frees its buffer.
LEMMA StatusKeeps ==
  ASSUME BroadcastInv, NEW b \in Bufs, call_status_indication(b)
  PROVE  BroadcastInv'
<1>i. Types /\ Framed /\ BrrtCounted /\ BttCounted /\ BttUnique /\ RetriesBounded /\ Driven
      /\ OwnOnce
  BY DEF BroadcastInv
<1>1. buf[b].at = "statbuf" /\ buf' = [buf EXCEPT ![b] = Free]
  BY DEF call_status_indication
<1>2. Free \in Buffers /\ Free.at = "free" /\ Free.handle = "none"
  BY Written
<1>3. /\ buf' \in [Bufs -> Buffers] /\ buf'[b].at = "free" /\ buf'[b].handle = "none"
      /\ \A c \in Bufs : c # b => buf'[c] = buf[c]
  BY <1>1, <1>2, <1>i, OneBuffer
<1>5. /\ UNCHANGED <<brrt, brrt_cnt, btt, btt_cnt, btr_alarm, expired>>
      /\ UNCHANGED <<wait_alloc, asked, confirmed, indicated>>
      /\ UNCHANGED <<out_req, dup_req, stat_req, again, tx_alarm>>
  BY DEF call_status_indication
<1>7. Types'
  BY <1>i, <1>3, <1>5 DEF Types
<1>8. TablesStay
  BY <1>5 DEF TablesStay
<1>9. Driven'
  <2>1. Used(brrt)' = Used(brrt)
    BY <1>i, <1>7, <1>8, TablesKept
  <2>2. \A c \in Bufs : buf[c].at = "xmit" => buf'[c].at = "xmit"
    BY <1>1, <1>3
  <2> QED
    BY <2>1, <2>2, <1>i, <1>5 DEF Driven
<1>10. OwnOnce'
  <2>1. NoNewOwn
    BY <1>3 DEF NoNewOwn
  <2> QED
    BY <2>1, <1>i, <1>5, OwnKept
<1>11. Framed'
  BY <1>i, <1>3 DEF Framed
<1> QED
  BY <1>1, <1>3, <1>5, <1>7, <1>8, <1>9, <1>10, <1>11, OneAside

\* A frame that was to go up has gone up.
LEMMA IndicationKeeps ==
  ASSUME BroadcastInv, NEW b \in Bufs, nwk_frame_indication(b)
  PROVE  BroadcastInv'
<1>i. Types /\ Framed /\ BrrtCounted /\ BttCounted /\ EntryBufs /\ RetriesBounded /\ Driven
      /\ BttUnique /\ Waiting /\ OwnOnce /\ GoesUp
  BY DEF BroadcastInv
<1> DEFINE f == buf[b].frame
<1>1. buf[b].at = "ind" /\ buf' = [buf EXCEPT ![b] = Free] /\ f \in Frames
  BY <1>i DEF nwk_frame_indication, Framed
<1>2. Free \in Buffers /\ Free.at = "free" /\ Free.handle = "none"
  BY Written
<1>3. /\ buf' \in [Bufs -> Buffers] /\ buf'[b].at = "free" /\ buf'[b].handle = "none"
      /\ \A c \in Bufs : c # b => buf'[c] = buf[c]
  BY <1>1, <1>2, <1>i, OneBuffer
<1>4. indicated' = [indicated EXCEPT ![f] = @ + 1]
  BY DEF nwk_frame_indication
<1>5. /\ UNCHANGED <<brrt, brrt_cnt, btt, btt_cnt, btr_alarm, expired>>
      /\ UNCHANGED <<wait_alloc, asked, confirmed>>
      /\ UNCHANGED <<out_req, dup_req, stat_req, again, tx_alarm>>
  BY DEF nwk_frame_indication
<1>6. indicated \in [Frames -> Nat] /\ indicated' \in [Frames -> Nat]
  BY <1>i, <1>1, <1>4 DEF Types
<1>7. Types'
  BY <1>i, <1>3, <1>5, <1>6 DEF Types
<1>8. /\ SameEntries /\ BrrtCounted' /\ BttCounted' /\ BttUnique' /\ RetriesBounded'
      /\ Used(brrt)' = Used(brrt)
  BY <1>i, <1>5, <1>7, TablesKept DEF TablesStay
<1>9. \A g \in Frames : Entered(g)' = Entered(g)
  BY <1>5, BttKept DEF KeepBtt
<1>10. Framed'
  BY <1>i, <1>3 DEF Framed
<1>11. EntryBufs'
  <2>1. SameTableBufs
    BY <1>1, <1>3 DEF SameTableBufs
  <2> QED
    BY <2>1, <1>i, <1>7, <1>8, EntriesKept
<1>12. Driven'
  <2>1. \A c \in Bufs : buf[c].at = "xmit" => buf'[c].at = "xmit"
    BY <1>1, <1>3
  <2> QED
    BY <2>1, <1>8, <1>i, <1>5 DEF Driven
<1>13. Waiting'
  <2>1. wait_alloc \in Seq(Bufs)
    BY <1>i DEF Types
  <2> QED
    BY <2>1, <1>i, <1>1, <1>3, <1>5 DEF Waiting
<1>14. OwnOnce'
  <2>1. NoNewOwn
    BY <1>3 DEF NoNewOwn
  <2> QED
    BY <2>1, <1>i, <1>5, OwnKept
<1>15. GoesUp'
  <2> SUFFICES ASSUME NEW g \in Frames
               PROVE  indicated'[g] + Cardinality(Pending(g)')
                        = indicated[g] + Cardinality(Pending(g))
    BY <1>i, <1>9 DEF GoesUp
  <2>1. CASE g = f
    <3>1. Pending(g)' = Pending(g) \ {b} /\ b \in Pending(g)
      BY <2>1, <1>1, <1>3 DEF Pending
    <3>2. IsFiniteSet(Pending(g)) /\ Cardinality(Pending(g)) \in Nat
      BY PendingFinite
    <3>3. Cardinality(Pending(g)') = Cardinality(Pending(g)) - 1
      BY <3>1, <3>2, FS_RemoveElement
    <3>4. indicated'[g] = indicated[g] + 1 /\ indicated[g] \in Nat
      BY <2>1, <1>4, <1>6
    <3> QED
      BY <3>2, <3>3, <3>4
  <2>2. CASE g # f
    <3>1. Pending(g)' = Pending(g)
      BY <2>2, <1>1, <1>3 DEF Pending
    <3>2. indicated'[g] = indicated[g]
      BY <2>2, <1>4, <1>6
    <3> QED
      BY <3>1, <3>2
  <2> QED
    BY <2>1, <2>2
<1> QED
  BY <1>7, <1>8, <1>10, <1>11, <1>12, <1>13, <1>14, <1>15 DEF BroadcastInv

\* A confirm frees its buffer and confirms an own request.
LEMMA ConfirmKeeps ==
  ASSUME BroadcastInv, NEW b \in Bufs, NEW ok \in BOOLEAN,
         zb_mcps_data_confirm(b, ok) \/ zb_nwk_call_br_confirm(b)
  PROVE  BroadcastInv'
<1> DEFINE f == buf[b].frame
<1> DEFINE own == buf[b].handle = "own"
<1>i. Types /\ Framed /\ BrrtCounted /\ BttCounted /\ BttUnique /\ RetriesBounded /\ Driven
      /\ OwnOnce
  BY DEF BroadcastInv
<1>1. buf[b].at \in {"mac", "brconf"} /\ f \in Frames
  BY <1>i DEF zb_mcps_data_confirm, zb_nwk_call_br_confirm, Framed
<1>2. PICK k \in BOOLEAN : McpsConfirm(b, k)
  BY DEF zb_mcps_data_confirm, zb_nwk_call_br_confirm
<1>3. /\ buf' = [buf EXCEPT ![b] = Free]
      /\ confirmed' = IF own THEN [confirmed EXCEPT ![f] = @ + 1] ELSE confirmed
      /\ stat_req' = stat_req + (IF own /\ ~k THEN 1 ELSE 0)
      /\ UNCHANGED <<brrt, brrt_cnt, btt, btt_cnt, btr_alarm, expired>>
      /\ UNCHANGED <<wait_alloc, asked, indicated, out_req, dup_req, again, tx_alarm>>
  BY <1>2 DEF McpsConfirm
<1>4. /\ buf' \in [Bufs -> Buffers] /\ buf'[b].at = "free" /\ buf'[b].handle = "none"
      /\ \A c \in Bufs : c # b => buf'[c] = buf[c]
  BY <1>3, <1>i, Written, OneBuffer
<1>5. confirmed \in [Frames -> Nat] /\ confirmed' \in [Frames -> Nat] /\ stat_req' \in Nat
  <2>1. confirmed \in [Frames -> Nat] /\ stat_req \in Nat
    BY <1>i DEF Types
  <2> QED
    BY <2>1, <1>1, <1>3
<1>6. Types'
  BY <1>i, <1>3, <1>4, <1>5 DEF Types
<1>7. TablesStay
  BY <1>3 DEF TablesStay
<1>8. Framed'
  BY <1>i, <1>4 DEF Framed
<1>9. Driven'
  <2>1. Used(brrt)' = Used(brrt)
    BY <1>i, <1>6, <1>7, TablesKept
  <2>2. \A c \in Bufs : buf[c].at = "xmit" => buf'[c].at = "xmit"
    BY <1>1, <1>4
  <2> QED
    BY <2>1, <2>2, <1>i, <1>3 DEF Driven
<1>10. OwnOnce'
  <2>1. NoNewOwn
    BY <1>4 DEF NoNewOwn
  <2>2. CASE ~own
    BY <2>1, <2>2, <1>i, <1>3, OwnKept
  <2>3. CASE own
    <3>1. f \in asked /\ confirmed[f] = 0
      BY <2>3, <1>i, <1>1 DEF OwnOnce
    <3>2. confirmed'[f] = 1 /\ \A g \in Frames : g # f => confirmed'[g] = confirmed[g]
      BY <2>3, <3>1, <1>1, <1>3, <1>5
    <3>3. \A c \in Bufs : buf'[c].handle = "own" => buf'[c].frame # f
      BY <2>3, <1>i, <1>1, <1>4 DEF OwnOnce
    <3> SUFFICES ASSUME NEW g \in Frames
                 PROVE  /\ \A c, d \in Bufs : buf'[c].handle = "own" /\ buf'[d].handle = "own"
                                  /\ buf'[c].frame = g /\ buf'[d].frame = g => c = d
                        /\ \A c \in Bufs : buf'[c].handle = "own" /\ buf'[c].frame = g =>
                                  confirmed'[g] = 0 /\ g \in asked'
                        /\ confirmed'[g] <= 1 /\ (confirmed'[g] = 1 => g \in asked')
      BY DEF OwnOnce
    <3>4. CASE g = f
      BY <3>1, <3>2, <3>3, <3>4, <1>3
    <3>5. CASE g # f
      BY <3>2, <3>5, <2>1, <1>i, <1>3 DEF OwnOnce, NoNewOwn
    <3> QED
      BY <3>4, <3>5
  <2> QED
    BY <2>2, <2>3
<1> QED
  BY <1>1, <1>3, <1>4, <1>6, <1>7, <1>8, <1>9, <1>10, OneAside

\* new_buffer_allocated(): the copy takes the place of the frame that waited,
\* which goes on to be forwarded.
LEMMA DuplicateKeeps ==
  ASSUME BroadcastInv, NEW b \in Bufs, new_buffer_allocated(b)
  PROVE  BroadcastInv'
<1> DEFINE n == Len(wait_alloc)
<1> DEFINE w == wait_alloc[n]
<1>i. Types /\ Framed /\ BrrtCounted /\ BttCounted /\ EntryBufs /\ RetriesBounded /\ Driven
      /\ BttUnique /\ Waiting /\ OwnOnce /\ GoesUp
  BY DEF BroadcastInv
<1>1. /\ buf[b].at = "newbuf"
      /\ UNCHANGED <<brrt, brrt_cnt, btt, btt_cnt, btr_alarm, expired>>
      /\ UNCHANGED <<asked, confirmed, indicated, out_req, stat_req, again, tx_alarm>>
  BY DEF new_buffer_allocated
<1>2. wait_alloc \in Seq(Bufs) /\ dup_req \in Nat /\ n \in Nat
  BY <1>i, LenProperties DEF Types
<1>3. TablesStay
  BY <1>1 DEF TablesStay
<1>4. CASE n = 0
  <2>1. buf' = [buf EXCEPT ![b].at = "lost"] /\ UNCHANGED <<wait_alloc, dup_req>>
    BY <1>4 DEF new_buffer_allocated
  <2>2. /\ buf' \in [Bufs -> Buffers] /\ buf'[b].at = "lost"
        /\ buf'[b].frame = buf[b].frame /\ buf'[b].handle = buf[b].handle
        /\ \A c \in Bufs : c # b => buf'[c] = buf[c]
    <3>1. "lost" \in Places
      BY DEF Places
    <3> QED
      BY <3>1, <2>1, <1>i, OneMoves
  <2>3. Types'
    BY <2>1, <2>2, <1>i, <1>1 DEF Types
  <2>4. Framed'
    BY <2>2, <1>i DEF Framed
  <2>5. Driven'
    <3>1. Used(brrt)' = Used(brrt)
      BY <2>3, <1>i, <1>3, TablesKept
    <3>2. \A c \in Bufs : buf[c].at = "xmit" => buf'[c].at = "xmit"
      BY <2>2, <1>1
    <3> QED
      BY <3>1, <3>2, <1>i, <1>1 DEF Driven
  <2>6. OwnOnce'
    <3>1. NoNewOwn
      BY <2>2 DEF NoNewOwn
    <3> QED
      BY <3>1, <1>i, <1>1, OwnKept
  <2> QED
    BY <2>1, <2>2, <2>3, <2>4, <2>5, <2>6, <1>1, <1>3, OneAside
<1>5. CASE n # 0
  <2> DEFINE f == buf[w].frame
  <2> DEFINE u == At("ind", f, "none")
  <2> DEFINE v == At("fwd", f, "internal")
  <2>1. /\ buf' = [buf EXCEPT ![b] = u, ![w] = v]
        /\ wait_alloc' = SubSeq(wait_alloc, 1, n - 1)
        /\ dup_req' = dup_req + (IF n > 1 THEN 1 ELSE 0)
    BY <1>5 DEF new_buffer_allocated
  <2>2. w \in Bufs /\ buf[w].at = "wait" /\ w # b
    <3>1. n \in 1 .. Len(wait_alloc)
      BY <1>2, <1>5
    <3>2. buf[w].at = "wait" /\ w \in Bufs
      BY <3>1, <1>2, <1>i, ElementOfSeq DEF Waiting
    <3> QED
      BY <3>2, <1>1
  <2>3. f \in Frames
    BY <2>2, <1>i DEF Framed
  <2>4. /\ u \in Buffers /\ u.at = "ind" /\ u.frame = f /\ u.handle = "none"
        /\ v \in Buffers /\ v.at = "fwd" /\ v.frame = f /\ v.handle = "internal"
    BY <2>3, Written DEF Places
  <2> HIDE DEF u, v
  <2>5. /\ buf' \in [Bufs -> Buffers] /\ buf'[b] = u /\ buf'[w] = v
        /\ \A c \in Bufs : c # b /\ c # w => buf'[c] = buf[c]
    BY <2>1, <2>2, <2>4, <1>i DEF Types
  <2>6. /\ wait_alloc' \in Seq(Bufs) /\ Len(wait_alloc') = n - 1
        /\ \A k \in 1 .. n - 1 : wait_alloc'[k] = wait_alloc[k]
    <3>1. 1 \in Int /\ n - 1 \in Int /\ \A k \in 1 .. n - 1 : wait_alloc[k] \in Bufs
      BY <1>2, ElementOfSeq
    <3>2. n - 1 >= 0 /\ (n - 1) - 1 + 1 = n - 1 /\ \A k \in 1 .. n - 1 : 1 + k - 1 = k
      BY <1>2, <1>5
    <3>3. /\ SubSeq(wait_alloc, 1, n - 1) \in Seq(Bufs)
          /\ Len(SubSeq(wait_alloc, 1, n - 1)) = IF 1 <= n - 1 THEN (n - 1) - 1 + 1 ELSE 0
          /\ \A k \in 1 .. (n - 1) - 1 + 1 : SubSeq(wait_alloc, 1, n - 1)[k] = wait_alloc[1 + k - 1]
      BY ONLY <3>1, SubSeqProperties
    <3> QED
      BY <3>2, <3>3, <2>1, <1>2, <1>5
  <2>7. dup_req' \in Nat
    BY <2>1, <1>2
  <2>8. Types'
    BY <2>5, <2>6, <2>7, <1>i, <1>1 DEF Types
  <2>9. /\ SameEntries /\ BrrtCounted' /\ BttCounted' /\ BttUnique' /\ RetriesBounded'
        /\ Used(brrt)' = Used(brrt)
    BY <2>8, <1>i, <1>3, TablesKept
  <2>10. \A g \in Frames : Entered(g)' = Entered(g)
    BY <1>1, BttKept DEF KeepBtt
  <2>11. Framed'
    BY <2>3, <2>4, <2>5, <1>i DEF Framed
  <2>12. EntryBufs'
    <3>1. SameTableBufs
      BY <2>2, <2>4, <2>5, <1>1 DEF SameTableBufs
    <3> QED
      BY <3>1, <2>8, <2>9, <1>i, EntriesKept
  <2>13. Driven'
    <3>1. \A c \in Bufs : buf[c].at = "xmit" => buf'[c].at = "xmit"
      BY <2>2, <2>5, <1>1
    <3> QED
      BY <3>1, <2>9, <1>i, <1>1 DEF Driven
  <2>14. OwnOnce'
    <3>1. NoNewOwn
      BY <2>4, <2>5 DEF NoNewOwn
    <3> QED
      BY <3>1, <1>i, <1>1, OwnKept
  <2>15. Waiting'
    <3>1. \A k \in 1 .. n - 1 : k \in 1 .. n /\ k # n
      BY <1>2
    <3>2. n \in 1 .. n
      BY <1>2, <1>5
    <3>3. \A k \in 1 .. n - 1 : wait_alloc[k] # w /\ buf[wait_alloc[k]].at = "wait"
                                 /\ wait_alloc[k] \in Bufs
      BY <3>1, <3>2, <1>i, <1>2, ElementOfSeq DEF Waiting
    <3>4. \A k \in 1 .. n - 1 : buf'[wait_alloc'[k]].at = "wait"
      BY <3>3, <2>5, <2>6, <1>1
    <3>5. \A k, l \in 1 .. n - 1 : wait_alloc'[k] = wait_alloc'[l] => k = l
      BY <3>1, <2>6, <1>i DEF Waiting
    <3> QED
      BY <3>4, <3>5, <2>6 DEF Waiting
  <2>16. GoesUp'
    <3> SUFFICES ASSUME NEW g \in Frames
                 PROVE  Cardinality(Pending(g)') = Cardinality(Pending(g))
      BY <2>10, <1>i, <1>1 DEF GoesUp
    <3>1. CASE g = f
      <4>1. Pending(g)' = (Pending(g) \ {w}) \cup {b} /\ w \in Pending(g) /\ b \notin Pending(g)
        BY <3>1, <2>2, <2>4, <2>5, <1>1 DEF Pending
      <4>2. IsFiniteSet(Pending(g)) /\ Cardinality(Pending(g)) \in Nat
        BY PendingFinite
      <4>3. IsFiniteSet(Pending(g) \ {w}) /\ Cardinality(Pending(g) \ {w}) = Cardinality(Pending(g)) - 1
        BY <4>1, <4>2, FS_RemoveElement
      <4>4. b \notin Pending(g) \ {w}
        BY <4>1
      <4>5. Cardinality(Pending(g)') = Cardinality(Pending(g) \ {w}) + 1
        BY <4>1, <4>3, <4>4, FS_AddElement
      <4> QED
        BY <4>2, <4>3, <4>5
    <3>2. CASE g # f
      <4>1. Pending(g)' = Pending(g)
        BY <3>2, <2>2, <2>4, <2>5, <1>1 DEF Pending
      <4> QED
        BY <4>1
    <3> QED
      BY <3>1, <3>2
  <2> QED
    BY <2>8, <2>9, <2>11, <2>12, <2>13, <2>14, <2>15, <2>16 DEF BroadcastInv
<1> QED
  BY <1>4, <1>5

-----------------------------------------------------------------------------
(* The steps of the tables.                                                 *)

\* Every step of nwk_broadcast_transmition() leaves the entries in use sound.
LEMMA SkipKeeps ==
  ASSUME Types, Framed, EntryBufs, RetriesBounded
  PROVE  /\ SkipOriginators \in [Slots -> Entries]
         /\ \A j \in Slots : /\ SkipOriginators[j].used = brrt[j].used
                             /\ SkipOriginators[j].buf = brrt[j].buf
                             /\ SkipOriginators[j].frame = brrt[j].frame
                             /\ brrt[j].used => RetryOK(SkipOriginators[j])
<1>1. SkipOriginators = [j \in Slots |-> SkipOriginators[j]]
  BY DEF SkipOriginators
<1>2. \A j \in Slots : SkipOriginators[j] \in Entries
  BY SkipEffect
<1>3. SkipOriginators \in [Slots -> Entries]
  BY ONLY <1>1, <1>2
<1> QED
  BY <1>3, SkipEffect

\* nwk_broadcast_transmition(0) leaves the entries and asks for a buffer or
\* sets its alarm again.
LEMMA NoBufKeeps ==
  ASSUME TablesFit, BroadcastInv, TransmitAgain \/ TransmitAlarm
  PROVE  BroadcastInv'
<1>i. Types /\ Framed /\ BrrtCounted /\ BttCounted /\ EntryBufs /\ RetriesBounded /\ Driven
      /\ BttUnique /\ Waiting /\ OwnOnce /\ GoesUp
  BY DEF BroadcastInv
<1>1. PICK i \in Candidates, a \in BOOLEAN : TransmitNoBuf(i, a)
  <2>1. tx_alarm \in BOOLEAN
    BY <1>i DEF Types
  <2> QED
    BY <2>1 DEF TransmitAgain, TransmitAlarm
<1>2. /\ brrt' = SkipOriginators
      /\ \/ i # 0 /\ out_req' = out_req + 1 /\ tx_alarm' = a
         \/ i = 0 /\ tx_alarm' = (a \/ brrt_cnt # 0) /\ out_req' = out_req
      /\ UNCHANGED <<buf, brrt_cnt, btt, btt_cnt, wait_alloc, dup_req, stat_req,
                     btr_alarm, asked, confirmed, expired, indicated>>
  BY <1>1 DEF TransmitNoBuf
<1>3. out_req \in Nat /\ again \in Nat
  BY <1>i DEF Types
<1>4. out_req' \in Nat /\ again' \in Nat /\ tx_alarm' \in BOOLEAN
  <2>1. again' = again \/ (again > 0 /\ again' = again - 1)
    BY DEF TransmitAgain, TransmitAlarm
  <2>2. again' \in Nat
    BY <2>1, <1>3
  <2>3. out_req' \in Nat
    BY <1>2, <1>3
  <2>4. tx_alarm' = a \/ tx_alarm' = (a \/ brrt_cnt # 0)
    BY <1>2
  <2>5. tx_alarm' \in BOOLEAN
    BY ONLY <2>4, a \in BOOLEAN
  <2> QED
    BY <2>2, <2>3, <2>5
<1>5. /\ brrt' \in [Slots -> Entries]
      /\ \A j \in Slots : /\ brrt'[j].used = brrt[j].used /\ brrt'[j].buf = brrt[j].buf
                          /\ brrt'[j].frame = brrt[j].frame
                          /\ brrt[j].used => RetryOK(brrt'[j])
  BY <1>2, <1>i, SkipKeeps
<1>6. Types'
  BY <1>2, <1>4, <1>5, <1>i DEF Types
<1>7. SameEntries
  BY <1>5 DEF SameEntries
<1>8. BrrtCounted' /\ Used(brrt)' = Used(brrt)
  BY <1>2, <1>6, <1>7, <1>i, CountKept
<1>9. BttCounted' /\ BttUnique' /\ \A g \in Frames : Entered(g)' = Entered(g)
  BY <1>2, <1>i, BttKept DEF KeepBtt
<1>10. Framed' /\ Waiting' /\ OwnOnce'
  BY <1>2, <1>i DEF Framed, Waiting, OwnOnce
<1>11. EntryBufs'
  <2>1. SameTableBufs
    BY <1>2 DEF SameTableBufs
  <2> QED
    BY <2>1, <1>6, <1>7, <1>i, EntriesKept
<1>12. RetriesBounded'
  BY <1>5, <1>7 DEF RetriesBounded, SameEntries, RetryOK
<1>13. Driven'
  <2>1. CASE i # 0
    <3>1. out_req' > 0
      BY <2>1, <1>2, <1>3
    <3> QED
      BY <3>1 DEF Driven
  <2>2. CASE i = 0 /\ Used(brrt) # {}
    <3>1. brrt_cnt # 0
      BY <2>2, <1>i, CountsFit, FS_EmptySet DEF BrrtCounted
    <3>2. tx_alarm'
      BY <3>1, <2>2, <1>2
    <3> QED
      BY <3>2 DEF Driven
  <2>3. CASE Used(brrt) = {}
    BY <2>3, <1>8 DEF Driven
  <2> QED
    BY <2>1, <2>2, <2>3
<1>14. GoesUp'
  <2>1. Pending(0)' = Pending(0) /\ \A g \in Frames : Pending(g)' = Pending(g)
    BY <1>2 DEF Pending
  <2> QED
    BY <2>1, <1>2, <1>9, <1>i DEF GoesUp
<1> QED
  BY <1>6, <1>8, <1>9, <1>10, <1>11, <1>12, <1>13, <1>14 DEF BroadcastInv

\* zb_nwk_btr_expiry() forgets the entries whose time is over, and counts them.
LEMMA ExpiryKeeps ==
  ASSUME TablesFit, BroadcastInv, zb_nwk_btr_expiry
  PROVE  BroadcastInv'
<1> DEFINE gone == {i \in BSlots : btt[i].used /\ btt[i].exp = 0}
<1> DEFINE of(f) == {i \in gone : btt[i].frame = f}
<1>i. Types /\ Framed /\ BrrtCounted /\ BttCounted /\ EntryBufs /\ RetriesBounded /\ Driven
      /\ BttUnique /\ Waiting /\ OwnOnce /\ GoesUp
  BY DEF BroadcastInv
<1>1. /\ btr_alarm' = (btt_cnt # 0)
      /\ UNCHANGED <<buf, brrt, brrt_cnt, wait_alloc, out_req, dup_req, stat_req,
                     again, tx_alarm, asked, confirmed, indicated>>
  BY DEF zb_nwk_btr_expiry
<1>2. SameEntries /\ SameTableBufs /\ SameGoing /\ NoNewOwn
  BY <1>1 DEF SameEntries, SameTableBufs, SameGoing, NoNewOwn
<1>3. IsFiniteSet(gone) /\ Cardinality(gone) \in Nat /\ gone \subseteq Used(btt)
  <2>1. gone \subseteq Used(btt)
    BY <1>i, CountsFit
  <2> QED
    BY <2>1, <1>i, CountsFit, FS_Subset, FS_CardinalityType
<1>4. \A f \in Frames : Cardinality(of(f)) \in Nat /\ (of(f) # {} => Cardinality(of(f)) >= 1)
  <2> SUFFICES ASSUME NEW f \in Frames
               PROVE  Cardinality(of(f)) \in Nat /\ (of(f) # {} => Cardinality(of(f)) >= 1)
    OBVIOUS
  <2>1. of(f) \subseteq gone
    OBVIOUS
  <2>2. IsFiniteSet(of(f)) /\ Cardinality(of(f)) \in Nat
    BY <2>1, <1>3, FS_Subset, FS_CardinalityType
  <2>3. of(f) # {} => Cardinality(of(f)) # 0
    BY <2>2, FS_EmptySet
  <2> HIDE DEF of
  <2> QED
    BY <2>2, <2>3
<1>5. /\ btt' \in [BSlots -> BEntries] /\ expired' \in [Frames -> Nat]
      /\ BttCounted' /\ BttUnique' /\ \A f \in Frames : Entered(f)' >= Entered(f)
  <2>1. CASE btt_cnt = 0
    <3>1. UNCHANGED <<btt, btt_cnt, expired>>
      BY <2>1 DEF zb_nwk_btr_expiry
    <3>2. \A f \in Frames : Entered(f)' = Entered(f) /\ Entered(f) \in Nat
      BY <3>1, <1>i, EnteredNat DEF Entered, Known
    <3>3. BttCounted' /\ BttUnique'
      BY <3>1, <1>i DEF BttCounted, BttUnique
    <3>4. btt' \in [BSlots -> BEntries] /\ expired' \in [Frames -> Nat]
      BY <3>1, <1>i DEF Types
    <3> QED
      BY <3>2, <3>3, <3>4
  <2>2. CASE btt_cnt # 0
    <3>1. /\ btt' = [i \in BSlots |->
                       IF i \in gone THEN [btt[i] EXCEPT !.used = FALSE, !.frame = NoFrame]
                       ELSE IF btt[i].used THEN [btt[i] EXCEPT !.exp = @ - 1]
                       ELSE btt[i]]
          /\ btt_cnt' = (btt_cnt - Cardinality(gone)) % 256
          /\ expired' = [f \in Frames |-> expired[f] + Cardinality(of(f))]
      BY <2>2 DEF zb_nwk_btr_expiry
    <3>2. btt \in [BSlots -> BEntries] /\ expired \in [Frames -> Nat]
      BY <1>i DEF Types
    <3>3. \A i \in BSlots :
            /\ btt'[i] \in BEntries
            /\ btt'[i].used <=> (btt[i].used /\ i \notin gone)
            /\ i \notin gone => btt'[i].frame = btt[i].frame
      <4> SUFFICES ASSUME NEW i \in BSlots
                   PROVE  /\ btt'[i] \in BEntries
                          /\ btt'[i].used <=> (btt[i].used /\ i \notin gone)
                          /\ i \notin gone => btt'[i].frame = btt[i].frame
        OBVIOUS
      <4>1. btt[i] \in BEntries /\ btt[i].exp \in 0 .. DeliveryTime /\ btt[i].used \in BOOLEAN
        BY <3>2 DEF BEntries
      <4>2. CASE i \in gone
        <5>1. btt'[i] = [btt[i] EXCEPT !.used = FALSE, !.frame = NoFrame]
          BY <3>1, <4>2
        <5> QED
          BY <5>1, <4>1, <4>2 DEF BEntries
      <4>3. CASE i \notin gone /\ btt[i].used
        <5>1. btt'[i] = [btt[i] EXCEPT !.exp = btt[i].exp - 1]
          BY <3>1, <4>3
        <5>2. btt[i].exp - 1 \in 0 .. DeliveryTime
          <6>1. btt[i].exp # 0 /\ DeliveryTime \in Nat
            BY <4>3, BroadcastAssumption
          <6> QED
            BY <6>1, <4>1
        <5> QED
          BY <5>1, <5>2, <4>1, <4>3 DEF BEntries
      <4>4. CASE i \notin gone /\ ~btt[i].used
        <5>1. btt'[i] = btt[i]
          BY <3>1, <4>4
        <5> QED
          BY <5>1, <4>1, <4>4
      <4> QED
        BY <4>2, <4>3, <4>4
    <3>4. btt' \in [BSlots -> BEntries]
      <4>1. btt' = [i \in BSlots |-> btt'[i]]
        BY <3>1
      <4> QED
        BY ONLY <4>1, <3>3
    <3>5. expired' \in [Frames -> Nat] /\ \A f \in Frames : expired'[f] = expired[f] + Cardinality(of(f))
      <4> HIDE DEF of
      <4>1. \A f \in Frames : expired[f] \in Nat /\ Cardinality(of(f)) \in Nat
        BY <3>2, <1>4
      <4>2. \A f \in Frames : expired'[f] = expired[f] + Cardinality(of(f))
        BY <3>1
      <4>3. \A f \in Frames : expired[f] + Cardinality(of(f)) \in Nat
        BY <4>1
      <4>4. expired' \in [Frames -> Nat]
        BY <3>1, <4>3
      <4> QED
        BY <4>2, <4>4
    <3>6. BttCounted'
      <4>1. Used(btt)' = {i \in BSlots : btt'[i].used}
        BY <3>4 DEF Used
      <4>2. Used(btt)' = Used(btt) \ gone
        BY <4>1, <3>3, <1>i, CountsFit
      <4>3. Used(btt) \cap gone = gone /\ IsFiniteSet(Used(btt))
        BY <1>3, <1>i, CountsFit
      <4>4. Cardinality(Used(btt)') = Cardinality(Used(btt)) - Cardinality(gone)
        BY <4>2, <4>3, FS_Difference
      <4>5. IsFiniteSet(Used(btt)') /\ Cardinality(Used(btt)') \in Nat
        <5>1. IsFiniteSet(Used(btt) \ gone)
          BY <4>3, FS_Difference
        <5> QED
          BY <5>1, <4>2, FS_CardinalityType
      <4>6. Cardinality(Used(btt)) <= 255 /\ Cardinality(Used(btt)) \in Nat
        <5>1. Cardinality(Used(btt)) \in Byte
          BY <1>i, CountsFit
        <5> QED
          BY <5>1 DEF Byte
      <4>7. btt_cnt - Cardinality(gone) = Cardinality(Used(btt)')
        BY <4>4, <1>i DEF BttCounted
      <4>8. Cardinality(Used(btt)') % 256 = Cardinality(Used(btt)')
        BY <4>4, <4>5, <4>6, <1>3
      <4> QED
        BY <4>7, <4>8, <3>1 DEF BttCounted
    <3>7. BttUnique'
      BY <3>3, <1>i DEF BttUnique
    <3>8. \A f \in Frames : Entered(f)' >= Entered(f)
      <4> SUFFICES ASSUME NEW f \in Frames
                   PROVE  Entered(f)' >= Entered(f)
        OBVIOUS
      <4>1. Known(f) => (Known(f)' \/ of(f) # {})
        BY <3>3 DEF Known
      <4>2. /\ expired[f] \in Nat /\ Cardinality(of(f)) \in Nat
            /\ of(f) # {} => Cardinality(of(f)) >= 1
            /\ expired'[f] = expired[f] + Cardinality(of(f))
        BY <3>2, <3>5, <1>4
      <4> HIDE DEF of
      <4> QED
        BY <4>1, <4>2 DEF Entered
    <3> QED
      BY <3>4, <3>5, <3>6, <3>7, <3>8
  <2> QED
    BY <2>1, <2>2
<1>6. Types'
  BY <1>1, <1>5, <1>i DEF Types
<1>7. BrrtCounted' /\ Used(brrt)' = Used(brrt)
  BY <1>1, <1>2, <1>6, <1>i, CountKept
<1>8. Framed' /\ Waiting' /\ OwnOnce'
  BY <1>1, <1>i DEF Framed, Waiting, OwnOnce
<1>9. EntryBufs'
  BY <1>2, <1>6, <1>i, EntriesKept
<1>10. RetriesBounded'
  BY <1>1, <1>i DEF RetriesBounded, RetryOK
<1>11. Driven'
  BY <1>1, <1>7, <1>i DEF Driven
<1>12. GoesUp'
  BY <1>1, <1>2, <1>5, <1>6, <1>i, GoesUpKept
<1> QED
  BY <1>5, <1>6, <1>7, <1>8, <1>9, <1>10, <1>11, <1>12 DEF BroadcastInv

-----------------------------------------------------------------------------
(* The steps that give an entry a buffer or take it back.                   *)

\* An entry that ends gives its buffer back, and is not counted any more.
LEMMA EntryReleased ==
  ASSUME TablesFit, Types, Types', BrrtCounted, EntryBufs,
         NEW i \in Slots, brrt[i].used, ~brrt'[i].used,
         \A j \in Slots : j # i => brrt'[j].used = brrt[j].used /\ brrt'[j].buf = brrt[j].buf
                                   /\ brrt'[j].frame = brrt[j].frame,
         brrt_cnt' = (brrt_cnt - 1) % 256,
         buf'[brrt[i].buf].at # "brrt",
         \A c \in Bufs : c # brrt[i].buf =>
             /\ buf'[c].at = "brrt" <=> buf[c].at = "brrt"
             /\ buf[c].at = "brrt" => buf'[c].frame = buf[c].frame
  PROVE  EntryBufs' /\ BrrtCounted' /\ Used(brrt)' = Used(brrt) \ {i}
<1>1. \A j \in Slots : brrt'[j].used => j # i /\ brrt[j].used
  OBVIOUS
<1>2. \A j \in Slots : j # i /\ brrt[j].used => brrt[j].buf # brrt[i].buf /\ brrt[j].buf \in Bufs
  BY DEF EntryBufs
<1>3. \A j \in Slots : brrt'[j].used =>
        /\ brrt'[j].buf \in Bufs
        /\ buf'[brrt'[j].buf].at = "brrt" /\ buf'[brrt'[j].buf].frame = brrt'[j].frame
  BY <1>1, <1>2 DEF EntryBufs
<1>4. \A j, k \in Slots :
        brrt'[j].used /\ brrt'[k].used /\ brrt'[j].buf = brrt'[k].buf => j = k
  BY <1>1 DEF EntryBufs
<1>5. \A b \in Bufs : buf'[b].at = "brrt" => \E j \in Slots : brrt'[j].used /\ brrt'[j].buf = b
  <2> SUFFICES ASSUME NEW b \in Bufs, buf'[b].at = "brrt"
               PROVE  \E j \in Slots : brrt'[j].used /\ brrt'[j].buf = b
    OBVIOUS
  <2>1. b # brrt[i].buf /\ buf[b].at = "brrt"
    OBVIOUS
  <2>2. PICK j \in Slots : brrt[j].used /\ brrt[j].buf = b
    BY <2>1 DEF EntryBufs
  <2>3. j # i
    BY <2>1, <2>2
  <2> QED
    BY <2>2, <2>3
<1>6. Used(brrt)' = Used(brrt) \ {i} /\ i \in Used(brrt)
  <2>1. Used(brrt)' = {j \in Slots : brrt'[j].used}
    BY DEF Used, Types
  <2>2. Used(brrt) = {j \in Slots : brrt[j].used}
    BY CountsFit
  <2> QED
    BY <2>1, <2>2
<1>7. BrrtCounted'
  <2>1. IsFiniteSet(Used(brrt)) /\ Cardinality(Used(brrt)) \in 0 .. 255
    BY CountsFit DEF Byte
  <2>2. Cardinality(Used(brrt)') = Cardinality(Used(brrt)) - 1 /\ IsFiniteSet(Used(brrt)')
    BY <1>6, <2>1, FS_RemoveElement
  <2>3. Cardinality(Used(brrt)') \in Nat
    BY <2>2, FS_CardinalityType
  <2>4. brrt_cnt - 1 = Cardinality(Used(brrt)')
    BY <2>2 DEF BrrtCounted
  <2>5. Cardinality(Used(brrt)') % 256 = Cardinality(Used(brrt)')
    BY <2>1, <2>2, <2>3
  <2> QED
    BY <2>4, <2>5 DEF BrrtCounted
<1> QED
  BY <1>3, <1>4, <1>5, <1>6, <1>7 DEF EntryBufs

\* zb_nwk_forward() finds a free entry whenever the counter says that there is
\* one.
LEMMA FreeEntry ==
  ASSUME TablesFit, Types, BrrtCounted, brrt_cnt < ZB_NWK_BRR_TABLE_SIZE
  PROVE  \E j \in Slots : ~brrt[j].used
<1> SUFFICES ASSUME \A j \in Slots : brrt[j].used
             PROVE  FALSE
  OBVIOUS
<1>1. Used(brrt) = Slots
  BY CountsFit
<1>2. Cardinality(Used(brrt)) = ZB_NWK_BRR_TABLE_SIZE /\ ZB_NWK_BRR_TABLE_SIZE \in Nat
  BY <1>1, FiniteParts, BroadcastAssumption
<1> QED
  BY <1>2 DEF BrrtCounted

\* A forwarded broadcast enters btt, if it can, and then brrt.
LEMMA ForwardKeeps ==
  ASSUME TablesFit, BroadcastInv, NEW b \in Bufs, zb_nwk_forward(b)
  PROVE  BroadcastInv'
<1>i. Types /\ Framed /\ BrrtCounted /\ BttCounted /\ EntryBufs /\ RetriesBounded /\ Driven
      /\ BttUnique /\ Waiting /\ OwnOnce /\ GoesUp
  BY DEF BroadcastInv
<1>f. PICK f \in Frames : f = buf[b].frame
  BY <1>i DEF zb_nwk_forward, Framed
<1> DEFINE S == {j \in Slots : ~brrt[j].used}
<1> DEFINE i == Min(S)
<1> DEFINE e == [used |-> TRUE, buf |-> b, frame |-> f, retries |-> 0,
                 iter |-> NextChild(f, 0), ack |-> {}]
<1> DEFINE put == brrt_cnt < ZB_NWK_BRR_TABLE_SIZE /\ (Known(f) \/ ~BttFull)
<1>1. /\ buf[b].at = "fwd" /\ buf[b].frame = f
      /\ KeepBtt \/ (~Known(f) /\ AddBtt(f))
      /\ UNCHANGED <<wait_alloc, dup_req, stat_req, again, asked, confirmed, expired, indicated>>
  BY <1>f DEF zb_nwk_forward
<1>3. /\ btt' \in [BSlots -> BEntries] /\ btr_alarm' \in BOOLEAN /\ BttCounted' /\ BttUnique'
      /\ \A g \in Frames : Entered(g)' >= Entered(g)
  <2>1. \A g \in Frames : Entered(g) \in Nat
    BY <1>i, EnteredNat
  <2>2. CASE KeepBtt
    <3>1. BttCounted' /\ BttUnique' /\ \A g \in Frames : Entered(g)' = Entered(g)
      BY <2>2, <1>1, <1>i, BttKept
    <3>2. btt' \in [BSlots -> BEntries] /\ btr_alarm' \in BOOLEAN
      BY <2>2, <1>i DEF KeepBtt, Types
    <3> QED
      BY <3>1, <3>2, <2>1
  <2>3. CASE ~Known(f) /\ AddBtt(f)
    <3>1. /\ btt' \in [BSlots -> BEntries] /\ btr_alarm' \in BOOLEAN /\ BttCounted' /\ BttUnique'
          /\ Entered(f)' = Entered(f) + 1
          /\ \A g \in Frames : g # f => Entered(g)' = Entered(g)
      BY <2>3, <1>1, <1>i, AddBttEffect
    <3>2. ASSUME NEW g \in Frames
          PROVE  Entered(g)' >= Entered(g)
      <4>1. CASE g = f
        BY <4>1, <3>1, <2>1
      <4>2. CASE g # f
        BY <4>2, <3>1, <2>1
      <4> QED
        BY <4>1, <4>2
    <3> QED
      BY <3>1, <3>2
  <2> QED
    BY <2>2, <2>3, <1>1
<1>4. CASE ~put
  <2>1. /\ buf' = [buf EXCEPT ![b] = Free]
        /\ UNCHANGED <<brrt, brrt_cnt, tx_alarm, out_req>>
    BY <1>4, <1>f DEF zb_nwk_forward
  <2>2. /\ buf' \in [Bufs -> Buffers] /\ buf'[b].at = "free" /\ buf'[b].handle = "none"
        /\ \A c \in Bufs : c # b => buf'[c] = buf[c]
    BY <2>1, <1>i, Written, OneBuffer
  <2>3. Types'
    BY <2>1, <2>2, <1>1, <1>3, <1>i DEF Types
  <2>4. SameEntries /\ SameTableBufs /\ SameGoing /\ NoNewOwn
    BY <2>1, <2>2, <1>1 DEF SameEntries, SameTableBufs, SameGoing, NoNewOwn
  <2>5. BrrtCounted' /\ Used(brrt)' = Used(brrt)
    BY <2>1, <2>3, <2>4, <1>i, CountKept
  <2>6. Framed'
    BY <2>2, <1>i DEF Framed
  <2>7. EntryBufs'
    BY <2>3, <2>4, <1>i, EntriesKept
  <2>8. RetriesBounded'
    BY <2>1, <1>i DEF RetriesBounded, RetryOK
  <2>9. Driven'
    <3>1. \A c \in Bufs : buf[c].at = "xmit" => buf'[c].at = "xmit"
      BY <2>2, <1>1
    <3> QED
      BY <3>1, <2>1, <2>5, <1>1, <1>i DEF Driven
  <2>10. Waiting'
    <3>1. wait_alloc \in Seq(Bufs)
      BY <1>i DEF Types
    <3> QED
      BY <3>1, <2>2, <1>1, <1>i DEF Waiting
  <2>11. OwnOnce'
    BY <2>4, <1>1, <1>i, OwnKept
  <2>12. GoesUp'
    BY <2>3, <2>4, <1>1, <1>3, <1>i, GoesUpKept
  <2> QED
    BY <2>3, <2>5, <2>6, <2>7, <2>8, <2>9, <2>10, <2>11, <2>12, <1>3 DEF BroadcastInv
<1>5. CASE put
  <2>1. /\ buf' = [buf EXCEPT ![b].at = "brrt"]
        /\ brrt' = [brrt EXCEPT ![i] = e]
        /\ brrt_cnt' = (brrt_cnt + 1) % 256
        /\ tx_alarm' = FALSE
        /\ out_req' = out_req + 1
    BY <1>5, <1>f DEF zb_nwk_forward
  <2>2. i \in Slots /\ ~brrt[i].used
    <3>1. S # {} /\ S \subseteq Nat
      BY <1>5, <1>i, FreeEntry, FiniteParts
    <3>2. i \in S
      BY <3>1, LeastOf
    <3> QED
      BY <3>2
  <2> HIDE DEF i
  <2>3. e \in Entries /\ e.used = TRUE /\ e.buf = b /\ e.frame = f /\ e.retries = 0
    <3>1. NextChild(f, 0) \in Nbrs \cup {0}
      BY <1>1, ChildFound
    <3>2. 0 \in Retries
      BY BroadcastAssumption DEF Retries
    <3> QED
      BY <3>1, <3>2, <1>1 DEF Entries
  <2> HIDE DEF e
  <2>4. /\ buf' \in [Bufs -> Buffers] /\ buf'[b].at = "brrt"
        /\ buf'[b].frame = f /\ buf'[b].handle = buf[b].handle
        /\ \A c \in Bufs : c # b => buf'[c] = buf[c]
    <3>1. "brrt" \in Places
      BY DEF Places
    <3> QED
      BY <3>1, <2>1, <1>1, <1>i, OneMoves
  <2>5. /\ brrt' \in [Slots -> Entries] /\ brrt'[i] = e
        /\ \A j \in Slots : j # i => brrt'[j] = brrt[j]
    BY <2>1, <2>2, <2>3, <1>i DEF Types
  <2>6. out_req' \in Nat /\ out_req' > 0
    BY <2>1, <1>i DEF Types
  <2>7. Types'
    BY <2>1, <2>4, <2>5, <2>6, <1>1, <1>3, <1>i DEF Types
  <2>8. SameGoing /\ NoNewOwn
    BY <2>4, <1>1 DEF SameGoing, NoNewOwn
  <2>9. BrrtCounted'
    <3>1. Used(brrt)' = {j \in Slots : brrt'[j].used}
      BY <2>5 DEF Used
    <3>2. Used(brrt)' = Used(brrt) \cup {i} /\ i \notin Used(brrt)
      BY <3>1, <2>2, <2>3, <2>5, <1>i, CountsFit
    <3>3. IsFiniteSet(Used(brrt)) /\ Cardinality(Used(brrt)) \in Nat
      BY <1>i, CountsFit, FS_CardinalityType
    <3>4. Cardinality(Used(brrt)') = Cardinality(Used(brrt)) + 1
      BY <3>2, <3>3, FS_AddElement
    <3>5. brrt_cnt = Cardinality(Used(brrt)) /\ brrt_cnt < 255
      BY <1>5, <1>i, <3>3, BroadcastAssumption DEF BrrtCounted, TablesFit
    <3>6. (brrt_cnt + 1) % 256 = brrt_cnt + 1
      BY <3>3, <3>5
    <3> QED
      BY <3>4, <3>5, <3>6, <2>1 DEF BrrtCounted
  <2>10. Framed'
    BY <2>4, <1>1, <1>i DEF Framed
  <2>11. EntryBufs'
    <3>1. \A j \in Slots : brrt[j].used => brrt[j].buf # b /\ brrt[j].buf \in Bufs
      BY <1>1, <1>i DEF EntryBufs
    <3>2. \A j \in Slots : brrt'[j].used =>
            /\ brrt'[j].buf \in Bufs
            /\ buf'[brrt'[j].buf].at = "brrt" /\ buf'[brrt'[j].buf].frame = brrt'[j].frame
      BY <3>1, <2>3, <2>4, <2>5, <1>i DEF EntryBufs
    <3>3. \A j, k \in Slots :
            brrt'[j].used /\ brrt'[k].used /\ brrt'[j].buf = brrt'[k].buf => j = k
      BY <3>1, <2>3, <2>5, <1>i DEF EntryBufs
    <3>4. \A c \in Bufs : buf'[c].at = "brrt" => \E j \in Slots : brrt'[j].used /\ brrt'[j].buf = c
      <4> SUFFICES ASSUME NEW c \in Bufs, buf'[c].at = "brrt"
                   PROVE  \E j \in Slots : brrt'[j].used /\ brrt'[j].buf = c
        OBVIOUS
      <4>1. CASE c = b
        BY <4>1, <2>2, <2>3, <2>5
      <4>2. CASE c # b
        <5>1. PICK j \in Slots : brrt[j].used /\ brrt[j].buf = c
          BY <4>2, <2>4, <1>i DEF EntryBufs
        <5> QED
          BY <5>1, <2>2, <2>5
      <4> QED
        BY <4>1, <4>2
    <3> QED
      BY <3>2, <3>3, <3>4 DEF EntryBufs
  <2>12. RetriesBounded'
    BY <2>3, <2>5, <1>i DEF RetriesBounded, RetryOK
  <2>13. Driven'
    BY <2>6 DEF Driven
  <2>14. Waiting'
    <3>1. wait_alloc \in Seq(Bufs)
      BY <1>i DEF Types
    <3> QED
      BY <3>1, <2>4, <1>1, <1>i DEF Waiting
  <2>15. OwnOnce'
    BY <2>8, <1>1, <1>i, OwnKept
  <2>16. GoesUp'
    BY <2>7, <2>8, <1>1, <1>3, <1>i, GoesUpKept
  <2> QED
    BY <2>7, <2>9, <2>10, <2>11, <2>12, <2>13, <2>14, <2>15, <2>16, <1>3 DEF BroadcastInv
<1> QED
  BY <1>4, <1>5

\* nwk_broadcast_transmition() with a buffer: a copy is sent, or the original
\* with the last transmission, which ends the entry.
LEMMA TransmitKeeps ==
  ASSUME TablesFit, BroadcastInv, NEW b \in Bufs, NEW i \in Slots \cup {0}, TransmitBuf(b, i)
  PROVE  BroadcastInv'
<1> DEFINE e == Advance(SkipOriginators[i])
<1>i. Types /\ Framed /\ BrrtCounted /\ BttCounted /\ EntryBufs /\ RetriesBounded /\ Driven
      /\ BttUnique /\ Waiting /\ OwnOnce /\ GoesUp
  BY DEF BroadcastInv
<1>1. /\ buf[b].at = "xmit" /\ i \in Candidates
      /\ UNCHANGED <<btt, btt_cnt, wait_alloc, out_req, dup_req, stat_req, btr_alarm,
                     asked, confirmed, expired, indicated>>
  BY DEF TransmitBuf
<1>2. \/ /\ i = 0
         /\ buf' = [buf EXCEPT ![b] = Free]
         /\ brrt' = SkipOriginators
         /\ tx_alarm' = (tx_alarm \/ brrt_cnt # 0)
         /\ brrt_cnt' = brrt_cnt /\ again' = again
      \/ /\ i # 0 /\ Last(e)
         /\ buf' = [buf EXCEPT ![b] = Free, ![e.buf].at = "mac"]
         /\ brrt' = [SkipOriginators EXCEPT ![i] = Released(e)]
         /\ brrt_cnt' = (brrt_cnt - 1) % 256
      \/ /\ i # 0 /\ ~Last(e)
         /\ buf' = [buf EXCEPT ![b] = Copy(e)]
         /\ brrt' = [SkipOriginators EXCEPT ![i] = e]
         /\ brrt_cnt' = brrt_cnt
  BY DEF TransmitBuf
<1>3. i # 0 => again' = again + (IF brrt_cnt' # 0 THEN 1 ELSE 0) /\ tx_alarm' = tx_alarm
  BY DEF TransmitBuf
<1>4. /\ SkipOriginators \in [Slots -> Entries]
      /\ \A j \in Slots : /\ SkipOriginators[j].used = brrt[j].used
                          /\ SkipOriginators[j].buf = brrt[j].buf
                          /\ SkipOriginators[j].frame = brrt[j].frame
                          /\ brrt[j].used => RetryOK(SkipOriginators[j])
  BY <1>i, SkipKeeps
<1>5. again \in Nat /\ out_req \in Nat /\ tx_alarm \in BOOLEAN /\ brrt_cnt \in Nat
  <2>1. brrt_cnt \in Nat
    BY <1>i, CountsFit, FS_CardinalityType DEF BrrtCounted
  <2> QED
    BY <2>1, <1>i DEF Types
<1>6. BttCounted' /\ BttUnique' /\ \A g \in Frames : Entered(g)' = Entered(g) /\ Entered(g) \in Nat
  BY <1>1, <1>i, BttKept, EnteredNat DEF KeepBtt
\* What only the places of the buffers decide.
<1>7. ASSUME Types',
             \A c \in Bufs :
               \/ buf'[c] = buf[c]
               \/ /\ buf[c].at \in {"xmit", "brrt"} /\ buf'[c].at \in {"free", "mac"}
                  /\ buf'[c].handle = "own" =>
                       buf[c].handle = "own" /\ buf'[c].frame = buf[c].frame
                  /\ buf'[c].at = "mac" => buf'[c].frame \in Frames
      PROVE  Framed' /\ Waiting' /\ OwnOnce' /\ GoesUp'
  <2>1. SameGoing
    BY <1>7 DEF SameGoing
  <2>2. NoNewOwn
    BY <1>7 DEF NoNewOwn
  <2>3. GoesUp'
    BY <2>1, <1>1, <1>6, <1>7, <1>i, GoesUpKept
  <2>4. OwnOnce'
    BY <2>2, <1>1, <1>i, OwnKept
  <2>5. Framed'
    BY <1>7, <1>i DEF Framed
  <2>6. Waiting'
    <3>1. wait_alloc \in Seq(Bufs)
      BY <1>i DEF Types
    <3> QED
      BY <3>1, <1>1, <1>7, <1>i DEF Waiting
  <2> QED
    BY <2>3, <2>4, <2>5, <2>6
<1>8. CASE i = 0
  <2>1. /\ buf' = [buf EXCEPT ![b] = Free]
        /\ brrt' = SkipOriginators
        /\ tx_alarm' = (tx_alarm \/ brrt_cnt # 0)
        /\ brrt_cnt' = brrt_cnt /\ again' = again
    BY <1>2, <1>8
  <2>2. /\ buf' \in [Bufs -> Buffers] /\ buf'[b].at = "free" /\ buf'[b].handle = "none"
        /\ \A c \in Bufs : c # b => buf'[c] = buf[c]
    BY <2>1, <1>i, Written, OneBuffer
  <2>3. tx_alarm' \in BOOLEAN
    BY <2>1
  <2>4. Types'
    BY <2>1, <2>2, <2>3, <1>1, <1>4, <1>i DEF Types
  <2>5. Framed' /\ Waiting' /\ OwnOnce' /\ GoesUp'
    BY <2>2, <2>4, <1>1, <1>7
  <2>6. SameEntries
    BY <2>1, <1>4 DEF SameEntries
  <2>7. BrrtCounted' /\ Used(brrt)' = Used(brrt)
    BY <2>1, <2>4, <2>6, <1>i, CountKept
  <2>8. EntryBufs'
    <3>1. SameTableBufs
      BY <2>2, <1>1 DEF SameTableBufs
    <3> QED
      BY <3>1, <2>4, <2>6, <1>i, EntriesKept
  <2>9. RetriesBounded'
    BY <2>1, <1>4 DEF RetriesBounded, RetryOK
  <2>10. Driven'
    <3>1. CASE Used(brrt) = {}
      BY <3>1, <2>7 DEF Driven
    <3>2. CASE Used(brrt) # {}
      <4>1. brrt_cnt # 0
        BY <3>2, <1>i, CountsFit, FS_EmptySet DEF BrrtCounted
      <4>2. tx_alarm'
        BY <4>1, <2>1
      <4> QED
        BY <4>2 DEF Driven
    <3> QED
      BY <3>1, <3>2
  <2> QED
    BY <2>4, <2>5, <2>7, <2>8, <2>9, <2>10, <1>6 DEF BroadcastInv
<1>9. CASE i # 0
  <2>1. i \in Slots /\ brrt[i].used = TRUE
    BY <1>1, <1>9, <1>i, Chosen
  <2>2. /\ e \in Entries
        /\ e.used = TRUE /\ e.buf = brrt[i].buf /\ e.frame = brrt[i].frame
        /\ Last(e) \/ RetryOK(e)
    BY <1>1, <1>9, <1>i, AdvanceEffect
  <2>3. /\ e.frame \in Frames /\ e.buf \in Bufs /\ buf[e.buf].at = "brrt" /\ e.buf # b
        /\ buf[e.buf].frame = e.frame
    BY <2>1, <2>2, <1>1, <1>i, EntryFramed
  <2> HIDE DEF e
  <2>4. again' = again + (IF brrt_cnt' # 0 THEN 1 ELSE 0) /\ tx_alarm' = tx_alarm
    BY <1>3, <1>9
  <2>5. again' \in Nat /\ (brrt_cnt' # 0 => again' > 0)
    BY <2>4, <1>5
  \* The entries that are left drive the table.
  <2>6. ASSUME Types', BrrtCounted'
        PROVE  Driven'
    <3>1. Used(brrt)' \subseteq Slots
      BY <2>6 DEF Used, Types
    <3>2. IsFiniteSet(Used(brrt)')
      BY <3>1, FiniteParts, FS_Subset
    <3>3. Used(brrt)' # {} => brrt_cnt' # 0
      BY <3>2, <2>6, FS_EmptySet DEF BrrtCounted
    <3> QED
      BY <3>3, <2>5 DEF Driven
  <2>7. CASE Last(e)
    <3> DEFINE r == Released(e)
    <3>1. /\ buf' = [buf EXCEPT ![b] = Free, ![e.buf].at = "mac"]
          /\ brrt' = [SkipOriginators EXCEPT ![i] = r]
          /\ brrt_cnt' = (brrt_cnt - 1) % 256
      BY <2>7, <1>2, <1>9
    <3>2. r \in Entries /\ r.used = FALSE
      BY <2>2 DEF Released, Entries
    <3> HIDE DEF r
    <3>3. /\ brrt' \in [Slots -> Entries] /\ brrt'[i] = r
          /\ \A j \in Slots : j # i => brrt'[j] = SkipOriginators[j]
      BY <3>1, <3>2, <2>1, <1>4
    <3>4. /\ buf' \in [Bufs -> Buffers]
          /\ buf'[b].at = "free" /\ buf'[b].handle = "none"
          /\ buf'[e.buf].at = "mac" /\ buf'[e.buf].frame = buf[e.buf].frame
          /\ buf'[e.buf].handle = buf[e.buf].handle
          /\ \A c \in Bufs : c # b /\ c # e.buf => buf'[c] = buf[c]
      <4> DEFINE v == [buf[e.buf] EXCEPT !.at = "mac"]
      <4>1. buf \in [Bufs -> Buffers] /\ buf[e.buf] \in Buffers
        BY <2>3, <1>i DEF Types
      <4>2. v \in Buffers /\ v.at = "mac" /\ v.frame = buf[e.buf].frame
            /\ v.handle = buf[e.buf].handle
        BY <4>1 DEF Buffers, Places
      <4>3. buf' = [buf EXCEPT ![b] = Free, ![e.buf] = v]
        BY <3>1, <2>3, <4>1
      <4> HIDE DEF v
      <4> QED
        BY <4>1, <4>2, <4>3, <2>3, Written
    <3>5. Types'
      BY <3>3, <3>4, <2>4, <2>5, <1>1, <1>i DEF Types
    <3>6. Framed' /\ Waiting' /\ OwnOnce' /\ GoesUp'
      <4>1. \A c \in Bufs :
               \/ buf'[c] = buf[c]
               \/ /\ buf[c].at \in {"xmit", "brrt"} /\ buf'[c].at \in {"free", "mac"}
                  /\ buf'[c].handle = "own" =>
                       buf[c].handle = "own" /\ buf'[c].frame = buf[c].frame
                  /\ buf'[c].at = "mac" => buf'[c].frame \in Frames
        BY <3>4, <2>3, <1>1
      <4> QED
        BY <4>1, <3>5, <1>7
    <3>7. \A j \in Slots : j # i => brrt'[j].used = brrt[j].used /\ brrt'[j].buf = brrt[j].buf
                                     /\ brrt'[j].frame = brrt[j].frame
      BY <3>3, <1>4
    <3>8. EntryBufs' /\ BrrtCounted'
      <4>1. /\ buf'[brrt[i].buf].at # "brrt"
            /\ \A c \in Bufs : c # brrt[i].buf =>
                 /\ buf'[c].at = "brrt" <=> buf[c].at = "brrt"
                 /\ buf[c].at = "brrt" => buf'[c].frame = buf[c].frame
        BY <3>4, <2>2, <1>1
      <4>2. brrt[i].used /\ ~brrt'[i].used
        BY <3>2, <3>3, <2>1
      <4> QED
        BY <4>1, <4>2, <3>1, <3>5, <3>7, <2>1, <1>i, EntryReleased
    <3>9. RetriesBounded'
      <4>1. \A j \in Slots : brrt'[j].used => RetryOK(brrt'[j])
        BY <3>2, <3>3, <1>4
      <4> QED
        BY <4>1 DEF RetriesBounded, RetryOK
    <3> QED
      BY <3>5, <3>6, <3>8, <3>9, <2>6, <1>6 DEF BroadcastInv
  <2>8. CASE ~Last(e)
    <3> DEFINE v == Copy(e)
    <3>1. /\ buf' = [buf EXCEPT ![b] = v]
          /\ brrt' = [SkipOriginators EXCEPT ![i] = e]
          /\ brrt_cnt' = brrt_cnt
      BY <2>8, <1>2, <1>9
    <3>2. v \in Buffers /\ v.at = "mac" /\ v.frame = e.frame /\ v.handle = "internal"
      BY <2>3, Written DEF Copy, Places
    <3> HIDE DEF v
    <3>3. /\ brrt' \in [Slots -> Entries] /\ brrt'[i] = e
          /\ \A j \in Slots : j # i => brrt'[j] = SkipOriginators[j]
      BY <3>1, <2>1, <2>2, <1>4
    <3>4. /\ buf' \in [Bufs -> Buffers] /\ buf'[b] = v
          /\ \A c \in Bufs : c # b => buf'[c] = buf[c]
      BY <3>1, <3>2, <1>i, OneBuffer
    <3>5. Types'
      BY <3>3, <3>4, <2>4, <2>5, <1>1, <1>i DEF Types
    <3>6. Framed' /\ Waiting' /\ OwnOnce' /\ GoesUp'
      <4>1. \A c \in Bufs :
               \/ buf'[c] = buf[c]
               \/ /\ buf[c].at \in {"xmit", "brrt"} /\ buf'[c].at \in {"free", "mac"}
                  /\ buf'[c].handle = "own" =>
                       buf[c].handle = "own" /\ buf'[c].frame = buf[c].frame
                  /\ buf'[c].at = "mac" => buf'[c].frame \in Frames
        BY <3>2, <3>4, <2>3, <1>1
      <4> QED
        BY <4>1, <3>5, <1>7
    <3>7. SameEntries
      BY <3>3, <2>1, <2>2, <1>4 DEF SameEntries
    <3>8. BrrtCounted'
      BY <3>1, <3>5, <3>7, <1>i, CountKept
    <3>9. EntryBufs'
      <4>1. SameTableBufs
        BY <3>2, <3>4, <1>1 DEF SameTableBufs
      <4> QED
        BY <4>1, <3>5, <3>7, <1>i, EntriesKept
    <3>10. RetriesBounded'
      <4>1. RetryOK(e)
        BY <2>2, <2>8
      <4>2. \A j \in Slots : brrt'[j].used => RetryOK(brrt'[j])
        BY <4>1, <3>3, <3>7, <1>4 DEF SameEntries
      <4> QED
        BY <4>2 DEF RetriesBounded, RetryOK
    <3> QED
      BY <3>5, <3>6, <3>8, <3>9, <3>10, <2>6, <1>6 DEF BroadcastInv
  <2> QED
    BY <2>7, <2>8
<1> QED
  BY <1>8, <1>9

\* A passive ACK is noted in the entry of its frame, or ends it.
LEMMA PassiveAckEffect ==
  ASSUME Types, Framed, EntryBufs, RetriesBounded, NEW f \in Frames, NEW n \in Routers \cup {0}
  PROVE  LET p == PassiveAck(f, n)
         IN  \/ /\ p.done = 0 /\ p.cnt = brrt_cnt /\ p.tbl \in [Slots -> Entries]
                /\ \A j \in Slots :
                     /\ p.tbl[j].used = brrt[j].used /\ p.tbl[j].buf = brrt[j].buf
                     /\ p.tbl[j].frame = brrt[j].frame
                     /\ brrt[j].used => RetryOK(p.tbl[j])
             \/ \E i \in Slots :
                  /\ brrt[i].used /\ p.done = brrt[i].buf
                  /\ p.cnt = (brrt_cnt - 1) % 256 /\ p.tbl \in [Slots -> Entries]
                  /\ ~p.tbl[i].used
                  /\ \A j \in Slots : j # i => p.tbl[j] = brrt[j]
<1> DEFINE S == {j \in Slots : brrt[j].used /\ brrt[j].frame = f}
<1> DEFINE i == Min(S)
<1> DEFINE o == brrt[i]
<1> DEFINE e == SetAck(o, n)
<1> DEFINE p == PassiveAck(f, n)
<1>1. brrt \in [Slots -> Entries]
  BY DEF Types
<1>2. CASE S = {} \/ n = 0
  <2>1. p = [tbl |-> brrt, cnt |-> brrt_cnt, done |-> 0]
    BY <1>2 DEF PassiveAck
  <2> QED
    BY <2>1, <1>1 DEF RetriesBounded
<1>3. CASE ~(S = {} \/ n = 0)
  <2>1. i \in Slots /\ brrt[i].used
    <3>1. S \subseteq Nat /\ S # {}
      BY <1>3, FiniteParts
    <3>2. i \in S
      BY <3>1, LeastOf
    <3> QED
      BY <3>2
  <2>2. p = IF Acked(e)
            THEN [tbl |-> [brrt EXCEPT ![i] = Released(e)],
                  cnt |-> (brrt_cnt - 1) % 256, done |-> e.buf]
            ELSE [tbl |-> [brrt EXCEPT ![i] = e], cnt |-> brrt_cnt, done |-> 0]
    BY <1>3 DEF PassiveAck
  <2> HIDE DEF i, p
  <2>3. o \in Entries /\ RetryOK(o)
    BY <2>1, <1>1 DEF RetriesBounded
  <2>4. /\ e \in Entries /\ e.used = o.used /\ e.buf = o.buf /\ e.frame = o.frame
        /\ e.retries = o.retries /\ e.iter = o.iter
    <3> DEFINE a == o.ack \cup ({n} \cap 1 .. AckBits)
    <3>1. n \in Nbrs
      BY <1>3, BroadcastAssumption
    <3>2. a \subseteq Nbrs
      BY <3>1, <2>3 DEF Entries
    <3>3. e = [o EXCEPT !.ack = a]
      BY DEF SetAck
    <3> HIDE DEF a, e, o
    <3>4. [o EXCEPT !.ack = a] \in Entries
      BY <2>3, <3>2 DEF Entries
    <3>5. DOMAIN o = {"used", "buf", "frame", "retries", "iter", "ack"}
      BY <2>3 DEF Entries
    <3> QED
      BY <3>3, <3>4, <3>5
  <2> HIDE DEF e
  <2>5. CASE Acked(e)
    <3> DEFINE r == Released(e)
    <3>1. r \in Entries /\ r.used = FALSE
      BY <2>4 DEF Released, Entries
    <3> HIDE DEF r
    <3>2. /\ p.tbl = [brrt EXCEPT ![i] = r]
          /\ p.cnt = (brrt_cnt - 1) % 256 /\ p.done = brrt[i].buf
      BY <2>2, <2>4, <2>5 DEF r
    <3>3. /\ p.tbl \in [Slots -> Entries] /\ ~p.tbl[i].used
          /\ \A j \in Slots : j # i => p.tbl[j] = brrt[j]
      BY <3>1, <3>2, <2>1, <1>1
    <3> QED
      BY <3>2, <3>3, <2>1 DEF p
  <2>6. CASE ~Acked(e)
    <3>1. p.tbl = [brrt EXCEPT ![i] = e] /\ p.cnt = brrt_cnt /\ p.done = 0
      BY <2>2, <2>6
    <3>2. /\ p.tbl \in [Slots -> Entries] /\ p.tbl[i] = e
          /\ \A j \in Slots : j # i => p.tbl[j] = brrt[j]
      BY <3>1, <2>1, <2>4, <1>1
    <3>3. RetryOK(e)
      BY <2>3, <2>4 DEF RetryOK
    <3>4. \A j \in Slots :
            /\ p.tbl[j].used = brrt[j].used /\ p.tbl[j].buf = brrt[j].buf
            /\ p.tbl[j].frame = brrt[j].frame
            /\ brrt[j].used => RetryOK(p.tbl[j])
      BY <3>2, <3>3, <2>4 DEF RetriesBounded
    <3> QED
      BY <3>1, <3>2, <3>4 DEF p
  <2> QED
    BY <2>5, <2>6
<1> QED
  BY <1>2, <1>3

\* A received broadcast: the passive ACK, and a frame that is not in btt waits
\* for its copy or goes up.
LEMMA ReceptionKeeps ==
  ASSUME TablesFit, BroadcastInv, NEW b \in InBufs, NEW f \in Frames, NEW n \in Routers \cup {0},
         NEW ok \in BOOLEAN, NEW relay \in BOOLEAN,
         zb_mcps_data_indication(b, f, n, ok, relay)
  PROVE  BroadcastInv'
<1>i. Types /\ Framed /\ BrrtCounted /\ BttCounted /\ EntryBufs /\ RetriesBounded /\ Driven
      /\ BttUnique /\ Waiting /\ OwnOnce /\ GoesUp
  BY DEF BroadcastInv
<1>p. PICK p : p = PassiveAck(f, n)
  OBVIOUS
<1> DEFINE bufs == [c \in Bufs |-> IF c = p.done THEN [buf[c] EXCEPT !.at = "brconf"] ELSE buf[c]]
<1>1. /\ b \in Bufs /\ buf[b].at = "free"
      /\ f \in Own => Known(f) \/ expired[f] > 0
      /\ brrt' = p.tbl /\ brrt_cnt' = p.cnt
      /\ UNCHANGED <<out_req, stat_req, again, tx_alarm, asked, confirmed, expired, indicated>>
  BY <1>p DEF zb_mcps_data_indication, FirstFree, Bufs, Aired
<1>2. \/ /\ buf' = bufs
         /\ KeepBtt /\ UNCHANGED <<wait_alloc, dup_req>>
      \/ ~Known(f) /\ AddBtt(f) /\ Accept(bufs, b, f, ok, relay)
  BY <1>p DEF zb_mcps_data_indication
<1>3. \/ /\ p.done = 0 /\ p.cnt = brrt_cnt /\ p.tbl \in [Slots -> Entries]
         /\ \A j \in Slots :
              /\ p.tbl[j].used = brrt[j].used /\ p.tbl[j].buf = brrt[j].buf
              /\ p.tbl[j].frame = brrt[j].frame
              /\ brrt[j].used => RetryOK(p.tbl[j])
      \/ \E i \in Slots :
           /\ brrt[i].used /\ p.done = brrt[i].buf
           /\ p.cnt = (brrt_cnt - 1) % 256 /\ p.tbl \in [Slots -> Entries]
           /\ ~p.tbl[i].used
           /\ \A j \in Slots : j # i => p.tbl[j] = brrt[j]
  BY <1>p, <1>i, PassiveAckEffect
<1>4. p.done = 0 \/ (p.done \in Bufs /\ buf[p.done].at = "brrt")
  BY <1>3, <1>i DEF EntryBufs
<1>5. b # p.done
  <2>1. 0 \notin Bufs
    BY BroadcastAssumption DEF Bufs
  <2> QED
    BY <2>1, <1>1, <1>4
<1>6. /\ bufs \in [Bufs -> Buffers] /\ bufs[b] = buf[b]
      /\ \A c \in Bufs : c # p.done => bufs[c] = buf[c]
      /\ p.done \in Bufs => /\ bufs[p.done].at = "brconf"
                            /\ bufs[p.done].frame = buf[p.done].frame
                            /\ bufs[p.done].handle = buf[p.done].handle
  <2>1. \A c \in Bufs : buf[c] \in Buffers
    BY <1>i DEF Types
  <2>2. \A c \in Bufs : [buf[c] EXCEPT !.at = "brconf"] \in Buffers
                        /\ [buf[c] EXCEPT !.at = "brconf"].at = "brconf"
                        /\ [buf[c] EXCEPT !.at = "brconf"].frame = buf[c].frame
                        /\ [buf[c] EXCEPT !.at = "brconf"].handle = buf[c].handle
    BY <2>1 DEF Buffers, Places
  <2> QED
    BY <2>1, <2>2, <1>1, <1>5
<1> HIDE DEF bufs
\* What becomes of the buffer of the frame.
<1>7. /\ buf' \in [Bufs -> Buffers]
      /\ \A c \in Bufs : c # b => buf'[c] = bufs[c]
      /\ \/ /\ buf'[b].at = "free" /\ UNCHANGED <<wait_alloc, dup_req>>
            /\ buf'[b] = buf[b] \/ buf'[b].handle = "none"
            /\ KeepBtt \/ (~Known(f) /\ AddBtt(f))
         \/ /\ buf'[b].at = "wait" /\ buf'[b].frame = f /\ buf'[b].handle = "none"
            /\ wait_alloc' = Append(wait_alloc, b) /\ dup_req' = dup_req + 1
            /\ ~Known(f) /\ AddBtt(f)
         \/ /\ buf'[b].at = "ind" /\ buf'[b].frame = f /\ buf'[b].handle = "none"
            /\ UNCHANGED <<wait_alloc, dup_req>>
            /\ ~Known(f) /\ AddBtt(f)
  <2>1. CASE buf' = bufs /\ KeepBtt /\ UNCHANGED <<wait_alloc, dup_req>>
    BY <2>1, <1>1, <1>6
  <2>2. CASE ~Known(f) /\ AddBtt(f) /\ Accept(bufs, b, f, ok, relay)
    <3> DEFINE v == At("wait", f, "none")
    <3> DEFINE u == At("ind", f, "none")
    <3>1. /\ v \in Buffers /\ v.at = "wait" /\ v.frame = f /\ v.handle = "none"
          /\ u \in Buffers /\ u.at = "ind" /\ u.frame = f /\ u.handle = "none"
          /\ Free \in Buffers /\ Free.at = "free" /\ Free.handle = "none"
      BY Written DEF Places
    <3>2. \/ buf' = [bufs EXCEPT ![b] = Free] /\ UNCHANGED <<wait_alloc, dup_req>>
          \/ buf' = [bufs EXCEPT ![b] = v] /\ wait_alloc' = Append(wait_alloc, b)
             /\ dup_req' = dup_req + 1
          \/ buf' = [bufs EXCEPT ![b] = u] /\ UNCHANGED <<wait_alloc, dup_req>>
      BY <2>2 DEF Accept
    <3> HIDE DEF u, v
    <3>3. PICK w \in {Free, v, u} : buf' = [bufs EXCEPT ![b] = w]
      BY <3>2
    <3>4. /\ buf' \in [Bufs -> Buffers] /\ \A c \in Bufs : c # b => buf'[c] = bufs[c]
      BY <3>1, <3>3, <1>1, <1>6
    <3>5. /\ buf' = [bufs EXCEPT ![b] = Free] => buf'[b] = Free
          /\ buf' = [bufs EXCEPT ![b] = v] => buf'[b] = v
          /\ buf' = [bufs EXCEPT ![b] = u] => buf'[b] = u
      BY <1>1, <1>6
    <3> QED
      BY <3>1, <3>2, <3>4, <3>5, <2>2
  <2> QED
    BY <2>1, <2>2, <1>2
<1> HIDE DEF bufs
<1>8. \A c \in Bufs : c # b => \/ c # p.done /\ buf'[c] = buf[c]
                               \/ /\ c = p.done /\ buf'[c].at = "brconf" /\ buf[c].at = "brrt"
                                  /\ buf'[c].frame = buf[c].frame /\ buf'[c].handle = buf[c].handle
  <2>1. 0 \notin Bufs
    BY BroadcastAssumption DEF Bufs
  <2> QED
    BY <2>1, <1>4, <1>6, <1>7
<1>9. /\ buf'[b] = buf[b] \/ buf'[b].handle = "none"
      /\ buf'[b].at \in {"free", "wait", "ind"}
      /\ buf'[b].at # "free" => buf'[b].frame = f
  BY <1>7
<1>10. /\ btt' \in [BSlots -> BEntries] /\ btr_alarm' \in BOOLEAN /\ BttCounted' /\ BttUnique'
  <2>1. CASE KeepBtt
    BY <2>1, <1>1, <1>i, BttKept DEF KeepBtt, Types
  <2>2. CASE ~Known(f) /\ AddBtt(f)
    BY <2>2, <1>1, <1>i, AddBttEffect
  <2> QED
    BY <2>1, <2>2, <1>2
<1>11. wait_alloc \in Seq(Bufs) /\ wait_alloc' \in Seq(Bufs) /\ dup_req' \in Nat
  <2>1. wait_alloc \in Seq(Bufs) /\ dup_req \in Nat
    BY <1>i DEF Types
  <2>2. Append(wait_alloc, b) \in Seq(Bufs)
    BY <2>1, <1>1, AppendProperties
  <2>3. wait_alloc' = wait_alloc \/ wait_alloc' = Append(wait_alloc, b)
    BY <1>7
  <2>4. dup_req' = dup_req \/ dup_req' = dup_req + 1
    BY <1>7
  <2> QED
    BY <2>1, <2>2, <2>3, <2>4
<1>12. Types'
  <2>1. brrt' \in [Slots -> Entries] /\ buf' \in [Bufs -> Buffers]
    BY <1>1, <1>3, <1>7
  <2> QED
    BY <2>1, <1>1, <1>10, <1>11, <1>i DEF Types
<1>13. Framed'
  BY <1>8, <1>9, <1>i DEF Framed
<1>14. EntryBufs' /\ BrrtCounted' /\ RetriesBounded' /\ Used(brrt)' \subseteq Used(brrt)
  <2>1. CASE /\ p.done = 0 /\ p.cnt = brrt_cnt
             /\ \A j \in Slots :
                  /\ p.tbl[j].used = brrt[j].used /\ p.tbl[j].buf = brrt[j].buf
                  /\ p.tbl[j].frame = brrt[j].frame
                  /\ brrt[j].used => RetryOK(p.tbl[j])
    <3>1. SameEntries
      BY <2>1, <1>1 DEF SameEntries
    <3>2. SameTableBufs
      <4>1. 0 \notin Bufs
        BY BroadcastAssumption DEF Bufs
      <4> QED
        BY <4>1, <2>1, <1>1, <1>8, <1>9 DEF SameTableBufs
    <3>3. EntryBufs'
      BY <3>1, <3>2, <1>12, <1>i, EntriesKept
    <3>4. BrrtCounted' /\ Used(brrt)' = Used(brrt)
      BY <3>1, <2>1, <1>1, <1>12, <1>i, CountKept
    <3>5. RetriesBounded'
      <4>1. \A j \in Slots : brrt'[j].used => RetryOK(brrt'[j])
        BY <2>1, <1>1
      <4> QED
        BY <4>1 DEF RetriesBounded, RetryOK
    <3> QED
      BY <3>3, <3>4, <3>5
  <2>2. CASE \E i \in Slots :
               /\ brrt[i].used /\ p.done = brrt[i].buf
               /\ p.cnt = (brrt_cnt - 1) % 256
               /\ ~p.tbl[i].used
               /\ \A j \in Slots : j # i => p.tbl[j] = brrt[j]
    <3>1. PICK i \in Slots :
               /\ brrt[i].used /\ p.done = brrt[i].buf
               /\ p.cnt = (brrt_cnt - 1) % 256
               /\ ~p.tbl[i].used
               /\ \A j \in Slots : j # i => p.tbl[j] = brrt[j]
      BY <2>2
    <3>2. /\ ~brrt'[i].used /\ brrt_cnt' = (brrt_cnt - 1) % 256
          /\ \A j \in Slots : j # i => brrt'[j] = brrt[j]
      BY <3>1, <1>1
    <3>3. \A j \in Slots : j # i => brrt'[j].used = brrt[j].used /\ brrt'[j].buf = brrt[j].buf
                                    /\ brrt'[j].frame = brrt[j].frame
      BY <3>2
    <3>4. brrt[i].buf \in Bufs
      BY <3>1, <1>i DEF EntryBufs
    <3>5. buf'[brrt[i].buf].at # "brrt"
      BY <3>1, <3>4, <1>5, <1>8
    <3>6. \A c \in Bufs : c # brrt[i].buf =>
             /\ buf'[c].at = "brrt" <=> buf[c].at = "brrt"
             /\ buf[c].at = "brrt" => buf'[c].frame = buf[c].frame
      BY <3>1, <1>1, <1>8, <1>9
    <3>7. EntryBufs' /\ BrrtCounted' /\ Used(brrt)' = Used(brrt) \ {i}
      BY <3>1, <3>2, <3>3, <3>5, <3>6, <1>12, <1>i, EntryReleased
    <3>8. RetriesBounded'
      <4>1. \A j \in Slots : brrt'[j].used => RetryOK(brrt'[j])
        BY <3>2, <1>i DEF RetriesBounded
      <4> QED
        BY <4>1 DEF RetriesBounded, RetryOK
    <3> QED
      BY <3>7, <3>8
  <2> QED
    BY <2>1, <2>2, <1>3
<1>15. Driven'
  <2>1. \A c \in Bufs : buf[c].at = "xmit" => buf'[c].at = "xmit"
    BY <1>1, <1>8
  <2> QED
    BY <2>1, <1>1, <1>14, <1>i DEF Driven
<1>16. OwnOnce'
  <2>1. NoNewOwn
    BY <1>8, <1>9 DEF NoNewOwn
  <2> QED
    BY <2>1, <1>1, <1>i, OwnKept
<1>17. Waiting'
  <2> DEFINE m == Len(wait_alloc)
  <2>1. m \in Nat /\ \A k \in 1 .. m : wait_alloc[k] \in Bufs /\ buf[wait_alloc[k]].at = "wait"
    BY <1>11, <1>i, LenProperties, ElementOfSeq DEF Waiting
  <2>2. \A k \in 1 .. m : wait_alloc[k] # b /\ buf'[wait_alloc[k]].at = "wait"
    BY <2>1, <1>1, <1>8
  <2>3. \A k, l \in 1 .. m : wait_alloc[k] = wait_alloc[l] => k = l
    BY <1>i DEF Waiting
  <2>4. CASE wait_alloc' = wait_alloc
    BY <2>2, <2>3, <2>4 DEF Waiting
  <2>5. CASE wait_alloc' = Append(wait_alloc, b) /\ buf'[b].at = "wait"
    <3>1. /\ Len(wait_alloc') = m + 1 /\ wait_alloc'[m + 1] = b
          /\ \A k \in 1 .. m : wait_alloc'[k] = wait_alloc[k]
      BY <2>5, <1>11, <1>1, AppendProperties
    <3> HIDE DEF m
    <3>2. \A k \in 1 .. m + 1 : k \in 1 .. m \/ k = m + 1
      BY <2>1
    <3>3. \A k \in 1 .. m + 1 : buf'[wait_alloc'[k]].at = "wait"
      BY <3>1, <3>2, <2>2, <2>5
    <3>4. \A k, l \in 1 .. m + 1 : wait_alloc'[k] = wait_alloc'[l] => k = l
      BY <3>1, <3>2, <2>2, <2>3
    <3> QED
      BY <3>1, <3>3, <3>4 DEF Waiting
  <2> QED
    BY <2>4, <2>5, <1>7
<1>18. GoesUp'
  <2>1. \A g \in Frames : Entered(g) \in Nat
    BY <1>i, EnteredNat
  <2>2. CASE buf'[b].at = "free"
    <3>1. SameGoing
      BY <2>2, <1>1, <1>8 DEF SameGoing
    <3>2. \A g \in Frames : Entered(g)' >= Entered(g)
      <4>1. CASE KeepBtt
        <5>1. \A g \in Frames : Entered(g)' = Entered(g)
          BY <4>1, <1>1, BttKept
        <5> QED
          BY <5>1, <2>1
      <4>2. CASE ~Known(f) /\ AddBtt(f)
        <5>1. /\ Entered(f)' = Entered(f) + 1
              /\ \A g \in Frames : g # f => Entered(g)' = Entered(g)
          BY <4>2, <1>1, <1>i, AddBttEffect
        <5>2. ASSUME NEW g \in Frames
              PROVE  Entered(g)' >= Entered(g)
          <6>1. CASE g = f
            BY <6>1, <5>1, <2>1
          <6>2. CASE g # f
            BY <6>2, <5>1, <2>1
          <6> QED
            BY <6>1, <6>2
        <5> QED
          BY <5>2
      <4> QED
        BY <4>1, <4>2, <1>2
    <3> QED
      BY <3>1, <3>2, <1>1, <1>12, <1>i, GoesUpKept
  <2>3. CASE buf'[b].at # "free"
    <3>1. ~Known(f) /\ AddBtt(f) /\ buf'[b].at \in {"wait", "ind"} /\ buf'[b].frame = f
      BY <2>3, <1>7
    <3>2. /\ Entered(f)' = Entered(f) + 1 /\ Entered(f) = expired[f]
          /\ \A g \in Frames : g # f => Entered(g)' = Entered(g)
      BY <3>1, <1>1, <1>i, AddBttEffect
    <3> SUFFICES ASSUME NEW g \in Frames
                 PROVE  /\ indicated'[g] + Cardinality(Pending(g)') <= Entered(g)'
                        /\ g \in Own =>
                             \/ indicated'[g] + Cardinality(Pending(g)') = 0
                             \/ indicated'[g] + Cardinality(Pending(g)') < Entered(g)'
      BY DEF GoesUp
    <3>3. /\ indicated[g] + Cardinality(Pending(g)) <= Entered(g)
          /\ g \in Own => \/ indicated[g] + Cardinality(Pending(g)) = 0
                          \/ indicated[g] + Cardinality(Pending(g)) < Entered(g)
      BY <1>i DEF GoesUp
    <3>4. /\ IsFiniteSet(Pending(g)) /\ Cardinality(Pending(g)) \in Nat
          /\ Entered(g) \in Nat /\ indicated[g] \in Nat
      BY <1>i, PendingFinite, EnteredNat
    <3>5. CASE g = f
      <4>1. Pending(g)' = Pending(g) \cup {b} /\ b \notin Pending(g)
        BY <3>1, <3>5, <1>1, <1>8 DEF Pending
      <4>2. Cardinality(Pending(g)') = Cardinality(Pending(g)) + 1
        BY <4>1, <3>4, FS_AddElement
      <4>3. g \in Own => Entered(g) > 0
        BY <3>1, <3>2, <3>5, <1>1
      <4>4. Entered(g)' = Entered(g) + 1 /\ indicated'[g] = indicated[g]
        BY <3>2, <3>5, <1>1
      <4> QED
        BY <4>2, <4>3, <4>4, <3>3, <3>4
    <3>6. CASE g # f
      <4>1. Pending(g)' = Pending(g)
        BY <3>1, <3>6, <1>1, <1>8 DEF Pending
      <4>2. Entered(g)' = Entered(g) /\ indicated'[g] = indicated[g]
        BY <3>2, <3>6, <1>1
      <4> QED
        BY <4>1, <4>2, <3>3
    <3> QED
      BY <3>5, <3>6
  <2> QED
    BY <2>2, <2>3
<1> QED
  BY <1>10, <1>12, <1>13, <1>14, <1>15, <1>16, <1>17, <1>18 DEF BroadcastInv

-----------------------------------------------------------------------------
(* The theorems.                                                            *)

\* At start the tables are empty and every buffer is free.
LEMMA InitInv == Init => BroadcastInv
<1> SUFFICES ASSUME Init
             PROVE  BroadcastInv
  OBVIOUS
<1> USE DEF Init
<1>1. Types
  <2> DEFINE e == [used |-> FALSE, buf |-> 0, frame |-> NoFrame, retries |-> 0, iter |-> 0,
                   ack |-> {}]
  <2> DEFINE t == [used |-> FALSE, frame |-> NoFrame, exp |-> 0]
  <2>1. e \in Entries
    <3>1. 0 \in Retries
      BY BroadcastAssumption DEF Retries
    <3> QED
      BY <3>1 DEF Entries
  <2>2. t \in BEntries
    BY BroadcastAssumption DEF BEntries
  <2>3. brrt = [i \in Slots |-> e] /\ btt = [i \in BSlots |-> t]
    OBVIOUS
  <2> HIDE DEF e, t
  <2>4. brrt \in [Slots -> Entries] /\ btt \in [BSlots -> BEntries]
    BY ONLY <2>1, <2>2, <2>3
  <2>5. buf \in [Bufs -> Buffers]
    <3>1. Free \in Buffers
      BY Written
    <3> QED
      BY <3>1
  <2>6. wait_alloc \in Seq(Bufs)
    OBVIOUS
  <2>7. confirmed \in [Frames -> Nat] /\ expired \in [Frames -> Nat] /\ indicated \in [Frames -> Nat]
    OBVIOUS
  <2> QED
    BY <2>4, <2>5, <2>6, <2>7 DEF Types
<1>2. \A b \in Bufs : buf[b].at = "free" /\ buf[b].handle = "none"
  BY Written
<1>3. (\A i \in Slots : ~brrt[i].used) /\ (\A i \in BSlots : ~btt[i].used)
  OBVIOUS
<1>4. Used(brrt) = {} /\ Used(btt) = {}
  BY <1>3 DEF Used
<1>5. BrrtCounted /\ BttCounted
  BY <1>4, FS_EmptySet DEF BrrtCounted, BttCounted
<1>6. Framed /\ EntryBufs
  BY <1>2, <1>3 DEF Framed, EntryBufs
<1>7. RetriesBounded /\ BttUnique
  BY <1>3 DEF RetriesBounded, BttUnique
<1>8. Driven
  BY <1>4 DEF Driven
<1>9. Waiting
  <2>1. Len(wait_alloc) = 0
    OBVIOUS
  <2>2. 1 .. Len(wait_alloc) = {}
    BY <2>1
  <2> QED
    BY <2>2 DEF Waiting
<1>10. OwnOnce
  BY <1>2 DEF OwnOnce
<1>11. GoesUp
  <2>1. \A f \in Frames : indicated[f] = 0 /\ Entered(f) = 0
    BY <1>3 DEF Entered, Known
  <2>2. \A f \in Frames : Pending(f) = {}
    BY <1>2 DEF Pending
  <2>3. \A f \in Frames : Cardinality(Pending(f)) = 0
    BY <2>2, FS_EmptySet
  <2> QED
    BY <2>1, <2>3 DEF GoesUp
<1> QED
  BY <1>1, <1>5, <1>6, <1>7, <1>8, <1>9, <1>10, <1>11 DEF BroadcastInv

\* Every step keeps the invariant.
LEMMA NextInv == TablesFit /\ BroadcastInv /\ [Next]_vars => BroadcastInv'
<1> SUFFICES ASSUME TablesFit, BroadcastInv, [Next]_vars
             PROVE  BroadcastInv'
  OBVIOUS
<1>1. ASSUME NEW b \in OutBufs, NEW f \in Frames, zb_nlde_data_request(b, f)
      PROVE  BroadcastInv'
  BY <1>1, RequestKeeps
<1>2. ASSUME NEW b \in InBufs, NEW f \in Frames, NEW n \in Routers \cup {0},
             NEW ok \in BOOLEAN, NEW relay \in BOOLEAN,
             zb_mcps_data_indication(b, f, n, ok, relay)
      PROVE  BroadcastInv'
  BY <1>2, ReceptionKeeps
<1>3. ASSUME NEW b \in Bufs, Step(b)
      PROVE  BroadcastInv'
  <2>1. CASE GrantOut(b) \/ GrantDup(b) \/ GrantStat(b)
    BY <2>1, GrantKeeps
  <2>2. CASE zb_nwk_forward(b)
    BY <2>2, ForwardKeeps
  <2>3. ASSUME NEW i \in Slots \cup {0}, TransmitBuf(b, i)
        PROVE  BroadcastInv'
    BY <2>3, TransmitKeeps
  <2>4. CASE new_buffer_allocated(b)
    BY <2>4, DuplicateKeeps
  <2>5. CASE call_status_indication(b)
    BY <2>5, StatusKeeps
  <2>6. CASE nwk_frame_indication(b)
    BY <2>6, IndicationKeeps
  <2>7. ASSUME NEW ok \in BOOLEAN, zb_mcps_data_confirm(b, ok)
        PROVE  BroadcastInv'
    BY <2>7, ConfirmKeeps
  <2>8. CASE zb_nwk_call_br_confirm(b)
    BY <2>8, ConfirmKeeps
  <2> QED
    BY <1>3, <2>1, <2>2, <2>3, <2>4, <2>5, <2>6, <2>7, <2>8 DEF Step
<1>4. CASE TransmitAgain \/ TransmitAlarm
  BY <1>4, NoBufKeeps
<1>5. CASE zb_nwk_btr_expiry
  BY <1>5, ExpiryKeeps
<1>6. CASE UNCHANGED vars
  <2>1. UNCHANGED <<buf, brrt, brrt_cnt, btt, btt_cnt, wait_alloc, out_req, dup_req, stat_req,
                    again, tx_alarm, btr_alarm, asked, confirmed, expired, indicated>>
    BY <1>6 DEF vars
  <2>2. Types' /\ Framed' /\ EntryBufs' /\ RetriesBounded' /\ BttUnique' /\ Waiting' /\ OwnOnce'
    BY <2>1 DEF BroadcastInv, Types, Framed, EntryBufs, RetriesBounded, RetryOK, BttUnique,
                Waiting, OwnOnce
  <2>3. BrrtCounted' /\ BttCounted' /\ Driven'
    BY <2>1 DEF BroadcastInv, BrrtCounted, BttCounted, Driven, Used
  <2>4. GoesUp'
    BY <2>1 DEF BroadcastInv, GoesUp, Pending, Entered, Known
  <2> QED
    BY <2>2, <2>3, <2>4 DEF BroadcastInv
<1> QED
  BY <1>1, <1>2, <1>3, <1>4, <1>5, <1>6 DEF Next

\* The tables, the buffers and the counters agree in every state of a router,
\* whatever its neighbors send and whenever its alarms fire.
THEOREM BroadcastInvariant == ASSUME TablesFit PROVE Spec => []BroadcastInv
<1>1. Init => BroadcastInv
  BY InitInv
<1>2. BroadcastInv /\ [Next]_vars => BroadcastInv'
  BY NextInv
<1> QED
  BY <1>1, <1>2, PTL DEF Spec

\* The counters fit their bytes and an entry is transmitted once more than
\* ZB_NWK_MAX_BROADCAST_RETRIES at most.
THEOREM TypeCorrect == ASSUME TablesFit PROVE Spec => []TypeOK
<1>1. ASSUME BroadcastInv
      PROVE  TypeOK
  <2>1. /\ Types /\ brrt_cnt = Cardinality(Used(brrt)) /\ btt_cnt = Cardinality(Used(btt))
    BY <1>1 DEF BroadcastInv, BrrtCounted, BttCounted
  <2>2. brrt_cnt \in Byte /\ btt_cnt \in Byte
    BY <2>1, CountsFit
  <2>3. \A b \in Bufs : /\ buf[b].at \in Places /\ buf[b].frame \in Frames \cup {NoFrame}
                        /\ buf[b].handle \in {"none", "own", "internal"}
    BY <2>1 DEF Types, Buffers
  <2>4. \A i \in Slots : brrt[i] \in Entries
    BY <2>1 DEF Types
  <2>5. \A i \in Slots : /\ brrt[i].buf \in Bufs \cup {0}
                         /\ brrt[i].frame \in Frames \cup {NoFrame}
                         /\ brrt[i].retries \in 0 .. ZB_NWK_MAX_BROADCAST_RETRIES + 1
                         /\ brrt[i].iter \in Nbrs \cup {0} /\ brrt[i].ack \subseteq Nbrs
    BY <2>4 DEF Entries, Retries
  <2>6. \A i \in BSlots : btt[i].exp \in 0 .. DeliveryTime
    BY <2>1 DEF Types, BEntries
  <2> QED
    BY <2>1, <2>2, <2>3, <2>5, <2>6 DEF TypeOK, Types
<1> QED
  BY <1>1, BroadcastInvariant, PTL

\* Every entry of brrt holds its buffer alone until it ends, whether the last
\* transmission or the passive ACKs end it, and it is never left without a call
\* of nwk_broadcast_transmition() to come.
THEOREM EntriesAreSound == ASSUME TablesFit PROVE Spec => []EntriesSound
<1>1. ASSUME BroadcastInv
      PROVE  EntriesSound
  <2>1. Types /\ EntryBufs /\ Driven
    BY <1>1 DEF BroadcastInv
  <2>2. Used(brrt) = {i \in Slots : brrt[i].used}
    BY <2>1 DEF Types, Used
  <2>3. \A i \in Used(brrt) : /\ buf[brrt[i].buf].at = "brrt"
                              /\ buf[brrt[i].buf].frame = brrt[i].frame
    BY <2>1, <2>2 DEF EntryBufs
  <2>4. ASSUME NEW b \in Bufs, buf[b].at = "brrt"
        PROVE  Cardinality({i \in Used(brrt) : brrt[i].buf = b}) = 1
    <3>1. PICK j \in Slots : brrt[j].used /\ brrt[j].buf = b
      BY <2>1, <2>4 DEF EntryBufs
    <3>2. {i \in Used(brrt) : brrt[i].buf = b} = {j}
      BY <2>1, <2>2, <3>1 DEF EntryBufs
    <3> QED
      BY <3>2, FS_Singleton
  <2> QED
    BY <2>1, <2>3, <2>4 DEF EntriesSound, EntryOwnsBuffer
<1> QED
  BY <1>1, BroadcastInvariant, PTL

\* A broadcast is confirmed to its sender once at most, and goes up once at
\* most in the life of its entry of btt; a relayed one is never confirmed.
THEOREM DeliveredOnce == ASSUME TablesFit PROVE Spec => []OnceOnly
<1>1. ASSUME BroadcastInv
      PROVE  OnceOnly
  <2>1. Types /\ OwnOnce /\ GoesUp
    BY <1>1 DEF BroadcastInv
  <2>2. ConfirmedOnce
    <3> SUFFICES ASSUME NEW f \in Frames
                 PROVE  confirmed[f] <= (IF f \in asked THEN 1 ELSE 0)
      BY DEF ConfirmedOnce
    <3>1. confirmed[f] \in Nat
      BY <2>1, EnteredNat
    <3>2. confirmed[f] <= 1 /\ (confirmed[f] = 1 => f \in asked)
      BY <2>1 DEF OwnOnce
    <3> QED
      BY <3>1, <3>2
  <2>3. IndicatedOnce
    <3> SUFFICES ASSUME NEW f \in Frames
                 PROVE  indicated[f] <= expired[f] + (IF f \in Own THEN 0 ELSE 1)
      BY DEF IndicatedOnce
    <3> DEFINE c == Cardinality(Pending(f))
    <3>1. c \in Nat /\ indicated[f] \in Nat /\ expired[f] \in Nat
      BY <2>1, PendingFinite, EnteredNat
    <3>2. Entered(f) = expired[f] \/ Entered(f) = expired[f] + 1
      BY <3>1 DEF Entered
    <3>3. /\ indicated[f] + c <= Entered(f)
          /\ f \in Own => indicated[f] + c = 0 \/ indicated[f] + c < Entered(f)
      BY <2>1 DEF GoesUp
    <3> HIDE DEF c
    <3> QED
      BY <3>1, <3>2, <3>3
  <2> QED
    BY <2>2, <2>3 DEF OnceOnly
<1> QED
  BY <1>1, BroadcastInvariant, PTL
-----------------------------------------------------------------------------
(* Mesh routing: the inductive invariant.                                   *)

Ids == 1 .. MaxId
Costs == 0 .. CostSize - 1
RouteEntry == [status : {"none", "underway", "valid", "active"}, next : Nat,
               slot : RSlots \cup {0}]
DiscEntry == [id : Ids, src : Nodes, sender : Nodes, dest : Dests, fwd : Costs, res : Costs]
PendEntry == [pkt : Packets, waiting : BOOLEAN]
Msg == [t : {"rreq", "rrep"}, from : Nodes, to : Nodes, src : Nodes, id : Ids, dest : Dests,
        cost : Costs]
PacketPlace == [at : {"fwd", "pend", "air", "done", "dropped"}, node : Nodes, radius : Int]

MeshTypes ==
    /\ route \in [Nodes -> [Dests -> RouteEntry]]
    /\ disc \in [Nodes -> [DSlots -> DiscEntry \cup {NoDisc}]]
    /\ pend \in [Nodes -> [PSlots -> PendEntry \cup {EmptyPend}]]
    /\ bufreq \in [Nodes -> Nat]
    /\ rreq_id \in [Nodes -> 0 .. MaxId]
    /\ heard \in [Nodes -> SUBSET (Nodes \X Ids)]
    /\ msgs \subseteq Msg
    /\ pkt \in [Packets -> PacketPlace]
    /\ forgot \subseteq Nodes \X Ids

\* Entry i at node n is about request id of src.
IsFor(n, i, src, id) == disc[n][i].src = src /\ disc[n][i].id = id

\* Frames go from neighbor to neighbor, and so do the next hops of routes.
OverLinks ==
    /\ \A m \in msgs : m.to \in Neighbors(m.from)
    /\ \A n \in Nodes, d \in Dests : Usable(route[n][d]) => route[n][d].next \in Neighbors(n)

\* The sender of a request is a neighbor, or the originator itself.
SendersAreNear ==
    \A n \in Nodes, i \in DSlots :
        disc[n][i] # NoDisc =>
          \/ disc[n][i].sender \in Neighbors(n)
          \/ disc[n][i].sender = n /\ disc[n][i].src = n

\* A packet that goes on has not arrived, one in the pending table waits there,
\* and for a node that is not a neighbor.
PacketsPlaced ==
    /\ \A p \in Packets : pkt[p].at \in {"fwd", "pend"} => pkt[p].node # To[p]
    /\ \A n \in Nodes, i \in PSlots : pend[n][i] # EmptyPend =>
         /\ pkt[pend[n][i].pkt].at = "pend" /\ pkt[pend[n][i].pkt].node = n
         /\ To[pend[n][i].pkt] \notin Neighbors(n)
    /\ \A n \in Nodes, i \in PSlots, j \in PSlots :
         pend[n][i] # EmptyPend /\ pend[n][j] # EmptyPend /\ pend[n][i].pkt = pend[n][j].pkt
           => i = j
    /\ \A p \in Packets : pkt[p].at = "pend" =>
         \E i \in PSlots : pend[pkt[p].node][i].pkt = p

\* The requests that frames and discovery entries speak of.
Mentioned(src, id, d) ==
    \/ \E m \in msgs : m.src = src /\ m.id = id /\ m.dest = d
    \/ \E n \in Nodes, i \in DSlots :
         disc[n][i] # NoDisc /\ IsFor(n, i, src, id) /\ disc[n][i].dest = d

\* The originator has counted them, and an id stands for one destination.
RequestsDiffer ==
    \A src \in Nodes, id \in Ids, d \in Dests : Mentioned(src, id, d) =>
        /\ id <= rreq_id[src]
        /\ \A e \in Dests : Mentioned(src, id, e) => e = d

\* A node has one entry for a request.
EntryPerRequest ==
    \A n \in Nodes, i \in DSlots, j \in DSlots, src \in Nodes, id \in Ids :
        IsFor(n, i, src, id) /\ IsFor(n, j, src, id) => i = j

MeshInv ==
    /\ MeshTypes
    /\ OverLinks
    /\ SendersAreNear
    /\ PacketsPlaced
    /\ RequestsDiffer
    /\ EntryPerRequest

-----------------------------------------------------------------------------
(* Links, costs and the search for entries.                                 *)

LEMMA MeshSizes ==
  /\ Nodes \subseteq Nat \ {0} /\ Dests \subseteq Nodes /\ 0 \notin Nodes
  /\ From \in [Packets -> Nodes] /\ To \in [Packets -> Dests]
  /\ DSlots \subseteq Nat /\ PSlots \subseteq Nat
  /\ MaxId \in Nat /\ Ids \subseteq Nat \ {0} /\ CostSize = 256 /\ Costs = 0 .. 255
  /\ NoDisc \notin DiscEntry /\ NoDisc.id \notin Ids /\ NoDisc.dest \notin Dests
  /\ EmptyPend \notin PendEntry /\ NoPacket \notin Packets
<1>1. /\ Nodes \subseteq Nat \ {0} /\ From \in [Packets -> Nodes] /\ To \in [Packets -> Nodes]
      /\ MaxId \in 1 .. 255 /\ NoPacket \notin Packets
      /\ ZB_NWK_ROUTE_DISCOVERY_TABLE_SIZE \in Nat /\ ZB_NWK_PENDING_TABLE_SIZE \in Nat
  BY MeshAssumption
<1>2. Dests \subseteq Nodes /\ To \in [Packets -> Dests] /\ 0 \notin Nodes
  BY <1>1 DEF Dests
<1>3. DSlots \subseteq Nat /\ PSlots \subseteq Nat
  BY <1>1 DEF DSlots, PSlots
<1>4. MaxId \in Nat /\ Ids \subseteq Nat \ {0} /\ CostSize = 256 /\ Costs = 0 .. 255
  BY <1>1 DEF Ids, CostSize, Costs
<1>5. NoDisc.id = 0 /\ NoDisc.dest = 0
  BY DEF NoDisc
<1>6. NoDisc.id \notin Ids /\ NoDisc.dest \notin Dests
  BY <1>2, <1>4, <1>5
<1>7. NoDisc \notin DiscEntry
  BY <1>6 DEF DiscEntry
<1>8. EmptyPend.pkt = NoPacket
  BY DEF EmptyPend
<1>9. EmptyPend \notin PendEntry
  BY <1>1, <1>8 DEF PendEntry
<1> QED
  BY <1>1, <1>2, <1>3, <1>4, <1>6, <1>7, <1>9

\* Links have two ends.
LEMMA LinksJoinTwo ==
  ASSUME NEW n, NEW m \in Neighbors(n)
  PROVE  m \in Nodes /\ n \in Nodes /\ m # n /\ n \in Neighbors(m)
<1>1. {n, m} \in Links /\ m \in Nodes
  BY DEF Neighbors
<1>2. {n, m} \subseteq Nodes /\ Cardinality({n, m}) = 2
  BY <1>1, MeshAssumption
<1>3. m # n
  <2> SUFFICES ASSUME m = n PROVE FALSE
    OBVIOUS
  <2>1. {n, m} = {n}
    OBVIOUS
  <2> QED
    BY <1>2, <2>1, FS_Singleton
<1>4. {m, n} = {n, m}
  OBVIOUS
<1> QED
  BY <1>1, <1>2, <1>3, <1>4 DEF Neighbors

\* Every hop but the one of the originator to itself costs something.
LEMMA HopCosts ==
  ASSUME NEW n \in Nodes, NEW src \in Nodes
  PROVE  /\ PathCost(n, src) \in 0 .. 7
         /\ n # src => PathCost(n, src) >= 1
         /\ n = src => PathCost(n, src) = 0
<1>1. CASE src \in Neighbors(n)
  <2>1. {n, src} \in Links /\ src # n
    BY <1>1, LinksJoinTwo DEF Neighbors
  <2>2. LinkCost[{n, src}] \in 1 .. 7
    BY <2>1, MeshAssumption
  <2> QED
    BY <1>1, <2>1, <2>2 DEF PathCost
<1>2. CASE src \notin Neighbors(n)
  <2>1. ZB_NWK_STATIC_PATH_COST \in 1 .. 7
    BY MeshAssumption
  <2> QED
    BY <1>2, <2>1 DEF PathCost
<1> QED
  BY <1>1, <1>2

\* A cost fits a byte, and below 256 nothing is cut off.
LEMMA CostFits ==
  ASSUME NEW n \in Nodes, NEW src \in Nodes, NEW c \in Costs
  PROVE  /\ (PathCost(n, src) + c) % CostSize \in Costs
         /\ PathCost(n, src) + c < CostSize => (PathCost(n, src) + c) % CostSize = PathCost(n, src) + c
<1> DEFINE x == PathCost(n, src)
<1>1. x \in 0 .. 7 /\ c \in 0 .. 255 /\ CostSize = 256 /\ Costs = 0 .. 255
  BY HopCosts, MeshSizes
<1> HIDE DEF x
<1>2. (x + c) % 256 \in 0 .. 255 /\ (x + c < 256 => (x + c) % 256 = x + c)
  BY <1>1
<1> QED
  BY <1>1, <1>2 DEF x


-----------------------------------------------------------------------------
(* What the handler of a request does.                                      *)

\* The entry a request with the given cost is noted in, and its answer.
Noting(src, id, from, d, cost, r) ==
    [id |-> id, src |-> src, sender |-> from, dest |-> d, fwd |-> cost, res |-> r]

\* The request leaves the discovery tables alone and goes no further.
Ignored(rest) == disc' = disc /\ msgs' = rest

\* Slot k of node n notes the request: a free one of a node without an entry for
\* it, or the entry it has, for a cheaper path.
EnteredAt(n, k, from, src, id, d, cost, rest) ==
    /\ \E r \in Costs : disc' = [disc EXCEPT ![n][k] = Noting(src, id, from, d, cost, r)]
    /\ msgs' = rest \cup Answer(n, from, src, id, d, cost)
    /\ \/ disc[n][k] = NoDisc /\ \A i \in DSlots : ~IsFor(n, i, src, id)
       \/ disc[n][k] # NoDisc /\ IsFor(n, k, src, id) /\ cost < disc[n][k].fwd

\* Only the route of the request changes: it is freed, or made.
RouteTouched(n, d) ==
    /\ route' \in [Nodes -> [Dests -> RouteEntry]]
    /\ \A n2 \in Nodes, d2 \in Dests :
         \/ route'[n2][d2] = route[n2][d2]
         \/ n2 = n /\ d2 = d /\ route'[n2][d2] = NoRoute
         \/ n2 = n /\ d2 = d /\ route'[n2][d2].status = "underway"

LEMMA RreqOutcome ==
  ASSUME MeshTypes,
         NEW n \in Nodes, NEW from \in Nodes, NEW src \in Nodes, NEW id \in Ids, NEW d \in Dests,
         NEW c \in Costs, NEW rest,
         \A i \in DSlots : IsFor(n, i, src, id) => disc[n][i].dest = d,
         RreqHandler(n, from, src, id, d, c, rest)
  PROVE  /\ RouteTouched(n, d)
         /\ \/ Ignored(rest)
            \/ \E k \in DSlots :
                 EnteredAt(n, k, from, src, id, d, (PathCost(n, src) + c) % CostSize, rest)
<1> DEFINE cost == (PathCost(n, src) + c) % CostSize
           r == route[n][d]
           known == KnownDisc(n, id, src)
           free == {i \in DSlots : disc[n][i] = NoDisc}
           touched == IF r.status # "none" THEN route ELSE [route EXCEPT ![n][d] = NewRoute(n)]
           entry == Noting(src, id, from, d, cost, 255)
           nomem == (r.status = "none" /\ FreeRoutes(n) = {}) \/ (known = {} /\ free = {})
<1>0. cost \in Costs
  BY CostFits
<1>1. /\ route \in [Nodes -> [Dests -> RouteEntry]]
      /\ disc \in [Nodes -> [DSlots -> DiscEntry \cup {NoDisc}]]
  BY DEF MeshTypes
<1>2. known = {i \in DSlots : IsFor(n, i, src, id)}
  BY DEF KnownDisc, IsFor
<1>3. \/ /\ nomem
         /\ route' = [route EXCEPT ![n][d] = NoRoute]
         /\ msgs' = rest
         /\ UNCHANGED disc
      \/ /\ ~nomem /\ known # {} /\ cost < disc[n][Min(known)].fwd
         /\ route' = touched
         /\ disc' = [disc EXCEPT ![n][Min(known)].sender = from, ![n][Min(known)].fwd = cost]
         /\ msgs' = rest \cup Answer(n, from, src, id, d, cost)
      \/ /\ ~nomem /\ known # {}
         /\ route' = touched
         /\ msgs' = rest
         /\ UNCHANGED disc
      \/ /\ ~nomem /\ known = {} 
         /\ route' = touched
         /\ disc' = [disc EXCEPT ![n][Min(free)] = entry]
         /\ msgs' = rest \cup Answer(n, from, src, id, d, cost)
  BY DEF RreqHandler, Noting, Better
<1> HIDE DEF known, cost, free, nomem, entry, touched
<1>4. NoRoute \in RouteEntry
  BY DEF NoRoute, RouteEntry
<1>11. r.status = "none" /\ ~nomem => NewRoute(n) \in RouteEntry
  <2> SUFFICES ASSUME FreeRoutes(n) # {} PROVE NewRoute(n) \in RouteEntry
    BY DEF nomem
  <2>1. FreeRoutes(n) \subseteq RSlots /\ RSlots \subseteq Nat
    BY MeshAssumption DEF FreeRoutes, RSlots
  <2>2. Min(FreeRoutes(n)) \in RSlots
    BY <2>1, LeastOf
  <2> QED
    BY <2>2 DEF NewRoute, RouteEntry
<1>5. CASE route' = [route EXCEPT ![n][d] = NoRoute] /\ msgs' = rest /\ UNCHANGED disc
  <2>1. RouteTouched(n, d)
    BY <1>1, <1>4, <1>5 DEF RouteTouched
  <2> QED
    BY <2>1, <1>5 DEF Ignored
<1>6. ASSUME ~nomem, route' = touched
      PROVE  RouteTouched(n, d)
  <2>1. CASE r.status # "none"
    BY <2>1, <1>1, <1>6 DEF RouteTouched, touched
  <2>2. CASE r.status = "none"
    <3>1. route' = [route EXCEPT ![n][d] = NewRoute(n)] /\ NewRoute(n) \in RouteEntry
      BY <2>2, <1>6, <1>11 DEF touched
    <3>2. NewRoute(n).status = "underway"
      BY DEF NewRoute
    <3> QED
      BY <3>1, <3>2, <1>1 DEF RouteTouched
  <2> QED
    BY <2>1, <2>2
<1>7. ASSUME known # {}
      PROVE  /\ Min(known) \in DSlots /\ IsFor(n, Min(known), src, id)
             /\ disc[n][Min(known)].dest = d
             /\ disc[n][Min(known)] # NoDisc /\ disc[n][Min(known)] \in DiscEntry
  <2>1. known \subseteq Nat
    BY <1>2, MeshSizes
  <2>2. Min(known) \in known
    BY <1>7, <2>1, LeastOf
  <2>3. Min(known) \in DSlots /\ IsFor(n, Min(known), src, id)
    BY <2>2, <1>2
  <2>4. disc[n][Min(known)] # NoDisc
    BY <2>3, MeshSizes DEF IsFor
  <2> QED
    BY <2>3, <2>4, <1>1
<1>8. CASE /\ ~nomem /\ known # {} /\ cost < disc[n][Min(known)].fwd
           /\ route' = touched
           /\ disc' = [disc EXCEPT ![n][Min(known)].sender = from, ![n][Min(known)].fwd = cost]
           /\ msgs' = rest \cup Answer(n, from, src, id, d, cost)
  <2> DEFINE k == Min(known)
  <2>1. /\ k \in DSlots /\ IsFor(n, k, src, id) /\ disc[n][k].dest = d
        /\ disc[n][k] # NoDisc /\ disc[n][k] \in DiscEntry
    BY <1>7, <1>8
  <2>2. disc' = [disc EXCEPT ![n] = [disc[n] EXCEPT ![k] =
                    [[disc[n][k] EXCEPT !.sender = from] EXCEPT !.fwd = cost]]]
    BY <1>1, <1>8, <2>1
  <2>3. disc[n][k].res \in Costs
    BY <2>1 DEF DiscEntry
  <2>4. [[disc[n][k] EXCEPT !.sender = from] EXCEPT !.fwd = cost]
          = Noting(src, id, from, d, cost, disc[n][k].res)
    <3>1. /\ disc[n][k].id = id /\ disc[n][k].src = src /\ disc[n][k].dest = d
          /\ disc[n][k] \in DiscEntry
      BY <2>1 DEF IsFor
    <3> HIDE DEF k
    <3> DEFINE e == disc[n][k]
    <3>2. e \in DiscEntry /\ e.id = id /\ e.src = src /\ e.dest = d
      BY <3>1
    <3> HIDE DEF e
    <3>3. e = [id |-> id, src |-> src, sender |-> e.sender, dest |-> d, fwd |-> e.fwd, res |-> e.res]
      BY <3>2 DEF DiscEntry
    <3>4. [e EXCEPT !.sender = from]
            = [id |-> id, src |-> src, sender |-> from, dest |-> d, fwd |-> e.fwd, res |-> e.res]
      BY <3>3
    <3> DEFINE g == [e EXCEPT !.sender = from]
    <3>6. g = [id |-> id, src |-> src, sender |-> from, dest |-> d, fwd |-> e.fwd, res |-> e.res]
      BY <3>4
    <3> HIDE DEF g
    <3>7. [g EXCEPT !.fwd = cost] = Noting(src, id, from, d, cost, e.res)
      BY <3>6 DEF Noting
    <3>5. [[e EXCEPT !.sender = from] EXCEPT !.fwd = cost] = Noting(src, id, from, d, cost, e.res)
      BY <3>7 DEF g
    <3> QED
      BY <3>5 DEF e
  <2>5. disc' = [disc EXCEPT ![n][k] = Noting(src, id, from, d, cost, disc[n][k].res)]
    BY <2>2, <2>4
  <2>7. EnteredAt(n, k, from, src, id, d, cost, rest)
    BY <2>1, <2>3, <2>5, <1>8 DEF EnteredAt
  <2> HIDE DEF k
  <2> QED
    BY <2>1, <2>7, <1>6, <1>8 DEF cost
<1>9. CASE ~nomem /\ known # {} /\ route' = touched /\ msgs' = rest /\ UNCHANGED disc
  BY <1>6, <1>9 DEF Ignored
<1>10. CASE /\ ~nomem /\ known = {}
            /\ route' = touched
            /\ disc' = [disc EXCEPT ![n][Min(free)] = entry]
            /\ msgs' = rest \cup Answer(n, from, src, id, d, cost)
  <2> DEFINE k == Min(free)
  <2>1. free # {} /\ free \subseteq Nat
    BY <1>10, MeshSizes DEF nomem, free
  <2>2. k \in free
    BY <2>1, LeastOf
  <2>3. k \in DSlots /\ disc[n][k] = NoDisc
    BY <2>2 DEF free
  <2>4. disc' = [disc EXCEPT ![n][k] = Noting(src, id, from, d, cost, 255)] /\ 255 \in Costs
    BY <1>10, MeshSizes DEF entry
  <2>6. EnteredAt(n, k, from, src, id, d, cost, rest)
    BY <2>3, <2>4, <1>2, <1>10 DEF EnteredAt
  <2> HIDE DEF k
  <2> QED
    BY <2>3, <2>6, <1>6, <1>10 DEF cost
<1> QED
  BY <1>3, <1>5, <1>8, <1>9, <1>10

\* The frames that answer a request.
LEMMA AnswerFrames ==
  ASSUME NEW n \in Nodes, NEW from \in Nodes, NEW src \in Nodes, NEW id \in Ids, NEW d \in Dests,
         NEW cost \in Costs,
         from \in Neighbors(n) \/ (d # n /\ d \notin Neighbors(n)),
         NEW m \in Answer(n, from, src, id, d, cost)
  PROVE  /\ m \in Msg /\ m.from = n /\ m.to \in Neighbors(n)
         /\ m.src = src /\ m.id = id /\ m.dest = d /\ m.cost = cost
         /\ m.t = "rrep" => m.to = from
<1>0. Neighbors(n) \subseteq Nodes
  BY DEF Neighbors
<1>1. CASE m \in Rreq(n, src, id, d, cost)
  <2>1. PICK to \in Neighbors(n) :
          m = [t |-> "rreq", from |-> n, to |-> to, src |-> src, id |-> id, dest |-> d, cost |-> cost]
    BY <1>1 DEF Rreq
  <2> QED
    BY <2>1, <1>0 DEF Msg
<1>2. CASE m \in Rrep(n, from, src, id, d, cost) /\ from \in Neighbors(n)
  <2>1. m = [t |-> "rrep", from |-> n, to |-> from, src |-> src, id |-> id, dest |-> d, cost |-> cost]
    BY <1>2 DEF Rrep
  <2> QED
    BY <2>1, <1>2 DEF Msg
<1> QED
  BY <1>1, <1>2 DEF Answer

\* What entering a request means for every slot of every table.
LEMMA EnteredSlots ==
  ASSUME MeshTypes,
         NEW n \in Nodes, NEW k \in DSlots, NEW from \in Nodes, NEW src \in Nodes, NEW id \in Ids,
         NEW d \in Dests, NEW cost \in Costs, NEW rest,
         EnteredAt(n, k, from, src, id, d, cost, rest)
  PROVE  /\ disc' \in [Nodes -> [DSlots -> DiscEntry \cup {NoDisc}]]
         /\ disc'[n][k] # NoDisc /\ disc'[n][k].id = id /\ disc'[n][k].src = src
         /\ disc'[n][k].sender = from /\ disc'[n][k].dest = d /\ disc'[n][k].fwd = cost
         /\ \A n2 \in Nodes, i \in DSlots : n2 # n \/ i # k => disc'[n2][i] = disc[n2][i]
<1>1. disc \in [Nodes -> [DSlots -> DiscEntry \cup {NoDisc}]]
  BY DEF MeshTypes
<1>2. PICK r \in Costs : disc' = [disc EXCEPT ![n][k] = Noting(src, id, from, d, cost, r)]
  BY DEF EnteredAt
<1> DEFINE e == Noting(src, id, from, d, cost, r)
<1>3. e \in DiscEntry
  BY DEF Noting, DiscEntry
<1>4. e # NoDisc /\ e.id = id /\ e.src = src /\ e.sender = from /\ e.dest = d /\ e.fwd = cost
  <2>1. e.id = id /\ e.src = src /\ e.sender = from /\ e.dest = d /\ e.fwd = cost
    BY DEF Noting
  <2> QED
    BY <2>1, <1>3, MeshSizes
<1> HIDE DEF e
<1>5. disc' = [disc EXCEPT ![n][k] = e]
  BY <1>2 DEF e
<1>6. /\ disc' \in [Nodes -> [DSlots -> DiscEntry \cup {NoDisc}]]
      /\ disc'[n][k] = e
      /\ \A n2 \in Nodes, i \in DSlots : n2 # n \/ i # k => disc'[n2][i] = disc[n2][i]
  BY <1>1, <1>3, <1>5
<1> QED
  BY <1>4, <1>6

\* A request that reaches the handler at n, from a neighbor or from n itself.
RreqStep(n, from, src, id, d, c, rest) ==
    /\ n \in Nodes /\ from \in Nodes /\ src \in Nodes /\ id \in Ids /\ d \in Dests /\ c \in Costs
    /\ rest \subseteq msgs
    /\ from \in Neighbors(n) \/ (from = n /\ src = n /\ d # n /\ d \notin Neighbors(n))
    /\ \A e \in Dests : Mentioned(src, id, e) => e = d
    /\ rreq_id' \in [Nodes -> 0 .. MaxId] /\ id <= rreq_id'[src]
    /\ \A s \in Nodes : rreq_id[s] <= rreq_id'[s]
    /\ RreqHandler(n, from, src, id, d, c, rest)

\* Its outcome, for the invariants to look at.
LEMMA RreqStepOutcome ==
  ASSUME MeshInv,
         NEW n, NEW from, NEW src, NEW id, NEW d, NEW c, NEW rest,
         RreqStep(n, from, src, id, d, c, rest)
  PROVE  /\ (PathCost(n, src) + c) % CostSize \in Costs
         /\ RouteTouched(n, d)
         /\ \/ Ignored(rest)
            \/ \E k \in DSlots :
                 EnteredAt(n, k, from, src, id, d, (PathCost(n, src) + c) % CostSize, rest)
<1>1. /\ n \in Nodes /\ from \in Nodes /\ src \in Nodes /\ id \in Ids /\ d \in Dests /\ c \in Costs
      /\ RreqHandler(n, from, src, id, d, c, rest)
      /\ \A e \in Dests : Mentioned(src, id, e) => e = d
  BY DEF RreqStep
<1>2. ASSUME NEW i \in DSlots, IsFor(n, i, src, id) PROVE disc[n][i].dest = d
  <2>1. disc[n][i] # NoDisc /\ disc[n][i] \in DiscEntry \cup {NoDisc}
    BY <1>1, <1>2, MeshSizes DEF IsFor, MeshInv, MeshTypes
  <2>2. disc[n][i].dest \in Dests
    BY <2>1 DEF DiscEntry
  <2> QED
    BY <1>1, <1>2, <2>1, <2>2 DEF Mentioned
<1>3. (PathCost(n, src) + c) % CostSize \in Costs
  BY <1>1, CostFits
<1>4. MeshTypes
  BY DEF MeshInv
<1> QED
  BY <1>1, <1>2, <1>3, <1>4, RreqOutcome

\* Everything but the packets' places.
LEMMA RreqStepKeeps ==
  ASSUME MeshInv,
         NEW n, NEW from, NEW src, NEW id, NEW d, NEW c, NEW rest,
         RreqStep(n, from, src, id, d, c, rest)
  PROVE  /\ route' \in [Nodes -> [Dests -> RouteEntry]]
         /\ disc' \in [Nodes -> [DSlots -> DiscEntry \cup {NoDisc}]]
         /\ msgs' \subseteq Msg
         /\ OverLinks' /\ SendersAreNear' /\ RequestsDiffer' /\ EntryPerRequest'
<1> DEFINE cost == (PathCost(n, src) + c) % CostSize
<1>1. /\ n \in Nodes /\ from \in Nodes /\ src \in Nodes /\ id \in Ids /\ d \in Dests
      /\ rest \subseteq msgs
      /\ from \in Neighbors(n) \/ (from = n /\ src = n /\ d # n /\ d \notin Neighbors(n))
      /\ \A e \in Dests : Mentioned(src, id, e) => e = d
      /\ rreq_id' \in [Nodes -> 0 .. MaxId] /\ id <= rreq_id'[src]
      /\ \A s \in Nodes : rreq_id[s] <= rreq_id'[s]
  BY DEF RreqStep
<1>2. /\ cost \in Costs
      /\ RouteTouched(n, d)
      /\ Ignored(rest) \/ \E k \in DSlots : EnteredAt(n, k, from, src, id, d, cost, rest)
  BY RreqStepOutcome
<1>3. /\ MeshTypes /\ OverLinks /\ SendersAreNear /\ RequestsDiffer /\ EntryPerRequest
  BY DEF MeshInv
<1> HIDE DEF cost
<1>4. /\ disc \in [Nodes -> [DSlots -> DiscEntry \cup {NoDisc}]] /\ msgs \subseteq Msg
      /\ rreq_id \in [Nodes -> 0 .. MaxId]
      /\ route \in [Nodes -> [Dests -> RouteEntry]]
  BY <1>3 DEF MeshTypes
<1>5. route' \in [Nodes -> [Dests -> RouteEntry]]
  BY <1>2 DEF RouteTouched
<1>6. ASSUME NEW n2 \in Nodes, NEW d2 \in Dests, Usable(route'[n2][d2])
      PROVE  route'[n2][d2].next \in Neighbors(n2)
  <2>1. route'[n2][d2] = route[n2][d2]
    BY <1>2, <1>6 DEF RouteTouched, Usable, NoRoute
  <2> QED
    BY <2>1, <1>3, <1>6 DEF OverLinks
<1>7. CASE Ignored(rest)
  <2>1. disc' = disc /\ msgs' \subseteq msgs
    BY <1>1, <1>7 DEF Ignored
  <2>2. OverLinks'
    BY <1>3, <1>6, <2>1 DEF OverLinks, Usable
  <2>3. SendersAreNear' /\ EntryPerRequest'
    BY <1>3, <2>1 DEF SendersAreNear, EntryPerRequest, IsFor
  <2>4. RequestsDiffer'
    <3>1. ASSUME NEW s \in Nodes, NEW x \in Ids, NEW y \in Dests, Mentioned(s, x, y)'
          PROVE  Mentioned(s, x, y)
      BY <2>1, <3>1 DEF Mentioned, IsFor
    <3>2. ASSUME NEW s \in Nodes, NEW x \in Ids, NEW y \in Dests, Mentioned(s, x, y)'
          PROVE  x <= rreq_id'[s]
      <4>1. x <= rreq_id[s] /\ rreq_id[s] <= rreq_id'[s]
        BY <1>1, <1>3, <3>1, <3>2 DEF RequestsDiffer
      <4>2. x \in Nat /\ rreq_id[s] \in Int /\ rreq_id'[s] \in Int
        BY <1>1, <1>4, MeshSizes
      <4> QED
        BY <4>1, <4>2
    <3> QED
      BY <3>1, <3>2, <1>3 DEF RequestsDiffer
  <2> QED
    BY <1>4, <1>5, <2>1, <2>2, <2>3, <2>4
<1>8. ASSUME NEW k \in DSlots, EnteredAt(n, k, from, src, id, d, cost, rest)
      PROVE  /\ disc' \in [Nodes -> [DSlots -> DiscEntry \cup {NoDisc}]]
             /\ msgs' \subseteq Msg
             /\ OverLinks' /\ SendersAreNear' /\ RequestsDiffer' /\ EntryPerRequest'
  <2>1. /\ disc' \in [Nodes -> [DSlots -> DiscEntry \cup {NoDisc}]]
        /\ disc'[n][k] # NoDisc /\ disc'[n][k].id = id /\ disc'[n][k].src = src
        /\ disc'[n][k].sender = from /\ disc'[n][k].dest = d
        /\ \A n2 \in Nodes, i \in DSlots : n2 # n \/ i # k => disc'[n2][i] = disc[n2][i]
    BY <1>1, <1>2, <1>3, <1>8, EnteredSlots
  <2>2. /\ msgs' = rest \cup Answer(n, from, src, id, d, cost)
        /\ \/ disc[n][k] = NoDisc /\ \A i \in DSlots : ~IsFor(n, i, src, id)
           \/ disc[n][k] # NoDisc /\ IsFor(n, k, src, id)
    BY <1>8 DEF EnteredAt
  <2>3. ASSUME NEW m \in Answer(n, from, src, id, d, cost)
        PROVE  /\ m \in Msg /\ m.from = n /\ m.to \in Neighbors(n)
               /\ m.src = src /\ m.id = id /\ m.dest = d
    BY <1>1, <1>2, <2>3, AnswerFrames
  <2>4. msgs' \subseteq Msg
    BY <1>1, <1>4, <2>2, <2>3
  <2>5. OverLinks'
    <3>1. \A m \in msgs' : m.to \in Neighbors(m.from)
      BY <1>1, <1>3, <2>2, <2>3 DEF OverLinks
    <3> QED
      BY <3>1, <1>6 DEF OverLinks, Usable
  <2>6. SendersAreNear'
    <3> SUFFICES ASSUME NEW n2 \in Nodes, NEW i \in DSlots, disc'[n2][i] # NoDisc
                 PROVE  \/ disc'[n2][i].sender \in Neighbors(n2)
                        \/ disc'[n2][i].sender = n2 /\ disc'[n2][i].src = n2
      BY DEF SendersAreNear
    <3>1. CASE n2 = n /\ i = k
      BY <3>1, <1>1, <2>1
    <3>2. CASE n2 # n \/ i # k
      BY <3>2, <1>3, <2>1 DEF SendersAreNear
    <3> QED
      BY <3>1, <3>2
  <2>7. ASSUME NEW s \in Nodes, NEW x \in Ids, NEW y \in Dests, Mentioned(s, x, y)'
        PROVE  Mentioned(s, x, y) \/ (s = src /\ x = id /\ y = d)
    <3>1. CASE \E m \in msgs' : m.src = s /\ m.id = x /\ m.dest = y
      BY <3>1, <1>1, <2>2, <2>3 DEF Mentioned
    <3>2. ASSUME NEW n2 \in Nodes, NEW i \in DSlots, disc'[n2][i] # NoDisc,
                 disc'[n2][i].src = s, disc'[n2][i].id = x, disc'[n2][i].dest = y
          PROVE  Mentioned(s, x, y) \/ (s = src /\ x = id /\ y = d)
      <4>1. CASE n2 = n /\ i = k
        BY <4>1, <3>2, <2>1
      <4>2. CASE n2 # n \/ i # k
        BY <4>2, <3>2, <2>1 DEF Mentioned, IsFor
      <4> QED
        BY <4>1, <4>2
    <3> QED
      BY <3>1, <3>2, <2>7 DEF Mentioned, IsFor
  <2>8. RequestsDiffer'
    <3>1. ASSUME NEW s \in Nodes, NEW x \in Ids, NEW y \in Dests, Mentioned(s, x, y)'
          PROVE  x <= rreq_id'[s]
      <4>1. rreq_id[s] <= rreq_id'[s] /\ x \in Nat /\ rreq_id[s] \in Int /\ rreq_id'[s] \in Int
        BY <1>1, <1>4, MeshSizes
      <4>2. CASE Mentioned(s, x, y)
        BY <4>1, <4>2, <1>3 DEF RequestsDiffer
      <4> QED
        BY <4>2, <2>7, <3>1, <1>1
    <3>2. ASSUME NEW s \in Nodes, NEW x \in Ids, NEW y \in Dests, NEW z \in Dests,
                 Mentioned(s, x, y)', Mentioned(s, x, z)'
          PROVE  z = y
      <4>1. Mentioned(s, x, y) \/ (s = src /\ x = id /\ y = d)
        BY <2>7, <3>2
      <4>2. Mentioned(s, x, z) \/ (s = src /\ x = id /\ z = d)
        BY <2>7, <3>2
      <4> QED
        BY <4>1, <4>2, <1>1, <1>3 DEF RequestsDiffer
    <3> QED
      BY <3>1, <3>2 DEF RequestsDiffer
  <2>9. EntryPerRequest'
    <3> SUFFICES ASSUME NEW n2 \in Nodes, NEW i \in DSlots, NEW j \in DSlots, NEW s \in Nodes,
                        NEW x \in Ids,
                        disc'[n2][i].src = s, disc'[n2][i].id = x,
                        disc'[n2][j].src = s, disc'[n2][j].id = x
                 PROVE  i = j
      BY DEF EntryPerRequest, IsFor
    <3>1. CASE n2 # n \/ (i # k /\ j # k)
      <4>1. disc'[n2][i] = disc[n2][i] /\ disc'[n2][j] = disc[n2][j]
        BY <3>1, <2>1
      <4> QED
        BY <4>1, <1>3 DEF EntryPerRequest, IsFor
    <3>2. ASSUME NEW l \in DSlots, l # k, disc'[n][l].src = src, disc'[n][l].id = id
          PROVE  FALSE
      <4>1. IsFor(n, l, src, id)
        BY <3>2, <2>1, <1>1 DEF IsFor
      <4> QED
        BY <4>1, <3>2, <2>2, <1>1, <1>3 DEF EntryPerRequest
    <3>3. CASE n2 = n /\ i = k /\ j # k
      BY <3>3, <3>2, <2>1
    <3>4. CASE n2 = n /\ i # k /\ j = k
      BY <3>4, <3>2, <2>1
    <3> QED
      BY <3>1, <3>3, <3>4
  <2> QED
    BY <2>1, <2>4, <2>5, <2>6, <2>8, <2>9
<1> QED
  BY <1>2, <1>5, <1>7, <1>8

-----------------------------------------------------------------------------
(* The other actions.                                                       *)

\* A step that enters no request in a table.
NothingEntered ==
    /\ disc' \in [Nodes -> [DSlots -> DiscEntry \cup {NoDisc}]]
    /\ rreq_id' = rreq_id
    /\ \A n \in Nodes, i \in DSlots :
         \/ disc'[n][i] = NoDisc
         \/ /\ disc[n][i] # NoDisc
            /\ disc'[n][i].id = disc[n][i].id /\ disc'[n][i].src = disc[n][i].src
            /\ disc'[n][i].sender = disc[n][i].sender /\ disc'[n][i].dest = disc[n][i].dest
    /\ \A m \in msgs' : m \in msgs \/ (m \in Msg /\ Mentioned(m.src, m.id, m.dest))

LEMMA NothingEnteredKeeps ==
  ASSUME MeshInv, NothingEntered
  PROVE  msgs' \subseteq Msg /\ SendersAreNear' /\ RequestsDiffer' /\ EntryPerRequest'
<1>1. /\ MeshTypes /\ OverLinks /\ SendersAreNear /\ RequestsDiffer /\ EntryPerRequest
      /\ disc \in [Nodes -> [DSlots -> DiscEntry \cup {NoDisc}]] /\ msgs \subseteq Msg
  BY DEF MeshInv, MeshTypes
<1>2. /\ disc' \in [Nodes -> [DSlots -> DiscEntry \cup {NoDisc}]]
      /\ rreq_id' = rreq_id
      /\ \A m \in msgs' : m \in msgs \/ (m \in Msg /\ Mentioned(m.src, m.id, m.dest))
  BY DEF NothingEntered
<1>3. ASSUME NEW n \in Nodes, NEW i \in DSlots, disc'[n][i] # NoDisc
      PROVE  /\ disc[n][i] # NoDisc
             /\ disc'[n][i].id = disc[n][i].id /\ disc'[n][i].src = disc[n][i].src
             /\ disc'[n][i].sender = disc[n][i].sender /\ disc'[n][i].dest = disc[n][i].dest
  BY <1>3 DEF NothingEntered
<1>4. msgs' \subseteq Msg
  BY <1>1, <1>2
<1>5. SendersAreNear'
  <2> SUFFICES ASSUME NEW n2 \in Nodes, NEW i \in DSlots, disc'[n2][i] # NoDisc
               PROVE  \/ disc'[n2][i].sender \in Neighbors(n2)
                      \/ disc'[n2][i].sender = n2 /\ disc'[n2][i].src = n2
    BY DEF SendersAreNear
  <2> QED
    BY <1>1, <1>3 DEF SendersAreNear
<1>6. ASSUME NEW s \in Nodes, NEW x \in Ids, NEW y \in Dests, Mentioned(s, x, y)'
      PROVE  Mentioned(s, x, y)
  <2>1. CASE \E m \in msgs' : m.src = s /\ m.id = x /\ m.dest = y
    BY <2>1, <1>2 DEF Mentioned
  <2>2. ASSUME NEW n2 \in Nodes, NEW i \in DSlots, disc'[n2][i] # NoDisc,
               disc'[n2][i].src = s, disc'[n2][i].id = x, disc'[n2][i].dest = y
        PROVE  Mentioned(s, x, y)
    <3>1. disc[n2][i] # NoDisc /\ IsFor(n2, i, s, x) /\ disc[n2][i].dest = y
      BY <2>2, <1>3 DEF IsFor
    <3> QED
      BY <3>1 DEF Mentioned
  <2> QED
    BY <2>1, <2>2, <1>6 DEF Mentioned, IsFor
<1>7. RequestsDiffer'
  BY <1>1, <1>2, <1>6 DEF RequestsDiffer
<1>8. EntryPerRequest'
  <2> SUFFICES ASSUME NEW n2 \in Nodes, NEW i \in DSlots, NEW j \in DSlots, NEW s \in Nodes,
                      NEW x \in Ids,
                      disc'[n2][i].src = s, disc'[n2][i].id = x,
                      disc'[n2][j].src = s, disc'[n2][j].id = x
               PROVE  i = j
    BY DEF EntryPerRequest, IsFor
  <2>1. disc'[n2][i] # NoDisc /\ disc'[n2][j] # NoDisc
    BY MeshSizes
  <2> QED
    BY <2>1, <1>1, <1>3 DEF EntryPerRequest, IsFor
<1> QED
  BY <1>4, <1>5, <1>7, <1>8

\* A packet's new place.
LEMMA PlacesFit ==
  ASSUME NEW e \in PacketPlace,
         NEW at \in {"fwd", "pend", "air", "done", "dropped"}
  PROVE  /\ [e EXCEPT !.at = at] \in PacketPlace
         /\ [e EXCEPT !.at = at].at = at /\ [e EXCEPT !.at = at].node = e.node
  BY DEF PacketPlace

\* Only packets that wait in no table change their place.
LEMMA OthersMove ==
  ASSUME MeshInv, pend' = pend, pkt' \in [Packets -> PacketPlace], NEW p \in Packets,
         pkt[p].at # "pend", pkt'[p].at # "pend", pkt'[p].at = "fwd" => pkt'[p].node # To[p],
         \A q \in Packets : q # p => pkt'[q] = pkt[q]
  PROVE  PacketsPlaced'
<1>1. PacketsPlaced /\ pend \in [Nodes -> [PSlots -> PendEntry \cup {EmptyPend}]]
  BY DEF MeshInv, MeshTypes
<1>2. ASSUME NEW n \in Nodes, NEW i \in PSlots, pend[n][i] # EmptyPend
      PROVE  pend[n][i].pkt \in Packets /\ pend[n][i].pkt # p
  <2>1. pend[n][i] \in PendEntry
    BY <1>1, <1>2
  <2> QED
    BY <2>1, <1>1, <1>2 DEF PacketsPlaced, PendEntry
<1>3. \A q \in Packets : pkt'[q].at \in {"fwd", "pend"} => pkt'[q].node # To[q]
  BY <1>1 DEF PacketsPlaced
<1>4. \A n \in Nodes, i \in PSlots : pend'[n][i] # EmptyPend =>
         /\ pkt'[pend'[n][i].pkt].at = "pend" /\ pkt'[pend'[n][i].pkt].node = n
         /\ To[pend'[n][i].pkt] \notin Neighbors(n)
  BY <1>1, <1>2 DEF PacketsPlaced
<1>5. \A n \in Nodes, i \in PSlots, j \in PSlots :
         pend'[n][i] # EmptyPend /\ pend'[n][j] # EmptyPend /\ pend'[n][i].pkt = pend'[n][j].pkt
           => i = j
  BY <1>1 DEF PacketsPlaced
<1>6. \A q \in Packets : pkt'[q].at = "pend" => \E i \in PSlots : pend'[pkt'[q].node][i].pkt = q
  BY <1>1 DEF PacketsPlaced
<1> QED
  BY <1>3, <1>4, <1>5, <1>6 DEF PacketsPlaced

LEMMA MeshForward ==
  ASSUME MeshInv, NEW p \in Packets, zb_nwk_forward_unicast(p)
  PROVE  MeshInv'
<1> DEFINE n == pkt[p].node
           d == To[p]
<1>1. /\ MeshTypes /\ OverLinks /\ PacketsPlaced
      /\ pkt \in [Packets -> PacketPlace] /\ pkt[p] \in PacketPlace
      /\ pend \in [Nodes -> [PSlots -> PendEntry \cup {EmptyPend}]]
      /\ route \in [Nodes -> [Dests -> RouteEntry]] /\ bufreq \in [Nodes -> Nat]
      /\ disc \in [Nodes -> [DSlots -> DiscEntry \cup {NoDisc}]]
  BY DEF MeshInv, MeshTypes
<1>2. n \in Nodes /\ d \in Dests /\ d # n /\ pkt[p].at = "fwd"
  <2>1. n \in Nodes
    BY <1>1 DEF PacketPlace
  <2>2. pkt[p].at = "fwd"
    BY DEF zb_nwk_forward_unicast
  <2>3. d \in Dests
    BY MeshSizes
  <2>4. d # n
    BY <1>1, <2>2 DEF PacketsPlaced
  <2> QED
    BY <2>1, <2>2, <2>3, <2>4
<1>3. UNCHANGED <<disc, rreq_id, heard, msgs, forgot>>
  BY DEF zb_nwk_forward_unicast
<1>4. SendersAreNear' /\ RequestsDiffer' /\ EntryPerRequest'
  BY <1>1, <1>3, NothingEnteredKeeps DEF NothingEntered
<1>5. ASSUME NEW next \in Neighbors(n), Transmit(p, n, next)
      PROVE  pkt' \in [Packets -> PacketPlace] /\ PacketsPlaced' /\ UNCHANGED <<pend, bufreq>>
  <2>1. next \in Nodes
    BY <1>5 DEF Neighbors
  <2> DEFINE g == [pkt[p] EXCEPT !.at = "air"]
             e == [g EXCEPT !.node = next]
  <2>2. pkt' = [pkt EXCEPT ![p] = e]
    BY <1>1, <1>5 DEF Transmit
  <2>3. e \in PacketPlace /\ e.at = "air"
    <3>1. g \in PacketPlace /\ g.at = "air"
      BY <1>1 DEF PacketPlace
    <3> HIDE DEF g
    <3> QED
      BY <3>1, <2>1 DEF PacketPlace
  <2> HIDE DEF e
  <2>4. /\ pkt' \in [Packets -> PacketPlace] /\ pkt'[p].at = "air"
        /\ \A q \in Packets : q # p => pkt'[q] = pkt[q]
    BY <1>1, <2>2, <2>3
  <2>5. UNCHANGED <<pend, bufreq>>
    BY <1>5 DEF Transmit
  <2> QED
    BY <1>2, <2>4, <2>5, OthersMove
<1>6. CASE d \in Neighbors(n) /\ Transmit(p, n, d) /\ UNCHANGED route
  <2>1. OverLinks'
    BY <1>1, <1>3, <1>6 DEF OverLinks
  <2> QED
    BY <1>1, <1>3, <1>4, <1>5, <1>6, <2>1 DEF MeshInv, MeshTypes
<1>7. CASE /\ Usable(route[n][d]) /\ Transmit(p, n, route[n][d].next)
           /\ route' = [route EXCEPT ![n][d].status = "active"]
  <2>1. route[n][d].next \in Neighbors(n)
    BY <1>1, <1>2, <1>7 DEF OverLinks
  <2>2. route[n][d] \in RouteEntry
    BY <1>1, <1>2
  <2> DEFINE e == [route[n][d] EXCEPT !.status = "active"]
  <2>3. e \in RouteEntry /\ e.status = "active" /\ e.next = route[n][d].next
    BY <2>2 DEF RouteEntry
  <2>4. route' = [route EXCEPT ![n][d] = e]
    BY <1>1, <1>2, <1>7
  <2> HIDE DEF e
  <2>5. /\ route' \in [Nodes -> [Dests -> RouteEntry]]
        /\ route'[n][d] = e
        /\ \A n2 \in Nodes, d2 \in Dests : n2 # n \/ d2 # d => route'[n2][d2] = route[n2][d2]
    BY <1>1, <1>2, <2>3, <2>4
  <2>6. OverLinks'
    <3>1. \A n2 \in Nodes, d2 \in Dests :
            Usable(route'[n2][d2]) => route'[n2][d2].next \in Neighbors(n2)
      BY <1>1, <2>1, <2>3, <2>5 DEF OverLinks
    <3> QED
      BY <3>1, <1>1, <1>3 DEF OverLinks, Usable
  <2> QED
    BY <1>1, <1>3, <1>4, <1>5, <1>7, <2>1, <2>5, <2>6 DEF MeshInv, MeshTypes
<1>8. CASE d \notin Neighbors(n) /\ AddPending(n, p) /\ UNCHANGED route
  <2>1. OverLinks'
    BY <1>1, <1>3, <1>8 DEF OverLinks
  <2> DEFINE free == {i \in PSlots : pend[n][i] = EmptyPend}
  <2>2. CASE /\ pkt' = [pkt EXCEPT ![p].at = "dropped"]
             /\ UNCHANGED <<pend, bufreq>>
    <3> DEFINE e == [pkt[p] EXCEPT !.at = "dropped"]
    <3>1. e \in PacketPlace /\ e.at = "dropped"
      BY <1>1, <1>2, PlacesFit
    <3>2. pkt' = [pkt EXCEPT ![p] = e]
      BY <1>1, <2>2
    <3> HIDE DEF e
    <3>3. /\ pkt' \in [Packets -> PacketPlace] /\ pkt'[p].at = "dropped"
          /\ \A q \in Packets : q # p => pkt'[q] = pkt[q]
      BY <1>1, <3>1, <3>2
    <3>4. PacketsPlaced'
      BY <1>2, <2>2, <3>3, OthersMove
    <3> QED
      BY <1>1, <1>3, <1>4, <1>8, <2>1, <2>2, <3>3, <3>4 DEF MeshInv, MeshTypes
  <2>3. CASE /\ free # {}
             /\ pkt' = [pkt EXCEPT ![p].at = "pend"]
             /\ pend' = [pend EXCEPT ![n][Min(free)] = [pkt |-> p, waiting |-> TRUE]]
             /\ bufreq' = bufreq \/ bufreq' = [bufreq EXCEPT ![n] = @ + 1]
    <3> DEFINE e == [pkt[p] EXCEPT !.at = "pend"]
               k == Min(free)
               f == [pkt |-> p, waiting |-> TRUE]
    <3>1. e \in PacketPlace /\ e.at = "pend" /\ e.node = n
      BY <1>1, <1>2, PlacesFit
    <3>2. free \subseteq Nat
      BY MeshSizes
    <3>3. k \in free
      BY <2>3, <3>2, LeastOf
    <3>4. k \in PSlots /\ pend[n][k] = EmptyPend
      BY <3>3
    <3>5. f \in PendEntry /\ f # EmptyPend /\ f.pkt = p
      <4>1. f \in PendEntry /\ f.pkt = p
        BY DEF PendEntry
      <4> HIDE DEF f
      <4> QED
        BY <4>1, MeshSizes
    <3>6. pkt' = [pkt EXCEPT ![p] = e] /\ pend' = [pend EXCEPT ![n][k] = f]
      BY <1>1, <2>3
    <3> HIDE DEF e, k, f
    <3>7. /\ pkt' \in [Packets -> PacketPlace] /\ pkt'[p] = e
          /\ \A q \in Packets : q # p => pkt'[q] = pkt[q]
      BY <1>1, <3>1, <3>6
    <3>8. /\ pend' \in [Nodes -> [PSlots -> PendEntry \cup {EmptyPend}]]
          /\ pend'[n][k] = f
          /\ \A n2 \in Nodes, i \in PSlots : n2 # n \/ i # k => pend'[n2][i] = pend[n2][i]
      BY <1>1, <1>2, <3>4, <3>5, <3>6
    <3>9. bufreq' \in [Nodes -> Nat]
      BY <1>1, <1>2, <2>3
    <3>10. ASSUME NEW n2 \in Nodes, NEW i \in PSlots, n2 # n \/ i # k, pend[n2][i] # EmptyPend
           PROVE  pend[n2][i].pkt \in Packets /\ pend[n2][i].pkt # p
      <4>1. pend[n2][i] \in PendEntry
        BY <1>1, <3>10
      <4> QED
        BY <4>1, <1>1, <1>2, <3>10 DEF PacketsPlaced, PendEntry
    <3>11. ASSUME NEW q \in Packets, pkt'[q].at \in {"fwd", "pend"} PROVE pkt'[q].node # To[q]
      <4>1. CASE q = p
        BY <4>1, <1>2, <3>1, <3>7
      <4>2. CASE q # p
        BY <4>2, <1>1, <3>7, <3>11 DEF PacketsPlaced
      <4> QED
        BY <4>1, <4>2
    <3>12. \A n2 \in Nodes, i \in PSlots : pend'[n2][i] # EmptyPend =>
             /\ pkt'[pend'[n2][i].pkt].at = "pend" /\ pkt'[pend'[n2][i].pkt].node = n2
             /\ To[pend'[n2][i].pkt] \notin Neighbors(n2)
      <4> SUFFICES ASSUME NEW n2 \in Nodes, NEW i \in PSlots, pend'[n2][i] # EmptyPend
                   PROVE  /\ pkt'[pend'[n2][i].pkt].at = "pend"
                          /\ pkt'[pend'[n2][i].pkt].node = n2
                          /\ To[pend'[n2][i].pkt] \notin Neighbors(n2)
        OBVIOUS
      <4>1. CASE n2 = n /\ i = k
        BY <4>1, <3>1, <3>5, <3>7, <3>8, <1>8
      <4>2. CASE n2 # n \/ i # k
        BY <4>2, <3>7, <3>8, <3>10, <1>1 DEF PacketsPlaced
      <4> QED
        BY <4>1, <4>2
    <3>13. \A n2 \in Nodes, i \in PSlots, j \in PSlots :
             pend'[n2][i] # EmptyPend /\ pend'[n2][j] # EmptyPend
               /\ pend'[n2][i].pkt = pend'[n2][j].pkt => i = j
      <4> SUFFICES ASSUME NEW n2 \in Nodes, NEW i \in PSlots, NEW j \in PSlots,
                          pend'[n2][i] # EmptyPend, pend'[n2][j] # EmptyPend,
                          pend'[n2][i].pkt = pend'[n2][j].pkt
                   PROVE  i = j
        OBVIOUS
      <4>1. CASE (n2 # n \/ i # k) /\ (n2 # n \/ j # k)
        BY <4>1, <3>8, <1>1 DEF PacketsPlaced
      <4>2. CASE n2 = n /\ (i = k \/ j = k)
        BY <4>2, <3>5, <3>8, <3>10
      <4> QED
        BY <4>1, <4>2
    <3>14. \A q \in Packets : pkt'[q].at = "pend" => \E i \in PSlots : pend'[pkt'[q].node][i].pkt = q
      <4> SUFFICES ASSUME NEW q \in Packets, pkt'[q].at = "pend"
                   PROVE  \E i \in PSlots : pend'[pkt'[q].node][i].pkt = q
        OBVIOUS
      <4>1. CASE q = p
        BY <4>1, <3>1, <3>4, <3>5, <3>7, <3>8
      <4>2. CASE q # p
        <5>1. pkt'[q] = pkt[q] /\ pkt[q].node \in Nodes
          BY <4>2, <3>7, <1>1 DEF PacketPlace
        <5>2. PICK i \in PSlots : pend[pkt[q].node][i].pkt = q
          BY <5>1, <1>1 DEF PacketsPlaced
        <5>3. pkt[q].node # n \/ i # k
          BY <5>2, <3>4, MeshSizes DEF EmptyPend
        <5> QED
          BY <5>1, <5>2, <5>3, <3>8
      <4> QED
        BY <4>1, <4>2
    <3>15. PacketsPlaced'
      BY <3>11, <3>12, <3>13, <3>14 DEF PacketsPlaced
    <3> QED
      BY <1>1, <1>3, <1>4, <1>8, <2>1, <3>7, <3>8, <3>9, <3>15 DEF MeshInv, MeshTypes
  <2> QED
    BY <1>8, <2>2, <2>3 DEF AddPending
<1> QED
  BY <1>6, <1>7, <1>8 DEF zb_nwk_forward_unicast

LEMMA MeshDataIndication ==
  ASSUME MeshInv, NEW p \in Packets, DataIndication(p)
  PROVE  MeshInv'
<1>1. /\ MeshTypes /\ OverLinks
      /\ pkt \in [Packets -> PacketPlace] /\ pkt[p] \in PacketPlace
      /\ disc \in [Nodes -> [DSlots -> DiscEntry \cup {NoDisc}]]
  BY DEF MeshInv, MeshTypes
<1>2. pkt[p].at = "air" /\ UNCHANGED <<route, disc, pend, bufreq, rreq_id, heard, msgs, forgot>>
  BY DEF DataIndication
<1> DEFINE n == pkt[p].node
           r == pkt[p].radius - 1
           e == IF n = To[p] THEN Place("done", n, r)
                ELSE IF r > 0 THEN Place("fwd", n, r) ELSE Place("dropped", n, r)
<1>3. n \in Nodes /\ r \in Int
  BY <1>1 DEF PacketPlace
<1>4. e \in PacketPlace /\ e.at # "pend" /\ (e.at = "fwd" => e.node # To[p])
  BY <1>3 DEF Place, PacketPlace
<1>5. pkt' = [pkt EXCEPT ![p] = e]
  BY DEF DataIndication
<1> HIDE DEF e
<1>6. /\ pkt' \in [Packets -> PacketPlace] /\ pkt'[p] = e
      /\ \A q \in Packets : q # p => pkt'[q] = pkt[q]
  BY <1>1, <1>4, <1>5
<1>7. PacketsPlaced'
  BY <1>2, <1>4, <1>6, OthersMove
<1>8. SendersAreNear' /\ RequestsDiffer' /\ EntryPerRequest'
  BY <1>1, <1>2, NothingEnteredKeeps DEF NothingEntered
<1>9. OverLinks'
  BY <1>1, <1>2 DEF OverLinks
<1> QED
  BY <1>1, <1>2, <1>6, <1>7, <1>8, <1>9 DEF MeshInv, MeshTypes

\* A discovery of one's own is a request with an id that nobody has seen.
LEMMA InitiateIsRreqStep ==
  ASSUME MeshInv, NEW n \in Nodes, zb_nwk_mesh_initiate_route_discovery(n)
  PROVE  \E i \in PSlots :
           /\ pend[n][i].waiting
           /\ RreqStep(n, n, n, rreq_id[n] + 1, To[pend[n][i].pkt], 0, msgs)
           /\ pend' = [pend EXCEPT ![n][i].waiting = FALSE]
           /\ \A d \in Dests : ~Mentioned(n, rreq_id[n] + 1, d)
           /\ rreq_id' = [rreq_id EXCEPT ![n] = rreq_id[n] + 1] /\ rreq_id[n] + 1 \in Ids
<1> DEFINE W == {i \in PSlots : pend[n][i].waiting}
           i == Min(W)
           id == rreq_id[n] + 1
           d == To[pend[n][i].pkt]
<1>1. /\ PacketsPlaced /\ RequestsDiffer
      /\ pend \in [Nodes -> [PSlots -> PendEntry \cup {EmptyPend}]]
      /\ rreq_id \in [Nodes -> 0 .. MaxId]
  BY DEF MeshInv, MeshTypes
<1>2. /\ W # {} /\ rreq_id[n] < MaxId
      /\ pend' = [pend EXCEPT ![n][i].waiting = FALSE]
      /\ rreq_id' = [rreq_id EXCEPT ![n] = id]
      /\ RreqHandler(n, n, n, id, d, 0, msgs)
  BY DEF zb_nwk_mesh_initiate_route_discovery
<1>3. W \subseteq Nat
  BY MeshSizes
<1>4. i \in W
  BY <1>2, <1>3, LeastOf
<1>5. i \in PSlots /\ pend[n][i].waiting
  BY <1>4
<1> HIDE DEF i, W
<1>6. pend[n][i] \in PendEntry /\ pend[n][i] # EmptyPend
  <2>1. EmptyPend.waiting = FALSE
    BY DEF EmptyPend
  <2> QED
    BY <2>1, <1>1, <1>5
<1>7. d \in Dests /\ d \notin Neighbors(n) /\ d # n
  <2>1. pend[n][i].pkt \in Packets
    BY <1>6 DEF PendEntry
  <2>2. pkt[pend[n][i].pkt].at = "pend" /\ pkt[pend[n][i].pkt].node = n /\ d \notin Neighbors(n)
    BY <1>1, <1>5, <1>6 DEF PacketsPlaced
  <2>3. d # n
    BY <1>1, <2>1, <2>2 DEF PacketsPlaced
  <2> QED
    BY <2>1, <2>2, <2>3, MeshSizes
<1>8. rreq_id[n] \in 0 .. MaxId /\ MaxId \in Nat
  BY <1>1, MeshSizes
<1>9. id \in Ids /\ id \in Nat /\ ~(id <= rreq_id[n])
  BY <1>2, <1>8 DEF Ids
<1> HIDE DEF id, d
<1>10. \A e \in Dests : ~Mentioned(n, id, e)
  BY <1>1, <1>9 DEF RequestsDiffer
<1>11. /\ rreq_id' \in [Nodes -> 0 .. MaxId] /\ rreq_id'[n] = id
       /\ \A s \in Nodes : s # n => rreq_id'[s] = rreq_id[s]
  <2>1. id \in 0 .. MaxId
    BY <1>9, <1>8 DEF Ids
  <2> QED
    BY <1>1, <1>2, <2>1
<1>12. \A s \in Nodes : rreq_id[s] <= rreq_id'[s]
  <2> SUFFICES ASSUME NEW s \in Nodes PROVE rreq_id[s] <= rreq_id'[s]
    OBVIOUS
  <2>1. rreq_id[s] \in Int
    BY <1>1, <1>8
  <2> QED
    BY <2>1, <1>8, <1>11 DEF id
<1>13. 0 \in Costs /\ id <= rreq_id'[n] /\ msgs \subseteq msgs
  BY <1>9, <1>11, MeshSizes
<1>14. RreqStep(n, n, n, id, d, 0, msgs)
  BY <1>2, <1>7, <1>9, <1>10, <1>11, <1>12, <1>13 DEF RreqStep
<1> QED
  BY <1>2, <1>5, <1>9, <1>10, <1>14 DEF id, d

LEMMA MeshInitiate ==
  ASSUME MeshInv, NEW n \in Nodes, zb_nwk_mesh_initiate_route_discovery(n)
  PROVE  MeshInv'
<1> DEFINE id == rreq_id[n] + 1
<1>1. /\ MeshTypes /\ PacketsPlaced
      /\ pend \in [Nodes -> [PSlots -> PendEntry \cup {EmptyPend}]]
      /\ rreq_id \in [Nodes -> 0 .. MaxId] /\ bufreq \in [Nodes -> Nat]
      /\ heard \in [Nodes -> SUBSET (Nodes \X Ids)]
  BY DEF MeshInv, MeshTypes
<1>2. PICK i \in PSlots :
        /\ pend[n][i].waiting
        /\ RreqStep(n, n, n, id, To[pend[n][i].pkt], 0, msgs)
        /\ pend' = [pend EXCEPT ![n][i].waiting = FALSE]
        /\ rreq_id' = [rreq_id EXCEPT ![n] = id] /\ id \in Ids
  BY InitiateIsRreqStep
<1>3. /\ route' \in [Nodes -> [Dests -> RouteEntry]]
      /\ disc' \in [Nodes -> [DSlots -> DiscEntry \cup {NoDisc}]]
      /\ msgs' \subseteq Msg
      /\ OverLinks' /\ SendersAreNear' /\ RequestsDiffer' /\ EntryPerRequest'
  BY <1>2, RreqStepKeeps
<1>4. /\ bufreq[n] > 0 /\ bufreq' = [bufreq EXCEPT ![n] = @ - 1]
      /\ heard' = [heard EXCEPT ![n] = @ \cup {<<n, id>>}]
      /\ UNCHANGED <<pkt, forgot>>
  BY DEF zb_nwk_mesh_initiate_route_discovery
<1>5. rreq_id' \in [Nodes -> 0 .. MaxId]
  BY <1>2 DEF RreqStep
<1> HIDE DEF id
<1>6. bufreq' \in [Nodes -> Nat]
  <2>1. bufreq[n] - 1 \in Nat
    BY <1>1, <1>4
  <2> QED
    BY <1>1, <1>4, <2>1
<1>7. heard' \in [Nodes -> SUBSET (Nodes \X Ids)]
  BY <1>1, <1>2, <1>4
<1> DEFINE f == [pend[n][i] EXCEPT !.waiting = FALSE]
<1>8. pend[n][i] \in PendEntry /\ pend[n][i] # EmptyPend
  <2>1. EmptyPend.waiting = FALSE
    BY DEF EmptyPend
  <2> QED
    BY <2>1, <1>1, <1>2
<1>9. f \in PendEntry /\ f.pkt = pend[n][i].pkt
  BY <1>8 DEF PendEntry
<1>10. f # EmptyPend
  BY <1>9, MeshSizes
<1>11. pend' = [pend EXCEPT ![n][i] = f]
  BY <1>1, <1>2
<1> HIDE DEF f
<1>12. /\ pend' \in [Nodes -> [PSlots -> PendEntry \cup {EmptyPend}]]
       /\ \A n2 \in Nodes, j \in PSlots :
            /\ pend'[n2][j].pkt = pend[n2][j].pkt
            /\ pend'[n2][j] # EmptyPend <=> pend[n2][j] # EmptyPend
  BY <1>1, <1>8, <1>9, <1>10, <1>11
<1>13. PacketsPlaced'
  <2>1. \A p \in Packets : pkt'[p].at \in {"fwd", "pend"} => pkt'[p].node # To[p]
    BY <1>1, <1>4 DEF PacketsPlaced
  <2>2. \A n2 \in Nodes, j \in PSlots : pend'[n2][j] # EmptyPend =>
          /\ pkt'[pend'[n2][j].pkt].at = "pend" /\ pkt'[pend'[n2][j].pkt].node = n2
          /\ To[pend'[n2][j].pkt] \notin Neighbors(n2)
    <3> SUFFICES ASSUME NEW n2 \in Nodes, NEW j \in PSlots, pend'[n2][j] # EmptyPend
                 PROVE  /\ pkt'[pend'[n2][j].pkt].at = "pend" /\ pkt'[pend'[n2][j].pkt].node = n2
                        /\ To[pend'[n2][j].pkt] \notin Neighbors(n2)
      OBVIOUS
    <3>1. pend[n2][j] # EmptyPend /\ pend'[n2][j].pkt = pend[n2][j].pkt /\ pkt' = pkt
      BY <1>4, <1>12
    <3>2. /\ pkt[pend[n2][j].pkt].at = "pend" /\ pkt[pend[n2][j].pkt].node = n2
          /\ To[pend[n2][j].pkt] \notin Neighbors(n2)
      BY <1>1, <3>1 DEF PacketsPlaced
    <3> QED
      BY <3>1, <3>2
  <2>3. \A n2 \in Nodes, j \in PSlots, k \in PSlots :
          pend'[n2][j] # EmptyPend /\ pend'[n2][k] # EmptyPend
            /\ pend'[n2][j].pkt = pend'[n2][k].pkt => j = k
    BY <1>1, <1>12 DEF PacketsPlaced
  <2>4. \A p \in Packets : pkt'[p].at = "pend" => \E j \in PSlots : pend'[pkt'[p].node][j].pkt = p
    <3> SUFFICES ASSUME NEW p \in Packets, pkt[p].at = "pend"
                 PROVE  \E j \in PSlots : pend'[pkt[p].node][j].pkt = p
      BY <1>4
    <3>1. pkt[p].node \in Nodes
      BY <1>1 DEF MeshTypes, PacketPlace
    <3> QED
      BY <3>1, <1>1, <1>12 DEF PacketsPlaced
  <2> QED
    BY <2>1, <2>2, <2>3, <2>4 DEF PacketsPlaced
<1> QED
  BY <1>1, <1>3, <1>4, <1>5, <1>6, <1>7, <1>12, <1>13 DEF MeshInv, MeshTypes

LEMMA MeshInitiateForNothing ==
  ASSUME MeshInv, NEW n \in Nodes, InitiateForNothing(n)
  PROVE  MeshInv'
<1>1. /\ MeshTypes /\ OverLinks /\ PacketsPlaced /\ bufreq \in [Nodes -> Nat]
      /\ disc \in [Nodes -> [DSlots -> DiscEntry \cup {NoDisc}]]
  BY DEF MeshInv, MeshTypes
<1>2. /\ bufreq[n] > 0 /\ bufreq' = [bufreq EXCEPT ![n] = @ - 1]
      /\ UNCHANGED <<route, disc, pend, rreq_id, heard, msgs, pkt, forgot>>
  BY DEF InitiateForNothing
<1>3. bufreq[n] - 1 \in Nat
  BY <1>1, <1>2
<1>4. bufreq' \in [Nodes -> Nat]
  BY <1>1, <1>2, <1>3
<1>5. SendersAreNear' /\ RequestsDiffer' /\ EntryPerRequest'
  BY <1>1, <1>2, NothingEnteredKeeps DEF NothingEntered
<1>6. OverLinks' /\ PacketsPlaced'
  BY <1>1, <1>2 DEF OverLinks, PacketsPlaced
<1> QED
  BY <1>1, <1>2, <1>4, <1>5, <1>6 DEF MeshInv, MeshTypes

LEMMA MeshRreqDuplicate ==
  ASSUME MeshInv, NEW m \in msgs, RreqDuplicate(m)
  PROVE  MeshInv'
<1>1. /\ MeshTypes /\ OverLinks /\ PacketsPlaced
      /\ disc \in [Nodes -> [DSlots -> DiscEntry \cup {NoDisc}]]
  BY DEF MeshInv, MeshTypes
<1>2. /\ msgs' = msgs \ {m}
      /\ UNCHANGED <<route, disc, pend, bufreq, rreq_id, heard, pkt, forgot>>
  BY DEF RreqDuplicate
<1>3. msgs' \subseteq Msg /\ SendersAreNear' /\ RequestsDiffer' /\ EntryPerRequest'
  BY <1>1, <1>2, NothingEnteredKeeps DEF NothingEntered
<1>4. OverLinks' /\ PacketsPlaced'
  BY <1>1, <1>2 DEF OverLinks, PacketsPlaced
<1> QED
  BY <1>1, <1>2, <1>3, <1>4 DEF MeshInv, MeshTypes

\* A request that arrives.
LEMMA RreqIsRreqStep ==
  ASSUME MeshInv, NEW m \in msgs, RreqIndication(m)
  PROVE  RreqStep(m.to, m.from, m.src, m.id, m.dest, m.cost, msgs \ {m})
<1>1. /\ OverLinks /\ RequestsDiffer /\ m \in Msg /\ rreq_id \in [Nodes -> 0 .. MaxId]
  BY DEF MeshInv, MeshTypes
<1>2. /\ m.to \in Nodes /\ m.from \in Nodes /\ m.src \in Nodes /\ m.id \in Ids /\ m.dest \in Dests
      /\ m.cost \in Costs
  BY <1>1 DEF Msg
<1>3. m.from \in Neighbors(m.to)
  BY <1>1, LinksJoinTwo DEF OverLinks
<1>4. Mentioned(m.src, m.id, m.dest)
  BY DEF Mentioned
<1>5. m.id <= rreq_id[m.src] /\ \A e \in Dests : Mentioned(m.src, m.id, e) => e = m.dest
  BY <1>1, <1>2, <1>4 DEF RequestsDiffer
<1>6. /\ rreq_id' = rreq_id
      /\ RreqHandler(m.to, m.from, m.src, m.id, m.dest, m.cost, msgs \ {m})
  BY DEF RreqIndication
<1>7. \A s \in Nodes : rreq_id[s] <= rreq_id'[s]
  <2> SUFFICES ASSUME NEW s \in Nodes PROVE rreq_id[s] <= rreq_id[s]
    BY <1>6
  <2>1. rreq_id[s] \in Int
    BY <1>1, MeshSizes
  <2> QED
    BY <2>1
<1> QED
  BY <1>1, <1>2, <1>3, <1>5, <1>6, <1>7 DEF RreqStep

LEMMA MeshRreqIndication ==
  ASSUME MeshInv, NEW m \in msgs, RreqIndication(m)
  PROVE  MeshInv'
<1>1. /\ MeshTypes /\ PacketsPlaced /\ m \in Msg /\ heard \in [Nodes -> SUBSET (Nodes \X Ids)]
  BY DEF MeshInv, MeshTypes
<1>2. /\ route' \in [Nodes -> [Dests -> RouteEntry]]
      /\ disc' \in [Nodes -> [DSlots -> DiscEntry \cup {NoDisc}]]
      /\ msgs' \subseteq Msg
      /\ OverLinks' /\ SendersAreNear' /\ RequestsDiffer' /\ EntryPerRequest'
  BY RreqIsRreqStep, RreqStepKeeps
<1>3. /\ heard' = [heard EXCEPT ![m.to] = @ \cup {<<m.src, m.id>>}]
      /\ UNCHANGED <<pend, bufreq, rreq_id, pkt, forgot>>
  BY DEF RreqIndication
<1>4. m.to \in Nodes /\ m.src \in Nodes /\ m.id \in Ids
  BY <1>1 DEF Msg
<1>5. heard' \in [Nodes -> SUBSET (Nodes \X Ids)]
  BY <1>1, <1>3, <1>4
<1>6. PacketsPlaced'
  BY <1>1, <1>3 DEF PacketsPlaced
<1> QED
  BY <1>1, <1>2, <1>3, <1>5, <1>6 DEF MeshInv, MeshTypes

\* Entries of the pending table are freed, and their packets go on or are gone.
LEMMA FreedPlaces ==
  ASSUME MeshInv, NEW n \in Nodes, NEW S \in SUBSET PSlots,
         pend' = [pend EXCEPT ![n] = Freed(n, S)],
         \A i \in S : pend[n][i].pkt \in Packets =>
           LET p == pend[n][i].pkt IN pkt'[p].node = pkt[p].node /\ pkt'[p].at # "pend",
         \A p \in Packets : (\A i \in S : pend[n][i].pkt # p) => pkt'[p] = pkt[p]
  PROVE  pend' \in [Nodes -> [PSlots -> PendEntry \cup {EmptyPend}]] /\ PacketsPlaced'
<1>1. /\ PacketsPlaced /\ pend \in [Nodes -> [PSlots -> PendEntry \cup {EmptyPend}]]
      /\ pkt \in [Packets -> PacketPlace]
  BY DEF MeshInv, MeshTypes
<1>2. /\ pend' \in [Nodes -> [PSlots -> PendEntry \cup {EmptyPend}]]
      /\ \A n2 \in Nodes, i \in PSlots :
           pend'[n2][i] = IF n2 = n /\ i \in S THEN EmptyPend ELSE pend[n2][i]
  BY <1>1 DEF Freed
<1>3. ASSUME NEW n2 \in Nodes, NEW i \in PSlots, pend'[n2][i] # EmptyPend
      PROVE  /\ pend'[n2][i] = pend[n2][i] /\ pend[n2][i].pkt \in Packets
             /\ ~\E j \in S : pend[n][j].pkt = pend[n2][i].pkt
  <2>1. pend'[n2][i] = pend[n2][i] /\ ~(n2 = n /\ i \in S)
    BY <1>2, <1>3
  <2>2. pend[n2][i] \in PendEntry
    BY <2>1, <1>1, <1>3
  <2>3. pend[n2][i].pkt \in Packets
    BY <2>2 DEF PendEntry
  <2>4. ASSUME NEW j \in S, pend[n][j].pkt = pend[n2][i].pkt PROVE FALSE
    <3>1. j \in PSlots /\ pend[n][j] # EmptyPend
      BY <2>3, <2>4, MeshSizes DEF EmptyPend
    <3>2. n2 = n
      BY <3>1, <2>1, <2>4, <1>1, <1>3 DEF PacketsPlaced
    <3>3. i = j
      BY <3>1, <3>2, <2>1, <2>4, <1>1, <1>3 DEF PacketsPlaced
    <3> QED
      BY <3>2, <3>3, <2>1
  <2> QED
    BY <2>1, <2>3, <2>4
<1>4. \A p \in Packets : pkt'[p].at \in {"fwd", "pend"} => pkt'[p].node # To[p]
  <2> SUFFICES ASSUME NEW p \in Packets, pkt'[p].at \in {"fwd", "pend"} PROVE pkt'[p].node # To[p]
    OBVIOUS
  <2>1. CASE \E i \in S : pend[n][i].pkt = p
    <3>1. PICK i \in S : pend[n][i].pkt = p
      BY <2>1
    <3>2. i \in PSlots /\ pend[n][i] # EmptyPend
      BY <3>1, MeshSizes DEF EmptyPend
    <3>3. pkt[p].at = "pend"
      BY <3>1, <3>2, <1>1 DEF PacketsPlaced
    <3> QED
      BY <3>3, <2>1, <1>1 DEF PacketsPlaced
  <2>2. CASE ~\E i \in S : pend[n][i].pkt = p
    BY <2>2, <1>1 DEF PacketsPlaced
  <2> QED
    BY <2>1, <2>2
<1>5. \A n2 \in Nodes, i \in PSlots : pend'[n2][i] # EmptyPend =>
         /\ pkt'[pend'[n2][i].pkt].at = "pend" /\ pkt'[pend'[n2][i].pkt].node = n2
         /\ To[pend'[n2][i].pkt] \notin Neighbors(n2)
  <2> SUFFICES ASSUME NEW n2 \in Nodes, NEW i \in PSlots, pend'[n2][i] # EmptyPend
               PROVE  /\ pkt'[pend'[n2][i].pkt].at = "pend" /\ pkt'[pend'[n2][i].pkt].node = n2
                      /\ To[pend'[n2][i].pkt] \notin Neighbors(n2)
    OBVIOUS
  <2>1. /\ pend'[n2][i] = pend[n2][i] /\ pend[n2][i].pkt \in Packets
        /\ pkt'[pend[n2][i].pkt] = pkt[pend[n2][i].pkt]
    BY <1>3
  <2> QED
    BY <2>1, <1>1 DEF PacketsPlaced
<1>6. \A n2 \in Nodes, i \in PSlots, j \in PSlots :
         pend'[n2][i] # EmptyPend /\ pend'[n2][j] # EmptyPend /\ pend'[n2][i].pkt = pend'[n2][j].pkt
           => i = j
  BY <1>1, <1>3 DEF PacketsPlaced
<1>7. \A p \in Packets : pkt'[p].at = "pend" => \E i \in PSlots : pend'[pkt'[p].node][i].pkt = p
  <2> SUFFICES ASSUME NEW p \in Packets, pkt'[p].at = "pend"
               PROVE  \E i \in PSlots : pend'[pkt'[p].node][i].pkt = p
    OBVIOUS
  <2>1. ~(\E i \in S : pend[n][i].pkt = p) /\ pkt'[p] = pkt[p] /\ pkt[p].node \in Nodes
    BY <1>1 DEF PacketPlace
  <2>2. PICK i \in PSlots : pend[pkt[p].node][i].pkt = p
    BY <2>1, <1>1 DEF PacketsPlaced
  <2>3. ~(pkt[p].node = n /\ i \in S)
    BY <2>1, <2>2
  <2> QED
    BY <2>1, <2>2, <2>3, <1>2
<1> QED
  BY <1>2, <1>4, <1>5, <1>6, <1>7 DEF PacketsPlaced

LEMMA MeshExpirePending ==
  ASSUME MeshInv, NEW n \in Nodes, NEW i \in PSlots, ExpirePending(n, i)
  PROVE  MeshInv'
<1>1. /\ MeshTypes /\ OverLinks
      /\ disc \in [Nodes -> [DSlots -> DiscEntry \cup {NoDisc}]]
      /\ pend \in [Nodes -> [PSlots -> PendEntry \cup {EmptyPend}]]
      /\ pkt \in [Packets -> PacketPlace]
  BY DEF MeshInv, MeshTypes
<1> DEFINE p == pend[n][i].pkt
           e == [pkt[p] EXCEPT !.at = "dropped"]
<1>2. /\ pend[n][i] # EmptyPend
      /\ pkt' = [pkt EXCEPT ![p].at = "dropped"]
      /\ pend' = [pend EXCEPT ![n] = Freed(n, {i})]
      /\ UNCHANGED <<route, disc, bufreq, rreq_id, heard, msgs, forgot>>
  BY DEF ExpirePending
<1>3. p \in Packets
  <2>1. pend[n][i] \in PendEntry
    BY <1>1, <1>2
  <2> QED
    BY <2>1 DEF PendEntry
<1>4. pkt[p] \in PacketPlace
  BY <1>1, <1>3
<1>5. e \in PacketPlace /\ e.at = "dropped" /\ e.node = pkt[p].node
  BY <1>4, PlacesFit
<1>6. pkt' = [pkt EXCEPT ![p] = e]
  BY <1>1, <1>2, <1>3
<1> HIDE DEF e
<1>7. /\ pkt' \in [Packets -> PacketPlace] /\ pkt'[p] = e
      /\ \A q \in Packets : q # p => pkt'[q] = pkt[q]
  BY <1>1, <1>3, <1>5, <1>6
<1>8. pend' \in [Nodes -> [PSlots -> PendEntry \cup {EmptyPend}]] /\ PacketsPlaced'
  <2> DEFINE S == {i}
  <2>1. /\ \A j \in S : pend[n][j].pkt \in Packets =>
             LET q == pend[n][j].pkt IN pkt'[q].node = pkt[q].node /\ pkt'[q].at # "pend"
        /\ \A q \in Packets : (\A j \in S : pend[n][j].pkt # q) => pkt'[q] = pkt[q]
    BY <1>5, <1>7
  <2>2. S \in SUBSET PSlots /\ pend' = [pend EXCEPT ![n] = Freed(n, S)]
    BY <1>2
  <2> HIDE DEF S
  <2> QED
    BY <2>1, <2>2, FreedPlaces
<1>9. SendersAreNear' /\ RequestsDiffer' /\ EntryPerRequest'
  BY <1>1, <1>2, NothingEnteredKeeps DEF NothingEntered
<1>10. OverLinks'
  BY <1>1, <1>2 DEF OverLinks
<1> QED
  BY <1>1, <1>2, <1>7, <1>8, <1>9, <1>10 DEF MeshInv, MeshTypes

LEMMA MeshExpireDisc ==
  ASSUME MeshInv, NEW n \in Nodes, NEW i \in DSlots, ExpireDisc(n, i)
  PROVE  MeshInv'
<1>1. /\ MeshTypes /\ OverLinks /\ PacketsPlaced
      /\ disc \in [Nodes -> [DSlots -> DiscEntry \cup {NoDisc}]]
      /\ route \in [Nodes -> [Dests -> RouteEntry]]
  BY DEF MeshInv, MeshTypes
<1>2. /\ disc[n][i] # NoDisc
      /\ disc' = [disc EXCEPT ![n][i] = NoDisc]
      /\ msgs' \subseteq msgs
      /\ UNCHANGED <<pend, bufreq, rreq_id, heard, pkt, forgot>>
  BY DEF ExpireDisc
<1>3. route' = route \/ \E d \in Dests : route' = [route EXCEPT ![n][d] = NoRoute]
  BY DEF ExpireDisc, GivenUp, Matching
<1>4. NoRoute \in RouteEntry /\ ~Usable(NoRoute)
  BY DEF NoRoute, RouteEntry, Usable
<1>5. /\ disc' \in [Nodes -> [DSlots -> DiscEntry \cup {NoDisc}]]
      /\ disc'[n][i] = NoDisc
      /\ \A n2 \in Nodes, j \in DSlots : n2 # n \/ j # i => disc'[n2][j] = disc[n2][j]
  BY <1>1, <1>2
<1>6. msgs' \subseteq Msg /\ SendersAreNear' /\ RequestsDiffer' /\ EntryPerRequest'
  <2>1. NothingEntered
    BY <1>2, <1>5 DEF NothingEntered
  <2> QED
    BY <2>1, NothingEnteredKeeps
<1>7. /\ route' \in [Nodes -> [Dests -> RouteEntry]]
      /\ \A n2 \in Nodes, d2 \in Dests : route'[n2][d2] \in {route[n2][d2], NoRoute}
  <2>1. CASE route' = route
    BY <2>1, <1>1
  <2>2. ASSUME NEW d \in Dests, route' = [route EXCEPT ![n][d] = NoRoute]
        PROVE  /\ route' \in [Nodes -> [Dests -> RouteEntry]]
               /\ \A n2 \in Nodes, d2 \in Dests : route'[n2][d2] \in {route[n2][d2], NoRoute}
    BY <2>2, <1>1, <1>4
  <2> QED
    BY <2>1, <2>2, <1>3
<1>10. OverLinks'
  <2>1. \A n2 \in Nodes, d2 \in Dests :
          Usable(route'[n2][d2]) => route'[n2][d2].next \in Neighbors(n2)
    BY <1>1, <1>4, <1>7 DEF OverLinks
  <2> QED
    BY <2>1, <1>1, <1>2 DEF OverLinks, Usable
<1>12. PacketsPlaced'
  BY <1>1, <1>2 DEF PacketsPlaced
<1> QED
  BY <1>1, <1>2, <1>5, <1>6, <1>7, <1>10, <1>12 DEF MeshInv, MeshTypes

\* A reply without its request: the entries of the request are freed, and the
\* route with them.
LEMMA RrepUnknown ==
  ASSUME MeshInv, NEW m \in msgs,
         LET n == m.to
             known == KnownDisc(n, m.id, m.src)
         IN  /\ disc' = [disc EXCEPT ![n] =
                           [i \in DSlots |-> IF i \in known THEN NoDisc ELSE @[i]]]
             /\ route' = [route EXCEPT ![n][m.dest] = NoRoute]
             /\ msgs' = msgs \ {m}
             /\ forgot' = IF known = {} THEN forgot ELSE forgot \cup {<<m.src, m.id>>},
         UNCHANGED <<pend, pkt, bufreq, rreq_id, heard>>
  PROVE  MeshInv'
<1> DEFINE n == m.to
           d == m.dest
           known == KnownDisc(n, m.id, m.src)
<1>1. /\ MeshTypes /\ OverLinks /\ PacketsPlaced /\ RequestsDiffer
      /\ disc \in [Nodes -> [DSlots -> DiscEntry \cup {NoDisc}]]
      /\ route \in [Nodes -> [Dests -> RouteEntry]] /\ m \in Msg
      /\ forgot \subseteq Nodes \X Ids
  BY DEF MeshInv, MeshTypes
<1>2. n \in Nodes /\ d \in Dests /\ m.src \in Nodes /\ m.id \in Ids
  BY <1>1 DEF Msg
<1>3. /\ disc' = [disc EXCEPT ![n] = [i \in DSlots |-> IF i \in known THEN NoDisc ELSE disc[n][i]]]
      /\ route' = [route EXCEPT ![n][d] = NoRoute] /\ msgs' = msgs \ {m}
      /\ forgot' = forgot \/ forgot' = forgot \cup {<<m.src, m.id>>}
      /\ UNCHANGED <<pend, pkt, bufreq, rreq_id, heard>>
  BY <1>1, <1>2
<1>4. \A i \in known : i \in DSlots /\ IsFor(n, i, m.src, m.id)
  BY DEF KnownDisc, IsFor
<1> HIDE DEF known
<1>5. /\ disc' \in [Nodes -> [DSlots -> DiscEntry \cup {NoDisc}]]
      /\ \A n2 \in Nodes, j \in DSlots :
           disc'[n2][j] = IF n2 = n /\ j \in known THEN NoDisc ELSE disc[n2][j]
  BY <1>1, <1>2, <1>3
<1>6. msgs' \subseteq Msg /\ SendersAreNear' /\ RequestsDiffer' /\ EntryPerRequest'
  <2>1. NothingEntered
    BY <1>3, <1>5 DEF NothingEntered
  <2> QED
    BY <2>1, NothingEnteredKeeps
<1>7. NoRoute \in RouteEntry /\ NoRoute.status = "none"
  BY DEF NoRoute, RouteEntry
<1>8. /\ route' \in [Nodes -> [Dests -> RouteEntry]] /\ route'[n][d] = NoRoute
      /\ \A n2 \in Nodes, d2 \in Dests : n2 # n \/ d2 # d => route'[n2][d2] = route[n2][d2]
  BY <1>1, <1>2, <1>3, <1>7
<1>9. OverLinks'
  <2>1. \A n2 \in Nodes, d2 \in Dests :
          Usable(route'[n2][d2]) => route'[n2][d2].next \in Neighbors(n2)
    BY <1>1, <1>2, <1>7, <1>8 DEF OverLinks, Usable
  <2> QED
    BY <2>1, <1>1, <1>3 DEF OverLinks, Usable
<1>11. PacketsPlaced'
  BY <1>1, <1>3 DEF PacketsPlaced
<1>12. forgot' \subseteq Nodes \X Ids
  BY <1>1, <1>2, <1>3
<1> QED
  BY <1>1, <1>3, <1>5, <1>6, <1>8, <1>9, <1>11, <1>12 DEF MeshInv, MeshTypes

\* A reply that is used: it gives the next hop, and goes to the sender that was
\* noted or sets the packets free.
LEMMA MeshRrepHandler ==
  ASSUME MeshInv, NEW m \in msgs, zb_nwk_mesh_rrep_handler(m)
  PROVE  MeshInv'
<1> DEFINE n == m.to
           d == m.dest
           r == route[n][d]
           cost == (PathCost(n, m.from) + m.cost) % CostSize
           known == KnownDisc(n, m.id, m.src)
           k == Min(known)
           mine == {i \in PSlots : pend[n][i] # EmptyPend /\ To[pend[n][i].pkt] = d}
           ready == {pend[n][i].pkt : i \in mine}
<1>1. /\ MeshTypes /\ OverLinks /\ SendersAreNear /\ PacketsPlaced
      /\ disc \in [Nodes -> [DSlots -> DiscEntry \cup {NoDisc}]]
      /\ pend \in [Nodes -> [PSlots -> PendEntry \cup {EmptyPend}]]
      /\ route \in [Nodes -> [Dests -> RouteEntry]] /\ m \in Msg /\ msgs \subseteq Msg
      /\ pkt \in [Packets -> PacketPlace]
  BY DEF MeshInv, MeshTypes
<1>2. /\ n \in Nodes /\ m.from \in Nodes /\ d \in Dests /\ m.src \in Nodes /\ m.id \in Ids
      /\ m.cost \in Costs /\ m.from \in Neighbors(n)
  <2>1. m.to \in Neighbors(m.from)
    BY <1>1 DEF OverLinks
  <2> QED
    BY <2>1, <1>1, LinksJoinTwo DEF Msg
<1>3. CASE /\ disc' = [disc EXCEPT ![n] =
                         [i \in DSlots |-> IF i \in known THEN NoDisc ELSE @[i]]]
           /\ route' = [route EXCEPT ![n][d] = NoRoute]
           /\ msgs' = msgs \ {m}
           /\ forgot' = IF known = {} THEN forgot ELSE forgot \cup {<<m.src, m.id>>}
           /\ UNCHANGED <<pend, pkt, bufreq, rreq_id, heard>>
  BY <1>3, RrepUnknown
<1>4. CASE msgs' = msgs \ {m} /\ UNCHANGED <<route, disc, pend, pkt, forgot, bufreq, rreq_id, heard>>
  <2>1. msgs' \subseteq Msg /\ SendersAreNear' /\ RequestsDiffer' /\ EntryPerRequest'
    BY <1>1, <1>4, NothingEnteredKeeps DEF NothingEntered
  <2>2. OverLinks' /\ PacketsPlaced'
    BY <1>1, <1>4 DEF OverLinks, PacketsPlaced
  <2> QED
    BY <1>1, <1>4, <2>1, <2>2 DEF MeshInv, MeshTypes
<1>5. CASE /\ known # {} /\ r.status # "none"
           /\ disc' = [disc EXCEPT ![n][k].res = cost]
           /\ route' = [route EXCEPT ![n][d] =
                          [r EXCEPT !.status = IF @ = "underway" THEN "valid" ELSE @,
                                    !.next = NextHop(m)]]
           /\ IF m.src = n
              THEN /\ pend' = [pend EXCEPT ![n] = Freed(n, mine)]
                   /\ pkt' = [p \in Packets |->
                                IF p \in ready THEN [pkt[p] EXCEPT !.at = "fwd"] ELSE pkt[p]]
                   /\ msgs' = msgs \ {m}
              ELSE /\ msgs' = (msgs \ {m}) \cup Rrep(n, disc[n][k].sender, m.src, m.id, d, cost)
                   /\ UNCHANGED <<pend, pkt>>
           /\ UNCHANGED <<forgot, bufreq, rreq_id, heard>>
  <2>1. /\ k \in DSlots /\ IsFor(n, k, m.src, m.id)
        /\ disc[n][k] # NoDisc /\ disc[n][k] \in DiscEntry
    <3>1. known \subseteq Nat /\ known # {}
      BY <1>5, MeshSizes DEF KnownDisc
    <3> HIDE DEF known
    <3>2. k \in known
      BY <3>1, LeastOf
    <3>3. k \in DSlots /\ IsFor(n, k, m.src, m.id)
      BY <3>2 DEF known, KnownDisc, IsFor
    <3>4. disc[n][k] # NoDisc
      BY <3>3, <1>2, MeshSizes DEF IsFor
    <3> QED
      BY <3>3, <3>4, <1>1, <1>2
  <2>2. cost \in Costs
    BY <1>2, CostFits
  <2> DEFINE e == [disc[n][k] EXCEPT !.res = cost]
             rt == [r EXCEPT !.status = IF @ = "underway" THEN "valid" ELSE @, !.next = m.from]
  <2>3. disc' = [disc EXCEPT ![n][k] = e] /\ route' = [route EXCEPT ![n][d] = rt]
    BY <1>1, <1>2, <1>5, <2>1 DEF NextHop
  <2> HIDE DEF k, cost, known
  <2>4. /\ e \in DiscEntry /\ e.id = disc[n][k].id /\ e.src = disc[n][k].src
        /\ e.sender = disc[n][k].sender /\ e.dest = disc[n][k].dest
    <3> DEFINE x == disc[n][k]
    <3>1. x \in DiscEntry
      BY <2>1
    <3> HIDE DEF x
    <3>2. LET y == [x EXCEPT !.res = cost]
          IN y \in DiscEntry /\ y.id = x.id /\ y.src = x.src /\ y.sender = x.sender /\ y.dest = x.dest
      BY <3>1, <2>2 DEF DiscEntry
    <3> QED
      BY <3>2 DEF x
  <2>5. rt \in RouteEntry /\ rt.next \in Neighbors(n)
    <3>1. r \in RouteEntry
      BY <1>1, <1>2
    <3>2. m.from \in Nat
      BY <1>2, MeshSizes
    <3> HIDE DEF r
    <3>3. rt = [status |-> IF r.status = "underway" THEN "valid" ELSE r.status,
                next |-> m.from, slot |-> r.slot]
      <4> DEFINE g == [r EXCEPT !.status = IF @ = "underway" THEN "valid" ELSE @]
      <4>1. r = [status |-> r.status, next |-> r.next, slot |-> r.slot]
        BY <3>1 DEF RouteEntry
      <4>2. g = [status |-> IF r.status = "underway" THEN "valid" ELSE r.status,
                 next |-> r.next, slot |-> r.slot]
        BY <4>1
      <4> HIDE DEF g
      <4>3. [g EXCEPT !.next = m.from]
              = [status |-> IF r.status = "underway" THEN "valid" ELSE r.status,
                 next |-> m.from, slot |-> r.slot]
        BY <4>2
      <4> QED
        BY <4>3 DEF g
    <3>4. /\ r.status \in {"none", "underway", "valid", "active"}
          /\ r.slot \in RSlots \cup {0}
      BY <3>1 DEF RouteEntry
    <3> HIDE DEF rt
    <3>5. rt.next = m.from
      BY <3>3
    <3>6. rt \in RouteEntry
      BY <3>2, <3>3, <3>4 DEF RouteEntry
    <3> QED
      BY <3>5, <3>6, <1>2
  <2> HIDE DEF e, rt
  <2>6. e # NoDisc
    BY <2>4, MeshSizes
  <2>7. /\ disc' \in [Nodes -> [DSlots -> DiscEntry \cup {NoDisc}]] /\ disc'[n][k] = e
        /\ \A n2 \in Nodes, i \in DSlots : n2 # n \/ i # k => disc'[n2][i] = disc[n2][i]
    BY <1>1, <1>2, <2>1, <2>3, <2>4
  <2>8. /\ route' \in [Nodes -> [Dests -> RouteEntry]] /\ route'[n][d] = rt
        /\ \A n2 \in Nodes, d2 \in Dests : n2 # n \/ d2 # d => route'[n2][d2] = route[n2][d2]
    BY <1>1, <1>2, <2>3, <2>5
  <2>9. ASSUME NEW x \in msgs', x \notin msgs
        PROVE  /\ x \in Msg /\ x.to \in Neighbors(x.from)
               /\ x.src = m.src /\ x.id = m.id /\ x.dest = d
    <3>1. m.src # n /\ x \in Rrep(n, disc[n][k].sender, m.src, m.id, d, cost)
      BY <1>5, <2>9
    <3>2. disc[n][k].sender \in Neighbors(n)
      BY <3>1, <2>1, <1>1, <1>2 DEF SendersAreNear, IsFor
    <3>3. disc[n][k].sender \in Nodes
      BY <2>1 DEF DiscEntry
    <3>4. x = [t |-> "rrep", from |-> n, to |-> disc[n][k].sender, src |-> m.src, id |-> m.id,
               dest |-> d, cost |-> cost]
      BY <3>1 DEF Rrep
    <3> QED
      BY <3>2, <3>3, <3>4, <1>2, <2>2 DEF Msg
  <2>10. msgs' \subseteq Msg /\ SendersAreNear' /\ RequestsDiffer' /\ EntryPerRequest'
    <3>1. Mentioned(m.src, m.id, d)
      BY DEF Mentioned
    <3>2. \A x \in msgs' : x \in msgs \/ (x \in Msg /\ Mentioned(x.src, x.id, x.dest))
      BY <3>1, <2>9
    <3>3. \A n2 \in Nodes, i \in DSlots :
            \/ disc'[n2][i] = NoDisc
            \/ /\ disc[n2][i] # NoDisc
               /\ disc'[n2][i].id = disc[n2][i].id /\ disc'[n2][i].src = disc[n2][i].src
               /\ disc'[n2][i].sender = disc[n2][i].sender /\ disc'[n2][i].dest = disc[n2][i].dest
      <4> SUFFICES ASSUME NEW n2 \in Nodes, NEW i \in DSlots, disc'[n2][i] # NoDisc
                   PROVE  /\ disc[n2][i] # NoDisc
                          /\ disc'[n2][i].id = disc[n2][i].id /\ disc'[n2][i].src = disc[n2][i].src
                          /\ disc'[n2][i].sender = disc[n2][i].sender
                          /\ disc'[n2][i].dest = disc[n2][i].dest
        OBVIOUS
      <4>1. CASE n2 = n /\ i = k
        BY <4>1, <2>1, <2>4, <2>7
      <4>2. CASE n2 # n \/ i # k
        BY <4>2, <2>7
      <4> QED
        BY <4>1, <4>2
    <3>4. NothingEntered
      BY <1>5, <2>7, <3>2, <3>3 DEF NothingEntered
    <3> QED
      BY <3>4, NothingEnteredKeeps
  <2>11. OverLinks'
    <3>1. \A n2 \in Nodes, d2 \in Dests :
            Usable(route'[n2][d2]) => route'[n2][d2].next \in Neighbors(n2)
      BY <1>1, <2>5, <2>8 DEF OverLinks
    <3>2. \A x \in msgs' : x.to \in Neighbors(x.from)
      BY <1>1, <2>9 DEF OverLinks
    <3> QED
      BY <3>1, <3>2 DEF OverLinks, Usable
  <2>13. /\ pend' \in [Nodes -> [PSlots -> PendEntry \cup {EmptyPend}]]
         /\ pkt' \in [Packets -> PacketPlace] /\ PacketsPlaced'
    <3>1. CASE m.src = n
      <4>1. /\ pend' = [pend EXCEPT ![n] = Freed(n, mine)]
            /\ pkt' = [p \in Packets |->
                         IF p \in ready THEN [pkt[p] EXCEPT !.at = "fwd"] ELSE pkt[p]]
        BY <1>5, <3>1
      <4>2. \A p \in Packets : LET x == [pkt[p] EXCEPT !.at = "fwd"]
                               IN x \in PacketPlace /\ x.at = "fwd" /\ x.node = pkt[p].node
        BY <1>1, PlacesFit
      <4>3. pkt' \in [Packets -> PacketPlace]
        BY <1>1, <4>1, <4>2
      <4>4. mine \in SUBSET PSlots
        OBVIOUS
      <4>5. \A p \in Packets : p \in ready <=> \E i \in mine : pend[n][i].pkt = p
        OBVIOUS
      <4> HIDE DEF mine, ready
      <4>6. /\ \A i \in mine : pend[n][i].pkt \in Packets =>
                 LET p == pend[n][i].pkt IN pkt'[p].node = pkt[p].node /\ pkt'[p].at # "pend"
            /\ \A p \in Packets : (\A i \in mine : pend[n][i].pkt # p) => pkt'[p] = pkt[p]
        BY <4>1, <4>2, <4>5
      <4> QED
        BY <1>2, <4>1, <4>3, <4>4, <4>6, FreedPlaces
    <3>2. CASE m.src # n
      <4>1. UNCHANGED <<pend, pkt>>
        BY <1>5, <3>2
      <4> QED
        BY <4>1, <1>1 DEF PacketsPlaced
    <3> QED
      BY <3>1, <3>2
  <2> QED
    BY <1>1, <1>5, <2>7, <2>8, <2>10, <2>11, <2>13 DEF MeshInv, MeshTypes
<1> QED
  BY <1>3, <1>4, <1>5 DEF zb_nwk_mesh_rrep_handler

-----------------------------------------------------------------------------
(* The theorems about the tables.                                           *)

LEMMA MeshStarts ==
  ASSUME MeshInit
  PROVE  MeshInv
<1>1. /\ route = [n \in Nodes |-> [d \in Dests |-> NoRoute]]
      /\ disc = [n \in Nodes |-> [i \in DSlots |-> NoDisc]]
      /\ pend = [n \in Nodes |-> [i \in PSlots |-> EmptyPend]]
      /\ bufreq = [n \in Nodes |-> 0]
      /\ rreq_id = [n \in Nodes |-> 0]
      /\ heard = [n \in Nodes |-> {}]
      /\ msgs = {}
      /\ pkt = [p \in Packets |-> Place("fwd", From[p], MaxRadius)]
      /\ forgot = {}
  BY DEF MeshInit
<1>2. NoRoute \in RouteEntry /\ NoRoute.status = "none"
  BY DEF NoRoute, RouteEntry
<1>3. \A p \in Packets : /\ pkt[p] \in PacketPlace /\ pkt[p].at = "fwd"
                         /\ pkt[p].node = From[p] /\ From[p] # To[p]
  <2> SUFFICES ASSUME NEW p \in Packets
               PROVE  /\ pkt[p] \in PacketPlace /\ pkt[p].at = "fwd"
                      /\ pkt[p].node = From[p] /\ From[p] # To[p]
    OBVIOUS
  <2>1. From[p] \in Nodes /\ From[p] # To[p] /\ MaxRadius \in Int
    BY MeshAssumption
  <2>2. pkt[p] = [at |-> "fwd", node |-> From[p], radius |-> MaxRadius]
    BY <1>1 DEF Place
  <2> QED
    BY <2>1, <2>2 DEF PacketPlace
<1>4. /\ \A n \in Nodes, i \in DSlots : disc[n][i] = NoDisc
      /\ \A n \in Nodes, i \in PSlots : pend[n][i] = EmptyPend
      /\ \A n \in Nodes, d \in Dests : route[n][d] = NoRoute
  BY <1>1
<1>5. MeshTypes
  <2>1. \A n \in Nodes : rreq_id[n] \in 0 .. MaxId
    BY <1>1, MeshSizes
  <2>2. pkt \in [Packets -> PacketPlace]
    BY <1>1, <1>3
  <2>3. /\ route \in [Nodes -> [Dests -> RouteEntry]]
        /\ disc \in [Nodes -> [DSlots -> DiscEntry \cup {NoDisc}]]
        /\ pend \in [Nodes -> [PSlots -> PendEntry \cup {EmptyPend}]]
        /\ bufreq \in [Nodes -> Nat]
        /\ heard \in [Nodes -> SUBSET (Nodes \X Ids)]
    BY <1>1, <1>2
  <2>4. rreq_id \in [Nodes -> 0 .. MaxId]
    BY <1>1, <2>1
  <2>5. msgs \subseteq Msg /\ forgot \subseteq Nodes \X Ids
    BY <1>1
  <2> QED
    BY <2>2, <2>3, <2>4, <2>5 DEF MeshTypes
<1>6. OverLinks
  <2>1. \A n \in Nodes, d \in Dests : ~Usable(route[n][d])
    BY <1>2, <1>4 DEF Usable
  <2> QED
    BY <2>1, <1>1 DEF OverLinks
<1>7. SendersAreNear
  BY <1>4 DEF SendersAreNear
<1>8. PacketsPlaced
  BY <1>3, <1>4 DEF PacketsPlaced
<1>9. RequestsDiffer
  BY <1>1, <1>4 DEF RequestsDiffer, Mentioned
<1>10. EntryPerRequest
  <2>1. \A n \in Nodes, i \in DSlots, src \in Nodes, id \in Ids : ~IsFor(n, i, src, id)
    BY <1>4, MeshSizes DEF IsFor
  <2> QED
    BY <2>1 DEF EntryPerRequest
<1> QED
  BY <1>5, <1>6, <1>7, <1>8, <1>9, <1>10 DEF MeshInv

LEMMA MeshStep ==
  ASSUME MeshInv, [MeshNext]_meshVars
  PROVE  MeshInv'
<1>1. CASE UNCHANGED meshVars
  <2>1. UNCHANGED <<route, disc, pend, bufreq, rreq_id, heard, msgs, pkt, forgot>>
    BY <1>1 DEF meshVars
  <2>2. /\ MeshTypes /\ OverLinks /\ SendersAreNear /\ PacketsPlaced /\ RequestsDiffer
        /\ EntryPerRequest
    BY DEF MeshInv
  <2>3. MeshTypes'
    BY <2>1, <2>2 DEF MeshTypes
  <2>4. OverLinks' /\ SendersAreNear' /\ PacketsPlaced'
    BY <2>1, <2>2 DEF OverLinks, SendersAreNear, PacketsPlaced
  <2>5. RequestsDiffer'
    BY <2>1, <2>2 DEF RequestsDiffer, Mentioned, IsFor
  <2>6. EntryPerRequest'
    BY <2>1, <2>2 DEF EntryPerRequest, IsFor
  <2> QED
    BY <2>3, <2>4, <2>5, <2>6 DEF MeshInv
<1>2. ASSUME NEW p \in Packets, zb_nwk_forward_unicast(p) PROVE MeshInv'
  BY <1>2, MeshForward
<1>3. ASSUME NEW p \in Packets, DataIndication(p) PROVE MeshInv'
  BY <1>3, MeshDataIndication
<1>4. ASSUME NEW n \in Nodes, zb_nwk_mesh_initiate_route_discovery(n) PROVE MeshInv'
  BY <1>4, MeshInitiate
<1>5. ASSUME NEW n \in Nodes, InitiateForNothing(n) PROVE MeshInv'
  BY <1>5, MeshInitiateForNothing
<1>6. ASSUME NEW n \in Nodes, NEW i \in DSlots, ExpireDisc(n, i) PROVE MeshInv'
  BY <1>6, MeshExpireDisc
<1>7. ASSUME NEW n \in Nodes, NEW i \in PSlots, ExpirePending(n, i) PROVE MeshInv'
  BY <1>7, MeshExpirePending
<1>8. ASSUME NEW m \in msgs, RreqDuplicate(m) PROVE MeshInv'
  BY <1>8, MeshRreqDuplicate
<1>9. ASSUME NEW m \in msgs, RreqIndication(m) PROVE MeshInv'
  BY <1>9, MeshRreqIndication
<1>10. ASSUME NEW m \in msgs, zb_nwk_mesh_rrep_handler(m) PROVE MeshInv'
  BY <1>10, MeshRrepHandler
<1> QED
  BY <1>1, <1>2, <1>3, <1>4, <1>5, <1>6, <1>7, <1>8, <1>9, <1>10 DEF MeshNext

\* The tables of the routers keep to the inductive invariant.
THEOREM MeshInvariant == MeshSpec => []MeshInv
<1>1. MeshInit => MeshInv
  BY MeshStarts
<1>2. MeshInv /\ [MeshNext]_meshVars => MeshInv'
  BY MeshStep
<1> QED
  BY <1>1, <1>2, PTL DEF MeshSpec

\* A route that zb_nwk_forward() may use leads to a neighbor, and the states of
\* routes and packets are the ones zb_nwk.h knows: MeshTypeOK.
THEOREM MeshTypeCorrect == MeshSpec => []MeshTypeOK
<1>1. MeshInv => MeshTypeOK
  <2> SUFFICES ASSUME MeshInv PROVE MeshTypeOK
    OBVIOUS
  <2>1. /\ route \in [Nodes -> [Dests -> RouteEntry]] /\ pkt \in [Packets -> PacketPlace]
        /\ OverLinks
    BY DEF MeshInv, MeshTypes
  <2>2. \A n \in Nodes, d \in Dests :
          route[n][d].status \in {"none", "underway", "valid", "active"}
    <3> SUFFICES ASSUME NEW n \in Nodes, NEW d \in Dests
                 PROVE  route[n][d].status \in {"none", "underway", "valid", "active"}
      OBVIOUS
    <3>1. route[n][d] \in RouteEntry
      BY <2>1
    <3> QED
      BY <3>1 DEF RouteEntry
  <2>3. \A p \in Packets : pkt[p].at \in {"fwd", "pend", "air", "done", "dropped"}
    <3> SUFFICES ASSUME NEW p \in Packets
                 PROVE  pkt[p].at \in {"fwd", "pend", "air", "done", "dropped"}
      OBVIOUS
    <3>1. pkt[p] \in PacketPlace
      BY <2>1
    <3> QED
      BY <3>1 DEF PacketPlace
  <2> QED
    BY <2>1, <2>2, <2>3 DEF MeshTypeOK, OverLinks
<1> QED
  BY <1>1, MeshInvariant, PTL

\* Whatever order requests, late copies, replies and expiries come in, a packet
\* is in the pending table of the node that holds it, once and only while it
\* waits, and a request has one entry in the discovery table of a node: HeldOnce.
THEOREM TablesHoldOnce == MeshSpec => []HeldOnce
<1>1. MeshInv => HeldOnce
  <2> SUFFICES ASSUME MeshInv PROVE HeldOnce
    OBVIOUS
  <2>1. /\ PacketsPlaced /\ EntryPerRequest /\ pkt \in [Packets -> PacketPlace]
        /\ disc \in [Nodes -> [DSlots -> DiscEntry \cup {NoDisc}]]
    BY DEF MeshInv, MeshTypes
  <2>2. ASSUME NEW p \in Packets
        PROVE  Cardinality({ni \in Nodes \X PSlots : pend[ni[1]][ni[2]].pkt = p})
                 = IF pkt[p].at = "pend" THEN 1 ELSE 0
    <3> DEFINE S == {ni \in Nodes \X PSlots : pend[ni[1]][ni[2]].pkt = p}
    <3>1. \A n \in Nodes, i \in PSlots : pend[n][i].pkt = p =>
            /\ pend[n][i] # EmptyPend /\ pkt[p].at = "pend" /\ pkt[p].node = n
      BY <2>1, MeshSizes DEF EmptyPend, PacketsPlaced
    <3>2. CASE pkt[p].at = "pend"
      <4>1. pkt[p].node \in Nodes
        BY <2>1 DEF PacketPlace
      <4>2. PICK i \in PSlots : pend[pkt[p].node][i].pkt = p
        BY <2>1, <3>2 DEF PacketsPlaced
      <4>3. \A n \in Nodes, j \in PSlots : pend[n][j].pkt = p => n = pkt[p].node /\ j = i
        BY <2>1, <3>1, <4>1, <4>2 DEF PacketsPlaced
      <4>4. S = {<<pkt[p].node, i>>}
        BY <4>1, <4>2, <4>3
      <4> QED
        BY <3>2, <4>4, FS_Singleton
    <3>3. CASE pkt[p].at # "pend"
      <4>1. S = {}
        BY <3>1, <3>3
      <4> QED
        BY <3>3, <4>1, FS_EmptySet
    <3> QED
      BY <3>2, <3>3
  <2>3. OneEntry
    <3> SUFFICES ASSUME NEW n \in Nodes, NEW i \in DSlots, NEW j \in DSlots,
                        disc[n][i] # NoDisc, disc[n][j] # NoDisc,
                        disc[n][i].id = disc[n][j].id, disc[n][i].src = disc[n][j].src
                 PROVE  i = j
      BY DEF OneEntry
    <3>1. disc[n][i] \in DiscEntry
      BY <2>1
    <3>2. disc[n][i].src \in Nodes /\ disc[n][i].id \in Ids
      BY <3>1 DEF DiscEntry
    <3> QED
      BY <3>2, <2>1 DEF EntryPerRequest, IsFor
  <2> QED
    BY <2>2, <2>3 DEF HeldOnce, PacketHeldOnce
<1> QED
  BY <1>1, MeshInvariant, PTL

-----------------------------------------------------------------------------
(* The senders of a request lead back to its originator.                    *)

\* The cost of an entry, and the copies of a request on the air.
Flying(src, id) == {m \in msgs : m.t = "rreq" /\ m.src = src /\ m.id = id}
HasEntry(n, src, id) == \E i \in DSlots : IsFor(n, i, src, id)
Spread(src, id) == {n \in Nodes \ {src} : HasEntry(n, src, id)}

\* The sender that a node notes has had a cheaper path.
Descends(src, id) ==
    \A n \in Nodes \ {src}, i \in DSlots, j \in DSlots :
        IsFor(n, i, src, id) /\ disc[n][i].sender # src /\ IsFor(disc[n][i].sender, j, src, id)
          => disc[disc[n][i].sender][j].fwd < disc[n][i].fwd

\* While the request is on the air, nobody who passed it on has lost its entry.
Remembered(src, id) ==
    Flying(src, id) # {} =>
      /\ \A n \in Nodes \ {src}, i \in DSlots :
           IsFor(n, i, src, id) /\ disc[n][i].sender # src
             => HasEntry(disc[n][i].sender, src, id)
      /\ \A m \in Flying(src, id) : m.from # src =>
           \E i \in DSlots : IsFor(m.from, i, src, id) /\ disc[m.from][i].fwd <= m.cost

\* Every node the request has spread to adds 7 at most.
CostsBounded(src, id) ==
    Flying(src, id) # {} =>
      /\ \A m \in Flying(src, id) : m.cost <= 7 * Cardinality(Spread(src, id))
      /\ \A n \in Nodes \ {src}, i \in DSlots :
           IsFor(n, i, src, id) => disc[n][i].fwd <= 7 * Cardinality(Spread(src, id))

PathsOf(src, id) == Descends(src, id) /\ Remembered(src, id) /\ CostsBounded(src, id)

PathsDescend == \A src \in Nodes, id \in Ids : <<src, id>> \notin forgot => PathsOf(src, id)

\* The costs of a path through every node fit a byte.
CostsFit == 7 * Cardinality(Nodes) < CostSize

\* A step that does not touch the entries of a request and sends no copy of it.
LEMMA PathsKept ==
  ASSUME MeshInv, NEW src \in Nodes, NEW id \in Ids, PathsOf(src, id),
         \A n \in Nodes, i \in DSlots :
           /\ IsFor(n, i, src, id)' <=> IsFor(n, i, src, id)
           /\ IsFor(n, i, src, id) => /\ disc'[n][i].sender = disc[n][i].sender
                                      /\ disc'[n][i].fwd = disc[n][i].fwd,
         Flying(src, id)' \subseteq Flying(src, id)
  PROVE  PathsOf(src, id)'
<1>1. \A n \in Nodes, i \in DSlots : IsFor(n, i, src, id) => disc[n][i].sender \in Nodes
  <2> SUFFICES ASSUME NEW n \in Nodes, NEW i \in DSlots, IsFor(n, i, src, id)
               PROVE  disc[n][i].sender \in Nodes
    OBVIOUS
  <2>1. disc[n][i] # NoDisc
    BY MeshSizes DEF IsFor
  <2>2. disc[n][i] \in DiscEntry
    BY <2>1 DEF MeshInv, MeshTypes
  <2> QED
    BY <2>2 DEF DiscEntry
<1>2. \A n \in Nodes : HasEntry(n, src, id)' <=> HasEntry(n, src, id)
  BY DEF HasEntry
<1>3. Spread(src, id)' = Spread(src, id)
  BY <1>2 DEF Spread
<1>4. Descends(src, id)'
  BY <1>1 DEF PathsOf, Descends
<1>5. ASSUME NEW m \in Flying(src, id)' PROVE m \in Flying(src, id) /\ m.from \in Nodes
  <2>1. m \in Flying(src, id)
    BY <1>5
  <2> QED
    BY <2>1 DEF Flying, MeshInv, MeshTypes, Msg
<1>6. Remembered(src, id)'
  <2> SUFFICES ASSUME Flying(src, id)' # {}
               PROVE  /\ \A n \in Nodes \ {src}, i \in DSlots :
                           IsFor(n, i, src, id)' /\ disc'[n][i].sender # src
                             => HasEntry(disc[n][i].sender, src, id)'
                      /\ \A m \in Flying(src, id)' : m.from # src =>
                           \E i \in DSlots : IsFor(m.from, i, src, id)' /\ disc'[m.from][i].fwd <= m.cost
    BY DEF Remembered
  <2>1. Flying(src, id) # {} /\ Remembered(src, id)
    BY DEF PathsOf
  <2>2. ASSUME NEW n \in Nodes \ {src}, NEW i \in DSlots, IsFor(n, i, src, id)',
               disc'[n][i].sender # src
        PROVE  HasEntry(disc[n][i].sender, src, id)'
    BY <1>1, <1>2, <2>1, <2>2 DEF Remembered
  <2>3. ASSUME NEW m \in Flying(src, id)', m.from # src
        PROVE  \E i \in DSlots : IsFor(m.from, i, src, id)' /\ disc'[m.from][i].fwd <= m.cost
    <3>1. PICK i \in DSlots : IsFor(m.from, i, src, id) /\ disc[m.from][i].fwd <= m.cost
      BY <1>5, <2>1, <2>3 DEF Remembered
    <3> QED
      BY <1>5, <3>1
  <2> QED
    BY <2>2, <2>3
<1>7. CostsBounded(src, id)'
  <2> SUFFICES ASSUME Flying(src, id)' # {}
               PROVE  /\ \A m \in Flying(src, id)' : m.cost <= 7 * Cardinality(Spread(src, id))
                      /\ \A n \in Nodes \ {src}, i \in DSlots :
                           IsFor(n, i, src, id)' => disc'[n][i].fwd <= 7 * Cardinality(Spread(src, id))
    BY <1>3 DEF CostsBounded
  <2> DEFINE B == 7 * Cardinality(Spread(src, id))
  <2>1. /\ \A m \in Flying(src, id) : m.cost <= B
        /\ \A n \in Nodes \ {src}, i \in DSlots : IsFor(n, i, src, id) => disc[n][i].fwd <= B
    BY DEF PathsOf, CostsBounded
  <2> HIDE DEF B
  <2> QED
    BY <2>1, <1>5 DEF B
<1> QED
  BY <1>4, <1>6, <1>7 DEF PathsOf

\* The types the costs and senders of a request's entries have.
LEMMA EntryTypes ==
  ASSUME MeshTypes, NEW n \in Nodes, NEW i \in DSlots, NEW src \in Nodes, NEW id \in Ids,
         IsFor(n, i, src, id)
  PROVE  /\ disc[n][i] # NoDisc /\ disc[n][i].sender \in Nodes
         /\ disc[n][i].fwd \in Nat /\ disc[n][i].dest \in Dests
<1>1. disc[n][i] # NoDisc
  BY MeshSizes DEF IsFor
<1>2. disc[n][i] \in DiscEntry
  BY <1>1 DEF MeshTypes
<1>3. Costs \subseteq Nat
  BY MeshSizes
<1> QED
  BY <1>1, <1>2, <1>3 DEF DiscEntry

\* A request has spread to no more nodes than there are besides its originator.
LEMMA SpreadSize ==
  ASSUME NEW src \in Nodes, NEW id \in Ids
  PROVE  /\ IsFiniteSet(Spread(src, id)) /\ Cardinality(Spread(src, id)) \in Nat
         /\ Cardinality(Nodes) \in Nat /\ Cardinality(Spread(src, id)) + 1 <= Cardinality(Nodes)
<1>1. IsFiniteSet(Nodes)
  BY MeshAssumption
<1>2. /\ IsFiniteSet(Nodes \ {src}) /\ Cardinality(Nodes \ {src}) = Cardinality(Nodes) - 1
      /\ Cardinality(Nodes) \in Nat
  BY <1>1, FS_RemoveElement, FS_CardinalityType
<1>3. Spread(src, id) \subseteq Nodes \ {src}
  BY DEF Spread
<1>4. /\ IsFiniteSet(Spread(src, id))
      /\ Cardinality(Spread(src, id)) <= Cardinality(Nodes \ {src})
  BY <1>2, <1>3, FS_Subset
<1>5. Cardinality(Spread(src, id)) \in Nat
  BY <1>4, FS_CardinalityType
<1> QED
  BY <1>2, <1>4, <1>5

\* What entering a request means for its entries and copies.
LEMMA EnteredPaths ==
  ASSUME MeshInv, NEW n \in Nodes, NEW k \in DSlots, NEW from \in Nodes, NEW src \in Nodes,
         NEW id \in Ids, NEW d \in Dests, NEW cost \in Costs, NEW rest, rest \subseteq msgs,
         from \in Neighbors(n) \/ (d # n /\ d \notin Neighbors(n)),
         EnteredAt(n, k, from, src, id, d, cost, rest)
  PROVE  /\ disc'[n][k].sender = from /\ disc'[n][k].fwd = cost /\ IsFor(n, k, src, id)'
         /\ \A n2 \in Nodes, i \in DSlots : n2 # n \/ i # k => disc'[n2][i] = disc[n2][i]
         /\ \A i \in DSlots : IsFor(n, i, src, id)' => i = k
         /\ \/ \A i \in DSlots : ~IsFor(n, i, src, id)
            \/ IsFor(n, k, src, id) /\ cost < disc[n][k].fwd
         /\ \A n2 \in Nodes : HasEntry(n2, src, id)' <=> HasEntry(n2, src, id) \/ n2 = n
         /\ \A x \in Flying(src, id)' : x \in Flying(src, id) \/ (x.from = n /\ x.cost = cost)
<1>1. MeshTypes /\ EntryPerRequest
  BY DEF MeshInv
<1>2. /\ disc'[n][k].id = id /\ disc'[n][k].src = src
      /\ disc'[n][k].sender = from /\ disc'[n][k].fwd = cost
      /\ \A n2 \in Nodes, i \in DSlots : n2 # n \/ i # k => disc'[n2][i] = disc[n2][i]
  BY <1>1, EnteredSlots
<1>3. /\ msgs' = rest \cup Answer(n, from, src, id, d, cost)
      /\ \/ disc[n][k] = NoDisc /\ \A i \in DSlots : ~IsFor(n, i, src, id)
         \/ disc[n][k] # NoDisc /\ IsFor(n, k, src, id) /\ cost < disc[n][k].fwd
  BY DEF EnteredAt
<1>4. IsFor(n, k, src, id)'
  BY <1>2 DEF IsFor
<1>5. ASSUME NEW i \in DSlots, IsFor(n, i, src, id)' PROVE i = k
  <2> SUFFICES ASSUME i # k PROVE FALSE
    OBVIOUS
  <2>1. IsFor(n, i, src, id)
    BY <1>2, <1>5 DEF IsFor
  <2> QED
    BY <2>1, <1>1, <1>3 DEF EntryPerRequest
<1>6. ASSUME NEW n2 \in Nodes PROVE HasEntry(n2, src, id)' <=> HasEntry(n2, src, id) \/ n2 = n
  <2>1. CASE n2 = n
    BY <2>1, <1>4 DEF HasEntry
  <2>2. CASE n2 # n
    BY <2>2, <1>2 DEF HasEntry, IsFor
  <2> QED
    BY <2>1, <2>2
<1>7. ASSUME NEW x \in Flying(src, id)'
      PROVE  x \in Flying(src, id) \/ (x.from = n /\ x.cost = cost)
  <2>1. CASE x \in rest
    BY <2>1, <1>7 DEF Flying
  <2>2. CASE x \in Answer(n, from, src, id, d, cost)
    BY <2>2, AnswerFrames
  <2> QED
    BY <2>1, <2>2, <1>3, <1>7 DEF Flying
<1> QED
  BY <1>2, <1>3, <1>4, <1>5, <1>6, <1>7

\* A discovery begins: its originator's entry and copies without a cost.
LEMMA PathsBegin ==
  ASSUME MeshInv, NEW n \in Nodes, zb_nwk_mesh_initiate_route_discovery(n),
         NEW id \in Ids, id = rreq_id[n] + 1
  PROVE  PathsOf(n, id)'
<1> DEFINE cost == (PathCost(n, n) + 0) % CostSize
<1>1. PICK i \in PSlots : /\ RreqStep(n, n, n, id, To[pend[n][i].pkt], 0, msgs)
                          /\ \A d \in Dests : ~Mentioned(n, id, d)
                          /\ rreq_id' = [rreq_id EXCEPT ![n] = id] /\ id \in Ids
  BY InitiateIsRreqStep
<1> DEFINE d == To[pend[n][i].pkt]
<1>2. MeshTypes /\ rreq_id \in [Nodes -> 0 .. MaxId] /\ msgs \subseteq Msg
  BY DEF MeshInv, MeshTypes
<1>3. rreq_id'[n] = id
  BY <1>1, <1>2
<1>4. /\ cost \in Costs
      /\ Ignored(msgs) \/ \E k \in DSlots : EnteredAt(n, k, n, n, id, d, cost, msgs)
  BY <1>1, RreqStepOutcome
<1>5. d \in Dests /\ (n \in Neighbors(n) \/ (d # n /\ d \notin Neighbors(n)))
  BY <1>1 DEF RreqStep
<1>6. cost = 0
  BY HopCosts, MeshSizes
<1> HIDE DEF cost, d
<1>7. ASSUME NEW n2 \in Nodes, NEW j \in DSlots PROVE ~IsFor(n2, j, n, id)
  <2> SUFFICES ASSUME IsFor(n2, j, n, id) PROVE FALSE
    OBVIOUS
  <2>1. disc[n2][j] # NoDisc /\ disc[n2][j].dest \in Dests
    BY <1>1, <1>2, EntryTypes
  <2> QED
    BY <2>1, <1>1 DEF Mentioned
<1>8. Flying(n, id) = {}
  BY <1>1, <1>2 DEF Flying, Mentioned, Msg
<1>9. /\ \A n2 \in Nodes \ {n}, j \in DSlots : ~IsFor(n2, j, n, id)'
      /\ \A m \in Flying(n, id)' : m.from = n /\ m.cost = 0
  <2>1. CASE Ignored(msgs)
    <3>1. \A n2 \in Nodes \ {n}, j \in DSlots : ~IsFor(n2, j, n, id)'
      BY <2>1, <1>7 DEF Ignored, IsFor
    <3>2. Flying(n, id)' = {}
      BY <2>1, <1>8 DEF Ignored, Flying
    <3> QED
      BY <3>1, <3>2
  <2>2. ASSUME NEW k \in DSlots, EnteredAt(n, k, n, n, id, d, cost, msgs)
        PROVE  /\ \A n2 \in Nodes \ {n}, j \in DSlots : ~IsFor(n2, j, n, id)'
               /\ \A m \in Flying(n, id)' : m.from = n /\ m.cost = 0
    <3>1. /\ \A n2 \in Nodes, j \in DSlots : n2 # n \/ j # k => disc'[n2][j] = disc[n2][j]
          /\ \A x \in Flying(n, id)' : x \in Flying(n, id) \/ (x.from = n /\ x.cost = cost)
      BY <1>1, <1>4, <1>5, <2>2, EnteredPaths
    <3>2. \A n2 \in Nodes \ {n}, j \in DSlots : ~IsFor(n2, j, n, id)'
      BY <1>7, <3>1 DEF IsFor
    <3> QED
      BY <1>6, <1>8, <3>1, <3>2
  <2> QED
    BY <1>4, <2>1, <2>2
<1>10. Descends(n, id)' /\ Remembered(n, id)'
  BY <1>9 DEF Descends, Remembered
<1>11. CostsBounded(n, id)'
  <2>1. Spread(n, id)' = {}
    BY <1>9 DEF Spread, HasEntry
  <2>2. Cardinality({}) = 0
    BY FS_EmptySet
  <2>4. Cardinality(Spread(n, id)') = 0
    BY <2>1, <2>2, Zenon
  <2>3. 7 * Cardinality(Spread(n, id)') = 0
    BY <2>4
  <2> QED
    BY <2>3, <1>9 DEF CostsBounded
<1> QED
  BY <1>10, <1>11 DEF PathsOf

\* A copy of a request reaches the handler at n and enters its table.
LEMMA PathsEnter ==
  ASSUME CostsFit, MeshInv, NEW m \in msgs, NEW k \in DSlots, m.t = "rreq",
         PathsOf(m.src, m.id),
         EnteredAt(m.to, k, m.from, m.src, m.id, m.dest,
                 (PathCost(m.to, m.src) + m.cost) % CostSize, msgs \ {m})
  PROVE  PathsOf(m.src, m.id)'
<1> DEFINE n == m.to
           from == m.from
           src == m.src
           id == m.id
           d == m.dest
           cost == (PathCost(m.to, m.src) + m.cost) % CostSize
           B == Cardinality(Spread(src, id))
<1>1. MeshTypes /\ OverLinks /\ EntryPerRequest /\ m \in Msg /\ msgs \subseteq Msg
  BY DEF MeshInv, MeshTypes
<1>2. /\ n \in Nodes /\ from \in Nodes /\ src \in Nodes /\ id \in Ids /\ d \in Dests
      /\ m.cost \in Costs /\ m.cost \in Nat
  BY <1>1, MeshSizes DEF Msg
<1>3. from \in Neighbors(n) /\ from # n
  BY <1>1, LinksJoinTwo DEF OverLinks
<1>4. m \in Flying(src, id) /\ Flying(src, id) # {}
  BY DEF Flying
<1>5. /\ \A x \in Flying(src, id) : x.cost <= 7 * B
      /\ \A n2 \in Nodes \ {src}, i \in DSlots : IsFor(n2, i, src, id) => disc[n2][i].fwd <= 7 * B
  BY <1>4 DEF PathsOf, CostsBounded
<1>6. B \in Nat /\ Cardinality(Nodes) \in Nat /\ B + 1 <= Cardinality(Nodes)
  BY <1>2, SpreadSize
<1> HIDE DEF B
<1>7. /\ cost = PathCost(n, src) + m.cost /\ cost \in Costs /\ cost \in Nat
      /\ PathCost(n, src) \in 0 .. 7
      /\ n # src => PathCost(n, src) >= 1
      /\ n = src => PathCost(n, src) = 0
  <2>1. /\ PathCost(n, src) \in 0 .. 7
        /\ n # src => PathCost(n, src) >= 1
        /\ n = src => PathCost(n, src) = 0
    BY <1>2, HopCosts
  <2>2. m.cost <= 7 * B /\ 7 * Cardinality(Nodes) < 256 /\ CostSize = 256
    BY <1>4, <1>5, MeshSizes DEF CostsFit
  <2>3. PathCost(n, src) + m.cost < CostSize
    BY <1>2, <1>6, <2>1, <2>2
  <2>4. cost \in Costs /\ cost = PathCost(n, src) + m.cost
    BY <1>2, <2>3, CostFits
  <2> QED
    BY <2>1, <2>4, MeshSizes
<1> HIDE DEF cost
<1>8. /\ disc'[n][k].sender = from /\ disc'[n][k].fwd = cost /\ IsFor(n, k, src, id)'
      /\ \A n2 \in Nodes, i \in DSlots : n2 # n \/ i # k => disc'[n2][i] = disc[n2][i]
      /\ \A i \in DSlots : IsFor(n, i, src, id)' => i = k
      /\ \/ \A i \in DSlots : ~IsFor(n, i, src, id)
         \/ IsFor(n, k, src, id) /\ cost < disc[n][k].fwd
      /\ \A n2 \in Nodes : HasEntry(n2, src, id)' <=> HasEntry(n2, src, id) \/ n2 = n
      /\ \A x \in Flying(src, id)' : x \in Flying(src, id) \/ (x.from = n /\ x.cost = cost)
  <2>1. EnteredAt(n, k, from, src, id, d, cost, msgs \ {m})
    BY DEF cost
  <2>2. msgs \ {m} \subseteq msgs
    OBVIOUS
  <2> DEFINE rest == msgs \ {m}
  <2>3. EnteredAt(n, k, from, src, id, d, cost, rest) /\ rest \subseteq msgs
    BY <2>1, <2>2
  <2> HIDE DEF rest
  <2> QED
    BY <1>2, <1>3, <1>7, <2>3, EnteredPaths
<1>9. /\ \A n2 \in Nodes \ {src}, i \in DSlots :
           IsFor(n2, i, src, id) /\ disc[n2][i].sender # src
             => HasEntry(disc[n2][i].sender, src, id)
      /\ \A x \in Flying(src, id) : x.from # src =>
           \E i \in DSlots : IsFor(x.from, i, src, id) /\ disc[x.from][i].fwd <= x.cost
  BY <1>4 DEF PathsOf, Remembered
<1>10. \A n2 \in Nodes, i \in DSlots : n2 # n => (IsFor(n2, i, src, id)' <=> IsFor(n2, i, src, id))
  BY <1>8 DEF IsFor
<1>11. ASSUME NEW n2 \in Nodes \ {src}, NEW i \in DSlots, NEW j \in DSlots,
              IsFor(n2, i, src, id)', disc'[n2][i].sender # src,
              IsFor(disc[n2][i].sender, j, src, id)'
       PROVE  disc'[disc'[n2][i].sender][j].fwd < disc'[n2][i].fwd
  <2>1. CASE n2 = n
    <3>1. i = k /\ disc'[n2][i].sender = from /\ disc'[n2][i].fwd = cost
      BY <1>8, <1>11, <2>1
    <3>2. disc'[from][j] = disc[from][j] /\ IsFor(from, j, src, id)
      <4>1. disc'[from][j].src = src /\ disc'[from][j].id = id
        BY <3>1, <1>11 DEF IsFor
      <4> QED
        BY <4>1, <1>2, <1>3, <1>8 DEF IsFor
    <3>3. PICK l \in DSlots : IsFor(from, l, src, id) /\ disc[from][l].fwd <= m.cost
      BY <1>4, <1>9, <1>11, <3>1
    <3>4. j = l
      BY <3>2, <3>3, <1>1, <1>2 DEF EntryPerRequest
    <3>5. disc[from][j].fwd \in Nat
      BY <3>2, <1>1, <1>2, EntryTypes
    <3> QED
      BY <3>1, <3>2, <3>3, <3>4, <3>5, <2>1, <1>2, <1>7
  <2>2. CASE n2 # n
    <3> DEFINE s == disc[n2][i].sender
    <3>1. disc'[n2][i] = disc[n2][i] /\ IsFor(n2, i, src, id)
      BY <2>2, <1>8, <1>10, <1>11
    <3>2. s \in Nodes /\ disc[n2][i].fwd \in Nat /\ s # src
      BY <3>1, <1>1, <1>2, <1>11, EntryTypes
    <3>3. disc'[s][j].src = src /\ disc'[s][j].id = id
      BY <3>1, <1>11 DEF IsFor
    <3> HIDE DEF s
    <3>4. CASE s = n
      <4>1. HasEntry(n, src, id)
        BY <3>1, <3>2, <3>4, <1>9 DEF s
      <4>2. IsFor(n, k, src, id) /\ cost < disc[n][k].fwd
        BY <4>1, <1>8 DEF HasEntry
      <4>3. disc[n][k].fwd < disc[n2][i].fwd
        BY <3>1, <3>2, <3>4, <4>2 DEF PathsOf, Descends, s
      <4>4. j = k
        BY <3>3, <3>4, <1>8 DEF IsFor
      <4>5. disc[n][k].fwd \in Nat
        BY <4>2, <1>1, <1>2, EntryTypes
      <4> QED
        BY <3>1, <3>2, <3>4, <4>2, <4>3, <4>4, <4>5, <1>7, <1>8 DEF s
    <3>5. CASE s # n
      <4>1. disc'[s][j] = disc[s][j]
        BY <3>2, <3>5, <1>8
      <4>2. IsFor(s, j, src, id)
        BY <4>1, <3>3 DEF IsFor
      <4> QED
        BY <3>1, <3>2, <4>1, <4>2 DEF PathsOf, Descends, s
    <3> QED
      BY <3>4, <3>5
  <2> QED
    BY <2>1, <2>2
<1>12. Descends(src, id)'
  BY <1>11 DEF Descends
<1>13. ASSUME NEW n2 \in Nodes \ {src}, NEW i \in DSlots, IsFor(n2, i, src, id)',
              disc'[n2][i].sender # src
       PROVE  HasEntry(disc[n2][i].sender, src, id)'
  <2> DEFINE s == disc'[n2][i].sender
  <2>1. s \in Nodes /\ (HasEntry(s, src, id) \/ s = n)
    <3>1. CASE n2 = n
      <4>1. s = from
        BY <3>1, <1>8, <1>13
      <4>2. HasEntry(from, src, id)
        BY <4>1, <1>4, <1>9, <1>13 DEF HasEntry
      <4> QED
        BY <4>1, <4>2, <1>2
    <3>2. CASE n2 # n
      <4>1. disc'[n2][i] = disc[n2][i] /\ IsFor(n2, i, src, id)
        BY <3>2, <1>8, <1>10, <1>13
      <4> QED
        BY <4>1, <1>1, <1>2, <1>9, <1>13, EntryTypes
    <3> QED
      BY <3>1, <3>2
  <2>2. \A x \in Nodes : (HasEntry(x, src, id) \/ x = n) =>
          \E j \in DSlots : disc'[x][j].src = src /\ disc'[x][j].id = id
    BY <1>8 DEF HasEntry, IsFor
  <2>3. \E j \in DSlots : disc'[s][j].src = src /\ disc'[s][j].id = id
    BY <2>1, <2>2
  <2> QED
    BY <2>3 DEF HasEntry, IsFor
<1>14. ASSUME NEW x \in Flying(src, id)', x.from # src
       PROVE  \E i \in DSlots : IsFor(x.from, i, src, id)' /\ disc'[x.from][i].fwd <= x.cost
  <2>1. CASE x.from = n /\ x.cost = cost
    BY <2>1, <1>7, <1>8
  <2>2. CASE x \in Flying(src, id) /\ x.from # n
    <3>1. PICK i \in DSlots : IsFor(x.from, i, src, id) /\ disc[x.from][i].fwd <= x.cost
      BY <2>2, <1>9, <1>14
    <3>2. x.from \in Nodes
      BY <2>2, <1>1 DEF Flying, Msg
    <3> QED
      BY <3>1, <3>2, <2>2, <1>8, <1>10
  <2>3. CASE x \in Flying(src, id) /\ x.from = n
    <3>1. PICK i \in DSlots : IsFor(n, i, src, id) /\ disc[n][i].fwd <= x.cost
      BY <2>3, <1>9, <1>14
    <3>2. IsFor(n, k, src, id) /\ cost < disc[n][k].fwd
      BY <3>1, <1>8
    <3>3. i = k
      BY <3>1, <3>2, <1>1, <1>2 DEF EntryPerRequest
    <3>4. disc[n][k].fwd \in Nat /\ x.cost \in Nat
      <4>1. x \in Msg
        BY <2>3, <1>1 DEF Flying
      <4>2. x.cost \in Nat
        BY <4>1, MeshSizes DEF Msg
      <4> QED
        BY <4>2, <3>2, <1>1, <1>2, EntryTypes
    <3>5. cost <= x.cost
      BY <3>1, <3>2, <3>3, <3>4, <1>7
    <3> QED
      BY <3>5, <2>3, <1>8
  <2> QED
    BY <2>1, <2>2, <2>3, <1>8, <1>14
<1>15. Remembered(src, id)'
  BY <1>13, <1>14 DEF Remembered
<1> DEFINE C == Cardinality(Spread(src, id)')
<1>16. C \in Nat /\ B <= C /\ (n # src => cost <= 7 * C)
  <2>1. CASE n = src \/ HasEntry(n, src, id)
    <3>1. Spread(src, id)' = Spread(src, id)
      BY <2>1, <1>8 DEF Spread
    <3>2. C = B
      BY <3>1 DEF B
    <3>3. n # src => cost <= 7 * B
      <4> SUFFICES ASSUME n # src PROVE cost <= 7 * B
        OBVIOUS
      <4>1. IsFor(n, k, src, id) /\ cost < disc[n][k].fwd
        BY <2>1, <1>8 DEF HasEntry
      <4>2. disc[n][k].fwd \in Nat /\ disc[n][k].fwd <= 7 * B
        BY <4>1, <1>1, <1>2, <1>5, EntryTypes
      <4> HIDE DEF B
      <4> QED
        BY <4>1, <4>2, <1>6, <1>7
    <3> QED
      BY <3>2, <3>3, <1>6
  <2>2. CASE n # src /\ ~HasEntry(n, src, id)
    <3>1. Spread(src, id)' = Spread(src, id) \cup {n} /\ n \notin Spread(src, id)
      BY <2>2, <1>2, <1>8 DEF Spread
    <3>2. C = B + 1
      BY <3>1, <1>2, SpreadSize, FS_AddElement DEF B
    <3>3. m.cost <= 7 * B
      BY <1>4, <1>5
    <3> HIDE DEF C
    <3> QED
      BY <3>2, <3>3, <1>2, <1>6, <1>7
  <2> QED
    BY <2>1, <2>2
<1> HIDE DEF C
<1>17. \A x \in Flying(src, id)' : x.cost <= 7 * C
  <2> SUFFICES ASSUME NEW x \in Flying(src, id)' PROVE x.cost <= 7 * C
    OBVIOUS
  <2>1. CASE x \in Flying(src, id)
    <3>1. x.cost \in Nat /\ x.cost <= 7 * B
      BY <2>1, <1>1, <1>5, MeshSizes DEF Flying, Msg
    <3> QED
      BY <3>1, <1>6, <1>16
  <2>2. CASE x.cost = cost
    <3>1. CASE n # src
      BY <3>1, <2>2, <1>16
    <3>2. CASE n = src
      <4>1. m.cost <= 7 * B
        BY <1>4, <1>5
      <4> QED
        BY <4>1, <3>2, <2>2, <1>2, <1>6, <1>7, <1>16
    <3> QED
      BY <3>1, <3>2
  <2> QED
    BY <2>1, <2>2, <1>8
<1>18. \A n2 \in Nodes \ {src}, i \in DSlots : IsFor(n2, i, src, id)' => disc'[n2][i].fwd <= 7 * C
  <2> SUFFICES ASSUME NEW n2 \in Nodes \ {src}, NEW i \in DSlots, IsFor(n2, i, src, id)'
               PROVE  disc'[n2][i].fwd <= 7 * C
    OBVIOUS
  <2>1. CASE n2 = n
    <3>1. disc'[n2][i].fwd = cost
      BY <2>1, <1>8
    <3> QED
      BY <3>1, <2>1, <1>16
  <2>2. CASE n2 # n
    <3>1. IsFor(n2, i, src, id) /\ disc'[n2][i] = disc[n2][i]
      BY <2>2, <1>8, <1>10
    <3>2. disc[n2][i].fwd \in Nat /\ disc[n2][i].fwd <= 7 * B
      BY <3>1, <1>1, <1>2, <1>5, EntryTypes
    <3> QED
      BY <3>1, <3>2, <1>6, <1>16
  <2> QED
    BY <2>1, <2>2
<1>19. CostsBounded(src, id)'
  BY <1>17, <1>18 DEF CostsBounded, C
<1> QED
  BY <1>12, <1>15, <1>19 DEF PathsOf

\* A request enters a table: the other requests keep their entries and copies.
LEMMA PathsElsewhere ==
  ASSUME MeshInv, NEW n \in Nodes, NEW k \in DSlots, NEW from \in Nodes, NEW src \in Nodes,
         NEW id \in Ids, NEW d \in Dests, NEW cost \in Costs, NEW rest, rest \subseteq msgs,
         from \in Neighbors(n) \/ (d # n /\ d \notin Neighbors(n)),
         EnteredAt(n, k, from, src, id, d, cost, rest),
         NEW s \in Nodes, NEW x \in Ids, s # src \/ x # id, PathsOf(s, x)
  PROVE  PathsOf(s, x)'
<1>1. MeshTypes
  BY DEF MeshInv
<1>2. /\ disc'[n][k].id = id /\ disc'[n][k].src = src
      /\ \A n2 \in Nodes, i \in DSlots : n2 # n \/ i # k => disc'[n2][i] = disc[n2][i]
  BY <1>1, EnteredSlots
<1>3. /\ msgs' = rest \cup Answer(n, from, src, id, d, cost)
      /\ disc[n][k] = NoDisc \/ IsFor(n, k, src, id)
  BY DEF EnteredAt
<1>4. ~IsFor(n, k, s, x) /\ ~IsFor(n, k, s, x)'
  BY <1>2, <1>3, MeshSizes DEF IsFor
<1>5. ASSUME NEW n2 \in Nodes, NEW i \in DSlots
      PROVE  /\ IsFor(n2, i, s, x)' <=> IsFor(n2, i, s, x)
             /\ IsFor(n2, i, s, x) => /\ disc'[n2][i].sender = disc[n2][i].sender
                                      /\ disc'[n2][i].fwd = disc[n2][i].fwd
  <2>1. CASE n2 = n /\ i = k
    BY <2>1, <1>4
  <2>2. CASE n2 # n \/ i # k
    BY <2>2, <1>2 DEF IsFor
  <2> QED
    BY <2>1, <2>2
<1>6. ASSUME NEW m \in Flying(s, x)' PROVE m \in Flying(s, x)
  <2>1. m \in msgs' /\ m.t = "rreq" /\ m.src = s /\ m.id = x
    BY <1>6 DEF Flying
  <2>2. m \notin Answer(n, from, src, id, d, cost)
    BY <2>1, AnswerFrames
  <2> QED
    BY <1>3, <2>1, <2>2 DEF Flying
<1> QED
  BY <1>5, <1>6, PathsKept

\* The entries and copies of every request but one stay as they are.
AllKeptBut(P) ==
    \A s \in Nodes, x \in Ids : <<s, x>> \in P
      \/ /\ \A n \in Nodes, i \in DSlots :
              /\ IsFor(n, i, s, x)' <=> IsFor(n, i, s, x)
              /\ IsFor(n, i, s, x) => /\ disc'[n][i].sender = disc[n][i].sender
                                      /\ disc'[n][i].fwd = disc[n][i].fwd
         /\ Flying(s, x)' \subseteq Flying(s, x)

LEMMA PathsKeptBut ==
  ASSUME MeshInv, PathsDescend, NEW P, AllKeptBut(P), forgot \subseteq forgot',
         \A s \in Nodes, x \in Ids : <<s, x>> \in P \ forgot' => PathsOf(s, x)'
  PROVE  PathsDescend'
<1> SUFFICES ASSUME NEW s \in Nodes, NEW x \in Ids, <<s, x>> \notin forgot'
             PROVE  PathsOf(s, x)'
  BY DEF PathsDescend
<1>1. PathsOf(s, x)
  BY DEF PathsDescend
<1>2. CASE <<s, x>> \in P
  BY <1>2
<1>3. CASE <<s, x>> \notin P
  <2>1. /\ \A n \in Nodes, i \in DSlots :
              /\ IsFor(n, i, s, x)' <=> IsFor(n, i, s, x)
              /\ IsFor(n, i, s, x) => /\ disc'[n][i].sender = disc[n][i].sender
                                      /\ disc'[n][i].fwd = disc[n][i].fwd
        /\ Flying(s, x)' \subseteq Flying(s, x)
    BY <1>3 DEF AllKeptBut
  <2> QED
    BY <1>1, <2>1, PathsKept
<1> QED
  BY <1>2, <1>3

\* The tables stay as they are, and no copy of a request is sent.
LEMMA PathsStay ==
  ASSUME MeshInv, PathsDescend, disc' = disc, msgs' \subseteq msgs, forgot \subseteq forgot'
  PROVE  PathsDescend'
<1>1. AllKeptBut({})
  BY DEF AllKeptBut, IsFor, Flying
<1> QED
  BY <1>1, PathsKeptBut

LEMMA PathsRreqIndication ==
  ASSUME CostsFit, MeshInv, PathsDescend, NEW m \in msgs, RreqIndication(m)
  PROVE  PathsDescend'
<1> DEFINE cost == (PathCost(m.to, m.src) + m.cost) % CostSize
           rest == msgs \ {m}
<1>1. RreqStep(m.to, m.from, m.src, m.id, m.dest, m.cost, rest)
  BY RreqIsRreqStep
<1>2. m.t = "rreq" /\ forgot' = forgot
  BY DEF RreqIndication
<1>3. /\ cost \in Costs
      /\ Ignored(rest)
         \/ \E k \in DSlots : EnteredAt(m.to, k, m.from, m.src, m.id, m.dest, cost, rest)
  BY <1>1, RreqStepOutcome
<1>4. CASE Ignored(rest)
  BY <1>2, <1>4, PathsStay DEF Ignored
<1>5. ASSUME NEW k \in DSlots, EnteredAt(m.to, k, m.from, m.src, m.id, m.dest, cost, rest)
      PROVE  PathsDescend'
  <2> SUFFICES ASSUME NEW s \in Nodes, NEW x \in Ids, <<s, x>> \notin forgot
               PROVE  PathsOf(s, x)'
    BY <1>2 DEF PathsDescend
  <2>1. PathsOf(s, x)
    BY DEF PathsDescend
  <2>2. CASE s = m.src /\ x = m.id
    BY <2>1, <2>2, <1>2, <1>5, PathsEnter
  <2>3. CASE s # m.src \/ x # m.id
    <3>1. /\ m.to \in Nodes /\ m.from \in Nodes /\ m.src \in Nodes /\ m.id \in Ids
          /\ m.dest \in Dests /\ rest \subseteq msgs
          /\ m.from \in Neighbors(m.to) \/ (m.dest # m.to /\ m.dest \notin Neighbors(m.to))
      BY <1>1 DEF RreqStep
    <3> HIDE DEF cost, rest
    <3> QED
      BY <1>3, <1>5, <2>1, <2>3, <3>1, PathsElsewhere
  <2> QED
    BY <2>2, <2>3
<1> QED
  BY <1>3, <1>4, <1>5

LEMMA PathsInitiate ==
  ASSUME MeshInv, PathsDescend, NEW n \in Nodes, zb_nwk_mesh_initiate_route_discovery(n)
  PROVE  PathsDescend'
<1>1. PICK i \in PSlots : /\ RreqStep(n, n, n, rreq_id[n] + 1, To[pend[n][i].pkt], 0, msgs)
                          /\ rreq_id[n] + 1 \in Ids
  BY InitiateIsRreqStep
<1>2. PICK id \in Ids : id = rreq_id[n] + 1
  BY <1>1
<1>3. PICK d : d = To[pend[n][i].pkt]
  OBVIOUS
<1>4. RreqStep(n, n, n, id, d, 0, msgs)
  BY <1>1, <1>2, <1>3
<1> DEFINE cost == (PathCost(n, n) + 0) % CostSize
<1>5. forgot' = forgot
  BY DEF zb_nwk_mesh_initiate_route_discovery
<1>6. /\ cost \in Costs
      /\ Ignored(msgs) \/ \E k \in DSlots : EnteredAt(n, k, n, n, id, d, cost, msgs)
  BY <1>4, RreqStepOutcome
<1>7. CASE Ignored(msgs)
  BY <1>5, <1>7, PathsStay DEF Ignored
<1>8. ASSUME NEW k \in DSlots, EnteredAt(n, k, n, n, id, d, cost, msgs)
      PROVE  PathsDescend'
  <2> SUFFICES ASSUME NEW s \in Nodes, NEW x \in Ids, <<s, x>> \notin forgot
               PROVE  PathsOf(s, x)'
    BY <1>5 DEF PathsDescend
  <2>1. PathsOf(s, x)
    BY DEF PathsDescend
  <2>2. CASE s = n /\ x = id
    BY <2>2, <1>2, PathsBegin
  <2>3. CASE s # n \/ x # id
    <3>1. d \in Dests /\ (n \in Neighbors(n) \/ (d # n /\ d \notin Neighbors(n)))
      BY <1>4 DEF RreqStep
    <3> HIDE DEF cost
    <3> QED
      BY <1>6, <1>8, <2>1, <2>3, <3>1, PathsElsewhere
  <2> QED
    BY <2>2, <2>3
<1> QED
  BY <1>6, <1>7, <1>8

LEMMA PathsRrepHandler ==
  ASSUME MeshInv, PathsDescend, NEW m \in msgs, zb_nwk_mesh_rrep_handler(m)
  PROVE  PathsDescend'
<1> DEFINE n == m.to
           known == KnownDisc(n, m.id, m.src)
           k == Min(known)
           cost == (PathCost(n, m.from) + m.cost) % CostSize
<1>1. /\ disc \in [Nodes -> [DSlots -> DiscEntry \cup {NoDisc}]]
      /\ n \in Nodes /\ m.src \in Nodes /\ m.id \in Ids
  BY DEF MeshInv, MeshTypes, Msg
<1>2. m.t = "rrep"
  BY DEF zb_nwk_mesh_rrep_handler
<1>3. known \subseteq Nat /\ \A i \in known : i \in DSlots /\ IsFor(n, i, m.src, m.id)
  BY MeshSizes DEF KnownDisc, IsFor
<1>4. \/ /\ disc' = [disc EXCEPT ![n] = [i \in DSlots |-> IF i \in known THEN NoDisc ELSE @[i]]]
         /\ msgs' = msgs \ {m}
         /\ forgot' = IF known = {} THEN forgot ELSE forgot \cup {<<m.src, m.id>>}
      \/ msgs' = msgs \ {m} /\ disc' = disc /\ forgot' = forgot
      \/ /\ known # {} /\ forgot' = forgot
         /\ disc' = [disc EXCEPT ![n][k].res = cost]
         /\ \/ msgs' = msgs \ {m}
            \/ msgs' = (msgs \ {m}) \cup Rrep(n, disc[n][k].sender, m.src, m.id, m.dest, cost)
  BY DEF zb_nwk_mesh_rrep_handler
<1> HIDE DEF known, cost
<1>5. CASE /\ disc' = [disc EXCEPT ![n] =
                         [i \in DSlots |-> IF i \in known THEN NoDisc ELSE @[i]]]
           /\ msgs' = msgs \ {m}
           /\ forgot' = IF known = {} THEN forgot ELSE forgot \cup {<<m.src, m.id>>}
  <2>1. \A n2 \in Nodes, j \in DSlots :
          disc'[n2][j] = IF n2 = n /\ j \in known THEN NoDisc ELSE disc[n2][j]
    BY <1>1, <1>5
  <2>2. CASE known = {}
    <3>1. AllKeptBut({})
      BY <1>5, <2>1, <2>2 DEF AllKeptBut, IsFor, Flying
    <3> QED
      BY <1>5, <2>2, <3>1, PathsKeptBut
  <2>3. CASE known # {}
    <3>1. ASSUME NEW s \in Nodes, NEW x \in Ids, <<s, x>> # <<m.src, m.id>>
          PROVE  /\ \A n2 \in Nodes, i \in DSlots :
                      /\ IsFor(n2, i, s, x)' <=> IsFor(n2, i, s, x)
                      /\ IsFor(n2, i, s, x) => /\ disc'[n2][i].sender = disc[n2][i].sender
                                               /\ disc'[n2][i].fwd = disc[n2][i].fwd
                 /\ Flying(s, x)' \subseteq Flying(s, x)
      <4>1. ASSUME NEW n2 \in Nodes, NEW i \in DSlots
            PROVE  /\ IsFor(n2, i, s, x)' <=> IsFor(n2, i, s, x)
                   /\ IsFor(n2, i, s, x) => /\ disc'[n2][i].sender = disc[n2][i].sender
                                            /\ disc'[n2][i].fwd = disc[n2][i].fwd
        <5>1. CASE n2 = n /\ i \in known
          <6>1. ~IsFor(n2, i, s, x)
            BY <5>1, <3>1, <1>3 DEF IsFor
          <6>2. ~IsFor(n2, i, s, x)'
            BY <5>1, <2>1, MeshSizes DEF IsFor
          <6> QED
            BY <6>1, <6>2
        <5>2. CASE ~(n2 = n /\ i \in known)
          BY <5>2, <2>1 DEF IsFor
        <5> QED
          BY <5>1, <5>2
      <4>2. Flying(s, x)' \subseteq Flying(s, x)
        BY <1>5 DEF Flying
      <4> QED
        BY <4>1, <4>2
    <3> DEFINE P == {<<m.src, m.id>>}
    <3>2. AllKeptBut(P)
      BY <3>1 DEF AllKeptBut
    <3>3. P \subseteq forgot' /\ forgot \subseteq forgot'
      BY <1>5, <2>3
    <3> HIDE DEF P
    <3> QED
      BY <3>2, <3>3, PathsKeptBut
  <2> QED
    BY <2>2, <2>3
<1>6. CASE msgs' = msgs \ {m} /\ disc' = disc /\ forgot' = forgot
  BY <1>6, PathsStay
<1>7. CASE /\ known # {} /\ forgot' = forgot
           /\ disc' = [disc EXCEPT ![n][k].res = cost]
           /\ \/ msgs' = msgs \ {m}
              \/ msgs' = (msgs \ {m}) \cup Rrep(n, disc[n][k].sender, m.src, m.id, m.dest, cost)
  <2>1. k \in DSlots /\ IsFor(n, k, m.src, m.id)
    BY <1>3, <1>7, LeastOf
  <2>2. disc[n][k] # NoDisc
    BY <2>1, <1>1, MeshSizes DEF IsFor
  <2>3. disc[n][k] \in DiscEntry
    BY <2>1, <2>2, <1>1
  <2> HIDE DEF k
  <2> DEFINE e == disc[n][k]
             f == [e EXCEPT !.res = cost]
  <2>4. /\ f.id = e.id /\ f.src = e.src /\ f.sender = e.sender /\ f.fwd = e.fwd
    <3> HIDE DEF e
    <3>1. e \in DiscEntry
      BY <2>3 DEF e
    <3> QED
      BY <3>1 DEF DiscEntry
  <2>5. disc' = [disc EXCEPT ![n][k] = f]
    BY <1>1, <1>7, <2>1
  <2> HIDE DEF f
  <2>6. /\ disc'[n][k] = f
        /\ \A n2 \in Nodes, i \in DSlots : n2 # n \/ i # k => disc'[n2][i] = disc[n2][i]
    BY <1>1, <2>1, <2>5
  <2>7. ASSUME NEW n2 \in Nodes, NEW i \in DSlots, NEW s, NEW x
        PROVE  /\ IsFor(n2, i, s, x)' <=> IsFor(n2, i, s, x)
               /\ IsFor(n2, i, s, x) => /\ disc'[n2][i].sender = disc[n2][i].sender
                                        /\ disc'[n2][i].fwd = disc[n2][i].fwd
    <3>1. CASE n2 = n /\ i = k
      BY <3>1, <2>4, <2>6 DEF IsFor
    <3>2. CASE n2 # n \/ i # k
      BY <3>2, <2>6 DEF IsFor
    <3> QED
      BY <3>1, <3>2
  <2>8. \A x \in msgs' : x \in msgs \/ x.t = "rrep"
    BY <1>7 DEF Rrep
  <2>9. \A s \in Nodes, x \in Ids : Flying(s, x)' \subseteq Flying(s, x)
    BY <2>8 DEF Flying
  <2>10. AllKeptBut({})
    BY <2>7, <2>9 DEF AllKeptBut
  <2> QED
    BY <1>7, <2>10, PathsKeptBut
<1> QED
  BY <1>4, <1>5, <1>6, <1>7

LEMMA PathsExpireDisc ==
  ASSUME MeshInv, PathsDescend, NEW n \in Nodes, NEW i \in DSlots, ExpireDisc(n, i)
  PROVE  PathsDescend'
<1>1. /\ disc \in [Nodes -> [DSlots -> DiscEntry \cup {NoDisc}]] /\ MeshTypes
  BY DEF MeshInv, MeshTypes
<1>2. /\ disc[n][i] # NoDisc
      /\ disc' = [disc EXCEPT ![n][i] = NoDisc]
      /\ msgs' = {m \in msgs : m.t = "rreq" =>
                                 <<m.src, m.id>> # <<disc[n][i].src, disc[n][i].id>>}
      /\ forgot' = forgot
  BY DEF ExpireDisc
<1>3. PICK src \in Nodes, id \in Ids : src = disc[n][i].src /\ id = disc[n][i].id
  <2>1. disc[n][i] \in DiscEntry
    BY <1>1, <1>2
  <2> QED
    BY <2>1 DEF DiscEntry
<1>4. \A n2 \in Nodes, j \in DSlots :
        disc'[n2][j] = IF n2 = n /\ j = i THEN NoDisc ELSE disc[n2][j]
  BY <1>1, <1>2
<1>5. ASSUME NEW n2 \in Nodes, NEW j \in DSlots, NEW s \in Nodes, NEW x \in Ids,
             IsFor(n2, j, s, x)'
      PROVE  IsFor(n2, j, s, x) /\ disc'[n2][j] = disc[n2][j]
  BY <1>4, <1>5, MeshSizes DEF IsFor
<1>6. Flying(src, id)' = {}
  BY <1>2, <1>3 DEF Flying
<1> DEFINE P == {<<src, id>>}
<1>7. AllKeptBut(P)
  <2> SUFFICES ASSUME NEW s \in Nodes, NEW x \in Ids, s # src \/ x # id
               PROVE  /\ \A n2 \in Nodes, j \in DSlots :
                           /\ IsFor(n2, j, s, x)' <=> IsFor(n2, j, s, x)
                           /\ IsFor(n2, j, s, x) => /\ disc'[n2][j].sender = disc[n2][j].sender
                                                    /\ disc'[n2][j].fwd = disc[n2][j].fwd
                      /\ Flying(s, x)' \subseteq Flying(s, x)
    BY DEF AllKeptBut
  <2>1. ASSUME NEW n2 \in Nodes, NEW j \in DSlots, IsFor(n2, j, s, x)
        PROVE  disc'[n2][j] = disc[n2][j] /\ IsFor(n2, j, s, x)'
    BY <2>1, <1>3, <1>4 DEF IsFor
  <2>2. Flying(s, x)' \subseteq Flying(s, x)
    BY <1>2 DEF Flying
  <2> QED
    BY <2>1, <2>2, <1>5
<1>8. <<src, id>> \notin forgot' => PathsOf(src, id)'
  <2> SUFFICES ASSUME <<src, id>> \notin forgot PROVE PathsOf(src, id)'
    BY <1>2
  <2>1. Descends(src, id)
    BY DEF PathsDescend, PathsOf
  <2>2. ASSUME NEW n2 \in Nodes \ {src}, NEW j \in DSlots, NEW l \in DSlots,
               IsFor(n2, j, src, id)', disc'[n2][j].sender # src,
               IsFor(disc[n2][j].sender, l, src, id)'
        PROVE  disc'[disc'[n2][j].sender][l].fwd < disc'[n2][j].fwd
    <3>1. IsFor(n2, j, src, id) /\ disc'[n2][j] = disc[n2][j]
      BY <1>5, <2>2
    <3>2. disc[n2][j].sender \in Nodes
      BY <3>1, <1>1, EntryTypes
    <3>3. disc'[disc[n2][j].sender][l].src = src /\ disc'[disc[n2][j].sender][l].id = id
      BY <3>1, <2>2 DEF IsFor
    <3>4. /\ IsFor(disc[n2][j].sender, l, src, id)
          /\ disc'[disc[n2][j].sender][l] = disc[disc[n2][j].sender][l]
      BY <3>2, <3>3, <1>4, MeshSizes DEF IsFor
    <3> QED
      BY <2>1, <2>2, <3>1, <3>4 DEF Descends
  <2>3. Descends(src, id)'
    BY <2>2 DEF Descends
  <2>4. Remembered(src, id)' /\ CostsBounded(src, id)'
    BY <1>6 DEF Remembered, CostsBounded
  <2> QED
    BY <2>3, <2>4 DEF PathsOf
<1>9. \A s \in Nodes, x \in Ids : <<s, x>> \in P \ forgot' => PathsOf(s, x)'
  <2> SUFFICES ASSUME NEW s \in Nodes, NEW x \in Ids, s = src, x = id, <<s, x>> \notin forgot'
               PROVE  PathsOf(s, x)'
    OBVIOUS
  <2> QED
    BY <1>8
<1> HIDE DEF P
<1> QED
  BY <1>2, <1>7, <1>9, PathsKeptBut

LEMMA PathsStep ==
  ASSUME CostsFit, MeshInv, PathsDescend, [MeshNext]_meshVars
  PROVE  PathsDescend'
<1>1. CASE UNCHANGED meshVars
  BY <1>1, PathsStay DEF meshVars
<1>2. ASSUME NEW p \in Packets, zb_nwk_forward_unicast(p) PROVE PathsDescend'
  BY <1>2, PathsStay DEF zb_nwk_forward_unicast
<1>3. ASSUME NEW p \in Packets, DataIndication(p) PROVE PathsDescend'
  BY <1>3, PathsStay DEF DataIndication
<1>4. ASSUME NEW n \in Nodes, zb_nwk_mesh_initiate_route_discovery(n) PROVE PathsDescend'
  BY <1>4, PathsInitiate
<1>5. ASSUME NEW n \in Nodes, InitiateForNothing(n) PROVE PathsDescend'
  BY <1>5, PathsStay DEF InitiateForNothing
<1>6. ASSUME NEW n \in Nodes, NEW i \in DSlots, ExpireDisc(n, i) PROVE PathsDescend'
  BY <1>6, PathsExpireDisc
<1>7. ASSUME NEW n \in Nodes, NEW i \in PSlots, ExpirePending(n, i) PROVE PathsDescend'
  BY <1>7, PathsStay DEF ExpirePending
<1>8. ASSUME NEW m \in msgs, RreqDuplicate(m) PROVE PathsDescend'
  BY <1>8, PathsStay DEF RreqDuplicate
<1>9. ASSUME NEW m \in msgs, RreqIndication(m) PROVE PathsDescend'
  BY <1>9, PathsRreqIndication
<1>10. ASSUME NEW m \in msgs, zb_nwk_mesh_rrep_handler(m) PROVE PathsDescend'
  BY <1>10, PathsRrepHandler
<1> QED
  BY <1>1, <1>2, <1>3, <1>4, <1>5, <1>6, <1>7, <1>8, <1>9, <1>10 DEF MeshNext

\* No circle of nodes: somewhere in it the cost would have to rise.
LEMMA NoCircle ==
  ASSUME MeshInv, PathsDescend
  PROVE  RepliesGetBack
<1> SUFFICES ASSUME NEW m \in msgs, <<m.src, m.id>> \notin forgot, GoesRound(m)
             PROVE  FALSE
  BY DEF RepliesGetBack
<1>1. MeshTypes /\ m.src \in Nodes /\ m.id \in Ids
  BY DEF MeshInv, MeshTypes, Msg
<1>2. Descends(m.src, m.id)
  BY <1>1 DEF PathsDescend, PathsOf
<1>3. PICK C \in SUBSET (Nodes \ {m.src}) :
        /\ m.to \in C
        /\ \A n \in C : \E i \in KnownDisc(n, m.id, m.src) : disc[n][i].sender \in C
  BY DEF GoesRound
<1> DEFINE F == {c \in Nat : \E n \in C, i \in DSlots :
                    IsFor(n, i, m.src, m.id) /\ disc[n][i].sender \in C /\ disc[n][i].fwd = c}
<1>4. ASSUME NEW n \in C
      PROVE  \E i \in DSlots : /\ IsFor(n, i, m.src, m.id) /\ disc[n][i].sender \in C
                               /\ disc[n][i].fwd \in F
  <2>1. PICK i \in DSlots : IsFor(n, i, m.src, m.id) /\ disc[n][i].sender \in C
    BY <1>3 DEF KnownDisc, IsFor
  <2>2. disc[n][i].fwd \in Nat
    BY <2>1, <1>1, <1>3, EntryTypes
  <2> QED
    BY <2>1, <2>2
<1>5. F \subseteq Nat /\ F # {}
  BY <1>3, <1>4
<1>6. Min(F) \in F /\ \A c \in F : Min(F) <= c
  BY <1>5, LeastOf
<1>7. PICK n \in C, i \in DSlots :
        IsFor(n, i, m.src, m.id) /\ disc[n][i].sender \in C /\ disc[n][i].fwd = Min(F)
  BY <1>6
<1>8. PICK j \in DSlots : /\ IsFor(disc[n][i].sender, j, m.src, m.id)
                          /\ disc[disc[n][i].sender][j].fwd \in F
  BY <1>4, <1>7
<1> HIDE DEF F
<1>9. disc[disc[n][i].sender][j].fwd < Min(F)
  <2>1. n \in Nodes \ {m.src} /\ disc[n][i].sender # m.src
    BY <1>3, <1>7
  <2>2. disc[disc[n][i].sender][j].fwd < disc[n][i].fwd
    BY <1>2, <1>7, <1>8, <2>1 DEF Descends
  <2> QED
    BY <1>7, <2>2
<1>10. Min(F) \in Nat /\ disc[disc[n][i].sender][j].fwd \in Nat
  BY <1>5, <1>6, <1>8
<1> QED
  BY <1>6, <1>8, <1>9, <1>10

\* A reply follows the senders that zb_nwk_mesh_rreq_handler() noted and never
\* goes round in circles: along them the cost of the request falls.  The costs
\* must fit path_cost, which is a byte: 36 routers at most.
THEOREM ReplyFindsOriginator ==
  ASSUME CostsFit
  PROVE  MeshSpec => []RepliesGetBack
<1>1. MeshInit => PathsDescend
  <2> SUFFICES ASSUME MeshInit, NEW s \in Nodes, NEW x \in Ids PROVE PathsOf(s, x)
    BY DEF PathsDescend
  <2>1. \A n \in Nodes, i \in DSlots : ~IsFor(n, i, s, x)
    BY MeshSizes DEF MeshInit, IsFor
  <2>2. Flying(s, x) = {}
    BY DEF MeshInit, Flying
  <2> QED
    BY <2>1, <2>2 DEF PathsOf, Descends, Remembered, CostsBounded
<1>2. MeshInv /\ PathsDescend /\ [MeshNext]_meshVars => PathsDescend'
  BY PathsStep
<1>3. MeshInv /\ PathsDescend => RepliesGetBack
  BY NoCircle
<1> QED
  BY <1>1, <1>2, <1>3, MeshInvariant, PTL DEF MeshSpec
=============================================================================
