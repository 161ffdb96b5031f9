--------------------------- MODULE BufPoolProofs ---------------------------
(***************************************************************************)
(* Proofs that the buffer pool keeps its accounts for every pool size,     *)
(* every ring capacity and every set of callbacks.                         *)
(*                                                                         *)
(* The counters are exact (AllocExact) only because a buffer has a single  *)
(* owner (OneOwner): zb_free_buf() decrements a counter, so it must not be *)
(* called for a buffer that is already free.  OneOwner in turn needs to    *)
(* know that a callback that is running is the head of the ring.  PoolInv  *)
(* puts the three together.                                                *)
(* That no buffer is lost through a full ring (NoBufferLost) needs all of  *)
(* it, and a bound on the callbacks without a buffer.                      *)
(***************************************************************************)
EXTENDS BufPool, FiniteSetTheorems, TLAPS

Used(d) == {b \in Bufs \ freelist : is_in_buf[b] = d}

\* The callback that runs occupies the head of the ring.
RunningInRing == pc = "cb" => cb_q # <<>>

PoolInv ==
    /\ TypeOK
    /\ AllocExact
    /\ OneOwner
    /\ MacBufsReserved
    /\ OutWaitOnlyWhenFull
    /\ RunningInRing

-----------------------------------------------------------------------------
(* Counting.                                                                *)

\* Any set of buffers is finite, and the limit is half of the pool.
LEMMA PoolFinite ==
    /\ IsFiniteSet(Bufs)
    /\ Cardinality(Bufs) = ZB_IOBUF_POOL_SIZE
    /\ ZB_BUFS_LIMIT \in Nat
    /\ ZB_BUFS_LIMIT >= 3
    /\ ZB_BUFS_LIMIT + ZB_BUFS_LIMIT = ZB_IOBUF_POOL_SIZE
<1>1. /\ IsFiniteSet(0 .. ZB_IOBUF_POOL_SIZE - 1)
      /\ Cardinality(0 .. ZB_IOBUF_POOL_SIZE - 1) = ZB_IOBUF_POOL_SIZE
  BY PoolAssumption, FS_Interval
<1>2. QED
  BY <1>1, PoolAssumption DEF Bufs, ZB_BUFS_LIMIT

\* Subsets of the pool have a cardinality, and adding or removing one buffer
\* changes it by one.
LEMMA SubsetCount ==
    ASSUME NEW S \in SUBSET Bufs, NEW b \in Bufs
    PROVE  /\ IsFiniteSet(S)
           /\ Cardinality(S) \in Nat
           /\ b \notin S => Cardinality(S \cup {b}) = Cardinality(S) + 1
           /\ b \in S => Cardinality(S \ {b}) = Cardinality(S) - 1
           /\ b \in S => Cardinality(S) >= 1
<1>1. IsFiniteSet(S)
  BY PoolFinite, FS_Subset
<1>2. Cardinality(S) \in Nat
  BY <1>1, FS_CardinalityType
<1>3. b \notin S => Cardinality(S \cup {b}) = Cardinality(S) + 1
  BY <1>1, FS_AddElement
<1>4. b \in S => Cardinality(S \ {b}) = Cardinality(S) - 1
  BY <1>1, FS_RemoveElement
<1>5. b \in S => Cardinality(S) >= 1
  BY <1>1, <1>2, FS_EmptySet
<1>6. QED
  BY <1>1, <1>2, <1>3, <1>4, <1>5

\* zb_get_buf() keeps the counters exact and within the limit.
LEMMA GetKeepsCount ==
    ASSUME TypeOK, AllocExact, NEW d \in Dir, NEW b \in freelist, zb_get_buf(d, b)
    PROVE  /\ AllocExact'
           /\ freelist' \subseteq Bufs
           /\ is_in_buf' \in [Bufs -> Dir]
           /\ bufs_allocated' \in [Dir -> 0 .. ZB_BUFS_LIMIT]
<1>1. b \in Bufs /\ freelist' = freelist \ {b} /\ freelist' \subseteq Bufs
  BY DEF TypeOK, zb_get_buf
<1>2. is_in_buf' \in [Bufs -> Dir]
  BY DEF TypeOK, zb_get_buf
<1>3. bufs_allocated' \in [Dir -> 0 .. ZB_BUFS_LIMIT]
  BY PoolFinite DEF TypeOK, zb_get_buf, BufAvailable
<1>4. ASSUME NEW e \in Dir
      PROVE  bufs_allocated'[e] = Cardinality(Used(e)')
  <2>1. Used(e) \in SUBSET Bufs /\ b \notin Used(e)
    BY DEF Used
  <2>2. bufs_allocated[e] = Cardinality(Used(e))
    BY DEF AllocExact, Used
  <2>3. CASE e = d
    <3>1. Used(e)' = Used(e) \cup {b}
      BY <1>1, <2>3 DEF Used, zb_get_buf, TypeOK
    <3>2. bufs_allocated'[e] = bufs_allocated[e] + 1
      BY <2>3 DEF zb_get_buf, TypeOK
    <3>3. QED
      BY <1>1, <2>1, <2>2, <3>1, <3>2, SubsetCount
  <2>4. CASE e # d
    <3>1. Used(e)' = Used(e)
      BY <1>1, <2>4 DEF Used, zb_get_buf, TypeOK
    <3>2. bufs_allocated'[e] = bufs_allocated[e]
      BY <2>4 DEF zb_get_buf, TypeOK
    <3>3. QED
      BY <2>2, <3>1, <3>2
  <2>5. QED
    BY <2>3, <2>4
<1>5. AllocExact'
  BY <1>4 DEF AllocExact, Used
<1>6. QED
  BY <1>1, <1>2, <1>3, <1>5

\* Putting one used buffer back on the free list and decrementing its counter
\* keeps the counters exact.
LEMMA ReleaseKeepsCount ==
    ASSUME TypeOK, AllocExact, NEW b \in Bufs \ freelist,
           freelist' = freelist \cup {b},
           is_in_buf' = is_in_buf,
           bufs_allocated' = [bufs_allocated EXCEPT ![is_in_buf[b]] = @ - 1]
    PROVE  /\ AllocExact'
           /\ bufs_allocated' \in [Dir -> 0 .. ZB_BUFS_LIMIT]
<1> DEFINE d == is_in_buf[b]
<1>1. d \in Dir
  BY DEF TypeOK
<1>2. b \in Used(d) /\ Used(d) \in SUBSET Bufs
  BY DEF Used
<1>3. bufs_allocated[d] = Cardinality(Used(d))
  BY <1>1 DEF AllocExact, Used
<1>4. bufs_allocated[d] >= 1
  BY <1>2, <1>3, SubsetCount
<1>5. bufs_allocated' \in [Dir -> 0 .. ZB_BUFS_LIMIT]
  BY <1>1, <1>4, PoolFinite DEF TypeOK
<1>6. ASSUME NEW e \in Dir
      PROVE  bufs_allocated'[e] = Cardinality(Used(e)')
  <2>1. CASE e = d
    <3>1. Used(e)' = Used(e) \ {b}
      BY <2>1 DEF Used
    <3>2. bufs_allocated'[e] = bufs_allocated[e] - 1
      BY <1>1, <2>1 DEF TypeOK
    <3>3. QED
      BY <1>2, <1>3, <2>1, <3>1, <3>2, SubsetCount
  <2>2. CASE e # d
    <3>1. Used(e)' = Used(e)
      BY <2>2 DEF Used
    <3>2. bufs_allocated'[e] = bufs_allocated[e]
      BY <1>1, <2>2 DEF TypeOK
    <3>3. QED
      BY <3>1, <3>2 DEF AllocExact, Used
  <2>3. QED
    BY <2>1, <2>2
<1>7. QED
  BY <1>5, <1>6 DEF AllocExact, Used

\* Exact counters within the limit leave a buffer free for every direction
\* that is under its limit.
LEMMA HalvesFromCount ==
    ASSUME TypeOK, AllocExact
    PROVE  HalvesIndependent
<1>1. SUFFICES ASSUME freelist = {}, NEW d \in Dir, bufs_allocated[d] < ZB_BUFS_LIMIT
               PROVE  FALSE
  BY DEF HalvesIndependent
<1>2. Used(0) \in SUBSET Bufs /\ Used(1) \in SUBSET Bufs
  BY DEF Used
<1>3. IsFiniteSet(Used(0)) /\ IsFiniteSet(Used(1))
  BY <1>2, PoolFinite, FS_Subset
<1>4. Used(0) \cap Used(1) = {}
  BY DEF Used
<1>5. Used(0) \cup Used(1) = Bufs
  BY <1>1 DEF Used, TypeOK, Dir
<1>6. ZB_IOBUF_POOL_SIZE = Cardinality(Used(0)) + Cardinality(Used(1)) - Cardinality({})
  BY <1>3, <1>4, <1>5, PoolFinite, FS_Union
<1>7. bufs_allocated[0] = Cardinality(Used(0)) /\ bufs_allocated[1] = Cardinality(Used(1))
  BY DEF AllocExact, Used, Dir
<1>8. bufs_allocated[0] \in 0 .. ZB_BUFS_LIMIT /\ bufs_allocated[1] \in 0 .. ZB_BUFS_LIMIT
  BY DEF TypeOK, Dir
<1>9. bufs_allocated[0] + bufs_allocated[1] = ZB_IOBUF_POOL_SIZE
  BY <1>6, <1>7, <1>8, FS_EmptySet
<1>10. QED
  BY <1>1, <1>8, <1>9, PoolFinite DEF Dir

-----------------------------------------------------------------------------
(* The ring of callbacks.                                                   *)

\* No two queued callbacks carry the same buffer.
DistinctParams ==
    \A i, j \in FirstQueued .. Len(cb_q) :
        i # j /\ cb_q[i].param = cb_q[j].param => cb_q[i].param = 0

\* zb_schedule_callback() of a buffer that no queued callback carries.
LEMMA ScheduleKeepsRing ==
    ASSUME TypeOK, DistinctParams, NEW f \in Callbacks, NEW p \in Bufs,
           p # 0 => p \notin QueuedBufs,
           RunningInRing,
           ScheduleCallback(f, p), pc' = pc
    PROVE  /\ cb_q' \in Seq(Entry)
           /\ DistinctParams'
           /\ QueuedBufs \subseteq QueuedBufs'
           /\ QueuedBufs' \subseteq QueuedBufs \cup ({p} \ {0})
           /\ RunningInRing'
<1> DEFINE e == [func |-> f, param |-> p]
<1>1. cb_q \in Seq(Entry) /\ e \in Entry
  BY DEF TypeOK, Entry
<1>2. CASE ~(Len(cb_q) < ZB_SCHEDULER_Q_SIZE)
  <2>1. cb_q' = cb_q
    BY <1>2 DEF ScheduleCallback
  <2>2. QED
    BY <1>1, <2>1 DEF DistinctParams, QueuedBufs, FirstQueued, RunningInRing
<1>3. CASE Len(cb_q) < ZB_SCHEDULER_Q_SIZE
  <2>1. cb_q' = Append(cb_q, e)
    BY <1>3 DEF ScheduleCallback
  <2>2. /\ cb_q' \in Seq(Entry)
        /\ Len(cb_q) \in Nat
        /\ Len(cb_q') = Len(cb_q) + 1
        /\ \A i \in 1 .. Len(cb_q) : cb_q'[i] = cb_q[i]
        /\ cb_q'[Len(cb_q) + 1] = e
    BY <1>1, <2>1
  <2>3. FirstQueued \in {1, 2} /\ FirstQueued' = FirstQueued
    BY DEF FirstQueued
  <2>4. FirstQueued <= Len(cb_q) + 1
    BY <1>1, <2>2 DEF FirstQueued, RunningInRing
  <2>5. \A i \in FirstQueued .. Len(cb_q) + 1 :
            cb_q'[i].param = IF i = Len(cb_q) + 1 THEN p ELSE cb_q[i].param
    BY <2>2, <2>3
  <2>6. QueuedBufs \subseteq QueuedBufs'
    BY <2>2, <2>3, <2>5 DEF QueuedBufs
  <2>7. QueuedBufs' \subseteq QueuedBufs \cup ({p} \ {0})
    BY <2>2, <2>3, <2>5 DEF QueuedBufs
  <2>8. DistinctParams'
    <3>1. \A i \in FirstQueued .. Len(cb_q) : cb_q[i].param = p => p = 0
      BY <2>3 DEF QueuedBufs
    <3>2. QED
      BY <2>2, <2>3, <2>5, <3>1 DEF DistinctParams
  <2>9. RunningInRing'
    BY <2>1, <2>2, <1>1 DEF RunningInRing
  <2>10. QED
    BY <2>2, <2>6, <2>7, <2>8, <2>9
<1>4. QED
  BY <1>2, <1>3

\* When the head starts to run its buffer leaves the queued ones.
LEMMA RunKeepsRing ==
    ASSUME TypeOK, DistinctParams, RunCallback
    PROVE  /\ DistinctParams'
           /\ QueuedBufs' = QueuedBufs \ {Head(cb_q).param}
           /\ Head(cb_q).param \in Bufs
           /\ Head(cb_q).param # 0 => Head(cb_q).param \in QueuedBufs
<1>1. cb_q \in Seq(Entry) /\ cb_q # <<>> /\ cb_q' = cb_q
  BY DEF TypeOK, RunCallback
<1>2. Head(cb_q) = cb_q[1] /\ Len(cb_q) \in Nat /\ Len(cb_q) >= 1
  BY <1>1
<1>3. cb_q[1].param \in Bufs
  <2>1. cb_q[1] \in Entry
    BY <1>1, <1>2
  <2>2. QED
    BY <2>1 DEF Entry
<1>4. FirstQueued = 1 /\ FirstQueued' = 2
  BY DEF FirstQueued, RunCallback
<1>5. \A i \in 2 .. Len(cb_q) : cb_q[i].param = cb_q[1].param => cb_q[i].param = 0
  BY <1>2, <1>4 DEF DistinctParams
<1>6. DistinctParams'
  BY <1>1, <1>2, <1>4 DEF DistinctParams
<1>7. QueuedBufs' = {cb_q[i].param : i \in 2 .. Len(cb_q)} \ {0}
  BY <1>1, <1>4 DEF QueuedBufs
<1>8. QueuedBufs = {cb_q[i].param : i \in 1 .. Len(cb_q)} \ {0}
  BY <1>4 DEF QueuedBufs
<1>9. {cb_q[i].param : i \in 1 .. Len(cb_q)} =
        {cb_q[i].param : i \in 2 .. Len(cb_q)} \cup {cb_q[1].param}
  BY <1>2
<1>10. QueuedBufs' = QueuedBufs \ {cb_q[1].param}
  <2>1. cb_q[1].param \notin QueuedBufs'
    BY <1>2, <1>5, <1>7
  <2>2. QED
    BY <1>7, <1>8, <1>9, <2>1
<1>11. cb_q[1].param # 0 => cb_q[1].param \in QueuedBufs
  BY <1>8, <1>9
<1>12. QED
  BY <1>2, <1>3, <1>6, <1>10, <1>11

\* When the head has run it leaves the ring and the queued buffers stay.
LEMMA DoneKeepsRing ==
    ASSUME TypeOK, DistinctParams, RunningInRing, CallbackDone
    PROVE  /\ cb_q' \in Seq(Entry)
           /\ DistinctParams'
           /\ QueuedBufs' = QueuedBufs
<1>1. cb_q \in Seq(Entry) /\ cb_q # <<>> /\ cb_q' = Tail(cb_q)
  BY DEF TypeOK, CallbackDone, RunningInRing
<1>2. /\ Len(cb_q) \in Nat /\ Len(cb_q) >= 1
      /\ cb_q' \in Seq(Entry)
      /\ Len(cb_q') = Len(cb_q) - 1
      /\ \A i \in 1 .. Len(cb_q) - 1 : cb_q'[i] = cb_q[i + 1]
  BY <1>1
<1>3. FirstQueued = 2 /\ FirstQueued' = 1
  BY DEF FirstQueued, CallbackDone
<1>4. \A i \in 2 .. Len(cb_q) : i - 1 \in 1 .. Len(cb_q) - 1 /\ cb_q'[i - 1] = cb_q[i]
  BY <1>2
<1>5. DistinctParams'
  BY <1>2, <1>3 DEF DistinctParams
<1>6. QueuedBufs' = QueuedBufs
  BY <1>2, <1>3, <1>4 DEF QueuedBufs
<1>7. QED
  BY <1>2, <1>5, <1>6

-----------------------------------------------------------------------------
(* The inductive invariant.                                                 *)

\* The state after zb_init() satisfies the invariant.
LEMMA InitPoolInv == Init => PoolInv
<1> SUFFICES ASSUME Init PROVE PoolInv
  OBVIOUS
<1>1. MacBufs \subseteq Bufs /\ MacBufs = {0, 1, 2}
  BY PoolAssumption DEF MacBufs, Bufs
<1>2. QueuedBufs = {} /\ FirstQueued = 1 /\ Len(cb_q) = 0
  BY DEF Init, QueuedBufs, FirstQueued
<1>3. TypeOK
  <2>1. bufs_allocated \in [Dir -> 0 .. ZB_BUFS_LIMIT]
    BY PoolFinite DEF Init, Dir
  <2>2. buf_queue \in [Dir -> Seq(Callbacks)] /\ cb_q \in Seq(Entry)
    BY DEF Init
  <2>3. freelist \subseteq Bufs /\ held \subseteq Bufs /\ is_in_buf \in [Bufs -> Dir]
    BY <1>1 DEF Init, Dir
  <2>4. QED
    BY <2>1, <2>2, <2>3 DEF Init, TypeOK, Pc, UserPc
<1>4. AllocExact
  <2>1. Bufs \ freelist = {0, 1, 2}
    BY <1>1 DEF Init
  <2>2. {b \in Bufs \ freelist : is_in_buf[b] = 0} = {0} \cup {2}
    BY <1>1, <2>1 DEF Init
  <2>3. {b \in Bufs \ freelist : is_in_buf[b] = 1} = {1}
    BY <1>1, <2>1 DEF Init
  <2>4. Cardinality({1}) = 1 /\ IsFiniteSet({0}) /\ Cardinality({0}) = 1
    BY FS_Singleton
  <2>5. Cardinality({0} \cup {2}) = 2
    BY <2>4, FS_AddElement
  <2>6. bufs_allocated[0] = 2 /\ bufs_allocated[1] = 1
    BY DEF Init, Dir
  <2>7. QED
    BY <2>2, <2>3, <2>4, <2>5, <2>6 DEF AllocExact, Dir
<1>5. OneOwner
  BY <1>2 DEF Init, OneOwner
<1>6. QED
  BY <1>3, <1>4, <1>5
     DEF PoolInv, Init, MacBufsReserved, OutWaitOnlyWhenFull, RunningInRing, Dir

\* The parts of the invariant under a step that does not touch the pool, the
\* ring or the waiting queues.
LEMMA LoopOnlyStep ==
    ASSUME PoolInv, pc # "cb", pc' # "cb", pc' \in Pc,
           rx_need_buf' \in BOOLEAN, mac_receive_pending' \in BOOLEAN,
           did_something' \in BOOLEAN,
           UNCHANGED <<freelist, is_in_buf, bufs_allocated, held, buf_queue, cb_q>>
    PROVE  PoolInv'
<1>1. FirstQueued' = FirstQueued /\ QueuedBufs' = QueuedBufs
  BY DEF FirstQueued, QueuedBufs
<1>2. TypeOK'
  BY DEF PoolInv, TypeOK
<1>3. AllocExact'
  BY DEF PoolInv, AllocExact
<1>4. OneOwner'
  BY <1>1 DEF PoolInv, OneOwner
<1>5. QED
  BY <1>2, <1>3, <1>4
     DEF PoolInv, MacBufsReserved, OutWaitOnlyWhenFull, RunningInRing

\* Taking buffer b directly: zb_get_out_buf(), and the IN buffer of the
\* receive paths.
LEMMA TakeStep ==
    ASSUME PoolInv, NEW d \in Dir, NEW b \in freelist, zb_get_buf(d, b),
           held' = held \cup {b}, UNCHANGED <<buf_queue, cb_q>>,
           pc # "cb" <=> pc' # "cb", pc' \in Pc,
           rx_need_buf' \in BOOLEAN, mac_receive_pending' \in BOOLEAN,
           did_something' \in BOOLEAN
    PROVE  PoolInv'
<1>1. FirstQueued' = FirstQueued /\ QueuedBufs' = QueuedBufs
  BY DEF FirstQueued, QueuedBufs
<1>2. b \in Bufs /\ freelist' = freelist \ {b}
  BY DEF PoolInv, TypeOK, zb_get_buf
<1>3. /\ AllocExact'
      /\ freelist' \subseteq Bufs
      /\ is_in_buf' \in [Bufs -> Dir]
      /\ bufs_allocated' \in [Dir -> 0 .. ZB_BUFS_LIMIT]
  BY GetKeepsCount DEF PoolInv
<1>4. TypeOK'
  BY <1>2, <1>3 DEF PoolInv, TypeOK
<1>5. OneOwner'
  BY <1>1, <1>2 DEF PoolInv, OneOwner
<1>6. OutWaitOnlyWhenFull'
  BY PoolFinite
     DEF PoolInv, OutWaitOnlyWhenFull, zb_get_buf, BufAvailable, TypeOK, Dir
<1>7. MacBufsReserved' /\ RunningInRing'
  BY DEF PoolInv, MacBufsReserved, RunningInRing
<1>8. QED
  BY <1>3, <1>4, <1>5, <1>6, <1>7 DEF PoolInv

\* zb_free_buf() keeps the invariant: either the buffer goes back to the free
\* list, or it passes to the head of the waiting queue without becoming free.
LEMMA FreeStep ==
    ASSUME PoolInv, NEW b \in Bufs, zb_free_buf(b)
    PROVE  PoolInv'
<1> DEFINE d == is_in_buf[b]
<1> USE DEF PoolInv
<1>1. /\ b \in held /\ b \notin freelist /\ b \notin QueuedBufs
      /\ b \notin MacBufs /\ b # 0 /\ d \in Dir
  BY DEF zb_free_buf, OneOwner, TypeOK, MacBufs
<1>2. /\ held' = held \ {b} /\ is_in_buf' = is_in_buf /\ pc' = pc
      /\ UNCHANGED loopVars
  BY DEF zb_free_buf, loopVars
<1>3. FirstQueued' = FirstQueued
  BY <1>2 DEF FirstQueued
<1>4. MacBufsReserved'
  BY <1>1, <1>2 DEF MacBufsReserved
<1>5. CASE Wakes(d)
  <2>1. /\ ScheduleCallback(Head(buf_queue[d]), b)
        /\ buf_queue' = [buf_queue EXCEPT ![d] = Tail(@)]
        /\ freelist' = freelist /\ bufs_allocated' = bufs_allocated
    BY <1>5 DEF zb_free_buf
  <2>2. buf_queue[d] \in Seq(Callbacks) /\ buf_queue[d] # <<>>
    BY <1>1, <1>5 DEF TypeOK, Wakes
  <2>3. Head(buf_queue[d]) \in Callbacks /\ Tail(buf_queue[d]) \in Seq(Callbacks)
    BY <2>2
  <2>4. DistinctParams
    BY DEF OneOwner, DistinctParams
  <2>5. /\ cb_q' \in Seq(Entry) /\ DistinctParams' /\ RunningInRing'
        /\ QueuedBufs' \subseteq QueuedBufs \cup {b}
    BY <1>1, <1>2, <2>1, <2>3, <2>4, ScheduleKeepsRing
  <2>6. TypeOK'
    BY <1>1, <1>2, <2>1, <2>3, <2>5 DEF TypeOK, loopVars
  <2>7. AllocExact'
    BY <1>2, <2>1 DEF AllocExact
  <2>8. OneOwner'
    BY <1>1, <1>2, <1>3, <2>1, <2>5 DEF OneOwner, DistinctParams
  <2>9. OutWaitOnlyWhenFull'
    BY <1>1, <2>1, <2>2 DEF OutWaitOnlyWhenFull, TypeOK, Dir
  <2>10. QED
    BY <1>4, <2>5, <2>6, <2>7, <2>8, <2>9
<1>6. CASE ~Wakes(d)
  <2>1. /\ freelist' = freelist \cup {b}
        /\ bufs_allocated' = [bufs_allocated EXCEPT ![d] = @ - 1]
        /\ cb_q' = cb_q /\ buf_queue' = buf_queue
    BY <1>6 DEF zb_free_buf
  <2>2. AllocExact' /\ bufs_allocated' \in [Dir -> 0 .. ZB_BUFS_LIMIT]
    BY <1>1, <1>2, <2>1, ReleaseKeepsCount
  <2>3. QueuedBufs' = QueuedBufs
    BY <1>3, <2>1 DEF QueuedBufs
  <2>4. TypeOK'
    BY <1>2, <2>1, <2>2 DEF TypeOK, loopVars
  <2>5. OneOwner'
    BY <1>1, <1>2, <1>3, <2>1, <2>3 DEF OneOwner
  <2>6. OutWaitOnlyWhenFull'
    BY <1>1, <1>6, <2>1 DEF OutWaitOnlyWhenFull, Wakes, TypeOK, Dir
  <2>7. RunningInRing'
    BY <1>2, <2>1 DEF RunningInRing
  <2>8. QED
    BY <1>4, <2>2, <2>4, <2>5, <2>6, <2>7
<1>7. QED
  BY <1>5, <1>6

\* zb_get_in_buf_delayed() and zb_get_out_buf_delayed() keep the invariant.
LEMMA DelayedStep ==
    ASSUME PoolInv, NEW d \in Dir, NEW f \in Callbacks, zb_get_buf_delayed(d, f)
    PROVE  PoolInv'
<1> USE DEF PoolInv
<1>1. held' = held /\ pc' = pc /\ UNCHANGED loopVars
  BY DEF zb_get_buf_delayed, loopVars
<1>2. FirstQueued' = FirstQueued
  BY <1>1 DEF FirstQueued
<1>3. MacBufsReserved'
  BY <1>1 DEF MacBufsReserved
<1>4. DistinctParams
  BY DEF OneOwner, DistinctParams
<1>5. ASSUME NEW b \in freelist, zb_get_buf(d, b), ScheduleCallback(f, b),
             UNCHANGED buf_queue
      PROVE  PoolInv'
  <2>1. /\ b \in Bufs /\ b \notin held /\ b \notin QueuedBufs
        /\ freelist' = freelist \ {b}
    BY <1>5 DEF TypeOK, OneOwner, zb_get_buf
  <2>2. /\ AllocExact'
        /\ freelist' \subseteq Bufs
        /\ is_in_buf' \in [Bufs -> Dir]
        /\ bufs_allocated' \in [Dir -> 0 .. ZB_BUFS_LIMIT]
    BY <1>5, GetKeepsCount
  <2>3. /\ cb_q' \in Seq(Entry) /\ DistinctParams' /\ RunningInRing'
        /\ QueuedBufs' \subseteq QueuedBufs \cup {b}
    BY <1>1, <1>4, <1>5, <2>1, ScheduleKeepsRing
  <2>4. TypeOK'
    BY <1>1, <1>5, <2>2, <2>3 DEF TypeOK, loopVars
  <2>5. OneOwner'
    BY <1>1, <1>2, <2>1, <2>3 DEF OneOwner, DistinctParams
  <2>6. OutWaitOnlyWhenFull'
    BY <1>5, PoolFinite DEF OutWaitOnlyWhenFull, zb_get_buf, BufAvailable, TypeOK, Dir
  <2>7. QED
    BY <1>3, <2>2, <2>3, <2>4, <2>5, <2>6
<1>6. ASSUME ~BufAvailable(d),
             buf_queue' = [buf_queue EXCEPT ![d] = Append(@, f)],
             UNCHANGED <<freelist, is_in_buf, bufs_allocated, cb_q>>
      PROVE  PoolInv'
  <2>1. QueuedBufs' = QueuedBufs
    BY <1>2, <1>6 DEF QueuedBufs
  <2>2. Append(buf_queue[d], f) \in Seq(Callbacks)
    BY DEF TypeOK
  <2>3. TypeOK'
    BY <1>1, <1>6, <2>2 DEF TypeOK, loopVars
  <2>4. AllocExact'
    BY <1>6 DEF AllocExact
  <2>5. OneOwner'
    BY <1>1, <1>2, <1>6, <2>1 DEF OneOwner
  <2>6. OutWaitOnlyWhenFull'
    <3>1. HalvesIndependent
      BY HalvesFromCount
    <3>2. bufs_allocated[d] = ZB_BUFS_LIMIT
      BY <1>6, <3>1, PoolFinite DEF BufAvailable, HalvesIndependent, TypeOK
    <3>3. QED
      BY <1>6, <3>2 DEF OutWaitOnlyWhenFull, TypeOK, Dir
  <2>7. RunningInRing'
    BY <1>1, <1>6 DEF RunningInRing
  <2>8. QED
    BY <1>3, <2>3, <2>4, <2>5, <2>6, <2>7
<1>7. QED
  BY <1>5, <1>6 DEF zb_get_buf_delayed

\* zb_schedule_callback() keeps the invariant.
LEMMA ScheduleStep ==
    ASSUME PoolInv, NEW f \in Callbacks, NEW p \in Bufs, zb_schedule_callback(f, p)
    PROVE  PoolInv'
<1> USE DEF PoolInv
<1>1. /\ held' = held \ ({p} \ {0}) /\ ScheduleCallback(f, p)
      /\ UNCHANGED <<freelist, is_in_buf, bufs_allocated, buf_queue>>
      /\ pc' = pc /\ UNCHANGED loopVars
      /\ p # 0 => p \in held \ MacBufs
  BY DEF zb_schedule_callback, loopVars
<1>2. DistinctParams /\ FirstQueued' = FirstQueued /\ (p # 0 => p \notin QueuedBufs)
  BY <1>1 DEF OneOwner, DistinctParams, FirstQueued
<1>3. /\ cb_q' \in Seq(Entry) /\ DistinctParams' /\ RunningInRing'
      /\ QueuedBufs' \subseteq QueuedBufs \cup ({p} \ {0})
  BY <1>1, <1>2, ScheduleKeepsRing
<1>4. TypeOK'
  BY <1>1, <1>3 DEF TypeOK, loopVars
<1>5. OneOwner'
  BY <1>1, <1>2, <1>3 DEF OneOwner, DistinctParams
<1>6. AllocExact' /\ MacBufsReserved' /\ OutWaitOnlyWhenFull'
  BY <1>1 DEF AllocExact, MacBufsReserved, OutWaitOnlyWhenFull
<1>7. QED
  BY <1>3, <1>4, <1>5, <1>6

\* Starting and finishing a callback of the ring keep the invariant.
LEMMA CallbackStep ==
    ASSUME PoolInv, RunCallback \/ CallbackDone
    PROVE  PoolInv'
<1> USE DEF PoolInv
<1>1. DistinctParams
  BY DEF OneOwner, DistinctParams
<1>2. CASE RunCallback
  <2> DEFINE p == Head(cb_q).param
  <2>1. /\ DistinctParams' /\ QueuedBufs' = QueuedBufs \ {p} /\ p \in Bufs
        /\ p # 0 => p \in QueuedBufs
    BY <1>1, <1>2, RunKeepsRing
  <2>2. /\ held' = held \cup ({p} \ {0}) /\ cb_q' = cb_q
        /\ UNCHANGED <<freelist, is_in_buf, bufs_allocated, buf_queue>>
    BY <1>2 DEF RunCallback
  <2>3. TypeOK'
    BY <1>2, <2>1, <2>2 DEF RunCallback, TypeOK, Pc, UserPc
  <2>4. OneOwner'
    BY <2>1, <2>2 DEF OneOwner, DistinctParams
  <2>5. AllocExact' /\ MacBufsReserved' /\ OutWaitOnlyWhenFull' /\ RunningInRing'
    BY <1>2, <2>2
       DEF RunCallback, AllocExact, MacBufsReserved, OutWaitOnlyWhenFull, RunningInRing
  <2>6. QED
    BY <2>3, <2>4, <2>5
<1>3. CASE CallbackDone
  <2>1. cb_q' \in Seq(Entry) /\ DistinctParams' /\ QueuedBufs' = QueuedBufs
    BY <1>1, <1>3, DoneKeepsRing
  <2>2. TypeOK'
    BY <1>3, <2>1 DEF CallbackDone, TypeOK, Pc, UserPc
  <2>3. OneOwner'
    BY <1>3, <2>1 DEF CallbackDone, OneOwner, DistinctParams
  <2>4. AllocExact' /\ MacBufsReserved' /\ OutWaitOnlyWhenFull' /\ RunningInRing'
    BY <1>3
       DEF CallbackDone, AllocExact, MacBufsReserved, OutWaitOnlyWhenFull, RunningInRing
  <2>5. QED
    BY <2>2, <2>3, <2>4
<1>4. QED
  BY <1>2, <1>3

\* Every step keeps the invariant.
LEMMA NextPoolInv == PoolInv /\ [Next]_vars => PoolInv'
<1> SUFFICES ASSUME PoolInv, [Next]_vars PROVE PoolInv'
  OBVIOUS
<1> USE DEF loopVars
<1>0. TypeOK
  BY DEF PoolInv
<1>1. CASE zb_get_out_buf
  BY <1>0, <1>1, TakeStep DEF zb_get_out_buf, Dir, TypeOK
<1>2. ASSUME NEW d \in Dir, NEW f \in Callbacks, zb_get_buf_delayed(d, f) PROVE PoolInv'
  BY <1>2, DelayedStep
<1>3. ASSUME NEW b \in Bufs, zb_free_buf(b) PROVE PoolInv'
  BY <1>3, FreeStep
<1>4. ASSUME NEW f \in Callbacks, NEW p \in Bufs, zb_schedule_callback(f, p) PROVE PoolInv'
  BY <1>4, ScheduleStep
<1>5. CASE zb_mac_check_ack
  BY <1>0, <1>5, TakeStep DEF zb_mac_check_ack, Dir, TypeOK
<1>6. CASE zb_mac_main_loop
  <2>1. ASSUME ~mac_receive_pending, pc' = "sched",
               UNCHANGED <<freelist, is_in_buf, bufs_allocated, held,
                           mac_receive_pending, rx_need_buf>>
        PROVE  PoolInv'
    BY <1>0, <1>6, <2>1, LoopOnlyStep DEF zb_mac_main_loop, TypeOK, Pc
  <2>2. ASSUME NEW b \in freelist, zb_get_buf(1, b), held' = held \cup {b},
               mac_receive_pending' = FALSE, pc' = "rx", UNCHANGED rx_need_buf
        PROVE  PoolInv'
    BY <1>0, <1>6, <2>2, TakeStep DEF zb_mac_main_loop, TypeOK, Pc, UserPc, Dir
  <2>3. ASSUME rx_need_buf' = TRUE, pc' = "sched",
               UNCHANGED <<freelist, is_in_buf, bufs_allocated, held,
                           mac_receive_pending>>
        PROVE  PoolInv'
    BY <1>0, <1>6, <2>3, LoopOnlyStep DEF zb_mac_main_loop, TypeOK, Pc
  <2>4. QED
    BY <1>6, <2>1, <2>2, <2>3 DEF zb_mac_main_loop
<1>7. CASE RecvDataDone
  BY <1>0, <1>7, LoopOnlyStep DEF RecvDataDone, TypeOK, Pc
<1>8. CASE RunCallback \/ CallbackDone
  BY <1>8, CallbackStep
<1>9. CASE RunAlarms
  BY <1>0, <1>9, LoopOnlyStep DEF RunAlarms, TypeOK, Pc, UserPc
<1>10. CASE LoopEnd
  BY <1>0, <1>10, LoopOnlyStep DEF LoopEnd, TypeOK, Pc, UserPc
<1>11. CASE zb_mac_wait_for_ext_event
  BY <1>0, <1>11, LoopOnlyStep DEF zb_mac_wait_for_ext_event, TypeOK, Pc, UserPc
<1>12. CASE UNCHANGED vars
  <2>1. FirstQueued' = FirstQueued /\ QueuedBufs' = QueuedBufs
    BY <1>12 DEF vars, FirstQueued, QueuedBufs
  <2>2. TypeOK' /\ AllocExact'
    BY <1>12 DEF vars, PoolInv, TypeOK, AllocExact
  <2>3. OneOwner'
    BY <1>12, <2>1 DEF vars, PoolInv, OneOwner
  <2>4. MacBufsReserved' /\ OutWaitOnlyWhenFull' /\ RunningInRing'
    BY <1>12 DEF vars, PoolInv, MacBufsReserved, OutWaitOnlyWhenFull, RunningInRing
  <2>5. QED
    BY <2>2, <2>3, <2>4 DEF PoolInv
<1>13. QED
  BY <1>1, <1>2, <1>3, <1>4, <1>5, <1>6, <1>7, <1>8, <1>9, <1>10, <1>11, <1>12
     DEF Next, UserStep, LoopStep

\* The invariant of the pool holds in every reachable state.
THEOREM PoolInvariant == Spec => []PoolInv
<1>1. Init => PoolInv
  BY InitPoolInv
<1>2. PoolInv /\ [Next]_vars => PoolInv'
  BY NextPoolInv
<1>3. QED
  BY <1>1, <1>2, PTL DEF Spec

\* Every variable stays within its type: neither the ring nor the queues of
\* waiters nor the free list ever exceeds its size.
THEOREM TypeCorrect == Spec => []TypeOK
<1>1. PoolInv => TypeOK
  BY DEF PoolInv
<1>2. QED
  BY <1>1, PoolInvariant, PTL

\* bufs_allocated[] counts the buffers in use exactly, whatever the upper
\* layers do with the pool.
THEOREM CountersExact == Spec => []AllocExact
<1>1. PoolInv => AllocExact
  BY DEF PoolInv
<1>2. QED
  BY <1>1, PoolInvariant, PTL

\* One half of the pool can never take a buffer of the other half: the claim
\* of the comment in zb_get_buf().
THEOREM PoolHalvesIndependent == Spec => []HalvesIndependent
<1>1. PoolInv => HalvesIndependent
  BY HalvesFromCount DEF PoolInv
<1>2. QED
  BY <1>1, PoolInvariant, PTL

\* No buffer is ever referenced from two places of the scheduler and its
\* users, and a request that waits for an OUT buffer is never overtaken.
THEOREM SingleOwner == Spec => [](OneOwner /\ OutWaitOnlyWhenFull)
<1>1. PoolInv => OneOwner /\ OutWaitOnlyWhenFull
  BY DEF PoolInv
<1>2. QED
  BY <1>1, PoolInvariant, PTL

-----------------------------------------------------------------------------
(* No buffer is lost through a full ring.  The ring holds the callbacks with *)
(* a buffer, which have distinct ones and none of the MAC's or of the caller, *)
(* the ones without, and the one that runs: there is a place for a buffer.   *)

\* The ring has a place for every buffer the MAC does not keep, for the callbacks
\* without a buffer and for the one that runs: 16 places for 16 buffers in
\* zb_config.h, which leaves room for two callbacks without a buffer.
RingLongEnough == ZB_SCHEDULER_Q_SIZE >= ZB_IOBUF_POOL_SIZE - 2 + MaxPlain

\* The callbacks without a buffer in the ring q.
PlainIn(q) == {i \in 1 .. Len(q) : q[i].param = 0}

LossInv ==
    /\ PoolInv
    /\ PlainCount <= MaxPlain
    /\ NoBufferLost

\* One more callback in the ring.
LEMMA PlainAppended ==
    ASSUME NEW q \in Seq(Entry), NEW e
    PROVE  /\ IsFiniteSet(PlainIn(q)) /\ Cardinality(PlainIn(q)) \in Nat
           /\ Cardinality(PlainIn(Append(q, e))) =
                IF e.param = 0 THEN Cardinality(PlainIn(q)) + 1 ELSE Cardinality(PlainIn(q))
<1> DEFINE n == Len(q)
<1>1. n \in Nat /\ IsFiniteSet(1 .. n)
  BY FS_Interval
<1>2. IsFiniteSet(PlainIn(q)) /\ Cardinality(PlainIn(q)) \in Nat
  <2>1. PlainIn(q) \in SUBSET (1 .. n)
    BY DEF PlainIn
  <2> QED
    BY <1>1, <2>1, FS_Subset, FS_CardinalityType
<1>3. PICK r : r = Append(q, e)
  OBVIOUS
<1>4. /\ Len(r) = n + 1 /\ r[n + 1] = e /\ n + 1 \in 1 .. n + 1
      /\ \A i \in 1 .. n : r[i] = q[i] /\ i \in 1 .. n + 1 /\ i # n + 1
      /\ \A i \in 1 .. n + 1 : i \in 1 .. n \/ i = n + 1
  BY <1>1, <1>3
<1>5. CASE e.param = 0
  <2>1. PlainIn(r) = PlainIn(q) \cup {n + 1} /\ n + 1 \notin PlainIn(q)
    BY <1>1, <1>4, <1>5 DEF PlainIn
  <2>2. PICK S : S = PlainIn(q)
    OBVIOUS
  <2>3. Cardinality(S \cup {n + 1}) = Cardinality(S) + 1
    BY <1>2, <2>1, <2>2, FS_AddElement
  <2> QED
    BY <1>2, <1>3, <1>5, <2>1, <2>2, <2>3
<1>6. CASE e.param # 0
  <2>1. PlainIn(r) = PlainIn(q)
    BY <1>4, <1>6 DEF PlainIn
  <2> QED
    BY <1>2, <1>3, <1>6, <2>1
<1> QED
  BY <1>5, <1>6

\* One callback less.
LEMMA PlainRemoved ==
    ASSUME NEW q \in Seq(Entry), q # <<>>
    PROVE  Cardinality(PlainIn(Tail(q))) <= Cardinality(PlainIn(q))
<1> DEFINE n == Len(q)
<1>1. PICK r : r = Tail(q)
  OBVIOUS
<1>2. n \in Nat /\ Len(r) = n - 1 /\ \A i \in 1 .. n - 1 : r[i] = q[i + 1] /\ i + 1 \in 1 .. n
  BY <1>1
<1> DEFINE S == PlainIn(r)
<1> DEFINE T == PlainIn(q)
<1> DEFINE f == [i \in S |-> i + 1]
<1>3. \A i \in S : i \in Nat /\ i + 1 \in T
  BY <1>2 DEF PlainIn
<1>4. IsFiniteSet(T)
  BY PlainAppended
<1> HIDE DEF S, T
<1>5. f \in [S -> T] /\ \A i, j \in S : f[i] = f[j] => i = j
  BY <1>3
<1>6. f \in Injection(S, T)
  <2> HIDE DEF f
  <2> QED
    BY <1>5 DEF Injection, IsInjective
<1>7. Cardinality(S) <= Cardinality(T)
  <2> HIDE DEF f
  <2> QED
    BY <1>4, <1>6, FS_Injection
<1> QED
  BY <1>1, <1>7 DEF S, T

\* While some buffer b is not in the ring, the ring is not full.
LEMMA RingHasRoom ==
    ASSUME PoolInv, PlainCount <= MaxPlain, RingLongEnough,
           NEW b \in Bufs, b \notin MacBufs, b \notin QueuedBufs
    PROVE  Len(cb_q) < ZB_SCHEDULER_Q_SIZE
<1> DEFINE n == Len(cb_q)
<1> DEFINE P == {i \in FirstQueued .. n : cb_q[i].param # 0}
<1> DEFINE Q == PlainIn(cb_q)
<1> DEFINE R == Bufs \ {0, 1, 2, b}
<1> DEFINE f == [i \in P |-> cb_q[i].param]
<1>1. n \in Nat /\ cb_q \in Seq(Entry) /\ FirstQueued \in {1, 2}
  BY DEF PoolInv, TypeOK, FirstQueued
<1>2. {0, 1, 2} \in SUBSET Bufs /\ b \notin {0, 1, 2} /\ QueuedBufs \cap {0, 1, 2} = {}
  BY PoolAssumption DEF PoolInv, MacBufsReserved, MacBufs, OneOwner, Bufs
<1>3. \A i \in P : cb_q[i].param \in R
  <2> TAKE i \in P
  <2>1. i \in 1 .. n
    BY <1>1
  <2>2. cb_q[i] \in Entry
    BY <1>1, <2>1
  <2>3. cb_q[i].param \in Bufs
    BY <2>2 DEF Entry
  <2>4. cb_q[i].param \in QueuedBufs
    BY DEF QueuedBufs
  <2> QED
    BY <1>2, <2>3, <2>4
<1>4. IsFiniteSet(R) /\ Cardinality(R) = ZB_IOBUF_POOL_SIZE - 4
  <2>1. PICK S1 : S1 = Bufs \ {0}
    OBVIOUS
  <2>2. PICK S2 : S2 = S1 \ {1}
    OBVIOUS
  <2>3. PICK S3 : S3 = S2 \ {2}
    OBVIOUS
  <2>4. /\ Bufs \in SUBSET Bufs /\ S1 \in SUBSET Bufs /\ S2 \in SUBSET Bufs /\ S3 \in SUBSET Bufs
        /\ 0 \in Bufs /\ 1 \in S1 /\ 2 \in S2 /\ b \in S3 /\ 1 \in Bufs /\ 2 \in Bufs /\ R = S3 \ {b}
    BY <1>2, <2>1, <2>2, <2>3
  <2>5. \A S \in SUBSET Bufs : \A x \in Bufs :
           x \in S => Cardinality(S \ {x}) = Cardinality(S) - 1 /\ Cardinality(S) \in Nat
    BY SubsetCount
  <2> HIDE DEF R
  <2>6. Cardinality(S1) = ZB_IOBUF_POOL_SIZE - 1
    BY <2>1, <2>4, <2>5, PoolFinite
  <2>7. Cardinality(S2) = Cardinality(S1) - 1 /\ Cardinality(S3) = Cardinality(S2) - 1
    BY <2>2, <2>3, <2>4, <2>5
  <2>8. Cardinality(R) = Cardinality(S3) - 1
    BY <2>4, <2>5
  <2>9. IsFiniteSet(R)
    <3>1. R \in SUBSET Bufs
      BY DEF R
    <3> QED
      BY <3>1, PoolFinite, FS_Subset
  <2> QED
    BY <2>6, <2>7, <2>8, <2>9, PoolAssumption
<1>5. \A i, j \in P : f[i] = f[j] => i = j
  BY DEF PoolInv, OneOwner
<1>6. IsFiniteSet(P) /\ Cardinality(P) \in Nat /\ Cardinality(P) <= ZB_IOBUF_POOL_SIZE - 4
  <2>1. f \in [P -> R]
    BY <1>3
  <2> HIDE DEF f, P, R
  <2>2. f \in Injection(P, R)
    BY <1>5, <2>1 DEF Injection, IsInjective
  <2> QED
    BY <1>4, <2>2, FS_Injection, FS_CardinalityType
<1>7. IsFiniteSet(Q) /\ Cardinality(Q) \in Nat /\ Cardinality(Q) <= MaxPlain
  <2>1. Cardinality(Q) = PlainCount
    BY DEF PlainCount, PlainIn
  <2> QED
    BY <1>1, <2>1, PlainAppended
\* The callback that runs, then the ones with a buffer, and the ones without.
<1>8. 1 .. n \subseteq (P \cup {1}) \cup Q
  BY <1>1 DEF PlainIn
<1>9. IsFiniteSet(P \cup {1}) /\ Cardinality(P \cup {1}) \in Nat /\ Cardinality(P \cup {1}) <= Cardinality(P) + 1
  <2> HIDE DEF P
  <2>1. IsFiniteSet(P \cup {1})
    BY <1>6, FS_AddElement
  <2>2. Cardinality(P \cup {1}) = Cardinality(P) \/ Cardinality(P \cup {1}) = Cardinality(P) + 1
    BY <1>6, FS_AddElement
  <2> QED
    BY <1>6, <2>1, <2>2
<1>10. n <= Cardinality(P \cup {1}) + Cardinality(Q)
  <2> HIDE DEF P, Q
  <2>1. PICK U : U = P \cup {1}
    OBVIOUS
  <2>2. /\ IsFiniteSet(U \cup Q) /\ Cardinality(U \cup Q) = Cardinality(U) + Cardinality(Q) - Cardinality(U \cap Q)
    BY <1>7, <1>9, <2>1, FS_Union
  <2>3. IsFiniteSet(U \cap Q) /\ Cardinality(U \cap Q) \in Nat
    BY <1>7, FS_Subset, FS_CardinalityType
  <2>4. Cardinality(1 .. n) = n
    <3>1. 1 \in Int /\ n \in Int /\ (IF 1 > n THEN 0 ELSE n - 1 + 1) = n
      BY <1>1
    <3> QED
      BY <3>1, FS_Interval
  <2>5. Cardinality(1 .. n) <= Cardinality(U \cup Q)
    BY <1>8, <2>1, <2>2, FS_Subset
  <2> QED
    BY <1>1, <1>7, <1>9, <2>1, <2>2, <2>3, <2>4, <2>5
<1> HIDE DEF P, Q
<1> QED
  BY <1>1, <1>6, <1>7, <1>9, <1>10, PoolAssumption, QueueAssumption DEF RingLongEnough

\* A callback that finds room is queued with its buffer.
LEMMA BufferQueued ==
    ASSUME PoolInv, NEW f \in Callbacks, NEW p \in Bufs, ScheduleCallback(f, p), pc' = pc
    PROVE  /\ QueuedBufs \subseteq QueuedBufs'
           /\ p # 0 /\ Len(cb_q) < ZB_SCHEDULER_Q_SIZE => p \in QueuedBufs'
           /\ PlainCount' = PlainCount \/ (p = 0 /\ PlainCount' = PlainCount + 1)
<1> DEFINE e == [func |-> f, param |-> p]
<1>1. /\ cb_q \in Seq(Entry) /\ Len(cb_q) \in Nat /\ FirstQueued \in {1, 2} /\ FirstQueued' = FirstQueued
      /\ FirstQueued <= Len(cb_q) + 1
  BY DEF PoolInv, TypeOK, FirstQueued, RunningInRing
<1>2. CASE ~(Len(cb_q) < ZB_SCHEDULER_Q_SIZE)
  <2>1. cb_q' = cb_q
    BY <1>2 DEF ScheduleCallback
  <2>2. QueuedBufs' = QueuedBufs
    BY <1>1, <2>1 DEF QueuedBufs
  <2>3. PlainCount' = PlainCount
    BY <2>1 DEF PlainCount
  <2> QED
    BY <1>2, <2>2, <2>3
<1>3. CASE Len(cb_q) < ZB_SCHEDULER_Q_SIZE
  <2>1. cb_q' = Append(cb_q, e) /\ e.param = p
    BY <1>3 DEF ScheduleCallback
  <2>2. /\ Len(cb_q') = Len(cb_q) + 1 /\ cb_q'[Len(cb_q) + 1] = e
        /\ \A i \in 1 .. Len(cb_q) : cb_q'[i] = cb_q[i]
    BY <1>1, <2>1
  <2>3. QueuedBufs \subseteq QueuedBufs'
    BY <1>1, <2>2 DEF QueuedBufs
  <2>4. p # 0 => p \in QueuedBufs'
    BY <1>1, <2>1, <2>2 DEF QueuedBufs
  <2>5. PlainCount' = IF p = 0 THEN PlainCount + 1 ELSE PlainCount
    <3>1. PlainCount = Cardinality(PlainIn(cb_q)) /\ PlainCount' = Cardinality(PlainIn(cb_q'))
      BY DEF PlainCount, PlainIn
    <3> HIDE DEF e
    <3> QED
      BY <1>1, <2>1, <3>1, PlainAppended
  <2>6. PlainCount' = PlainCount \/ (p = 0 /\ PlainCount' = PlainCount + 1)
    BY <2>5
  <2> QED
    BY <2>3, <2>4, <2>6
<1> QED
  BY <1>2, <1>3

\* Every step keeps the buffers together.
LEMMA NextLossInv ==
    ASSUME RingLongEnough, LossInv, [Next]_vars
    PROVE  LossInv'
<1>0. PoolInv /\ PoolInv' /\ PlainCount <= MaxPlain /\ NoBufferLost
  BY NextPoolInv DEF LossInv
<1>1. /\ freelist \subseteq Bufs /\ held \subseteq Bufs /\ cb_q \in Seq(Entry) /\ PlainCount \in Nat
      /\ QueuedBufs \subseteq Bufs /\ Bufs \subseteq freelist \cup held \cup QueuedBufs
      /\ MacBufs \subseteq held /\ 0 \in MacBufs /\ QueuedBufs' \subseteq Bufs /\ freelist' \subseteq Bufs
      /\ held' \subseteq Bufs
  <2>1. freelist \subseteq Bufs /\ held \subseteq Bufs /\ cb_q \in Seq(Entry) /\ MacBufs \subseteq held /\ 0 \in MacBufs
    BY <1>0 DEF PoolInv, TypeOK, MacBufsReserved, MacBufs
  <2>2. freelist' \subseteq Bufs /\ held' \subseteq Bufs /\ cb_q' \in Seq(Entry)
    BY <1>0 DEF PoolInv, TypeOK
  <2>3. QueuedBufs \subseteq Bufs /\ Bufs \subseteq freelist \cup held \cup QueuedBufs
    BY <1>0 DEF NoBufferLost
  <2>4. PlainCount \in Nat
    <3>1. PlainCount = Cardinality(PlainIn(cb_q))
      BY DEF PlainCount, PlainIn
    <3> QED
      BY <2>1, <3>1, PlainAppended
  <2>5. QueuedBufs' \subseteq Bufs
    <3>1. FirstQueued' \in {1, 2} /\ Len(cb_q') \in Nat
      BY <2>2 DEF FirstQueued
    <3>2. \A i \in FirstQueued' .. Len(cb_q') : cb_q'[i].param \in Bufs
      <4> TAKE i \in FirstQueued' .. Len(cb_q')
      <4>1. cb_q'[i] \in Entry
        BY <2>2, <3>1
      <4> QED
        BY <4>1 DEF Entry
    <3> QED
      BY <3>2 DEF QueuedBufs
  <2> QED
    BY <2>1, <2>2, <2>3, <2>4, <2>5
<1>2. freelist \cap held = {} /\ freelist \cap QueuedBufs = {} /\ held \cap QueuedBufs = {}
  BY <1>0 DEF PoolInv, OneOwner
\* What is left to show.
<1>3. ASSUME PlainCount' <= MaxPlain, Bufs \subseteq freelist' \cup held' \cup QueuedBufs'
      PROVE  LossInv'
  BY <1>0, <1>1, <1>3 DEF LossInv, NoBufferLost
<1>4. ASSUME cb_q' = cb_q, pc = "cb" <=> pc' = "cb"
      PROVE  PlainCount' = PlainCount /\ QueuedBufs' = QueuedBufs
  BY <1>4 DEF PlainCount, QueuedBufs, FirstQueued
<1>5. ASSUME NEW f \in Callbacks, NEW b \in Bufs, b \notin MacBufs, b \notin QueuedBufs,
             ScheduleCallback(f, b), pc' = pc
      PROVE  QueuedBufs \cup {b} \subseteq QueuedBufs' /\ PlainCount' = PlainCount
  <2>1. Len(cb_q) < ZB_SCHEDULER_Q_SIZE
    BY <1>0, <1>5, RingHasRoom
  <2>2. b # 0
    BY <1>1, <1>5
  <2> QED
    BY <1>0, <1>5, <2>1, <2>2, BufferQueued
<1>6. CASE zb_get_out_buf \/ zb_mac_check_ack \/ zb_mac_main_loop
  <2>1. cb_q' = cb_q /\ (pc = "cb" <=> pc' = "cb")
    BY <1>6 DEF zb_get_out_buf, zb_mac_check_ack, zb_mac_main_loop, loopVars
  <2>2. \/ freelist' = freelist /\ held' = held
        \/ \E b \in freelist : freelist' = freelist \ {b} /\ held' = held \cup {b}
    BY <1>6 DEF zb_get_out_buf, zb_mac_check_ack, zb_mac_main_loop, zb_get_buf
  <2>3. PlainCount' = PlainCount /\ QueuedBufs' = QueuedBufs
    BY <1>4, <2>1
  <2> QED
    BY <1>0, <1>1, <1>3, <2>2, <2>3
<1>7. ASSUME NEW d \in Dir, NEW f \in Callbacks, zb_get_buf_delayed(d, f)
      PROVE  LossInv'
  <2>1. held' = held /\ pc' = pc
    BY <1>7 DEF zb_get_buf_delayed, loopVars
  <2>2. CASE freelist' = freelist /\ cb_q' = cb_q
    <3>1. PlainCount' = PlainCount /\ QueuedBufs' = QueuedBufs
      BY <1>4, <2>1, <2>2
    <3> QED
      BY <1>0, <1>1, <1>3, <2>1, <2>2, <3>1
  <2>3. ASSUME NEW b \in freelist, freelist' = freelist \ {b}, ScheduleCallback(f, b)
        PROVE  LossInv'
    <3>1. b \in Bufs /\ b \notin MacBufs /\ b \notin QueuedBufs
      BY <1>1, <1>2
    <3>2. QueuedBufs \cup {b} \subseteq QueuedBufs' /\ PlainCount' = PlainCount
      BY <1>5, <2>1, <2>3, <3>1
    <3> QED
      BY <1>0, <1>1, <1>3, <2>1, <2>3, <3>2
  <2> QED
    BY <1>7, <2>2, <2>3 DEF zb_get_buf_delayed, zb_get_buf
<1>8. ASSUME NEW b \in Bufs, zb_free_buf(b)
      PROVE  LossInv'
  <2>1. held' = held \ {b} /\ pc' = pc /\ b \in held /\ b \notin MacBufs /\ is_in_buf[b] \in Dir
    BY <1>0, <1>8 DEF zb_free_buf, loopVars, PoolInv, TypeOK
  <2>2. CASE Wakes(is_in_buf[b])
    <3>1. PICK d : d = is_in_buf[b]
      OBVIOUS
    <3>2. d \in Dir /\ buf_queue[d] \in Seq(Callbacks) /\ buf_queue[d] # <<>>
      BY <1>0, <2>1, <2>2, <3>1 DEF Wakes, PoolInv, TypeOK
    <3>3. PICK f \in Callbacks : f = Head(buf_queue[d])
      BY <3>2
    <3>4. ScheduleCallback(f, b) /\ freelist' = freelist
      BY <1>8, <2>2, <3>1, <3>3 DEF zb_free_buf
    <3>5. QueuedBufs \cup {b} \subseteq QueuedBufs' /\ PlainCount' = PlainCount
      BY <1>2, <1>5, <2>1, <3>4
    <3> QED
      BY <1>0, <1>1, <1>3, <2>1, <3>4, <3>5
  <2>3. CASE ~Wakes(is_in_buf[b])
    <3>1. freelist' = freelist \cup {b} /\ cb_q' = cb_q
      BY <1>8, <2>3 DEF zb_free_buf
    <3>2. PlainCount' = PlainCount /\ QueuedBufs' = QueuedBufs
      BY <1>4, <2>1, <3>1
    <3> QED
      BY <1>0, <1>1, <1>3, <2>1, <3>1, <3>2
  <2> QED
    BY <2>2, <2>3
<1>9. ASSUME NEW f \in Callbacks, NEW p \in Bufs, zb_schedule_callback(f, p)
      PROVE  LossInv'
  <2>1. /\ ScheduleCallback(f, p) /\ held' = held \ ({p} \ {0}) /\ freelist' = freelist /\ pc' = pc
        /\ p \in held \ MacBufs \/ (p = 0 /\ PlainCount < MaxPlain)
    BY <1>9 DEF zb_schedule_callback, loopVars
  <2>2. CASE p \in held \ MacBufs
    <3>1. QueuedBufs \cup {p} \subseteq QueuedBufs' /\ PlainCount' = PlainCount
      BY <1>2, <1>5, <2>1, <2>2
    <3> QED
      BY <1>0, <1>1, <1>3, <2>1, <3>1
  <2>3. CASE p = 0 /\ PlainCount < MaxPlain
    <3>1. QueuedBufs \subseteq QueuedBufs' /\ (PlainCount' = PlainCount \/ PlainCount' = PlainCount + 1)
      BY <1>0, <2>1, BufferQueued
    <3>2. PlainCount' <= MaxPlain
      BY <1>0, <1>1, <2>3, <3>1, QueueAssumption
    <3> QED
      BY <1>0, <1>1, <1>3, <2>1, <2>3, <3>1, <3>2
  <2> QED
    BY <2>1, <2>2, <2>3
<1>10. CASE RunCallback
  <2>1. DistinctParams /\ TypeOK
    BY <1>0 DEF PoolInv, OneOwner, DistinctParams
  <2>2. PICK p : p = Head(cb_q).param
    OBVIOUS
  <2>3. QueuedBufs' = QueuedBufs \ {p}
    BY <1>10, <2>1, <2>2, RunKeepsRing
  <2>4. held' = held \cup ({p} \ {0}) /\ freelist' = freelist /\ cb_q' = cb_q
    BY <1>10, <2>2 DEF RunCallback
  <2>5. PlainCount' = PlainCount
    BY <2>4 DEF PlainCount
  <2>6. 0 \notin QueuedBufs
    BY DEF QueuedBufs
  <2> QED
    BY <1>0, <1>1, <1>3, <2>3, <2>4, <2>5, <2>6
<1>11. CASE CallbackDone
  <2>1. DistinctParams /\ TypeOK /\ RunningInRing
    BY <1>0 DEF PoolInv, OneOwner, DistinctParams
  <2>2. QueuedBufs' = QueuedBufs
    BY <1>11, <2>1, DoneKeepsRing
  <2>3. held' = held /\ freelist' = freelist /\ cb_q' = Tail(cb_q) /\ cb_q # <<>>
    BY <1>11, <2>1 DEF CallbackDone, RunningInRing
  <2>4. PlainCount' <= PlainCount /\ PlainCount' \in Nat
    <3>1. PlainCount = Cardinality(PlainIn(cb_q)) /\ PlainCount' = Cardinality(PlainIn(cb_q'))
      BY DEF PlainCount, PlainIn
    <3>2. cb_q' \in Seq(Entry)
      BY <1>1, <2>3
    <3> QED
      BY <1>1, <2>3, <3>1, <3>2, PlainRemoved, PlainAppended
  <2>5. PlainCount' <= MaxPlain
    BY <1>0, <1>1, <2>4, QueueAssumption
  <2> QED
    BY <1>1, <1>3, <2>2, <2>3, <2>5
<1>12. CASE \/ RecvDataDone \/ RunAlarms \/ LoopEnd \/ zb_mac_wait_for_ext_event \/ UNCHANGED vars
  <2>1. freelist' = freelist /\ held' = held /\ cb_q' = cb_q /\ (pc = "cb" <=> pc' = "cb")
    BY <1>12 DEF RecvDataDone, RunAlarms, LoopEnd, zb_mac_wait_for_ext_event, vars
  <2>2. PlainCount' = PlainCount /\ QueuedBufs' = QueuedBufs
    BY <1>4, <2>1
  <2> QED
    BY <1>0, <1>1, <1>3, <2>1, <2>2
<1> QED
  BY <1>6, <1>7, <1>8, <1>9, <1>10, <1>11, <1>12 DEF Next, UserStep, LoopStep

\* No buffer leaks through an ignored RET_OVERFLOW of zb_schedule_callback(), for
\* every pool and every ring that is long enough for it.
THEOREM RingLosesNothing ==
    ASSUME RingLongEnough
    PROVE  Spec => []NoBufferLost
<1>1. Init => LossInv
  <2> SUFFICES ASSUME Init PROVE LossInv
    OBVIOUS
  <2>1. MacBufs \subseteq Bufs
    BY PoolAssumption DEF MacBufs, Bufs
  <2>2. cb_q = <<>> /\ Len(cb_q) = 0 /\ freelist = Bufs \ MacBufs /\ held = MacBufs
    BY DEF Init
  <2>3. QueuedBufs = {} /\ PlainCount = 0
    <3>1. {i \in 1 .. Len(cb_q) : cb_q[i].param = 0} = {}
      BY <2>2
    <3>2. FirstQueued \in {1, 2}
      BY DEF FirstQueued
    <3> QED
      BY <2>2, <3>1, <3>2, FS_EmptySet DEF QueuedBufs, PlainCount
  <2> QED
    BY <2>1, <2>2, <2>3, InitPoolInv, QueueAssumption DEF LossInv, NoBufferLost
<1>2. LossInv /\ [Next]_vars => LossInv'
  BY NextLossInv
<1>3. LossInv => NoBufferLost
  BY DEF LossInv
<1> QED
  BY <1>1, <1>2, <1>3, PTL DEF Spec

=============================================================================
