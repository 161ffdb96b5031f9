------------------------------ MODULE BufPool ------------------------------
(***************************************************************************)
(* The packet buffer pool (common/zb_bufpool.c) together with the parts of *)
(* the cooperative scheduler it is entangled with: the ring of immediate   *)
(* callbacks cb_q (common/zb_scheduler.c) and the receive half of the MAC  *)
(* main loop (mac/mac.c).  The stack is single threaded: zb_sched_loop_    *)
(* iteration() runs the MAC loop, then every queued callback, then the     *)
(* expired alarms, and the code called from those places (the "user" of    *)
(* the pool: every layer of the stack) gets, queues for, passes on and     *)
(* frees buffers in any order.                                             *)
(*                                                                         *)
(* Direction 0 is an OUT buffer, direction 1 an IN buffer, as in           *)
(* bufs_allocated[2].  Buffers are the indices of ZG->bpool.pool, which is *)
(* how a callback's parameter names them; parameter 0 means "no buffer".   *)
(***************************************************************************)
EXTENDS Integers, Sequences, FiniteSets

CONSTANTS
    ZB_IOBUF_POOL_SIZE,   \* number of packet buffers
    ZB_SCHEDULER_Q_SIZE,  \* capacity of the ring cb_q
    ZB_BUF_Q_SIZE,        \* entries for delayed requests, IN and OUT together
    Callbacks,            \* the functions that are scheduled or wait for a buffer
    MaxPlain              \* bound: callbacks queued without a buffer at one time

ASSUME PoolAssumption ==
    /\ ZB_IOBUF_POOL_SIZE \in Nat /\ ZB_IOBUF_POOL_SIZE >= 6
    /\ ZB_IOBUF_POOL_SIZE % 2 = 0
ASSUME QueueAssumption ==
    /\ ZB_SCHEDULER_Q_SIZE \in Nat \ {0}
    /\ ZB_BUF_Q_SIZE \in Nat
    /\ MaxPlain \in Nat

VARIABLES
    freelist,             \* bpool.head: the buffers on the free list (its order is not observable)
    is_in_buf,            \* u.hdr.is_in_buf of every buffer
    bufs_allocated,       \* bpool.bufs_allocated[2]
    held,                 \* buffers some code outside the scheduler holds a reference to
    buf_queue,            \* sched.outbuf_queue (0) and sched.inbuf_queue (1)
    cb_q,                 \* sched.cb_q, head first
    rx_need_buf,          \* MAC_CTX().rx_need_buf
    mac_receive_pending,  \* sched.mac_receive_pending
    did_something,        \* the loop's local of that name
    pc                    \* where zb_sched_loop_iteration() is

vars == <<freelist, is_in_buf, bufs_allocated, held, buf_queue, cb_q,
          rx_need_buf, mac_receive_pending, did_something, pc>>
loopVars == <<rx_need_buf, mac_receive_pending, did_something, pc>>

Dir  == {0, 1}
Bufs == 0 .. ZB_IOBUF_POOL_SIZE - 1
ZB_BUFS_LIMIT_Whole == ZB_IOBUF_POOL_SIZE                    \* fault: the pool is not split
ZB_BUFS_LIMIT == ZB_IOBUF_POOL_SIZE \div 2
Entry == [func : Callbacks, param : Bufs]

\* zb_mac_init() takes pool[0] (operation_buf, OUT), pool[1] (operation_recv_buf,
\* IN) and pool[2] (encryption_buf, OUT) and never gives them back.
MacBufs == {0, 1, 2}

\* The places where code of the upper layers or of the MAC handlers runs:
\* "tx" a TX callback in zb_mac_main_loop, "rx" zb_mac_parse_recv_data,
\* "cb" a callback of cb_q, "tm" an alarm.
UserPc == {"tx", "rx", "cb", "tm"}
Pc     == UserPc \cup {"sched", "io"}

\* The entry that is being executed stays in the ring until its function
\* returns (ZB_RING_BUFFER_FLUSH_GET comes after the call).
FirstQueued == IF pc = "cb" THEN 2 ELSE 1
QueuedBufs  == {cb_q[i].param : i \in FirstQueued .. Len(cb_q)} \ {0}
PlainCount  == Cardinality({i \in 1 .. Len(cb_q) : cb_q[i].param = 0})

-----------------------------------------------------------------------------
Init ==
    /\ freelist = Bufs \ MacBufs
    /\ is_in_buf = [b \in Bufs |-> IF b = 1 THEN 1 ELSE 0]
    /\ bufs_allocated = [d \in Dir |-> IF d = 0 THEN 2 ELSE 1]
    /\ held = MacBufs
    /\ buf_queue = [d \in Dir |-> <<>>]
    /\ cb_q = <<>>
    /\ rx_need_buf = FALSE
    /\ mac_receive_pending = FALSE
    /\ did_something = FALSE
    /\ pc = "tx"

-----------------------------------------------------------------------------
(* Pool operations, as effects on the pool variables.                       *)

\* fault: the limit is checked off by one
BufAvailable_OffByOne(d) == bufs_allocated[d] <= ZB_BUFS_LIMIT /\ freelist # {}

\* zb_get_buf() returns a buffer.
BufAvailable(d) == bufs_allocated[d] < ZB_BUFS_LIMIT /\ freelist # {}

\* fault: the direction is not recorded in the buffer header
zb_get_buf_NoDirection(d, b) ==
    /\ BufAvailable(d)
    /\ b \in freelist
    /\ freelist' = freelist \ {b}
    /\ bufs_allocated' = [bufs_allocated EXCEPT ![d] = @ + 1]
    /\ UNCHANGED is_in_buf

\* The buffer b leaves the free list for direction d.
zb_get_buf(d, b) ==
    /\ BufAvailable(d)
    /\ b \in freelist
    /\ freelist' = freelist \ {b}
    /\ is_in_buf' = [is_in_buf EXCEPT ![b] = d]
    /\ bufs_allocated' = [bufs_allocated EXCEPT ![d] = @ + 1]

\* fault: one slot of the ring is never used
ScheduleCallback_OffByOne(func, param) ==
    cb_q' = IF Len(cb_q) + 1 < ZB_SCHEDULER_Q_SIZE
            THEN Append(cb_q, [func |-> func, param |-> param])
            ELSE cb_q

\* zb_schedule_callback(): RET_OVERFLOW is ignored by the callers, so when
\* the ring is full nothing is queued and the caller's reference is gone.
ScheduleCallback(func, param) ==
    cb_q' = IF Len(cb_q) < ZB_SCHEDULER_Q_SIZE
            THEN Append(cb_q, [func |-> func, param |-> param])
            ELSE cb_q

-----------------------------------------------------------------------------
(* What the running code does with the pool.                                *)

\* zb_get_in_buf() / zb_get_out_buf() by application and ZDO code; only OUT
\* buffers are taken this way outside the MAC's receive paths.
zb_get_out_buf ==
    /\ pc \in UserPc
    /\ \E b \in freelist :
         /\ zb_get_buf(0, b)
         /\ held' = held \cup {b}
    /\ UNCHANGED <<buf_queue, cb_q, loopVars>>

\* zb_get_in_buf_delayed() / zb_get_out_buf_delayed(): a buffer now, through
\* the ring, or a place in the waiting queue.  With no entry left the call
\* fails with RET_ERROR and changes nothing.
zb_get_buf_delayed(d, func) ==
    /\ pc \in UserPc
    /\ \/ \E b \in freelist :
            /\ zb_get_buf(d, b)
            /\ ScheduleCallback(func, b)
            /\ UNCHANGED buf_queue
       \/ /\ ~BufAvailable(d)
          /\ Len(buf_queue[0]) + Len(buf_queue[1]) < ZB_BUF_Q_SIZE
          /\ buf_queue' = [buf_queue EXCEPT ![d] = Append(@, func)]
          /\ UNCHANGED <<freelist, is_in_buf, bufs_allocated, cb_q>>
    /\ UNCHANGED <<held, loopVars>>

\* fault: a pending reception holds back both queues
Wakes_RxBlocksOut(d) == buf_queue[d] # <<>> /\ ~rx_need_buf

\* The head of the waiting queue takes the buffer that is being freed, unless
\* a received frame is waiting for an IN buffer.
Wakes(d) == buf_queue[d] # <<>> /\ (d = 1 => ~rx_need_buf)

\* fault: the freed buffer is passed on without zb_get_buf()
zb_free_buf_NoGet(b) ==
    LET d == is_in_buf[b] IN
    /\ pc \in UserPc
    /\ b \in held \ MacBufs
    /\ held' = held \ {b}
    /\ freelist' = freelist \cup {b}
    /\ bufs_allocated' = [bufs_allocated EXCEPT ![d] = @ - 1]
    /\ IF Wakes(d)
       THEN /\ ScheduleCallback(Head(buf_queue[d]), b)
            /\ buf_queue' = [buf_queue EXCEPT ![d] = Tail(@)]
       ELSE UNCHANGED <<cb_q, buf_queue>>
    /\ UNCHANGED <<is_in_buf, loopVars>>

\* zb_free_buf().  The free list is a stack, so the zb_get_buf() made for the
\* waiter returns the very buffer that was just pushed.
zb_free_buf(b) ==
    LET d == is_in_buf[b] IN
    /\ pc \in UserPc
    /\ b \in held \ MacBufs
    /\ held' = held \ {b}
    /\ IF Wakes(d)
       THEN /\ ScheduleCallback(Head(buf_queue[d]), b)
            /\ buf_queue' = [buf_queue EXCEPT ![d] = Tail(@)]
            /\ UNCHANGED <<freelist, bufs_allocated>>
       ELSE /\ freelist' = freelist \cup {b}
            /\ bufs_allocated' = [bufs_allocated EXCEPT ![d] = @ - 1]
            /\ UNCHANGED <<cb_q, buf_queue>>
    /\ UNCHANGED <<is_in_buf, loopVars>>

\* ZB_SCHEDULE_CALLBACK(func, param) with a buffer the caller gives up, or
\* with parameter 0.
zb_schedule_callback(func, param) ==
    /\ pc \in UserPc
    /\ \/ param \in held \ MacBufs
       \/ param = 0 /\ PlainCount < MaxPlain
    /\ ScheduleCallback(func, param)
    /\ held' = held \ ({param} \ {0})
    /\ UNCHANGED <<freelist, is_in_buf, bufs_allocated, buf_queue, loopVars>>

\* zb_mac_check_ack(), called by a TX callback, receives a frame on its own:
\* it clears mac_receive_pending and leaves rx_need_buf alone.
zb_mac_check_ack ==
    /\ pc = "tx"
    /\ \E b \in freelist :
         /\ zb_get_buf(1, b)
         /\ held' = held \cup {b}
    /\ mac_receive_pending' = FALSE
    /\ UNCHANGED <<buf_queue, cb_q, rx_need_buf, did_something, pc>>

-----------------------------------------------------------------------------
(* zb_sched_loop_iteration() and zb_mac_main_loop().                        *)

\* The receive half of zb_mac_main_loop().
zb_mac_main_loop ==
    /\ pc = "tx"
    /\ \/ /\ ~mac_receive_pending
          /\ pc' = "sched"
          /\ UNCHANGED <<freelist, is_in_buf, bufs_allocated, held,
                         mac_receive_pending, rx_need_buf>>
       \/ /\ mac_receive_pending
          /\ \E b \in freelist : zb_get_buf(1, b) /\ held' = held \cup {b}
          /\ mac_receive_pending' = FALSE
          /\ pc' = "rx"
          /\ UNCHANGED rx_need_buf
       \/ /\ mac_receive_pending
          /\ ~BufAvailable(1)
          /\ rx_need_buf' = TRUE
          /\ pc' = "sched"
          /\ UNCHANGED <<freelist, is_in_buf, bufs_allocated, held,
                         mac_receive_pending>>
    /\ UNCHANGED <<buf_queue, cb_q, did_something>>

\* zb_mac_recv_data() has returned: rx_need_buf is cleared only now.
RecvDataDone ==
    /\ pc = "rx"
    /\ rx_need_buf' = FALSE
    /\ pc' = "sched"
    /\ UNCHANGED <<freelist, is_in_buf, bufs_allocated, held, buf_queue, cb_q,
                   mac_receive_pending, did_something>>

RunCallback ==
    /\ pc = "sched"
    /\ cb_q # <<>>
    /\ did_something' = TRUE
    /\ held' = held \cup ({Head(cb_q).param} \ {0})
    /\ pc' = "cb"
    /\ UNCHANGED <<freelist, is_in_buf, bufs_allocated, buf_queue, cb_q,
                   rx_need_buf, mac_receive_pending>>

CallbackDone ==
    /\ pc = "cb"
    /\ cb_q' = Tail(cb_q)
    /\ pc' = "sched"
    /\ UNCHANGED <<freelist, is_in_buf, bufs_allocated, held, buf_queue,
                   rx_need_buf, mac_receive_pending, did_something>>

RunAlarms ==
    /\ pc = "sched"
    /\ cb_q = <<>>
    /\ did_something' = TRUE
    /\ pc' = "tm"
    /\ UNCHANGED <<freelist, is_in_buf, bufs_allocated, held, buf_queue, cb_q,
                   rx_need_buf, mac_receive_pending>>

\* while (did_something): another round, or the wait for an external event.
LoopEnd ==
    /\ pc = "tm" \/ (pc = "sched" /\ cb_q = <<>>)
    /\ pc' = IF did_something THEN "tx" ELSE "io"
    /\ did_something' = FALSE
    /\ UNCHANGED <<freelist, is_in_buf, bufs_allocated, held, buf_queue, cb_q,
                   rx_need_buf, mac_receive_pending>>

\* ZB_TRY_IO(): a frame may have arrived; then the next iteration starts.
zb_mac_wait_for_ext_event ==
    /\ pc = "io"
    /\ pc' = "tx"
    /\ mac_receive_pending' \in {mac_receive_pending, TRUE}
    /\ UNCHANGED <<freelist, is_in_buf, bufs_allocated, held, buf_queue, cb_q,
                   rx_need_buf, did_something>>

-----------------------------------------------------------------------------
UserStep ==
    \/ zb_get_out_buf
    \/ \E d \in Dir, f \in Callbacks : zb_get_buf_delayed(d, f)
    \/ \E b \in Bufs : zb_free_buf(b)
    \/ \E f \in Callbacks, p \in Bufs : zb_schedule_callback(f, p)
    \/ zb_mac_check_ack

LoopStep ==
    \/ zb_mac_main_loop
    \/ RecvDataDone
    \/ RunCallback
    \/ CallbackDone
    \/ RunAlarms
    \/ LoopEnd
    \/ zb_mac_wait_for_ext_event

Next == UserStep \/ LoopStep

Spec == Init /\ [][Next]_vars

\* A frame or message buffer that was handed out is freed sooner or later by
\* the code that holds it: the contract zb_free_buf() puts on every layer.
OutBufFreed == \E b \in Bufs : is_in_buf[b] = 0 /\ zb_free_buf(b)

\* The loop runs for ever (every handler returns) and no OUT buffer is kept
\* for ever by its holder.
FairSpec == Spec /\ WF_vars(LoopStep) /\ SF_vars(OutBufFreed)

-----------------------------------------------------------------------------
(* Properties.                                                              *)

TypeOK ==
    /\ freelist \subseteq Bufs
    /\ is_in_buf \in [Bufs -> Dir]
    /\ bufs_allocated \in [Dir -> 0 .. ZB_BUFS_LIMIT]
    /\ held \subseteq Bufs
    /\ buf_queue \in [Dir -> Seq(Callbacks)]
    /\ cb_q \in Seq(Entry)
    /\ rx_need_buf \in BOOLEAN
    /\ mac_receive_pending \in BOOLEAN
    /\ did_something \in BOOLEAN
    /\ pc \in Pc

\* The two counters are exactly the numbers of buffers of each direction that
\* are off the free list: what zb_free_buf() decrements is the counter that
\* zb_get_buf() incremented, because is_in_buf survives while the buffer is
\* in use.  A drift would wedge one half of the pool for ever.
AllocExact ==
    \A d \in Dir :
        bufs_allocated[d] = Cardinality({b \in Bufs \ freelist : is_in_buf[b] = d})

\* "Do not allow one part to eat entire another part to exclude deadlock":
\* whenever a direction is under its limit the free list has a buffer for it,
\* so the second test of zb_get_buf() never fails after the first.
HalvesIndependent == \A d \in Dir : bufs_allocated[d] < ZB_BUFS_LIMIT => freelist # {}

\* A callback waits for an OUT buffer only while every OUT buffer is taken:
\* zb_free_buf() hands a buffer over without letting it become free, so no
\* later request can overtake the queue.
OutWaitOnlyWhenFull == buf_queue[0] # <<>> => bufs_allocated[0] = ZB_BUFS_LIMIT

\* One owner per buffer: it is free, or held, or the parameter of exactly one
\* queued callback.  Breaking it is a use after free or a double free.
OneOwner ==
    /\ freelist \cap (held \cup QueuedBufs) = {}
    /\ held \cap QueuedBufs = {}
    /\ \A i, j \in FirstQueued .. Len(cb_q) :
         i # j /\ cb_q[i].param = cb_q[j].param => cb_q[i].param = 0

\* The MAC keeps its three buffers for good.  Parameter 0 can mean "no buffer"
\* although 0 is also the index of a buffer because pool[0] is one of them.
MacBufsReserved == MacBufs \subseteq held

\* No buffer leaks through an ignored RET_OVERFLOW of zb_schedule_callback():
\* every buffer is free, held or queued.  It needs the ring to be as long as
\* the pool and at most two queued callbacks without a buffer.
NoBufferLost == Bufs = freelist \cup held \cup QueuedBufs

\* zb_bufpool.h on zb_get_in_buf_delayed(): "If no buffers available now,
\* schedule callback later, when buffer will be available."  When the stack
\* goes to sleep with no frame to receive, a callback may still wait for an IN
\* buffer only if there is none.
InWaitOnlyWhenFull ==
    pc = "io" /\ ~mac_receive_pending /\ buf_queue[1] # <<>>
        => bufs_allocated[1] = ZB_BUFS_LIMIT

\* Every callback that waits for an OUT buffer gets one.
OutWaitServed ==
    \A f \in Callbacks :
        (\E i \in 1 .. Len(buf_queue[0]) : buf_queue[0][i] = f)
            ~> (\E i \in 1 .. Len(cb_q) :
                    /\ cb_q[i].func = f
                    /\ cb_q[i].param # 0
                    /\ is_in_buf[cb_q[i].param] = 0)

=============================================================================
