----------------------------- MODULE AlarmQueue -----------------------------
(***************************************************************************)
(* The delayed callbacks of the scheduler (common/zb_scheduler.c) and the  *)
(* stack timer they run on (common/zb_time.c and, for the reference build, *)
(* the select() of osif/unix/zb_mac_transport_linux_pipes.c).              *)
(*                                                                         *)
(* Time is a counter of TimeSize values that wraps; ZB_TIME_GE() compares  *)
(* two times by their difference.  Every entry also carries, as history,   *)
(* the time that is left until it is due, so that the properties can be    *)
(* stated without any wrap.                                                *)
(*                                                                         *)
(* The timer moves only inside zb_mac_wait_for_ext_event(), so it is one   *)
(* value during an iteration of the scheduler loop.  It moves by beacon    *)
(* intervals, which that function counts from the clock of the system,     *)
(* with remainders it keeps in the wrong way: the time that is left is     *)
(* time of this timer, and TimerKeepsTime compares it with real time.      *)
(***************************************************************************)
EXTENDS Integers, Sequences, FiniteSets

CONSTANTS
    ZB_SCHEDULER_Q_SIZE,  \* entries of tm_buffer
    TimeSize,             \* values of zb_time_t
    Funcs, Params,        \* callbacks and their parameters
    ANY_PARAM, ALL_CB,    \* ZB_ALARM_ANY_PARAM and ZB_ALARM_ALL_CB
    MaxDelay,             \* longest run_after
    UsPerMs, MsPerSec,    \* the units of gettimeofday(): 1000 and 1000
    BeaconTenths,         \* ZB_BEACON_INTERVAL_USEC / 100: 153
    DefaultTimeout,       \* ZB_LINUX_PIPE_TRANSPORT_TIMEOUT, in seconds
    MaxLate,              \* microseconds spent outside of select(), or in it
                          \* after the timeout
    MaxRest,              \* bound: microseconds in time_delta_rest_us
    MaxStall,             \* the most a wait adds to the timer
    MaxCalls              \* bound: calls of the API between two waits

\* ZB_HALF_MAX_TIME_VAL
Half == (TimeSize - 1) \div 2

\* The conversions between beacon intervals and milliseconds.
ZB_MILLISECONDS_TO_BEACON_INTERVAL(ms) == (10 * ms + 3) \div BeaconTenths
ZB_TIME_BEACON_INTERVAL_TO_MSEC(t) == (BeaconTenths * t) \div 10

\* The longest time from the end of a wait to the end of the next.
MaxWait ==
    LET alarm == ZB_TIME_BEACON_INTERVAL_TO_MSEC(MaxDelay)
        default == DefaultTimeout * MsPerSec
    IN  (IF alarm > default THEN alarm ELSE default) * UsPerMs + MaxLate

\* tv_usec, and what time_delta_rest_ms holds: less than a beacon interval.
UsPerSec == UsPerMs * MsPerSec
Usec == 0 .. UsPerSec - 1
RestMs == {ms \in 0 .. BeaconTenths : ZB_MILLISECONDS_TO_BEACON_INTERVAL(ms) = 0}

\* end_t.tv_usec - start_t.tv_usec
UsecDiff(start, elapsed) == ((start + elapsed) % UsPerSec) - start

\* delta: the difference of the microseconds is rounded to 0, the sum is cut to
\* the width of zb_time_t.
Delta(start, elapsed) ==
    LET secs == (start + elapsed) \div UsPerSec
        diff == UsecDiff(start, elapsed)
        msecs == IF diff < 0 THEN -((-diff) \div UsPerMs) ELSE diff \div UsPerMs
    IN  (secs * MsPerSec + msecs) % TimeSize

\* What a wait adds to the timer when ms and us are left from waits before.
Advance(start, elapsed, ms, us) ==
    ZB_MILLISECONDS_TO_BEACON_INTERVAL(Delta(start, elapsed) + ms + us \div UsPerMs)

\* Any two times in the queue are less than half the range apart.
ASSUME AlarmAssumption ==
    /\ ZB_SCHEDULER_Q_SIZE \in Nat \ {0}
    /\ TimeSize \in Nat \ {0}
    /\ UsPerMs \in Nat \ {0} /\ MsPerSec \in Nat \ {0}
    /\ BeaconTenths \in Nat /\ BeaconTenths > 3
    /\ MaxDelay \in Nat /\ DefaultTimeout \in Nat \ {0} /\ MaxLate \in Nat
    /\ MaxRest \in Nat /\ MaxStall \in Nat
    /\ \A start \in Usec, elapsed \in 0 .. MaxWait, ms \in RestMs, us \in 0 .. MaxRest :
          Advance(start, elapsed, ms, us) \in 0 .. MaxStall
    /\ MaxDelay + MaxStall < Half
    /\ MaxCalls \in Nat
    /\ ANY_PARAM \notin Params /\ ALL_CB \notin Params /\ ANY_PARAM # ALL_CB

VARIABLES
    timer,          \* timer: the current time
    timer_stop,     \* timer_stop
    started,        \* started
    start_t,        \* tv_usec of start_t, the end of the last wait
    rest_ms,        \* time_delta_rest_ms
    rest_us,        \* time_delta_rest_us
    tm_queue,       \* tm_queue, head first
    tm_freelist,    \* tm_freelist: the free entries of tm_buffer
    running,        \* the entry whose callback runs, in neither list
    did_something,  \* did_something of zb_sched_loop_iteration()
    pc,             \* where the loop is: "cb", "alarms" or "wait"
    calls           \* calls made since the last wait

clock == <<start_t, rest_ms, rest_us>>
vars == <<timer, timer_stop, started, clock, tm_queue, tm_freelist, running,
          did_something, pc, calls>>

Slots == 1 .. ZB_SCHEDULER_Q_SIZE
Time  == 0 .. TimeSize - 1
NoEntry == [slot |-> 0]

Entry == [slot : Slots, func : Funcs, param : Params, run_time : Time,
          left : -MaxStall .. MaxDelay]

-----------------------------------------------------------------------------
\* ZB_TIME_ADD(), ZB_TIME_GE() and ZB_TIME_SUBTRACT() of two times: the
\* difference wraps like the unsigned number it is.
ZB_TIME_ADD_NoWrap(a, b) == a + b
ZB_TIME_ADD(a, b) == (a + b) % TimeSize
ZB_TIME_GE_Plain(a, b) == a >= b
ZB_TIME_GE(a, b) == (TimeSize + a - b) % TimeSize < Half
ZB_TIME_SUBTRACT(a, b) ==
    IF ZB_TIME_GE(a, b) THEN (TimeSize + a - b) % TimeSize ELSE (TimeSize + b - a) % TimeSize

\* zb_sched_init()
zb_sched_init ==
    /\ tm_queue = <<>>
    /\ tm_freelist = Slots

Init ==
    /\ zb_sched_init
    /\ timer = 0 /\ timer_stop = 0 /\ started = FALSE
    /\ start_t \in Usec /\ rest_ms = 0 /\ rest_us = 0
    /\ running = NoEntry
    /\ did_something = FALSE
    /\ pc = "cb"
    /\ calls = 0

\* zb_timer_start(), not ZB8051: the stop time is moved only when it lies
\* after the new one or before the current time.
zb_timer_start(timeout) ==
    LET t == ZB_TIME_ADD(timer, timeout) IN
    IF \/ ~started
       \/ ~ZB_TIME_GE(t, timer_stop)
       \/ ~ZB_TIME_GE(timer_stop, timer)
    THEN timer_stop' = t /\ started' = TRUE
    ELSE UNCHANGED <<timer_stop, started>>

\* The place of an entry with the given run time: the head of the queue if the
\* old head is not before it, else before the first entry that is later.  The
\* code steps back from that entry, and the entry before the head is the tail.
InsertPos_Head(run_time) == 1
InsertPos(run_time) ==
    LET later == {k \in DOMAIN tm_queue : ~ZB_TIME_GE(run_time, tm_queue[k].run_time)}
        first == CHOOSE k \in later : \A j \in later : k <= j
    IN  IF tm_queue = <<>> THEN 1
        ELSE IF ZB_TIME_GE(tm_queue[1].run_time, run_time) THEN 1
        ELSE IF later = {} \/ first = 1 THEN Len(tm_queue) + 1
        ELSE first

\* The queue with e at place k.
Inserted(k, e) ==
    [j \in 1 .. Len(tm_queue) + 1 |->
        IF j < k THEN tm_queue[j] ELSE IF j = k THEN e ELSE tm_queue[j - 1]]

\* The program calls the API from a callback or from an alarm.
InCallback ==
    /\ calls < MaxCalls
    /\ pc = "cb" \/ running # NoEntry
    /\ calls' = calls + 1
    /\ did_something' = TRUE
    /\ UNCHANGED <<timer, clock, running, pc>>

\* zb_schedule_alarm(): without a free entry it fails with RET_OVERFLOW.
zb_schedule_alarm(func, param, run_after) ==
    /\ InCallback
    /\ IF tm_freelist = {}
       THEN UNCHANGED <<timer_stop, started, tm_queue, tm_freelist>>
       ELSE LET slot == CHOOSE s \in tm_freelist : \A r \in tm_freelist : s <= r
                nent == [slot |-> slot, func |-> func, param |-> param,
                         run_time |-> ZB_TIME_ADD(timer, run_after), left |-> run_after]
            IN  /\ tm_freelist' = tm_freelist \ {slot}
                /\ tm_queue' = Inserted(InsertPos(nent.run_time), nent)
                /\ IF /\ tm_queue'[1].run_time # timer
                      /\ ZB_TIME_GE(tm_queue'[1].run_time, timer)
                   THEN zb_timer_start(ZB_TIME_SUBTRACT(tm_queue'[1].run_time, timer))
                   ELSE UNCHANGED <<timer_stop, started>>

\* The entries at the places kept stay in the queue, in their order.
KeepOnly(kept) ==
    \E pos \in [1 .. Cardinality(kept) -> kept] :
        /\ \A i, j \in DOMAIN pos : i < j => pos[i] < pos[j]
        /\ tm_queue' = [j \in DOMAIN pos |-> tm_queue[pos[j]]]

\* zb_schedule_alarm_cancel(): removes the first entry of the function with
\* the parameter (or with any), or all entries of the function.
zb_schedule_alarm_cancel(func, param) ==
    LET Matches(e) == e.func = func /\ (param \in {ANY_PARAM, ALL_CB} \/ param = e.param)
        found == {k \in DOMAIN tm_queue : Matches(tm_queue[k])}
        first == {k \in found : \A j \in found : k <= j}
        gone == IF param = ALL_CB THEN found ELSE first
    IN
    /\ InCallback
    /\ found # {}
    /\ KeepOnly(DOMAIN tm_queue \ gone)
    /\ tm_freelist' = tm_freelist \cup {tm_queue[k].slot : k \in gone}
    /\ UNCHANGED <<timer_stop, started>>

-----------------------------------------------------------------------------
\* The immediate callbacks are done: go on to the delayed ones.
CallbacksDone ==
    /\ pc = "cb"
    /\ pc' = "alarms"
    /\ UNCHANGED <<timer, timer_stop, started, clock, tm_queue, tm_freelist, running,
                   did_something, calls>>

HeadIsDue == tm_queue # <<>> /\ ZB_TIME_GE(timer, Head(tm_queue).run_time)

\* The head is cut from the queue and its callback is called ...
RunAlarm ==
    /\ pc = "alarms"
    /\ running = NoEntry
    /\ HeadIsDue
    /\ running' = Head(tm_queue)
    /\ tm_queue' = Tail(tm_queue)
    /\ did_something' = TRUE
    /\ UNCHANGED <<timer, timer_stop, started, clock, tm_freelist, pc, calls>>

\* ... and only then the entry returns to the free list.
AlarmDone ==
    /\ running # NoEntry
    /\ tm_freelist' = tm_freelist \cup {running.slot}
    /\ running' = NoEntry
    /\ UNCHANGED <<timer, timer_stop, started, clock, tm_queue, did_something, pc, calls>>

\* End of an iteration: the timer is restarted for the head or stopped; the
\* loop goes round again after it did something.
IterationEnd_StopTimer ==
    /\ pc = "alarms"
    /\ running = NoEntry
    /\ ~HeadIsDue
    /\ started' = FALSE
    /\ did_something' = FALSE
    /\ pc' = IF did_something THEN "cb" ELSE "wait"
    /\ UNCHANGED <<timer, timer_stop, clock, tm_queue, tm_freelist, running, calls>>
IterationEnd ==
    /\ pc = "alarms"
    /\ running = NoEntry
    /\ ~HeadIsDue
    /\ IF tm_queue # <<>>
       THEN zb_timer_start(ZB_TIME_SUBTRACT(Head(tm_queue).run_time, timer))
       ELSE started' = FALSE /\ UNCHANGED timer_stop
    /\ did_something' = FALSE
    /\ pc' = IF did_something THEN "cb" ELSE "wait"
    /\ UNCHANGED <<timer, clock, tm_queue, tm_freelist, running, calls>>

\* The timeout zb_mac_wait_for_ext_event() gives select(), in milliseconds.
SelectTimeout ==
    IF started /\ ZB_TIME_GE(timer_stop, timer) /\ timer_stop # timer
    THEN ZB_TIME_BEACON_INTERVAL_TO_MSEC(ZB_TIME_SUBTRACT(timer_stop, timer))
    ELSE DefaultTimeout * MsPerSec

\* The remainders after a wait: kept while they make no beacon interval, then
\* dropped.  delta has the microseconds of diff already, and where a second ends
\* diff is not the time that passed.
KeepRest(delta, diff) ==
    IF ZB_MILLISECONDS_TO_BEACON_INTERVAL(delta + rest_ms) = 0
    THEN /\ rest_ms' = delta + rest_ms
         /\ rest_us' = rest_us + (IF diff < 0 THEN -diff ELSE diff)
    ELSE rest_ms' = 0 /\ rest_us' = 0

\* History: the time left after the timer's steps, counted down to -MaxStall.
Elapse(left, steps) == IF left - steps < -MaxStall THEN -MaxStall ELSE left - steps

\* zb_mac_wait_for_ext_event(): elapsed microseconds after the last wait select()
\* returns, because of a frame, the timeout or late; the timer moves only if it is
\* started.
zb_mac_wait_for_ext_event(elapsed) ==
    LET steps == Advance(start_t, elapsed, rest_ms, rest_us)
    IN
    /\ pc = "wait"
    /\ elapsed <= SelectTimeout * UsPerMs + MaxLate
    /\ IF started
       THEN /\ timer' = ZB_TIME_ADD(timer, steps)
            /\ KeepRest(Delta(start_t, elapsed), UsecDiff(start_t, elapsed))
            /\ rest_us' <= MaxRest
       ELSE UNCHANGED <<timer, rest_ms, rest_us>>
    /\ start_t' = (start_t + elapsed) % UsPerSec
    /\ tm_queue' = [k \in DOMAIN tm_queue |-> [tm_queue[k] EXCEPT !.left = Elapse(@, steps)]]
    /\ pc' = "cb"
    /\ calls' = 0
    /\ UNCHANGED <<timer_stop, started, tm_freelist, running, did_something>>

\* It had a frame to write to the pipe: it does not call select() at all.
WriteInstead ==
    /\ pc = "wait"
    /\ pc' = "cb"
    /\ calls' = 0
    /\ UNCHANGED <<timer, timer_stop, started, clock, tm_queue, tm_freelist, running,
                   did_something>>

Next ==
    \/ \E f \in Funcs, p \in Params, d \in 0 .. MaxDelay : zb_schedule_alarm(f, p, d)
    \/ \E f \in Funcs, p \in Params \cup {ANY_PARAM, ALL_CB} : zb_schedule_alarm_cancel(f, p)
    \/ CallbacksDone
    \/ RunAlarm
    \/ AlarmDone
    \/ IterationEnd
    \/ \E elapsed \in 0 .. MaxWait : zb_mac_wait_for_ext_event(elapsed)
    \/ WriteInstead

Spec == Init /\ [][Next]_vars

\* The loop never stops, and real time passes while it waits.
FairSpec ==
    /\ Spec
    /\ WF_vars(CallbacksDone) /\ WF_vars(RunAlarm)
    /\ WF_vars(AlarmDone) /\ WF_vars(IterationEnd)
    /\ SF_vars(\E elapsed \in 1 .. MaxWait : zb_mac_wait_for_ext_event(elapsed))

-----------------------------------------------------------------------------
(* Properties.                                                              *)

TypeOK ==
    /\ timer \in Time /\ timer_stop \in Time /\ started \in BOOLEAN
    /\ start_t \in Usec /\ rest_ms \in RestMs /\ rest_us \in 0 .. MaxRest
    /\ tm_queue \in Seq(Entry)
    /\ tm_freelist \subseteq Slots
    /\ running \in Entry \cup {NoEntry}
    /\ did_something \in BOOLEAN
    /\ pc \in {"cb", "alarms", "wait"}
    /\ calls \in 0 .. MaxCalls

\* The wrapping times of the queue mean what they should: run_time is the
\* current time plus what is left of the delay, and zb_schedule_alarm() keeps the
\* queue in the order in which alarms are due, across every wrap of the timer.
QueueInOrder ==
    /\ \A k \in DOMAIN tm_queue :
          tm_queue[k].run_time = (TimeSize + timer + tm_queue[k].left) % TimeSize
    /\ \A j, k \in DOMAIN tm_queue : j < k => tm_queue[j].left <= tm_queue[k].left

\* The loop runs no alarm before the waits have counted its delay on the stack
\* timer, and does not go to sleep while an alarm is due on that timer.
RunsWhenDue ==
    /\ running # NoEntry => running.left <= 0
    /\ pc = "wait" => \A k \in DOMAIN tm_queue : tm_queue[k].left > 0

\* Every entry of tm_buffer is in the free list, in the queue or running, and
\* in one place only: a callback that schedules and cancels alarms, its own
\* among them, neither loses nor doubles an entry.
EntriesConserved ==
    LET queued == {tm_queue[k].slot : k \in DOMAIN tm_queue}
        run == IF running = NoEntry THEN {} ELSE {running.slot}
    IN  /\ tm_freelist \cup queued \cup run = Slots
        /\ tm_freelist \cap queued = {} /\ tm_freelist \cap run = {} /\ queued \cap run = {}
        /\ Cardinality(queued) = Len(tm_queue)

\* The list of alarms is sound: in the order in which they are due, and without
\* an entry lost or in two places, while callbacks schedule and cancel.
QueueSound == QueueInOrder /\ EntriesConserved

\* zb_scheduler.c: "If have something to run later, restart hw timer": the
\* process sleeps with the timer set for the head of the queue or earlier.
SleepEndsAtHead ==
    pc = "wait" /\ tm_queue # <<>> =>
        SelectTimeout <= ZB_TIME_BEACON_INTERVAL_TO_MSEC(Head(tm_queue).left)

\* "Implement stack timer: track time we spent sleepint inside select()": a wait
\* adds to the timer the beacon intervals it took, and one for the remainders.
TimerKeepsTime ==
    [][\A elapsed \in 0 .. MaxWait :
          zb_mac_wait_for_ext_event(elapsed) =>
              Advance(start_t, elapsed, rest_ms, rest_us)
                  <= ZB_MILLISECONDS_TO_BEACON_INTERVAL(elapsed \div UsPerMs) + 1]_vars

\* An alarm is called or cancelled, it does not stay in the queue for ever,
\* although the timer stands still whenever it is stopped.
AlarmRuns ==
    \A s \in Slots :
        (\E k \in DOMAIN tm_queue : tm_queue[k].slot = s)
            ~> ~(\E k \in DOMAIN tm_queue : tm_queue[k].slot = s)

=============================================================================
