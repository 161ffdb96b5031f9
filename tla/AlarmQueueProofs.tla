-------------------------- MODULE AlarmQueueProofs --------------------------
(***************************************************************************)
(* Proofs about the delayed callbacks, for every number of entries, every  *)
(* width of the timer and every mix of callbacks, as long as the longest   *)
(* delay and what a wait adds to the timer stay within half of its range   *)
(* (AlarmAssumption).                                                      *)
(***************************************************************************)
EXTENDS AlarmQueue, FiniteSetTheorems, SequenceTheorems, WellFoundedInduction, TLAPS

-----------------------------------------------------------------------------
(* The inductive invariant.                                                 *)

\* Every entry of tm_buffer is somewhere ...
Covered ==
    \A s \in Slots :
        s \in tm_freelist \/ s = running.slot \/ \E k \in DOMAIN tm_queue : tm_queue[k].slot = s

\* ... and in one place only.
Apart ==
    /\ \A k \in DOMAIN tm_queue :
         tm_queue[k].slot \notin tm_freelist /\ tm_queue[k].slot # running.slot
    /\ \A j, k \in DOMAIN tm_queue : tm_queue[j].slot = tm_queue[k].slot => j = k
    /\ running.slot \notin tm_freelist

\* A callback runs between the immediate ones and the wait; while the loop
\* waits nothing is due, and the timer goes on if something is queued.
LoopInOrder ==
    /\ running # NoEntry => pc = "alarms" /\ running.left <= 0
    /\ pc = "wait" => \A k \in DOMAIN tm_queue : tm_queue[k].left > 0
    /\ pc = "wait" /\ tm_queue # <<>> => started

AlarmInv ==
    /\ TypeOK
    /\ QueueInOrder
    /\ Covered
    /\ Apart
    /\ LoopInOrder

-----------------------------------------------------------------------------
(* The wrapping time.                                                       *)

\* A number below three times the range wraps to what is left of it.
LEMMA Wraps ==
  ASSUME NEW T \in Nat \ {0}, NEW x \in 0 .. T - 1
  PROVE  x % T = x /\ (T + x) % T = x /\ (T + T + x) % T = x
<1>1. x % T = x
  OBVIOUS
<1>2. (T + x) % T = x
  OBVIOUS
<1>3. (T + T + x) % T = x
  OBVIOUS
<1> QED
  BY <1>1, <1>2, <1>3

\* All times in the queue are within half the range.
LEMMA Ranges ==
  /\ TimeSize \in Nat \ {0} /\ Half \in Nat /\ 2 * Half <= TimeSize - 1
  /\ MaxDelay \in Nat /\ MaxStall \in Nat /\ MaxDelay + MaxStall < Half
<1>1. /\ TimeSize \in Nat \ {0} /\ MaxDelay \in Nat /\ DefaultTimeout \in Nat /\ MaxLate \in Nat
      /\ MaxDelay + MaxStall < Half
  BY AlarmAssumption
<1>2. MaxStall \in Nat
  BY AlarmAssumption
<1>3. Half \in Nat /\ 2 * Half <= TimeSize - 1
  BY <1>1 DEF Half
<1> QED
  BY <1>1, <1>2, <1>3

\* The time at which an alarm is due that has l left at time t.
DueAt(t, l) == (TimeSize + t + l) % TimeSize
Lefts == -MaxStall .. MaxDelay

\* It is a time, and the wrap does not lose how far away it is.
LEMMA DueAtValue ==
  ASSUME NEW t \in Time, NEW l \in Lefts
  PROVE  /\ DueAt(t, l) \in Time
         /\ DueAt(t, l) = IF t + l < 0 THEN TimeSize + t + l
                          ELSE IF t + l < TimeSize THEN t + l ELSE t + l - TimeSize
<1>1. TimeSize \in Nat \ {0} /\ t \in 0 .. TimeSize - 1 /\ l \in Int
      /\ -TimeSize < l /\ l < TimeSize
  BY Ranges DEF Time, Lefts
<1>2. CASE t + l < 0
  <2>1. TimeSize + t + l \in 0 .. TimeSize - 1
    BY <1>1, <1>2
  <2>2. (TimeSize + t + l) % TimeSize = TimeSize + t + l
    BY <2>1, <1>1, Wraps
  <2> QED
    BY <2>1, <2>2, <1>2 DEF DueAt, Time
<1>3. CASE t + l >= 0 /\ t + l < TimeSize
  <2>1. t + l \in 0 .. TimeSize - 1 /\ TimeSize + (t + l) = TimeSize + t + l
    BY <1>1, <1>3
  <2>2. (TimeSize + (t + l)) % TimeSize = t + l
    BY <2>1, <1>1, Wraps
  <2> QED
    BY <2>1, <2>2, <1>1, <1>3 DEF DueAt, Time
<1>4. CASE t + l >= TimeSize
  <2> DEFINE x == t + l - TimeSize
  <2>1. x \in 0 .. TimeSize - 1 /\ TimeSize + TimeSize + x = TimeSize + t + l
    BY <1>1, <1>4
  <2>2. (TimeSize + TimeSize + x) % TimeSize = x
    BY <2>1, <1>1, Wraps
  <2>3. DueAt(t, l) = t + l - TimeSize
    BY <2>1, <2>2 DEF DueAt
  <2> QED
    BY <2>1, <2>3, <1>1, <1>4 DEF Time
<1>5. t + l < 0 \/ (t + l >= 0 /\ t + l < TimeSize) \/ t + l >= TimeSize
  BY <1>1
<1> QED
  BY <1>2, <1>3, <1>4, <1>5, <1>1

\* The times of the queue are compared as what is left of them is: ZB_TIME_GE()
\* of two of them is right across every wrap.
LEMMA ComparesRight ==
  ASSUME NEW t \in Time, NEW l \in Lefts, NEW m \in Lefts
  PROVE  ZB_TIME_GE(DueAt(t, l), DueAt(t, m)) <=> l >= m
<1> DEFINE a == DueAt(t, l)
<1> DEFINE b == DueAt(t, m)
<1>1. /\ TimeSize \in Nat \ {0} /\ Half \in Nat /\ 2 * Half <= TimeSize - 1
      /\ l \in Int /\ m \in Int /\ l - m < Half /\ m - l < Half
  BY Ranges DEF Lefts
<1>2. a \in 0 .. TimeSize - 1 /\ b \in 0 .. TimeSize - 1
  BY DueAtValue DEF Time
<1>3. a - b = l - m \/ a - b = l - m + TimeSize \/ a - b = l - m - TimeSize
  <2>1. a = t + l \/ a = t + l + TimeSize \/ a = t + l - TimeSize
    BY DueAtValue, <1>1 DEF Time
  <2>2. b = t + m \/ b = t + m + TimeSize \/ b = t + m - TimeSize
    BY DueAtValue, <1>1 DEF Time
  <2>3. t \in Int
    BY <1>1 DEF Time
  <2> HIDE DEF a, b
  <2> QED
    BY <2>1, <2>2, <2>3, <1>1, <1>2
<1> HIDE DEF a, b
<1>4. (TimeSize + a - b) % TimeSize = IF l >= m THEN l - m ELSE TimeSize + l - m
  <2>1. CASE l >= m
    <3>1. l - m \in 0 .. TimeSize - 1
      BY <2>1, <1>1
    <3>2. TimeSize + a - b = l - m \/ TimeSize + a - b = TimeSize + (l - m)
          \/ TimeSize + a - b = TimeSize + TimeSize + (l - m)
      BY <1>1, <1>2, <1>3
    <3>3. (TimeSize + a - b) % TimeSize = l - m
      BY <3>1, <3>2, <1>1, Wraps
    <3> QED
      BY <3>3, <2>1
  <2>2. CASE l < m
    <3> DEFINE x == TimeSize + l - m
    <3>1. x \in 0 .. TimeSize - 1
      BY <2>2, <1>1
    <3>2. TimeSize + a - b = x \/ TimeSize + a - b = TimeSize + x
      BY <2>2, <1>1, <1>2, <1>3
    <3>3. (TimeSize + a - b) % TimeSize = x
      BY <3>1, <3>2, <1>1, Wraps
    <3> QED
      BY <3>3, <2>2, <1>1
  <2> QED
    BY <2>1, <2>2, <1>1
<1>5. ZB_TIME_GE(a, b) <=> (TimeSize + a - b) % TimeSize < Half
  BY DEF ZB_TIME_GE
<1>6. ZB_TIME_GE(a, b) <=> l >= m
  BY <1>1, <1>4, <1>5
<1> QED
  BY <1>6 DEF a, b

\* An alarm is due when nothing of its time is left.
LEMMA DueRight ==
  ASSUME NEW t \in Time, NEW l \in Lefts
  PROVE  ZB_TIME_GE(t, DueAt(t, l)) <=> l <= 0
<1>1. 0 \in Lefts /\ l \in Int /\ t \in Int
  BY Ranges DEF Lefts, Time
<1>2. DueAt(t, 0) = t
  BY <1>1, DueAtValue, Ranges DEF Time
<1>3. ZB_TIME_GE(DueAt(t, 0), DueAt(t, l)) <=> 0 >= l
  BY <1>1, ComparesRight
<1> QED
  BY <1>1, <1>2, <1>3

\* Adding a delay to the time, and taking the difference of two times.
LEMMA TimeOps ==
  ASSUME NEW t \in Time, NEW u \in Time, NEW d \in Nat
  PROVE  /\ ZB_TIME_ADD(t, d) \in Time /\ ZB_TIME_SUBTRACT(t, u) \in Time
         /\ d \in Lefts => ZB_TIME_ADD(t, d) = DueAt(t, d)
<1>1. TimeSize \in Nat \ {0} /\ t \in 0 .. TimeSize - 1 /\ u \in 0 .. TimeSize - 1
  BY Ranges DEF Time
<1>2. \A x \in Nat : x % TimeSize \in 0 .. TimeSize - 1
  BY <1>1
<1>3. t + d \in Nat /\ TimeSize + t - u \in Nat /\ TimeSize + u - t \in Nat
  BY <1>1
<1>4. ZB_TIME_ADD(t, d) \in Time /\ ZB_TIME_SUBTRACT(t, u) \in Time
  BY <1>2, <1>3 DEF ZB_TIME_ADD, ZB_TIME_SUBTRACT, Time
<1>5. ASSUME d \in Lefts
      PROVE  ZB_TIME_ADD(t, d) = DueAt(t, d)
  <2>1. d < TimeSize
    BY <1>5, Ranges DEF Lefts
  <2>2. CASE t + d < TimeSize
    <3>1. t + d \in 0 .. TimeSize - 1
      BY <2>2, <1>1
    <3>2. (t + d) % TimeSize = t + d
      BY <3>1, <1>1, Wraps
    <3> QED
      BY <3>2, <2>2, <1>1, <1>5, DueAtValue DEF ZB_TIME_ADD
  <2>3. CASE t + d >= TimeSize
    <3> DEFINE x == t + d - TimeSize
    <3>1. x \in 0 .. TimeSize - 1 /\ TimeSize + x = t + d
      BY <2>1, <2>3, <1>1
    <3>2. (TimeSize + x) % TimeSize = x
      BY <3>1, <1>1, Wraps
    <3> QED
      BY <3>1, <3>2, <2>3, <1>1, <1>5, DueAtValue DEF ZB_TIME_ADD
  <2> QED
    BY <2>2, <2>3, <1>1
<1> QED
  BY <1>4, <1>5

\* While time passes, an alarm stays due at the same time.
LEMMA TimePasses ==
  ASSUME NEW t \in Time, NEW l \in Lefts, NEW d \in 0 .. MaxStall, l - d \in Lefts
  PROVE  ZB_TIME_ADD(t, d) \in Time /\ DueAt(ZB_TIME_ADD(t, d), l - d) = DueAt(t, l)
<1>1. /\ TimeSize \in Nat \ {0} /\ t \in 0 .. TimeSize - 1 /\ d \in Nat /\ d < TimeSize
      /\ l \in Int /\ l < TimeSize /\ -TimeSize < l /\ l - d \in Int
  BY Ranges DEF Time, Lefts
<1>2. ZB_TIME_ADD(t, d) = IF t + d < TimeSize THEN t + d ELSE t + d - TimeSize
  <2>1. CASE t + d < TimeSize
    <3>1. t + d \in 0 .. TimeSize - 1
      BY <2>1, <1>1
    <3>2. (t + d) % TimeSize = t + d
      BY <3>1, <1>1, Wraps
    <3> QED
      BY <3>2, <2>1 DEF ZB_TIME_ADD
  <2>2. CASE t + d >= TimeSize
    <3> DEFINE x == t + d - TimeSize
    <3>1. x \in 0 .. TimeSize - 1 /\ TimeSize + x = t + d
      BY <2>2, <1>1
    <3>2. (TimeSize + x) % TimeSize = x
      BY <3>1, <1>1, Wraps
    <3> QED
      BY <3>1, <3>2, <2>2, <1>1 DEF ZB_TIME_ADD
  <2> QED
    BY <2>1, <2>2, <1>1
<1> DEFINE u == ZB_TIME_ADD(t, d)
<1>3. u \in Time
  BY <1>1, TimeOps
<1>4. DueAt(u, l - d) = IF u + (l - d) < 0 THEN TimeSize + u + (l - d)
                        ELSE IF u + (l - d) < TimeSize THEN u + (l - d) ELSE u + (l - d) - TimeSize
  BY <1>3, DueAtValue
<1>5. DueAt(t, l) = IF t + l < 0 THEN TimeSize + t + l
                    ELSE IF t + l < TimeSize THEN t + l ELSE t + l - TimeSize
  BY DueAtValue
<1>6. /\ DueAt(u, l - d) \in 0 .. TimeSize - 1 /\ DueAt(t, l) \in 0 .. TimeSize - 1
      /\ u \in 0 .. TimeSize - 1
  BY <1>3, DueAtValue DEF Time
<1> HIDE DEF u
<1>7. u = t + d \/ u = t + d - TimeSize
  BY <1>1, <1>2 DEF u
<1>8. DueAt(u, l - d) = DueAt(t, l)
  <2>1. PICK a : a = DueAt(u, l - d)
    OBVIOUS
  <2>2. PICK b : b = DueAt(t, l)
    OBVIOUS
  <2>3. a = u + l - d \/ a = u + l - d + TimeSize \/ a = u + l - d - TimeSize
    BY <2>1, <1>1, <1>4, <1>6
  <2>4. b = t + l \/ b = t + l + TimeSize \/ b = t + l - TimeSize
    BY <2>2, <1>1, <1>5, <1>6
  <2>5. a \in 0 .. TimeSize - 1 /\ b \in 0 .. TimeSize - 1
    BY <2>1, <2>2, <1>6
  <2>6. a = b
    BY <2>3, <2>4, <2>5, <1>1, <1>7
  <2> QED
    BY <2>1, <2>2, <2>6
<1> QED
  BY <1>3, <1>8 DEF u


-----------------------------------------------------------------------------
(* The queue.                                                               *)

\* A set of numbers that is not empty has a least one.
LEMMA LeastOf ==
  ASSUME NEW S, S \subseteq Nat, S # {}
  PROVE  \E x \in S : \A y \in S : x <= y
<1> DEFINE R == {ss \in Nat \X Nat : ss[1] < ss[2]}
<1>0. IsWellFoundedOn(R, Nat)
  BY NatLessThanWellFounded DEF OpToRel
<1> HIDE DEF R
<1>1. PICK x \in S : \A y \in S : ~(<<y, x>> \in R)
  BY <1>0, WFMin
<1>2. \A y \in S : ~(y < x)
  BY <1>1 DEF R
<1> QED
  BY <1>2

\* A function on the first n numbers is a sequence.
LEMMA SeqOf ==
  ASSUME NEW S, NEW n \in Nat, NEW f \in [1 .. n -> S]
  PROVE  f \in Seq(S) /\ Len(f) = n /\ DOMAIN f = 1 .. n /\ \A j \in 1 .. n : f[j] \in S
<1>1. f \in Seq(S)
  BY SeqDef
<1> QED
  BY <1>1

\* The queue, by its places.
LEMMA QueueFacts ==
  ASSUME tm_queue \in Seq(Entry)
  PROVE  /\ Len(tm_queue) \in Nat /\ DOMAIN tm_queue = 1 .. Len(tm_queue)
         /\ \A k \in 1 .. Len(tm_queue) : tm_queue[k] \in Entry
         /\ tm_queue = <<>> <=> Len(tm_queue) = 0
BY EmptySeq

\* The fields of an entry.
LEMMA EntryFields ==
  ASSUME NEW e \in Entry
  PROVE  /\ e.slot \in Slots /\ e.run_time \in Time /\ e.left \in Lefts /\ e.left \in Int
         /\ e.slot # 0 /\ e # NoEntry
<1>1. e.slot \in Slots /\ e.run_time \in Time /\ e.left \in Lefts
  BY DEF Entry, Lefts
<1>2. e.slot # 0 /\ e.left \in Int
  BY <1>1, AlarmAssumption DEF Slots, Lefts
<1>3. e # NoEntry
  BY <1>2 DEF NoEntry
<1> QED
  BY <1>1, <1>2, <1>3

\* The entries of the queue are due when nothing of their time is left.
LEMMA EntryDue ==
  ASSUME TypeOK, QueueInOrder, NEW k \in DOMAIN tm_queue
  PROVE  /\ tm_queue[k] \in Entry /\ tm_queue[k].left \in Int
         /\ tm_queue[k].run_time = DueAt(timer, tm_queue[k].left)
         /\ ZB_TIME_GE(timer, tm_queue[k].run_time) <=> tm_queue[k].left <= 0
<1>1. tm_queue[k] \in Entry /\ timer \in Time
  BY QueueFacts DEF TypeOK
<1>2. PICK l \in Lefts : l = tm_queue[k].left
  BY <1>1, EntryFields
<1>3. tm_queue[k].run_time = DueAt(timer, l)
  BY <1>2 DEF QueueInOrder, DueAt
<1>4. ZB_TIME_GE(timer, DueAt(timer, l)) <=> l <= 0
  BY <1>1, DueRight
<1> QED
  BY <1>1, <1>2, <1>3, <1>4, EntryFields

\* zb_schedule_alarm() finds the place that keeps the queue in order.
LEMMA InsertsRight ==
  ASSUME TypeOK, QueueInOrder, NEW d \in 0 .. MaxDelay, NEW r, r = DueAt(timer, d)
  PROVE  /\ InsertPos(r) \in 1 .. Len(tm_queue) + 1
         /\ \A j \in 1 .. Len(tm_queue) :
              /\ j < InsertPos(r) => tm_queue[j].left <= d
              /\ j >= InsertPos(r) => d <= tm_queue[j].left
<1> DEFINE later == {k \in DOMAIN tm_queue : ~ZB_TIME_GE(r, tm_queue[k].run_time)}
<1> DEFINE first == CHOOSE k \in later : \A j \in later : k <= j
<1>1. /\ Len(tm_queue) \in Nat /\ DOMAIN tm_queue = 1 .. Len(tm_queue)
      /\ tm_queue = <<>> <=> Len(tm_queue) = 0
  BY QueueFacts DEF TypeOK
<1>2. \A k \in 1 .. Len(tm_queue) : tm_queue[k].left \in Int
  BY <1>1, EntryDue
<1>3. d \in Int /\ d \in Lefts /\ timer \in Time
  BY Ranges DEF Lefts, TypeOK
<1>4. \A k \in 1 .. Len(tm_queue) :
        /\ ZB_TIME_GE(r, tm_queue[k].run_time) <=> d >= tm_queue[k].left
        /\ ZB_TIME_GE(tm_queue[k].run_time, r) <=> tm_queue[k].left >= d
  <2> TAKE k \in 1 .. Len(tm_queue)
  <2>1. PICK l \in Lefts : l = tm_queue[k].left
    BY <1>1, EntryDue, EntryFields
  <2>2. tm_queue[k].run_time = DueAt(timer, l)
    BY <1>1, <2>1, EntryDue
  <2>3. /\ ZB_TIME_GE(DueAt(timer, d), DueAt(timer, l)) <=> d >= l
        /\ ZB_TIME_GE(DueAt(timer, l), DueAt(timer, d)) <=> l >= d
    BY <1>3, ComparesRight
  <2> QED
    BY <2>1, <2>2, <2>3
<1>5. \A j, k \in 1 .. Len(tm_queue) : j < k => tm_queue[j].left <= tm_queue[k].left
  BY <1>1 DEF QueueInOrder
<1>6. later = {k \in 1 .. Len(tm_queue) : ~(d >= tm_queue[k].left)}
  BY <1>1, <1>4
<1>7. later # {} => first \in later /\ \A j \in later : first <= j
  <2>1. later \subseteq Nat
    BY <1>1
  <2> HIDE DEF later
  <2> QED
    BY <2>1, LeastOf
<1>8. InsertPos(r) = IF tm_queue = <<>> THEN 1
                     ELSE IF ZB_TIME_GE(tm_queue[1].run_time, r) THEN 1
                     ELSE IF later = {} \/ first = 1 THEN Len(tm_queue) + 1
                     ELSE first
  BY DEF InsertPos
<1> HIDE DEF later, first
<1>9. CASE tm_queue = <<>>
  BY <1>1, <1>8, <1>9
<1>10. CASE tm_queue # <<>> /\ ZB_TIME_GE(tm_queue[1].run_time, r)
  <2>1. InsertPos(r) = 1 /\ 1 \in 1 .. Len(tm_queue)
    BY <1>1, <1>8, <1>10
  <2>2. d <= tm_queue[1].left
    BY <1>2, <1>3, <1>4, <1>10, <2>1
  <2>3. \A j \in 1 .. Len(tm_queue) : d <= tm_queue[j].left
    BY <1>1, <1>2, <1>3, <1>5, <2>1, <2>2
  <2> QED
    BY <1>1, <2>1, <2>3
<1>11. CASE tm_queue # <<>> /\ ~ZB_TIME_GE(tm_queue[1].run_time, r)
  <2>1. 1 \in 1 .. Len(tm_queue) /\ 1 \notin later
    BY <1>1, <1>2, <1>3, <1>4, <1>6, <1>11
  <2>2. CASE later = {}
    <3>1. InsertPos(r) = Len(tm_queue) + 1
      BY <1>8, <1>11, <2>2
    <3>2. \A j \in 1 .. Len(tm_queue) : tm_queue[j].left <= d
      BY <1>2, <1>3, <1>6, <2>2
    <3> QED
      BY <1>1, <3>1, <3>2
  <2>3. CASE later # {}
    <3>1. InsertPos(r) = first /\ first \in later
      BY <1>7, <1>8, <1>11, <2>1, <2>3
    <3>2. first \in 1 .. Len(tm_queue) /\ d < tm_queue[first].left
      BY <1>2, <1>3, <1>6, <3>1
    <3>3. \A j \in 1 .. Len(tm_queue) : j < first => tm_queue[j].left <= d
      BY <1>1, <1>2, <1>3, <1>6, <1>7, <2>3, <3>2
    <3>4. \A j \in 1 .. Len(tm_queue) : j >= first => d <= tm_queue[j].left
      BY <1>1, <1>2, <1>3, <1>5, <3>2
    <3> QED
      BY <1>1, <3>1, <3>2, <3>3, <3>4
  <2> QED
    BY <2>2, <2>3
<1> QED
  BY <1>9, <1>10, <1>11

\* The timer: a stop time is a time, and a timer that runs goes on.
LEMMA TimerStarts ==
  ASSUME TypeOK, NEW t \in Time, zb_timer_start(t)
  PROVE  timer_stop' \in Time /\ started' \in BOOLEAN /\ started'
<1>0. timer \in Time /\ t \in Nat
  BY Ranges DEF TypeOK, Time
<1>1. ZB_TIME_ADD(timer, t) \in Time
  BY <1>0, TimeOps
<1>2. PICK u \in Time : u = ZB_TIME_ADD(timer, t)
  BY <1>1
<1> QED
  BY <1>2 DEF zb_timer_start, TypeOK

-----------------------------------------------------------------------------
(* Every action keeps the invariant.                                        *)

\* No time at all is less than a beacon interval.
LEMMA NothingLeft == 0 \in RestMs /\ 0 \in 0 .. MaxRest
<1>1. BeaconTenths \in Nat /\ 3 < BeaconTenths /\ MaxRest \in Nat
  BY AlarmAssumption
<1>2. 3 \div BeaconTenths = 0 /\ 10 * 0 + 3 = 3
  BY <1>1
<1> QED
  BY <1>1, <1>2 DEF RestMs, ZB_MILLISECONDS_TO_BEACON_INTERVAL

\* At the start every entry is free.
LEMMA StartsSound == Init => AlarmInv
<1> SUFFICES ASSUME Init
             PROVE  AlarmInv
  OBVIOUS
<1>1. tm_queue = <<>> /\ tm_queue \in Seq(Entry) /\ DOMAIN tm_queue = {} /\ tm_freelist = Slots
      /\ running = NoEntry /\ pc = "cb"
  BY EmptySeq DEF Init, zb_sched_init
<1>2. TypeOK
  <2>1. 0 \in Time /\ 0 \in 0 .. MaxCalls
    BY Ranges, AlarmAssumption DEF Time
  <2> QED
    BY <1>1, <2>1, NothingLeft DEF Init, TypeOK
<1>3. QueueInOrder /\ Covered /\ LoopInOrder
  BY <1>1 DEF QueueInOrder, Covered, LoopInOrder
<1>4. running.slot \notin tm_freelist
  BY <1>1 DEF NoEntry, Slots
<1>5. Apart
  BY <1>1, <1>4 DEF Apart
<1> QED
  BY <1>2, <1>3, <1>5 DEF AlarmInv

\* A new alarm is put in its place.
LEMMA ScheduleSound ==
  ASSUME AlarmInv, NEW f \in Funcs, NEW p \in Params, NEW d \in 0 .. MaxDelay,
         zb_schedule_alarm(f, p, d)
  PROVE  AlarmInv'
<1>0. TypeOK /\ QueueInOrder /\ Covered /\ Apart /\ LoopInOrder
  BY DEF AlarmInv
<1>1. /\ calls < MaxCalls /\ (pc = "cb" \/ running # NoEntry) /\ calls' = calls + 1
      /\ did_something' = TRUE /\ timer' = timer /\ clock' = clock /\ running' = running /\ pc' = pc
  BY DEF zb_schedule_alarm, InCallback
<1>2. pc # "wait"
  BY <1>0, <1>1 DEF LoopInOrder
<1>3. calls' \in 0 .. MaxCalls
  BY <1>0, <1>1, AlarmAssumption DEF TypeOK
<1>4. LoopInOrder'
  BY <1>0, <1>1, <1>2 DEF LoopInOrder
<1>5. CASE tm_freelist = {}
  <2>1. UNCHANGED <<timer_stop, started, tm_queue, tm_freelist>>
    BY <1>5 DEF zb_schedule_alarm
  <2>2. TypeOK'
    BY <1>0, <1>1, <1>3, <2>1 DEF TypeOK, clock
  <2>3. QueueInOrder' /\ Covered' /\ Apart'
    BY <1>0, <1>1, <2>1 DEF QueueInOrder, Covered, Apart
  <2> QED
    BY <1>4, <2>2, <2>3 DEF AlarmInv
<1>6. CASE tm_freelist # {}
  <2> DEFINE low == CHOOSE s \in tm_freelist : \A r \in tm_freelist : s <= r
  <2>1. low \in tm_freelist
    <3>1. tm_freelist \subseteq Nat
      BY <1>0 DEF TypeOK, Slots
    <3> QED
      BY <1>6, <3>1, LeastOf
  <2>2. PICK slot : slot = low
    OBVIOUS
  <2>3. PICK e : e = [slot |-> slot, func |-> f, param |-> p,
                      run_time |-> ZB_TIME_ADD(timer, d), left |-> d]
    OBVIOUS
  <2>4. PICK k : k = InsertPos(e.run_time)
    OBVIOUS
  <2>5. /\ tm_freelist' = tm_freelist \ {slot}
        /\ tm_queue' = Inserted(k, e)
        /\ IF tm_queue'[1].run_time # timer /\ ZB_TIME_GE(tm_queue'[1].run_time, timer)
           THEN zb_timer_start(ZB_TIME_SUBTRACT(tm_queue'[1].run_time, timer))
           ELSE UNCHANGED <<timer_stop, started>>
    BY <1>6, <2>2, <2>3, <2>4 DEF zb_schedule_alarm
  <2>6. slot \in tm_freelist /\ slot \in Slots
    BY <1>0, <2>1, <2>2 DEF TypeOK
  <2> HIDE DEF low
  <2>7. /\ d \in Nat /\ d \in Lefts /\ timer \in Time
        /\ ZB_TIME_ADD(timer, d) \in Time /\ ZB_TIME_ADD(timer, d) = DueAt(timer, d)
    <3>1. d \in Nat /\ d \in Lefts /\ timer \in Time
      BY <1>0, Ranges DEF TypeOK, Lefts
    <3> QED
      BY <3>1, TimeOps
  <2>8. e \in Entry /\ e.slot = slot /\ e.left = d /\ e.run_time = DueAt(timer, d)
    BY <2>3, <2>6, <2>7 DEF Entry, Lefts
  <2>9. /\ Len(tm_queue) \in Nat /\ DOMAIN tm_queue = 1 .. Len(tm_queue)
        /\ \A j \in 1 .. Len(tm_queue) : tm_queue[j] \in Entry /\ tm_queue[j].left \in Int
    BY <1>0, QueueFacts, EntryFields DEF TypeOK
  <2>10. /\ k \in 1 .. Len(tm_queue) + 1
         /\ \A j \in 1 .. Len(tm_queue) :
              (j < k => tm_queue[j].left <= d) /\ (j >= k => d <= tm_queue[j].left)
    BY <1>0, <2>4, <2>8, InsertsRight
  <2> DEFINE n == Len(tm_queue) + 1
  <2>11. /\ n \in Nat /\ DOMAIN tm_queue' = 1 .. n /\ tm_queue' \in Seq(Entry)
         /\ tm_queue' \in [1 .. n -> Entry] /\ Len(tm_queue') = n
         /\ \A j \in 1 .. n :
              /\ j < k => j \in 1 .. Len(tm_queue) /\ tm_queue'[j] = tm_queue[j]
              /\ j = k => tm_queue'[j] = e
              /\ j > k => j - 1 \in 1 .. Len(tm_queue) /\ tm_queue'[j] = tm_queue[j - 1]
    <3>1. tm_queue' = [j \in 1 .. n |-> IF j < k THEN tm_queue[j] ELSE IF j = k THEN e ELSE tm_queue[j - 1]]
      BY <2>5 DEF Inserted
    <3>2. n \in Nat
      BY <2>9
    <3>3. /\ DOMAIN tm_queue' = 1 .. n
          /\ \A j \in 1 .. n :
              /\ j < k => j \in 1 .. Len(tm_queue) /\ tm_queue'[j] = tm_queue[j]
              /\ j = k => tm_queue'[j] = e
              /\ j > k => j - 1 \in 1 .. Len(tm_queue) /\ tm_queue'[j] = tm_queue[j - 1]
      BY <2>9, <2>10, <3>1
    <3>4. \A j \in 1 .. n : tm_queue'[j] \in Entry
      BY <2>8, <2>9, <2>10, <3>2, <3>3
    <3>5. tm_queue' \in [1 .. n -> Entry]
      BY <3>1, <3>4
    <3>6. PICK q : q = tm_queue'
      OBVIOUS
    <3>7. q \in Seq(Entry) /\ Len(q) = n
      BY <3>2, <3>5, <3>6, SeqOf
    <3> QED
      BY <3>2, <3>3, <3>5, <3>6, <3>7
  <2>12. timer_stop' \in Time /\ started' \in BOOLEAN
    <3>1. 1 \in 1 .. n
      BY <2>9
    <3>2. PICK t : t = tm_queue'[1].run_time
      OBVIOUS
    <3>3. t \in Time
      BY <2>11, <3>1, <3>2, EntryFields
    <3>4. ZB_TIME_SUBTRACT(t, timer) \in Time
      BY <2>7, <3>3, TimeOps
    <3>5. zb_timer_start(ZB_TIME_SUBTRACT(t, timer)) => timer_stop' \in Time /\ started' \in BOOLEAN
      BY <1>0, <3>4, TimerStarts
    <3> QED
      BY <1>0, <2>5, <3>2, <3>5 DEF TypeOK
  <2>13. TypeOK'
    <3>1. tm_freelist' \subseteq Slots
      BY <1>0, <2>5 DEF TypeOK
    <3> QED
      BY <1>0, <1>1, <1>3, <2>11, <2>12, <3>1 DEF TypeOK, clock
  <2>14. QueueInOrder'
    <3>1. \A j \in 1 .. n : tm_queue'[j].run_time = (TimeSize + timer + tm_queue'[j].left) % TimeSize
      <4>1. e.run_time = (TimeSize + timer + e.left) % TimeSize
        BY <2>8 DEF DueAt
      <4>2. \A j \in 1 .. Len(tm_queue) : tm_queue[j].run_time = (TimeSize + timer + tm_queue[j].left) % TimeSize
        BY <1>0, <2>9 DEF QueueInOrder
      <4> TAKE j \in 1 .. n
      <4>3. j < k \/ j = k \/ j > k
        BY <2>9, <2>10
      <4> QED
        BY <2>11, <4>1, <4>2, <4>3
    <3>2. ASSUME NEW i \in 1 .. n, NEW j \in 1 .. n, i < j
          PROVE  tm_queue'[i].left <= tm_queue'[j].left
      <4>1. \A a, b \in 1 .. Len(tm_queue) : a < b => tm_queue[a].left <= tm_queue[b].left
        BY <1>0, <2>9 DEF QueueInOrder
      <4>2. CASE i = k
        <5>1. tm_queue'[i] = e /\ j > k /\ tm_queue'[j] = tm_queue[j - 1] /\ j - 1 \in 1 .. Len(tm_queue)
          BY <2>11, <3>2, <4>2
        <5>2. j - 1 >= k
          BY <5>1, <2>9, <2>10
        <5> QED
          BY <2>8, <2>10, <5>1, <5>2
      <4>3. CASE j = k
        <5>1. tm_queue'[j] = e /\ i < k /\ tm_queue'[i] = tm_queue[i] /\ i \in 1 .. Len(tm_queue)
          BY <2>11, <3>2, <4>3
        <5> QED
          BY <2>8, <2>10, <5>1
      <4>4. CASE i < k /\ j < k
        BY <2>11, <3>2, <4>1, <4>4
      <4>5. CASE i > k
        <5>1. j > k /\ i - 1 < j - 1
          BY <2>9, <2>10, <3>2, <4>5
        <5> QED
          BY <2>11, <4>1, <4>5, <5>1
      <4>6. CASE i < k /\ j > k
        <5>1. /\ tm_queue'[i] = tm_queue[i] /\ i \in 1 .. Len(tm_queue)
              /\ tm_queue'[j] = tm_queue[j - 1] /\ j - 1 \in 1 .. Len(tm_queue)
          BY <2>11, <4>6
        <5>2. j - 1 >= k
          BY <5>1, <2>9, <2>10, <4>6
        <5>3. tm_queue[i].left <= d /\ d <= tm_queue[j - 1].left
          BY <2>10, <4>6, <5>1, <5>2
        <5> QED
          BY <2>7, <2>9, <5>1, <5>3
      <4> QED
        BY <2>9, <2>10, <4>2, <4>3, <4>4, <4>5, <4>6
    <3> QED
      BY <1>1, <2>11, <3>1, <3>2 DEF QueueInOrder
  <2>15. Covered'
    <3> SUFFICES ASSUME NEW s \in Slots
                 PROVE  s \in tm_freelist' \/ s = running'.slot
                        \/ \E j \in DOMAIN tm_queue' : tm_queue'[j].slot = s
      BY DEF Covered
    <3>1. CASE s = slot
      <4>1. k \in 1 .. n /\ tm_queue'[k].slot = s
        BY <2>8, <2>10, <2>11, <3>1
      <4> QED
        BY <2>11, <4>1
    <3>2. CASE \E j \in DOMAIN tm_queue : tm_queue[j].slot = s
      <4>1. PICK j \in 1 .. Len(tm_queue) : tm_queue[j].slot = s
        BY <2>9, <3>2
      <4>2. CASE j < k
        <5>1. j \in 1 .. n /\ tm_queue'[j].slot = s
          BY <2>9, <2>11, <4>1, <4>2
        <5> QED
          BY <2>11, <5>1
      <4>3. CASE j >= k
        <5>1. j + 1 \in 1 .. n /\ j + 1 > k /\ (j + 1) - 1 = j
          BY <2>9, <2>10, <4>3
        <5>2. tm_queue'[j + 1].slot = s
          BY <2>11, <4>1, <5>1
        <5> QED
          BY <2>11, <5>1, <5>2
      <4> QED
        BY <2>9, <2>10, <4>2, <4>3
    <3> QED
      BY <1>0, <1>1, <2>5, <3>1, <3>2 DEF Covered
  <2>16. Apart'
    <3>1. /\ \A j \in 1 .. Len(tm_queue) : tm_queue[j].slot \notin tm_freelist /\ tm_queue[j].slot # running.slot
          /\ \A i, j \in 1 .. Len(tm_queue) : tm_queue[i].slot = tm_queue[j].slot => i = j
          /\ running.slot \notin tm_freelist
      BY <1>0, <2>9 DEF Apart
    <3>2. ASSUME NEW j \in 1 .. n
          PROVE  tm_queue'[j].slot \notin tm_freelist' /\ tm_queue'[j].slot # running'.slot
      <4>1. j < k \/ j = k \/ j > k
        BY <2>9, <2>10
      <4> QED
        BY <1>1, <2>5, <2>6, <2>8, <2>11, <3>1, <4>1
    <3>3. ASSUME NEW i \in 1 .. n, NEW j \in 1 .. n, i < j
          PROVE  tm_queue'[i].slot # tm_queue'[j].slot
      <4>1. \A a \in 1 .. Len(tm_queue) : tm_queue[a].slot # slot
        BY <2>6, <3>1
      <4>2. CASE i = k \/ j = k
        BY <2>8, <2>11, <3>3, <4>1, <4>2
      <4>3. CASE i < k /\ j < k
        BY <2>11, <3>1, <3>3, <4>3
      <4>4. CASE i > k
        <5>1. j > k /\ i - 1 # j - 1
          BY <2>9, <2>10, <3>3, <4>4
        <5> QED
          BY <2>11, <3>1, <4>4, <5>1
      <4>5. CASE i < k /\ j > k
        <5>1. /\ tm_queue'[i] = tm_queue[i] /\ i \in 1 .. Len(tm_queue)
              /\ tm_queue'[j] = tm_queue[j - 1] /\ j - 1 \in 1 .. Len(tm_queue)
          BY <2>11, <4>5
        <5>2. i # j - 1
          BY <2>9, <2>10, <4>5
        <5> QED
          BY <3>1, <5>1, <5>2
      <4> QED
        BY <2>9, <2>10, <3>3, <4>2, <4>3, <4>4, <4>5
    <3>4. \A i, j \in 1 .. n : tm_queue'[i].slot = tm_queue'[j].slot => i = j
      <4>1. \A i, j \in 1 .. n : i < j \/ i = j \/ j < i
        BY <2>11
      <4> QED
        BY <3>3, <4>1
    <3>5. running'.slot \notin tm_freelist'
      BY <1>1, <2>5, <3>1
    <3> QED
      BY <2>11, <3>2, <3>4, <3>5 DEF Apart
  <2> QED
    BY <1>4, <2>13, <2>14, <2>15, <2>16 DEF AlarmInv
<1> QED
  BY <1>5, <1>6

\* What zb_schedule_alarm_cancel() keeps: some of the entries, in their order.
LEMMA KeepsInOrder ==
  ASSUME TypeOK, NEW kept \in SUBSET DOMAIN tm_queue, KeepOnly(kept)
  PROVE  \E n \in Nat : \E pos \in [1 .. n -> kept] :
           /\ \A i, j \in 1 .. n : i < j => pos[i] < pos[j]
           /\ \A i, j \in 1 .. n : pos[i] = pos[j] => i = j
           /\ \A k \in kept : \E j \in 1 .. n : pos[j] = k
           /\ tm_queue' \in Seq(Entry) /\ DOMAIN tm_queue' = 1 .. n
           /\ \A j \in 1 .. n : tm_queue'[j] = tm_queue[pos[j]]
<1>1. /\ Len(tm_queue) \in Nat /\ DOMAIN tm_queue = 1 .. Len(tm_queue)
      /\ \A j \in 1 .. Len(tm_queue) : tm_queue[j] \in Entry
  BY QueueFacts DEF TypeOK
<1>2. PICK pos \in [1 .. Cardinality(kept) -> kept] :
        /\ \A i, j \in DOMAIN pos : i < j => pos[i] < pos[j]
        /\ tm_queue' = [j \in DOMAIN pos |-> tm_queue[pos[j]]]
  BY DEF KeepOnly
<1>3. IsFiniteSet(kept)
  <2>1. IsFiniteSet(1 .. Len(tm_queue))
    BY <1>1, FS_Interval
  <2> QED
    BY <1>1, <2>1, FS_Subset
<1>4. PICK n : n = Cardinality(kept)
  OBVIOUS
<1>5. n \in Nat
  BY <1>3, <1>4, FS_CardinalityType
<1>6. pos \in [1 .. n -> kept] /\ DOMAIN pos = 1 .. n
  BY <1>2, <1>4
<1>7. \A j \in 1 .. n : pos[j] \in kept /\ pos[j] \in 1 .. Len(tm_queue)
  BY <1>1, <1>6
<1>8. \A i, j \in 1 .. n : i < j => pos[i] < pos[j]
  BY <1>2, <1>6
<1>9. \A i, j \in 1 .. n : pos[i] = pos[j] => i = j
  <2> SUFFICES ASSUME NEW i \in 1 .. n, NEW j \in 1 .. n, pos[i] = pos[j]
               PROVE  i = j
    OBVIOUS
  <2>1. i < j \/ i = j \/ j < i
    BY <1>5
  <2>2. pos[i] \in Int /\ pos[j] \in Int
    BY <1>1, <1>7
  <2> QED
    BY <1>8, <2>1, <2>2
<1>10. \A k \in kept : \E j \in 1 .. n : pos[j] = k
  <2>1. pos \in Injection(1 .. n, kept)
    BY <1>6, <1>9 DEF Injection, IsInjective
  <2>2. Cardinality(1 .. n) = n
    <3>1. 1 \in Int /\ n \in Int /\ (IF 1 > n THEN 0 ELSE n - 1 + 1) = n
      BY <1>5
    <3> QED
      BY <3>1, FS_Interval
  <2>3. pos \in Surjection(1 .. n, kept)
    BY <1>3, <1>4, <2>1, <2>2, FS_Injection
  <2> QED
    BY <2>3 DEF Surjection
<1>11. /\ tm_queue' \in Seq(Entry) /\ DOMAIN tm_queue' = 1 .. n
       /\ \A j \in 1 .. n : tm_queue'[j] = tm_queue[pos[j]]
  <2>1. PICK q : q = tm_queue'
    OBVIOUS
  <2>2. q = [j \in 1 .. n |-> tm_queue[pos[j]]]
    BY <1>2, <1>6, <2>1
  <2>3. \A j \in 1 .. n : tm_queue[pos[j]] \in Entry
    BY <1>1, <1>7
  <2>4. q \in [1 .. n -> Entry]
    BY <2>2, <2>3
  <2>5. q \in Seq(Entry) /\ DOMAIN q = 1 .. n
    BY <1>5, <2>4, SeqOf
  <2> QED
    BY <2>1, <2>2, <2>5
<1> QED
  BY <1>5, <1>6, <1>8, <1>9, <1>10, <1>11

\* A cancelled alarm goes back to the free list.
LEMMA CancelSound ==
  ASSUME AlarmInv, NEW f, NEW p, zb_schedule_alarm_cancel(f, p)
  PROVE  AlarmInv'
<1>0. TypeOK /\ QueueInOrder /\ Covered /\ Apart /\ LoopInOrder
  BY DEF AlarmInv
<1>1. /\ calls < MaxCalls /\ (pc = "cb" \/ running # NoEntry) /\ calls' = calls + 1
      /\ did_something' = TRUE /\ timer' = timer /\ clock' = clock /\ running' = running /\ pc' = pc
      /\ timer_stop' = timer_stop /\ started' = started
  BY DEF zb_schedule_alarm_cancel, InCallback
<1>2. pc # "wait"
  BY <1>0, <1>1 DEF LoopInOrder
<1>3. calls' \in 0 .. MaxCalls
  BY <1>0, <1>1, AlarmAssumption DEF TypeOK
<1>4. LoopInOrder'
  BY <1>0, <1>1, <1>2 DEF LoopInOrder
<1>5. PICK gone \in SUBSET DOMAIN tm_queue :
        /\ KeepOnly(DOMAIN tm_queue \ gone)
        /\ tm_freelist' = tm_freelist \cup {tm_queue[k].slot : k \in gone}
  <2> DEFINE found == {k \in DOMAIN tm_queue : tm_queue[k].func = f
                         /\ (p \in {ANY_PARAM, ALL_CB} \/ p = tm_queue[k].param)}
  <2> DEFINE first == {k \in found : \A j \in found : k <= j}
  <2> DEFINE go == IF p = ALL_CB THEN found ELSE first
  <2>1. /\ KeepOnly(DOMAIN tm_queue \ go)
        /\ tm_freelist' = tm_freelist \cup {tm_queue[k].slot : k \in go}
    BY DEF zb_schedule_alarm_cancel
  <2>2. go \in SUBSET DOMAIN tm_queue
    OBVIOUS
  <2> HIDE DEF go
  <2> QED
    BY <2>1, <2>2
<1>6. PICK kept : kept = DOMAIN tm_queue \ gone
  OBVIOUS
<1>7. kept \in SUBSET DOMAIN tm_queue /\ KeepOnly(kept)
  BY <1>5, <1>6
<1>8. PICK n \in Nat : \E pos \in [1 .. n -> kept] :
           /\ \A i, j \in 1 .. n : i < j => pos[i] < pos[j]
           /\ \A i, j \in 1 .. n : pos[i] = pos[j] => i = j
           /\ \A k \in kept : \E j \in 1 .. n : pos[j] = k
           /\ tm_queue' \in Seq(Entry) /\ DOMAIN tm_queue' = 1 .. n
           /\ \A j \in 1 .. n : tm_queue'[j] = tm_queue[pos[j]]
  BY <1>0, <1>7, KeepsInOrder
<1>9. PICK pos \in [1 .. n -> kept] :
           /\ \A i, j \in 1 .. n : i < j => pos[i] < pos[j]
           /\ \A i, j \in 1 .. n : pos[i] = pos[j] => i = j
           /\ \A k \in kept : \E j \in 1 .. n : pos[j] = k
           /\ tm_queue' \in Seq(Entry) /\ DOMAIN tm_queue' = 1 .. n
           /\ \A j \in 1 .. n : tm_queue'[j] = tm_queue[pos[j]]
  BY <1>8
<1>10. \A j \in 1 .. n : pos[j] \in DOMAIN tm_queue /\ pos[j] \notin gone
  BY <1>6, <1>9
<1>11. /\ \A k \in DOMAIN tm_queue : tm_queue[k].slot \notin tm_freelist /\ tm_queue[k].slot # running.slot
       /\ \A j, k \in DOMAIN tm_queue : tm_queue[j].slot = tm_queue[k].slot => j = k
       /\ running.slot \notin tm_freelist
  BY <1>0 DEF Apart
<1>12. TypeOK'
  <2>1. \A k \in gone : tm_queue[k].slot \in Slots
    BY <1>0, <1>5, QueueFacts, EntryFields DEF TypeOK
  <2>2. tm_freelist' \subseteq Slots
    BY <1>0, <1>5, <2>1 DEF TypeOK
  <2> QED
    BY <1>0, <1>1, <1>3, <1>9, <2>2 DEF TypeOK, clock
<1>13. QueueInOrder'
  BY <1>0, <1>1, <1>9, <1>10 DEF QueueInOrder
<1>14. Covered'
  <2> SUFFICES ASSUME NEW s \in Slots
               PROVE  s \in tm_freelist' \/ s = running'.slot
                      \/ \E j \in DOMAIN tm_queue' : tm_queue'[j].slot = s
    BY DEF Covered
  <2>1. CASE \E k \in DOMAIN tm_queue : tm_queue[k].slot = s
    <3>1. PICK k \in DOMAIN tm_queue : tm_queue[k].slot = s
      BY <2>1
    <3>2. CASE k \in gone
      BY <1>5, <3>1, <3>2
    <3>3. CASE k \notin gone
      BY <1>6, <1>9, <3>1, <3>3
    <3> QED
      BY <3>2, <3>3
  <2> QED
    BY <1>0, <1>1, <1>5, <2>1 DEF Covered
<1>15. Apart'
  <2>1. ASSUME NEW j \in 1 .. n
        PROVE  tm_queue'[j].slot \notin tm_freelist' /\ tm_queue'[j].slot # running'.slot
    <3>1. \A k \in gone : tm_queue[k].slot # tm_queue[pos[j]].slot
      BY <1>5, <1>10, <1>11
    <3> QED
      BY <1>1, <1>5, <1>9, <1>10, <1>11, <3>1
  <2>2. \A i, j \in 1 .. n : tm_queue'[i].slot = tm_queue'[j].slot => i = j
    BY <1>9, <1>10, <1>11
  <2>3. running'.slot \notin tm_freelist'
    <3>1. \A k \in gone : tm_queue[k].slot # running.slot
      BY <1>5, <1>11
    <3>2. running.slot \notin tm_freelist
      BY <1>11
    <3>3. tm_freelist' = tm_freelist \cup {tm_queue[k].slot : k \in gone} /\ running' = running
      BY <1>1, <1>5
    <3> QED
      BY <3>1, <3>2, <3>3
  <2> QED
    BY <1>9, <2>1, <2>2, <2>3 DEF Apart
<1> QED
  BY <1>4, <1>12, <1>13, <1>14, <1>15 DEF AlarmInv

\* The loop cuts the head from the queue and calls it.
LEMMA RunSound == AlarmInv /\ RunAlarm => AlarmInv'
<1> SUFFICES ASSUME AlarmInv, RunAlarm
             PROVE  AlarmInv'
  OBVIOUS
<1>0. TypeOK /\ QueueInOrder /\ Covered /\ Apart /\ LoopInOrder
  BY DEF AlarmInv
<1>1. /\ pc = "alarms" /\ running = NoEntry /\ tm_queue # <<>>
      /\ ZB_TIME_GE(timer, Head(tm_queue).run_time)
      /\ running' = Head(tm_queue) /\ tm_queue' = Tail(tm_queue) /\ did_something' = TRUE
      /\ UNCHANGED <<timer, timer_stop, started, clock, tm_freelist, pc, calls>>
  BY DEF RunAlarm, HeadIsDue
<1>2. /\ Len(tm_queue) \in Nat /\ DOMAIN tm_queue = 1 .. Len(tm_queue) /\ Len(tm_queue) # 0
      /\ \A k \in 1 .. Len(tm_queue) : tm_queue[k] \in Entry
  BY <1>0, <1>1, QueueFacts DEF TypeOK
<1> DEFINE n == Len(tm_queue) - 1
<1>3. /\ n \in Nat /\ tm_queue' \in Seq(Entry) /\ DOMAIN tm_queue' = 1 .. n
      /\ \A k \in 1 .. n : k + 1 \in DOMAIN tm_queue /\ tm_queue'[k] = tm_queue[k + 1]
  <2>1. PICK q : q = Tail(tm_queue)
    OBVIOUS
  <2>2. q \in Seq(Entry) /\ Len(q) = n /\ \A k \in 1 .. n : q[k] = tm_queue[k + 1]
    BY <1>0, <1>1, <2>1, HeadTailProperties DEF TypeOK
  <2>3. n \in Nat /\ \A k \in 1 .. n : k + 1 \in DOMAIN tm_queue
    BY <1>2
  <2> QED
    BY <1>1, <2>1, <2>2, <2>3
<1>4. 1 \in DOMAIN tm_queue /\ running' = tm_queue[1] /\ tm_queue[1] \in Entry
  BY <1>0, <1>1, <1>2 DEF TypeOK
<1>5. tm_queue[1].left <= 0
  BY <1>0, <1>1, <1>4, EntryDue
<1>6. /\ \A k \in DOMAIN tm_queue : tm_queue[k].slot \notin tm_freelist /\ tm_queue[k].slot # running.slot
      /\ \A j, k \in DOMAIN tm_queue : tm_queue[j].slot = tm_queue[k].slot => j = k
      /\ running.slot \notin tm_freelist
  BY <1>0 DEF Apart
<1>7. TypeOK'
  BY <1>0, <1>1, <1>3, <1>4 DEF TypeOK, clock
<1>8. QueueInOrder'
  BY <1>0, <1>1, <1>3 DEF QueueInOrder
<1>9. Covered'
  <2> SUFFICES ASSUME NEW s \in Slots
               PROVE  s \in tm_freelist' \/ s = running'.slot
                      \/ \E j \in DOMAIN tm_queue' : tm_queue'[j].slot = s
    BY DEF Covered
  <2>1. s # running.slot
    BY <1>1 DEF NoEntry, Slots
  <2>2. CASE \E k \in DOMAIN tm_queue : tm_queue[k].slot = s
    <3>1. PICK k \in DOMAIN tm_queue : tm_queue[k].slot = s
      BY <2>2
    <3>2. CASE k = 1
      BY <1>4, <3>1, <3>2
    <3>3. CASE k # 1
      <4>1. k - 1 \in 1 .. n /\ (k - 1) + 1 = k
        BY <1>2, <3>3
      <4>2. tm_queue'[k - 1].slot = s
        BY <1>3, <3>1, <4>1
      <4> QED
        BY <1>3, <4>1, <4>2
    <3> QED
      BY <3>2, <3>3
  <2> QED
    BY <1>0, <1>1, <2>1, <2>2 DEF Covered
<1>10. Apart'
  <2>1. \A k \in 1 .. n : tm_queue'[k].slot \notin tm_freelist' /\ tm_queue'[k].slot # running'.slot
    <3> SUFFICES ASSUME NEW k \in 1 .. n
                 PROVE  tm_queue'[k].slot \notin tm_freelist' /\ tm_queue'[k].slot # running'.slot
      OBVIOUS
    <3>1. k + 1 # 1
      BY <1>3
    <3> QED
      BY <1>1, <1>3, <1>4, <1>6, <3>1
  <2>2. \A j, k \in 1 .. n : tm_queue'[j].slot = tm_queue'[k].slot => j = k
    <3>1. \A j, k \in 1 .. n : j + 1 = k + 1 => j = k
      BY <1>3
    <3> QED
      BY <1>3, <1>6, <3>1
  <2>3. running'.slot \notin tm_freelist'
    BY <1>1, <1>4, <1>6
  <2> QED
    BY <1>3, <2>1, <2>2, <2>3 DEF Apart
<1>11. LoopInOrder'
  BY <1>1, <1>4, <1>5 DEF LoopInOrder
<1> QED
  BY <1>7, <1>8, <1>9, <1>10, <1>11 DEF AlarmInv

\* The entry that ran goes back to the free list.
LEMMA DoneSound == AlarmInv /\ AlarmDone => AlarmInv'
<1> SUFFICES ASSUME AlarmInv, AlarmDone
             PROVE  AlarmInv'
  OBVIOUS
<1>0. TypeOK /\ QueueInOrder /\ Covered /\ Apart /\ LoopInOrder
  BY DEF AlarmInv
<1>1. /\ running # NoEntry /\ tm_freelist' = tm_freelist \cup {running.slot} /\ running' = NoEntry
      /\ UNCHANGED <<timer, timer_stop, started, clock, tm_queue, did_something, pc, calls>>
  BY DEF AlarmDone
<1>2. running \in Entry /\ running.slot \in Slots
  BY <1>0, <1>1, EntryFields DEF TypeOK
<1>3. DOMAIN tm_queue = 1 .. Len(tm_queue) /\ \A k \in DOMAIN tm_queue : tm_queue[k] \in Entry
  BY <1>0, QueueFacts DEF TypeOK
<1>4. NoEntry.slot = 0 /\ 0 \notin Slots
  BY DEF NoEntry, Slots
<1>5. TypeOK'
  BY <1>0, <1>1, <1>2 DEF TypeOK, clock
<1>6. QueueInOrder'
  BY <1>0, <1>1 DEF QueueInOrder
<1>7. Covered'
  BY <1>0, <1>1 DEF Covered
<1>8. Apart'
  <2>1. \A k \in DOMAIN tm_queue : tm_queue[k].slot \in Slots
    BY <1>3, EntryFields
  <2>2. tm_freelist' \subseteq Slots
    BY <1>5 DEF TypeOK
  <2> QED
    BY <1>0, <1>1, <1>4, <2>1, <2>2 DEF Apart
<1>9. LoopInOrder'
  BY <1>0, <1>1 DEF LoopInOrder
<1> QED
  BY <1>5, <1>6, <1>7, <1>8, <1>9 DEF AlarmInv

\* The loop waits only when nothing is due, and with the timer running if
\* something is queued.
LEMMA EndSound == AlarmInv /\ IterationEnd => AlarmInv'
<1> SUFFICES ASSUME AlarmInv, IterationEnd
             PROVE  AlarmInv'
  OBVIOUS
<1>0. TypeOK /\ QueueInOrder /\ Covered /\ Apart /\ LoopInOrder
  BY DEF AlarmInv
<1>1. /\ pc = "alarms" /\ running = NoEntry /\ ~HeadIsDue
      /\ did_something' = FALSE /\ pc' = IF did_something THEN "cb" ELSE "wait"
      /\ UNCHANGED <<timer, clock, tm_queue, tm_freelist, running, calls>>
      /\ tm_queue # <<>> => zb_timer_start(ZB_TIME_SUBTRACT(Head(tm_queue).run_time, timer))
      /\ tm_queue = <<>> => started' = FALSE /\ timer_stop' = timer_stop
  BY DEF IterationEnd
<1>2. /\ Len(tm_queue) \in Nat /\ DOMAIN tm_queue = 1 .. Len(tm_queue)
      /\ tm_queue = <<>> <=> Len(tm_queue) = 0
      /\ \A k \in DOMAIN tm_queue : tm_queue[k].left \in Int
  BY <1>0, QueueFacts, EntryDue DEF TypeOK
<1>3. ASSUME tm_queue # <<>>
      PROVE  /\ timer_stop' \in Time /\ started' \in BOOLEAN /\ started'
             /\ \A k \in DOMAIN tm_queue : tm_queue[k].left > 0
  <2>1. 1 \in DOMAIN tm_queue /\ Head(tm_queue) = tm_queue[1]
    BY <1>0, <1>2, <1>3 DEF TypeOK
  <2>2. PICK t : t = tm_queue[1].run_time
    OBVIOUS
  <2>3. t \in Time /\ timer \in Time
    BY <1>0, <2>1, <2>2, EntryDue, EntryFields DEF TypeOK
  <2>4. ZB_TIME_SUBTRACT(t, timer) \in Time
    BY <2>3, TimeOps
  <2>5. zb_timer_start(ZB_TIME_SUBTRACT(t, timer))
    BY <1>1, <1>3, <2>1, <2>2
  <2>6. timer_stop' \in Time /\ started' \in BOOLEAN /\ started'
    BY <1>0, <2>4, <2>5, TimerStarts
  <2>7. ~ZB_TIME_GE(timer, tm_queue[1].run_time)
    BY <1>1, <1>3, <2>1 DEF HeadIsDue
  <2>8. tm_queue[1].left > 0
    BY <1>0, <1>2, <2>1, <2>7, EntryDue
  <2>9. \A k \in DOMAIN tm_queue : 1 < k => tm_queue[1].left <= tm_queue[k].left
    BY <1>0, <2>1 DEF QueueInOrder
  <2>10. \A k \in DOMAIN tm_queue : tm_queue[k].left > 0
    BY <1>2, <2>1, <2>8, <2>9
  <2> QED
    BY <2>6, <2>10
<1>4. timer_stop' \in Time /\ started' \in BOOLEAN
  BY <1>0, <1>1, <1>3 DEF TypeOK
<1>5. TypeOK'
  BY <1>0, <1>1, <1>4 DEF TypeOK, clock
<1>6. QueueInOrder' /\ Covered' /\ Apart'
  BY <1>0, <1>1 DEF QueueInOrder, Covered, Apart
<1>7. LoopInOrder'
  <2>1. tm_queue = <<>> => DOMAIN tm_queue = {}
    BY <1>2
  <2> QED
    BY <1>0, <1>1, <1>3, <2>1 DEF LoopInOrder
<1> QED
  BY <1>5, <1>6, <1>7 DEF AlarmInv

\* The microseconds of a second.
LEMMA Seconds == UsPerSec \in Nat \ {0}
<1>1. UsPerMs \in Nat \ {0} /\ MsPerSec \in Nat \ {0}
  BY AlarmAssumption
<1> QED
  BY <1>1 DEF UsPerSec

\* The clock after a wait is a clock, and what is kept of the milliseconds is
\* less than a beacon interval.
LEMMA WaitKeepsClock ==
  ASSUME TypeOK, NEW elapsed \in 0 .. MaxWait, zb_mac_wait_for_ext_event(elapsed)
  PROVE  start_t' \in Usec /\ rest_ms' \in RestMs /\ rest_us' \in 0 .. MaxRest
<1> DEFINE delta == Delta(start_t, elapsed)
<1> DEFINE diff == UsecDiff(start_t, elapsed)
<1>1. /\ start_t' = (start_t + elapsed) % UsPerSec
      /\ started => KeepRest(delta, diff) /\ rest_us' <= MaxRest
      /\ ~started => rest_ms' = rest_ms /\ rest_us' = rest_us
  BY DEF zb_mac_wait_for_ext_event
<1>2. /\ start_t \in Nat /\ rest_ms \in RestMs /\ rest_us \in 0 .. MaxRest
      /\ MaxRest \in Nat /\ elapsed \in Nat
  BY Seconds, AlarmAssumption DEF TypeOK, Usec
<1>3. (start_t + elapsed) % UsPerSec \in 0 .. UsPerSec - 1 /\ start_t + elapsed \in Nat
  BY <1>2, Seconds
<1>4. start_t' \in Usec
  BY <1>1, <1>3 DEF Usec
<1>5. diff \in Int
  BY <1>2, <1>3, Seconds DEF UsecDiff
<1>6. delta \in Nat
  <2>1. /\ TimeSize \in Nat \ {0} /\ UsPerMs \in Nat \ {0} /\ MsPerSec \in Nat \ {0}
    BY AlarmAssumption
  <2>2. PICK secs : secs = (start_t + elapsed) \div UsPerSec
    OBVIOUS
  <2>3. secs \in Int
    BY <1>3, <2>2, Seconds
  <2>4. PICK msecs : msecs = IF diff < 0 THEN -((-diff) \div UsPerMs) ELSE diff \div UsPerMs
    OBVIOUS
  <2>5. msecs \in Int
    <3> HIDE DEF diff
    <3>1. diff \div UsPerMs \in Int /\ (-diff) \div UsPerMs \in Int
      BY <1>5, <2>1
    <3> QED
      BY <2>4, <3>1
  <2>6. delta = (secs * MsPerSec + msecs) % TimeSize
    BY <2>2, <2>4 DEF Delta
  <2>7. secs * MsPerSec \in Int
    BY <2>1, <2>3
  <2>8. secs * MsPerSec + msecs \in Int
    BY <2>5, <2>7
  <2> HIDE DEF delta
  <2> QED
    BY <2>1, <2>6, <2>8
<1> HIDE DEF delta, diff
<1>7. rest_ms \in Nat
  BY <1>2, AlarmAssumption DEF RestMs
<1>8. CASE started
  <2>1. CASE ZB_MILLISECONDS_TO_BEACON_INTERVAL(delta + rest_ms) = 0
    <3>1. /\ rest_ms' = delta + rest_ms
          /\ rest_us' = rest_us + (IF diff < 0 THEN -diff ELSE diff)
          /\ rest_us' <= MaxRest
      BY <1>1, <1>8, <2>1 DEF KeepRest
    <3>2. PICK ms \in Nat : ms = delta + rest_ms
      BY <1>6, <1>7
    <3>3. BeaconTenths \in Nat \ {0}
      BY AlarmAssumption
    <3>4. (10 * ms + 3) \div BeaconTenths = 0
      BY <2>1, <3>2 DEF ZB_MILLISECONDS_TO_BEACON_INTERVAL
    <3>5. 10 * ms + 3 < BeaconTenths
      BY <3>2, <3>3, <3>4
    <3>6. ms \in RestMs
      BY <3>2, <3>3, <3>4, <3>5 DEF RestMs, ZB_MILLISECONDS_TO_BEACON_INTERVAL
    <3>7. rest_us' \in 0 .. MaxRest
      BY <1>2, <1>5, <3>1
    <3> QED
      BY <1>4, <3>1, <3>2, <3>6, <3>7
  <2>2. CASE ~(ZB_MILLISECONDS_TO_BEACON_INTERVAL(delta + rest_ms) = 0)
    <3>1. rest_ms' = 0 /\ rest_us' = 0
      BY <1>1, <1>8, <2>2 DEF KeepRest
    <3> QED
      BY <1>2, <1>4, <3>1, NothingLeft
  <2> QED
    BY <2>1, <2>2
<1>9. CASE ~started
  BY <1>1, <1>2, <1>4, <1>9
<1> QED
  BY <1>8, <1>9

\* What a wait adds to the timer is taken from every alarm alike.
LEMMA WaitSound ==
  ASSUME AlarmInv, NEW elapsed \in 0 .. MaxWait, zb_mac_wait_for_ext_event(elapsed)
  PROVE  AlarmInv'
<1>0. TypeOK /\ QueueInOrder /\ Covered /\ Apart /\ LoopInOrder
  BY DEF AlarmInv
<1>a. PICK delta \in 0 .. MaxStall : delta = Advance(start_t, elapsed, rest_ms, rest_us)
  BY <1>0, AlarmAssumption DEF TypeOK
<1>1. /\ pc = "wait" /\ pc' = "cb" /\ calls' = 0
      /\ timer' = (IF started THEN ZB_TIME_ADD(timer, delta) ELSE timer)
      /\ tm_queue' = [k \in DOMAIN tm_queue |-> [tm_queue[k] EXCEPT !.left = Elapse(@, delta)]]
      /\ UNCHANGED <<timer_stop, started, tm_freelist, running, did_something>>
  BY <1>a DEF zb_mac_wait_for_ext_event
<1>2. /\ Len(tm_queue) \in Nat /\ DOMAIN tm_queue = 1 .. Len(tm_queue)
      /\ (tm_queue = <<>> <=> Len(tm_queue) = 0) /\ timer \in Time
      /\ \A k \in 1 .. Len(tm_queue) : tm_queue[k] \in Entry /\ tm_queue[k].left \in Int
  BY <1>0, QueueFacts, EntryFields DEF TypeOK
<1> DEFINE n == Len(tm_queue)
<1>3. running = NoEntry /\ \A k \in 1 .. n : tm_queue[k].left > 0
  BY <1>0, <1>1, <1>2 DEF LoopInOrder
<1>4. \A k \in 1 .. n : tm_queue[k].left - delta \in Lefts
  BY <1>2, <1>3, EntryFields, Ranges DEF Lefts
<1>5. \A k \in 1 .. n : Elapse(tm_queue[k].left, delta) = tm_queue[k].left - delta
  BY <1>4, Ranges DEF Elapse, Lefts
<1>6. /\ DOMAIN tm_queue' = 1 .. n
      /\ \A k \in 1 .. n : /\ tm_queue'[k].left = tm_queue[k].left - delta
                           /\ tm_queue'[k].slot = tm_queue[k].slot
                           /\ tm_queue'[k].run_time = tm_queue[k].run_time
                           /\ tm_queue'[k] \in Entry
  <2>1. /\ DOMAIN tm_queue' = 1 .. n
        /\ \A k \in 1 .. n : tm_queue'[k] = [tm_queue[k] EXCEPT !.left = tm_queue[k].left - delta]
    BY <1>1, <1>2, <1>5
  <2>2. ASSUME NEW e \in Entry, NEW l \in Lefts, NEW g, g = [e EXCEPT !.left = l]
        PROVE  g \in Entry /\ g.left = l /\ g.slot = e.slot /\ g.run_time = e.run_time
    BY <2>2 DEF Entry, Lefts
  <2> QED
    BY <1>2, <1>4, <2>1, <2>2
<1>7. tm_queue' \in Seq(Entry)
  <2>1. PICK q : q = tm_queue'
    OBVIOUS
  <2>2. q \in [1 .. n -> Entry]
    BY <1>1, <1>2, <1>6, <2>1
  <2> QED
    BY <1>2, <2>1, <2>2, SeqOf
<1>8. timer' \in Time
  <2>0. timer \in Time
    BY <1>2
  <2>1. delta \in Nat
    BY Ranges
  <2>2. ZB_TIME_ADD(timer, delta) \in Time
    BY <2>0, <2>1, TimeOps
  <2>3. CASE started
    BY <1>1, <2>2, <2>3
  <2>4. CASE ~started
    BY <1>1, <2>0, <2>4, Zenon
  <2> QED
    BY <2>3, <2>4
<1>9. calls' \in 0 .. MaxCalls
  BY <1>1, AlarmAssumption
<1>10. TypeOK'
  BY <1>0, <1>1, <1>7, <1>8, <1>9, WaitKeepsClock DEF TypeOK
<1>11. QueueInOrder'
  <2>1. ASSUME NEW k \in 1 .. n
        PROVE  tm_queue'[k].run_time = (TimeSize + timer' + tm_queue'[k].left) % TimeSize
    <3>1. PICK l \in Lefts : l = tm_queue[k].left
      BY <1>2, EntryFields
    <3>2. tm_queue[k].run_time = DueAt(timer, l)
      BY <1>0, <1>2, <3>1, EntryDue
    <3>3. started
      BY <1>0, <1>1, <1>2 DEF LoopInOrder
    <3>4. DueAt(ZB_TIME_ADD(timer, delta), l - delta) = DueAt(timer, l)
      <4>1. l - delta \in Lefts
        BY <1>4, <3>1
      <4>2. timer \in Time
        BY <1>2
      <4> QED
        BY <4>1, <4>2, TimePasses
    <3>5. tm_queue'[k].run_time = DueAt(ZB_TIME_ADD(timer, delta), l - delta)
      BY <1>6, <3>2, <3>4
    <3>6. timer' = ZB_TIME_ADD(timer, delta) /\ tm_queue'[k].left = l - delta
      BY <1>1, <1>6, <3>1, <3>3
    <3>7. PICK t : t = ZB_TIME_ADD(timer, delta)
      OBVIOUS
    <3>8. tm_queue'[k].run_time = (TimeSize + t + (l - delta)) % TimeSize
      BY <3>5, <3>7 DEF DueAt
    <3> QED
      BY <3>6, <3>7, <3>8
  <2>2. \A j, k \in 1 .. n : j < k => tm_queue'[j].left <= tm_queue'[k].left
    <3>1. \A j, k \in 1 .. n : j < k => tm_queue[j].left <= tm_queue[k].left
      BY <1>0, <1>2 DEF QueueInOrder
    <3>2. delta \in Int
      BY Ranges
    <3> QED
      BY <1>2, <1>6, <3>1, <3>2
  <2> QED
    BY <1>6, <2>1, <2>2 DEF QueueInOrder
<1>12. Covered'
  <2>1. \A s \in Slots : s \in tm_freelist \/ s = running.slot \/ \E k \in 1 .. n : tm_queue[k].slot = s
    BY <1>0, <1>2 DEF Covered
  <2>2. tm_freelist' = tm_freelist /\ running' = running
    BY <1>1
  <2> QED
    BY <1>6, <2>1, <2>2 DEF Covered
<1>13. Apart'
  <2>1. /\ \A k \in 1 .. n : tm_queue[k].slot \notin tm_freelist /\ tm_queue[k].slot # running.slot
        /\ \A j, k \in 1 .. n : tm_queue[j].slot = tm_queue[k].slot => j = k
        /\ running.slot \notin tm_freelist
    BY <1>0, <1>2 DEF Apart
  <2>2. tm_freelist' = tm_freelist /\ running' = running
    BY <1>1
  <2> QED
    BY <1>6, <2>1, <2>2 DEF Apart
<1>14. LoopInOrder'
  BY <1>1, <1>3 DEF LoopInOrder
<1> QED
  BY <1>10, <1>11, <1>12, <1>13, <1>14 DEF AlarmInv

-----------------------------------------------------------------------------
(* The results.                                                             *)

\* Every step keeps the invariant.
LEMMA StepSound == AlarmInv /\ [Next]_vars => AlarmInv'
<1> SUFFICES ASSUME AlarmInv, [Next]_vars
             PROVE  AlarmInv'
  OBVIOUS
<1>1. CASE \E f \in Funcs, p \in Params, d \in 0 .. MaxDelay : zb_schedule_alarm(f, p, d)
  BY <1>1, ScheduleSound
<1>2. CASE \E f \in Funcs, p \in Params \cup {ANY_PARAM, ALL_CB} : zb_schedule_alarm_cancel(f, p)
  BY <1>2, CancelSound
<1>3. CASE CallbacksDone
  <2>1. /\ pc = "cb" /\ pc' = "alarms"
        /\ UNCHANGED <<timer, timer_stop, started, clock, tm_queue, tm_freelist, running,
                       did_something, calls>>
    BY <1>3 DEF CallbacksDone
  <2>2. TypeOK'
    BY <2>1 DEF AlarmInv, TypeOK, clock
  <2>3. QueueInOrder' /\ Covered' /\ Apart'
    BY <2>1 DEF AlarmInv, QueueInOrder, Covered, Apart
  <2>4. LoopInOrder'
    BY <2>1 DEF AlarmInv, LoopInOrder
  <2> QED
    BY <2>2, <2>3, <2>4 DEF AlarmInv
<1>4. CASE RunAlarm
  BY <1>4, RunSound
<1>5. CASE AlarmDone
  BY <1>5, DoneSound
<1>6. CASE IterationEnd
  BY <1>6, EndSound
<1>7. CASE \E elapsed \in 0 .. MaxWait : zb_mac_wait_for_ext_event(elapsed)
  BY <1>7, WaitSound
<1>8. CASE WriteInstead
  <2>1. /\ pc = "wait" /\ pc' = "cb" /\ calls' = 0
        /\ UNCHANGED <<timer, timer_stop, started, clock, tm_queue, tm_freelist, running,
                       did_something>>
    BY <1>8 DEF WriteInstead
  <2>2. calls' \in 0 .. MaxCalls
    BY <2>1, AlarmAssumption
  <2>3. TypeOK'
    BY <2>1, <2>2 DEF AlarmInv, TypeOK, clock
  <2>4. QueueInOrder' /\ Covered' /\ Apart'
    BY <2>1 DEF AlarmInv, QueueInOrder, Covered, Apart
  <2>5. LoopInOrder'
    BY <2>1 DEF AlarmInv, LoopInOrder
  <2> QED
    BY <2>3, <2>4, <2>5 DEF AlarmInv
<1>9. CASE UNCHANGED vars
  <2>1. TypeOK'
    BY <1>9 DEF AlarmInv, vars, clock, TypeOK
  <2>2. QueueInOrder' /\ Covered' /\ Apart' /\ LoopInOrder'
    BY <1>9 DEF AlarmInv, vars, QueueInOrder, Covered, Apart, LoopInOrder
  <2> QED
    BY <2>1, <2>2 DEF AlarmInv
<1> QED
  BY <1>1, <1>2, <1>3, <1>4, <1>5, <1>6, <1>7, <1>8, <1>9 DEF Next

\* The invariant of the scheduler: the run times in the queue mean what they
\* should, every entry of tm_buffer is in one place, and the loop waits only
\* when nothing is due.
THEOREM AlarmInvariant == Spec => []AlarmInv
<1>1. Init => AlarmInv
  BY StartsSound
<1>2. AlarmInv /\ [Next]_vars => AlarmInv'
  BY StepSound
<1> QED
  BY <1>1, <1>2, PTL DEF Spec

\* Every variable of the scheduler keeps its type: run times and the stop time
\* stay times of the wrapping timer.
THEOREM TypeCorrect == Spec => []TypeOK
<1>1. AlarmInv => TypeOK
  BY DEF AlarmInv
<1> QED
  BY <1>1, AlarmInvariant, PTL

\* As many entries are queued as the queue is long.
LEMMA Conserved == AlarmInv => EntriesConserved
<1> SUFFICES ASSUME AlarmInv
             PROVE  EntriesConserved
  OBVIOUS
<1> DEFINE queued == {tm_queue[k].slot : k \in DOMAIN tm_queue}
<1> DEFINE run == IF running = NoEntry THEN {} ELSE {running.slot}
<1>0. TypeOK /\ Covered /\ Apart
  BY DEF AlarmInv
<1>1. /\ Len(tm_queue) \in Nat /\ DOMAIN tm_queue = 1 .. Len(tm_queue)
      /\ \A k \in DOMAIN tm_queue : tm_queue[k].slot \in Slots
  BY <1>0, QueueFacts, EntryFields DEF TypeOK
<1>2. queued \subseteq Slots /\ tm_freelist \subseteq Slots
  BY <1>0, <1>1 DEF TypeOK
<1>3. /\ run \subseteq Slots
      /\ \A s \in Slots : s \in run <=> s = running.slot
  <2>1. CASE running = NoEntry
    <3>1. running.slot \notin Slots
      BY <2>1 DEF NoEntry, Slots
    <3> QED
      BY <2>1, <3>1
  <2>2. CASE running # NoEntry
    <3>1. running.slot \in Slots
      BY <1>0, <2>2, EntryFields DEF TypeOK
    <3> QED
      BY <2>2, <3>1
  <2> QED
    BY <2>1, <2>2
<1>4. Cardinality(queued) = Len(tm_queue)
  <2> DEFINE f == [k \in 1 .. Len(tm_queue) |-> tm_queue[k].slot]
  <2>1. f \in Surjection(1 .. Len(tm_queue), queued)
    BY <1>1 DEF Surjection
  <2>2. f \in Injection(1 .. Len(tm_queue), queued)
    BY <1>0, <1>1 DEF Injection, IsInjective, Apart
  <2>3. PICK g : g = f
    OBVIOUS
  <2>4. PICK T : T = queued
    OBVIOUS
  <2>5. PICK n \in Nat : n = Len(tm_queue)
    BY <1>1
  <2>6. g \in Surjection(1 .. n, T) /\ g \in Injection(1 .. n, T)
    BY <2>1, <2>2, <2>3, <2>4, <2>5
  <2>7. IsFiniteSet(1 .. n) /\ Cardinality(1 .. n) = n
    <3>1. 1 \in Int /\ n \in Int /\ (IF 1 > n THEN 0 ELSE n - 1 + 1) = n
      BY <2>5
    <3> QED
      BY <3>1, FS_Interval
  <2>8. Cardinality(T) = Cardinality(1 .. n)
    BY <2>6, <2>7, FS_Surjection
  <2> QED
    BY <2>4, <2>5, <2>7, <2>8
<1>5. tm_freelist \cup queued \cup run = Slots
  <2>1. \A s \in Slots : s \in tm_freelist \/ s \in run \/ s \in queued
    BY <1>0, <1>3 DEF Covered
  <2> HIDE DEF queued, run
  <2> QED
    BY <1>2, <1>3, <2>1
<1>6. tm_freelist \cap queued = {} /\ tm_freelist \cap run = {} /\ queued \cap run = {}
  <2>1. \A s \in queued : s \notin tm_freelist /\ s # running.slot
    BY <1>0 DEF Apart
  <2>2. running.slot \notin tm_freelist
    BY <1>0 DEF Apart
  <2> HIDE DEF queued, run
  <2> QED
    BY <1>2, <1>3, <2>1, <2>2
<1> QED
  BY <1>4, <1>5, <1>6 DEF EntriesConserved

\* The list of alarms is sound: the run times of the queue say how much of each
\* delay is left, in order across every wrap of the timer, and no entry of
\* tm_buffer is lost or in two places, whatever callbacks schedule and cancel.
THEOREM QueueStaysSound == Spec => []QueueSound
<1>1. AlarmInv => QueueSound
  BY Conserved DEF AlarmInv, QueueSound
<1> QED
  BY <1>1, AlarmInvariant, PTL

\* The loop runs no alarm before the waits have counted its delay on the stack
\* timer, whatever remainders they keep or count twice, and does not go to sleep
\* while an alarm is due on that timer.
THEOREM RunsAreDue == Spec => []RunsWhenDue
<1>1. AlarmInv => RunsWhenDue
  BY DEF AlarmInv, LoopInOrder, RunsWhenDue
<1> QED
  BY <1>1, AlarmInvariant, PTL
=============================================================================
