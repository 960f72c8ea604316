-------------------------- MODULE RateLimiterProofs --------------------------
(***************************************************************************)
(* Proofs about RateLimiter, for any number of threads, any limit and any  *)
(* interval.                                                               *)
(***************************************************************************)
EXTENDS RateLimiter, FiniteSetTheorems, SequenceTheorems, TLAPS

(***************************************************************************)
(* The inductive invariant.                                                *)
(***************************************************************************)

\* Time goes on: what a thread has read is not in the future.
ClockInv == \A p \in Threads : now[p] <= clock /\ calledAt[p] <= clock

Dequeued == Len(enqueued) - Len(intervalQueue)

\* The queue is what is left of the time stamps, and what is missing has expired.
QueueInv ==
    /\ Dequeued >= 0
    /\ \A i \in 1 .. Len(intervalQueue) : intervalQueue[i] = enqueued[Dequeued + i]
    /\ \A i \in 1 .. Dequeued : clock - enqueued[i] > Interval

\* The threads that have seen room and may still allow a trace in the interval up to t.
Coming(t) ==
    {p \in Threads : \/ pc[p] = "stamp" /\ clock <= t
                     \/ pc[p] = "enqueue" /\ now[p] \in (t - Interval) .. t}

\* A thread sees room only when the interval has fewer traces than the limit; at that
\* moment the others that come cannot be more than all threads.
OvershootInv ==
    maxTracesPerInterval > 0 =>
        \A t \in Times :
            Cardinality(AllowedUpTo(t)) + Cardinality(Coming(t))
                <= maxTracesPerInterval + Cardinality(Threads) - 1

RefreshPc == ShiftPc \cup {"now", "expire", "release"}

\* The flag is set exactly while one thread refreshes the window.
RefreshInv ==
    /\ \A p, q \in Threads : pc[p] \in RefreshPc /\ pc[q] \in RefreshPc => p = q
    /\ refreshing <=> \E p \in Threads : pc[p] \in RefreshPc

\* A call that no other one overlaps is the only one.
ActiveInv ==
    \A p \in Threads :
        pc[p] # "idle" =>
            /\ maxTracesPerInterval > 0
            /\ p \notin overlapped => \A q \in Threads \ {p} : pc[q] = "idle"

\* Such a call refreshes the window itself, at a time not before it began, and leaves a
\* queue whose head has not expired.
Alone(p) ==
    /\ pc[p] \in ShiftPc \cup {"expire", "release", "check", "count"} => calledAt[p] <= now[p]
    /\ pc[p] \in {"release", "check", "count"}
         => intervalQueue = <<>> \/ now[p] - Head(intervalQueue) <= Interval
    /\ pc[p] \in {"stamp", "enqueue", "increment"} => verdict[p]
    /\ pc[p] = "totalChecks" /\ ~verdict[p]
         => \E i \in DOMAIN enqueued : calledAt[p] - enqueued[i] <= Interval

AloneInv == \A p \in Threads : p \notin overlapped => Alone(p)

\* The threads that were counted by Check and may still be counted as allowed.
Checked == {p \in Threads : pc[p] \in {"count", "stamp", "enqueue", "increment"}}

\* Until a shift meets another call, checks are counted before what they allow, and a
\* shift moves the two counts together.
CountsInv ==
    /\ \A p, q \in Threads : pc[p] \in ShiftPc /\ q # p => pc[q] = "idle"
    /\ windowAllowed + Cardinality(Checked) <= windowChecks
    /\ \A p \in Threads : pc[p] = "previousChecks" => previousWindowAllowed = windowAllowed
    /\ \A p \in Threads : pc[p] = "resetChecks" => windowAllowed = 0
    /\ (\A p \in Threads : pc[p] # "previousChecks")
         => previousWindowAllowed <= previousWindowChecks

\* A call that no other one overlaps reports what the counts are.
Reports(p) ==
    /\ pc[p] = "setMetric" => total[p] = windowChecks + previousWindowChecks
    /\ pc[p] = "idle" => rate[p][1] <= rate[p][2]

RateInv == ~torn => CountsInv /\ \A p \in Threads : p \notin overlapped => Reports(p)

USE RateLimiterAssumption

-----------------------------------------------------------------------------
\* A step of a thread leaves it at a known place, and does not move the others.
LEMMA GoToType ==
    ASSUME TypeOK, NEW p \in Threads, NEW l \in Pcs, GoTo(p, l)
    PROVE  /\ pc' \in [Threads -> Pcs]
           /\ torn' \in BOOLEAN
           /\ pc'[p] = l
           /\ \A q \in Threads \ {p} : pc'[q] = pc[q]
<1>1. pc' = [pc EXCEPT ![p] = l] /\ pc \in [Threads -> Pcs]
  BY DEF GoTo, TypeOK
<1>2. torn' \in BOOLEAN
  BY Zenon DEF GoTo, TypeOK
<1> QED
  BY <1>1, <1>2

\* Every step of Allowed, of WaitForRefresh and of GetEffectiveRate keeps the types; in
\* particular a time stamp is never later than the clock, and no count becomes negative.
THEOREM TypeCorrect == Spec => []TypeOK
<1>1. Init => TypeOK
  <2> SUFFICES ASSUME Init PROVE TypeOK
    OBVIOUS
  <2>1. rate \in [Threads -> Nat \X Nat]
    BY DEF Init
  <2>2. 0 \in Times /\ "idle" \in Pcs
    BY DEF Times, Pcs
  <2>3. pc \in [Threads -> Pcs] /\ now \in [Threads -> Times] /\ calledAt \in [Threads -> Times]
    BY <2>2 DEF Init
  <2>4. intervalQueue \in Seq(Times) /\ enqueued \in Seq(Times)
    BY DEF Init
  <2>5. calls \in [Threads -> 0 .. MaxCalls] /\ total \in [Threads -> Nat]
    BY DEF Init
  <2>6. refreshing \in BOOLEAN /\ verdict \in [Threads -> BOOLEAN] /\ torn \in BOOLEAN
    BY DEF Init
  <2> QED
    BY <2>1, <2>2, <2>3, <2>4, <2>5, <2>6 DEF Init, TypeOK
<1>2. TypeOK /\ [Next]_vars => TypeOK'
  <2> SUFFICES ASSUME TypeOK, [Next]_vars PROVE TypeOK'
    OBVIOUS
  <2> USE DEF windowVars, countVars, localVars, pastVars, historyVars
  <2>1. CASE Tick
    BY <2>1 DEF Tick, Times, TypeOK
  <2>2. ASSUME NEW p \in Threads, Allowed(p) PROVE TypeOK'
    <3>1. PICK l \in Pcs : GoTo(p, l)
      BY <2>2 DEF Allowed, Pcs, ShiftPc
    <3>2. pc' \in [Threads -> Pcs] /\ torn' \in BOOLEAN
      BY <3>1, GoToType
    <3>3. overlapped' \subseteq Threads
      BY <2>2 DEF Allowed, TypeOK
    <3>4. calls' \in [Threads -> 0 .. MaxCalls] /\ calledAt' \in [Threads -> Times]
      BY <2>2 DEF Allowed, TypeOK
    <3>5. verdict' \in [Threads -> BOOLEAN]
      BY <2>2 DEF Allowed, TypeOK
    <3>6. rate' \in [Threads -> Nat \X Nat]
      BY <2>2 DEF Allowed, TypeOK
    <3> QED
      BY <2>2, <3>2, <3>3, <3>4, <3>5, <3>6 DEF Allowed, TypeOK
  <2>3. ASSUME NEW p \in Threads, CompareExchange(p) PROVE TypeOK'
    <3>1. PICK l \in Pcs : GoTo(p, l)
      BY <2>3 DEF CompareExchange, Pcs, ShiftPc
    <3>2. pc' \in [Threads -> Pcs] /\ torn' \in BOOLEAN
      BY <3>1, GoToType
    <3> QED
      BY <2>3, <3>2 DEF CompareExchange, TypeOK
  <2>4. ASSUME NEW p \in Threads, ReadNow(p) PROVE TypeOK'
    <3>1. PICK l \in Pcs : GoTo(p, l)
      BY <2>4 DEF ReadNow, Pcs, ShiftPc
    <3>2. pc' \in [Threads -> Pcs] /\ torn' \in BOOLEAN
      BY <3>1, GoToType
    <3> QED
      BY <2>4, <3>2 DEF ReadNow, TypeOK
  <2>5. ASSUME NEW p \in Threads, ShiftCounts(p) PROVE TypeOK'
    <3>1. PICK l \in Pcs : GoTo(p, l)
      BY <2>5 DEF ShiftCounts, Pcs, ShiftPc
    <3>2. pc' \in [Threads -> Pcs] /\ torn' \in BOOLEAN
      BY <3>1, GoToType
    <3>3. /\ windowChecks' \in {windowChecks, 0} /\ windowAllowed' \in {windowAllowed, 0}
          /\ previousWindowChecks' \in {previousWindowChecks, windowChecks}
          /\ previousWindowAllowed' \in {previousWindowAllowed, windowAllowed}
          /\ windowBegin' \in {windowBegin, now[p]}
      BY <2>5, Zenon DEF ShiftCounts
    <3>4. /\ windowChecks' \in Nat /\ windowAllowed' \in Nat
          /\ previousWindowChecks' \in Nat /\ previousWindowAllowed' \in Nat
          /\ windowBegin' \in Times
      BY <3>3 DEF TypeOK
    <3>5. UNCHANGED <<clock, intervalQueue, refreshing, localVars, pastVars>>
      BY <2>5 DEF ShiftCounts
    <3> QED
      BY <3>2, <3>4, <3>5 DEF TypeOK
  <2>6. ASSUME NEW p \in Threads, Expire(p) PROVE TypeOK'
    <3>1. PICK l \in Pcs : GoTo(p, l)
      BY <2>6 DEF Expire, Pcs, ShiftPc
    <3>2. pc' \in [Threads -> Pcs] /\ torn' \in BOOLEAN
      BY <3>1, GoToType
    <3> QED
      BY <2>6, <3>2 DEF Expire, TypeOK
  <2>7. ASSUME NEW p \in Threads, Release(p) PROVE TypeOK'
    <3>1. PICK l \in Pcs : GoTo(p, l)
      BY <2>7 DEF Release, Pcs, ShiftPc
    <3>2. pc' \in [Threads -> Pcs] /\ torn' \in BOOLEAN
      BY <3>1, GoToType
    <3> QED
      BY <2>7, <3>2 DEF Release, TypeOK
  <2>8. ASSUME NEW p \in Threads, Check(p) PROVE TypeOK'
    <3>1. PICK l \in Pcs : GoTo(p, l)
      BY <2>8 DEF Check, Pcs, ShiftPc
    <3>2. pc' \in [Threads -> Pcs] /\ torn' \in BOOLEAN
      BY <3>1, GoToType
    <3> QED
      BY <2>8, <3>2 DEF Check, TypeOK
  <2>9. ASSUME NEW p \in Threads, Count(p) PROVE TypeOK'
    <3>1. PICK l \in Pcs : GoTo(p, l)
      BY <2>9 DEF Count, Pcs, ShiftPc
    <3>2. pc' \in [Threads -> Pcs] /\ torn' \in BOOLEAN
      BY <3>1, GoToType
    <3>3. verdict' \in [Threads -> BOOLEAN]
      BY <2>9 DEF Count, TypeOK
    <3> QED
      BY <2>9, <3>2, <3>3 DEF Count, TypeOK
  <2>10. ASSUME NEW p \in Threads, Stamp(p) PROVE TypeOK'
    <3>1. PICK l \in Pcs : GoTo(p, l)
      BY <2>10 DEF Stamp, Pcs, ShiftPc
    <3>2. pc' \in [Threads -> Pcs] /\ torn' \in BOOLEAN
      BY <3>1, GoToType
    <3> QED
      BY <2>10, <3>2 DEF Stamp, TypeOK
  <2>11. ASSUME NEW p \in Threads, Enqueue(p) PROVE TypeOK'
    <3>1. PICK l \in Pcs : GoTo(p, l)
      BY <2>11 DEF Enqueue, Pcs, ShiftPc
    <3>2. pc' \in [Threads -> Pcs] /\ torn' \in BOOLEAN
      BY <3>1, GoToType
    <3> QED
      BY <2>11, <3>2 DEF Enqueue, TypeOK
  <2>12. ASSUME NEW p \in Threads, IncrementAllowed(p) PROVE TypeOK'
    <3>1. PICK l \in Pcs : GoTo(p, l)
      BY <2>12 DEF IncrementAllowed, Pcs, ShiftPc
    <3>2. pc' \in [Threads -> Pcs] /\ torn' \in BOOLEAN
      BY <3>1, GoToType
    <3> QED
      BY <2>12, <3>2 DEF IncrementAllowed, TypeOK
  <2>13. ASSUME NEW p \in Threads, TotalChecks(p) PROVE TypeOK'
    <3>1. PICK l \in Pcs : GoTo(p, l)
      BY <2>13 DEF TotalChecks, Pcs, ShiftPc
    <3>2. pc' \in [Threads -> Pcs] /\ torn' \in BOOLEAN
      BY <3>1, GoToType
    <3>3. total' \in [Threads -> Nat]
      BY <2>13 DEF TotalChecks, TypeOK
    <3> QED
      BY <2>13, <3>2, <3>3 DEF TotalChecks, TypeOK
  <2>14. ASSUME NEW p \in Threads, SetMetric(p) PROVE TypeOK'
    <3>1. PICK l \in Pcs : GoTo(p, l)
      BY <2>14 DEF SetMetric, Pcs, ShiftPc
    <3>2. pc' \in [Threads -> Pcs] /\ torn' \in BOOLEAN
      BY <3>1, GoToType
    <3>3. rate' \in [Threads -> Nat \X Nat]
      BY <2>14 DEF SetMetric, TypeOK
    <3>4. now' \in [Threads -> Times] /\ total' \in [Threads -> Nat]
      BY <2>14 DEF SetMetric, TypeOK, Times
    <3> QED
      BY <2>14, <3>2, <3>3, <3>4 DEF SetMetric, TypeOK
  <2>15. CASE UNCHANGED vars
    BY <2>15 DEF vars, TypeOK
  <2> QED
    BY <2>1, <2>2, <2>3, <2>4, <2>5, <2>6, <2>7, <2>8, <2>9, <2>10, <2>11, <2>12, <2>13,
       <2>14, <2>15 DEF Next, Step
<1> QED
  BY <1>1, <1>2, PTL DEF Spec

-----------------------------------------------------------------------------
\* The steps that neither read the clock nor touch the queue.
Quiet(p) ==
    \/ CompareExchange(p) \/ ShiftCounts(p) \/ Release(p) \/ Check(p) \/ Count(p)
    \/ IncrementAllowed(p) \/ TotalChecks(p)

\* Such a step leaves the clock, the queue and all time stamps alone.
LEMMA QuietSteps ==
    ASSUME NEW p \in Threads, Quiet(p)
    PROVE  UNCHANGED <<clock, intervalQueue, now, calledAt, enqueued>>
BY DEF Quiet, CompareExchange, ShiftCounts, Release, Check, Count, IncrementAllowed,
       TotalChecks, windowVars, countVars, localVars, pastVars

\* Times are numbers.
LEMMA TimesAreNumbers ==
    ASSUME TypeOK
    PROVE  /\ clock \in Int
           /\ now \in [Threads -> Int] /\ calledAt \in [Threads -> Int]
           /\ intervalQueue \in Seq(Int) /\ enqueued \in Seq(Int)
<1>1. Times \subseteq Int
  BY DEF Times
<1>2. /\ clock \in Times
      /\ now \in [Threads -> Times] /\ calledAt \in [Threads -> Times]
      /\ intervalQueue \in Seq(Times) /\ enqueued \in Seq(Times)
  BY DEF TypeOK
<1>3. Seq(Times) \subseteq Seq(Int)
  BY <1>1, SeqMonotonic
<1> QED
  BY <1>1, <1>2, <1>3

\* No step of Allowed reads a time that has not come yet.
LEMMA ClockInvNext ==
    ASSUME TypeOK, ClockInv, [Next]_vars
    PROVE  ClockInv'
<1> USE DEF ClockInv, TypeOK, Times, windowVars, countVars, localVars, pastVars, historyVars
<1>1. CASE Tick
  BY <1>1 DEF Tick
<1>2. ASSUME NEW p \in Threads, Allowed(p) PROVE ClockInv'
  BY <1>2 DEF Allowed
<1>3. ASSUME NEW p \in Threads, ReadNow(p) PROVE ClockInv'
  BY <1>3 DEF ReadNow
<1>4. ASSUME NEW p \in Threads, Stamp(p) PROVE ClockInv'
  BY <1>4 DEF Stamp
<1>5. ASSUME NEW p \in Threads, SetMetric(p) PROVE ClockInv'
  BY <1>5 DEF SetMetric
<1>6. ASSUME NEW p \in Threads, Quiet(p) PROVE ClockInv'
  BY <1>6, QuietSteps
<1>7. ASSUME NEW p \in Threads, Expire(p) \/ Enqueue(p) PROVE ClockInv'
  BY <1>7 DEF Expire, Enqueue
<1>8. CASE UNCHANGED vars
  BY <1>8 DEF vars
<1> QED
  BY <1>1, <1>2, <1>3, <1>4, <1>5, <1>6, <1>7, <1>8 DEF Next, Step, Quiet

\* WaitForRefresh takes from the head of the queue only what has expired, and Allowed
\* adds at its end: the queue stays the part of the time stamps that is still of use.
LEMMA QueueInvNext ==
    ASSUME TypeOK, ClockInv, QueueInv, [Next]_vars
    PROVE  QueueInv'
<1> USE DEF QueueInv, Dequeued, windowVars, countVars, localVars, pastVars, historyVars
<1>0. /\ clock \in Int /\ now \in [Threads -> Int]
      /\ intervalQueue \in Seq(Int) /\ enqueued \in Seq(Int)
  BY TimesAreNumbers
<1>1. CASE Tick
  BY <1>0, <1>1 DEF Tick
<1>2. ASSUME NEW p \in Threads, Quiet(p) PROVE QueueInv'
  BY <1>2, QuietSteps
<1>3. ASSUME NEW p \in Threads, Allowed(p) \/ ReadNow(p) \/ Stamp(p) \/ SetMetric(p)
      PROVE  QueueInv'
  <2>1. UNCHANGED <<clock, intervalQueue, enqueued>>
    <3> USE DEF windowVars, countVars, localVars, pastVars
    <3>1. CASE Allowed(p)
      BY <3>1 DEF Allowed
    <3>2. CASE ReadNow(p)
      BY <3>2 DEF ReadNow
    <3>3. CASE Stamp(p)
      BY <3>3 DEF Stamp
    <3>4. CASE SetMetric(p)
      BY <3>4 DEF SetMetric
    <3> QED
      BY <1>3, <3>1, <3>2, <3>3, <3>4
  <2> QED
    BY <2>1
<1>4. ASSUME NEW p \in Threads, Expire(p) PROVE QueueInv'
  <2>1. UNCHANGED <<clock, enqueued>>
    BY <1>4 DEF Expire
  <2>2. CASE intervalQueue # <<>> /\ Expired(Head(intervalQueue), now[p])
    <3> DEFINE d == Len(enqueued) - Len(intervalQueue)
    <3>1. intervalQueue' = Tail(intervalQueue)
      BY <1>4, <2>2 DEF Expire
    <3>2. /\ Len(intervalQueue) \in Nat /\ Len(intervalQueue) > 0 /\ Len(enqueued) \in Nat
          /\ Head(intervalQueue) = intervalQueue[1]
          /\ Len(intervalQueue') = Len(intervalQueue) - 1
          /\ \A i \in 1 .. Len(intervalQueue') : intervalQueue'[i] = intervalQueue[i + 1]
      BY <1>0, <2>2, <3>1
    <3>3. clock - enqueued[d + 1] > Interval
      <4>1. enqueued[d + 1] = Head(intervalQueue) /\ enqueued[d + 1] \in Int
        BY <1>0, <3>2
      <4> QED
        BY <1>0, <2>2, <4>1 DEF Expired, ClockInv
    <3>4. Dequeued' = d + 1
      BY <2>1, <3>2
    <3> QED
      BY <2>1, <3>2, <3>3, <3>4
  <2>3. CASE ~(intervalQueue # <<>> /\ Expired(Head(intervalQueue), now[p]))
    BY <1>4, <2>1, <2>3 DEF Expire
  <2> QED
    BY <2>2, <2>3
<1>5. ASSUME NEW p \in Threads, Enqueue(p) PROVE QueueInv'
  <2>1. /\ intervalQueue' = Append(intervalQueue, now[p])
        /\ enqueued' = Append(enqueued, now[p])
        /\ clock' = clock
    BY <1>5 DEF Enqueue
  <2>2. /\ Len(intervalQueue') = Len(intervalQueue) + 1
        /\ Len(enqueued') = Len(enqueued) + 1
        /\ Len(intervalQueue) \in Nat /\ Len(enqueued) \in Nat
        /\ \A i \in 1 .. Len(intervalQueue) : intervalQueue'[i] = intervalQueue[i]
        /\ \A i \in 1 .. Len(enqueued) : enqueued'[i] = enqueued[i]
        /\ intervalQueue'[Len(intervalQueue) + 1] = now[p]
        /\ enqueued'[Len(enqueued) + 1] = now[p]
    BY <1>0, <2>1
  <2>3. Dequeued' = Dequeued /\ Dequeued >= 0 /\ Dequeued \in Int
    BY <2>2
  <2>4. ASSUME NEW i \in 1 .. Len(intervalQueue') PROVE intervalQueue'[i] = enqueued'[Dequeued' + i]
    <3>1. CASE i = Len(intervalQueue) + 1
      BY <2>2, <2>3, <3>1
    <3>2. CASE i \in 1 .. Len(intervalQueue)
      <4>1. Dequeued + i \in 1 .. Len(enqueued)
        BY <2>2, <3>2
      <4> QED
        BY <2>2, <2>3, <3>2, <4>1
    <3> QED
      BY <2>2, <3>1, <3>2
  <2>5. ASSUME NEW i \in 1 .. Dequeued' PROVE clock' - enqueued'[i] > Interval
    BY <2>1, <2>2, <2>3
  <2> QED
    BY <2>3, <2>4, <2>5
<1>6. CASE UNCHANGED vars
  BY <1>6 DEF vars
<1> QED
  BY <1>1, <1>2, <1>3, <1>4, <1>5, <1>6 DEF Next, Step, Quiet

-----------------------------------------------------------------------------
\* The traces of an interval and the threads that come are finite in number.
LEMMA CountsAreNumbers ==
    ASSUME TypeOK, NEW t \in Times
    PROVE  /\ IsFiniteSet(AllowedUpTo(t)) /\ Cardinality(AllowedUpTo(t)) \in Nat
           /\ IsFiniteSet(Coming(t)) /\ Cardinality(Coming(t)) \in Nat
           /\ Cardinality(Coming(t)) <= Cardinality(Threads)
           /\ Cardinality(Threads) \in Nat /\ Cardinality(Threads) > 0
<1>1. enqueued \in Seq(Int)
  BY TimesAreNumbers
<1>2. Len(enqueued) \in Nat /\ AllowedUpTo(t) \subseteq 1 .. Len(enqueued)
  BY <1>1 DEF AllowedUpTo
<1>3. IsFiniteSet(1 .. Len(enqueued))
  BY <1>2, FS_Interval
<1>4. IsFiniteSet(AllowedUpTo(t))
  BY <1>2, <1>3, FS_Subset
<1>5. Coming(t) \subseteq Threads
  BY DEF Coming
<1>6. IsFiniteSet(Coming(t)) /\ Cardinality(Coming(t)) <= Cardinality(Threads)
  BY <1>5, FS_Subset
<1>7. Cardinality(Threads) > 0
  BY FS_CardinalityType, FS_EmptySet
<1> QED
  BY <1>4, <1>6, <1>7, FS_CardinalityType

\* Whoever reads Count counts all traces of the interval that is not over: none of
\* them has left the queue.
LEMMA RecentInQueue ==
    ASSUME TypeOK, QueueInv, NEW t \in Times, clock <= t
    PROVE  Cardinality(AllowedUpTo(t)) <= Len(intervalQueue)
<1>1. /\ clock \in Int /\ t \in Int
      /\ intervalQueue \in Seq(Int) /\ enqueued \in Seq(Int)
  BY TimesAreNumbers DEF Times
<1> DEFINE last == (Dequeued + 1) .. Len(enqueued)
<1>2. /\ Len(enqueued) \in Nat /\ Len(intervalQueue) \in Nat /\ Dequeued \in Nat
      /\ DOMAIN enqueued = 1 .. Len(enqueued)
  BY <1>1 DEF QueueInv, Dequeued
<1>3. ASSUME NEW i \in AllowedUpTo(t) PROVE i \in last
  <2>1. i \in 1 .. Len(enqueued) /\ enqueued[i] \in Int /\ enqueued[i] >= t - Interval
    BY <1>1, <1>2 DEF AllowedUpTo
  <2>2. ~(i \in 1 .. Dequeued)
    BY <1>1, <2>1 DEF QueueInv
  <2> QED
    BY <1>2, <2>1, <2>2
<1>4. IsFiniteSet(last) /\ Cardinality(last) <= Len(intervalQueue)
  <2>1. Dequeued + 1 \in Int /\ Len(enqueued) \in Int
    BY <1>2
  <2>2. /\ IsFiniteSet(last)
        /\ Cardinality(last) = IF Dequeued + 1 > Len(enqueued) THEN 0
                               ELSE Len(enqueued) - (Dequeued + 1) + 1
    BY <2>1, FS_Interval
  <2> QED
    BY <1>2, <2>2 DEF Dequeued
<1>5. Cardinality(AllowedUpTo(t)) <= Cardinality(last)
  BY <1>3, <1>4, FS_Subset
<1>6. Cardinality(AllowedUpTo(t)) \in Nat /\ Cardinality(last) \in Nat
  BY <1>4, CountsAreNumbers, FS_CardinalityType
<1> QED
  BY <1>2, <1>4, <1>5, <1>6

\* A step that allows no trace and lets no thread see room keeps the bound.
LEMMA NobodyComes ==
    ASSUME TypeOK, OvershootInv, maxTracesPerInterval > 0, NEW t \in Times,
           UNCHANGED enqueued, Coming(t)' \subseteq Coming(t)
    PROVE  Cardinality(AllowedUpTo(t)') + Cardinality(Coming(t)')
               <= maxTracesPerInterval + Cardinality(Threads) - 1
<1>1. AllowedUpTo(t)' = AllowedUpTo(t)
  BY DEF AllowedUpTo
<1>2. Cardinality(Coming(t)') <= Cardinality(Coming(t)) /\ Cardinality(Coming(t)') \in Nat
  BY CountsAreNumbers, FS_Subset, FS_CardinalityType
<1>3. Cardinality(AllowedUpTo(t)) + Cardinality(Coming(t))
        <= maxTracesPerInterval + Cardinality(Threads) - 1
  BY DEF OvershootInv
<1> QED
  BY <1>1, <1>2, <1>3, CountsAreNumbers

\* Between Count and Enqueue other threads come, but never more than all of them.
LEMMA OvershootInvNext ==
    ASSUME TypeOK, QueueInv, OvershootInv, [Next]_vars
    PROVE  OvershootInv'
<1> SUFFICES ASSUME maxTracesPerInterval > 0, NEW t \in Times
             PROVE  Cardinality(AllowedUpTo(t)') + Cardinality(Coming(t)')
                        <= maxTracesPerInterval + Cardinality(Threads) - 1
  BY DEF OvershootInv
<1> DEFINE Goal == Cardinality(AllowedUpTo(t)') + Cardinality(Coming(t)')
                     <= maxTracesPerInterval + Cardinality(Threads) - 1
<1>0. /\ clock \in Int /\ t \in Int /\ now \in [Threads -> Int] /\ enqueued \in Seq(Int)
      /\ pc \in [Threads -> Pcs]
  BY TimesAreNumbers DEF Times, TypeOK
<1> USE DEF windowVars, countVars, localVars, pastVars, historyVars
<1>1. CASE Tick
  <2>1. UNCHANGED enqueued /\ Coming(t)' \subseteq Coming(t)
    BY <1>0, <1>1 DEF Tick, Coming
  <2> QED
    BY <2>1, NobodyComes
<1>2. ASSUME NEW p \in Threads, Count(p) PROVE Goal
  <2>1. UNCHANGED <<clock, now, enqueued>>
    BY <1>2, QuietSteps DEF Quiet
  <2>2. CASE clock <= t /\ Len(intervalQueue) < maxTracesPerInterval
    <3>1. Cardinality(AllowedUpTo(t)) <= Len(intervalQueue)
      BY <2>2, RecentInQueue
    <3>2. Cardinality(Coming(t)') <= Cardinality(Threads) /\ Cardinality(Coming(t)') \in Nat
      <4>1. Coming(t)' \subseteq Threads
        BY DEF Coming
      <4> QED
        BY <4>1, FS_Subset, FS_CardinalityType
    <3>3. AllowedUpTo(t)' = AllowedUpTo(t)
      BY <2>1 DEF AllowedUpTo
    <3>4. Len(intervalQueue) \in Nat
      BY TimesAreNumbers
    <3> QED
      BY <2>2, <3>1, <3>2, <3>3, <3>4, CountsAreNumbers
  <2>3. CASE ~(clock <= t /\ Len(intervalQueue) < maxTracesPerInterval)
    <3>1. Coming(t)' \subseteq Coming(t)
      BY <1>0, <1>2, <2>1, <2>3 DEF Count, GoTo, Coming
    <3> QED
      BY <2>1, <3>1, NobodyComes
  <2> QED
    BY <2>2, <2>3
<1>3. ASSUME NEW p \in Threads, Stamp(p) PROVE Goal
  <2>1. UNCHANGED enqueued /\ Coming(t)' \subseteq Coming(t)
    BY <1>0, <1>3 DEF Stamp, GoTo, Coming
  <2> QED
    BY <2>1, NobodyComes
<1>4. ASSUME NEW p \in Threads, Enqueue(p) PROVE Goal
  <2>1. /\ pc[p] = "enqueue" /\ pc' = [pc EXCEPT ![p] = "increment"]
        /\ UNCHANGED <<clock, now>> /\ enqueued' = Append(enqueued, now[p])
    BY <1>4 DEF Enqueue, GoTo
  <2> DEFINE n == Len(enqueued) + 1
  <2>2. /\ DOMAIN enqueued' = 1 .. n /\ n \in Nat /\ DOMAIN enqueued = 1 .. (n - 1)
        /\ enqueued'[n] = now[p] /\ \A i \in 1 .. (n - 1) : enqueued'[i] = enqueued[i]
    BY <1>0, <2>1
  <2>3. CASE now[p] \in (t - Interval) .. t
    <3>1. p \in Coming(t) /\ Coming(t)' = Coming(t) \ {p}
      BY <1>0, <2>1, <2>3 DEF Coming
    <3>2. n \notin AllowedUpTo(t) /\ AllowedUpTo(t)' = AllowedUpTo(t) \cup {n}
      BY <2>2, <2>3 DEF AllowedUpTo
    <3>3. Cardinality(Coming(t)') = Cardinality(Coming(t)) - 1
      BY <3>1, CountsAreNumbers, FS_RemoveElement
    <3>4. Cardinality(AllowedUpTo(t)') = Cardinality(AllowedUpTo(t)) + 1
      BY <3>2, CountsAreNumbers, FS_AddElement
    <3>5. Cardinality(AllowedUpTo(t)) + Cardinality(Coming(t))
            <= maxTracesPerInterval + Cardinality(Threads) - 1
      BY DEF OvershootInv
    <3> QED
      BY <3>3, <3>4, <3>5, CountsAreNumbers
  <2>4. CASE now[p] \notin (t - Interval) .. t
    <3>1. Coming(t)' = Coming(t)
      BY <1>0, <2>1, <2>4 DEF Coming
    <3>2. AllowedUpTo(t)' = AllowedUpTo(t)
      BY <2>2, <2>4 DEF AllowedUpTo
    <3> QED
      BY <3>1, <3>2 DEF OvershootInv
  <2> QED
    BY <2>3, <2>4
<1>5. ASSUME NEW p \in Threads, NEW l \in Pcs \ {"stamp", "enqueue"}, GoTo(p, l),
             UNCHANGED <<clock, enqueued>>, \A q \in Threads \ {p} : now'[q] = now[q]
      PROVE  Goal
  <2>1. pc' = [pc EXCEPT ![p] = l]
    BY <1>5 DEF GoTo
  <2>2. Coming(t)' \subseteq Coming(t)
    BY <1>0, <1>5, <2>1 DEF Coming
  <2> QED
    BY <1>5, <2>2, NobodyComes
<1>6. CASE UNCHANGED vars
  <2>1. UNCHANGED enqueued /\ Coming(t)' \subseteq Coming(t)
    BY <1>6 DEF vars, Coming
  <2> QED
    BY <2>1, NobodyComes
<1>7. ASSUME NEW p \in Threads, Step(p), ~Count(p), ~Stamp(p), ~Enqueue(p)
      PROVE  Goal
  <2> USE DEF Pcs, ShiftPc
  <2>1. CASE Allowed(p)
    BY <1>0, <1>5, <2>1 DEF Allowed
  <2>2. CASE CompareExchange(p)
    BY <1>0, <1>5, <2>2 DEF CompareExchange
  <2>3. CASE ReadNow(p)
    BY <1>0, <1>5, <2>3 DEF ReadNow
  <2>4. CASE ShiftCounts(p)
    BY <1>0, <1>5, <2>4 DEF ShiftCounts
  <2>5. CASE Expire(p)
    BY <1>0, <1>5, <2>5 DEF Expire
  <2>6. CASE Release(p)
    BY <1>0, <1>5, <2>6 DEF Release
  <2>7. CASE Check(p)
    BY <1>0, <1>5, <2>7 DEF Check
  <2>8. CASE IncrementAllowed(p)
    BY <1>0, <1>5, <2>8 DEF IncrementAllowed
  <2>9. CASE TotalChecks(p)
    BY <1>0, <1>5, <2>9 DEF TotalChecks
  <2>10. CASE SetMetric(p)
    BY <1>0, <1>5, <2>10 DEF SetMetric
  <2> QED
    BY <1>7, <2>1, <2>2, <2>3, <2>4, <2>5, <2>6, <2>7, <2>8, <2>9, <2>10 DEF Step
<1> QED
  BY <1>1, <1>2, <1>3, <1>4, <1>6, <1>7 DEF Next

\* Threads that call Allowed together pass the limit together, and never by more than
\* one trace for each thread but one, in any interval.
THEOREM OvershootIsBounded == Spec => []OvershootBounded
<1> DEFINE Inv == ClockInv /\ QueueInv /\ OvershootInv
<1>1. Init => Inv
  <2> SUFFICES ASSUME Init PROVE Inv
    OBVIOUS
  <2>1. Len(enqueued) = 0 /\ Len(intervalQueue) = 0 /\ DOMAIN enqueued = {}
    BY DEF Init
  <2>2. ClockInv /\ QueueInv
    BY <2>1 DEF Init, ClockInv, QueueInv, Dequeued
  <2>3. ASSUME NEW t \in Times PROVE AllowedUpTo(t) = {} /\ Coming(t) = {}
    BY <2>1 DEF Init, AllowedUpTo, Coming
  <2>4. Cardinality(Threads) \in Nat /\ Cardinality(Threads) > 0
    BY FS_CardinalityType, FS_EmptySet
  <2> QED
    BY <2>2, <2>3, <2>4, FS_EmptySet DEF OvershootInv
<1>2. TypeOK /\ Inv /\ [Next]_vars => Inv'
  BY ClockInvNext, QueueInvNext, OvershootInvNext
<1>3. TypeOK /\ Inv => OvershootBounded
  <2> SUFFICES ASSUME TypeOK, Inv, maxTracesPerInterval > 0, NEW t \in Times
               PROVE  Cardinality(AllowedUpTo(t))
                          <= maxTracesPerInterval + Cardinality(Threads) - 1
    BY DEF OvershootBounded
  <2> QED
    BY CountsAreNumbers DEF OvershootInv
<1> QED
  BY <1>1, <1>2, <1>3, TypeCorrect, PTL DEF Spec

-----------------------------------------------------------------------------
\* Once begun, a call moves its own thread only, and keeps the time when it began.
LEMMA CallSteps ==
    ASSUME TypeOK, NEW p \in Threads, Step(p), ~Allowed(p)
    PROVE  /\ pc[p] # "idle"
           /\ UNCHANGED <<clock, overlapped, calledAt>>
           /\ \E l \in Pcs : GoTo(p, l)
<1> USE DEF Pcs, ShiftPc, windowVars, countVars, localVars, pastVars
<1>1. CASE CompareExchange(p)
  BY <1>1 DEF CompareExchange
<1>2. CASE ReadNow(p)
  BY <1>2 DEF ReadNow
<1>3. CASE ShiftCounts(p)
  BY <1>3 DEF ShiftCounts
<1>4. CASE Expire(p)
  BY <1>4 DEF Expire
<1>5. CASE Release(p)
  BY <1>5 DEF Release
<1>6. CASE Check(p)
  BY <1>6 DEF Check
<1>7. CASE Count(p)
  BY <1>7 DEF Count
<1>8. CASE Stamp(p)
  BY <1>8 DEF Stamp
<1>9. CASE Enqueue(p)
  BY <1>9 DEF Enqueue
<1>10. CASE IncrementAllowed(p)
  BY <1>10 DEF IncrementAllowed
<1>11. CASE TotalChecks(p)
  BY <1>11 DEF TotalChecks
<1>12. CASE SetMetric(p)
  BY <1>12 DEF SetMetric
<1> QED
  BY <1>1, <1>2, <1>3, <1>4, <1>5, <1>6, <1>7, <1>8, <1>9, <1>10, <1>11, <1>12 DEF Step

\* The interlocked compare-exchange lets one thread in, and its finally clause opens
\* the way again.
LEMMA RefreshInvNext ==
    ASSUME TypeOK, RefreshInv, [Next]_vars
    PROVE  RefreshInv'
<1>0. pc \in [Threads -> Pcs]
  BY DEF TypeOK
<1> USE DEF windowVars, countVars, localVars, pastVars, historyVars
<1>1. ASSUME UNCHANGED <<refreshing, pc>> PROVE RefreshInv'
  BY <1>1 DEF RefreshInv
<1>2. ASSUME NEW p \in Threads, NEW l \in Pcs, GoTo(p, l), UNCHANGED refreshing,
             l \in RefreshPc <=> pc[p] \in RefreshPc
      PROVE  RefreshInv'
  <2>1. \A q \in Threads : pc'[q] \in RefreshPc <=> pc[q] \in RefreshPc
    BY <1>2, GoToType
  <2> QED
    BY <1>2, <2>1 DEF RefreshInv
<1>3. ASSUME NEW p \in Threads, CompareExchange(p) PROVE RefreshInv'
  <2> DEFINE l == IF refreshing THEN "check" ELSE "now"
  <2>1. pc[p] = "compareExchange" /\ refreshing' = TRUE /\ GoTo(p, l) /\ l \in Pcs
    BY <1>3 DEF CompareExchange, Pcs
  <2>2. pc'[p] = l /\ \A q \in Threads \ {p} : pc'[q] = pc[q]
    BY <2>1, GoToType
  <2>3. CASE refreshing
    <3>1. \A q \in Threads : pc'[q] \in RefreshPc <=> pc[q] \in RefreshPc
      BY <2>1, <2>2, <2>3 DEF RefreshPc, ShiftPc
    <3> QED
      BY <2>1, <2>3, <3>1 DEF RefreshInv
  <2>4. CASE ~refreshing
    <3>1. pc'[p] \in RefreshPc /\ \A q \in Threads \ {p} : pc'[q] \notin RefreshPc
      BY <2>2, <2>4 DEF RefreshPc, RefreshInv
    <3> QED
      BY <2>1, <3>1 DEF RefreshInv
  <2> QED
    BY <2>3, <2>4
<1>4. ASSUME NEW p \in Threads, Release(p) PROVE RefreshInv'
  <2>1. pc[p] = "release" /\ refreshing' = FALSE /\ GoTo(p, "check") /\ "check" \in Pcs
    BY <1>4 DEF Release, Pcs
  <2>2. pc'[p] = "check" /\ \A q \in Threads \ {p} : pc'[q] = pc[q]
    BY <2>1, GoToType
  <2>3. \A q \in Threads : pc'[q] \notin RefreshPc
    BY <2>1, <2>2 DEF RefreshPc, ShiftPc, RefreshInv
  <2> QED
    BY <2>1, <2>3 DEF RefreshInv
<1>5. ASSUME NEW p \in Threads, Step(p), ~CompareExchange(p), ~Release(p) PROVE RefreshInv'
  <2> USE <1>2 DEF Pcs, RefreshPc, ShiftPc
  <2>1. CASE Allowed(p)
    BY <2>1 DEF Allowed
  <2>2. CASE ReadNow(p)
    BY <2>2 DEF ReadNow
  <2>3. CASE ShiftCounts(p)
    BY <2>3 DEF ShiftCounts
  <2>4. CASE Expire(p)
    BY <2>4 DEF Expire
  <2>5. CASE Check(p)
    BY <2>5 DEF Check
  <2>6. CASE Count(p)
    BY <2>6 DEF Count
  <2>7. CASE Stamp(p)
    BY <2>7 DEF Stamp
  <2>8. CASE Enqueue(p)
    BY <2>8 DEF Enqueue
  <2>9. CASE IncrementAllowed(p)
    BY <2>9 DEF IncrementAllowed
  <2>10. CASE TotalChecks(p)
    BY <2>10 DEF TotalChecks
  <2>11. CASE SetMetric(p)
    BY <2>11 DEF SetMetric
  <2> QED
    BY <1>5, <2>1, <2>2, <2>3, <2>4, <2>5, <2>6, <2>7, <2>8, <2>9, <2>10, <2>11 DEF Step
<1>6. CASE Tick
  BY <1>1, <1>6 DEF Tick
<1>7. CASE UNCHANGED vars
  BY <1>1, <1>7 DEF vars
<1> QED
  BY <1>3, <1>4, <1>5, <1>6, <1>7 DEF Next

\* A call that begins while another is in progress marks both of them.
LEMMA ActiveInvNext ==
    ASSUME TypeOK, ActiveInv, [Next]_vars
    PROVE  ActiveInv'
<1> USE DEF windowVars, countVars, localVars, pastVars, historyVars
<1>1. ASSUME UNCHANGED <<overlapped, pc>> PROVE ActiveInv'
  BY <1>1 DEF ActiveInv
<1>2. ASSUME NEW p \in Threads, Allowed(p) PROVE ActiveInv'
  <2> DEFINE l == IF maxTracesPerInterval > 0 THEN "compareExchange" ELSE "idle"
             others == {q \in Threads \ {p} : pc[q] # "idle"}
  <2>1. /\ pc[p] = "idle" /\ GoTo(p, l) /\ l \in Pcs
        /\ overlapped' = IF others = {} THEN overlapped \ {p}
                         ELSE overlapped \cup others \cup {p}
    BY <1>2 DEF Allowed, Pcs
  <2>2. pc'[p] = l /\ \A q \in Threads \ {p} : pc'[q] = pc[q]
    BY <2>1, GoToType
  <2>3. ASSUME NEW q \in Threads, pc'[q] # "idle" PROVE maxTracesPerInterval > 0
    BY <2>2, <2>3 DEF ActiveInv
  <2>4. ASSUME NEW q \in Threads, pc'[q] # "idle", q \notin overlapped',
               NEW r \in Threads \ {q}
        PROVE  pc'[r] = "idle"
    BY <2>1, <2>2, <2>4 DEF ActiveInv
  <2> QED
    BY <2>3, <2>4 DEF ActiveInv
<1>3. ASSUME NEW p \in Threads, Step(p), ~Allowed(p) PROVE ActiveInv'
  <2>1. PICK l \in Pcs : GoTo(p, l)
    BY <1>3, CallSteps
  <2>2. pc'[p] = l /\ \A q \in Threads \ {p} : pc'[q] = pc[q]
    BY <2>1, GoToType
  <2>3. pc[p] # "idle" /\ UNCHANGED overlapped
    BY <1>3, CallSteps
  <2> QED
    BY <2>2, <2>3 DEF ActiveInv
<1>4. CASE Tick
  BY <1>1, <1>4 DEF Tick
<1>5. CASE UNCHANGED vars
  BY <1>1, <1>5 DEF vars
<1> QED
  BY <1>2, <1>3, <1>4, <1>5 DEF Next

\* While a call that no other one overlaps is in progress, no other thread makes a step
\* (or the call is overlapped from then on).
LEMMA OthersRest ==
    ASSUME TypeOK, ActiveInv, NEW p \in Threads, NEW q \in Threads, p # q, Step(p),
           q \notin overlapped'
    PROVE  pc[q] = "idle" /\ pc'[q] = "idle"
<1>1. PICK l \in Pcs : GoTo(p, l)
  <2>1. CASE Allowed(p)
    BY <2>1 DEF Allowed, Pcs
  <2>2. CASE ~Allowed(p)
    BY <2>2, CallSteps
  <2> QED
    BY <2>1, <2>2
<1>2. pc'[q] = pc[q]
  BY <1>1, GoToType
<1>3. CASE Allowed(p)
  BY <1>2, <1>3 DEF Allowed
<1>4. CASE ~Allowed(p)
  <2>1. pc[p] # "idle" /\ q \notin overlapped
    BY <1>4, CallSteps
  <2> QED
    BY <1>2, <2>1 DEF ActiveInv
<1> QED
  BY <1>3, <1>4

\* A call that no other one overlaps finds the flag down, removes what has expired, and
\* finds the limit reached only by traces of the interval before it.
LEMMA AloneInvNext ==
    ASSUME TypeOK, ClockInv, QueueInv, RefreshInv, ActiveInv, AloneInv, [Next]_vars
    PROVE  AloneInv'
<1>0. /\ clock \in Int /\ now \in [Threads -> Int] /\ calledAt \in [Threads -> Int]
      /\ intervalQueue \in Seq(Int) /\ enqueued \in Seq(Int)
  BY TimesAreNumbers
<1>1. pc \in [Threads -> Pcs] /\ verdict \in [Threads -> BOOLEAN]
  BY DEF TypeOK
<1> USE DEF windowVars, countVars, localVars, pastVars, historyVars
<1>2. ASSUME UNCHANGED <<overlapped, pc, calledAt, now, intervalQueue, enqueued, verdict>>
      PROVE  AloneInv'
  BY <1>2 DEF AloneInv, Alone
<1>3. CASE Tick
  BY <1>2, <1>3 DEF Tick
<1>4. CASE UNCHANGED vars
  BY <1>2, <1>4 DEF vars
<1>5. ASSUME NEW p \in Threads, Step(p) PROVE AloneInv'
  <2>1. ASSUME NEW q \in Threads, pc'[q] = "idle" PROVE Alone(q)'
    BY <2>1 DEF Alone, ShiftPc
  <2>2. ASSUME p \notin overlapped' PROVE Alone(p)'
    <3>1. CASE Allowed(p)
      BY <1>0, <1>1, <3>1 DEF Allowed, GoTo, Alone, ShiftPc
    <3>2. CASE ~Allowed(p)
      <4>1. /\ p \notin overlapped /\ Alone(p) /\ pc[p] # "idle"
            /\ UNCHANGED <<clock, calledAt>> /\ calledAt[p] <= clock
        BY <1>5, <2>2, <3>2, CallSteps DEF AloneInv, ClockInv
      <4>2. CASE CompareExchange(p)
        <5>1. ~refreshing
          <6>1. \A q \in Threads \ {p} : pc[q] = "idle"
            BY <4>1 DEF ActiveInv
          <6>2. \A q \in Threads : pc[q] \notin RefreshPc
            BY <4>2, <6>1 DEF CompareExchange, RefreshPc, ShiftPc
          <6> QED
            BY <6>2 DEF RefreshInv
        <5>2. pc'[p] = "now"
          BY <1>1, <4>2, <5>1 DEF CompareExchange, GoTo
        <5> QED
          BY <5>2 DEF Alone, ShiftPc
      <4>3. CASE ReadNow(p)
        BY <1>0, <1>1, <4>1, <4>3 DEF ReadNow, GoTo, Alone, ShiftPc
      <4>4. CASE ShiftCounts(p)
        BY <1>0, <1>1, <4>1, <4>4 DEF ShiftCounts, GoTo, Alone, ShiftPc
      <4>5. CASE Expire(p)
        <5>1. /\ pc[p] = "expire" /\ UNCHANGED <<now, enqueued, verdict>>
              /\ pc'[p] \in {"expire", "release"}
          BY <1>1, <4>5 DEF Expire, GoTo
        <5>2. pc'[p] = "release" =>
                /\ intervalQueue' = intervalQueue
                /\ ~(intervalQueue # <<>> /\ Expired(Head(intervalQueue), now[p]))
          BY <1>1, <4>5 DEF Expire, GoTo
        <5>3. intervalQueue # <<>> => Head(intervalQueue) \in Int
          BY <1>0
        <5>4. pc'[p] = "release" => intervalQueue' = <<>> \/ now'[p] - Head(intervalQueue') <= Interval
          BY <1>0, <5>1, <5>2, <5>3 DEF Expired
        <5> QED
          BY <4>1, <5>1, <5>4 DEF Alone
      <4>6. CASE Release(p)
        BY <1>1, <4>1, <4>6 DEF Release, GoTo, Alone
      <4>7. CASE Check(p)
        BY <1>1, <4>1, <4>7 DEF Check, GoTo, Alone
      <4>8. CASE Count(p)
        <5>1. /\ pc[p] = "count" /\ UNCHANGED <<now, enqueued, intervalQueue>>
              /\ pc'[p] \in {"stamp", "totalChecks"}
              /\ pc'[p] = "totalChecks" => ~(Len(intervalQueue) < maxTracesPerInterval)
              /\ pc'[p] = "stamp" => verdict'[p]
          BY <1>1, <4>8 DEF Count, GoTo
        <5>2. ASSUME pc'[p] = "totalChecks"
              PROVE  \E i \in DOMAIN enqueued : calledAt[p] - enqueued[i] <= Interval
          <6>1. /\ Len(intervalQueue) > 0 /\ intervalQueue # <<>>
                /\ Head(intervalQueue) = intervalQueue[1] /\ Len(intervalQueue) \in Nat
            BY <1>0, <4>1, <5>1, <5>2 DEF ActiveInv
          <6>2. Head(intervalQueue) = enqueued[Dequeued + 1]
            BY <6>1 DEF QueueInv
          <6>3. Dequeued + 1 \in DOMAIN enqueued
            BY <1>0, <6>1 DEF QueueInv, Dequeued
          <6>4. enqueued[Dequeued + 1] \in Int
            BY <1>0, <6>3
          <6>5. calledAt[p] <= now[p] /\ now[p] - Head(intervalQueue) <= Interval
            BY <4>1, <5>1, <6>1 DEF Alone
          <6>6. calledAt[p] - enqueued[Dequeued + 1] <= Interval
            BY <1>0, <6>2, <6>4, <6>5
          <6> QED
            BY <6>3, <6>6
        <5> QED
          BY <4>1, <5>1, <5>2 DEF Alone, ShiftPc
      <4>9. CASE Stamp(p)
        BY <1>1, <4>1, <4>9 DEF Stamp, GoTo, Alone, ShiftPc
      <4>10. CASE Enqueue(p)
        BY <1>1, <4>1, <4>10 DEF Enqueue, GoTo, Alone, ShiftPc
      <4>11. CASE IncrementAllowed(p)
        <5>1. pc'[p] = "totalChecks" /\ pc[p] = "increment" /\ UNCHANGED <<verdict, enqueued>>
          BY <1>1, <4>11 DEF IncrementAllowed, GoTo
        <5> QED
          BY <4>1, <5>1 DEF Alone, ShiftPc
      <4>12. CASE TotalChecks(p)
        BY <1>1, <4>12 DEF TotalChecks, GoTo, Alone, ShiftPc
      <4>13. CASE SetMetric(p)
        BY <1>1, <4>13 DEF SetMetric, GoTo, Alone, ShiftPc
      <4> QED
        BY <1>5, <3>2, <4>2, <4>3, <4>4, <4>5, <4>6, <4>7, <4>8, <4>9, <4>10, <4>11, <4>12,
           <4>13 DEF Step
    <3> QED
      BY <3>1, <3>2
  <2>3. ASSUME NEW q \in Threads, q \notin overlapped' PROVE Alone(q)'
    <3>1. CASE q = p
      BY <2>2, <2>3, <3>1
    <3>2. CASE q # p
      BY <1>5, <2>1, <2>3, <3>2, OthersRest
    <3> QED
      BY <3>1, <3>2
  <2> QED
    BY <2>3 DEF AloneInv
<1> QED
  BY <1>3, <1>4, <1>5 DEF Next

\* Allowed refuses a call that overlaps no other only if a trace was allowed within the
\* interval before it.
THEOREM RefusalsAreRecent == Spec => []RefusalRecent
<1> DEFINE Inv == ClockInv /\ QueueInv /\ RefreshInv /\ ActiveInv /\ AloneInv
<1>1. Init => Inv
  <2> SUFFICES ASSUME Init PROVE Inv
    OBVIOUS
  <2>1. \A p \in Threads : pc[p] = "idle" /\ now[p] = 0 /\ calledAt[p] = 0
    BY DEF Init
  <2>2. ClockInv /\ ActiveInv /\ AloneInv
    BY <2>1 DEF Init, ClockInv, ActiveInv, AloneInv, Alone, ShiftPc
  <2>3. RefreshInv
    BY <2>1 DEF Init, RefreshInv, RefreshPc, ShiftPc
  <2>4. QueueInv
    BY DEF Init, QueueInv, Dequeued
  <2> QED
    BY <2>2, <2>3, <2>4
<1>2. TypeOK /\ Inv /\ [Next]_vars => Inv'
  BY ClockInvNext, QueueInvNext, RefreshInvNext, ActiveInvNext, AloneInvNext
<1>3. Inv => RefusalRecent
  BY DEF AloneInv, Alone, RefusalRecent
<1> QED
  BY <1>1, <1>2, <1>3, TypeCorrect, PTL DEF Spec

-----------------------------------------------------------------------------
\* The threads between Check and the last count are finite in number.
LEMMA CheckedIsFinite == IsFiniteSet(Checked) /\ Cardinality(Checked) \in Nat
<1>1. Checked \subseteq Threads
  BY DEF Checked
<1> QED
  BY <1>1, FS_Subset, FS_CardinalityType

\* The four assignments of a shift, and the counts of the threads, keep the allowed
\* traces below the checks, unless a shift meets another call.
LEMMA CountsInvStep ==
    ASSUME TypeOK, ActiveInv, CountsInv, NEW p \in Threads, Step(p), ~torn'
    PROVE  CountsInv'
<1>0. /\ windowChecks \in Nat /\ windowAllowed \in Nat
      /\ previousWindowChecks \in Nat /\ previousWindowAllowed \in Nat
      /\ pc \in [Threads -> Pcs]
  BY DEF TypeOK
<1>1. PICK l \in Pcs : GoTo(p, l)
  <2>1. CASE Allowed(p)
    BY <2>1 DEF Allowed, Pcs
  <2>2. CASE ~Allowed(p)
    BY <2>2, CallSteps
  <2> QED
    BY <2>1, <2>2
<1>2. pc'[p] = l /\ \A q \in Threads \ {p} : pc'[q] = pc[q]
  BY <1>1, GoToType
<1>3. \A q, r \in Threads : pc'[q] \in ShiftPc /\ r # q => pc'[r] = "idle"
  BY <1>1 DEF GoTo
<1> DEFINE P == {"count", "stamp", "enqueue", "increment"}
<1>4. /\ l \in P => Checked' = Checked \cup {p}
      /\ l \notin P => Checked' = Checked \ {p}
  BY <1>2 DEF Checked
<1>5. IsFiniteSet(Checked) /\ Cardinality(Checked) \in Nat
  BY CheckedIsFinite
<1>6. /\ l \in P /\ pc[p] \in P => Cardinality(Checked') = Cardinality(Checked)
      /\ l \in P /\ pc[p] \notin P => Cardinality(Checked') = Cardinality(Checked) + 1
      /\ l \notin P /\ pc[p] \in P => Cardinality(Checked') = Cardinality(Checked) - 1
      /\ l \notin P /\ pc[p] \notin P => Cardinality(Checked') = Cardinality(Checked)
  <2>1. p \in Checked <=> pc[p] \in P
    BY DEF Checked
  <2>2. /\ Cardinality(Checked \cup {p})
             = IF p \in Checked THEN Cardinality(Checked) ELSE Cardinality(Checked) + 1
        /\ Cardinality(Checked \ {p})
             = IF p \in Checked THEN Cardinality(Checked) - 1 ELSE Cardinality(Checked)
    BY <1>5, FS_AddElement, FS_RemoveElement
  <2> QED
    BY <1>4, <2>1, <2>2
<1> HIDE DEF P
<1> USE DEF windowVars, countVars, localVars, pastVars
<1>7. ASSUME NEW q \in Threads, q # p PROVE pc'[q] \notin ShiftPc
  <2>1. CASE Allowed(p)
    <3>1. pc'[q] \in ShiftPc => maxTracesPerInterval > 0
      BY <1>2, <1>7 DEF ActiveInv, ShiftPc
    <3>2. maxTracesPerInterval > 0 => pc'[p] # "idle"
      BY <1>0, <2>1 DEF Allowed, GoTo
    <3> QED
      BY <1>3, <1>7, <3>1, <3>2
  <2>2. CASE ~Allowed(p)
    <3>1. pc[p] # "idle"
      BY <2>2, CallSteps
    <3> QED
      BY <1>2, <1>7, <3>1 DEF CountsInv
  <2> QED
    BY <2>1, <2>2
<1>8. ASSUME pc[p] \notin ShiftPc, l \notin ShiftPc,
             UNCHANGED <<previousWindowChecks, previousWindowAllowed>>,
             windowAllowed' + Cardinality(Checked') <= windowChecks'
      PROVE  CountsInv'
  <2>1. \A q \in Threads : pc'[q] \notin ShiftPc /\ pc[q] \notin ShiftPc
    BY <1>2, <1>7, <1>8
  <2> QED
    BY <1>3, <1>8, <2>1 DEF CountsInv, ShiftPc
<1>9. windowAllowed + Cardinality(Checked) <= windowChecks
  BY DEF CountsInv
<1>10. CASE ShiftCounts(p)
  <2>1. ASSUME NEW q \in Threads \ {p} PROVE pc[q] = "idle" /\ pc'[q] = "idle"
    BY <1>2, <1>10 DEF CountsInv, ShiftCounts, ShiftPc
  <2>2. pc[p] \notin P /\ l \notin P
    BY <1>0, <1>1, <1>2, <1>10 DEF ShiftCounts, GoTo, P
  <2>3. Cardinality(Checked') = 0 /\ Cardinality(Checked) = 0
    <3>1. Checked = {} /\ Checked' = {}
      BY <1>2, <2>1, <2>2 DEF Checked, P
    <3> QED
      BY <3>1, FS_EmptySet
  <2>4. CASE pc[p] = "previousAllowed"
    <3>1. /\ pc'[p] = "previousChecks" /\ previousWindowAllowed' = windowAllowed
          /\ UNCHANGED <<windowChecks, windowAllowed, previousWindowChecks>>
      BY <1>0, <1>10, <2>4 DEF ShiftCounts, GoTo
    <3> QED
      BY <1>0, <1>3, <1>9, <2>1, <2>3, <3>1 DEF CountsInv
  <2>5. CASE pc[p] = "previousChecks"
    <3>1. /\ pc'[p] = "resetAllowed" /\ previousWindowChecks' = windowChecks
          /\ UNCHANGED <<windowChecks, windowAllowed, previousWindowAllowed>>
      BY <1>0, <1>10, <2>5 DEF ShiftCounts, GoTo
    <3>2. previousWindowAllowed = windowAllowed
      BY <2>5 DEF CountsInv
    <3> QED
      BY <1>0, <1>3, <1>9, <2>1, <2>3, <3>1, <3>2 DEF CountsInv
  <2>6. CASE pc[p] = "resetAllowed"
    <3>1. /\ pc'[p] = "resetChecks" /\ windowAllowed' = 0
          /\ UNCHANGED <<windowChecks, previousWindowChecks, previousWindowAllowed>>
      BY <1>0, <1>10, <2>6 DEF ShiftCounts, GoTo
    <3>2. previousWindowAllowed <= previousWindowChecks
      BY <2>1, <2>6 DEF CountsInv
    <3> QED
      BY <1>0, <1>3, <2>1, <2>3, <3>1, <3>2 DEF CountsInv
  <2>7. CASE pc[p] = "resetChecks"
    <3>1. /\ pc'[p] = "expire" /\ windowChecks' = 0
          /\ UNCHANGED <<windowAllowed, previousWindowChecks, previousWindowAllowed>>
      BY <1>0, <1>10, <2>7 DEF ShiftCounts, GoTo
    <3>2. previousWindowAllowed <= previousWindowChecks /\ windowAllowed = 0
      BY <2>1, <2>7 DEF CountsInv
    <3> QED
      BY <1>0, <1>3, <2>1, <2>3, <3>1, <3>2 DEF CountsInv
  <2> QED
    BY <1>10, <2>4, <2>5, <2>6, <2>7 DEF ShiftCounts
<1>11. CASE ReadNow(p)
  <2>1. /\ pc[p] = "now" /\ l \in {"previousAllowed", "expire"}
        /\ UNCHANGED <<windowChecks, windowAllowed, previousWindowChecks, previousWindowAllowed>>
    BY <1>0, <1>2, <1>11 DEF ReadNow, GoTo
  <2>2. Cardinality(Checked') = Cardinality(Checked)
    BY <1>6, <2>1 DEF P
  <2>3. \A q \in Threads : pc[q] # "previousChecks" /\ pc'[q] \notin {"previousChecks", "resetChecks"}
    BY <1>2, <1>7, <2>1 DEF ShiftPc
  <2> QED
    BY <1>3, <1>9, <2>1, <2>2, <2>3 DEF CountsInv
<1>12. CASE Allowed(p) \/ CompareExchange(p) \/ Expire(p) \/ Release(p) \/ TotalChecks(p) \/ SetMetric(p)
  <2>1. UNCHANGED <<windowChecks, windowAllowed, previousWindowChecks, previousWindowAllowed>>
    BY <1>12 DEF Allowed, CompareExchange, Expire, Release, TotalChecks, SetMetric
  <2>2. pc[p] \notin ShiftPc /\ l \notin ShiftPc /\ pc[p] \notin P /\ l \notin P
    BY <1>0, <1>2, <1>12
       DEF Allowed, CompareExchange, Expire, Release, TotalChecks, SetMetric, GoTo, P, ShiftPc
  <2> QED
    BY <1>6, <1>8, <1>9, <2>1, <2>2
<1>13. CASE Count(p) \/ Stamp(p) \/ Enqueue(p)
  <2>1. UNCHANGED <<windowChecks, windowAllowed, previousWindowChecks, previousWindowAllowed>>
    BY <1>13 DEF Count, Stamp, Enqueue
  <2>2. pc[p] \notin ShiftPc /\ l \notin ShiftPc /\ pc[p] \in P
    BY <1>0, <1>2, <1>13 DEF Count, Stamp, Enqueue, GoTo, P, ShiftPc
  <2> QED
    BY <1>0, <1>5, <1>6, <1>8, <1>9, <2>1, <2>2
<1>14. CASE Check(p)
  <2>1. /\ UNCHANGED <<windowAllowed, previousWindowChecks, previousWindowAllowed>>
        /\ windowChecks' = windowChecks + 1
        /\ pc[p] \notin ShiftPc /\ l \notin ShiftPc /\ pc[p] \notin P /\ l \in P
    BY <1>0, <1>2, <1>14 DEF Check, GoTo, P, ShiftPc
  <2> QED
    BY <1>0, <1>5, <1>6, <1>8, <1>9, <2>1
<1>15. CASE IncrementAllowed(p)
  <2>1. /\ UNCHANGED <<windowChecks, previousWindowChecks, previousWindowAllowed>>
        /\ windowAllowed' = windowAllowed + 1
        /\ pc[p] \notin ShiftPc /\ l \notin ShiftPc /\ pc[p] \in P /\ l \notin P
    BY <1>0, <1>2, <1>15 DEF IncrementAllowed, GoTo, P, ShiftPc
  <2> QED
    BY <1>0, <1>5, <1>6, <1>8, <1>9, <2>1
<1> QED
  BY <1>10, <1>11, <1>12, <1>13, <1>14, <1>15 DEF Step

\* The rate that GetEffectiveRate computes is at most one when nobody interferes.
LEMMA RateInvNext ==
    ASSUME TypeOK, ActiveInv, RateInv, [Next]_vars
    PROVE  RateInv'
<1> SUFFICES ASSUME ~torn'
             PROVE  CountsInv' /\ \A q \in Threads : q \notin overlapped' => Reports(q)'
  BY DEF RateInv
<1> USE DEF windowVars, countVars, localVars, pastVars, historyVars
<1>1. ASSUME UNCHANGED <<overlapped, pc, countVars, total, rate, torn>> PROVE RateInv'
  BY <1>1 DEF RateInv, CountsInv, Checked, Reports
<1>2. CASE Tick
  BY <1>1, <1>2 DEF Tick, RateInv
<1>3. CASE UNCHANGED vars
  BY <1>1, <1>3 DEF vars, RateInv
<1>4. ASSUME NEW p \in Threads, Step(p)
      PROVE  CountsInv' /\ \A q \in Threads : q \notin overlapped' => Reports(q)'
  <2>0. /\ windowChecks \in Nat /\ windowAllowed \in Nat
        /\ previousWindowChecks \in Nat /\ previousWindowAllowed \in Nat
        /\ pc \in [Threads -> Pcs] /\ total \in [Threads -> Nat]
        /\ rate \in [Threads -> Nat \X Nat]
    BY DEF TypeOK
  <2>1. PICK l \in Pcs : GoTo(p, l)
    <3>1. CASE Allowed(p)
      BY <3>1 DEF Allowed, Pcs
    <3>2. CASE ~Allowed(p)
      BY <1>4, <3>2, CallSteps
    <3> QED
      BY <3>1, <3>2
  <2>2. pc'[p] = l /\ \A q \in Threads \ {p} : pc'[q] = pc[q]
    BY <2>1, GoToType
  <2>3. ~torn
    BY <2>1, Zenon DEF GoTo
  <2>4. CountsInv /\ \A q \in Threads : q \notin overlapped => Reports(q)
    BY <2>3 DEF RateInv
  <2>5. CountsInv'
    BY <1>4, <2>4, CountsInvStep
  <2>6. ASSUME NEW q \in Threads, q # p, q \notin overlapped' PROVE Reports(q)'
    <3>1. pc[q] = "idle" /\ pc'[q] = "idle"
      BY <1>4, <2>6, OthersRest
    <3>2. q \notin overlapped
      <4>1. CASE Allowed(p)
        BY <2>6, <4>1 DEF Allowed
      <4>2. CASE ~Allowed(p)
        BY <1>4, <2>6, <4>2, CallSteps
      <4> QED
        BY <4>1, <4>2
    <3>3. rate'[q] = rate[q]
      <4> USE <2>0, <2>6
      <4>1. CASE Allowed(p)
        BY <4>1 DEF Allowed
      <4>2. CASE SetMetric(p)
        BY <4>2 DEF SetMetric
      <4>3. CASE Quiet(p)
        BY <4>3 DEF Quiet, CompareExchange, ShiftCounts, Release, Check, Count,
                    IncrementAllowed, TotalChecks
      <4>4. CASE ReadNow(p) \/ Expire(p) \/ Stamp(p) \/ Enqueue(p)
        BY <4>4 DEF ReadNow, Expire, Stamp, Enqueue
      <4> QED
        BY <1>4, <4>1, <4>2, <4>3, <4>4 DEF Step, Quiet
    <3> QED
      BY <2>4, <3>1, <3>2, <3>3 DEF Reports
  <2>7. ASSUME p \notin overlapped' PROVE Reports(p)'
    <3>1. CASE Allowed(p)
      <4>1. rate'[p] \in {<<0, 1>>, <<1, 1>>} /\ l \in {"compareExchange", "idle"}
        BY <2>0, <2>2, <3>1 DEF Allowed, GoTo
      <4> QED
        BY <2>2, <4>1 DEF Reports
    <3>2. CASE TotalChecks(p)
      BY <2>0, <2>2, <3>2 DEF TotalChecks, GoTo, Reports
    <3>3. CASE SetMetric(p)
      <4>1. /\ pc[p] = "setMetric" /\ l = "idle" /\ UNCHANGED overlapped
            /\ rate'[p] = IF total[p] = 0 THEN <<1, 1>>
                          ELSE <<windowAllowed + previousWindowAllowed, total[p]>>
        BY <2>0, <2>2, <3>3 DEF SetMetric, GoTo
      <4>2. total[p] = windowChecks + previousWindowChecks
        BY <2>4, <2>7, <4>1 DEF Reports
      <4>3. \A q \in Threads : pc[q] # "previousChecks"
        BY <2>7, <4>1 DEF ActiveInv
      <4>4. previousWindowAllowed <= previousWindowChecks /\ windowAllowed <= windowChecks
        BY <2>0, <2>4, <4>3, CheckedIsFinite DEF CountsInv
      <4> QED
        BY <2>0, <2>2, <4>1, <4>2, <4>4 DEF Reports
    <3>4. CASE ~Allowed(p) /\ ~TotalChecks(p) /\ ~SetMetric(p)
      <4>1. l \notin {"idle", "setMetric"}
        BY <1>4, <2>0, <2>2, <3>4
           DEF Step, CompareExchange, ReadNow, ShiftCounts, Expire, Release, Check, Count, Stamp,
               Enqueue, IncrementAllowed, GoTo
      <4> QED
        BY <2>2, <4>1 DEF Reports
    <3> QED
      BY <3>1, <3>2, <3>3, <3>4
  <2> QED
    BY <2>5, <2>6, <2>7
<1> QED
  BY <1>2, <1>3, <1>4 DEF Next, RateInv

\* The effective rate that Allowed reports is at most one, unless another call overlaps
\* it or a shift of the counts has met another call.
THEOREM RateIsAtMostOne == Spec => []RateAtMostOne
<1> DEFINE Inv == ActiveInv /\ RateInv
<1>1. Init => Inv
  <2> SUFFICES ASSUME Init PROVE Inv
    OBVIOUS
  <2>1. \A p \in Threads : pc[p] = "idle" /\ rate[p] = <<1, 1>>
    BY DEF Init
  <2>2. ActiveInv
    BY <2>1 DEF ActiveInv
  <2>3. Cardinality(Checked) = 0
    <3>1. Checked = {}
      BY <2>1 DEF Checked
    <3> QED
      BY <3>1, FS_EmptySet
  <2>4. CountsInv
    BY <2>1, <2>3 DEF Init, CountsInv, ShiftPc
  <2>5. \A p \in Threads : Reports(p)
    BY <2>1 DEF Reports
  <2> QED
    BY <2>2, <2>4, <2>5 DEF RateInv
<1>2. TypeOK /\ Inv /\ [Next]_vars => Inv'
  BY ActiveInvNext, RateInvNext
<1>3. Inv => RateAtMostOne
  BY DEF RateInv, Reports, RateAtMostOne
<1> QED
  BY <1>1, <1>2, <1>3, TypeCorrect, PTL DEF Spec
=============================================================================
