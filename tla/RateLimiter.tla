----------------------------- MODULE RateLimiter -----------------------------
(***************************************************************************)
(* Datadog.Trace.Sampling.RateLimiter: how many traces may be kept in any  *)
(* interval.  Application threads call Allowed concurrently; the only      *)
(* synchronization are a concurrent queue, interlocked increments and a    *)
(* flag that lets one thread at a time refresh the window.                 *)
(*                                                                         *)
(* A step is one access to what threads share, but for the two sums of     *)
(* GetEffectiveRate, which are read one after the other.  The clock        *)
(* (Clock.UtcNow) does not go back.                                        *)
(***************************************************************************)
EXTENDS Integers, Sequences, FiniteSets

CONSTANTS
    Threads,               \* the threads that call Allowed
    maxTracesPerInterval,  \* constructor argument
    Interval,              \* _intervalMilliseconds, in ticks of the clock
    MaxClock,              \* bound: the last tick
    MaxCalls               \* bound: calls of a thread

ASSUME RateLimiterAssumption ==
    /\ Threads # {} /\ IsFiniteSet(Threads)
    /\ maxTracesPerInterval \in Int
    /\ Interval \in Nat
    /\ MaxClock \in Nat
    /\ MaxCalls \in Nat

VARIABLES
    clock,          \* Clock.UtcNow
    intervalQueue,  \* _intervalQueue
    windowBegin,    \* _windowBegin
    refreshing,     \* _refreshing
    windowChecks, windowAllowed, previousWindowChecks, previousWindowAllowed,
    pc,             \* pc[p]: where thread p is in Allowed
    calls,          \* calls[p]: calls of p so far
    now,            \* now[p]: the time that p has read last
    total,          \* total[p]: totalChecksForLastTwoWindows
    verdict,        \* verdict[p]: what the last call returned, or will return
    rate,           \* rate[p]: the last effective rate, as <<allowed, checks>>
    calledAt,       \* history: calledAt[p]: when the call of p began
    enqueued,       \* history: the time stamps of all traces allowed, as they were enqueued
    overlapped,     \* history: the threads whose call overlapped another one
    torn            \* history: a shift of the counts overlapped another call

countVars == <<windowChecks, windowAllowed, previousWindowChecks, previousWindowAllowed>>
windowVars == <<intervalQueue, windowBegin, refreshing>>
localVars == <<calls, now, total, verdict, rate>>
pastVars == <<calledAt, enqueued, overlapped>>
historyVars == <<pastVars, torn>>
vars == <<clock, windowVars, countVars, pc, localVars, historyVars>>

Times == 0 .. MaxClock

Init ==
    /\ clock = 0
    /\ intervalQueue = <<>>
    /\ windowBegin = 0
    /\ refreshing = FALSE
    /\ windowChecks = 0 /\ windowAllowed = 0
    /\ previousWindowChecks = 0 /\ previousWindowAllowed = 0
    /\ pc = [p \in Threads |-> "idle"]
    /\ calls = [p \in Threads |-> 0]
    /\ now = [p \in Threads |-> 0]
    /\ total = [p \in Threads |-> 0]
    /\ verdict = [p \in Threads |-> TRUE]
    /\ rate = [p \in Threads |-> <<1, 1>>]
    /\ calledAt = [p \in Threads |-> 0]
    /\ enqueued = <<>>
    /\ overlapped = {}
    /\ torn = FALSE

ShiftPc == {"previousAllowed", "previousChecks", "resetAllowed", "resetChecks"}

\* Thread p goes on to l, and a call in progress meets a shift of the counts, or not.
GoTo(p, l) ==
    /\ pc' = [pc EXCEPT ![p] = l]
    /\ torn' = (torn \/ \E q \in Threads : /\ pc'[q] \in ShiftPc
                                           /\ \E r \in Threads \ {q} : pc'[r] # "idle")

Tick ==
    /\ clock < MaxClock
    /\ clock' = clock + 1
    /\ UNCHANGED <<windowVars, countVars, pc, localVars, historyVars>>

-----------------------------------------------------------------------------
(* Allowed, up to WaitForRefresh: without a limit, or with a limit of 0, it is over. *)

Allowed(p) ==
    LET others == {q \in Threads \ {p} : pc[q] # "idle"}
    IN  /\ pc[p] = "idle"
        /\ calls[p] < MaxCalls
        /\ calls' = [calls EXCEPT ![p] = @ + 1]
        /\ verdict' = [verdict EXCEPT ![p] = maxTracesPerInterval # 0]
        /\ rate' = [rate EXCEPT ![p] = IF maxTracesPerInterval = 0 THEN <<0, 1>> ELSE <<1, 1>>]
        /\ calledAt' = [calledAt EXCEPT ![p] = clock]
        /\ overlapped' = IF others = {} THEN overlapped \ {p} ELSE overlapped \cup others \cup {p}
        /\ GoTo(p, IF maxTracesPerInterval > 0 THEN "compareExchange" ELSE "idle")
        /\ UNCHANGED <<clock, windowVars, countVars, now, total, enqueued>>

-----------------------------------------------------------------------------
(* WaitForRefresh *)

CompareExchange(p) ==
    /\ pc[p] = "compareExchange"
    /\ refreshing' = TRUE
    /\ GoTo(p, IF refreshing THEN "check" ELSE "now")
    /\ UNCHANGED <<clock, intervalQueue, windowBegin, countVars, localVars, pastVars>>

\* The statistical window has passed, or only the queue is to be looked at.
ReadNow(p) ==
    /\ pc[p] = "now"
    /\ now' = [now EXCEPT ![p] = clock]
    /\ GoTo(p, IF clock - windowBegin >= Interval THEN "previousAllowed" ELSE "expire")
    /\ UNCHANGED <<clock, windowVars, countVars, calls, total, verdict, rate, pastVars>>

\* The shift of the counts
ShiftCounts(p) ==
    /\ \/ /\ pc[p] = "previousAllowed"
          /\ previousWindowAllowed' = windowAllowed
          /\ GoTo(p, "previousChecks")
          /\ UNCHANGED <<windowBegin, windowChecks, windowAllowed, previousWindowChecks>>
       \/ /\ pc[p] = "previousChecks"
          /\ previousWindowChecks' = windowChecks
          /\ GoTo(p, "resetAllowed")
          /\ UNCHANGED <<windowBegin, windowChecks, windowAllowed, previousWindowAllowed>>
       \/ /\ pc[p] = "resetAllowed"
          /\ windowAllowed' = 0
          /\ GoTo(p, "resetChecks")
          /\ UNCHANGED <<windowBegin, windowChecks, previousWindowChecks, previousWindowAllowed>>
       \/ /\ pc[p] = "resetChecks"
          /\ windowChecks' = 0
          /\ windowBegin' = now[p]
          /\ GoTo(p, "expire")
          /\ UNCHANGED <<windowAllowed, previousWindowChecks, previousWindowAllowed>>
    /\ UNCHANGED <<clock, intervalQueue, refreshing, localVars, pastVars>>

\* Wrong version: the interval has passed one tick earlier.
ExpiredVariant(time, t) == t - time >= Interval

Expired(time, t) == t - time > Interval

\* One round of the loop: TryPeek and TryDequeue.  No other thread dequeues.
Expire(p) ==
    LET dequeue == intervalQueue # <<>> /\ Expired(Head(intervalQueue), now[p])
    IN  /\ pc[p] = "expire"
        /\ intervalQueue' = IF dequeue THEN Tail(intervalQueue) ELSE intervalQueue
        /\ GoTo(p, IF dequeue THEN "expire" ELSE "release")
        /\ UNCHANGED <<clock, windowBegin, refreshing, countVars, localVars, pastVars>>

\* The finally clause.  Wrong version: there is none.
ReleaseVariant(p) ==
    /\ pc[p] = "release"
    /\ GoTo(p, "check")
    /\ UNCHANGED <<clock, windowVars, countVars, localVars, pastVars>>

Release(p) ==
    /\ pc[p] = "release"
    /\ refreshing' = FALSE
    /\ GoTo(p, "check")
    /\ UNCHANGED <<clock, intervalQueue, windowBegin, countVars, localVars, pastVars>>

-----------------------------------------------------------------------------
(* Allowed, after WaitForRefresh *)

\* Wrong version: only a refused trace is counted as a check.
CheckVariant(p) ==
    /\ pc[p] = "check"
    /\ windowChecks' = IF Len(intervalQueue) < maxTracesPerInterval
                         THEN windowChecks ELSE windowChecks + 1
    /\ GoTo(p, "count")
    /\ UNCHANGED <<clock, windowVars, windowAllowed, previousWindowChecks,
                   previousWindowAllowed, localVars, pastVars>>

Check(p) ==
    /\ pc[p] = "check"
    /\ windowChecks' = windowChecks + 1
    /\ GoTo(p, "count")
    /\ UNCHANGED <<clock, windowVars, windowAllowed, previousWindowChecks,
                   previousWindowAllowed, localVars, pastVars>>

\* _intervalQueue.Count against the limit
Count(p) ==
    LET room == Len(intervalQueue) < maxTracesPerInterval
    IN  /\ pc[p] = "count"
        /\ verdict' = [verdict EXCEPT ![p] = room]
        /\ GoTo(p, IF room THEN "stamp" ELSE "totalChecks")
        /\ UNCHANGED <<clock, windowVars, countVars, calls, now, total, rate, pastVars>>

\* The argument of Enqueue, Clock.UtcNow.  Wrong version: the time at which it expires.
StampVariant(p) ==
    /\ pc[p] = "stamp"
    /\ now' = [now EXCEPT ![p] = clock + Interval]
    /\ GoTo(p, "enqueue")
    /\ UNCHANGED <<clock, windowVars, countVars, calls, total, verdict, rate, pastVars>>

Stamp(p) ==
    /\ pc[p] = "stamp"
    /\ now' = [now EXCEPT ![p] = clock]
    /\ GoTo(p, "enqueue")
    /\ UNCHANGED <<clock, windowVars, countVars, calls, total, verdict, rate, pastVars>>

Enqueue(p) ==
    /\ pc[p] = "enqueue"
    /\ intervalQueue' = Append(intervalQueue, now[p])
    /\ enqueued' = Append(enqueued, now[p])
    /\ GoTo(p, "increment")
    /\ UNCHANGED <<clock, windowBegin, refreshing, countVars, localVars, calledAt, overlapped>>

IncrementAllowed(p) ==
    /\ pc[p] = "increment"
    /\ windowAllowed' = windowAllowed + 1
    /\ GoTo(p, "totalChecks")
    /\ UNCHANGED <<clock, windowVars, windowChecks, previousWindowChecks,
                   previousWindowAllowed, localVars, pastVars>>

-----------------------------------------------------------------------------
(* GetEffectiveRate, in the finally clause of Allowed *)

TotalChecks(p) ==
    /\ pc[p] = "totalChecks"
    /\ total' = [total EXCEPT ![p] = windowChecks + previousWindowChecks]
    /\ GoTo(p, "setMetric")
    /\ UNCHANGED <<clock, windowVars, countVars, calls, now, verdict, rate, pastVars>>

\* The call returns, and its local variables are gone.
SetMetric(p) ==
    /\ pc[p] = "setMetric"
    /\ rate' = [rate EXCEPT ![p] =
                  IF total[p] = 0 THEN <<1, 1>>
                  ELSE <<windowAllowed + previousWindowAllowed, total[p]>>]
    /\ now' = [now EXCEPT ![p] = 0]
    /\ total' = [total EXCEPT ![p] = 0]
    /\ GoTo(p, "idle")
    /\ UNCHANGED <<clock, windowVars, countVars, calls, verdict, pastVars>>

-----------------------------------------------------------------------------
Step(p) ==
    \/ Allowed(p)
    \/ CompareExchange(p) \/ ReadNow(p) \/ ShiftCounts(p) \/ Expire(p) \/ Release(p)
    \/ Check(p) \/ Count(p) \/ Stamp(p) \/ Enqueue(p) \/ IncrementAllowed(p)
    \/ TotalChecks(p) \/ SetMetric(p)

Next == Tick \/ \E p \in Threads : Step(p)

Spec == Init /\ [][Next]_vars

-----------------------------------------------------------------------------
(* Properties *)

Pcs == ShiftPc \cup {"idle", "compareExchange", "now", "expire", "release", "check", "count",
                     "stamp", "enqueue", "increment", "totalChecks", "setMetric"}

\* Type invariant.
TypeOK ==
    /\ clock \in Times
    /\ intervalQueue \in Seq(Times)
    /\ windowBegin \in Times
    /\ refreshing \in BOOLEAN
    /\ windowChecks \in Nat /\ windowAllowed \in Nat
    /\ previousWindowChecks \in Nat /\ previousWindowAllowed \in Nat
    /\ pc \in [Threads -> Pcs]
    /\ calls \in [Threads -> 0 .. MaxCalls]
    /\ now \in [Threads -> Times]
    /\ total \in [Threads -> Nat]
    /\ verdict \in [Threads -> BOOLEAN]
    /\ rate \in [Threads -> Nat \X Nat]
    /\ calledAt \in [Threads -> Times]
    /\ enqueued \in Seq(Times)
    /\ overlapped \subseteq Threads
    /\ torn \in BOOLEAN

\* The traces allowed with a time stamp from t - Interval to t.
AllowedUpTo(t) == {i \in DOMAIN enqueued : enqueued[i] \in (t - Interval) .. t}

\* RateLimiter.Allowed reads Count and enqueues in two steps, so threads pass the limit
\* together.  Whatever they do, no interval has more traces than the limit and one for
\* each thread but one: no time stamp leaves the queue too early.
OvershootBounded ==
    maxTracesPerInterval > 0 =>
        \A t \in Times : Cardinality(AllowedUpTo(t)) <= maxTracesPerInterval + Cardinality(Threads) - 1

\* A call that overlaps no other is refused only if a trace was allowed within the interval
\* before it: whatever happened earlier, no flag or queue entry that is left behind makes
\* the limiter refuse for ever.
RefusalRecent ==
    \A p \in Threads :
        /\ pc[p] = "totalChecks" /\ ~verdict[p]
        /\ p \notin overlapped
        => \E i \in DOMAIN enqueued : calledAt[p] - enqueued[i] <= Interval

\* The effective rate that a call reports is a rate, unless another call overlaps it or
\* has overlapped a shift of the counts, which then lose increments.
RateAtMostOne ==
    \A p \in Threads :
        pc[p] = "idle" /\ p \notin overlapped /\ ~torn => rate[p][1] <= rate[p][2]
=============================================================================
