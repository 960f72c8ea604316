----------------------- MODULE AgentWriterFlushProofs -----------------------
(***************************************************************************)
(* The promise of FlushTracesAsync, for any number of calls, of traces and *)
(* of other flushers: a trace written before the call is out of the queue  *)
(* when the watermark of the call comes out of it, and out of each buffer, *)
(* or in a buffer that is being sent, when the call has passed the buffer. *)
(***************************************************************************)
EXTENDS AgentWriterDeliveryProofs

\* FlushBuffers has read _activeBuffer for call f.
BegunPc == {"fallback", "flushBuffer", "lock", "assign", "await", "flushed"}

\* Call f has still to lock buffer b, or to see that another flush has.
Ahead(f, b) ==
    \E i \in DOMAIN plan[f] :
        plan[f][i] = b /\ (fpc[f] \in {"assign", "await"} => i > 1)

\* Trace t does not come back to a buffer.
Past(t) == ~Waits(t) /\ Held # t

\* The order of the queue: x comes before y; and y is in it once.
Before(x, y) ==
    \A i, j \in DOMAIN pendingTraces : pendingTraces[i] = x /\ pendingTraces[j] = y => i < j

Once(y) ==
    \A i, j \in DOMAIN pendingTraces : pendingTraces[i] = y /\ pendingTraces[j] = y => i = j

\* Where the watermark of call f is.
WatermarkInv(f) ==
    /\ Waits(f) => fpc[f] \in {"set", "awaitWatermark"} /\ ~watermark[f]
    /\ Once(f)
    /\ fpc[f] \in {"idle", "enqueue"} => ~watermark[f]
    /\ fpc[f] \in FlushingPc => watermark[f]
    /\ fpc[f] = "idle" => written[f] = {}
    /\ fpc[f] = "flushed" => plan[f] = <<>>

\* How far a trace t has come that was written before call f.
WrittenInv(f, t) ==
    /\ ~IsNew(t)
    /\ Before(t, f)
    /\ watermark[f] => Past(t)
    /\ fpc[f] \in BegunPc =>
         \A b \in Buffers : Ahead(f, b) \/ t \notin TracesIn(b) \/ b \in Sending \cup Sent

CallInv(f) == WatermarkInv(f) /\ \A t \in written[f] : WrittenInv(f, t)

FlushCallInv == ~SerializationCompleted => \A f \in FlushCallers : CallInv(f)

-----------------------------------------------------------------------------
(* What the kinds of steps preserve *)

\* A trace that has been taken over stays so; one that is past the queue and
\* the serialization thread stays so too, joins no buffer, and leaves a buffer
\* that is locked before that buffer is unlocked.
Kept(t) ==
    /\ ~IsNew(t)'
    /\ Past(t) => Past(t)'
    /\ Held # t =>
         \A b \in Buffers : t \in TracesIn(b)' =>
            /\ t \in TracesIn(b)
            /\ b \in Sending \cup Sent => b \in (Sending \cup Sent)'

\* No kind of step takes a written trace back: past the serializer it stays
\* past it, and it enters a buffer only from the hands of the serializer.
LEMMA KindsKeep ==
    ASSUME TypeInv, LockInv, Places, Kinds, NEW t \in Traces, ~IsNew(t)
    PROVE  Kept(t)
<1>0. /\ None \notin Traces /\ QueueDistinct /\ ~IsNew(t)
      /\ Sending \subseteq Buffers /\ Sent \subseteq Buffers
  BY ActorsAssumption, SendingBuffers DEF Threads, Places
<1>1. CASE Nothing
  <2>i. \A c \in Buffers : TracesIn(c)' = TracesIn(c)
    BY <1>1, SameContents DEF Nothing
  <2> QED
    BY <1>1, <1>0, <2>i DEF Kept, Nothing, SameTraces, SameFlush, Past
<1>2. ASSUME NEW u \in Traces, Accepts(u) PROVE Kept(t)
  <2>i. \A c \in Buffers : TracesIn(c)' = TracesIn(c)
    BY <1>2, SameContents DEF Accepts
  <2> QED
    BY <1>2, <1>0, <2>i DEF Kept, Accepts, SameTraces, SameFlush, Past
<1>3. ASSUME NEW u \in Traces, Takes(u) PROVE Kept(t)
  <2>i. \A c \in Buffers : TracesIn(c)' = TracesIn(c)
    BY <1>3, SameContents DEF Takes
  <2> QED
    BY <1>3, <1>0, <2>i DEF Kept, Takes, SameTraces, SameFlush, Past
<1>4. ASSUME NEW u \in Traces, NEW c \in Buffers, Collects(u, c) PROVE Kept(t)
  <2>i. /\ TracesIn(c)' = TracesIn(c) \cup {u}
        /\ \A b \in Buffers : b # c => TracesIn(b)' = TracesIn(b)
    BY <1>4, AppendedContents DEF Collects
  <2> QED
    BY <1>4, <1>0, <2>i DEF Kept, Collects, SameTraces, SameFlush, Past
<1>5. ASSUME NEW u \in Traces, Fails(u) PROVE Kept(t)
  <2>i. \A c \in Buffers : TracesIn(c)' = TracesIn(c)
    BY <1>5, SameContents DEF Fails
  <2> QED
    BY <1>5, <1>0, <2>i DEF Kept, Fails, SameTraces, SameFlush, Past
<1>6. ASSUME NEW u \in Traces, Refuses(u) PROVE Kept(t)
  <2>i. \A c \in Buffers : TracesIn(c)' = TracesIn(c)
    BY <1>6, SameContents DEF Refuses
  <2> QED
    BY <1>6, <1>0, <2>i DEF Kept, Refuses, SameTraces, SameFlush, Past
<1>7. ASSUME NEW c \in Buffers, Closes(c) PROVE Kept(t)
  <2>i. \A d \in Buffers : TracesIn(d)' = TracesIn(d)
    BY <1>7, SameContents DEF Closes
  <2> QED
    BY <1>7, <1>0, <2>i DEF Kept, Closes, SameTraces, SameFlush, Past
<1>8. ASSUME NEW c \in Buffers, Sends(c) PROVE Kept(t)
  <2>i. \A d \in Buffers : TracesIn(d)' = TracesIn(d)
    BY <1>8, SameContents DEF Sends
  <2> QED
    BY <1>8, <1>0, <2>i DEF Kept, Sends, SameTraces, SameFlush, Past
<1>9. ASSUME NEW c \in Buffers, Clears(c) PROVE Kept(t)
  <2>i. /\ TracesIn(c)' = {}
        /\ \A b \in Buffers : b # c => TracesIn(b)' = TracesIn(b)
    BY <1>9, ClearedContents DEF Clears
  <2> QED
    BY <1>9, <1>0, <2>i DEF Kept, Clears, SameTraces, SameFlush, Past
<1>10. ASSUME NEW c \in Buffers, Unlocks(c) PROVE Kept(t)
  <2>i. \A d \in Buffers : TracesIn(d)' = TracesIn(d)
    BY <1>10, SameContents DEF Unlocks
  <2>e. TracesIn(c) = {}
    BY <1>10, TracesInDef DEF Unlocks
  <2> QED
    BY <1>10, <1>0, <2>i, <2>e DEF Kept, Unlocks, SameTraces, SameFlush, Past
<1> QED
  BY <1>1, <1>2, <1>3, <1>4, <1>5, <1>6, <1>7, <1>8, <1>9, <1>10 DEF Kinds

\* A work item other than x joins the queue.
LEMMA AppendOrder ==
    ASSUME TypeInv, NEW z \in Traces \cup FlushCallers, NEW x, NEW y,
           pendingTraces' = Append(pendingTraces, z)
    PROVE  /\ z # x /\ Before(x, y) => Before(x, y)'
           /\ z # x /\ ~Waits(y) => Before(x, y)'
           /\ z # y /\ Once(y) => Once(y)'
           /\ ~Waits(y) => Once(y)'
           /\ Waits(y)' => Waits(y) \/ z = y
<1> DEFINE s == pendingTraces
           r == pendingTraces'
           n == Len(s) + 1
<1>1. s \in Seq(Traces \cup FlushCallers)
  BY DEF TypeInv, TypeOK
<1>2. /\ DOMAIN r = DOMAIN s \cup {n}
      /\ n \notin DOMAIN s
      /\ r[n] = z
      /\ \A i \in DOMAIN s : r[i] = s[i]
  BY <1>1, AppendElements
<1>3. \A i \in DOMAIN s : i < n
  BY <1>1
<1> HIDE DEF n
<1>4. z # x /\ Before(x, y) => Before(x, y)'
  BY <1>2, <1>3 DEF Before
<1>5. z # x /\ ~Waits(y) => Before(x, y)'
  BY <1>2, <1>3 DEF Before, Waits
<1>6. z # y /\ Once(y) => Once(y)'
  BY <1>2 DEF Once
<1>7. ~Waits(y) => Once(y)'
  BY <1>2 DEF Once, Waits
<1>8. Waits(y)' => Waits(y) \/ z = y
  BY <1>2 DEF Waits
<1> QED
  BY <1>4, <1>5, <1>6, <1>7, <1>8

\* The first work item leaves the queue.
LEMMA TailOrder ==
    ASSUME TypeInv, NEW x, NEW y,
           pendingTraces # <<>>, pendingTraces' = Tail(pendingTraces)
    PROVE  /\ Before(x, y) => Before(x, y)'
           /\ Once(y) => Once(y)'
           /\ Once(y) /\ Head(pendingTraces) = y => ~Waits(y)'
           /\ Waits(y)' => Waits(y)
           /\ Before(x, y) /\ Head(pendingTraces) = y => ~Waits(x)
<1> DEFINE s == pendingTraces
           r == pendingTraces'
           n == Len(s)
<1>1. s \in Seq(Traces \cup FlushCallers)
  BY DEF TypeInv, TypeOK
<1>2. /\ DOMAIN r = 1 .. (n - 1)
      /\ DOMAIN s = 1 .. n
      /\ n \in Nat /\ n > 0
      /\ Head(s) = s[1]
      /\ \A i \in 1 .. (n - 1) : r[i] = s[i + 1]
  BY <1>1, TailElements
<1> HIDE DEF n
<1>3. \A i \in DOMAIN r : i \in Int /\ i > 0 /\ i + 1 \in DOMAIN s /\ r[i] = s[i + 1]
  BY <1>2
<1>4. ASSUME Before(x, y), NEW i \in DOMAIN r, NEW j \in DOMAIN r, r[i] = x, r[j] = y
      PROVE  i < j
  <2>1. i + 1 < j + 1
    BY <1>3, <1>4 DEF Before
  <2> QED
    BY <1>3, <2>1
<1>5. ASSUME Once(y), NEW i \in DOMAIN r, NEW j \in DOMAIN r, r[i] = y, r[j] = y
      PROVE  i = j
  <2>1. i + 1 = j + 1
    BY <1>3, <1>5 DEF Once
  <2> QED
    BY <1>3, <2>1
<1>6. ASSUME Once(y), Head(s) = y, NEW i \in DOMAIN r, r[i] = y PROVE FALSE
  <2>1. 1 \in DOMAIN s /\ s[1] = y
    BY <1>2, <1>6
  <2>2. i + 1 = 1
    BY <1>3, <1>6, <2>1 DEF Once
  <2> QED
    BY <1>3, <2>2
<1>7. ASSUME NEW i \in DOMAIN r, r[i] = y PROVE Waits(y)
  BY <1>3, <1>7 DEF Waits
<1>8. ASSUME Before(x, y), Head(s) = y, NEW i \in DOMAIN s, s[i] = x PROVE FALSE
  <2>1. 1 \in DOMAIN s /\ s[1] = y
    BY <1>2, <1>8
  <2>2. i < 1
    BY <1>8, <2>1 DEF Before
  <2> QED
    BY <1>2, <2>2
<1>9. Before(x, y) => Before(x, y)'
  BY <1>4 DEF Before
<1>10. Once(y) => Once(y)'
  BY <1>5 DEF Once
<1>11. Once(y) /\ Head(s) = y => ~Waits(y)'
  BY <1>6 DEF Waits
<1>12. Waits(y)' => Waits(y)
  BY <1>7 DEF Waits
<1>13. Before(x, y) /\ Head(s) = y => ~Waits(x)
  BY <1>8 DEF Waits
<1> QED
  BY <1>9, <1>10, <1>11, <1>12, <1>13

-----------------------------------------------------------------------------
(* The plan of a flusher *)

\* Flusher f does nothing.
Idles(f) == UNCHANGED <<fpc[f], plan[f]>>

\* Flusher f goes on: a buffer that is no longer ahead of it is locked, or was
\* not ahead of it before.
Progress(f) ==
    /\ fpc'[f] = "flushed" => plan'[f] = <<>>
    /\ fpc'[f] \in BegunPc =>
         \A b \in Buffers :
            \/ Ahead(f, b)' \/ b \in (Sending \cup Sent)'
            \/ fpc[f] \in BegunPc /\ ~Ahead(f, b)

\* A flusher that flushes all buffers passes none of them over.
LEMMA PlanProgress ==
    ASSUME TypeInv, LockInv, [Next]_vars, NEW f \in Flushers, f # FlushLoop
    PROVE  Idles(f) \/ Progress(f)
<1>0. /\ plan \in [Flushers -> Seq(Buffers)]
      /\ fpc \in [Flushers -> FlusherPc]
      /\ sending \in [Flushers -> {"no", "send", "clear", "unlock"}]
      /\ FlushLoop \in Flushers /\ Closers \subseteq Flushers /\ FlushCallers \subseteq Flushers
  BY DEF TypeInv, TypeOK, Flushers
<1> USE DEF queueVars, bufferVars, threadVars, flusherVars, accountVars
<1>4. CASE Next
  <2>1. ASSUME NEW t \in Traces, WriteTrace(t) PROVE Idles(f) \/ Progress(f)
    BY <2>1, <1>0 DEF WriteTrace, Idles
  <2>2. ASSUME NEW t \in Traces, Enqueue(t) PROVE Idles(f) \/ Progress(f)
    BY <2>2, <1>0 DEF Enqueue, Idles
  <2>3. ASSUME NEW t \in Traces, IsSet(t) PROVE Idles(f) \/ Progress(f)
    BY <2>3, <1>0 DEF IsSet, Idles
  <2>4. ASSUME NEW t \in Traces, Set(t) PROVE Idles(f) \/ Progress(f)
    BY <2>4, <1>0 DEF Set, Idles
  <2>5. ASSUME NEW p \in Threads, ReadActiveBuffer(p) PROVE Idles(f) \/ Progress(f)
    BY <2>5, <1>0 DEF ReadActiveBuffer, Idles
  <2>6. ASSUME NEW p \in Threads, TryWriteRefused(p) PROVE Idles(f) \/ Progress(f)
    BY <2>6, <1>0 DEF TryWriteRefused, Refused, Idles
  <2>7. ASSUME NEW p \in Threads, TryWriteSerialize(p) PROVE Idles(f) \/ Progress(f)
    BY <2>7, <1>0 DEF TryWriteSerialize, TryWriteEnters, TraceOf, Idles
  <2>8. ASSUME NEW p \in Threads, TryWriteThrow(p) PROVE Idles(f) \/ Progress(f)
    BY <2>8, <1>0 DEF TryWriteThrow, TryWriteEnters, TraceOf, Throw, Idles
  <2>9. ASSUME NEW p \in Threads, TryWriteCopy(p) PROVE Idles(f) \/ Progress(f)
    BY <2>9, <1>0 DEF TryWriteCopy, TraceOf, Return, Refused, Idles
  <2>10. ASSUME NEW p \in Threads, SwapBuffers(p) PROVE Idles(f) \/ Progress(f)
    BY <2>10, <1>0 DEF SwapBuffers, Idles
  <2>11. ASSUME NEW p \in Threads, SwapBuffersWrite(p) PROVE Idles(f) \/ Progress(f)
    BY <2>11, <1>0 DEF SwapBuffersWrite, Idles
  <2>12. ASSUME NEW p \in Threads, RequestFlush(p) PROVE Idles(f) \/ Progress(f)
    BY <2>12, <1>0 DEF RequestFlush, Idles
  <2>13. ASSUME NEW p \in Threads, CompleteForceFlush(p) PROVE Idles(f) \/ Progress(f)
    BY <2>13, <1>0 DEF CompleteForceFlush, Idles
  <2>14. ASSUME NEW p \in Threads, DropTrace(p) PROVE Idles(f) \/ Progress(f)
    BY <2>14, <1>0 DEF DropTrace, Return, Idles
  <2>15. CASE DequeueTrace
    BY <2>15, <1>0 DEF DequeueTrace, Idles
  <2>16. CASE DequeueWatermark
    BY <2>16, <1>0 DEF DequeueWatermark, Idles
  <2>17. CASE QueueDrained
    BY <2>17, <1>0 DEF QueueDrained, Idles
  <2>18. CASE CheckProcessExit
    BY <2>18, <1>0 DEF CheckProcessExit, Idles
  <2>19. CASE Sleep
    BY <2>19, <1>0 DEF Sleep, Idles
  <2>20. CASE Wait
    BY <2>20, <1>0 DEF Wait, Idles
  <2>21. CASE Reset
    BY <2>21, <1>0 DEF Reset, Idles
  <2>22. ASSUME NEW g \in Flushers, FlushBuffers(g) PROVE Idles(f) \/ Progress(f)
    <3>2. CASE g # f
      BY <2>22, <1>0, <3>2 DEF FlushBuffers, Idles
    <3>3. CASE g = f
      <4>0. /\ plan'[f] = <<Other(activeBuffer), activeBuffer>> /\ fpc'[f] = "fallback"
            /\ fpc[f] = "flushBuffers" /\ activeBuffer \in Buffers
        BY <2>22, <1>0, <3>3 DEF FlushBuffers, TypeInv, TypeOK
      <4>a. \A b \in Buffers : Ahead(f, b)'
        <5>1. DOMAIN plan'[f] = {1, 2} /\ plan'[f][1] = Other(activeBuffer) /\ plan'[f][2] = activeBuffer
          BY <4>0
        <5>2. \A b \in Buffers : b = activeBuffer \/ b = Other(activeBuffer)
          BY <4>0 DEF Buffers, Other
        <5> QED
          BY <4>0, <5>1, <5>2 DEF Ahead
      <4>1. Progress(f)
        BY <4>0, <4>a DEF Progress, BegunPc
      <4> QED
        BY <4>1
    <3> QED
      BY <3>2, <3>3
  <2>23. ASSUME NEW g \in Flushers, CheckFallback(g) PROVE Idles(f) \/ Progress(f)
    <3>2. CASE g # f
      BY <2>23, <1>0, <3>2 DEF CheckFallback, Idles
    <3>3. CASE g = f
      <4>0. plan'[f] = plan[f] /\ fpc'[f] = "flushBuffer" /\ fpc[f] = "fallback"
        BY <2>23, <1>0, <3>3 DEF CheckFallback, flushAllBuffers
      <4>1. Progress(f)
        BY <4>0 DEF Progress, BegunPc, Ahead
      <4> QED
        BY <4>1
    <3> QED
      BY <3>2, <3>3
  <2>24. ASSUME NEW g \in Flushers, FlushBuffer(g) PROVE Idles(f) \/ Progress(f)
    <3>2. CASE g # f
      BY <2>24, <1>0, <3>2 DEF FlushBuffer, Idles
    <3>3. CASE g = f
      <4>0. plan'[f] = plan[f] /\ fpc'[f] = "lock" /\ fpc[f] = "flushBuffer"
        BY <2>24, <1>0, <3>3 DEF FlushBuffer
      <4>1. Progress(f)
        BY <4>0 DEF Progress, BegunPc, Ahead
      <4> QED
        BY <4>1
    <3> QED
      BY <3>2, <3>3
  <2>25. ASSUME NEW g \in Flushers, LockBuffer(g) PROVE Idles(f) \/ Progress(f)
    <3>2. CASE g # f
      BY <2>25, <1>0, <3>2 DEF LockBuffer, Idles
    <3>3. CASE g = f
      <4>0. plan'[f] = plan[f] /\ fpc'[f] = "assign" /\ fpc[f] = "lock"
        BY <2>25, <1>0, <3>3 DEF LockBuffer
      <4>a. Len(plan[f]) > 0 /\ plan[f] \in Seq(Buffers) /\ sending[f] = "no"
        BY <4>0, <1>0 DEF TypeInv, PlanInv
      <4>b. Head(plan[f]) \in (Sending \cup Sent)'
        <5>1. sending'[f] \in {"send", "clear"}
          BY <2>25, <1>0, <3>3 DEF LockBuffer
        <5> QED
          BY <4>0, <5>1, <1>0 DEF Sending, Sent
      <4>c. ASSUME NEW b \in Buffers, Ahead(f, b), b # Head(plan[f]) PROVE Ahead(f, b)'
        <5>1. PICK i \in DOMAIN plan[f] : plan[f][i] = b
          BY <4>c DEF Ahead
        <5>2. i # 1 /\ i \in Nat /\ i > 0
          BY <4>a, <4>c, <5>1
        <5>3. i > 1
          BY <5>2
        <5> QED
          BY <4>0, <5>1, <5>3 DEF Ahead
      <4>1. Progress(f)
        BY <4>0, <4>b, <4>c DEF Progress, BegunPc
      <4> QED
        BY <4>1
    <3> QED
      BY <3>2, <3>3
  <2>26. ASSUME NEW g \in Flushers, LockRefused(g) PROVE Idles(f) \/ Progress(f)
    <3>2. CASE g # f
      BY <2>26, <1>0, <3>2 DEF LockRefused, Idles
    <3>3. CASE g = f
      <4>0. plan'[f] = plan[f] /\ fpc'[f] = "assign" /\ fpc[f] = "lock"
        BY <2>26, <1>0, <3>3 DEF LockRefused
      <4>a. Len(plan[f]) > 0 /\ plan[f] \in Seq(Buffers) /\ sending[f] = "no"
        BY <4>0, <1>0 DEF TypeInv, PlanInv
      <4>b. Head(plan[f]) \in (Sending \cup Sent)'
        <5>1. Head(plan[f]) \in Buffers
          BY <4>a, PlanOps
        <5>2. Head(plan[f]) \in Sending \cup Sent
          BY <2>26, <3>3, <5>1, FlushedBuffers DEF LockRefused
        <5>3. Sending' = Sending /\ Sent' = Sent
          BY <2>26 DEF LockRefused, Sending, Sent
        <5> QED
          BY <5>2, <5>3
      <4>c. ASSUME NEW b \in Buffers, Ahead(f, b), b # Head(plan[f]) PROVE Ahead(f, b)'
        <5>1. PICK i \in DOMAIN plan[f] : plan[f][i] = b
          BY <4>c DEF Ahead
        <5>2. i # 1 /\ i \in Nat /\ i > 0
          BY <4>a, <4>c, <5>1
        <5>3. i > 1
          BY <5>2
        <5> QED
          BY <4>0, <5>1, <5>3 DEF Ahead
      <4>1. Progress(f)
        BY <4>0, <4>b, <4>c DEF Progress, BegunPc
      <4> QED
        BY <4>1
    <3> QED
      BY <3>2, <3>3
  <2>27. ASSUME NEW g \in Flushers, SendTracesAsync(g) PROVE Idles(f) \/ Progress(f)
    BY <2>27, <1>0 DEF SendTracesAsync, Idles
  <2>28. ASSUME NEW g \in Flushers, ClearBuffer(g) PROVE Idles(f) \/ Progress(f)
    BY <2>28, <1>0 DEF ClearBuffer, Idles
  <2>29. ASSUME NEW g \in Flushers, UnlockBuffer(g) PROVE Idles(f) \/ Progress(f)
    BY <2>29, <1>0 DEF UnlockBuffer, Idles
  <2>30. ASSUME NEW g \in Flushers, AssignFlushTask(g) PROVE Idles(f) \/ Progress(f)
    <3>2. CASE g # f
      BY <2>30, <1>0, <3>2 DEF AssignFlushTask, Idles
    <3>3. CASE g = f
      <4>0. plan'[f] = plan[f] /\ fpc'[f] = "await" /\ fpc[f] = "assign"
        BY <2>30, <1>0, <3>3 DEF AssignFlushTask
      <4>1. Progress(f)
        BY <4>0 DEF Progress, BegunPc, Ahead
      <4> QED
        BY <4>1
    <3> QED
      BY <3>2, <3>3
  <2>31. ASSUME NEW g \in Flushers, AwaitFlushTask(g) PROVE Idles(f) \/ Progress(f)
    <3>2. CASE g # f
      BY <2>31, <1>0, <3>2 DEF AwaitFlushTask, Idles
    <3>3. CASE g = f
      <4>0. /\ plan'[f] = Tail(plan[f]) /\ fpc[f] = "await"
            /\ fpc'[f] \in {"flushed", "flushBuffer"}
        BY <2>31, <1>0, <3>3 DEF AwaitFlushTask
      <4>a. Len(plan[f]) > 0 /\ plan[f] \in Seq(Buffers)
        BY <4>0, <1>0 DEF TypeInv, PlanInv
      <4>d. fpc'[f] = "flushed" => plan'[f] = <<>>
        <5>1. fpc'[f] = "flushed" => Len(plan[f]) = 1
          BY <2>31, <1>0, <3>3 DEF AwaitFlushTask
        <5>2. Tail(plan[f]) \in Seq(Buffers) /\ DOMAIN Tail(plan[f]) = 1 .. (Len(plan[f]) - 1)
          BY <4>a, TailElements
        <5>3. Len(plan[f]) = 1 => DOMAIN Tail(plan[f]) = {}
          BY <5>2
        <5> QED
          BY <4>0, <5>1, <5>2, <5>3, EmptyDomain
      <4>c. ASSUME NEW b \in Buffers, Ahead(f, b) PROVE Ahead(f, b)'
        <5>1. PICK i \in DOMAIN plan[f] : plan[f][i] = b /\ i > 1
          BY <4>0, <4>c DEF Ahead
        <5>2. i - 1 \in DOMAIN plan'[f] /\ plan'[f][i - 1] = b
          <6>1. /\ DOMAIN Tail(plan[f]) = 1 .. (Len(plan[f]) - 1)
                /\ DOMAIN plan[f] = 1 .. Len(plan[f])
                /\ Len(plan[f]) \in Nat
                /\ \A j \in 1 .. (Len(plan[f]) - 1) : Tail(plan[f])[j] = plan[f][j + 1]
            BY <4>a, TailElements
          <6>2. i - 1 \in 1 .. (Len(plan[f]) - 1) /\ (i - 1) + 1 = i
            BY <5>1, <6>1
          <6> QED
            BY <4>0, <5>1, <6>1, <6>2
        <5> QED
          BY <4>0, <5>2 DEF Ahead
      <4>1. Progress(f)
        BY <4>0, <4>c, <4>d DEF Progress, BegunPc
      <4> QED
        BY <4>1
    <3> QED
      BY <3>2, <3>3
  <2>32. CASE ReplaceForceFlush
    BY <2>32, <1>0 DEF ReplaceForceFlush, Idles
  <2>33. CASE CheckSerializationTask
    BY <2>33, <1>0 DEF CheckSerializationTask, Idles
  <2>34. ASSUME NEW g \in FlushCallers, FlushTracesAsync(g) PROVE Idles(f) \/ Progress(f)
    BY <2>34, <1>0 DEF FlushTracesAsync, Idles, Progress, BegunPc
  <2>35. ASSUME NEW g \in FlushCallers, WriteWatermark(g) PROVE Idles(f) \/ Progress(f)
    BY <2>35, <1>0 DEF WriteWatermark, Idles, Progress, BegunPc
  <2>36. ASSUME NEW g \in FlushCallers, WakeUpThread(g) PROVE Idles(f) \/ Progress(f)
    BY <2>36, <1>0 DEF WakeUpThread, Idles, Progress, BegunPc
  <2>37. ASSUME NEW g \in FlushCallers, AwaitWatermark(g) PROVE Idles(f) \/ Progress(f)
    BY <2>37, <1>0 DEF AwaitWatermark, Idles, Progress, BegunPc
  <2>38. ASSUME NEW g \in Closers, FlushAndCloseAsync(g) PROVE Idles(f) \/ Progress(f)
    BY <2>38, <1>0 DEF FlushAndCloseAsync, Idles, Progress, BegunPc
  <2>39. ASSUME NEW g \in Closers, SetForExit(g) PROVE Idles(f) \/ Progress(f)
    BY <2>39, <1>0 DEF SetForExit, Idles, Progress, BegunPc
  <2>40. ASSUME NEW g \in Closers, AwaitSerialization(g) PROVE Idles(f) \/ Progress(f)
    BY <2>40, <1>0 DEF AwaitSerialization, Idles, Progress, BegunPc
  <2>41. ASSUME NEW g \in Closers, SerializationTimeout(g) PROVE Idles(f) \/ Progress(f)
    BY <2>41, <1>0 DEF SerializationTimeout, Idles, Progress, BegunPc
  <2>42. ASSUME NEW g \in Closers, CheckLeftover(g) PROVE Idles(f) \/ Progress(f)
    BY <2>42, <1>0 DEF CheckLeftover, Idles, Progress, BegunPc
  <2>43. ASSUME NEW g \in Closers, LeftoverTimeout(g) PROVE Idles(f) \/ Progress(f)
    BY <2>43, <1>0 DEF LeftoverTimeout, Idles, Progress, BegunPc
  <2>44. ASSUME NEW g \in Closers, LeftoverFlushed(g) PROVE Idles(f) \/ Progress(f)
    BY <2>44, <1>0 DEF LeftoverFlushed, Idles, Progress, BegunPc
  <2> QED
    BY <1>4, <2>1, <2>2, <2>3, <2>4, <2>5, <2>6, <2>7, <2>8, <2>9, <2>10, <2>11, <2>12,
       <2>13, <2>14, <2>15, <2>16, <2>17, <2>18, <2>19, <2>20, <2>21, <2>22, <2>23,
       <2>24, <2>25, <2>26, <2>27, <2>28, <2>29, <2>30, <2>31, <2>32, <2>33, <2>34,
       <2>35, <2>36, <2>37, <2>38, <2>39, <2>40, <2>41, <2>42, <2>43, <2>44
    DEF Next, SerializeTrace, SerializeTracesLoop, Flush, FlushTraces, FlushAndClose
<1>5. CASE UNCHANGED vars
  BY <1>5 DEF vars, Idles
<1> QED
  BY <1>4, <1>5

-----------------------------------------------------------------------------
(* A call of FlushTracesAsync *)

\* The watermark of call f stays where it is relative to the traces before it.
QueueKept(f) ==
    /\ UNCHANGED <<watermark[f], written[f]>>
    /\ Waits(f)' => Waits(f)
    /\ Once(f) => Once(f)'
    /\ \A t \in written[f] : Before(t, f) => Before(t, f)'

\* Where call f can go, besides its start.
Goes(f) ==
    \/ fpc'[f] = fpc[f]
    \/ fpc[f] \in FlushingPc /\ fpc'[f] \in FlushingPc
    \/ fpc[f] = "set" /\ fpc'[f] = "awaitWatermark"
    \/ fpc[f] = "awaitWatermark" /\ watermark[f] /\ fpc'[f] = "flushBuffers"

\* A call keeps its invariant as it goes on.
LEMMA CallStep ==
    ASSUME TypeInv, LockInv, Places, Kinds, NEW f \in FlushCallers, CallInv(f),
           QueueKept(f), Goes(f), Idles(f) \/ Progress(f)
    PROVE  CallInv(f)'
<1>0. written[f] \subseteq Traces /\ watermark[f] \in BOOLEAN
  BY DEF TypeInv, TypeOK
<1>1. WatermarkInv(f) /\ \A t \in written[f] : WrittenInv(f, t)
  BY DEF CallInv
<1>2. WatermarkInv(f)'
  BY <1>1, <1>0 DEF WatermarkInv, QueueKept, Idles, Goes, Progress, FlushingPc
<1>3. ASSUME NEW t \in written[f] PROVE WrittenInv(f, t)'
  <2>0. t \in Traces /\ WrittenInv(f, t)
    BY <1>0, <1>1
  <2>1. Kept(t)
    BY <2>0, KindsKeep DEF WrittenInv
  <2>2. Before(t, f)'
    BY <2>0 DEF QueueKept, WrittenInv
  <2>3. ~IsNew(t)' /\ (watermark'[f] => Past(t)')
    BY <2>0, <2>1 DEF Kept, WrittenInv, QueueKept
  <2>4. ASSUME fpc'[f] \in BegunPc, NEW b \in Buffers, ~Ahead(f, b)', t \in TracesIn(b)'
        PROVE  b \in (Sending \cup Sent)'
    <3>1. watermark[f]
      BY <1>1, <2>4 DEF Goes, WatermarkInv, BegunPc, FlushingPc
    <3>2. Held # t
      BY <2>0, <3>1 DEF WrittenInv, Past
    <3>3. t \in TracesIn(b) /\ (b \in Sending \cup Sent => b \in (Sending \cup Sent)')
      BY <2>1, <2>4, <3>2 DEF Kept
    <3>4. b \in (Sending \cup Sent)' \/ (fpc[f] \in BegunPc /\ ~Ahead(f, b))
      <4>1. CASE Idles(f)
        BY <2>4, <4>1 DEF Idles, Ahead
      <4>2. CASE Progress(f)
        BY <2>4, <4>2 DEF Progress
      <4> QED
        BY <4>1, <4>2
    <3> QED
      BY <2>0, <3>3, <3>4 DEF WrittenInv
  <2> QED
    BY <2>2, <2>3, <2>4 DEF WrittenInv
<1> QED
  BY <1>2, <1>3 DEF CallInv, QueueKept

\* The invariant of call f is preserved while the serialization thread runs.
LEMMA CallInvNext ==
    ASSUME TypeInv, LockInv, Places, Kinds, [Next]_vars,
           ~SerializationCompleted, ~SerializationCompleted',
           NEW f \in FlushCallers, CallInv(f)
    PROVE  CallInv(f)'
<1>0. /\ f \in Flushers /\ f # FlushLoop /\ f \notin Closers /\ f \notin Traces
      /\ plan \in [Flushers -> Seq(Buffers)]
      /\ fpc \in [Flushers -> FlusherPc]
      /\ sending \in [Flushers -> {"no", "send", "clear", "unlock"}]
      /\ watermark \in [FlushCallers -> BOOLEAN]
      /\ written \in [FlushCallers \cup Closers -> SUBSET Traces]
      /\ pc \in [Threads -> ThreadPc] /\ Serializer \in Threads /\ Serializer \notin Traces
      /\ FlushLoop \in Flushers /\ Closers \subseteq Flushers /\ FlushCallers \subseteq Flushers
  BY ActorsAssumption DEF TypeInv, TypeOK, Flushers, Threads
<1>1. WatermarkInv(f) /\ \A t \in written[f] : WrittenInv(f, t)
  BY DEF CallInv
<1>2. pendingTraces' = pendingTraces /\ UNCHANGED <<watermark[f], written[f]>> => QueueKept(f)
  BY DEF QueueKept, Waits, Once, Before
<1>3. QueueKept(f) /\ Goes(f) => CallInv(f)'
  BY <1>0, PlanProgress, CallStep
<1> USE DEF queueVars, bufferVars, threadVars, flusherVars, accountVars
<1>4. CASE Next
  <2>1. ASSUME NEW t \in Traces, WriteTrace(t) PROVE CallInv(f)'
    <3>1. pendingTraces' = pendingTraces /\ UNCHANGED <<watermark[f], written[f]>> /\ Goes(f)
      BY <2>1, <1>0 DEF WriteTrace, Goes, FlushingPc
    <3> QED
      BY <3>1, <1>2, <1>3
  <2>2. ASSUME NEW t \in Traces, Enqueue(t) PROVE CallInv(f)'
    <3>1. /\ pendingTraces' = Append(pendingTraces, t) /\ IsNew(t)
          /\ UNCHANGED <<watermark[f], written[f]>> /\ Goes(f)
      BY <2>2, <1>0 DEF Enqueue, Goes, IsNew
    <3>2. \A u \in written[f] : t # u
      BY <3>1, <1>1 DEF WrittenInv
    <3>3. t # f
      BY <1>0
    <3>4. QueueKept(f)
      BY <3>1, <3>2, <3>3, AppendOrder DEF QueueKept
    <3> QED
      BY <3>1, <3>4, <1>3
  <2>3. ASSUME NEW t \in Traces, IsSet(t) PROVE CallInv(f)'
    <3>1. pendingTraces' = pendingTraces /\ UNCHANGED <<watermark[f], written[f]>> /\ Goes(f)
      BY <2>3, <1>0 DEF IsSet, Goes, FlushingPc
    <3> QED
      BY <3>1, <1>2, <1>3
  <2>4. ASSUME NEW t \in Traces, Set(t) PROVE CallInv(f)'
    <3>1. pendingTraces' = pendingTraces /\ UNCHANGED <<watermark[f], written[f]>> /\ Goes(f)
      BY <2>4, <1>0 DEF Set, Goes, FlushingPc
    <3> QED
      BY <3>1, <1>2, <1>3
  <2>5. ASSUME NEW p \in Threads, ReadActiveBuffer(p) PROVE CallInv(f)'
    <3>1. pendingTraces' = pendingTraces /\ UNCHANGED <<watermark[f], written[f]>> /\ Goes(f)
      BY <2>5, <1>0 DEF ReadActiveBuffer, Goes, FlushingPc
    <3> QED
      BY <3>1, <1>2, <1>3
  <2>6. ASSUME NEW p \in Threads, TryWriteRefused(p) PROVE CallInv(f)'
    <3>1. pendingTraces' = pendingTraces /\ UNCHANGED <<watermark[f], written[f]>> /\ Goes(f)
      BY <2>6, <1>0 DEF TryWriteRefused, Refused, Goes, FlushingPc
    <3> QED
      BY <3>1, <1>2, <1>3
  <2>7. ASSUME NEW p \in Threads, TryWriteSerialize(p) PROVE CallInv(f)'
    <3>1. pendingTraces' = pendingTraces /\ UNCHANGED <<watermark[f], written[f]>> /\ Goes(f)
      BY <2>7, <1>0 DEF TryWriteSerialize, TryWriteEnters, TraceOf, Goes, FlushingPc
    <3> QED
      BY <3>1, <1>2, <1>3
  <2>8. ASSUME NEW p \in Threads, TryWriteThrow(p) PROVE CallInv(f)'
    <3>1. pendingTraces' = pendingTraces /\ UNCHANGED <<watermark[f], written[f]>> /\ Goes(f)
      BY <2>8, <1>0 DEF TryWriteThrow, TryWriteEnters, TraceOf, Throw, Goes, FlushingPc
    <3> QED
      BY <3>1, <1>2, <1>3
  <2>9. ASSUME NEW p \in Threads, TryWriteCopy(p) PROVE CallInv(f)'
    <3>1. pendingTraces' = pendingTraces /\ UNCHANGED <<watermark[f], written[f]>> /\ Goes(f)
      BY <2>9, <1>0 DEF TryWriteCopy, TraceOf, Return, Refused, Goes, FlushingPc
    <3> QED
      BY <3>1, <1>2, <1>3
  <2>10. ASSUME NEW p \in Threads, SwapBuffers(p) PROVE CallInv(f)'
    <3>1. pendingTraces' = pendingTraces /\ UNCHANGED <<watermark[f], written[f]>> /\ Goes(f)
      BY <2>10, <1>0 DEF SwapBuffers, Goes, FlushingPc
    <3> QED
      BY <3>1, <1>2, <1>3
  <2>11. ASSUME NEW p \in Threads, SwapBuffersWrite(p) PROVE CallInv(f)'
    <3>1. pendingTraces' = pendingTraces /\ UNCHANGED <<watermark[f], written[f]>> /\ Goes(f)
      BY <2>11, <1>0 DEF SwapBuffersWrite, Goes, FlushingPc
    <3> QED
      BY <3>1, <1>2, <1>3
  <2>12. ASSUME NEW p \in Threads, RequestFlush(p) PROVE CallInv(f)'
    <3>1. pendingTraces' = pendingTraces /\ UNCHANGED <<watermark[f], written[f]>> /\ Goes(f)
      BY <2>12, <1>0 DEF RequestFlush, Goes, FlushingPc
    <3> QED
      BY <3>1, <1>2, <1>3
  <2>13. ASSUME NEW p \in Threads, CompleteForceFlush(p) PROVE CallInv(f)'
    <3>1. pendingTraces' = pendingTraces /\ UNCHANGED <<watermark[f], written[f]>> /\ Goes(f)
      BY <2>13, <1>0 DEF CompleteForceFlush, Goes, FlushingPc
    <3> QED
      BY <3>1, <1>2, <1>3
  <2>14. ASSUME NEW p \in Threads, DropTrace(p) PROVE CallInv(f)'
    <3>1. pendingTraces' = pendingTraces /\ UNCHANGED <<watermark[f], written[f]>> /\ Goes(f)
      BY <2>14, <1>0 DEF DropTrace, Return, Goes, FlushingPc
    <3> QED
      BY <3>1, <1>2, <1>3
  <2>15. CASE DequeueTrace
    <3>1. /\ pendingTraces # <<>> /\ pendingTraces' = Tail(pendingTraces)
          /\ UNCHANGED <<watermark[f], written[f]>> /\ Goes(f)
      BY <2>15, <1>0 DEF DequeueTrace, Goes
    <3>2. QueueKept(f)
      BY <3>1, TailOrder DEF QueueKept
    <3> QED
      BY <3>1, <3>2, <1>3
  <2>16. CASE DequeueWatermark
    <3>1. /\ pendingTraces # <<>> /\ pendingTraces' = Tail(pendingTraces)
          /\ UNCHANGED <<fpc, plan, written>> /\ UNCHANGED <<pc, item>>
          /\ pc[Serializer] = "drain"
          /\ watermark' = [watermark EXCEPT ![Head(pendingTraces)] = TRUE]
      BY <2>16 DEF DequeueWatermark
    <3>2. CASE Head(pendingTraces) # f
      <4>1. UNCHANGED <<watermark[f], written[f]>> /\ Goes(f)
        BY <3>1, <3>2, <1>0 DEF Goes
      <4>2. QueueKept(f)
        BY <3>1, <4>1, TailOrder DEF QueueKept
      <4> QED
        BY <4>1, <4>2, <1>3
    <3>3. CASE Head(pendingTraces) = f
      <4>1. Once(f) /\ \A t \in written[f] : Before(t, f)
        BY <1>1 DEF WatermarkInv, WrittenInv
      <4>2. /\ ~Waits(f)' /\ Once(f)'
            /\ \A t \in written[f] : Before(t, f)' /\ ~Waits(t) /\ ~Waits(t)'
        BY <3>1, <3>3, <4>1, TailOrder
      <4>3. Waits(f)
        BY <3>1, <3>3, QueueShortened
      <4>4. fpc[f] \in {"set", "awaitWatermark"}
        BY <4>3, <1>1 DEF WatermarkInv
      <4>5. watermark'[f] = TRUE
        BY <3>1, <3>3, <1>0
      <4>6. WatermarkInv(f)'
        BY <3>1, <4>2, <4>4, <4>5 DEF WatermarkInv, FlushingPc
      <4>7. ASSUME NEW t \in written[f] PROVE WrittenInv(f, t)'
        <5>1. ~IsNew(t)'
          BY <3>1, <1>1 DEF WrittenInv, IsNew
        <5>2. Held' # t
          <6>1. Held' = None
            BY <3>1 DEF Held, SerializePc
          <6> QED
            BY <6>1, <1>0, ActorsAssumption DEF Threads
        <5> QED
          BY <3>1, <4>2, <4>4, <5>1, <5>2 DEF WrittenInv, Past, BegunPc
      <4> QED
        BY <3>1, <4>6, <4>7 DEF CallInv
    <3> QED
      BY <3>2, <3>3
  <2>17. CASE QueueDrained
    <3>1. pendingTraces' = pendingTraces /\ UNCHANGED <<watermark[f], written[f]>> /\ Goes(f)
      BY <2>17, <1>0 DEF QueueDrained, Goes, FlushingPc
    <3> QED
      BY <3>1, <1>2, <1>3
  <2>18. CASE CheckProcessExit
    <3>1. pendingTraces' = pendingTraces /\ UNCHANGED <<watermark[f], written[f]>> /\ Goes(f)
      BY <2>18, <1>0 DEF CheckProcessExit, Goes, FlushingPc
    <3> QED
      BY <3>1, <1>2, <1>3
  <2>19. CASE Sleep
    <3>1. pendingTraces' = pendingTraces /\ UNCHANGED <<watermark[f], written[f]>> /\ Goes(f)
      BY <2>19, <1>0 DEF Sleep, Goes, FlushingPc
    <3> QED
      BY <3>1, <1>2, <1>3
  <2>20. CASE Wait
    <3>1. pendingTraces' = pendingTraces /\ UNCHANGED <<watermark[f], written[f]>> /\ Goes(f)
      BY <2>20, <1>0 DEF Wait, Goes, FlushingPc
    <3> QED
      BY <3>1, <1>2, <1>3
  <2>21. CASE Reset
    <3>1. pendingTraces' = pendingTraces /\ UNCHANGED <<watermark[f], written[f]>> /\ Goes(f)
      BY <2>21, <1>0 DEF Reset, Goes, FlushingPc
    <3> QED
      BY <3>1, <1>2, <1>3
  <2>22. ASSUME NEW g \in Flushers, FlushBuffers(g) PROVE CallInv(f)'
    <3>1. pendingTraces' = pendingTraces /\ UNCHANGED <<watermark[f], written[f]>> /\ Goes(f)
      BY <2>22, <1>0 DEF FlushBuffers, Goes, FlushingPc
    <3> QED
      BY <3>1, <1>2, <1>3
  <2>23. ASSUME NEW g \in Flushers, CheckFallback(g) PROVE CallInv(f)'
    <3>1. pendingTraces' = pendingTraces /\ UNCHANGED <<watermark[f], written[f]>> /\ Goes(f)
      BY <2>23, <1>0 DEF CheckFallback, Goes, FlushingPc
    <3> QED
      BY <3>1, <1>2, <1>3
  <2>24. ASSUME NEW g \in Flushers, FlushBuffer(g) PROVE CallInv(f)'
    <3>1. pendingTraces' = pendingTraces /\ UNCHANGED <<watermark[f], written[f]>> /\ Goes(f)
      BY <2>24, <1>0 DEF FlushBuffer, Goes, FlushingPc
    <3> QED
      BY <3>1, <1>2, <1>3
  <2>25. ASSUME NEW g \in Flushers, LockBuffer(g) PROVE CallInv(f)'
    <3>1. pendingTraces' = pendingTraces /\ UNCHANGED <<watermark[f], written[f]>> /\ Goes(f)
      BY <2>25, <1>0 DEF LockBuffer, Goes, FlushingPc
    <3> QED
      BY <3>1, <1>2, <1>3
  <2>26. ASSUME NEW g \in Flushers, LockRefused(g) PROVE CallInv(f)'
    <3>1. pendingTraces' = pendingTraces /\ UNCHANGED <<watermark[f], written[f]>> /\ Goes(f)
      BY <2>26, <1>0 DEF LockRefused, Goes, FlushingPc
    <3> QED
      BY <3>1, <1>2, <1>3
  <2>27. ASSUME NEW g \in Flushers, SendTracesAsync(g) PROVE CallInv(f)'
    <3>1. pendingTraces' = pendingTraces /\ UNCHANGED <<watermark[f], written[f]>> /\ Goes(f)
      BY <2>27, <1>0 DEF SendTracesAsync, Goes, FlushingPc
    <3> QED
      BY <3>1, <1>2, <1>3
  <2>28. ASSUME NEW g \in Flushers, ClearBuffer(g) PROVE CallInv(f)'
    <3>1. pendingTraces' = pendingTraces /\ UNCHANGED <<watermark[f], written[f]>> /\ Goes(f)
      BY <2>28, <1>0 DEF ClearBuffer, Goes, FlushingPc
    <3> QED
      BY <3>1, <1>2, <1>3
  <2>29. ASSUME NEW g \in Flushers, UnlockBuffer(g) PROVE CallInv(f)'
    <3>1. pendingTraces' = pendingTraces /\ UNCHANGED <<watermark[f], written[f]>> /\ Goes(f)
      BY <2>29, <1>0 DEF UnlockBuffer, Goes, FlushingPc
    <3> QED
      BY <3>1, <1>2, <1>3
  <2>30. ASSUME NEW g \in Flushers, AssignFlushTask(g) PROVE CallInv(f)'
    <3>1. pendingTraces' = pendingTraces /\ UNCHANGED <<watermark[f], written[f]>> /\ Goes(f)
      BY <2>30, <1>0 DEF AssignFlushTask, Goes, FlushingPc
    <3> QED
      BY <3>1, <1>2, <1>3
  <2>31. ASSUME NEW g \in Flushers, AwaitFlushTask(g) PROVE CallInv(f)'
    <3>1. pendingTraces' = pendingTraces /\ UNCHANGED <<watermark[f], written[f]>> /\ Goes(f)
      BY <2>31, <1>0 DEF AwaitFlushTask, Goes, FlushingPc
    <3> QED
      BY <3>1, <1>2, <1>3
  <2>32. CASE ReplaceForceFlush
    <3>1. pendingTraces' = pendingTraces /\ UNCHANGED <<watermark[f], written[f]>> /\ Goes(f)
      BY <2>32, <1>0 DEF ReplaceForceFlush, Goes, FlushingPc
    <3> QED
      BY <3>1, <1>2, <1>3
  <2>33. CASE CheckSerializationTask
    <3>1. pendingTraces' = pendingTraces /\ UNCHANGED <<watermark[f], written[f]>> /\ Goes(f)
      BY <2>33, <1>0 DEF CheckSerializationTask, Goes, FlushingPc
    <3> QED
      BY <3>1, <1>2, <1>3
  <2>34. ASSUME NEW g \in FlushCallers, FlushTracesAsync(g) PROVE CallInv(f)'
    <3>1. pendingTraces' = pendingTraces /\ UNCHANGED <<watermark, pc>>
      BY <2>34 DEF FlushTracesAsync
    <3>2. CASE g # f
      <4>1. UNCHANGED <<watermark[f], written[f]>> /\ Goes(f)
        BY <2>34, <3>2, <1>0 DEF FlushTracesAsync, Goes
      <4> QED
        BY <3>1, <4>1, <1>2, <1>3
    <3>3. CASE g = f
      <4>1. /\ fpc[f] = "idle" /\ fpc'[f] = "enqueue" /\ written'[f] = WrittenTraces
        BY <2>34, <3>3, <1>0 DEF FlushTracesAsync
      <4>2. ~Waits(f) /\ ~watermark[f] /\ Once(f)
        BY <4>1, <1>1 DEF WatermarkInv
      <4>3. WatermarkInv(f)'
        BY <3>1, <4>1, <4>2 DEF WatermarkInv, FlushingPc, Waits, Once
      <4>4. ASSUME NEW t \in WrittenTraces PROVE WrittenInv(f, t)'
        <5>1. pc'[t] = "done"
          BY <3>1 DEF WrittenTraces
        <5>2. ~IsNew(t)'
          BY <5>1 DEF IsNew
        <5>3. Before(t, f)'
          BY <3>1, <4>2 DEF Before, Waits
        <5> QED
          BY <3>1, <4>1, <4>2, <5>2, <5>3 DEF WrittenInv, BegunPc
      <4> QED
        BY <4>1, <4>3, <4>4 DEF CallInv
    <3> QED
      BY <3>2, <3>3
  <2>35. ASSUME NEW g \in FlushCallers, WriteWatermark(g) PROVE CallInv(f)'
    <3>1. /\ pendingTraces' = Append(pendingTraces, g) /\ UNCHANGED <<watermark, written, pc, item>>
          /\ UNCHANGED plan
      BY <2>35 DEF WriteWatermark
    <3>t. \A t \in written[f] : t \in Traces /\ g # t
      BY <2>35, <1>0, ActorsAssumption DEF Threads, Flushers
    <3>2. CASE g # f
      <4>1. Goes(f)
        BY <2>35, <3>2, <1>0 DEF WriteWatermark, Goes
      <4>2. QueueKept(f)
        BY <3>1, <3>2, <3>t, AppendOrder DEF QueueKept
      <4> QED
        BY <4>1, <4>2, <1>3
    <3>3. CASE g = f
      <4>1. fpc[f] = "enqueue" /\ fpc'[f] = "set"
        BY <2>35, <3>3, <1>0 DEF WriteWatermark
      <4>2. ~Waits(f) /\ ~watermark[f]
        BY <4>1, <1>1 DEF WatermarkInv
      <4>3. Once(f)' /\ \A t \in written[f] : Before(t, f)'
        BY <3>1, <3>3, <3>t, <4>2, AppendOrder
      <4>4. WatermarkInv(f)'
        BY <3>1, <4>1, <4>2, <4>3 DEF WatermarkInv, FlushingPc
      <4>5. ASSUME NEW t \in written[f] PROVE WrittenInv(f, t)'
        <5>1. ~IsNew(t)'
          BY <3>1, <1>1 DEF WrittenInv, IsNew
        <5> QED
          BY <3>1, <4>1, <4>2, <4>3, <5>1 DEF WrittenInv, BegunPc
      <4> QED
        BY <3>1, <4>4, <4>5 DEF CallInv
    <3> QED
      BY <3>2, <3>3
  <2>36. ASSUME NEW g \in FlushCallers, WakeUpThread(g) PROVE CallInv(f)'
    <3>1. pendingTraces' = pendingTraces /\ UNCHANGED <<watermark[f], written[f]>> /\ Goes(f)
      BY <2>36, <1>0 DEF WakeUpThread, Goes, FlushingPc
    <3> QED
      BY <3>1, <1>2, <1>3
  <2>37. ASSUME NEW g \in FlushCallers, AwaitWatermark(g) PROVE CallInv(f)'
    <3>1. pendingTraces' = pendingTraces /\ UNCHANGED <<watermark[f], written[f]>> /\ Goes(f)
      BY <2>37, <1>0 DEF AwaitWatermark, Goes, FlushingPc
    <3> QED
      BY <3>1, <1>2, <1>3
  <2>38. ASSUME NEW c \in Closers, FlushAndCloseAsync(c) PROVE CallInv(f)'
    <3>1. pendingTraces' = pendingTraces /\ UNCHANGED <<watermark[f], written[f]>> /\ Goes(f)
      BY <2>38, <1>0 DEF FlushAndCloseAsync, Goes, FlushingPc
    <3> QED
      BY <3>1, <1>2, <1>3
  <2>39. ASSUME NEW c \in Closers, SetForExit(c) PROVE CallInv(f)'
    <3>1. pendingTraces' = pendingTraces /\ UNCHANGED <<watermark[f], written[f]>> /\ Goes(f)
      BY <2>39, <1>0 DEF SetForExit, Goes, FlushingPc
    <3> QED
      BY <3>1, <1>2, <1>3
  <2>40. ASSUME NEW c \in Closers, AwaitSerialization(c) PROVE CallInv(f)'
    <3>1. pendingTraces' = pendingTraces /\ UNCHANGED <<watermark[f], written[f]>> /\ Goes(f)
      BY <2>40, <1>0 DEF AwaitSerialization, Goes, FlushingPc
    <3> QED
      BY <3>1, <1>2, <1>3
  <2>41. ASSUME NEW c \in Closers, SerializationTimeout(c) PROVE CallInv(f)'
    <3>1. pendingTraces' = pendingTraces /\ UNCHANGED <<watermark[f], written[f]>> /\ Goes(f)
      BY <2>41, <1>0 DEF SerializationTimeout, Goes, FlushingPc
    <3> QED
      BY <3>1, <1>2, <1>3
  <2>42. ASSUME NEW c \in Closers, CheckLeftover(c) PROVE CallInv(f)'
    <3>1. pendingTraces' = pendingTraces /\ UNCHANGED <<watermark[f], written[f]>> /\ Goes(f)
      BY <2>42, <1>0 DEF CheckLeftover, Goes, FlushingPc
    <3> QED
      BY <3>1, <1>2, <1>3
  <2>43. ASSUME NEW c \in Closers, LeftoverTimeout(c) PROVE CallInv(f)'
    <3>1. pendingTraces' = pendingTraces /\ UNCHANGED <<watermark[f], written[f]>> /\ Goes(f)
      BY <2>43, <1>0 DEF LeftoverTimeout, Goes, FlushingPc
    <3> QED
      BY <3>1, <1>2, <1>3
  <2>44. ASSUME NEW c \in Closers, LeftoverFlushed(c) PROVE CallInv(f)'
    <3>1. pendingTraces' = pendingTraces /\ UNCHANGED <<watermark[f], written[f]>> /\ Goes(f)
      BY <2>44, <1>0 DEF LeftoverFlushed, Goes, FlushingPc
    <3> QED
      BY <3>1, <1>2, <1>3
  <2> QED
    BY <1>4, <2>1, <2>2, <2>3, <2>4, <2>5, <2>6, <2>7, <2>8, <2>9, <2>10, <2>11, <2>12,
       <2>13, <2>14, <2>15, <2>16, <2>17, <2>18, <2>19, <2>20, <2>21, <2>22, <2>23,
       <2>24, <2>25, <2>26, <2>27, <2>28, <2>29, <2>30, <2>31, <2>32, <2>33, <2>34,
       <2>35, <2>36, <2>37, <2>38, <2>39, <2>40, <2>41, <2>42, <2>43, <2>44
    DEF Next, SerializeTrace, SerializeTracesLoop, Flush, FlushTraces, FlushAndClose
<1>5. CASE UNCHANGED vars
  <2>1. pendingTraces' = pendingTraces /\ UNCHANGED <<watermark[f], written[f]>> /\ Goes(f)
    BY <1>5 DEF vars, Goes
  <2> QED
    BY <2>1, <1>2, <1>3
<1> QED
  BY <1>4, <1>5

\* What a call of FlushTracesAsync relies on survives every step of the
\* others, as long as the serialization thread runs.
LEMMA FlushCallInvNext ==
    TypeInv /\ LockInv /\ SwapInv /\ TempInv /\ PlaceInv /\ FlushCallInv /\ [Next]_vars
        => FlushCallInv'
<1> SUFFICES ASSUME TypeInv, LockInv, SwapInv, TempInv, PlaceInv, FlushCallInv, [Next]_vars,
                    ~SerializationCompleted', NEW f \in FlushCallers
             PROVE  CallInv(f)'
  BY DEF FlushCallInv
<1>1. ~SerializationCompleted
  BY CompletedStays
<1>2. Places /\ CallInv(f)
  BY <1>1 DEF PlaceInv, FlushCallInv
<1>3. Kinds
  BY StepKinds
<1> QED
  BY <1>1, <1>2, <1>3, CallInvNext

\* At first no call of FlushTracesAsync has been made.
LEMMA FlushCallInvInit == Init => FlushCallInv
<1> SUFFICES ASSUME Init, NEW f \in FlushCallers PROVE CallInv(f)
  BY DEF FlushCallInv
<1>1. pendingTraces = <<>> /\ fpc[f] = "idle" /\ ~watermark[f] /\ written[f] = {}
  BY ActorsAssumption DEF Init, Flushers
<1>2. ~Waits(f) /\ Once(f)
  BY <1>1 DEF Waits, Once
<1> QED
  BY <1>1, <1>2 DEF CallInv, WatermarkInv, FlushingPc

\* When a call of FlushTracesAsync returns while the serialization thread runs,
\* every trace whose WriteTrace had returned before the call is out of the
\* queue and out of the serializer, and in no buffer but one that a flush has
\* locked: for any number of concurrent calls, and whatever the flush loop and
\* the swaps of the buffers do in the meantime.
THEOREM FlushTracesPromiseCorrect == Spec => []FlushTracesPromise
<1>1. TypeInv /\ LockInv /\ PlaceInv /\ FlushCallInv => FlushTracesPromise
  <2> SUFFICES ASSUME TypeInv, LockInv, Places, NEW f \in FlushCallers, CallInv(f),
                      FlushTracesReturned(f), NEW t \in written[f], InTransit(t)
               PROVE  \E b \in Buffers : InBuffer(t, b) /\ buffer[b].locked
    BY DEF FlushTracesPromise, PlaceInv, FlushCallInv
  <2>0. t \in Traces /\ f \in Flushers /\ plan[f] \in Seq(Buffers)
    BY DEF TypeInv, TypeOK, Flushers
  <2>1. fpc[f] = "flushed" /\ WatermarkInv(f) /\ WrittenInv(f, t)
    BY DEF FlushTracesReturned, CallInv
  <2>2. Past(t)
    BY <2>1 DEF WatermarkInv, WrittenInv, FlushingPc
  <2>3. ~InQueue(t)
    <3>1. \A i, j \in DOMAIN pendingTraces :
            pendingTraces[i] = t /\ pendingTraces[j] = t => i = j
      BY <2>2 DEF Past, Waits
    <3>2. pendingTraces \in Seq(Traces \cup FlushCallers)
      BY DEF TypeInv, TypeOK
    <3>3. Copies(pendingTraces, t)
            = IF \E i \in DOMAIN pendingTraces : pendingTraces[i] = t THEN 1 ELSE 0
      BY <3>1, <3>2, CopiesOfOne
    <3> QED
      BY <2>2, <3>3 DEF InQueue, Past, Waits
  <2>4. ~(pc[Serializer] \in SerializePc /\ item = t)
    BY <2>2 DEF Past, Held
  <2>5. PICK b \in Buffers : InBuffer(t, b)
    BY <2>3, <2>4 DEF InTransit
  <2>6. t \in TracesIn(b)
    <3>1. Buffered(t, b) = IF t \in TracesIn(b) /\ b \notin Sent THEN 1 ELSE 0
      BY <2>0, BufferedOnce
    <3> QED
      BY <2>5, <3>1 DEF InBuffer
  <2>7. ~Ahead(f, b)
    BY <2>1 DEF Ahead, WatermarkInv
  <2>8. b \in Sending \cup Sent
    BY <2>1, <2>6, <2>7 DEF WrittenInv, BegunPc
  <2> QED
    BY <2>5, <2>8, FlushedBuffers
<1> QED
  BY <1>1, TypeInvariance, LockInvariance, SwapInvariance, PlaceInvariance,
     FlushCallInvInit, FlushCallInvNext, PTL DEF Spec

-----------------------------------------------------------------------------
(* A call of FlushAndCloseAsync *)

\* The traces written before call c are out of buffer b, or b is being flushed.
Passed(c, b) == b \in Sending \cup Sent \/ written[c] \cap TracesIn(b) = {}

\* How far call c has come.  The traces written before it went through the
\* queue, and a thread that serializes for itself does not copy their bytes.
CloseInv(c) ==
    /\ fpc[c] # "idle" => processExit
    /\ fpc[c] # "idle" /\ outcome[c] # "ignored" =>
         /\ \A t \in written[c] : pc[t] = "done"
         /\ \A u \in Traces : pc[u] \in CopyPc => temporaryBuffer \notin written[c]
    /\ outcome[c] = "ignored" => fpc[c] = "done"
    /\ fpc[c] \in FlushingPc \cup {"awaitFlushTask"} => SerializationCompleted
    /\ fpc[c] = "flushed" => plan[c] = <<>>
    /\ fpc[c] \in BegunPc => \A b \in Buffers : Ahead(c, b) \/ Passed(c, b)
    /\ outcome[c] = "returned" =>
         /\ fpc[c] = "done" /\ SerializationCompleted
         /\ \A b \in Buffers : Passed(c, b)

\* The serialization thread ends when the process exits, and not before.
ExitInv == SerializationCompleted => processExit

ClosingInv == ExitInv /\ \A c \in Closers : CloseInv(c)

\* What a step does to buffer b: it empties it or leaves its contents, and
\* unlocks it only when it is empty; or a thread copies the temporary buffer.
Shrinks(b) ==
    /\ TracesIn(b)' \subseteq TracesIn(b)
    /\ b \in Sending \cup Sent => b \in (Sending \cup Sent)' \/ TracesIn(b)' = {}

Copied(b) ==
    /\ \E p \in Threads : pc[p] \in CopyPc
    /\ TracesIn(b)' \subseteq TracesIn(b) \cup {temporaryBuffer}
    /\ SameFlush

\* Every step does one or the other.
LEMMA BufferMoves ==
    ASSUME TypeInv, TypeInv', LockInv, [Next]_vars, NEW b \in Buffers
    PROVE  Shrinks(b) \/ Copied(b)
<1>0. /\ pc \in [Threads -> ThreadPc]
      /\ target \in [Threads -> Buffers]
      /\ buffer \in [Buffers -> SpanBuffers]
      /\ plan \in [Flushers -> Seq(Buffers)]
      /\ fpc \in [Flushers -> FlusherPc]
      /\ sending \in [Flushers -> {"no", "send", "clear", "unlock"}]
      /\ PlanInv
      /\ FlushLoop \in Flushers /\ FlushCallers \subseteq Flushers
      /\ Closers \subseteq Flushers
  BY DEF TypeInv, TypeOK, Flushers
<1>1. /\ b \in Sending \cup Sent <=>
           \E g \in Flushers : sending[g] # "no" /\ Head(plan[g]) = b
      /\ b \in (Sending \cup Sent)' <=>
           \E g \in Flushers : sending'[g] # "no" /\ Head(plan'[g]) = b
  <2>1. /\ sending \in [Flushers -> {"no", "send", "clear", "unlock"}]
        /\ sending' \in [Flushers -> {"no", "send", "clear", "unlock"}]
    BY DEF TypeInv, TypeOK
  <2> QED
    BY <2>1 DEF Sending, Sent
<1>2. ASSUME buffer' = buffer,
             \A g \in Flushers : sending[g] # "no" =>
                 sending'[g] # "no" /\ Head(plan'[g]) = Head(plan[g])
      PROVE  Shrinks(b)
  BY <1>1, <1>2 DEF Shrinks, TracesIn
<1> USE DEF queueVars, bufferVars, threadVars, flusherVars, accountVars
<1>3. CASE Next
  <2>1. ASSUME NEW t \in Traces, WriteTrace(t) PROVE Shrinks(b) \/ Copied(b)
    <3>1. /\ buffer' = buffer
          /\ \A g \in Flushers : sending[g] # "no" =>
               sending'[g] # "no" /\ Head(plan'[g]) = Head(plan[g])
      BY <2>1, <1>0 DEF WriteTrace, PlanInv
    <3> QED
      BY <3>1, <1>2
  <2>2. ASSUME NEW t \in Traces, Enqueue(t) PROVE Shrinks(b) \/ Copied(b)
    <3>1. /\ buffer' = buffer
          /\ \A g \in Flushers : sending[g] # "no" =>
               sending'[g] # "no" /\ Head(plan'[g]) = Head(plan[g])
      BY <2>2, <1>0 DEF Enqueue, PlanInv
    <3> QED
      BY <3>1, <1>2
  <2>3. ASSUME NEW t \in Traces, IsSet(t) PROVE Shrinks(b) \/ Copied(b)
    <3>1. /\ buffer' = buffer
          /\ \A g \in Flushers : sending[g] # "no" =>
               sending'[g] # "no" /\ Head(plan'[g]) = Head(plan[g])
      BY <2>3, <1>0 DEF IsSet, PlanInv
    <3> QED
      BY <3>1, <1>2
  <2>4. ASSUME NEW t \in Traces, Set(t) PROVE Shrinks(b) \/ Copied(b)
    <3>1. /\ buffer' = buffer
          /\ \A g \in Flushers : sending[g] # "no" =>
               sending'[g] # "no" /\ Head(plan'[g]) = Head(plan[g])
      BY <2>4, <1>0 DEF Set, PlanInv
    <3> QED
      BY <3>1, <1>2
  <2>5. ASSUME NEW p \in Threads, ReadActiveBuffer(p) PROVE Shrinks(b) \/ Copied(b)
    <3>1. /\ buffer' = buffer
          /\ \A g \in Flushers : sending[g] # "no" =>
               sending'[g] # "no" /\ Head(plan'[g]) = Head(plan[g])
      BY <2>5, <1>0 DEF ReadActiveBuffer, PlanInv
    <3> QED
      BY <3>1, <1>2
  <2>6. ASSUME NEW p \in Threads, TryWriteRefused(p) PROVE Shrinks(b) \/ Copied(b)
    <3>1. /\ buffer' = buffer
          /\ \A g \in Flushers : sending[g] # "no" =>
               sending'[g] # "no" /\ Head(plan'[g]) = Head(plan[g])
      BY <2>6, <1>0 DEF TryWriteRefused, PlanInv
    <3> QED
      BY <3>1, <1>2
  <2>7. ASSUME NEW p \in Threads, TryWriteSerialize(p) PROVE Shrinks(b) \/ Copied(b)
    <3>1. /\ buffer' = buffer
          /\ \A g \in Flushers : sending[g] # "no" =>
               sending'[g] # "no" /\ Head(plan'[g]) = Head(plan[g])
      BY <2>7, <1>0 DEF TryWriteSerialize, PlanInv
    <3> QED
      BY <3>1, <1>2
  <2>8. ASSUME NEW p \in Threads, TryWriteThrow(p) PROVE Shrinks(b) \/ Copied(b)
    <3>1. /\ buffer' = buffer
          /\ \A g \in Flushers : sending[g] # "no" =>
               sending'[g] # "no" /\ Head(plan'[g]) = Head(plan[g])
      BY <2>8, <1>0 DEF TryWriteThrow, PlanInv
    <3> QED
      BY <3>1, <1>2
  <2>9. ASSUME NEW p \in Threads, TryWriteCopy(p) PROVE Shrinks(b) \/ Copied(b)
    <3>1. UNCHANGED <<sending, plan>> /\ pc[p] \in CopyPc
      BY <2>9 DEF TryWriteCopy
    <3>2. SameFlush
      BY <3>1, FlushUnchanged
    <3>3. \/ buffer'[b].traces = buffer[b].traces
          \/ buffer'[b].traces = Append(buffer[b].traces, temporaryBuffer)
      BY <2>9, <1>0 DEF TryWriteCopy, Append1, MarkFull, SpanBuffers
    <3>4. buffer[b].traces \in Seq(Traces) /\ temporaryBuffer \in Traces
      BY <3>1, <1>0 DEF SpanBuffers, TypeInv, ItemInv
    <3>5. TracesIn(b)' \subseteq TracesIn(b) \cup {temporaryBuffer}
      <4>1. CASE buffer'[b].traces = buffer[b].traces
        BY <4>1 DEF TracesIn
      <4>2. CASE buffer'[b].traces = Append(buffer[b].traces, temporaryBuffer)
        <5> DEFINE s == buffer[b].traces
                   r == buffer'[b].traces
        <5>1. /\ DOMAIN r = DOMAIN s \cup {Len(s) + 1}
              /\ r[Len(s) + 1] = temporaryBuffer
              /\ \A i \in DOMAIN s : r[i] = s[i]
          BY <3>4, <4>2, AppendElements
        <5>2. TracesIn(b) = {s[i] : i \in DOMAIN s} /\ TracesIn(b)' = {r[i] : i \in DOMAIN r}
          BY DEF TracesIn
        <5> HIDE DEF s, r
        <5> QED
          BY <5>1, <5>2
      <4> QED
        BY <3>3, <4>1, <4>2
    <3> QED
      BY <3>1, <3>2, <3>5 DEF Copied
  <2>10. ASSUME NEW p \in Threads, SwapBuffers(p) PROVE Shrinks(b) \/ Copied(b)
    <3>1. /\ buffer' = buffer
          /\ \A g \in Flushers : sending[g] # "no" =>
               sending'[g] # "no" /\ Head(plan'[g]) = Head(plan[g])
      BY <2>10, <1>0 DEF SwapBuffers, PlanInv
    <3> QED
      BY <3>1, <1>2
  <2>11. ASSUME NEW p \in Threads, SwapBuffersWrite(p) PROVE Shrinks(b) \/ Copied(b)
    <3>1. /\ buffer' = buffer
          /\ \A g \in Flushers : sending[g] # "no" =>
               sending'[g] # "no" /\ Head(plan'[g]) = Head(plan[g])
      BY <2>11, <1>0 DEF SwapBuffersWrite, PlanInv
    <3> QED
      BY <3>1, <1>2
  <2>12. ASSUME NEW p \in Threads, RequestFlush(p) PROVE Shrinks(b) \/ Copied(b)
    <3>1. /\ buffer' = buffer
          /\ \A g \in Flushers : sending[g] # "no" =>
               sending'[g] # "no" /\ Head(plan'[g]) = Head(plan[g])
      BY <2>12, <1>0 DEF RequestFlush, PlanInv
    <3> QED
      BY <3>1, <1>2
  <2>13. ASSUME NEW p \in Threads, CompleteForceFlush(p) PROVE Shrinks(b) \/ Copied(b)
    <3>1. /\ buffer' = buffer
          /\ \A g \in Flushers : sending[g] # "no" =>
               sending'[g] # "no" /\ Head(plan'[g]) = Head(plan[g])
      BY <2>13, <1>0 DEF CompleteForceFlush, PlanInv
    <3> QED
      BY <3>1, <1>2
  <2>14. ASSUME NEW p \in Threads, DropTrace(p) PROVE Shrinks(b) \/ Copied(b)
    <3>1. /\ buffer' = buffer
          /\ \A g \in Flushers : sending[g] # "no" =>
               sending'[g] # "no" /\ Head(plan'[g]) = Head(plan[g])
      BY <2>14, <1>0 DEF DropTrace, PlanInv
    <3> QED
      BY <3>1, <1>2
  <2>15. CASE DequeueTrace
    <3>1. /\ buffer' = buffer
          /\ \A g \in Flushers : sending[g] # "no" =>
               sending'[g] # "no" /\ Head(plan'[g]) = Head(plan[g])
      BY <2>15, <1>0 DEF DequeueTrace, PlanInv
    <3> QED
      BY <3>1, <1>2
  <2>16. CASE DequeueWatermark
    <3>1. /\ buffer' = buffer
          /\ \A g \in Flushers : sending[g] # "no" =>
               sending'[g] # "no" /\ Head(plan'[g]) = Head(plan[g])
      BY <2>16, <1>0 DEF DequeueWatermark, PlanInv
    <3> QED
      BY <3>1, <1>2
  <2>17. CASE QueueDrained
    <3>1. /\ buffer' = buffer
          /\ \A g \in Flushers : sending[g] # "no" =>
               sending'[g] # "no" /\ Head(plan'[g]) = Head(plan[g])
      BY <2>17, <1>0 DEF QueueDrained, PlanInv
    <3> QED
      BY <3>1, <1>2
  <2>18. CASE CheckProcessExit
    <3>1. /\ buffer' = buffer
          /\ \A g \in Flushers : sending[g] # "no" =>
               sending'[g] # "no" /\ Head(plan'[g]) = Head(plan[g])
      BY <2>18, <1>0 DEF CheckProcessExit, PlanInv
    <3> QED
      BY <3>1, <1>2
  <2>19. CASE Sleep
    <3>1. /\ buffer' = buffer
          /\ \A g \in Flushers : sending[g] # "no" =>
               sending'[g] # "no" /\ Head(plan'[g]) = Head(plan[g])
      BY <2>19, <1>0 DEF Sleep, PlanInv
    <3> QED
      BY <3>1, <1>2
  <2>20. CASE Wait
    <3>1. /\ buffer' = buffer
          /\ \A g \in Flushers : sending[g] # "no" =>
               sending'[g] # "no" /\ Head(plan'[g]) = Head(plan[g])
      BY <2>20, <1>0 DEF Wait, PlanInv
    <3> QED
      BY <3>1, <1>2
  <2>21. CASE Reset
    <3>1. /\ buffer' = buffer
          /\ \A g \in Flushers : sending[g] # "no" =>
               sending'[g] # "no" /\ Head(plan'[g]) = Head(plan[g])
      BY <2>21, <1>0 DEF Reset, PlanInv
    <3> QED
      BY <3>1, <1>2
  <2>22. ASSUME NEW f \in Flushers, FlushBuffers(f) PROVE Shrinks(b) \/ Copied(b)
    <3>1. /\ buffer' = buffer
          /\ \A g \in Flushers : sending[g] # "no" =>
               sending'[g] # "no" /\ Head(plan'[g]) = Head(plan[g])
      BY <2>22, <1>0 DEF FlushBuffers, PlanInv
    <3> QED
      BY <3>1, <1>2
  <2>23. ASSUME NEW f \in Flushers, CheckFallback(f) PROVE Shrinks(b) \/ Copied(b)
    <3>1. /\ buffer' = buffer
          /\ \A g \in Flushers : sending[g] # "no" =>
               sending'[g] # "no" /\ Head(plan'[g]) = Head(plan[g])
      BY <2>23, <1>0 DEF CheckFallback, PlanInv
    <3> QED
      BY <3>1, <1>2
  <2>24. ASSUME NEW f \in Flushers, FlushBuffer(f) PROVE Shrinks(b) \/ Copied(b)
    <3>1. /\ buffer' = buffer
          /\ \A g \in Flushers : sending[g] # "no" =>
               sending'[g] # "no" /\ Head(plan'[g]) = Head(plan[g])
      BY <2>24, <1>0 DEF FlushBuffer, PlanInv
    <3> QED
      BY <3>1, <1>2
  <2>25. ASSUME NEW f \in Flushers, LockBuffer(f) PROVE Shrinks(b) \/ Copied(b)
    <3>1. /\ fpc[f] = "lock" /\ plan' = plan
          /\ buffer' = [buffer EXCEPT ![Head(plan[f])] = Lock(@)]
          /\ \A g \in Flushers : g # f => sending'[g] = sending[g]
      BY <2>25, <1>0 DEF LockBuffer
    <3>2. sending[f] = "no"
      BY <3>1, <1>0 DEF PlanInv
    <3>3. buffer'[b].traces = buffer[b].traces
      BY <3>1, <1>0 DEF Lock, SpanBuffers
    <3>4. TracesIn(b)' = TracesIn(b)
      BY <3>3 DEF TracesIn
    <3> QED
      BY <3>1, <3>2, <3>4, <1>1 DEF Shrinks
  <2>26. ASSUME NEW f \in Flushers, LockRefused(f) PROVE Shrinks(b) \/ Copied(b)
    <3>1. /\ buffer' = buffer
          /\ \A g \in Flushers : sending[g] # "no" =>
               sending'[g] # "no" /\ Head(plan'[g]) = Head(plan[g])
      BY <2>26, <1>0 DEF LockRefused, PlanInv
    <3> QED
      BY <3>1, <1>2
  <2>27. ASSUME NEW f \in Flushers, SendTracesAsync(f) PROVE Shrinks(b) \/ Copied(b)
    <3>1. /\ buffer' = buffer
          /\ \A g \in Flushers : sending[g] # "no" =>
               sending'[g] # "no" /\ Head(plan'[g]) = Head(plan[g])
      BY <2>27, <1>0 DEF SendTracesAsync
    <3> QED
      BY <3>1, <1>2
  <2>28. ASSUME NEW f \in Flushers, ClearBuffer(f) PROVE Shrinks(b) \/ Copied(b)
    <3>1. /\ plan' = plan
          /\ buffer' = [buffer EXCEPT ![Head(plan[f])] = ClearContent(@)]
          /\ \A g \in Flushers : sending[g] # "no" => sending'[g] # "no"
      BY <2>28, <1>0 DEF ClearBuffer
    <3>2. buffer'[b].traces = buffer[b].traces \/ buffer'[b].traces = <<>>
      BY <3>1, <1>0 DEF ClearContent, SpanBuffers
    <3>3. TracesIn(b)' \subseteq TracesIn(b)
      <4>1. CASE buffer'[b].traces = buffer[b].traces
        BY <4>1 DEF TracesIn
      <4>2. CASE buffer'[b].traces = <<>>
        BY <4>2 DEF TracesIn
      <4> QED
        BY <3>2, <4>1, <4>2
    <3> QED
      BY <3>1, <3>3, <1>1 DEF Shrinks
  <2>29. ASSUME NEW f \in Flushers, UnlockBuffer(f) PROVE Shrinks(b) \/ Copied(b)
    <3>1. /\ plan' = plan /\ sending[f] = "unlock"
          /\ buffer' = [buffer EXCEPT ![Head(plan[f])] = Unlock(@)]
          /\ \A g \in Flushers : g # f => sending'[g] = sending[g]
      BY <2>29, <1>0 DEF UnlockBuffer
    <3>2. buffer'[b].traces = buffer[b].traces
      BY <3>1, <1>0 DEF Unlock, SpanBuffers
    <3>3. TracesIn(b)' = TracesIn(b)
      BY <3>2 DEF TracesIn
    <3>4. Head(plan[f]) = b => TracesIn(b) = {}
      <4>1. Head(plan[f]) = b => Len(buffer[b].traces) = 0
        BY <3>1 DEF LockInv, MonitorInv, TraceCount
      <4>2. buffer[b].traces \in Seq(Traces)
        BY <1>0 DEF SpanBuffers
      <4>3. DOMAIN buffer[b].traces = 1 .. Len(buffer[b].traces)
        BY <4>2
      <4>4. Len(buffer[b].traces) = 0 => DOMAIN buffer[b].traces = {}
        BY <4>3
      <4> QED
        BY <4>1, <4>4 DEF TracesIn
    <3> QED
      BY <3>1, <3>3, <3>4, <1>1 DEF Shrinks
  <2>30. ASSUME NEW f \in Flushers, AssignFlushTask(f) PROVE Shrinks(b) \/ Copied(b)
    <3>1. /\ buffer' = buffer
          /\ \A g \in Flushers : sending[g] # "no" =>
               sending'[g] # "no" /\ Head(plan'[g]) = Head(plan[g])
      BY <2>30, <1>0 DEF AssignFlushTask, PlanInv
    <3> QED
      BY <3>1, <1>2
  <2>31. ASSUME NEW f \in Flushers, AwaitFlushTask(f) PROVE Shrinks(b) \/ Copied(b)
    <3>1. /\ buffer' = buffer
          /\ \A g \in Flushers : sending[g] # "no" =>
               sending'[g] # "no" /\ Head(plan'[g]) = Head(plan[g])
      BY <2>31, <1>0 DEF AwaitFlushTask, PlanInv
    <3> QED
      BY <3>1, <1>2
  <2>32. CASE ReplaceForceFlush
    <3>1. /\ buffer' = buffer
          /\ \A g \in Flushers : sending[g] # "no" =>
               sending'[g] # "no" /\ Head(plan'[g]) = Head(plan[g])
      BY <2>32, <1>0 DEF ReplaceForceFlush, PlanInv
    <3> QED
      BY <3>1, <1>2
  <2>33. CASE CheckSerializationTask
    <3>1. /\ buffer' = buffer
          /\ \A g \in Flushers : sending[g] # "no" =>
               sending'[g] # "no" /\ Head(plan'[g]) = Head(plan[g])
      BY <2>33, <1>0 DEF CheckSerializationTask, PlanInv
    <3> QED
      BY <3>1, <1>2
  <2>34. ASSUME NEW f \in FlushCallers, FlushTracesAsync(f) PROVE Shrinks(b) \/ Copied(b)
    <3>1. /\ buffer' = buffer
          /\ \A g \in Flushers : sending[g] # "no" =>
               sending'[g] # "no" /\ Head(plan'[g]) = Head(plan[g])
      BY <2>34, <1>0 DEF FlushTracesAsync, PlanInv
    <3> QED
      BY <3>1, <1>2
  <2>35. ASSUME NEW f \in FlushCallers, WriteWatermark(f) PROVE Shrinks(b) \/ Copied(b)
    <3>1. /\ buffer' = buffer
          /\ \A g \in Flushers : sending[g] # "no" =>
               sending'[g] # "no" /\ Head(plan'[g]) = Head(plan[g])
      BY <2>35, <1>0 DEF WriteWatermark, PlanInv
    <3> QED
      BY <3>1, <1>2
  <2>36. ASSUME NEW f \in FlushCallers, WakeUpThread(f) PROVE Shrinks(b) \/ Copied(b)
    <3>1. /\ buffer' = buffer
          /\ \A g \in Flushers : sending[g] # "no" =>
               sending'[g] # "no" /\ Head(plan'[g]) = Head(plan[g])
      BY <2>36, <1>0 DEF WakeUpThread, PlanInv
    <3> QED
      BY <3>1, <1>2
  <2>37. ASSUME NEW f \in FlushCallers, AwaitWatermark(f) PROVE Shrinks(b) \/ Copied(b)
    <3>1. /\ buffer' = buffer
          /\ \A g \in Flushers : sending[g] # "no" =>
               sending'[g] # "no" /\ Head(plan'[g]) = Head(plan[g])
      BY <2>37, <1>0 DEF AwaitWatermark, PlanInv
    <3> QED
      BY <3>1, <1>2
  <2>38. ASSUME NEW c \in Closers, FlushAndCloseAsync(c) PROVE Shrinks(b) \/ Copied(b)
    <3>1. /\ buffer' = buffer
          /\ \A g \in Flushers : sending[g] # "no" =>
               sending'[g] # "no" /\ Head(plan'[g]) = Head(plan[g])
      BY <2>38, <1>0 DEF FlushAndCloseAsync, PlanInv
    <3> QED
      BY <3>1, <1>2
  <2>39. ASSUME NEW c \in Closers, SetForExit(c) PROVE Shrinks(b) \/ Copied(b)
    <3>1. /\ buffer' = buffer
          /\ \A g \in Flushers : sending[g] # "no" =>
               sending'[g] # "no" /\ Head(plan'[g]) = Head(plan[g])
      BY <2>39, <1>0 DEF SetForExit, PlanInv
    <3> QED
      BY <3>1, <1>2
  <2>40. ASSUME NEW c \in Closers, AwaitSerialization(c) PROVE Shrinks(b) \/ Copied(b)
    <3>1. /\ buffer' = buffer
          /\ \A g \in Flushers : sending[g] # "no" =>
               sending'[g] # "no" /\ Head(plan'[g]) = Head(plan[g])
      BY <2>40, <1>0 DEF AwaitSerialization, PlanInv
    <3> QED
      BY <3>1, <1>2
  <2>41. ASSUME NEW c \in Closers, SerializationTimeout(c) PROVE Shrinks(b) \/ Copied(b)
    <3>1. /\ buffer' = buffer
          /\ \A g \in Flushers : sending[g] # "no" =>
               sending'[g] # "no" /\ Head(plan'[g]) = Head(plan[g])
      BY <2>41, <1>0 DEF SerializationTimeout, PlanInv
    <3> QED
      BY <3>1, <1>2
  <2>42. ASSUME NEW c \in Closers, CheckLeftover(c) PROVE Shrinks(b) \/ Copied(b)
    <3>1. /\ buffer' = buffer
          /\ \A g \in Flushers : sending[g] # "no" =>
               sending'[g] # "no" /\ Head(plan'[g]) = Head(plan[g])
      BY <2>42, <1>0 DEF CheckLeftover, PlanInv
    <3> QED
      BY <3>1, <1>2
  <2>43. ASSUME NEW c \in Closers, LeftoverTimeout(c) PROVE Shrinks(b) \/ Copied(b)
    <3>1. /\ buffer' = buffer
          /\ \A g \in Flushers : sending[g] # "no" =>
               sending'[g] # "no" /\ Head(plan'[g]) = Head(plan[g])
      BY <2>43, <1>0 DEF LeftoverTimeout, PlanInv
    <3> QED
      BY <3>1, <1>2
  <2>44. ASSUME NEW c \in Closers, LeftoverFlushed(c) PROVE Shrinks(b) \/ Copied(b)
    <3>1. /\ buffer' = buffer
          /\ \A g \in Flushers : sending[g] # "no" =>
               sending'[g] # "no" /\ Head(plan'[g]) = Head(plan[g])
      BY <2>44, <1>0 DEF LeftoverFlushed, PlanInv
    <3> QED
      BY <3>1, <1>2
  <2> QED
    BY <1>3, <2>1, <2>2, <2>3, <2>4, <2>5, <2>6, <2>7, <2>8, <2>9, <2>10, <2>11, <2>12,
       <2>13, <2>14, <2>15, <2>16, <2>17, <2>18, <2>19, <2>20, <2>21, <2>22, <2>23,
       <2>24, <2>25, <2>26, <2>27, <2>28, <2>29, <2>30, <2>31, <2>32, <2>33, <2>34,
       <2>35, <2>36, <2>37, <2>38, <2>39, <2>40, <2>41, <2>42, <2>43, <2>44
    DEF Next, SerializeTrace, SerializeTracesLoop, Flush, FlushTraces, FlushAndClose
<1>4. CASE UNCHANGED vars
  BY <1>2, <1>4 DEF vars
<1> QED
  BY <1>3, <1>4

\* The exit of the process is not revoked, and the serialization thread ends for
\* no other reason; a written trace is not written again; and while a thread
\* copies for itself, the bytes in the temporary buffer are those that it found
\* there or those of a trace that is being written.
LEMMA ExitSteps ==
    ASSUME TypeInv, SwapInv, [Next]_vars
    PROVE  /\ processExit => processExit'
           /\ SerializationCompleted' => SerializationCompleted \/ processExit
           /\ \A t \in Traces : pc[t] = "done" => pc'[t] = "done"
           /\ \A u \in Traces : pc'[u] \in CopyPc =>
                \/ pc[u] \in CopyPc /\ temporaryBuffer' = temporaryBuffer
                \/ \E t \in Traces : pc[t] \in SerializePc /\ temporaryBuffer' = t
<1> DEFINE Goal ==
      /\ processExit => processExit'
      /\ SerializationCompleted' => SerializationCompleted \/ processExit
      /\ \A t \in Traces : pc[t] = "done" => pc'[t] = "done"
      /\ \A u \in Traces : pc'[u] \in CopyPc =>
           \/ pc[u] \in CopyPc /\ temporaryBuffer' = temporaryBuffer
           \/ \E t \in Traces : pc[t] \in SerializePc /\ temporaryBuffer' = t
<1>0. /\ pc \in [Threads -> ThreadPc] /\ Serializer \in Threads /\ Serializer \notin Traces
      /\ Threads = Traces \cup {Serializer}
      /\ processExit \in BOOLEAN
      /\ pc[Serializer] \in LoopPc
  BY ActorsAssumption DEF TypeInv, TypeOK, PcInv, Threads
<1>s. pc[Serializer] # "done" => \A t \in Traces : pc[t] \notin SerializePc
  BY DEF SwapInv, SerializationCompleted
<1> USE DEF queueVars, bufferVars, threadVars, flusherVars, accountVars
<1>1. ASSUME Next PROVE Goal
  <2>1. ASSUME NEW t \in Traces, WriteTrace(t) PROVE Goal
    BY <2>1, <1>0 DEF WriteTrace, SerializationCompleted, TryWritePc, CopyPc
  <2>2. ASSUME NEW t \in Traces, Enqueue(t) PROVE Goal
    BY <2>2, <1>0 DEF Enqueue, SerializationCompleted, TryWritePc, CopyPc
  <2>3. ASSUME NEW t \in Traces, IsSet(t) PROVE Goal
    BY <2>3, <1>0 DEF IsSet, SerializationCompleted, TryWritePc, CopyPc
  <2>4. ASSUME NEW t \in Traces, Set(t) PROVE Goal
    BY <2>4, <1>0 DEF Set, SerializationCompleted, TryWritePc, CopyPc
  <2>5. ASSUME NEW p \in Threads, ReadActiveBuffer(p) PROVE Goal
    BY <2>5, <1>0 DEF ReadActiveBuffer, SerializationCompleted, TryWritePc, CopyPc
  <2>6. ASSUME NEW p \in Threads, TryWriteRefused(p) PROVE Goal
    BY <2>6, <1>0 DEF TryWriteRefused, Refused, SerializationCompleted, TryWritePc, CopyPc
  <2>7. ASSUME NEW p \in Threads, TryWriteSerialize(p) PROVE Goal
    <3>1. /\ UNCHANGED processExit /\ pc[p] \in TryWritePc /\ temporaryBuffer' = TraceOf(p)
          /\ pc'[p] \in CopyPc /\ \A q \in Threads : q # p => pc'[q] = pc[q]
      BY <2>7, <1>0 DEF TryWriteSerialize, TryWriteEnters, TryWritePc, CopyPc
    <3>2. CASE p = Serializer
      BY <3>1, <3>2, <1>0, <1>s DEF SerializationCompleted, TryWritePc, CopyPc, SerializePc
    <3>3. CASE p \in Traces
      BY <3>1, <3>3, <1>0 DEF SerializationCompleted, TryWritePc, SerializePc, TraceOf
    <3> QED
      BY <3>2, <3>3, <1>0
  <2>8. ASSUME NEW p \in Threads, TryWriteThrow(p) PROVE Goal
    <3>1. /\ UNCHANGED processExit /\ pc[p] \in TryWritePc /\ temporaryBuffer' = TraceOf(p)
          /\ pc'[p] = Throw(p) /\ \A q \in Threads : q # p => pc'[q] = pc[q]
      BY <2>8, <1>0 DEF TryWriteThrow, TryWriteEnters
    <3>2. CASE p = Serializer
      BY <3>1, <3>2, <1>0, <1>s DEF SerializationCompleted, TryWritePc, CopyPc, SerializePc, Throw
    <3>3. CASE p \in Traces
      BY <3>1, <3>3, <1>0 DEF SerializationCompleted, TryWritePc, SerializePc, TraceOf, CopyPc, Throw
    <3> QED
      BY <3>2, <3>3, <1>0
  <2>9. ASSUME NEW p \in Threads, TryWriteCopy(p) PROVE Goal
    BY <2>9, <1>0 DEF TryWriteCopy, TraceOf, Return, Refused, SerializationCompleted, TryWritePc, CopyPc
  <2>10. ASSUME NEW p \in Threads, SwapBuffers(p) PROVE Goal
    BY <2>10, <1>0 DEF SwapBuffers, SerializationCompleted, TryWritePc, CopyPc
  <2>11. ASSUME NEW p \in Threads, SwapBuffersWrite(p) PROVE Goal
    BY <2>11, <1>0 DEF SwapBuffersWrite, SerializationCompleted, TryWritePc, CopyPc
  <2>12. ASSUME NEW p \in Threads, RequestFlush(p) PROVE Goal
    BY <2>12, <1>0 DEF RequestFlush, SerializationCompleted, TryWritePc, CopyPc
  <2>13. ASSUME NEW p \in Threads, CompleteForceFlush(p) PROVE Goal
    BY <2>13, <1>0 DEF CompleteForceFlush, SerializationCompleted, TryWritePc, CopyPc
  <2>14. ASSUME NEW p \in Threads, DropTrace(p) PROVE Goal
    BY <2>14, <1>0 DEF DropTrace, Return, SerializationCompleted, TryWritePc, CopyPc
  <2>15. ASSUME DequeueTrace PROVE Goal
    BY <2>15, <1>0 DEF DequeueTrace, SerializationCompleted, TryWritePc, CopyPc
  <2>16. ASSUME DequeueWatermark PROVE Goal
    BY <2>16, <1>0 DEF DequeueWatermark, SerializationCompleted, TryWritePc, CopyPc
  <2>17. ASSUME QueueDrained PROVE Goal
    BY <2>17, <1>0 DEF QueueDrained, SerializationCompleted, TryWritePc, CopyPc
  <2>18. ASSUME CheckProcessExit PROVE Goal
    BY <2>18, <1>0 DEF CheckProcessExit, SerializationCompleted, TryWritePc, CopyPc
  <2>19. ASSUME Sleep PROVE Goal
    BY <2>19, <1>0 DEF Sleep, SerializationCompleted, TryWritePc, CopyPc
  <2>20. ASSUME Wait PROVE Goal
    BY <2>20, <1>0 DEF Wait, SerializationCompleted, TryWritePc, CopyPc
  <2>21. ASSUME Reset PROVE Goal
    BY <2>21, <1>0 DEF Reset, SerializationCompleted, TryWritePc, CopyPc
  <2>22. ASSUME NEW f \in Flushers, FlushBuffers(f) PROVE Goal
    BY <2>22, <1>0 DEF FlushBuffers, SerializationCompleted, TryWritePc, CopyPc
  <2>23. ASSUME NEW f \in Flushers, CheckFallback(f) PROVE Goal
    BY <2>23, <1>0 DEF CheckFallback, SerializationCompleted, TryWritePc, CopyPc
  <2>24. ASSUME NEW f \in Flushers, FlushBuffer(f) PROVE Goal
    BY <2>24, <1>0 DEF FlushBuffer, SerializationCompleted, TryWritePc, CopyPc
  <2>25. ASSUME NEW f \in Flushers, LockBuffer(f) PROVE Goal
    BY <2>25, <1>0 DEF LockBuffer, SerializationCompleted, TryWritePc, CopyPc
  <2>26. ASSUME NEW f \in Flushers, LockRefused(f) PROVE Goal
    BY <2>26, <1>0 DEF LockRefused, SerializationCompleted, TryWritePc, CopyPc
  <2>27. ASSUME NEW f \in Flushers, SendTracesAsync(f) PROVE Goal
    BY <2>27, <1>0 DEF SendTracesAsync, SerializationCompleted, TryWritePc, CopyPc
  <2>28. ASSUME NEW f \in Flushers, ClearBuffer(f) PROVE Goal
    BY <2>28, <1>0 DEF ClearBuffer, SerializationCompleted, TryWritePc, CopyPc
  <2>29. ASSUME NEW f \in Flushers, UnlockBuffer(f) PROVE Goal
    BY <2>29, <1>0 DEF UnlockBuffer, SerializationCompleted, TryWritePc, CopyPc
  <2>30. ASSUME NEW f \in Flushers, AssignFlushTask(f) PROVE Goal
    BY <2>30, <1>0 DEF AssignFlushTask, SerializationCompleted, TryWritePc, CopyPc
  <2>31. ASSUME NEW f \in Flushers, AwaitFlushTask(f) PROVE Goal
    BY <2>31, <1>0 DEF AwaitFlushTask, SerializationCompleted, TryWritePc, CopyPc
  <2>32. ASSUME ReplaceForceFlush PROVE Goal
    BY <2>32, <1>0 DEF ReplaceForceFlush, SerializationCompleted, TryWritePc, CopyPc
  <2>33. ASSUME CheckSerializationTask PROVE Goal
    BY <2>33, <1>0 DEF CheckSerializationTask, SerializationCompleted, TryWritePc, CopyPc
  <2>34. ASSUME NEW f \in FlushCallers, FlushTracesAsync(f) PROVE Goal
    BY <2>34, <1>0 DEF FlushTracesAsync, SerializationCompleted, TryWritePc, CopyPc
  <2>35. ASSUME NEW f \in FlushCallers, WriteWatermark(f) PROVE Goal
    BY <2>35, <1>0 DEF WriteWatermark, SerializationCompleted, TryWritePc, CopyPc
  <2>36. ASSUME NEW f \in FlushCallers, WakeUpThread(f) PROVE Goal
    BY <2>36, <1>0 DEF WakeUpThread, SerializationCompleted, TryWritePc, CopyPc
  <2>37. ASSUME NEW f \in FlushCallers, AwaitWatermark(f) PROVE Goal
    BY <2>37, <1>0 DEF AwaitWatermark, SerializationCompleted, TryWritePc, CopyPc
  <2>38. ASSUME NEW c \in Closers, FlushAndCloseAsync(c) PROVE Goal
    BY <2>38, <1>0 DEF FlushAndCloseAsync, SerializationCompleted, TryWritePc, CopyPc
  <2>39. ASSUME NEW c \in Closers, SetForExit(c) PROVE Goal
    BY <2>39, <1>0 DEF SetForExit, SerializationCompleted, TryWritePc, CopyPc
  <2>40. ASSUME NEW c \in Closers, AwaitSerialization(c) PROVE Goal
    BY <2>40, <1>0 DEF AwaitSerialization, SerializationCompleted, TryWritePc, CopyPc
  <2>41. ASSUME NEW c \in Closers, SerializationTimeout(c) PROVE Goal
    BY <2>41, <1>0 DEF SerializationTimeout, SerializationCompleted, TryWritePc, CopyPc
  <2>42. ASSUME NEW c \in Closers, CheckLeftover(c) PROVE Goal
    BY <2>42, <1>0 DEF CheckLeftover, SerializationCompleted, TryWritePc, CopyPc
  <2>43. ASSUME NEW c \in Closers, LeftoverTimeout(c) PROVE Goal
    BY <2>43, <1>0 DEF LeftoverTimeout, SerializationCompleted, TryWritePc, CopyPc
  <2>44. ASSUME NEW c \in Closers, LeftoverFlushed(c) PROVE Goal
    BY <2>44, <1>0 DEF LeftoverFlushed, SerializationCompleted, TryWritePc, CopyPc
  <2> HIDE DEF Goal
  <2> QED
    BY <1>1, <2>1, <2>2, <2>3, <2>4, <2>5, <2>6, <2>7, <2>8, <2>9, <2>10, <2>11, <2>12,
       <2>13, <2>14, <2>15, <2>16, <2>17, <2>18, <2>19, <2>20, <2>21, <2>22, <2>23,
       <2>24, <2>25, <2>26, <2>27, <2>28, <2>29, <2>30, <2>31, <2>32, <2>33, <2>34,
       <2>35, <2>36, <2>37, <2>38, <2>39, <2>40, <2>41, <2>42, <2>43, <2>44
    DEF Next, SerializeTrace, SerializeTracesLoop, Flush, FlushTraces, FlushAndClose
<1>2. CASE UNCHANGED vars
  BY <1>2 DEF vars, SerializationCompleted
<1> QED
  BY <1>1, <1>2

\* Where call c can go, besides its start.
ClosesOn(c) ==
    \/ UNCHANGED <<fpc[c], outcome[c]>>
    \/ fpc[c] \in FlushingPc /\ fpc'[c] \in FlushingPc /\ UNCHANGED outcome[c]
    \/ fpc[c] = "set" /\ fpc'[c] = "awaitSerialization" /\ UNCHANGED outcome[c]
    \/ /\ fpc[c] = "awaitSerialization" /\ fpc'[c] = "awaitFlushTask"
       /\ SerializationCompleted /\ UNCHANGED outcome[c]
    \/ fpc[c] = "awaitSerialization" /\ fpc'[c] = "done" /\ outcome'[c] = "warned"
    \/ fpc[c] = "awaitFlushTask" /\ fpc'[c] = "flushBuffers" /\ UNCHANGED outcome[c]
    \/ /\ fpc[c] = "awaitFlushTask" /\ fpc'[c] = "done" /\ outcome'[c] = "returned"
       /\ \A b \in Buffers : TracesIn(b)' = {}
    \/ fpc[c] \in FlushingPc /\ fpc'[c] = fpc[c] /\ outcome'[c] = "warned"
    \/ fpc[c] = "flushed" /\ fpc'[c] = "done" /\ outcome'[c] \in {"returned", outcome[c]}

\* Once the serialization thread has ended, the traces written before a call do
\* not come back to a buffer.
LEMMA PassedKept ==
    ASSUME TypeInv, TypeInv', LockInv, [Next]_vars, NEW c \in Closers, NEW b \in Buffers,
           SerializationCompleted, written'[c] = written[c],
           \A u \in Traces : pc[u] \in CopyPc => temporaryBuffer \notin written[c],
           Passed(c, b)
    PROVE  Passed(c, b)'
<1>1. CASE Shrinks(b)
  BY <1>1 DEF Shrinks, Passed
<1>2. CASE Copied(b)
  <2>1. PICK p \in Threads : pc[p] \in CopyPc
    BY <1>2 DEF Copied
  <2>2. p \in Traces
    BY <2>1 DEF SerializationCompleted, CopyPc, Threads
  <2>3. temporaryBuffer \notin written[c]
    BY <2>1, <2>2
  <2> QED
    BY <1>2, <2>3 DEF Copied, Passed, SameFlush
<1> QED
  BY <1>1, <1>2, BufferMoves

\* A call keeps its invariant as it goes on.
LEMMA CloseStep ==
    ASSUME TypeInv, TypeInv', LockInv, SwapInv, [Next]_vars, NEW c \in Closers, CloseInv(c),
           written'[c] = written[c], ClosesOn(c)
    PROVE  CloseInv(c)'
<1>0. c \in Flushers /\ c # FlushLoop
  BY ActorsAssumption DEF Flushers
<1>1. /\ processExit => processExit'
      /\ SerializationCompleted => SerializationCompleted'
      /\ \A t \in Traces : pc[t] = "done" => pc'[t] = "done"
      /\ written[c] \subseteq Traces
      /\ \A u \in Traces : pc'[u] \in CopyPc =>
           \/ pc[u] \in CopyPc /\ temporaryBuffer' = temporaryBuffer
           \/ \E t \in Traces : pc[t] \in SerializePc /\ temporaryBuffer' = t
  BY ExitSteps, CompletedStays DEF TypeInv, TypeOK
<1>2. /\ fpc'[c] # "idle" => fpc[c] # "idle"
      /\ fpc[c] = "idle" => fpc'[c] = "idle"
      /\ outcome[c] = "ignored" => outcome'[c] = "ignored" /\ fpc'[c] = "done"
      /\ outcome'[c] = "ignored" => outcome[c] = "ignored"
  BY DEF CloseInv, ClosesOn, FlushingPc
<1>3. fpc'[c] # "idle" => processExit'
  BY <1>1, <1>2 DEF CloseInv
<1>4. ASSUME fpc'[c] # "idle", outcome'[c] # "ignored"
      PROVE  /\ \A t \in written[c] : pc'[t] = "done"
             /\ \A u \in Traces : pc'[u] \in CopyPc => temporaryBuffer' \notin written[c]
  <2>1. /\ \A t \in written[c] : pc[t] = "done"
        /\ \A u \in Traces : pc[u] \in CopyPc => temporaryBuffer \notin written[c]
    BY <1>2, <1>4 DEF CloseInv
  <2>2. \A t \in written[c] : pc[t] \notin SerializePc
    BY <2>1 DEF SerializePc
  <2> QED
    BY <1>1, <2>1, <2>2
<1>5. outcome'[c] = "ignored" => fpc'[c] = "done"
  BY <1>2
<1>6. fpc'[c] \in FlushingPc \cup {"awaitFlushTask"} => SerializationCompleted'
  BY <1>1 DEF CloseInv, ClosesOn, FlushingPc
<1>7. Idles(c) \/ Progress(c)
  BY <1>0, PlanProgress
<1>8. fpc'[c] = "flushed" => plan'[c] = <<>>
  BY <1>7 DEF CloseInv, Idles, Progress
<1>9. ASSUME SerializationCompleted, fpc[c] # "idle", outcome[c] # "ignored",
             NEW b \in Buffers, Passed(c, b)
      PROVE  Passed(c, b)'
  BY <1>9, PassedKept DEF CloseInv
<1>10. ASSUME fpc'[c] \in BegunPc, NEW b \in Buffers, ~Ahead(c, b)'
       PROVE  Passed(c, b)'
  <2>1. /\ fpc[c] \in FlushingPc \cup {"awaitFlushTask"}
        /\ fpc[c] # "idle" /\ outcome[c] # "ignored"
    BY <1>10 DEF CloseInv, ClosesOn, FlushingPc, BegunPc
  <2>2. SerializationCompleted
    BY <2>1 DEF CloseInv
  <2>3. b \in (Sending \cup Sent)' \/ (fpc[c] \in BegunPc /\ ~Ahead(c, b))
    BY <1>7, <1>10 DEF Idles, Progress, Ahead
  <2>4. CASE b \in (Sending \cup Sent)'
    BY <2>4 DEF Passed
  <2>5. CASE fpc[c] \in BegunPc /\ ~Ahead(c, b)
    BY <1>9, <2>1, <2>2, <2>5 DEF CloseInv
  <2> QED
    BY <2>3, <2>4, <2>5
<1>11. ASSUME outcome'[c] = "returned"
       PROVE  /\ fpc'[c] = "done" /\ SerializationCompleted'
              /\ \A b \in Buffers : Passed(c, b)'
  <2>1. CASE outcome[c] = "returned"
    <3>1. fpc[c] = "done" /\ SerializationCompleted /\ \A b \in Buffers : Passed(c, b)
      BY <2>1 DEF CloseInv
    <3>2. fpc'[c] = "done"
      BY <3>1, <1>11 DEF ClosesOn, FlushingPc
    <3> QED
      BY <1>1, <1>9, <2>1, <3>1, <3>2
  <2>2. CASE fpc[c] = "awaitFlushTask" /\ fpc'[c] = "done" /\ \A b \in Buffers : TracesIn(b)' = {}
    BY <1>1, <2>2 DEF CloseInv, Passed
  <2>3. CASE fpc[c] = "flushed" /\ fpc'[c] = "done"
    <3>1. SerializationCompleted /\ plan[c] = <<>> /\ outcome[c] # "ignored"
      BY <2>3 DEF CloseInv, FlushingPc
    <3>2. \A b \in Buffers : ~Ahead(c, b)
      BY <3>1 DEF Ahead
    <3>3. \A b \in Buffers : Passed(c, b)
      BY <2>3, <3>2 DEF CloseInv, BegunPc
    <3> QED
      BY <1>1, <1>9, <2>3, <3>1, <3>3
  <2> QED
    BY <1>11, <2>1, <2>2, <2>3 DEF ClosesOn
<1> QED
  BY <1>3, <1>4, <1>5, <1>6, <1>8, <1>10, <1>11 DEF CloseInv

\* The invariant of call c is preserved.
LEMMA CloseInvNext ==
    ASSUME TypeInv, TypeInv', LockInv, SwapInv, ExitInv, [Next]_vars, NEW c \in Closers, CloseInv(c)
    PROVE  CloseInv(c)'
<1>0. /\ c \in Flushers /\ c # FlushLoop /\ c \notin FlushCallers
      /\ fpc \in [Flushers -> FlusherPc]
      /\ outcome \in [Closers -> {"none", "ignored", "returned", "warned"}]
      /\ written \in [FlushCallers \cup Closers -> SUBSET Traces]
      /\ FlushLoop \in Flushers /\ Closers \subseteq Flushers /\ FlushCallers \subseteq Flushers
  BY ActorsAssumption DEF TypeInv, TypeOK, Flushers
<1>p. \A f \in Flushers : sending[f] # "no" => fpc[f] \in {"assign", "await"}
  BY DEF TypeInv, PlanInv
<1>1. written'[c] = written[c] /\ ClosesOn(c) => CloseInv(c)'
  BY CloseStep
<1> USE DEF queueVars, bufferVars, threadVars, flusherVars, accountVars
<1>2. CASE Next
  <2>1. ASSUME NEW t \in Traces, WriteTrace(t) PROVE CloseInv(c)'
    <3>1. written'[c] = written[c] /\ ClosesOn(c)
      BY <2>1, <1>0 DEF WriteTrace, ClosesOn, FlushingPc
    <3> QED
      BY <3>1, <1>1
  <2>2. ASSUME NEW t \in Traces, Enqueue(t) PROVE CloseInv(c)'
    <3>1. written'[c] = written[c] /\ ClosesOn(c)
      BY <2>2, <1>0 DEF Enqueue, ClosesOn, FlushingPc
    <3> QED
      BY <3>1, <1>1
  <2>3. ASSUME NEW t \in Traces, IsSet(t) PROVE CloseInv(c)'
    <3>1. written'[c] = written[c] /\ ClosesOn(c)
      BY <2>3, <1>0 DEF IsSet, ClosesOn, FlushingPc
    <3> QED
      BY <3>1, <1>1
  <2>4. ASSUME NEW t \in Traces, Set(t) PROVE CloseInv(c)'
    <3>1. written'[c] = written[c] /\ ClosesOn(c)
      BY <2>4, <1>0 DEF Set, ClosesOn, FlushingPc
    <3> QED
      BY <3>1, <1>1
  <2>5. ASSUME NEW p \in Threads, ReadActiveBuffer(p) PROVE CloseInv(c)'
    <3>1. written'[c] = written[c] /\ ClosesOn(c)
      BY <2>5, <1>0 DEF ReadActiveBuffer, ClosesOn, FlushingPc
    <3> QED
      BY <3>1, <1>1
  <2>6. ASSUME NEW p \in Threads, TryWriteRefused(p) PROVE CloseInv(c)'
    <3>1. written'[c] = written[c] /\ ClosesOn(c)
      BY <2>6, <1>0 DEF TryWriteRefused, ClosesOn, FlushingPc
    <3> QED
      BY <3>1, <1>1
  <2>7. ASSUME NEW p \in Threads, TryWriteSerialize(p) PROVE CloseInv(c)'
    <3>1. written'[c] = written[c] /\ ClosesOn(c)
      BY <2>7, <1>0 DEF TryWriteSerialize, ClosesOn, FlushingPc
    <3> QED
      BY <3>1, <1>1
  <2>8. ASSUME NEW p \in Threads, TryWriteThrow(p) PROVE CloseInv(c)'
    <3>1. written'[c] = written[c] /\ ClosesOn(c)
      BY <2>8, <1>0 DEF TryWriteThrow, ClosesOn, FlushingPc
    <3> QED
      BY <3>1, <1>1
  <2>9. ASSUME NEW p \in Threads, TryWriteCopy(p) PROVE CloseInv(c)'
    <3>1. written'[c] = written[c] /\ ClosesOn(c)
      BY <2>9, <1>0 DEF TryWriteCopy, ClosesOn, FlushingPc
    <3> QED
      BY <3>1, <1>1
  <2>10. ASSUME NEW p \in Threads, SwapBuffers(p) PROVE CloseInv(c)'
    <3>1. written'[c] = written[c] /\ ClosesOn(c)
      BY <2>10, <1>0 DEF SwapBuffers, ClosesOn, FlushingPc
    <3> QED
      BY <3>1, <1>1
  <2>11. ASSUME NEW p \in Threads, SwapBuffersWrite(p) PROVE CloseInv(c)'
    <3>1. written'[c] = written[c] /\ ClosesOn(c)
      BY <2>11, <1>0 DEF SwapBuffersWrite, ClosesOn, FlushingPc
    <3> QED
      BY <3>1, <1>1
  <2>12. ASSUME NEW p \in Threads, RequestFlush(p) PROVE CloseInv(c)'
    <3>1. written'[c] = written[c] /\ ClosesOn(c)
      BY <2>12, <1>0 DEF RequestFlush, ClosesOn, FlushingPc
    <3> QED
      BY <3>1, <1>1
  <2>13. ASSUME NEW p \in Threads, CompleteForceFlush(p) PROVE CloseInv(c)'
    <3>1. written'[c] = written[c] /\ ClosesOn(c)
      BY <2>13, <1>0 DEF CompleteForceFlush, ClosesOn, FlushingPc
    <3> QED
      BY <3>1, <1>1
  <2>14. ASSUME NEW p \in Threads, DropTrace(p) PROVE CloseInv(c)'
    <3>1. written'[c] = written[c] /\ ClosesOn(c)
      BY <2>14, <1>0 DEF DropTrace, ClosesOn, FlushingPc
    <3> QED
      BY <3>1, <1>1
  <2>15. CASE DequeueTrace
    <3>1. written'[c] = written[c] /\ ClosesOn(c)
      BY <2>15, <1>0 DEF DequeueTrace, ClosesOn, FlushingPc
    <3> QED
      BY <3>1, <1>1
  <2>16. CASE DequeueWatermark
    <3>1. written'[c] = written[c] /\ ClosesOn(c)
      BY <2>16, <1>0 DEF DequeueWatermark, ClosesOn, FlushingPc
    <3> QED
      BY <3>1, <1>1
  <2>17. CASE QueueDrained
    <3>1. written'[c] = written[c] /\ ClosesOn(c)
      BY <2>17, <1>0 DEF QueueDrained, ClosesOn, FlushingPc
    <3> QED
      BY <3>1, <1>1
  <2>18. CASE CheckProcessExit
    <3>1. written'[c] = written[c] /\ ClosesOn(c)
      BY <2>18, <1>0 DEF CheckProcessExit, ClosesOn, FlushingPc
    <3> QED
      BY <3>1, <1>1
  <2>19. CASE Sleep
    <3>1. written'[c] = written[c] /\ ClosesOn(c)
      BY <2>19, <1>0 DEF Sleep, ClosesOn, FlushingPc
    <3> QED
      BY <3>1, <1>1
  <2>20. CASE Wait
    <3>1. written'[c] = written[c] /\ ClosesOn(c)
      BY <2>20, <1>0 DEF Wait, ClosesOn, FlushingPc
    <3> QED
      BY <3>1, <1>1
  <2>21. CASE Reset
    <3>1. written'[c] = written[c] /\ ClosesOn(c)
      BY <2>21, <1>0 DEF Reset, ClosesOn, FlushingPc
    <3> QED
      BY <3>1, <1>1
  <2>22. ASSUME NEW f \in Flushers, FlushBuffers(f) PROVE CloseInv(c)'
    <3>1. written'[c] = written[c] /\ ClosesOn(c)
      BY <2>22, <1>0 DEF FlushBuffers, ClosesOn, FlushingPc
    <3> QED
      BY <3>1, <1>1
  <2>23. ASSUME NEW f \in Flushers, CheckFallback(f) PROVE CloseInv(c)'
    <3>1. written'[c] = written[c] /\ ClosesOn(c)
      BY <2>23, <1>0 DEF CheckFallback, ClosesOn, FlushingPc
    <3> QED
      BY <3>1, <1>1
  <2>24. ASSUME NEW f \in Flushers, FlushBuffer(f) PROVE CloseInv(c)'
    <3>1. written'[c] = written[c] /\ ClosesOn(c)
      BY <2>24, <1>0 DEF FlushBuffer, ClosesOn, FlushingPc
    <3> QED
      BY <3>1, <1>1
  <2>25. ASSUME NEW f \in Flushers, LockBuffer(f) PROVE CloseInv(c)'
    <3>1. written'[c] = written[c] /\ ClosesOn(c)
      BY <2>25, <1>0 DEF LockBuffer, ClosesOn, FlushingPc
    <3> QED
      BY <3>1, <1>1
  <2>26. ASSUME NEW f \in Flushers, LockRefused(f) PROVE CloseInv(c)'
    <3>1. written'[c] = written[c] /\ ClosesOn(c)
      BY <2>26, <1>0 DEF LockRefused, ClosesOn, FlushingPc
    <3> QED
      BY <3>1, <1>1
  <2>27. ASSUME NEW f \in Flushers, SendTracesAsync(f) PROVE CloseInv(c)'
    <3>1. written'[c] = written[c] /\ ClosesOn(c)
      BY <2>27, <1>0 DEF SendTracesAsync, ClosesOn, FlushingPc
    <3> QED
      BY <3>1, <1>1
  <2>28. ASSUME NEW f \in Flushers, ClearBuffer(f) PROVE CloseInv(c)'
    <3>1. written'[c] = written[c] /\ ClosesOn(c)
      BY <2>28, <1>0 DEF ClearBuffer, ClosesOn, FlushingPc
    <3> QED
      BY <3>1, <1>1
  <2>29. ASSUME NEW f \in Flushers, UnlockBuffer(f) PROVE CloseInv(c)'
    <3>1. written'[c] = written[c] /\ ClosesOn(c)
      BY <2>29, <1>0 DEF UnlockBuffer, ClosesOn, FlushingPc
    <3> QED
      BY <3>1, <1>1
  <2>30. ASSUME NEW f \in Flushers, AssignFlushTask(f) PROVE CloseInv(c)'
    <3>1. written'[c] = written[c] /\ ClosesOn(c)
      BY <2>30, <1>0 DEF AssignFlushTask, ClosesOn, FlushingPc
    <3> QED
      BY <3>1, <1>1
  <2>31. ASSUME NEW f \in Flushers, AwaitFlushTask(f) PROVE CloseInv(c)'
    <3>1. written'[c] = written[c] /\ ClosesOn(c)
      BY <2>31, <1>0 DEF AwaitFlushTask, ClosesOn, FlushingPc
    <3> QED
      BY <3>1, <1>1
  <2>32. CASE ReplaceForceFlush
    <3>1. written'[c] = written[c] /\ ClosesOn(c)
      BY <2>32, <1>0 DEF ReplaceForceFlush, ClosesOn, FlushingPc
    <3> QED
      BY <3>1, <1>1
  <2>33. CASE CheckSerializationTask
    <3>1. written'[c] = written[c] /\ ClosesOn(c)
      BY <2>33, <1>0 DEF CheckSerializationTask, ClosesOn, FlushingPc
    <3> QED
      BY <3>1, <1>1
  <2>34. ASSUME NEW f \in FlushCallers, FlushTracesAsync(f) PROVE CloseInv(c)'
    <3>1. written'[c] = written[c] /\ ClosesOn(c)
      BY <2>34, <1>0 DEF FlushTracesAsync, ClosesOn, FlushingPc
    <3> QED
      BY <3>1, <1>1
  <2>35. ASSUME NEW f \in FlushCallers, WriteWatermark(f) PROVE CloseInv(c)'
    <3>1. written'[c] = written[c] /\ ClosesOn(c)
      BY <2>35, <1>0 DEF WriteWatermark, ClosesOn, FlushingPc
    <3> QED
      BY <3>1, <1>1
  <2>36. ASSUME NEW f \in FlushCallers, WakeUpThread(f) PROVE CloseInv(c)'
    <3>1. written'[c] = written[c] /\ ClosesOn(c)
      BY <2>36, <1>0 DEF WakeUpThread, ClosesOn, FlushingPc
    <3> QED
      BY <3>1, <1>1
  <2>37. ASSUME NEW f \in FlushCallers, AwaitWatermark(f) PROVE CloseInv(c)'
    <3>1. written'[c] = written[c] /\ ClosesOn(c)
      BY <2>37, <1>0 DEF AwaitWatermark, ClosesOn, FlushingPc
    <3> QED
      BY <3>1, <1>1
  <2>38. ASSUME NEW g \in Closers, FlushAndCloseAsync(g) PROVE CloseInv(c)'
    <3>1. CASE g # c
      BY <2>38, <3>1, <1>0, <1>1 DEF FlushAndCloseAsync, ClosesOn
    <3>2. CASE g = c /\ processExit
      <4>1. /\ fpc'[c] = "done" /\ outcome'[c] = "ignored" /\ processExit'
        BY <2>38, <3>2, <1>0 DEF FlushAndCloseAsync
      <4> QED
        BY <4>1 DEF CloseInv, FlushingPc, BegunPc
    <3>3. CASE g = c /\ ~processExit
      <4>1. /\ fpc[c] = "idle" /\ fpc'[c] = "set" /\ outcome'[c] = outcome[c] /\ processExit'
            /\ written'[c] = WrittenTraces /\ pc' = pc
        BY <2>38, <3>3, <1>0 DEF FlushAndCloseAsync
      <4>2. outcome[c] # "returned" /\ outcome[c] # "ignored"
        BY <4>1 DEF CloseInv
      <4>3. \A u \in Traces : pc'[u] \notin CopyPc
        BY <3>3, <4>1 DEF ExitInv, SwapInv, SerializePc, CopyPc
      <4>4. \A t \in WrittenTraces : pc'[t] = "done"
        BY <4>1 DEF WrittenTraces
      <4> QED
        BY <4>1, <4>2, <4>3, <4>4 DEF CloseInv, FlushingPc, BegunPc
    <3> QED
      BY <3>1, <3>2, <3>3
  <2>39. ASSUME NEW g \in Closers, SetForExit(g) PROVE CloseInv(c)'
    <3>1. written'[c] = written[c] /\ ClosesOn(c)
      BY <2>39, <1>0 DEF SetForExit, ClosesOn, FlushingPc
    <3> QED
      BY <3>1, <1>1
  <2>40. ASSUME NEW g \in Closers, AwaitSerialization(g) PROVE CloseInv(c)'
    <3>1. written'[c] = written[c] /\ ClosesOn(c)
      BY <2>40, <1>0 DEF AwaitSerialization, ClosesOn, FlushingPc
    <3> QED
      BY <3>1, <1>1
  <2>41. ASSUME NEW g \in Closers, SerializationTimeout(g) PROVE CloseInv(c)'
    <3>1. written'[c] = written[c] /\ ClosesOn(c)
      BY <2>41, <1>0 DEF SerializationTimeout, ClosesOn, FlushingPc
    <3> QED
      BY <3>1, <1>1
  <2>42. ASSUME NEW g \in Closers, CheckLeftover(g) PROVE CloseInv(c)'
    <3>1. written' = written /\ buffer' = buffer
      BY <2>42 DEF CheckLeftover
    <3>2. CASE g # c
      BY <2>42, <3>1, <3>2, <1>0, <1>1 DEF CheckLeftover, ClosesOn
    <3>3. CASE g = c /\ \A b \in Buffers : TraceCount(buffer[b]) = 0
      <4>1. fpc[c] = "awaitFlushTask" /\ fpc'[c] = "done" /\ outcome'[c] = "returned"
        BY <2>42, <3>3, <1>0 DEF CheckLeftover
      <4>2. ASSUME NEW b \in Buffers PROVE TracesIn(b)' = {}
        <5>1. buffer[b].traces \in Seq(Traces) /\ Len(buffer[b].traces) = 0
          BY <3>3 DEF TypeInv, TypeOK, SpanBuffers, TraceCount
        <5>2. DOMAIN buffer[b].traces = {}
          BY <5>1
        <5> QED
          BY <3>1, <5>2 DEF TracesIn
      <4> QED
        BY <3>1, <4>1, <4>2, <1>1 DEF ClosesOn
    <3>4. CASE g = c /\ ~\A b \in Buffers : TraceCount(buffer[b]) = 0
      BY <2>42, <3>1, <3>4, <1>0, <1>1 DEF CheckLeftover, ClosesOn
    <3> QED
      BY <3>2, <3>3, <3>4
  <2>43. ASSUME NEW g \in Closers, LeftoverTimeout(g) PROVE CloseInv(c)'
    <3>1. written'[c] = written[c] /\ ClosesOn(c)
      BY <2>43, <1>0 DEF LeftoverTimeout, ClosesOn, FlushingPc
    <3> QED
      BY <3>1, <1>1
  <2>44. ASSUME NEW g \in Closers, LeftoverFlushed(g) PROVE CloseInv(c)'
    <3>1. written'[c] = written[c] /\ ClosesOn(c)
      BY <2>44, <1>0 DEF LeftoverFlushed, ClosesOn, FlushingPc
    <3> QED
      BY <3>1, <1>1
  <2> QED
    BY <1>2, <2>1, <2>2, <2>3, <2>4, <2>5, <2>6, <2>7, <2>8, <2>9, <2>10, <2>11, <2>12,
       <2>13, <2>14, <2>15, <2>16, <2>17, <2>18, <2>19, <2>20, <2>21, <2>22, <2>23,
       <2>24, <2>25, <2>26, <2>27, <2>28, <2>29, <2>30, <2>31, <2>32, <2>33, <2>34,
       <2>35, <2>36, <2>37, <2>38, <2>39, <2>40, <2>41, <2>42, <2>43, <2>44
    DEF Next, SerializeTrace, SerializeTracesLoop, Flush, FlushTraces, FlushAndClose
<1>3. CASE UNCHANGED vars
  BY <1>1, <1>3 DEF vars, ClosesOn
<1> QED
  BY <1>2, <1>3

\* When FlushAndCloseAsync returns without its warning, no trace that was
\* written before the call is in a buffer, but in one that another flush is
\* sending; and none comes back, whatever the threads do that go on writing
\* after the shutdown.  The writer has its serialization thread, as it has
\* unless its constructor is told otherwise: without that thread, two writers
\* that share _temporaryBuffer can bring a written trace back.
THEOREM FlushAndClosePromiseCorrect ==
    ASSUME AutomaticFlush
    PROVE  Spec => []FlushAndClosePromise
<1>1. Init => ClosingInv
  <2> SUFFICES ASSUME Init PROVE ClosingInv
    OBVIOUS
  <2>1. pc[Serializer] = "drain"
    BY DEF Init, Threads
  <2>2. \A c \in Closers : fpc[c] = "idle" /\ outcome[c] = "none"
    BY ActorsAssumption DEF Init, Flushers
  <2> QED
    BY <2>1, <2>2 DEF ClosingInv, ExitInv, CloseInv, SerializationCompleted, FlushingPc, BegunPc
<1>2. TypeInv /\ TypeInv' /\ LockInv /\ SwapInv /\ ClosingInv /\ [Next]_vars => ClosingInv'
  <2> SUFFICES ASSUME TypeInv, TypeInv', LockInv, SwapInv, ClosingInv, [Next]_vars
               PROVE  ClosingInv'
    OBVIOUS
  <2>1. ExitInv'
    BY ExitSteps DEF ClosingInv, ExitInv
  <2>2. ASSUME NEW c \in Closers PROVE CloseInv(c)'
    BY CloseInvNext DEF ClosingInv
  <2> QED
    BY <2>1, <2>2 DEF ClosingInv
<1>3. TypeInv /\ LockInv /\ ClosingInv => FlushAndClosePromise
  <2> SUFFICES ASSUME TypeInv, LockInv, ClosingInv, NEW c \in Closers, outcome[c] = "returned",
                      NEW t \in written[c], NEW b \in Buffers, InBuffer(t, b)
               PROVE  buffer[b].locked
    BY DEF FlushAndClosePromise
  <2>1. Passed(c, b)
    BY DEF ClosingInv, CloseInv
  <2>2. t \in TracesIn(b)
    <3>1. Copies(buffer[b].traces, t) > 0
      BY DEF InBuffer, Buffered
    <3>2. buffer[b].traces \in Seq(Traces)
      BY DEF TypeInv, TypeOK, SpanBuffers
    <3>3. CASE \E i \in 1 .. Len(buffer[b].traces) : buffer[b].traces[i] = t
      <4>1. DOMAIN buffer[b].traces = 1 .. Len(buffer[b].traces)
        BY <3>2
      <4> QED
        BY <3>3, <4>1 DEF TracesIn
    <3>4. CASE ~\E i \in 1 .. Len(buffer[b].traces) : buffer[b].traces[i] = t
      <4>1. {i \in 1 .. Len(buffer[b].traces) : buffer[b].traces[i] = t} = {}
        BY <3>4
      <4>2. Copies(buffer[b].traces, t) = 0
        BY <4>1, FS_EmptySet DEF Copies
      <4> QED
        BY <3>1, <4>2
    <3> QED
      BY <3>3, <3>4
  <2>3. b \in Sending \cup Sent
    BY <2>1, <2>2 DEF Passed
  <2> QED
    BY <2>3, FlushedBuffers
<1> QED
  BY <1>1, <1>2, <1>3, TypeInvariance, LockInvariance, SwapInvariance, PTL DEF Spec
=============================================================================
