--------------------- MODULE AgentWriterDeliveryProofs ---------------------
(***************************************************************************)
(* AgentWriter implements TraceDelivery, for any number of traces and of   *)
(* flushers, any sizes and any buffer limit, as long as its serialization  *)
(* thread runs.                                                            *)
(*                                                                         *)
(* The proof goes through what TraceDelivery can see of AgentWriter: which *)
(* traces are new, which wait in the queue, which one the serialization    *)
(* thread holds, what is in the two buffers, and which of them is being    *)
(* sent.  Kinds says that a step of AgentWriter changes that in one of     *)
(* nine ways or not at all; the rest follows from those ways alone.        *)
(***************************************************************************)
EXTENDS AgentWriterDelivery, AgentWriterProofs, FunctionTheorems

\* WriteTrace has not taken over trace t yet.
IsNew(t) == pc[t] \in {"idle", "enqueue"}

\* Trace t is in _pendingTraces.
Waits(t) == \E i \in DOMAIN pendingTraces : pendingTraces[i] = t

\* No trace is in _pendingTraces twice.
QueueDistinct ==
    \A i, j \in DOMAIN pendingTraces :
        pendingTraces[i] = pendingTraces[j] /\ pendingTraces[i] \in Traces => i = j

\* The trace that the serialization thread serializes.
Held == IF pc[Serializer] \in SerializePc THEN item ELSE None

\* What is in the buffers.
Contents == [b \in Buffers |-> buffer[b].traces]

\* The temporary buffer holds the bytes of the trace that is being copied.
TempInv == ~SerializationCompleted /\ pc[Serializer] \in CopyPc => temporaryBuffer = item

-----------------------------------------------------------------------------
(* The kinds of steps *)

SameTraces == \A t \in Traces : (IsNew(t)' <=> IsNew(t)) /\ (Waits(t)' <=> Waits(t))
SameQueue == QueueDistinct => QueueDistinct'
SameFlush == Sending' = Sending /\ Sent' = Sent
SameCounts == UNCHANGED <<delivered, faulted, keeps, drops>>

Nothing ==
    /\ SameTraces /\ SameQueue /\ Held' = Held /\ Contents' = Contents
    /\ SameFlush /\ SameCounts

\* Enqueue
Accepts(t) ==
    /\ IsNew(t) /\ ~IsNew(t)'
    /\ \A u \in Traces : u # t => (IsNew(u)' <=> IsNew(u))
    /\ \A u \in Traces : Waits(u)' <=> Waits(u) \/ u = t
    /\ QueueDistinct /\ ~Waits(t) => QueueDistinct'
    /\ Held' = Held /\ Contents' = Contents /\ SameFlush /\ SameCounts

\* DequeueTrace
Takes(t) ==
    /\ Waits(t) /\ Held = None /\ Held' = t
    /\ \A u \in Traces : (IsNew(u)' <=> IsNew(u))
    /\ QueueDistinct => /\ QueueDistinct'
                        /\ \A u \in Traces : Waits(u)' <=> Waits(u) /\ u # t
    /\ Contents' = Contents /\ SameFlush /\ SameCounts

\* TryWriteCopy, into a buffer that nobody flushes
Collects(t, b) ==
    /\ Held = t /\ Held' = None /\ b \notin Sending \cup Sent
    /\ Contents' = [Contents EXCEPT ![b] = Append(@, t)]
    /\ SameTraces /\ SameQueue /\ SameFlush /\ SameCounts

\* TryWriteThrow
Fails(t) ==
    /\ Held = t /\ Held' = None
    /\ faulted' = faulted \cup {t} /\ UNCHANGED <<delivered, keeps, drops>>
    /\ SameTraces /\ SameQueue /\ Contents' = Contents /\ SameFlush

\* DropTrace
Refuses(t) ==
    /\ Held = t /\ Held' = None
    /\ drops' = drops + 1 /\ UNCHANGED <<delivered, keeps, faulted>>
    /\ SameTraces /\ SameQueue /\ Contents' = Contents /\ SameFlush

\* LockBuffer
Closes(b) ==
    /\ b \notin Sending \cup Sent
    /\ \/ Contents[b] # <<>> /\ Sending' = Sending \cup {b} /\ Sent' = Sent
       \/ Contents[b] = <<>> /\ Sending' = Sending /\ Sent' = Sent \cup {b}
    /\ SameTraces /\ SameQueue /\ Held' = Held /\ Contents' = Contents /\ SameCounts

\* SendTracesAsync
Sends(b) ==
    /\ b \in Sending /\ Sending' = Sending \ {b} /\ Sent' = Sent \cup {b}
    /\ \/ /\ keeps' = keeps + Len(Contents[b])
          /\ delivered' = [t \in Traces |-> delivered[t] + Copies(Contents[b], t)]
          /\ UNCHANGED drops
       \/ /\ drops' = drops + Len(Contents[b])
          /\ UNCHANGED <<keeps, delivered>>
    /\ SameTraces /\ SameQueue /\ Held' = Held /\ Contents' = Contents
    /\ UNCHANGED faulted

\* ClearBuffer
Clears(b) ==
    /\ b \in Sent
    /\ Contents' = [Contents EXCEPT ![b] = <<>>]
    /\ SameTraces /\ SameQueue /\ Held' = Held /\ SameFlush /\ SameCounts

\* UnlockBuffer
Unlocks(b) ==
    /\ b \in Sent /\ Contents[b] = <<>> /\ Sending' = Sending /\ Sent' = Sent \ {b}
    /\ SameTraces /\ SameQueue /\ Held' = Held /\ Contents' = Contents /\ SameCounts

Kinds ==
    \/ Nothing
    \/ \E t \in Traces : Accepts(t) \/ Takes(t) \/ Fails(t) \/ Refuses(t)
    \/ \E t \in Traces, b \in Buffers : Collects(t, b)
    \/ \E b \in Buffers : Closes(b) \/ Sends(b) \/ Clears(b) \/ Unlocks(b)

\* The elements of a sequence after Append and after Tail.
LEMMA AppendElements ==
    ASSUME NEW S, NEW s \in Seq(S), NEW x \in S
    PROVE  /\ DOMAIN Append(s, x) = DOMAIN s \cup {Len(s) + 1}
           /\ Len(s) + 1 \notin DOMAIN s
           /\ Append(s, x)[Len(s) + 1] = x
           /\ \A i \in DOMAIN s : Append(s, x)[i] = s[i]
  OBVIOUS

\* What a TryDequeue leaves: each element one place further to the front.
LEMMA TailElements ==
    ASSUME NEW S, NEW s \in Seq(S), s # <<>>
    PROVE  /\ DOMAIN Tail(s) = 1 .. (Len(s) - 1)
           /\ DOMAIN s = 1 .. Len(s)
           /\ Len(s) \in Nat /\ Len(s) > 0
           /\ Head(s) = s[1]
           /\ \A i \in 1 .. (Len(s) - 1) : Tail(s)[i] = s[i + 1]
  OBVIOUS

\* When the queue is left alone, its traces are.
LEMMA QueueUnchanged ==
    ASSUME pendingTraces' = pendingTraces
    PROVE  SameQueue /\ \A t \in Traces : Waits(t)' <=> Waits(t)
  BY DEF SameQueue, QueueDistinct, Waits

\* A work item joins the queue: a trace, or a watermark.
LEMMA QueueAppended ==
    ASSUME TypeInv, NEW x \in Traces \cup FlushCallers,
           pendingTraces' = Append(pendingTraces, x)
    PROVE  /\ \A u \in Traces : Waits(u)' <=> Waits(u) \/ u = x
           /\ QueueDistinct /\ (x \in Traces => ~Waits(x)) => QueueDistinct'
<1> DEFINE s == pendingTraces
           r == pendingTraces'
           n == Len(s) + 1
<1>1. s \in Seq(Traces \cup FlushCallers)
  BY DEF TypeInv, TypeOK
<1>2. /\ DOMAIN r = DOMAIN s \cup {n}
      /\ n \notin DOMAIN s
      /\ r[n] = x
      /\ \A i \in DOMAIN s : r[i] = s[i]
  BY <1>1, AppendElements
<1> HIDE DEF n
<1>3. ASSUME NEW u \in Traces PROVE Waits(u)' <=> Waits(u) \/ u = x
  BY <1>2 DEF Waits
<1>4. ASSUME QueueDistinct, x \in Traces => ~Waits(x) PROVE QueueDistinct'
  <2> SUFFICES ASSUME NEW i \in DOMAIN r, NEW j \in DOMAIN r, r[i] = r[j], r[i] \in Traces
               PROVE  i = j
    BY DEF QueueDistinct
  <2>1. CASE i \in DOMAIN s /\ j \in DOMAIN s
    BY <1>2, <1>4, <2>1 DEF QueueDistinct
  <2>2. CASE i = n \/ j = n
    BY <1>2, <1>4, <2>2 DEF Waits
  <2> QED
    BY <1>2, <2>1, <2>2
<1> QED
  BY <1>3, <1>4

\* The first work item leaves the queue.
LEMMA QueueShortened ==
    ASSUME TypeInv, pendingTraces # <<>>, pendingTraces' = Tail(pendingTraces)
    PROVE  /\ Waits(Head(pendingTraces))
           /\ QueueDistinct =>
                /\ QueueDistinct'
                /\ \A u \in Traces : Waits(u)' <=> Waits(u) /\ u # Head(pendingTraces)
           /\ Head(pendingTraces) \notin Traces =>
                \A u \in Traces : Waits(u)' <=> Waits(u)
<1> DEFINE s == pendingTraces
           r == pendingTraces'
           n == Len(s)
<1>1. s \in Seq(Traces \cup FlushCallers)
  BY DEF TypeInv, TypeOK
<1>2. /\ DOMAIN r = 1 .. (n - 1)
      /\ DOMAIN s = 1 .. n
      /\ n \in Nat /\ n > 0
      /\ Head(s) = s[1]
      /\ \A i \in 1 .. (n - 1) : r[i] = s[i + 1]
  BY <1>1, TailElements
<1> HIDE DEF n
<1>3. Waits(Head(s))
  BY <1>2 DEF Waits
<1>4. ASSUME NEW u PROVE Waits(u) <=> u = s[1] \/ Waits(u)'
  <2>1. ASSUME NEW i \in DOMAIN s, s[i] = u, i # 1 PROVE Waits(u)'
    <3>1. i - 1 \in DOMAIN r /\ r[i - 1] = u
      BY <1>2, <2>1
    <3> QED
      BY <3>1 DEF Waits
  <2>2. ASSUME NEW i \in DOMAIN r, r[i] = u PROVE Waits(u)
    <3>1. i + 1 \in DOMAIN s /\ s[i + 1] = u
      BY <1>2, <2>2
    <3> QED
      BY <3>1 DEF Waits
  <2> QED
    BY <1>2, <1>3, <2>1, <2>2 DEF Waits
<1>5. ASSUME QueueDistinct
      PROVE  QueueDistinct' /\ \A u \in Traces : Waits(u)' <=> Waits(u) /\ u # Head(s)
  <2>1. QueueDistinct'
    <3> SUFFICES ASSUME NEW i \in DOMAIN r, NEW j \in DOMAIN r, r[i] = r[j], r[i] \in Traces
                 PROVE  i = j
      BY DEF QueueDistinct
    <3>1. /\ i + 1 \in DOMAIN s /\ j + 1 \in DOMAIN s
          /\ r[i] = s[i + 1] /\ r[j] = s[j + 1]
          /\ i \in Int /\ j \in Int
      BY <1>2
    <3>2. i + 1 = j + 1
      BY <3>1, <1>5 DEF QueueDistinct
    <3> QED
      BY <3>1, <3>2
  <2>2. ASSUME NEW u \in Traces, Waits(u)', u = s[1] PROVE FALSE
    <3>1. PICK i \in DOMAIN r : r[i] = u
      BY <2>2 DEF Waits
    <3>2. i + 1 \in DOMAIN s /\ 1 \in DOMAIN s /\ s[i + 1] = u /\ i + 1 # 1
      BY <1>2, <3>1
    <3> QED
      BY <1>5, <2>2, <3>2 DEF QueueDistinct
  <2> QED
    BY <1>2, <1>4, <2>1, <2>2
<1> QED
  BY <1>2, <1>3, <1>4, <1>5

\* The buffers that are being sent, and those that have been, by their flusher.
LEMMA SendingDef ==
    ASSUME NEW b
    PROVE  /\ b \in Sending <=>
                \E f \in Flushers : sending[f] = "send" /\ Head(plan[f]) = b
           /\ b \in Sent <=>
                \E f \in Flushers : sending[f] \in {"clear", "unlock"} /\ Head(plan[f]) = b
  BY DEF Sending, Sent

\* A flusher that sends nothing may go on with its plan.
LEMMA FlushUnchanged ==
    ASSUME sending' = sending,
           \A f \in Flushers : sending[f] # "no" => Head(plan'[f]) = Head(plan[f])
    PROVE  SameFlush
  BY DEF SameFlush, Sending, Sent

\* The locked buffers are those that a flush sends or has sent.
LEMMA FlushedBuffers ==
    ASSUME TypeInv, LockInv, NEW b \in Buffers
    PROVE  buffer[b].locked <=> b \in Sending \cup Sent
<1>1. sending \in [Flushers -> {"no", "send", "clear", "unlock"}]
  BY DEF TypeInv, TypeOK
<1>2. buffer[b].locked <=> \E f \in Flushers : sending[f] # "no" /\ Head(plan[f]) = b
  BY DEF LockInv, PayloadIntact, IsFlushing
<1> QED
  BY <1>1, <1>2, SendingDef

\* A buffer is sent, or has been sent, by one flusher.
LEMMA FlusherOf ==
    ASSUME TypeInv, LockInv, NEW f \in Flushers, sending[f] # "no"
    PROVE  /\ Head(plan[f]) \in Buffers
           /\ \A g \in Flushers : sending[g] # "no" /\ g # f => Head(plan[g]) # Head(plan[f])
<1>1. Len(plan[f]) > 0 /\ plan[f] \in Seq(Buffers)
  BY DEF TypeInv, TypeOK, PlanInv
<1>2. Head(plan[f]) \in Buffers
  BY <1>1, PlanOps
<1> QED
  BY <1>2 DEF LockInv, PayloadIntact, IsFlushing

\* A step that TraceDelivery does not see.
LEMMA QuietStep ==
    ASSUME UNCHANGED <<pendingTraces, sending, delivered, faulted, keeps, drops>>,
           Contents' = Contents, Held' = Held,
           \A t \in Traces : IsNew(t)' <=> IsNew(t),
           \A f \in Flushers : sending[f] # "no" => Head(plan'[f]) = Head(plan[f])
    PROVE  Nothing
<1>1. SameQueue /\ \A t \in Traces : Waits(t)' <=> Waits(t)
  BY QueueUnchanged
<1>2. SameFlush
  BY FlushUnchanged
<1> QED
  BY <1>1, <1>2 DEF Nothing, SameTraces, SameCounts

-----------------------------------------------------------------------------
(* Every step is of one of these kinds *)

\* The serialization thread does not come back.
LEMMA CompletedStays == TypeInv /\ SerializationCompleted /\ [Next]_vars => SerializationCompleted'
<1> SUFFICES ASSUME TypeInv, SerializationCompleted, [Next]_vars PROVE pc'[Serializer] = "done"
  BY DEF SerializationCompleted
<1>0. /\ pc \in [Threads -> ThreadPc] /\ Serializer \in Threads /\ Serializer \notin Traces
      /\ pc[Serializer] = "done"
  BY ActorsAssumption DEF TypeInv, TypeOK, Threads, SerializationCompleted
<1> USE DEF queueVars, bufferVars, threadVars, flusherVars, accountVars
<1>1. CASE Next
  <2>1. ASSUME NEW t \in Traces, WriteTrace(t) PROVE pc'[Serializer] = "done"
    BY <2>1, <1>0 DEF WriteTrace, TryWritePc, CopyPc
  <2>2. ASSUME NEW t \in Traces, Enqueue(t) PROVE pc'[Serializer] = "done"
    BY <2>2, <1>0 DEF Enqueue, TryWritePc, CopyPc
  <2>3. ASSUME NEW t \in Traces, IsSet(t) PROVE pc'[Serializer] = "done"
    BY <2>3, <1>0 DEF IsSet, TryWritePc, CopyPc
  <2>4. ASSUME NEW t \in Traces, Set(t) PROVE pc'[Serializer] = "done"
    BY <2>4, <1>0 DEF Set, TryWritePc, CopyPc
  <2>5. ASSUME NEW p \in Threads, ReadActiveBuffer(p) PROVE pc'[Serializer] = "done"
    BY <2>5, <1>0 DEF ReadActiveBuffer, TryWritePc, CopyPc
  <2>6. ASSUME NEW p \in Threads, TryWriteRefused(p) PROVE pc'[Serializer] = "done"
    BY <2>6, <1>0 DEF TryWriteRefused, Refused, TryWritePc, CopyPc
  <2>7. ASSUME NEW p \in Threads, TryWriteSerialize(p) PROVE pc'[Serializer] = "done"
    BY <2>7, <1>0 DEF TryWriteSerialize, TryWriteEnters, TraceOf, TryWritePc, CopyPc
  <2>8. ASSUME NEW p \in Threads, TryWriteThrow(p) PROVE pc'[Serializer] = "done"
    BY <2>8, <1>0 DEF TryWriteThrow, TryWriteEnters, TraceOf, Throw, TryWritePc, CopyPc
  <2>9. ASSUME NEW p \in Threads, TryWriteCopy(p) PROVE pc'[Serializer] = "done"
    BY <2>9, <1>0 DEF TryWriteCopy, TraceOf, Return, Refused, TryWritePc, CopyPc
  <2>10. ASSUME NEW p \in Threads, SwapBuffers(p) PROVE pc'[Serializer] = "done"
    BY <2>10, <1>0 DEF SwapBuffers, TryWritePc, CopyPc
  <2>11. ASSUME NEW p \in Threads, SwapBuffersWrite(p) PROVE pc'[Serializer] = "done"
    BY <2>11, <1>0 DEF SwapBuffersWrite, TryWritePc, CopyPc
  <2>12. ASSUME NEW p \in Threads, RequestFlush(p) PROVE pc'[Serializer] = "done"
    BY <2>12, <1>0 DEF RequestFlush, TryWritePc, CopyPc
  <2>13. ASSUME NEW p \in Threads, CompleteForceFlush(p) PROVE pc'[Serializer] = "done"
    BY <2>13, <1>0 DEF CompleteForceFlush, TryWritePc, CopyPc
  <2>14. ASSUME NEW p \in Threads, DropTrace(p) PROVE pc'[Serializer] = "done"
    BY <2>14, <1>0 DEF DropTrace, Return, TryWritePc, CopyPc
  <2>15. CASE DequeueTrace
    BY <2>15, <1>0 DEF DequeueTrace, TryWritePc, CopyPc
  <2>16. CASE DequeueWatermark
    BY <2>16, <1>0 DEF DequeueWatermark, TryWritePc, CopyPc
  <2>17. CASE QueueDrained
    BY <2>17, <1>0 DEF QueueDrained, TryWritePc, CopyPc
  <2>18. CASE CheckProcessExit
    BY <2>18, <1>0 DEF CheckProcessExit, TryWritePc, CopyPc
  <2>19. CASE Sleep
    BY <2>19, <1>0 DEF Sleep, TryWritePc, CopyPc
  <2>20. CASE Wait
    BY <2>20, <1>0 DEF Wait, TryWritePc, CopyPc
  <2>21. CASE Reset
    BY <2>21, <1>0 DEF Reset, TryWritePc, CopyPc
  <2>22. ASSUME NEW f \in Flushers, FlushBuffers(f) PROVE pc'[Serializer] = "done"
    BY <2>22, <1>0 DEF FlushBuffers, TryWritePc, CopyPc
  <2>23. ASSUME NEW f \in Flushers, CheckFallback(f) PROVE pc'[Serializer] = "done"
    BY <2>23, <1>0 DEF CheckFallback, TryWritePc, CopyPc
  <2>24. ASSUME NEW f \in Flushers, FlushBuffer(f) PROVE pc'[Serializer] = "done"
    BY <2>24, <1>0 DEF FlushBuffer, TryWritePc, CopyPc
  <2>25. ASSUME NEW f \in Flushers, LockBuffer(f) PROVE pc'[Serializer] = "done"
    BY <2>25, <1>0 DEF LockBuffer, TryWritePc, CopyPc
  <2>26. ASSUME NEW f \in Flushers, LockRefused(f) PROVE pc'[Serializer] = "done"
    BY <2>26, <1>0 DEF LockRefused, TryWritePc, CopyPc
  <2>27. ASSUME NEW f \in Flushers, SendTracesAsync(f) PROVE pc'[Serializer] = "done"
    BY <2>27, <1>0 DEF SendTracesAsync, TryWritePc, CopyPc
  <2>28. ASSUME NEW f \in Flushers, ClearBuffer(f) PROVE pc'[Serializer] = "done"
    BY <2>28, <1>0 DEF ClearBuffer, TryWritePc, CopyPc
  <2>29. ASSUME NEW f \in Flushers, UnlockBuffer(f) PROVE pc'[Serializer] = "done"
    BY <2>29, <1>0 DEF UnlockBuffer, TryWritePc, CopyPc
  <2>30. ASSUME NEW f \in Flushers, AssignFlushTask(f) PROVE pc'[Serializer] = "done"
    BY <2>30, <1>0 DEF AssignFlushTask, TryWritePc, CopyPc
  <2>31. ASSUME NEW f \in Flushers, AwaitFlushTask(f) PROVE pc'[Serializer] = "done"
    BY <2>31, <1>0 DEF AwaitFlushTask, TryWritePc, CopyPc
  <2>32. CASE ReplaceForceFlush
    BY <2>32, <1>0 DEF ReplaceForceFlush, TryWritePc, CopyPc
  <2>33. CASE CheckSerializationTask
    BY <2>33, <1>0 DEF CheckSerializationTask, TryWritePc, CopyPc
  <2>34. ASSUME NEW f \in FlushCallers, FlushTracesAsync(f) PROVE pc'[Serializer] = "done"
    BY <2>34, <1>0 DEF FlushTracesAsync, TryWritePc, CopyPc
  <2>35. ASSUME NEW f \in FlushCallers, WriteWatermark(f) PROVE pc'[Serializer] = "done"
    BY <2>35, <1>0 DEF WriteWatermark, TryWritePc, CopyPc
  <2>36. ASSUME NEW f \in FlushCallers, WakeUpThread(f) PROVE pc'[Serializer] = "done"
    BY <2>36, <1>0 DEF WakeUpThread, TryWritePc, CopyPc
  <2>37. ASSUME NEW f \in FlushCallers, AwaitWatermark(f) PROVE pc'[Serializer] = "done"
    BY <2>37, <1>0 DEF AwaitWatermark, TryWritePc, CopyPc
  <2>38. ASSUME NEW c \in Closers, FlushAndCloseAsync(c) PROVE pc'[Serializer] = "done"
    BY <2>38, <1>0 DEF FlushAndCloseAsync, TryWritePc, CopyPc
  <2>39. ASSUME NEW c \in Closers, SetForExit(c) PROVE pc'[Serializer] = "done"
    BY <2>39, <1>0 DEF SetForExit, TryWritePc, CopyPc
  <2>40. ASSUME NEW c \in Closers, AwaitSerialization(c) PROVE pc'[Serializer] = "done"
    BY <2>40, <1>0 DEF AwaitSerialization, TryWritePc, CopyPc
  <2>41. ASSUME NEW c \in Closers, SerializationTimeout(c) PROVE pc'[Serializer] = "done"
    BY <2>41, <1>0 DEF SerializationTimeout, TryWritePc, CopyPc
  <2>42. ASSUME NEW c \in Closers, CheckLeftover(c) PROVE pc'[Serializer] = "done"
    BY <2>42, <1>0 DEF CheckLeftover, TryWritePc, CopyPc
  <2>43. ASSUME NEW c \in Closers, LeftoverTimeout(c) PROVE pc'[Serializer] = "done"
    BY <2>43, <1>0 DEF LeftoverTimeout, TryWritePc, CopyPc
  <2>44. ASSUME NEW c \in Closers, LeftoverFlushed(c) PROVE pc'[Serializer] = "done"
    BY <2>44, <1>0 DEF LeftoverFlushed, TryWritePc, CopyPc
  <2> QED
    BY <1>1, <2>1, <2>2, <2>3, <2>4, <2>5, <2>6, <2>7, <2>8, <2>9, <2>10, <2>11, <2>12,
       <2>13, <2>14, <2>15, <2>16, <2>17, <2>18, <2>19, <2>20, <2>21, <2>22, <2>23,
       <2>24, <2>25, <2>26, <2>27, <2>28, <2>29, <2>30, <2>31, <2>32, <2>33, <2>34,
       <2>35, <2>36, <2>37, <2>38, <2>39, <2>40, <2>41, <2>42, <2>43, <2>44
    DEF Next, SerializeTrace, SerializeTracesLoop, Flush, FlushTraces, FlushAndClose
<1>2. CASE UNCHANGED vars
  BY <1>0, <1>2 DEF vars
<1> QED
  BY <1>1, <1>2

\* While the serialization thread runs it is the only one that uses the
\* temporary buffer.
LEMMA TempInvNext == TypeInv /\ SwapInv /\ TempInv /\ [Next]_vars => TempInv'
<1> SUFFICES ASSUME TypeInv, SwapInv, TempInv, [Next]_vars, ~SerializationCompleted'
             PROVE  TempInv'
  BY DEF TempInv
<1>0. /\ pc \in [Threads -> ThreadPc] /\ Serializer \in Threads /\ Serializer \notin Traces
      /\ Threads = Traces \cup {Serializer}
  BY ActorsAssumption DEF TypeInv, TypeOK, Threads
<1>1. ~SerializationCompleted
  BY CompletedStays
<1>2. \A t \in Traces : pc[t] \notin SerializePc
  BY <1>1 DEF SwapInv
<1> USE DEF queueVars, bufferVars, threadVars, flusherVars, accountVars
<1>3. CASE Next
  <2>1. ASSUME NEW t \in Traces, WriteTrace(t) PROVE TempInv'
    BY <2>1, <1>0, <1>1, <1>2 DEF WriteTrace, TempInv, SerializationCompleted, SerializePc, TryWritePc, CopyPc
  <2>2. ASSUME NEW t \in Traces, Enqueue(t) PROVE TempInv'
    BY <2>2, <1>0, <1>1, <1>2 DEF Enqueue, TempInv, SerializationCompleted, SerializePc, TryWritePc, CopyPc
  <2>3. ASSUME NEW t \in Traces, IsSet(t) PROVE TempInv'
    BY <2>3, <1>0, <1>1, <1>2 DEF IsSet, TempInv, SerializationCompleted, SerializePc, TryWritePc, CopyPc
  <2>4. ASSUME NEW t \in Traces, Set(t) PROVE TempInv'
    BY <2>4, <1>0, <1>1, <1>2 DEF Set, TempInv, SerializationCompleted, SerializePc, TryWritePc, CopyPc
  <2>5. ASSUME NEW p \in Threads, ReadActiveBuffer(p) PROVE TempInv'
    BY <2>5, <1>0, <1>1, <1>2 DEF ReadActiveBuffer, TempInv, SerializationCompleted, SerializePc, TryWritePc, CopyPc
  <2>6. ASSUME NEW p \in Threads, TryWriteRefused(p) PROVE TempInv'
    BY <2>6, <1>0, <1>1, <1>2 DEF TryWriteRefused, Refused, TempInv, SerializationCompleted, SerializePc, TryWritePc, CopyPc
  <2>7. ASSUME NEW p \in Threads, TryWriteSerialize(p) PROVE TempInv'
    BY <2>7, <1>0, <1>1, <1>2 DEF TryWriteSerialize, TryWriteEnters, TraceOf, TempInv, SerializationCompleted, SerializePc, TryWritePc, CopyPc
  <2>8. ASSUME NEW p \in Threads, TryWriteThrow(p) PROVE TempInv'
    BY <2>8, <1>0, <1>1, <1>2 DEF TryWriteThrow, TryWriteEnters, TraceOf, Throw, TempInv, SerializationCompleted, SerializePc, TryWritePc, CopyPc
  <2>9. ASSUME NEW p \in Threads, TryWriteCopy(p) PROVE TempInv'
    BY <2>9, <1>0, <1>1, <1>2 DEF TryWriteCopy, TraceOf, Return, Refused, TempInv, SerializationCompleted, SerializePc, TryWritePc, CopyPc
  <2>10. ASSUME NEW p \in Threads, SwapBuffers(p) PROVE TempInv'
    BY <2>10, <1>0, <1>1, <1>2 DEF SwapBuffers, TempInv, SerializationCompleted, SerializePc, TryWritePc, CopyPc
  <2>11. ASSUME NEW p \in Threads, SwapBuffersWrite(p) PROVE TempInv'
    BY <2>11, <1>0, <1>1, <1>2 DEF SwapBuffersWrite, TempInv, SerializationCompleted, SerializePc, TryWritePc, CopyPc
  <2>12. ASSUME NEW p \in Threads, RequestFlush(p) PROVE TempInv'
    BY <2>12, <1>0, <1>1, <1>2 DEF RequestFlush, TempInv, SerializationCompleted, SerializePc, TryWritePc, CopyPc
  <2>13. ASSUME NEW p \in Threads, CompleteForceFlush(p) PROVE TempInv'
    BY <2>13, <1>0, <1>1, <1>2 DEF CompleteForceFlush, TempInv, SerializationCompleted, SerializePc, TryWritePc, CopyPc
  <2>14. ASSUME NEW p \in Threads, DropTrace(p) PROVE TempInv'
    BY <2>14, <1>0, <1>1, <1>2 DEF DropTrace, Return, TempInv, SerializationCompleted, SerializePc, TryWritePc, CopyPc
  <2>15. CASE DequeueTrace
    BY <2>15, <1>0, <1>1, <1>2 DEF DequeueTrace, TempInv, SerializationCompleted, SerializePc, TryWritePc, CopyPc
  <2>16. CASE DequeueWatermark
    BY <2>16, <1>0, <1>1, <1>2 DEF DequeueWatermark, TempInv, SerializationCompleted, SerializePc, TryWritePc, CopyPc
  <2>17. CASE QueueDrained
    BY <2>17, <1>0, <1>1, <1>2 DEF QueueDrained, TempInv, SerializationCompleted, SerializePc, TryWritePc, CopyPc
  <2>18. CASE CheckProcessExit
    BY <2>18, <1>0, <1>1, <1>2 DEF CheckProcessExit, TempInv, SerializationCompleted, SerializePc, TryWritePc, CopyPc
  <2>19. CASE Sleep
    BY <2>19, <1>0, <1>1, <1>2 DEF Sleep, TempInv, SerializationCompleted, SerializePc, TryWritePc, CopyPc
  <2>20. CASE Wait
    BY <2>20, <1>0, <1>1, <1>2 DEF Wait, TempInv, SerializationCompleted, SerializePc, TryWritePc, CopyPc
  <2>21. CASE Reset
    BY <2>21, <1>0, <1>1, <1>2 DEF Reset, TempInv, SerializationCompleted, SerializePc, TryWritePc, CopyPc
  <2>22. ASSUME NEW f \in Flushers, FlushBuffers(f) PROVE TempInv'
    BY <2>22, <1>0, <1>1, <1>2 DEF FlushBuffers, TempInv, SerializationCompleted, SerializePc, TryWritePc, CopyPc
  <2>23. ASSUME NEW f \in Flushers, CheckFallback(f) PROVE TempInv'
    BY <2>23, <1>0, <1>1, <1>2 DEF CheckFallback, TempInv, SerializationCompleted, SerializePc, TryWritePc, CopyPc
  <2>24. ASSUME NEW f \in Flushers, FlushBuffer(f) PROVE TempInv'
    BY <2>24, <1>0, <1>1, <1>2 DEF FlushBuffer, TempInv, SerializationCompleted, SerializePc, TryWritePc, CopyPc
  <2>25. ASSUME NEW f \in Flushers, LockBuffer(f) PROVE TempInv'
    BY <2>25, <1>0, <1>1, <1>2 DEF LockBuffer, TempInv, SerializationCompleted, SerializePc, TryWritePc, CopyPc
  <2>26. ASSUME NEW f \in Flushers, LockRefused(f) PROVE TempInv'
    BY <2>26, <1>0, <1>1, <1>2 DEF LockRefused, TempInv, SerializationCompleted, SerializePc, TryWritePc, CopyPc
  <2>27. ASSUME NEW f \in Flushers, SendTracesAsync(f) PROVE TempInv'
    BY <2>27, <1>0, <1>1, <1>2 DEF SendTracesAsync, TempInv, SerializationCompleted, SerializePc, TryWritePc, CopyPc
  <2>28. ASSUME NEW f \in Flushers, ClearBuffer(f) PROVE TempInv'
    BY <2>28, <1>0, <1>1, <1>2 DEF ClearBuffer, TempInv, SerializationCompleted, SerializePc, TryWritePc, CopyPc
  <2>29. ASSUME NEW f \in Flushers, UnlockBuffer(f) PROVE TempInv'
    BY <2>29, <1>0, <1>1, <1>2 DEF UnlockBuffer, TempInv, SerializationCompleted, SerializePc, TryWritePc, CopyPc
  <2>30. ASSUME NEW f \in Flushers, AssignFlushTask(f) PROVE TempInv'
    BY <2>30, <1>0, <1>1, <1>2 DEF AssignFlushTask, TempInv, SerializationCompleted, SerializePc, TryWritePc, CopyPc
  <2>31. ASSUME NEW f \in Flushers, AwaitFlushTask(f) PROVE TempInv'
    BY <2>31, <1>0, <1>1, <1>2 DEF AwaitFlushTask, TempInv, SerializationCompleted, SerializePc, TryWritePc, CopyPc
  <2>32. CASE ReplaceForceFlush
    BY <2>32, <1>0, <1>1, <1>2 DEF ReplaceForceFlush, TempInv, SerializationCompleted, SerializePc, TryWritePc, CopyPc
  <2>33. CASE CheckSerializationTask
    BY <2>33, <1>0, <1>1, <1>2 DEF CheckSerializationTask, TempInv, SerializationCompleted, SerializePc, TryWritePc, CopyPc
  <2>34. ASSUME NEW f \in FlushCallers, FlushTracesAsync(f) PROVE TempInv'
    BY <2>34, <1>0, <1>1, <1>2 DEF FlushTracesAsync, TempInv, SerializationCompleted, SerializePc, TryWritePc, CopyPc
  <2>35. ASSUME NEW f \in FlushCallers, WriteWatermark(f) PROVE TempInv'
    BY <2>35, <1>0, <1>1, <1>2 DEF WriteWatermark, TempInv, SerializationCompleted, SerializePc, TryWritePc, CopyPc
  <2>36. ASSUME NEW f \in FlushCallers, WakeUpThread(f) PROVE TempInv'
    BY <2>36, <1>0, <1>1, <1>2 DEF WakeUpThread, TempInv, SerializationCompleted, SerializePc, TryWritePc, CopyPc
  <2>37. ASSUME NEW f \in FlushCallers, AwaitWatermark(f) PROVE TempInv'
    BY <2>37, <1>0, <1>1, <1>2 DEF AwaitWatermark, TempInv, SerializationCompleted, SerializePc, TryWritePc, CopyPc
  <2>38. ASSUME NEW c \in Closers, FlushAndCloseAsync(c) PROVE TempInv'
    BY <2>38, <1>0, <1>1, <1>2 DEF FlushAndCloseAsync, TempInv, SerializationCompleted, SerializePc, TryWritePc, CopyPc
  <2>39. ASSUME NEW c \in Closers, SetForExit(c) PROVE TempInv'
    BY <2>39, <1>0, <1>1, <1>2 DEF SetForExit, TempInv, SerializationCompleted, SerializePc, TryWritePc, CopyPc
  <2>40. ASSUME NEW c \in Closers, AwaitSerialization(c) PROVE TempInv'
    BY <2>40, <1>0, <1>1, <1>2 DEF AwaitSerialization, TempInv, SerializationCompleted, SerializePc, TryWritePc, CopyPc
  <2>41. ASSUME NEW c \in Closers, SerializationTimeout(c) PROVE TempInv'
    BY <2>41, <1>0, <1>1, <1>2 DEF SerializationTimeout, TempInv, SerializationCompleted, SerializePc, TryWritePc, CopyPc
  <2>42. ASSUME NEW c \in Closers, CheckLeftover(c) PROVE TempInv'
    BY <2>42, <1>0, <1>1, <1>2 DEF CheckLeftover, TempInv, SerializationCompleted, SerializePc, TryWritePc, CopyPc
  <2>43. ASSUME NEW c \in Closers, LeftoverTimeout(c) PROVE TempInv'
    BY <2>43, <1>0, <1>1, <1>2 DEF LeftoverTimeout, TempInv, SerializationCompleted, SerializePc, TryWritePc, CopyPc
  <2>44. ASSUME NEW c \in Closers, LeftoverFlushed(c) PROVE TempInv'
    BY <2>44, <1>0, <1>1, <1>2 DEF LeftoverFlushed, TempInv, SerializationCompleted, SerializePc, TryWritePc, CopyPc
  <2> QED
    BY <1>3, <2>1, <2>2, <2>3, <2>4, <2>5, <2>6, <2>7, <2>8, <2>9, <2>10, <2>11, <2>12,
       <2>13, <2>14, <2>15, <2>16, <2>17, <2>18, <2>19, <2>20, <2>21, <2>22, <2>23,
       <2>24, <2>25, <2>26, <2>27, <2>28, <2>29, <2>30, <2>31, <2>32, <2>33, <2>34,
       <2>35, <2>36, <2>37, <2>38, <2>39, <2>40, <2>41, <2>42, <2>43, <2>44
    DEF Next, SerializeTrace, SerializeTracesLoop, Flush, FlushTraces, FlushAndClose
<1>4. CASE UNCHANGED vars
  BY <1>1, <1>4 DEF vars, TempInv, SerializationCompleted
<1> QED
  BY <1>3, <1>4

\* A step that moves no trace.
Unmoved ==
    /\ UNCHANGED <<pendingTraces, sending, delivered, faulted, keeps, drops, item>>
    /\ Contents' = Contents
    /\ pc'[Serializer] \in SerializePc <=> pc[Serializer] \in SerializePc
    /\ \A t \in Traces : pc'[t] \in {"idle", "enqueue"} <=> pc[t] \in {"idle", "enqueue"}
    /\ \A f \in Flushers : sending[f] # "no" => Head(plan'[f]) = Head(plan[f])

\* TraceDelivery does not see it.
LEMMA UnmovedStep ==
    ASSUME Unmoved
    PROVE  Kinds
<1>1. Held' = Held /\ \A t \in Traces : IsNew(t)' <=> IsNew(t)
  BY DEF Unmoved, Held, IsNew
<1>2. Nothing
  BY <1>1, QuietStep DEF Unmoved
<1> QED
  BY <1>2 DEF Kinds

\* While the serialization thread runs, every step is of one of these kinds.
LEMMA StepKinds ==
    ASSUME TypeInv, LockInv, SwapInv, TempInv, [Next]_vars, ~SerializationCompleted'
    PROVE  Kinds
<1>0. /\ pc \in [Threads -> ThreadPc] /\ Serializer \in Threads /\ Serializer \notin Traces
      /\ Threads = Traces \cup {Serializer} /\ None \notin Traces
      /\ target \in [Threads -> Buffers]
      /\ buffer \in [Buffers -> SpanBuffers]
      /\ plan \in [Flushers -> Seq(Buffers)]
      /\ fpc \in [Flushers -> FlusherPc]
      /\ sending \in [Flushers -> {"no", "send", "clear", "unlock"}]
      /\ PlanInv /\ ItemInv
      /\ Traces \cap FlushCallers = {}
      /\ FlushLoop \in Flushers /\ FlushCallers \subseteq Flushers
      /\ Closers \subseteq Flushers
  BY ActorsAssumption DEF TypeInv, TypeOK, Threads, Flushers
<1>b. \A b \in Buffers : b \in Sending \cup Sent <=> buffer[b].locked
  BY FlushedBuffers
<1>c. buffer' = buffer => Contents' = Contents
  BY DEF Contents
<1>s. ~SerializationCompleted
  BY CompletedStays
<1>t. \A t \in Traces : pc[t] \notin SerializePc
  BY <1>s DEF SwapInv
<1>h. pendingTraces' = pendingTraces =>
        SameQueue /\ \A t \in Traces : Waits(t)' <=> Waits(t)
  BY QueueUnchanged
<1>n. /\ pc' = pc => \A t \in Traces : IsNew(t)' <=> IsNew(t)
      /\ (\A t \in Traces : pc'[t] = pc[t]) => \A t \in Traces : IsNew(t)' <=> IsNew(t)
      /\ UNCHANGED <<pc, item>> => Held' = Held
  BY DEF IsNew, Held
<1>f. UNCHANGED <<sending, plan>> => SameFlush
  BY FlushUnchanged
<1> USE DEF queueVars, bufferVars, threadVars, flusherVars, accountVars
<1>1. CASE Next
  <2>1. ASSUME NEW t \in Traces, WriteTrace(t) PROVE Kinds
    <3>1. Unmoved
      BY <2>1, <1>0, <1>c, <1>s, <1>t DEF Unmoved, WriteTrace, PlanInv,
         SerializationCompleted, SerializePc, TryWritePc, CopyPc
    <3> QED
      BY <3>1, UnmovedStep
  <2>2. ASSUME NEW t \in Traces, Enqueue(t) PROVE Kinds
    <3>1. /\ pendingTraces' = Append(pendingTraces, t)
          /\ UNCHANGED <<sending, plan, item, delivered, faulted, keeps, drops, buffer>>
          /\ pc'[Serializer] = pc[Serializer]
          /\ pc[t] = "enqueue" /\ pc'[t] = "isSet"
          /\ \A u \in Traces : u # t => pc'[u] = pc[u]
      BY <2>2, <1>0 DEF Enqueue
    <3>2. /\ \A u \in Traces : Waits(u)' <=> Waits(u) \/ u = t
          /\ QueueDistinct /\ ~Waits(t) => QueueDistinct'
      BY <3>1, QueueAppended
    <3>3. IsNew(t) /\ ~IsNew(t)' /\ \A u \in Traces : u # t => (IsNew(u)' <=> IsNew(u))
      BY <3>1 DEF IsNew
    <3>4. Held' = Held
      BY <3>1 DEF Held
    <3>5. Accepts(t)
      BY <3>1, <3>2, <3>3, <3>4, <1>c, <1>f DEF Accepts, SameCounts
    <3> QED
      BY <3>5 DEF Kinds
  <2>3. ASSUME NEW t \in Traces, IsSet(t) PROVE Kinds
    <3>1. Unmoved
      BY <2>3, <1>0, <1>c, <1>s, <1>t DEF Unmoved, IsSet, PlanInv,
         SerializationCompleted, SerializePc, TryWritePc, CopyPc
    <3> QED
      BY <3>1, UnmovedStep
  <2>4. ASSUME NEW t \in Traces, Set(t) PROVE Kinds
    <3>1. Unmoved
      BY <2>4, <1>0, <1>c, <1>s, <1>t DEF Unmoved, Set, PlanInv,
         SerializationCompleted, SerializePc, TryWritePc, CopyPc
    <3> QED
      BY <3>1, UnmovedStep
  <2>5. ASSUME NEW p \in Threads, ReadActiveBuffer(p) PROVE Kinds
    <3>1. Unmoved
      BY <2>5, <1>0, <1>c, <1>s, <1>t DEF Unmoved, ReadActiveBuffer, PlanInv,
         SerializationCompleted, SerializePc, TryWritePc, CopyPc
    <3> QED
      BY <3>1, UnmovedStep
  <2>6. ASSUME NEW p \in Threads, TryWriteRefused(p) PROVE Kinds
    <3>1. Unmoved
      BY <2>6, <1>0, <1>c, <1>s, <1>t DEF Unmoved, TryWriteRefused, Refused, PlanInv,
         SerializationCompleted, SerializePc, TryWritePc, CopyPc
    <3> QED
      BY <3>1, UnmovedStep
  <2>7. ASSUME NEW p \in Threads, TryWriteSerialize(p) PROVE Kinds
    <3>1. Unmoved
      BY <2>7, <1>0, <1>c, <1>s, <1>t DEF Unmoved, TryWriteSerialize, TryWriteEnters, TraceOf, PlanInv,
         SerializationCompleted, SerializePc, TryWritePc, CopyPc
    <3> QED
      BY <3>1, UnmovedStep
  <2>8. ASSUME NEW p \in Threads, TryWriteThrow(p) PROVE Kinds
    <3>0. p = Serializer /\ pc[Serializer] \in SerializePc /\ item \in Traces
      BY <2>8, <1>0, <1>t DEF TryWriteThrow, TryWriteEnters, TryWritePc, CopyPc, SerializePc, ItemInv
    <3>1. /\ \A t \in Traces : pc'[t] = pc[t]
          /\ pc'[Serializer] \notin SerializePc
          /\ UNCHANGED <<pendingTraces, sending, plan, item>>
      BY <2>8, <3>0, <1>0 DEF TryWriteThrow, TryWriteEnters, Throw, SerializePc
    <3>2. Held = item /\ Held' = None
      BY <3>0, <3>1 DEF Held
    <3>3. SameTraces /\ SameQueue /\ SameFlush
      BY <3>1, <1>h, <1>n, <1>f DEF SameTraces
    <3>4. /\ faulted' = faulted \cup {item}
          /\ UNCHANGED <<delivered, keeps, drops, buffer>>
      BY <2>8, <3>0 DEF TryWriteThrow, TraceOf
    <3>5. Fails(item)
      BY <3>2, <3>3, <3>4, <1>c DEF Fails
    <3> QED
      BY <3>0, <3>5 DEF Kinds
  <2>9. ASSUME NEW p \in Threads, TryWriteCopy(p) PROVE Kinds
    <3>0. p = Serializer /\ pc[Serializer] \in CopyPc /\ item \in Traces
      BY <2>9, <1>0, <1>t DEF TryWriteCopy, CopyPc, SerializePc, ItemInv
    <3> DEFINE b == target[Serializer]
    <3>a. b \in Buffers /\ buffer[b] \in SpanBuffers
      BY <1>0
    <3>b. temporaryBuffer = item
      BY <3>0, <1>s DEF TempInv
    <3>c. /\ \A t \in Traces : pc'[t] = pc[t]
          /\ UNCHANGED <<pendingTraces, sending, plan, item, delivered, faulted, keeps, drops>>
      BY <2>9, <3>0, <1>0 DEF TryWriteCopy
    <3>1. CASE Fits(buffer[b], item)
      <4>1. /\ pc'[Serializer] \notin SerializePc
            /\ buffer' = [buffer EXCEPT ![b] = Append1(@, item, item)]
        BY <2>9, <3>0, <3>1, <3>b, <1>0 DEF TryWriteCopy, TraceOf, Return, SerializePc
      <4>2. Contents' = [Contents EXCEPT ![b] = Append(@, item)]
        BY <4>1, <3>a, <1>0 DEF Contents, Append1, SpanBuffers
      <4>3. Held = item /\ Held' = None
        BY <3>0, <4>1 DEF Held, CopyPc, SerializePc
      <4>4. b \notin Sending \cup Sent
        BY <3>0, <3>a, <1>0, <1>b DEF LockInv, MonitorInv
      <4>5. SameTraces /\ SameQueue /\ SameFlush /\ SameCounts
        BY <3>c, <1>h, <1>n, <1>f DEF SameTraces, SameCounts
      <4>6. Collects(item, b)
        BY <4>2, <4>3, <4>4, <4>5 DEF Collects
      <4> QED
        BY <3>0, <3>a, <4>6 DEF Kinds
    <3>2. CASE ~Fits(buffer[b], item)
      <4>1. /\ pc'[Serializer] \in SerializePc /\ pc[Serializer] \in SerializePc
            /\ buffer' = [buffer EXCEPT ![b] = MarkFull(@)]
        BY <2>9, <3>0, <3>2, <1>0 DEF TryWriteCopy, TraceOf, Refused, SerializePc, CopyPc
      <4>2. Contents' = Contents
        BY <4>1, <3>a, <1>0 DEF Contents, MarkFull, SpanBuffers
      <4>3. Unmoved
        BY <3>c, <4>1, <4>2 DEF Unmoved
      <4> QED
        BY <4>3, UnmovedStep
    <3> QED
      BY <3>1, <3>2
  <2>10. ASSUME NEW p \in Threads, SwapBuffers(p) PROVE Kinds
    <3>1. Unmoved
      BY <2>10, <1>0, <1>c, <1>s, <1>t DEF Unmoved, SwapBuffers, PlanInv,
         SerializationCompleted, SerializePc, TryWritePc, CopyPc
    <3> QED
      BY <3>1, UnmovedStep
  <2>11. ASSUME NEW p \in Threads, SwapBuffersWrite(p) PROVE Kinds
    <3>1. Unmoved
      BY <2>11, <1>0, <1>c, <1>s, <1>t DEF Unmoved, SwapBuffersWrite, PlanInv,
         SerializationCompleted, SerializePc, TryWritePc, CopyPc
    <3> QED
      BY <3>1, UnmovedStep
  <2>12. ASSUME NEW p \in Threads, RequestFlush(p) PROVE Kinds
    <3>1. Unmoved
      BY <2>12, <1>0, <1>c, <1>s, <1>t DEF Unmoved, RequestFlush, PlanInv,
         SerializationCompleted, SerializePc, TryWritePc, CopyPc
    <3> QED
      BY <3>1, UnmovedStep
  <2>13. ASSUME NEW p \in Threads, CompleteForceFlush(p) PROVE Kinds
    <3>1. Unmoved
      BY <2>13, <1>0, <1>c, <1>s, <1>t DEF Unmoved, CompleteForceFlush, PlanInv,
         SerializationCompleted, SerializePc, TryWritePc, CopyPc
    <3> QED
      BY <3>1, UnmovedStep
  <2>14. ASSUME NEW p \in Threads, DropTrace(p) PROVE Kinds
    <3>0. p = Serializer /\ pc[Serializer] \in SerializePc /\ item \in Traces
      BY <2>14, <1>0, <1>t DEF DropTrace, TryWritePc, CopyPc, SerializePc, ItemInv
    <3>1. /\ \A t \in Traces : pc'[t] = pc[t]
          /\ pc'[Serializer] \notin SerializePc
          /\ UNCHANGED <<pendingTraces, sending, plan, item>>
      BY <2>14, <3>0, <1>0 DEF DropTrace, Return, SerializePc
    <3>2. Held = item /\ Held' = None
      BY <3>0, <3>1 DEF Held
    <3>3. SameTraces /\ SameQueue /\ SameFlush
      BY <3>1, <1>h, <1>n, <1>f DEF SameTraces
    <3>4. drops' = drops + 1 /\ UNCHANGED <<delivered, keeps, faulted, buffer>>
      BY <2>14 DEF DropTrace
    <3>5. Refuses(item)
      BY <3>2, <3>3, <3>4, <1>c DEF Refuses
    <3> QED
      BY <3>0, <3>5 DEF Kinds
  <2>15. CASE DequeueTrace
    <3> DEFINE t == Head(pendingTraces)
    <3>1. /\ pendingTraces # <<>> /\ pendingTraces' = Tail(pendingTraces)
          /\ UNCHANGED <<sending, plan, delivered, faulted, keeps, drops, buffer>>
          /\ pc[Serializer] = "drain" /\ pc'[Serializer] = "serialize" /\ item' = t
          /\ \A u \in Traces : pc'[u] = pc[u]
          /\ t \in Traces
      BY <2>15, <1>0 DEF DequeueTrace
    <3>2. /\ Waits(t)
          /\ QueueDistinct => /\ QueueDistinct'
                              /\ \A u \in Traces : Waits(u)' <=> Waits(u) /\ u # t
      BY <3>1, QueueShortened
    <3>3. Held = None /\ Held' = t
      BY <3>1 DEF Held, SerializePc
    <3>4. Takes(t)
      BY <3>1, <3>2, <3>3, <1>c, <1>f, <1>n DEF Takes, SameCounts
    <3> QED
      BY <3>1, <3>4 DEF Kinds
  <2>16. CASE DequeueWatermark
    <3>1. /\ pendingTraces # <<>> /\ pendingTraces' = Tail(pendingTraces)
          /\ UNCHANGED <<sending, plan, pc, item, delivered, faulted, keeps, drops, buffer>>
          /\ Head(pendingTraces) \notin Traces
      BY <2>16, <1>0 DEF DequeueWatermark
    <3>2. SameTraces /\ SameQueue
      BY <3>1, <1>n, QueueShortened DEF SameTraces, SameQueue
    <3>3. Nothing
      BY <3>1, <3>2, <1>c, <1>f, <1>n DEF Nothing, SameCounts
    <3> QED
      BY <3>3 DEF Kinds
  <2>17. CASE QueueDrained
    <3>1. Unmoved
      BY <2>17, <1>0, <1>c, <1>s, <1>t DEF Unmoved, QueueDrained, PlanInv,
         SerializationCompleted, SerializePc, TryWritePc, CopyPc
    <3> QED
      BY <3>1, UnmovedStep
  <2>18. CASE CheckProcessExit
    <3>1. Unmoved
      BY <2>18, <1>0, <1>c, <1>s, <1>t DEF Unmoved, CheckProcessExit, PlanInv,
         SerializationCompleted, SerializePc, TryWritePc, CopyPc
    <3> QED
      BY <3>1, UnmovedStep
  <2>19. CASE Sleep
    <3>1. Unmoved
      BY <2>19, <1>0, <1>c, <1>s, <1>t DEF Unmoved, Sleep, PlanInv,
         SerializationCompleted, SerializePc, TryWritePc, CopyPc
    <3> QED
      BY <3>1, UnmovedStep
  <2>20. CASE Wait
    <3>1. Unmoved
      BY <2>20, <1>0, <1>c, <1>s, <1>t DEF Unmoved, Wait, PlanInv,
         SerializationCompleted, SerializePc, TryWritePc, CopyPc
    <3> QED
      BY <3>1, UnmovedStep
  <2>21. CASE Reset
    <3>1. Unmoved
      BY <2>21, <1>0, <1>c, <1>s, <1>t DEF Unmoved, Reset, PlanInv,
         SerializationCompleted, SerializePc, TryWritePc, CopyPc
    <3> QED
      BY <3>1, UnmovedStep
  <2>22. ASSUME NEW f \in Flushers, FlushBuffers(f) PROVE Kinds
    <3>1. Unmoved
      BY <2>22, <1>0, <1>c, <1>s, <1>t DEF Unmoved, FlushBuffers, PlanInv,
         SerializationCompleted, SerializePc, TryWritePc, CopyPc
    <3> QED
      BY <3>1, UnmovedStep
  <2>23. ASSUME NEW f \in Flushers, CheckFallback(f) PROVE Kinds
    <3>1. Unmoved
      BY <2>23, <1>0, <1>c, <1>s, <1>t DEF Unmoved, CheckFallback, PlanInv,
         SerializationCompleted, SerializePc, TryWritePc, CopyPc
    <3> QED
      BY <3>1, UnmovedStep
  <2>24. ASSUME NEW f \in Flushers, FlushBuffer(f) PROVE Kinds
    <3>1. Unmoved
      BY <2>24, <1>0, <1>c, <1>s, <1>t DEF Unmoved, FlushBuffer, PlanInv,
         SerializationCompleted, SerializePc, TryWritePc, CopyPc
    <3> QED
      BY <3>1, UnmovedStep
  <2>25. ASSUME NEW f \in Flushers, LockBuffer(f) PROVE Kinds
    <3> DEFINE b == Head(plan[f])
    <3>1. /\ fpc[f] = "lock" /\ ~buffer[b].locked
          /\ buffer' = [buffer EXCEPT ![b] = Lock(@)]
          /\ sending' = [sending EXCEPT ![f] = IF TraceCount(buffer[b]) > 0 THEN "send"
                                                                          ELSE "clear"]
          /\ UNCHANGED <<delivered, keeps, drops>>
      BY <2>25 DEF LockBuffer
    <3>s. /\ UNCHANGED <<pc, item, plan, pendingTraces, faulted>>
          /\ SameTraces /\ SameQueue /\ Held' = Held
      <4>1. UNCHANGED <<pc, item, plan, pendingTraces, faulted>>
        BY <2>25 DEF LockBuffer
      <4> QED
        BY <4>1, <1>h, <1>n DEF SameTraces
    <3>2. sending[f] = "no" /\ Len(plan[f]) > 0 /\ plan[f] \in Seq(Buffers)
      BY <3>1, <1>0 DEF PlanInv
    <3>3. b \in Buffers
      BY <3>2, PlanOps
    <3>4. Contents' = Contents
      BY <3>1, <3>3, <1>0 DEF Contents, Lock, SpanBuffers
    <3>5. b \notin Sending \cup Sent
      BY <3>1, <3>3, <1>b
    <3>6. Contents[b] = buffer[b].traces /\ buffer[b].traces \in Seq(Traces)
      BY <3>3, <1>0 DEF Contents, SpanBuffers
    <3>7. CASE TraceCount(buffer[b]) > 0
      <4>1. sending' = [sending EXCEPT ![f] = "send"]
        BY <3>1, <3>7
      <4>2. Sending' = Sending \cup {b} /\ Sent' = Sent
        BY <4>1, <3>2, <3>s, <1>0 DEF Sending, Sent
      <4>3. Contents[b] # <<>>
        BY <3>6, <3>7 DEF TraceCount
      <4>4. Closes(b)
        BY <4>2, <4>3, <3>1, <3>4, <3>5, <3>s DEF Closes, SameCounts
      <4> QED
        BY <3>3, <4>4 DEF Kinds
    <3>8. CASE ~(TraceCount(buffer[b]) > 0)
      <4>1. sending' = [sending EXCEPT ![f] = "clear"]
        BY <3>1, <3>8
      <4>2. Sent' = Sent \cup {b} /\ Sending' = Sending
        BY <4>1, <3>2, <3>s, <1>0 DEF Sending, Sent
      <4>3. Contents[b] = <<>>
        BY <3>6, <3>8 DEF TraceCount
      <4>4. Closes(b)
        BY <4>2, <4>3, <3>1, <3>4, <3>5, <3>s DEF Closes, SameCounts
      <4> QED
        BY <3>3, <4>4 DEF Kinds
    <3> QED
      BY <3>7, <3>8
  <2>26. ASSUME NEW f \in Flushers, LockRefused(f) PROVE Kinds
    <3>1. Unmoved
      BY <2>26, <1>0, <1>c, <1>s, <1>t DEF Unmoved, LockRefused, PlanInv,
         SerializationCompleted, SerializePc, TryWritePc, CopyPc
    <3> QED
      BY <3>1, UnmovedStep
  <2>27. ASSUME NEW f \in Flushers, SendTracesAsync(f) PROVE Kinds
    <3> DEFINE b == Head(plan[f])
    <3>1. /\ sending[f] = "send" /\ sending' = [sending EXCEPT ![f] = "clear"]
          /\ UNCHANGED buffer
      BY <2>27 DEF SendTracesAsync
    <3>s. /\ UNCHANGED <<pc, item, plan, pendingTraces, faulted>>
          /\ SameTraces /\ SameQueue /\ Held' = Held
      <4>1. UNCHANGED <<pc, item, plan, pendingTraces, faulted>>
        BY <2>27 DEF SendTracesAsync
      <4> QED
        BY <4>1, <1>h, <1>n DEF SameTraces
    <3>2. /\ b \in Buffers
          /\ \A g \in Flushers : sending[g] # "no" /\ g # f => Head(plan[g]) # b
      BY <3>1, FlusherOf
    <3>3. b \in Sending
      BY <3>1 DEF Sending
    <3>4. Sending' = Sending \ {b} /\ Sent' = Sent \cup {b}
      <4>1. \A g \in Flushers : g # f => sending'[g] = sending[g]
        BY <3>1, <1>0
      <4>2. sending'[f] = "clear" /\ plan' = plan
        BY <3>1, <3>s, <1>0
      <4>3. Sending' \subseteq Sending \ {b} /\ Sending \ {b} \subseteq Sending'
        BY <4>1, <4>2, <3>1, <3>2 DEF Sending
      <4>4. Sent' = Sent \cup {b}
        BY <4>1, <4>2, <3>1 DEF Sent
      <4> QED
        BY <4>3, <4>4
    <3>5. Contents[b] = buffer[b].traces
      BY <3>2 DEF Contents
    <3>6. \/ /\ keeps' = keeps + Len(Contents[b])
             /\ delivered' = [t \in Traces |-> delivered[t] + Copies(Contents[b], t)]
             /\ UNCHANGED drops
          \/ /\ drops' = drops + Len(Contents[b])
             /\ UNCHANGED <<keeps, delivered>>
      BY <2>27, <3>5 DEF SendTracesAsync, TraceCount
    <3>7. Sends(b)
      BY <3>1, <3>3, <3>4, <3>6, <3>s, <1>c DEF Sends
    <3> QED
      BY <3>2, <3>7 DEF Kinds
  <2>28. ASSUME NEW f \in Flushers, ClearBuffer(f) PROVE Kinds
    <3> DEFINE b == Head(plan[f])
    <3>1. /\ sending[f] = "clear" /\ sending' = [sending EXCEPT ![f] = "unlock"]
          /\ buffer' = [buffer EXCEPT ![b] = ClearContent(@)]
          /\ UNCHANGED <<delivered, keeps, drops>>
      BY <2>28 DEF ClearBuffer
    <3>s. /\ UNCHANGED <<pc, item, plan, pendingTraces, faulted>>
          /\ SameTraces /\ SameQueue /\ Held' = Held
      <4>1. UNCHANGED <<pc, item, plan, pendingTraces, faulted>>
        BY <2>28 DEF ClearBuffer
      <4> QED
        BY <4>1, <1>h, <1>n DEF SameTraces
    <3>2. b \in Buffers
      BY <3>1, FlusherOf
    <3>3. b \in Sent
      BY <3>1 DEF Sent
    <3>4. SameFlush
      BY <3>1, <3>s, <1>0 DEF SameFlush, Sending, Sent
    <3>5. Contents' = [Contents EXCEPT ![b] = <<>>]
      BY <3>1, <3>2, <1>0 DEF Contents, ClearContent, SpanBuffers
    <3>6. Clears(b)
      BY <3>1, <3>3, <3>4, <3>5, <3>s DEF Clears, SameCounts
    <3> QED
      BY <3>2, <3>6 DEF Kinds
  <2>29. ASSUME NEW f \in Flushers, UnlockBuffer(f) PROVE Kinds
    <3> DEFINE b == Head(plan[f])
    <3>1. /\ sending[f] = "unlock" /\ sending' = [sending EXCEPT ![f] = "no"]
          /\ buffer' = [buffer EXCEPT ![b] = Unlock(@)]
          /\ UNCHANGED <<delivered, keeps, drops>>
      BY <2>29 DEF UnlockBuffer
    <3>s. /\ UNCHANGED <<pc, item, plan, pendingTraces, faulted>>
          /\ SameTraces /\ SameQueue /\ Held' = Held
      <4>1. UNCHANGED <<pc, item, plan, pendingTraces, faulted>>
        BY <2>29 DEF UnlockBuffer
      <4> QED
        BY <4>1, <1>h, <1>n DEF SameTraces
    <3>2. /\ b \in Buffers
          /\ \A g \in Flushers : sending[g] # "no" /\ g # f => Head(plan[g]) # b
      BY <3>1, FlusherOf
    <3>3. b \in Sent
      BY <3>1 DEF Sent
    <3>4. Sending' = Sending /\ Sent' = Sent \ {b}
      <4>1. \A g \in Flushers : g # f => sending'[g] = sending[g]
        BY <3>1, <1>0
      <4>2. sending'[f] = "no" /\ plan' = plan
        BY <3>1, <3>s, <1>0
      <4>3. Sent' \subseteq Sent \ {b} /\ Sent \ {b} \subseteq Sent'
        BY <4>1, <4>2, <3>1, <3>2 DEF Sent
      <4>4. Sending' = Sending
        BY <4>1, <4>2, <3>1 DEF Sending
      <4> QED
        BY <4>3, <4>4
    <3>5. Contents' = Contents
      BY <3>1, <3>2, <1>0 DEF Contents, Unlock, SpanBuffers
    <3>6. Contents[b] = <<>>
      <4>1. TraceCount(buffer[b]) = 0
        BY <3>1 DEF LockInv, MonitorInv
      <4>2. buffer[b].traces \in Seq(Traces)
        BY <3>2, <1>0 DEF SpanBuffers
      <4> QED
        BY <3>2, <4>1, <4>2 DEF TraceCount, Contents
    <3>7. Unlocks(b)
      BY <3>1, <3>3, <3>4, <3>5, <3>6, <3>s DEF Unlocks, SameCounts
    <3> QED
      BY <3>2, <3>7 DEF Kinds
  <2>30. ASSUME NEW f \in Flushers, AssignFlushTask(f) PROVE Kinds
    <3>1. Unmoved
      BY <2>30, <1>0, <1>c, <1>s, <1>t DEF Unmoved, AssignFlushTask, PlanInv,
         SerializationCompleted, SerializePc, TryWritePc, CopyPc
    <3> QED
      BY <3>1, UnmovedStep
  <2>31. ASSUME NEW f \in Flushers, AwaitFlushTask(f) PROVE Kinds
    <3>1. Unmoved
      BY <2>31, <1>0, <1>c, <1>s, <1>t DEF Unmoved, AwaitFlushTask, PlanInv,
         SerializationCompleted, SerializePc, TryWritePc, CopyPc
    <3> QED
      BY <3>1, UnmovedStep
  <2>32. CASE ReplaceForceFlush
    <3>1. Unmoved
      BY <2>32, <1>0, <1>c, <1>s, <1>t DEF Unmoved, ReplaceForceFlush, PlanInv,
         SerializationCompleted, SerializePc, TryWritePc, CopyPc
    <3> QED
      BY <3>1, UnmovedStep
  <2>33. CASE CheckSerializationTask
    <3>1. Unmoved
      BY <2>33, <1>0, <1>c, <1>s, <1>t DEF Unmoved, CheckSerializationTask, PlanInv,
         SerializationCompleted, SerializePc, TryWritePc, CopyPc
    <3> QED
      BY <3>1, UnmovedStep
  <2>34. ASSUME NEW f \in FlushCallers, FlushTracesAsync(f) PROVE Kinds
    <3>1. Unmoved
      BY <2>34, <1>0, <1>c, <1>s, <1>t DEF Unmoved, FlushTracesAsync, PlanInv,
         SerializationCompleted, SerializePc, TryWritePc, CopyPc
    <3> QED
      BY <3>1, UnmovedStep
  <2>35. ASSUME NEW f \in FlushCallers, WriteWatermark(f) PROVE Kinds
    <3>1. /\ pendingTraces' = Append(pendingTraces, f)
          /\ UNCHANGED <<sending, plan, pc, item, delivered, faulted, keeps, drops, buffer>>
          /\ f \notin Traces
      BY <2>35, <1>0 DEF WriteWatermark
    <3>2. SameTraces /\ SameQueue
      BY <3>1, <1>n, QueueAppended DEF SameTraces, SameQueue
    <3>3. Nothing
      BY <3>1, <3>2, <1>c, <1>f, <1>n DEF Nothing, SameCounts
    <3> QED
      BY <3>3 DEF Kinds
  <2>36. ASSUME NEW f \in FlushCallers, WakeUpThread(f) PROVE Kinds
    <3>1. Unmoved
      BY <2>36, <1>0, <1>c, <1>s, <1>t DEF Unmoved, WakeUpThread, PlanInv,
         SerializationCompleted, SerializePc, TryWritePc, CopyPc
    <3> QED
      BY <3>1, UnmovedStep
  <2>37. ASSUME NEW f \in FlushCallers, AwaitWatermark(f) PROVE Kinds
    <3>1. Unmoved
      BY <2>37, <1>0, <1>c, <1>s, <1>t DEF Unmoved, AwaitWatermark, PlanInv,
         SerializationCompleted, SerializePc, TryWritePc, CopyPc
    <3> QED
      BY <3>1, UnmovedStep
  <2>38. ASSUME NEW c \in Closers, FlushAndCloseAsync(c) PROVE Kinds
    <3>1. Unmoved
      BY <2>38, <1>0, <1>c, <1>s, <1>t DEF Unmoved, FlushAndCloseAsync, PlanInv,
         SerializationCompleted, SerializePc, TryWritePc, CopyPc
    <3> QED
      BY <3>1, UnmovedStep
  <2>39. ASSUME NEW c \in Closers, SetForExit(c) PROVE Kinds
    <3>1. Unmoved
      BY <2>39, <1>0, <1>c, <1>s, <1>t DEF Unmoved, SetForExit, PlanInv,
         SerializationCompleted, SerializePc, TryWritePc, CopyPc
    <3> QED
      BY <3>1, UnmovedStep
  <2>40. ASSUME NEW c \in Closers, AwaitSerialization(c) PROVE Kinds
    <3>1. Unmoved
      BY <2>40, <1>0, <1>c, <1>s, <1>t DEF Unmoved, AwaitSerialization, PlanInv,
         SerializationCompleted, SerializePc, TryWritePc, CopyPc
    <3> QED
      BY <3>1, UnmovedStep
  <2>41. ASSUME NEW c \in Closers, SerializationTimeout(c) PROVE Kinds
    <3>1. Unmoved
      BY <2>41, <1>0, <1>c, <1>s, <1>t DEF Unmoved, SerializationTimeout, PlanInv,
         SerializationCompleted, SerializePc, TryWritePc, CopyPc
    <3> QED
      BY <3>1, UnmovedStep
  <2>42. ASSUME NEW c \in Closers, CheckLeftover(c) PROVE Kinds
    <3>1. Unmoved
      BY <2>42, <1>0, <1>c, <1>s, <1>t DEF Unmoved, CheckLeftover, PlanInv,
         SerializationCompleted, SerializePc, TryWritePc, CopyPc
    <3> QED
      BY <3>1, UnmovedStep
  <2>43. ASSUME NEW c \in Closers, LeftoverTimeout(c) PROVE Kinds
    <3>1. Unmoved
      BY <2>43, <1>0, <1>c, <1>s, <1>t DEF Unmoved, LeftoverTimeout, PlanInv,
         SerializationCompleted, SerializePc, TryWritePc, CopyPc
    <3> QED
      BY <3>1, UnmovedStep
  <2>44. ASSUME NEW c \in Closers, LeftoverFlushed(c) PROVE Kinds
    <3>1. Unmoved
      BY <2>44, <1>0, <1>c, <1>s, <1>t DEF Unmoved, LeftoverFlushed, PlanInv,
         SerializationCompleted, SerializePc, TryWritePc, CopyPc
    <3> QED
      BY <3>1, UnmovedStep
  <2> QED
    BY <1>1, <2>1, <2>2, <2>3, <2>4, <2>5, <2>6, <2>7, <2>8, <2>9, <2>10, <2>11, <2>12,
       <2>13, <2>14, <2>15, <2>16, <2>17, <2>18, <2>19, <2>20, <2>21, <2>22, <2>23,
       <2>24, <2>25, <2>26, <2>27, <2>28, <2>29, <2>30, <2>31, <2>32, <2>33, <2>34,
       <2>35, <2>36, <2>37, <2>38, <2>39, <2>40, <2>41, <2>42, <2>43, <2>44
    DEF Next, SerializeTrace, SerializeTracesLoop, Flush, FlushTraces, FlushAndClose
<1>2. CASE UNCHANGED vars
  <2>1. Unmoved
    BY <1>2, <1>c DEF vars, Unmoved
  <2> QED
    BY <2>1, UnmovedStep
<1> QED
  BY <1>1, <1>2

-----------------------------------------------------------------------------
(***************************************************************************)
(* A trace is in one place.  While the serialization thread runs, a trace    *)
(* that waits in the queue or is being serialized is nowhere else, the     *)
(* buffers hold different traces, and a trace that the agent has accepted  *)
(* is in no buffer that will be sent.                                      *)
(***************************************************************************)

Distinct(s) == \A i, j \in DOMAIN s : s[i] = s[j] => i = j

\* Trace t has not come as far as a buffer.
Untouched(t) ==
    /\ \A b \in Buffers : t \notin TracesIn(b)
    /\ delivered[t] = 0
    /\ t \notin faulted

\* Trace t is on its way to a buffer in one place only.
BeforeBuffers(t) ==
    /\ IsNew(t) => ~Waits(t) /\ Held # t /\ Untouched(t)
    /\ Waits(t) => Held # t /\ Untouched(t)
    /\ Held = t => Untouched(t)

\* A trace in a buffer that is not sent yet has not been accepted, and no
\* trace has been accepted twice.
AfterBuffers(t) ==
    /\ \A b \in Buffers : t \in TracesIn(b) =>
         t \notin faulted /\ (delivered[t] = 0 \/ b \in Sent)
    /\ \A b, c \in Buffers : t \in TracesIn(b) /\ t \in TracesIn(c) => b = c
    /\ delivered[t] <= 1
    /\ t \in faulted => delivered[t] = 0

Places ==
    /\ QueueDistinct
    /\ \A b \in Buffers : Distinct(Contents[b])
    /\ \A t \in Traces : BeforeBuffers(t) /\ AfterBuffers(t)

PlaceInv == ~SerializationCompleted => Places

\* How often a trace occurs in a sequence that holds it at most once.
LEMMA CopiesOfOne ==
    ASSUME NEW S, NEW s \in Seq(S), NEW t,
           \A i, j \in DOMAIN s : s[i] = t /\ s[j] = t => i = j
    PROVE  Copies(s, t) = IF \E i \in DOMAIN s : s[i] = t THEN 1 ELSE 0
<1> DEFINE C == {i \in 1 .. Len(s) : s[i] = t}
<1>0. DOMAIN s = 1 .. Len(s)
  OBVIOUS
<1>1. CASE \E i \in DOMAIN s : s[i] = t
  <2>1. PICK i \in DOMAIN s : s[i] = t
    BY <1>1
  <2>2. C = {i}
    BY <2>1, <1>0
  <2>3. Cardinality(C) = 1
    BY <2>2, FS_Singleton
  <2> QED
    BY <2>3, <1>1 DEF Copies
<1>2. CASE ~\E i \in DOMAIN s : s[i] = t
  <2>1. C = {}
    BY <1>2, <1>0
  <2>2. Cardinality(C) = 0
    BY <2>1, FS_EmptySet
  <2> QED
    BY <2>2, <1>2 DEF Copies
<1> QED
  BY <1>1, <1>2

\* The number of traces in a sequence that holds each of them once.
LEMMA CountOfDistinct ==
    ASSUME NEW S, NEW s \in Seq(S), Distinct(s)
    PROVE  Cardinality({s[i] : i \in DOMAIN s}) = Len(s)
<1> DEFINE R == {s[i] : i \in DOMAIN s}
<1>0. DOMAIN s = 1 .. Len(s) /\ Len(s) \in Nat
  OBVIOUS
<1>1. s \in [1 .. Len(s) -> R]
  BY <1>0
<1>2. s \in Bijection(1 .. Len(s), R)
  <2>1. \A a, b \in 1 .. Len(s) : s[a] = s[b] => a = b
    BY <1>0 DEF Distinct
  <2>2. \A r \in R : \E i \in 1 .. Len(s) : s[i] = r
    BY <1>0
  <2> HIDE DEF R
  <2> QED
    BY <1>1, <2>1, <2>2, Fun_IsBij
<1>3. IsFiniteSet(1 .. Len(s)) /\ Cardinality(1 .. Len(s)) = Len(s)
  <2>1. /\ IsFiniteSet(1 .. Len(s))
        /\ Cardinality(1 .. Len(s)) = IF 1 > Len(s) THEN 0 ELSE Len(s) - 1 + 1
    BY <1>0, FS_Interval
  <2> QED
    BY <1>0, <2>1
<1> HIDE DEF R
<1>4. ExistsBijection(1 .. Len(s), R)
  BY <1>2 DEF ExistsBijection
<1>5. Cardinality(R) = Cardinality(1 .. Len(s))
  BY <1>3, <1>4, FS_Bijection
<1> QED
  BY <1>3, <1>5 DEF R

\* Only the empty sequence has no elements.
LEMMA EmptyDomain ==
    ASSUME NEW S, NEW s \in Seq(S)
    PROVE  DOMAIN s = {} <=> s = <<>>
<1>1. DOMAIN s = 1 .. Len(s) /\ Len(s) \in Nat /\ (Len(s) = 0 <=> s = <<>>)
  OBVIOUS
<1>2. Len(s) # 0 => 1 \in 1 .. Len(s)
  BY <1>1
<1>3. Len(s) = 0 => 1 .. Len(s) = {}
  BY <1>1
<1> QED
  BY <1>1, <1>2, <1>3

\* The traces in a buffer, by its contents.
LEMMA TracesInDef ==
    ASSUME TypeInv, NEW b \in Buffers
    PROVE  /\ Contents[b] = buffer[b].traces /\ Contents[b] \in Seq(Traces)
           /\ TracesIn(b) = {Contents[b][i] : i \in DOMAIN Contents[b]}
           /\ TracesIn(b) \subseteq Traces
           /\ TracesIn(b) = {} <=> Contents[b] = <<>>
<1>1. Contents[b] = buffer[b].traces /\ Contents[b] \in Seq(Traces)
  BY DEF Contents, TypeInv, TypeOK, SpanBuffers
<1>2. TracesIn(b) = {Contents[b][i] : i \in DOMAIN Contents[b]}
  BY <1>1 DEF TracesIn
<1>3. \A i \in DOMAIN Contents[b] : Contents[b][i] \in Traces
  BY <1>1
<1>4. DOMAIN Contents[b] = {} <=> Contents[b] = <<>>
  BY <1>1, EmptyDomain
<1> QED
  BY <1>1, <1>2, <1>3, <1>4

\* Contents that do not change.
LEMMA SameContents ==
    ASSUME Contents' = Contents, NEW b \in Buffers
    PROVE  TracesIn(b)' = TracesIn(b)
<1>1. Contents[b] = buffer[b].traces /\ Contents'[b] = buffer'[b].traces
  BY DEF Contents
<1> QED
  BY <1>1 DEF TracesIn

\* A trace is appended to a buffer.
LEMMA AppendedContents ==
    ASSUME TypeInv, NEW b \in Buffers, NEW t \in Traces,
           Contents' = [Contents EXCEPT ![b] = Append(@, t)]
    PROVE  /\ TracesIn(b)' = TracesIn(b) \cup {t}
           /\ \A c \in Buffers : c # b => TracesIn(c)' = TracesIn(c)
           /\ \A c \in Buffers : c # b => Contents'[c] = Contents[c]
           /\ Distinct(Contents[b]) /\ t \notin TracesIn(b) => Distinct(Contents'[b])
<1> DEFINE s == Contents[b]
           r == Contents'[b]
           n == Len(s) + 1
<1>0. \A c \in Buffers : /\ Contents[c] = buffer[c].traces /\ Contents'[c] = buffer'[c].traces
                         /\ c # b => Contents'[c] = Contents[c]
  BY DEF Contents
<1>1. s \in Seq(Traces) /\ r = Append(s, t)
  BY TracesInDef DEF Contents
<1>2. /\ DOMAIN r = DOMAIN s \cup {n}
      /\ n \notin DOMAIN s
      /\ r[n] = t
      /\ \A i \in DOMAIN s : r[i] = s[i]
  BY <1>1, AppendElements
<1>3. TracesIn(b) = {s[i] : i \in DOMAIN s} /\ TracesIn(b)' = {r[i] : i \in DOMAIN r}
  BY <1>0 DEF TracesIn
<1> HIDE DEF n, s, r
<1>4. {r[i] : i \in DOMAIN r} = {s[i] : i \in DOMAIN s} \cup {t}
  BY <1>2
<1>5. TracesIn(b)' = TracesIn(b) \cup {t}
  BY <1>3, <1>4
<1>6. Distinct(s) /\ t \notin TracesIn(b) => Distinct(r)
  BY <1>2, <1>3 DEF Distinct
<1>7. \A c \in Buffers : c # b => TracesIn(c)' = TracesIn(c)
  BY <1>0 DEF TracesIn
<1> QED
  BY <1>0, <1>5, <1>6, <1>7 DEF s, r

\* A buffer is emptied.
LEMMA ClearedContents ==
    ASSUME NEW b \in Buffers, Contents' = [Contents EXCEPT ![b] = <<>>]
    PROVE  /\ TracesIn(b)' = {}
           /\ \A c \in Buffers : c # b => TracesIn(c)' = TracesIn(c)
           /\ \A c \in Buffers : Distinct(Contents[c]) => Distinct(Contents'[c])
<1>0. \A c \in Buffers : /\ Contents[c] = buffer[c].traces /\ Contents'[c] = buffer'[c].traces
                         /\ c # b => Contents'[c] = Contents[c]
  BY DEF Contents
<1>1. Contents'[b] = <<>>
  BY DEF Contents
<1>2. TracesIn(b)' = {}
  BY <1>0, <1>1 DEF TracesIn
<1>3. \A c \in Buffers : c # b => TracesIn(c)' = TracesIn(c)
  BY <1>0 DEF TracesIn
<1>4. Distinct(<<>>)
  BY DEF Distinct
<1> QED
  BY <1>0, <1>1, <1>2, <1>3, <1>4

\* A buffer that is being sent is not empty, and has not been sent.
LEMMA SendingBuffers ==
    ASSUME TypeInv, LockInv
    PROVE  /\ Sending \subseteq Buffers /\ Sent \subseteq Buffers
           /\ Sending \cap Sent = {}
           /\ \A b \in Sending : TracesIn(b) # {}
<1>1. \A b \in Sending : b \notin Sent
  BY SendingDef, FlusherOf
<1>2. Sending \subseteq Buffers /\ Sent \subseteq Buffers
  BY SendingDef, FlusherOf
<1>3. ASSUME NEW b \in Sending PROVE TracesIn(b) # {}
  <2>1. PICK f \in Flushers : sending[f] = "send" /\ Head(plan[f]) = b
    BY SendingDef
  <2>2. Len(buffer[b].traces) > 0
    BY <2>1 DEF LockInv, PayloadIntact, TraceCount
  <2>3. b \in Buffers
    BY <1>2
  <2> QED
    BY <2>2, <2>3, TracesInDef
<1> QED
  BY <1>1, <1>2, <1>3

\* A buffer holds a trace once, or not at all.
LEMMA CopiesInBuffer ==
    ASSUME TypeInv, NEW b \in Buffers, Distinct(Contents[b]), NEW t
    PROVE  Copies(Contents[b], t) = IF t \in TracesIn(b) THEN 1 ELSE 0
<1>1. /\ Contents[b] \in Seq(Traces)
      /\ TracesIn(b) = {Contents[b][i] : i \in DOMAIN Contents[b]}
  BY TracesInDef
<1>2. \A i, j \in DOMAIN Contents[b] : Contents[b][i] = t /\ Contents[b][j] = t => i = j
  BY DEF Distinct
<1>3. Copies(Contents[b], t) = IF \E i \in DOMAIN Contents[b] : Contents[b][i] = t THEN 1 ELSE 0
  BY <1>1, <1>2, CopiesOfOne
<1> QED
  BY <1>1, <1>3

\* A step of any kind keeps every trace in one place.
LEMMA PlacesKept ==
    ASSUME TypeInv, LockInv, Places, Kinds
    PROVE  Places'
<1>0. /\ delivered \in [Traces -> Nat] /\ faulted \subseteq Traces /\ None \notin Traces
      /\ Sending \cap Sent = {}
      /\ \A b \in Buffers : Distinct(Contents[b])
      /\ QueueDistinct
      /\ \A b \in Buffers : TracesIn(b) \subseteq Traces
  BY ActorsAssumption, SendingBuffers, TracesInDef DEF TypeInv, TypeOK, Places, Threads
<1>1. CASE Nothing
  <2>i. \A c \in Buffers : TracesIn(c)' = TracesIn(c)
    BY <1>1, SameContents DEF Nothing
  <2>q. QueueDistinct'
    BY <1>1, <1>0 DEF Nothing, SameQueue, Places
  <2>d. \A c \in Buffers : Distinct(Contents'[c])
    BY <1>1, <1>0 DEF Nothing, Places
  <2>u. ASSUME NEW u \in Traces PROVE BeforeBuffers(u)' /\ AfterBuffers(u)'
    <3>1. BeforeBuffers(u) /\ AfterBuffers(u)
      BY DEF Places
    <3>2. BeforeBuffers(u)'
      BY <1>1, <1>0, <3>1, <2>i DEF Nothing, SameTraces, SameFlush, SameCounts, BeforeBuffers, Untouched
    <3>3. AfterBuffers(u)'
      BY <1>1, <1>0, <3>1, <2>i DEF Nothing, SameTraces, SameFlush, SameCounts, AfterBuffers, BeforeBuffers, Untouched
    <3> QED
      BY <3>2, <3>3
  <2> QED
    BY <2>q, <2>d, <2>u DEF Places
<1>2. ASSUME NEW t \in Traces, Accepts(t) PROVE Places'
  <2>i. \A c \in Buffers : TracesIn(c)' = TracesIn(c)
    BY <1>2, SameContents DEF Accepts
  <2>q. QueueDistinct'
    BY <1>2, <1>0 DEF Accepts, Places, BeforeBuffers
  <2>d. \A c \in Buffers : Distinct(Contents'[c])
    BY <1>2, <1>0 DEF Accepts, Places
  <2>u. ASSUME NEW u \in Traces PROVE BeforeBuffers(u)' /\ AfterBuffers(u)'
    <3>1. BeforeBuffers(u) /\ AfterBuffers(u)
      BY DEF Places
    <3>2. BeforeBuffers(u)'
      BY <1>2, <1>0, <3>1, <2>i DEF Accepts, SameTraces, SameFlush, SameCounts, BeforeBuffers, Untouched
    <3>3. AfterBuffers(u)'
      BY <1>2, <1>0, <3>1, <2>i DEF Accepts, SameTraces, SameFlush, SameCounts, AfterBuffers, BeforeBuffers, Untouched
    <3> QED
      BY <3>2, <3>3
  <2> QED
    BY <2>q, <2>d, <2>u DEF Places
<1>3. ASSUME NEW t \in Traces, Takes(t) PROVE Places'
  <2>i. \A c \in Buffers : TracesIn(c)' = TracesIn(c)
    BY <1>3, SameContents DEF Takes
  <2>q. QueueDistinct'
    BY <1>3, <1>0 DEF Takes
  <2>d. \A c \in Buffers : Distinct(Contents'[c])
    BY <1>3, <1>0 DEF Takes, Places
  <2>u. ASSUME NEW u \in Traces PROVE BeforeBuffers(u)' /\ AfterBuffers(u)'
    <3>1. BeforeBuffers(u) /\ AfterBuffers(u)
      BY DEF Places
    <3>2. BeforeBuffers(u)'
      BY <1>3, <1>0, <3>1, <2>i DEF Takes, SameTraces, SameFlush, SameCounts, BeforeBuffers, Untouched
    <3>3. AfterBuffers(u)'
      BY <1>3, <1>0, <3>1, <2>i DEF Takes, SameTraces, SameFlush, SameCounts, AfterBuffers, BeforeBuffers, Untouched
    <3> QED
      BY <3>2, <3>3
  <2> QED
    BY <2>q, <2>d, <2>u DEF Places
<1>4. ASSUME NEW t \in Traces, NEW b \in Buffers, Collects(t, b) PROVE Places'
  <2>i. /\ TracesIn(b)' = TracesIn(b) \cup {t}
        /\ \A c \in Buffers : c # b => TracesIn(c)' = TracesIn(c)
        /\ \A c \in Buffers : c # b => Contents'[c] = Contents[c]
        /\ Distinct(Contents[b]) /\ t \notin TracesIn(b) => Distinct(Contents'[b])
    BY <1>4, AppendedContents DEF Collects
  <2>t. Untouched(t)
    BY <1>4 DEF Collects, Places, BeforeBuffers
  <2>q. QueueDistinct'
    BY <1>4, <1>0 DEF Collects, SameQueue, Places
  <2>d. \A c \in Buffers : Distinct(Contents'[c])
    BY <1>0, <2>i, <2>t DEF Untouched
  <2>u. ASSUME NEW u \in Traces PROVE BeforeBuffers(u)' /\ AfterBuffers(u)'
    <3>1. BeforeBuffers(u) /\ AfterBuffers(u)
      BY DEF Places
    <3>2. BeforeBuffers(u)'
      BY <1>4, <1>0, <3>1, <2>i, <2>t DEF Collects, SameTraces, SameFlush, SameCounts, BeforeBuffers, Untouched
    <3>3. AfterBuffers(u)'
      BY <1>4, <1>0, <3>1, <2>i, <2>t DEF Collects, SameTraces, SameFlush, SameCounts, AfterBuffers, BeforeBuffers, Untouched
    <3> QED
      BY <3>2, <3>3
  <2> QED
    BY <2>q, <2>d, <2>u DEF Places
<1>5. ASSUME NEW t \in Traces, Fails(t) PROVE Places'
  <2>i. \A c \in Buffers : TracesIn(c)' = TracesIn(c)
    BY <1>5, SameContents DEF Fails
  <2>t. Untouched(t)
    BY <1>5 DEF Fails, Places, BeforeBuffers
  <2>q. QueueDistinct'
    BY <1>5, <1>0 DEF Fails, SameQueue, Places
  <2>d. \A c \in Buffers : Distinct(Contents'[c])
    BY <1>5, <1>0 DEF Fails, Places
  <2>u. ASSUME NEW u \in Traces PROVE BeforeBuffers(u)' /\ AfterBuffers(u)'
    <3>1. BeforeBuffers(u) /\ AfterBuffers(u)
      BY DEF Places
    <3>2. BeforeBuffers(u)'
      BY <1>5, <1>0, <3>1, <2>i, <2>t DEF Fails, SameTraces, SameFlush, SameCounts, BeforeBuffers, Untouched
    <3>3. AfterBuffers(u)'
      BY <1>5, <1>0, <3>1, <2>i, <2>t DEF Fails, SameTraces, SameFlush, SameCounts, AfterBuffers, BeforeBuffers, Untouched
    <3> QED
      BY <3>2, <3>3
  <2> QED
    BY <2>q, <2>d, <2>u DEF Places
<1>6. ASSUME NEW t \in Traces, Refuses(t) PROVE Places'
  <2>i. \A c \in Buffers : TracesIn(c)' = TracesIn(c)
    BY <1>6, SameContents DEF Refuses
  <2>q. QueueDistinct'
    BY <1>6, <1>0 DEF Refuses, SameQueue, Places
  <2>d. \A c \in Buffers : Distinct(Contents'[c])
    BY <1>6, <1>0 DEF Refuses, Places
  <2>u. ASSUME NEW u \in Traces PROVE BeforeBuffers(u)' /\ AfterBuffers(u)'
    <3>1. BeforeBuffers(u) /\ AfterBuffers(u)
      BY DEF Places
    <3>2. BeforeBuffers(u)'
      BY <1>6, <1>0, <3>1, <2>i DEF Refuses, SameTraces, SameFlush, SameCounts, BeforeBuffers, Untouched
    <3>3. AfterBuffers(u)'
      BY <1>6, <1>0, <3>1, <2>i DEF Refuses, SameTraces, SameFlush, SameCounts, AfterBuffers, BeforeBuffers, Untouched
    <3> QED
      BY <3>2, <3>3
  <2> QED
    BY <2>q, <2>d, <2>u DEF Places
<1>7. ASSUME NEW b \in Buffers, Closes(b) PROVE Places'
  <2>i. \A c \in Buffers : TracesIn(c)' = TracesIn(c)
    BY <1>7, SameContents DEF Closes
  <2>q. QueueDistinct'
    BY <1>7, <1>0 DEF Closes, SameQueue, Places
  <2>d. \A c \in Buffers : Distinct(Contents'[c])
    BY <1>7, <1>0 DEF Closes, Places
  <2>u. ASSUME NEW u \in Traces PROVE BeforeBuffers(u)' /\ AfterBuffers(u)'
    <3>1. BeforeBuffers(u) /\ AfterBuffers(u)
      BY DEF Places
    <3>2. BeforeBuffers(u)'
      BY <1>7, <1>0, <3>1, <2>i DEF Closes, SameTraces, SameFlush, SameCounts, BeforeBuffers, Untouched
    <3>3. AfterBuffers(u)'
      BY <1>7, <1>0, <3>1, <2>i DEF Closes, SameTraces, SameFlush, SameCounts, AfterBuffers, BeforeBuffers, Untouched
    <3> QED
      BY <3>2, <3>3
  <2> QED
    BY <2>q, <2>d, <2>u DEF Places
<1>8. ASSUME NEW b \in Buffers, Sends(b) PROVE Places'
  <2>i. \A c \in Buffers : TracesIn(c)' = TracesIn(c)
    BY <1>8, SameContents DEF Sends
  <2>c. \A u \in Traces : Copies(Contents[b], u) = IF u \in TracesIn(b) THEN 1 ELSE 0
    BY <1>0, CopiesInBuffer
  <2>e. \A u \in Traces : delivered'[u] = delivered[u] \/ (u \in TracesIn(b) /\ delivered'[u] = delivered[u] + 1)
    BY <1>8, <1>0, <2>c DEF Sends
  <2>q. QueueDistinct'
    BY <1>8, <1>0 DEF Sends, SameQueue, Places
  <2>d. \A c \in Buffers : Distinct(Contents'[c])
    BY <1>8, <1>0 DEF Sends, Places
  <2>u. ASSUME NEW u \in Traces PROVE BeforeBuffers(u)' /\ AfterBuffers(u)'
    <3>1. BeforeBuffers(u) /\ AfterBuffers(u)
      BY DEF Places
    <3>2. BeforeBuffers(u)'
      BY <1>8, <1>0, <3>1, <2>i, <2>e DEF Sends, SameTraces, SameFlush, SameCounts, BeforeBuffers, Untouched
    <3>3. AfterBuffers(u)'
      BY <1>8, <1>0, <3>1, <2>i, <2>e DEF Sends, SameTraces, SameFlush, SameCounts, AfterBuffers, BeforeBuffers, Untouched
    <3> QED
      BY <3>2, <3>3
  <2> QED
    BY <2>q, <2>d, <2>u DEF Places
<1>9. ASSUME NEW b \in Buffers, Clears(b) PROVE Places'
  <2>i. /\ TracesIn(b)' = {}
        /\ \A c \in Buffers : c # b => TracesIn(c)' = TracesIn(c)
        /\ \A c \in Buffers : Distinct(Contents[c]) => Distinct(Contents'[c])
    BY <1>9, ClearedContents DEF Clears
  <2>q. QueueDistinct'
    BY <1>9, <1>0 DEF Clears, SameQueue, Places
  <2>d. \A c \in Buffers : Distinct(Contents'[c])
    BY <1>0, <2>i
  <2>u. ASSUME NEW u \in Traces PROVE BeforeBuffers(u)' /\ AfterBuffers(u)'
    <3>1. BeforeBuffers(u) /\ AfterBuffers(u)
      BY DEF Places
    <3>2. BeforeBuffers(u)'
      BY <1>9, <1>0, <3>1, <2>i DEF Clears, SameTraces, SameFlush, SameCounts, BeforeBuffers, Untouched
    <3>3. AfterBuffers(u)'
      BY <1>9, <1>0, <3>1, <2>i DEF Clears, SameTraces, SameFlush, SameCounts, AfterBuffers, BeforeBuffers, Untouched
    <3> QED
      BY <3>2, <3>3
  <2> QED
    BY <2>q, <2>d, <2>u DEF Places
<1>10. ASSUME NEW b \in Buffers, Unlocks(b) PROVE Places'
  <2>i. \A c \in Buffers : TracesIn(c)' = TracesIn(c)
    BY <1>10, SameContents DEF Unlocks
  <2>e. TracesIn(b) = {}
    BY <1>10, TracesInDef DEF Unlocks
  <2>q. QueueDistinct'
    BY <1>10, <1>0 DEF Unlocks, SameQueue, Places
  <2>d. \A c \in Buffers : Distinct(Contents'[c])
    BY <1>10, <1>0 DEF Unlocks, Places
  <2>u. ASSUME NEW u \in Traces PROVE BeforeBuffers(u)' /\ AfterBuffers(u)'
    <3>1. BeforeBuffers(u) /\ AfterBuffers(u)
      BY DEF Places
    <3>2. BeforeBuffers(u)'
      BY <1>10, <1>0, <3>1, <2>i, <2>e DEF Unlocks, SameTraces, SameFlush, SameCounts, BeforeBuffers, Untouched
    <3>3. AfterBuffers(u)'
      BY <1>10, <1>0, <3>1, <2>i, <2>e DEF Unlocks, SameTraces, SameFlush, SameCounts, AfterBuffers, BeforeBuffers, Untouched
    <3> QED
      BY <3>2, <3>3
  <2> QED
    BY <2>q, <2>d, <2>u DEF Places
<1> QED
  BY <1>1, <1>2, <1>3, <1>4, <1>5, <1>6, <1>7, <1>8, <1>9, <1>10 DEF Kinds

\* The places of the traces are kept by every step that does not end the
\* serialization thread: each is one of the kinds of steps.
LEMMA PlaceInvNext == TypeInv /\ LockInv /\ SwapInv /\ TempInv /\ PlaceInv /\ [Next]_vars => PlaceInv'
<1> SUFFICES ASSUME TypeInv, LockInv, SwapInv, TempInv, PlaceInv, [Next]_vars,
                    ~SerializationCompleted'
             PROVE  Places'
  BY DEF PlaceInv
<1>1. Places
  BY CompletedStays DEF PlaceInv
<1>2. Kinds
  BY StepKinds
<1> QED
  BY <1>1, <1>2, PlacesKept

\* The constructor starts with an empty queue and empty buffers.
LEMMA PlaceInvInit == Init => PlaceInv /\ TempInv
<1> SUFFICES ASSUME Init PROVE Places /\ TempInv
  BY DEF PlaceInv
<1>1. /\ pendingTraces = <<>> /\ item = None /\ faulted = {}
      /\ \A b \in Buffers : buffer[b].traces = <<>>
      /\ \A t \in Traces : delivered[t] = 0
      /\ pc[Serializer] \notin SerializePc
      /\ None \notin Traces
  BY ActorsAssumption DEF Init, NewSpanBuffer, Threads, SerializePc
<1>2. \A b \in Buffers : Contents[b] = <<>> /\ TracesIn(b) = {}
  BY <1>1 DEF Contents, TracesIn
<1>3. QueueDistinct /\ \A t \in Traces : ~Waits(t)
  BY <1>1 DEF QueueDistinct, Waits
<1>4. Held = None
  BY <1>1 DEF Held
<1>5. Distinct(<<>>)
  BY DEF Distinct
<1>6. \A t \in Traces : BeforeBuffers(t) /\ AfterBuffers(t)
  <2> SUFFICES ASSUME NEW t \in Traces PROVE BeforeBuffers(t) /\ AfterBuffers(t)
    OBVIOUS
  <2>1. /\ Held # t /\ ~Waits(t) /\ delivered[t] = 0 /\ t \notin faulted
        /\ \A b \in Buffers : t \notin TracesIn(b)
    BY <1>1, <1>2, <1>3, <1>4
  <2>2. Untouched(t)
    BY <2>1 DEF Untouched
  <2>3. delivered[t] <= 1
    BY <2>1
  <2> QED
    BY <2>1, <2>2, <2>3 DEF BeforeBuffers, AfterBuffers
<1>7. TempInv
  BY <1>1 DEF TempInv, CopyPc, SerializePc
<1> QED
  BY <1>2, <1>3, <1>5, <1>6, <1>7 DEF Places

\* While the serialization thread runs, every trace is in one place.
LEMMA PlaceInvariance == Spec => [](PlaceInv /\ TempInv)
  BY PlaceInvInit, PlaceInvNext, TempInvNext, TypeInvariance, LockInvariance, SwapInvariance,
     PTL DEF Spec

\* The traces in b that may still be sent.
LEMMA BufferedOnce ==
    ASSUME TypeInv, LockInv, Places, NEW t \in Traces, NEW b \in Buffers
    PROVE  Buffered(t, b) = IF t \in TracesIn(b) /\ b \notin Sent THEN 1 ELSE 0
<1>0. /\ sending \in [Flushers -> {"no", "send", "clear", "unlock"}]
      /\ Contents[b] = buffer[b].traces /\ Contents[b] \in Seq(Traces)
      /\ Distinct(Contents[b])
      /\ TracesIn(b) = {} <=> Contents[b] = <<>>
  BY TracesInDef DEF TypeInv, TypeOK, Places
<1>1. CASE b \in Sent
  <2>1. \E f \in Flushers : IsFlushing(f, b) /\ sending[f] # "send"
    BY <1>1, SendingDef DEF IsFlushing
  <2>2. Uncounted(b) = 0
    BY <2>1 DEF Uncounted
  <2> QED
    BY <1>1, <2>2 DEF Buffered
<1>2. CASE b \notin Sent
  <2>1. ~\E f \in Flushers : IsFlushing(f, b) /\ sending[f] # "send"
    BY <1>0, <1>2, SendingDef DEF IsFlushing
  <2>2. Uncounted(b) = Len(Contents[b])
    BY <1>0, <2>1 DEF Uncounted, TraceCount
  <2>3. Copies(Contents[b], t) = IF t \in TracesIn(b) THEN 1 ELSE 0
    BY <1>0, CopiesInBuffer
  <2>4. Len(Contents[b]) = 0 => t \notin TracesIn(b)
    BY <1>0
  <2> QED
    BY <1>0, <1>2, <2>2, <2>3, <2>4 DEF Buffered
<1> QED
  BY <1>1, <1>2

\* As long as the serialization thread runs, a trace is in the queue, in the
\* hands of the serialization thread, in one buffer, or accepted by the agent,
\* and only in one of these places: however many flushers compete for the two
\* buffers, the agent accepts no trace twice.
THEOREM AtMostOnceCorrect == Spec => []AtMostOnce
<1>1. TypeInv /\ LockInv /\ PlaceInv => AtMostOnce
  <2> SUFFICES ASSUME TypeInv, LockInv, Places, NEW t \in Traces
               PROVE  Copies(pendingTraces, t)
                      + (IF pc[Serializer] \in SerializePc /\ item = t THEN 1 ELSE 0)
                      + Buffered(t, "front") + Buffered(t, "back")
                      + delivered[t] <= 1
    BY DEF AtMostOnce, PlaceInv
  <2>1. Copies(pendingTraces, t) = IF Waits(t) THEN 1 ELSE 0
    <3>1. \A i, j \in DOMAIN pendingTraces :
            pendingTraces[i] = t /\ pendingTraces[j] = t => i = j
      BY DEF Places, QueueDistinct
    <3>2. pendingTraces \in Seq(Traces \cup FlushCallers)
      BY DEF TypeInv, TypeOK
    <3>3. Copies(pendingTraces, t)
            = IF \E i \in DOMAIN pendingTraces : pendingTraces[i] = t THEN 1 ELSE 0
      BY <3>1, <3>2, CopiesOfOne
    <3> QED
      BY <3>3 DEF Waits
  <2>2. pc[Serializer] \in SerializePc /\ item = t <=> Held = t
    BY ActorsAssumption DEF Held, Threads
  <2>3. /\ Buffered(t, "front") = IF t \in TracesIn("front") /\ "front" \notin Sent THEN 1 ELSE 0
        /\ Buffered(t, "back") = IF t \in TracesIn("back") /\ "back" \notin Sent THEN 1 ELSE 0
    BY BufferedOnce DEF Buffers
  <2>4. BeforeBuffers(t) /\ AfterBuffers(t) /\ delivered[t] \in Nat
    BY DEF Places, TypeInv, TypeOK
  <2>5. /\ Waits(t) => Held # t /\ Untouched(t)
        /\ Held = t => Untouched(t)
        /\ Untouched(t) => /\ t \notin TracesIn("front") /\ t \notin TracesIn("back")
                           /\ delivered[t] = 0
    BY <2>4 DEF BeforeBuffers, Untouched, Buffers
  <2>6. /\ t \in TracesIn("front") /\ "front" \notin Sent => delivered[t] = 0
        /\ t \in TracesIn("back") /\ "back" \notin Sent => delivered[t] = 0
        /\ ~(t \in TracesIn("front") /\ t \in TracesIn("back"))
        /\ delivered[t] <= 1
    <3>1. "front" \in Buffers /\ "back" \in Buffers /\ "front" # "back"
      BY DEF Buffers
    <3> QED
      BY <2>4, <3>1 DEF AfterBuffers
  <2> HIDE DEF Waits, Held
  <2> QED
    BY <2>1, <2>2, <2>3, <2>4, <2>5, <2>6
<1> QED
  BY <1>1, TypeInvariance, LockInvariance, PlaceInvariance, PTL

-----------------------------------------------------------------------------
(***************************************************************************)
(* The refinement.  Status is the refinement mapping in terms of what the   *)
(* kinds of steps say, and each kind is a step of TraceDelivery or leaves  *)
(* its variables alone.                                                    *)
(***************************************************************************)

Status(t) ==
    IF IsNew(t) THEN "new"
    ELSE IF Waits(t) \/ Held = t THEN "pending"
    ELSE IF \E b \in Sending : t \in TracesIn(b) THEN "sending"
    ELSE IF \E b \in Buffers : b \notin Sending \cup Sent /\ t \in TracesIn(b) THEN "collected"
    ELSE IF delivered[t] > 0 THEN "delivered"
    ELSE IF t \in faulted THEN "faulty" ELSE "lost"

Batches == {TracesIn(b) : b \in Sending}

\* The mapping of AgentWriterDelivery is Status.
LEMMA StatusIs ==
    ~SerializationCompleted /\ TypeInv /\ LockInv /\ SwapInv /\ Places =>
        \A t \in Traces : StatusOf(t) = Status(t)
<1> SUFFICES ASSUME ~SerializationCompleted, TypeInv, LockInv, SwapInv, Places, NEW t \in Traces
             PROVE  StatusOf(t) = Status(t)
  OBVIOUS
<1> DEFINE A == \E p \in {t, Serializer} : TraceOf(p) = t /\ pc[p] \in SerializePc
           S == \E b \in Sending : t \in TracesIn(b)
           C == \E b \in Buffers \ (Sending \cup Sent) : t \in TracesIn(b)
<1>1. A <=> Held = t
  BY ActorsAssumption DEF SwapInv, TraceOf, Held, Threads
<1>2. C <=> \E b \in Buffers : b \notin Sending \cup Sent /\ t \in TracesIn(b)
  OBVIOUS
<1>3. /\ IsNew(t) => ~Waits(t) /\ ~A /\ ~S /\ ~C /\ ~(delivered[t] > 0) /\ t \notin faulted
      /\ Waits(t) \/ A => ~S /\ ~C /\ ~(delivered[t] > 0) /\ t \notin faulted
  <2>1. BeforeBuffers(t)
    BY DEF Places
  <2>2. Untouched(t) => ~S /\ ~C /\ ~(delivered[t] > 0) /\ t \notin faulted
    BY SendingBuffers DEF Untouched
  <2> QED
    BY <1>1, <2>1, <2>2 DEF BeforeBuffers
<1>4. /\ S => ~C /\ ~(delivered[t] > 0) /\ t \notin faulted
      /\ C => ~(delivered[t] > 0) /\ t \notin faulted
      /\ t \in faulted => ~(delivered[t] > 0)
  <2>1. AfterBuffers(t) /\ delivered[t] \in Nat
    BY DEF Places, TypeInv, TypeOK
  <2> QED
    BY <2>1, SendingBuffers DEF AfterBuffers
<1>5. StatusOf(t) =
        CASE IsNew(t) -> "new"
          [] Waits(t) -> "pending"
          [] A -> "pending"
          [] S -> "sending"
          [] C -> "collected"
          [] delivered[t] > 0 -> "delivered"
          [] t \in faulted -> "faulty"
          [] OTHER -> "lost"
  BY DEF StatusOf, IsNew, Waits
<1>6. Status(t) =
        IF IsNew(t) THEN "new"
        ELSE IF Waits(t) \/ A THEN "pending"
        ELSE IF S THEN "sending"
        ELSE IF C THEN "collected"
        ELSE IF delivered[t] > 0 THEN "delivered"
        ELSE IF t \in faulted THEN "faulty" ELSE "lost"
  BY <1>1, <1>2 DEF Status
<1> HIDE DEF A, S, C
<1> QED
  BY <1>3, <1>4, <1>5, <1>6

\* The traces of S take on status s, the others keep theirs.
MovedTo(S, s) == \A u \in Traces : Status(u)' = IF u \in S THEN s ELSE Status(u)

HiddenMove ==
    /\ MovedTo({}, "lost")
    /\ Batches' = Batches /\ UNCHANGED <<keeps, drops>>

AcceptMove(t) ==
    /\ Status(t) = "new" /\ MovedTo({t}, "pending")
    /\ Batches' = Batches /\ UNCHANGED <<keeps, drops>>

PendingMove(t) ==
    /\ Status(t) = "pending" /\ Batches' = Batches
    /\ \/ MovedTo({t}, "collected") /\ UNCHANGED <<keeps, drops>>
       \/ MovedTo({t}, "faulty") /\ UNCHANGED <<keeps, drops>>
       \/ MovedTo({t}, "lost") /\ UNCHANGED keeps /\ drops' = drops + 1

CloseMove(b) ==
    /\ TracesIn(b) # {}
    /\ \A u \in TracesIn(b) : Status(u) = "collected"
    /\ MovedTo(TracesIn(b), "sending")
    /\ Batches' = Batches \cup {TracesIn(b)} /\ UNCHANGED <<keeps, drops>>

SendMove(b) ==
    /\ b \in Sending /\ Batches' = Batches \ {TracesIn(b)}
    /\ \/ /\ MovedTo(TracesIn(b), "delivered")
          /\ keeps' = keeps + Cardinality(TracesIn(b)) /\ UNCHANGED drops
       \/ /\ MovedTo(TracesIn(b), "lost")
          /\ drops' = drops + Cardinality(TracesIn(b)) /\ UNCHANGED keeps

\* What a step does to the status of the traces.
LEMMA StatusMoves ==
    ASSUME TypeInv, LockInv, Places, Kinds
    PROVE  \/ HiddenMove
           \/ \E t \in Traces : AcceptMove(t) \/ PendingMove(t)
           \/ \E b \in Buffers : CloseMove(b) \/ SendMove(b)
<1>0. /\ delivered \in [Traces -> Nat] /\ faulted \subseteq Traces /\ None \notin Traces
      /\ Sending \cap Sent = {} /\ Sending \subseteq Buffers /\ Sent \subseteq Buffers
      /\ \A b \in Buffers : TracesIn(b) \subseteq Traces
  BY ActorsAssumption, SendingBuffers, TracesInDef DEF TypeInv, TypeOK, Threads
<1>1. ASSUME Nothing PROVE HiddenMove
  <2>i. \A c \in Buffers : TracesIn(c)' = TracesIn(c)
    BY <1>1, SameContents DEF Nothing
  <2>b. Batches' = Batches
    BY <1>1, <1>0, <2>i DEF Nothing, SameFlush, Batches
  <2>u. ASSUME NEW u \in Traces PROVE Status(u)' = IF u \in {} THEN "lost" ELSE Status(u)
    <3>1. BeforeBuffers(u) /\ AfterBuffers(u)
      BY DEF Places
    <3> QED
      BY <1>1, <1>0, <3>1, <2>i DEF Nothing, SameTraces, SameFlush, SameCounts, Status,
         BeforeBuffers, AfterBuffers, Untouched
  <2>k. UNCHANGED <<keeps, drops>>
    BY <1>1 DEF Nothing, SameCounts
  <2> QED
    BY <2>b, <2>u, <2>k DEF HiddenMove, MovedTo
<1>2. ASSUME NEW t \in Traces, Accepts(t) PROVE AcceptMove(t)
  <2>i. \A c \in Buffers : TracesIn(c)' = TracesIn(c)
    BY <1>2, SameContents DEF Accepts
  <2>b. Batches' = Batches
    BY <1>2, <1>0, <2>i DEF Accepts, SameFlush, Batches
  <2>u. ASSUME NEW u \in Traces PROVE Status(u)' = IF u \in {t} THEN "pending" ELSE Status(u)
    <3>1. BeforeBuffers(u) /\ AfterBuffers(u)
      BY DEF Places
    <3> QED
      BY <1>2, <1>0, <3>1, <2>i DEF Accepts, SameTraces, SameFlush, SameCounts, Status,
         BeforeBuffers, AfterBuffers, Untouched
  <2>k. UNCHANGED <<keeps, drops>> /\ Status(t) = "new"
    BY <1>2 DEF Accepts, SameCounts, Status
  <2> QED
    BY <2>b, <2>u, <2>k DEF AcceptMove, MovedTo
<1>3. ASSUME NEW t \in Traces, Takes(t) PROVE HiddenMove
  <2>i. \A c \in Buffers : TracesIn(c)' = TracesIn(c)
    BY <1>3, SameContents DEF Takes
  <2>q. \A v \in Traces : Waits(v)' <=> Waits(v) /\ v # t
    BY <1>3 DEF Takes, Places
  <2>b. Batches' = Batches
    BY <1>3, <1>0, <2>i DEF Takes, SameFlush, Batches
  <2>u. ASSUME NEW u \in Traces PROVE Status(u)' = IF u \in {} THEN "lost" ELSE Status(u)
    <3>1. BeforeBuffers(u) /\ AfterBuffers(u)
      BY DEF Places
    <3> QED
      BY <1>3, <1>0, <3>1, <2>i, <2>q DEF Takes, SameTraces, SameFlush, SameCounts, Status,
         BeforeBuffers, AfterBuffers, Untouched
  <2>k. UNCHANGED <<keeps, drops>>
    BY <1>3 DEF Takes, SameCounts
  <2> QED
    BY <2>b, <2>u, <2>k DEF HiddenMove, MovedTo
<1>4. ASSUME NEW t \in Traces, NEW b \in Buffers, Collects(t, b) PROVE PendingMove(t)
  <2>i. /\ TracesIn(b)' = TracesIn(b) \cup {t}
        /\ \A c \in Buffers : c # b => TracesIn(c)' = TracesIn(c)
    BY <1>4, AppendedContents DEF Collects
  <2>b. Batches' = Batches
    BY <1>4, <1>0, <2>i DEF Collects, SameFlush, Batches
  <2>t. Untouched(t) /\ ~IsNew(t) /\ ~Waits(t) /\ Held = t /\ Held' = None
    BY <1>4 DEF Collects, Places, BeforeBuffers
  <2>p. Status(t) = "pending"
    BY <2>t DEF Status
  <2>u. ASSUME NEW u \in Traces PROVE Status(u)' = IF u \in {t} THEN "collected" ELSE Status(u)
    <3>1. BeforeBuffers(u) /\ AfterBuffers(u)
      BY DEF Places
    <3> QED
      BY <1>4, <1>0, <3>1, <2>i, <2>t DEF Collects, SameTraces, SameFlush, SameCounts, Status,
         BeforeBuffers, AfterBuffers, Untouched
  <2>k. UNCHANGED <<keeps, drops>>
    BY <1>4 DEF Collects, SameCounts
  <2> QED
    BY <2>b, <2>u, <2>k, <2>p DEF PendingMove, MovedTo
<1>5. ASSUME NEW t \in Traces, Fails(t) PROVE PendingMove(t)
  <2>i. \A c \in Buffers : TracesIn(c)' = TracesIn(c)
    BY <1>5, SameContents DEF Fails
  <2>b. Batches' = Batches
    BY <1>5, <1>0, <2>i DEF Fails, SameFlush, Batches
  <2>t. Untouched(t) /\ ~IsNew(t) /\ ~Waits(t) /\ Held = t /\ Held' = None
    BY <1>5 DEF Fails, Places, BeforeBuffers
  <2>p. Status(t) = "pending"
    BY <2>t DEF Status
  <2>u. ASSUME NEW u \in Traces PROVE Status(u)' = IF u \in {t} THEN "faulty" ELSE Status(u)
    <3>1. BeforeBuffers(u) /\ AfterBuffers(u)
      BY DEF Places
    <3> QED
      BY <1>5, <1>0, <3>1, <2>i, <2>t DEF Fails, SameTraces, SameFlush, SameCounts, Status,
         BeforeBuffers, AfterBuffers, Untouched
  <2>k. UNCHANGED <<keeps, drops>>
    BY <1>5 DEF Fails
  <2> QED
    BY <2>b, <2>u, <2>k, <2>p DEF PendingMove, MovedTo
<1>6. ASSUME NEW t \in Traces, Refuses(t) PROVE PendingMove(t)
  <2>i. \A c \in Buffers : TracesIn(c)' = TracesIn(c)
    BY <1>6, SameContents DEF Refuses
  <2>b. Batches' = Batches
    BY <1>6, <1>0, <2>i DEF Refuses, SameFlush, Batches
  <2>t. Untouched(t) /\ ~IsNew(t) /\ ~Waits(t) /\ Held = t /\ Held' = None
    BY <1>6 DEF Refuses, Places, BeforeBuffers
  <2>p. Status(t) = "pending"
    BY <2>t DEF Status
  <2>u. ASSUME NEW u \in Traces PROVE Status(u)' = IF u \in {t} THEN "lost" ELSE Status(u)
    <3>1. BeforeBuffers(u) /\ AfterBuffers(u)
      BY DEF Places
    <3> QED
      BY <1>6, <1>0, <3>1, <2>i, <2>t DEF Refuses, SameTraces, SameFlush, SameCounts, Status,
         BeforeBuffers, AfterBuffers, Untouched
  <2>k. UNCHANGED keeps /\ drops' = drops + 1
    BY <1>6 DEF Refuses
  <2> QED
    BY <2>b, <2>u, <2>k, <2>p DEF PendingMove, MovedTo
<1>7. ASSUME NEW b \in Buffers, Closes(b) PROVE HiddenMove \/ CloseMove(b)
  <2>i. \A c \in Buffers : TracesIn(c)' = TracesIn(c)
    BY <1>7, SameContents DEF Closes
  <2>k. UNCHANGED <<keeps, drops>>
    BY <1>7 DEF Closes, SameCounts
  <2>e. TracesIn(b) = {} <=> Contents[b] = <<>>
    BY TracesInDef
  <2>1. CASE Contents[b] = <<>>
    <3>f. Sending' = Sending /\ Sent' = Sent \cup {b}
      BY <1>7, <2>1 DEF Closes
    <3>b. Batches' = Batches
      BY <3>f, <2>i, <1>0 DEF Batches
    <3>u. ASSUME NEW u \in Traces PROVE Status(u)' = Status(u)
      BY <1>7, <1>0, <2>i, <2>e, <2>1, <3>f DEF Closes, SameTraces, SameCounts, Status
    <3> QED
      BY <2>k, <3>b, <3>u DEF HiddenMove, MovedTo
  <2>2. CASE Contents[b] # <<>>
    <3>f. Sending' = Sending \cup {b} /\ Sent' = Sent
      BY <1>7, <2>2 DEF Closes
    <3>b. Batches' = Batches \cup {TracesIn(b)}
      BY <3>f, <2>i, <1>0 DEF Batches
    <3>u. ASSUME NEW u \in Traces
          PROVE  /\ Status(u)' = IF u \in TracesIn(b) THEN "sending" ELSE Status(u)
                 /\ u \in TracesIn(b) => Status(u) = "collected"
      <4>1. BeforeBuffers(u) /\ AfterBuffers(u) /\ b \notin Sending \cup Sent
        BY <1>7 DEF Places, Closes
      <4>2. u \in TracesIn(b) =>
              /\ ~IsNew(u) /\ ~Waits(u) /\ Held # u
              /\ \A c \in Buffers : u \in TracesIn(c) => c = b
        BY <4>1 DEF BeforeBuffers, AfterBuffers, Untouched
      <4> QED
        BY <1>7, <1>0, <4>1, <4>2, <2>i, <3>f DEF Closes, SameTraces, SameCounts, Status
    <3>s. \A u \in TracesIn(b) : u \in Traces
      BY <1>0
    <3> QED
      BY <2>k, <2>e, <2>2, <3>b, <3>u, <3>s DEF CloseMove, MovedTo
  <2> QED
    BY <2>1, <2>2
<1>8. ASSUME NEW b \in Buffers, Sends(b) PROVE SendMove(b)
  <2>i. \A c \in Buffers : TracesIn(c)' = TracesIn(c)
    BY <1>8, SameContents DEF Sends
  <2>f. b \in Sending /\ Sending' = Sending \ {b} /\ Sent' = Sent \cup {b}
    BY <1>8 DEF Sends
  <2>b. Batches' = Batches \ {TracesIn(b)}
    <3>1. \A c \in Sending : c # b => TracesIn(c) # TracesIn(b)
      <4> SUFFICES ASSUME NEW c \in Sending, TracesIn(c) = TracesIn(b) PROVE c = b
        OBVIOUS
      <4>1. PICK t : t \in TracesIn(c)
        BY SendingBuffers
      <4>2. t \in Traces /\ AfterBuffers(t)
        BY <4>1, <1>0 DEF Places
      <4> QED
        BY <4>1, <4>2, <1>0 DEF AfterBuffers
    <3>2. Batches' = {TracesIn(c) : c \in Sending \ {b}}
      BY <2>f, <2>i, <1>0 DEF Batches
    <3> QED
      BY <3>1, <3>2, <2>f DEF Batches
  <2>l. Len(Contents[b]) = Cardinality(TracesIn(b))
    <3>1. Contents[b] \in Seq(Traces) /\ Distinct(Contents[b])
      BY TracesInDef DEF Places
    <3>2. Cardinality({Contents[b][i] : i \in DOMAIN Contents[b]}) = Len(Contents[b])
      BY <3>1, CountOfDistinct
    <3> QED
      BY <3>2, TracesInDef
  <2>c. \A v \in Traces : Copies(Contents[b], v) = IF v \in TracesIn(b) THEN 1 ELSE 0
    BY CopiesInBuffer DEF Places
  <2>v. ASSUME NEW u \in Traces
        PROVE  /\ IsNew(u)' <=> IsNew(u)
               /\ Waits(u)' <=> Waits(u)
               /\ Held' = Held
               /\ u \in TracesIn(b) =>
                    /\ ~IsNew(u) /\ ~Waits(u) /\ Held # u
                    /\ \A c \in Buffers : u \in TracesIn(c) => c = b
                    /\ delivered[u] = 0 /\ u \notin faulted
               /\ faulted' = faulted
    <3>1. BeforeBuffers(u) /\ AfterBuffers(u) /\ b \notin Sent
      BY <2>f, <1>0 DEF Places
    <3>2. u \in TracesIn(b) =>
            /\ ~IsNew(u) /\ ~Waits(u) /\ Held # u
            /\ \A c \in Buffers : u \in TracesIn(c) => c = b
            /\ delivered[u] = 0 /\ u \notin faulted
      BY <3>1 DEF BeforeBuffers, AfterBuffers, Untouched
    <3> QED
      BY <1>8, <3>2 DEF Sends, SameTraces
  <2>1. CASE /\ keeps' = keeps + Len(Contents[b])
             /\ delivered' = [t \in Traces |-> delivered[t] + Copies(Contents[b], t)]
             /\ UNCHANGED drops
    <3>d. ASSUME NEW u \in Traces
          PROVE  delivered'[u] = IF u \in TracesIn(b) THEN 1 ELSE delivered[u]
      BY <2>1, <2>c, <2>v, <1>0
    <3>u. ASSUME NEW u \in Traces
          PROVE  Status(u)' = IF u \in TracesIn(b) THEN "delivered" ELSE Status(u)
      BY <3>d, <2>f, <2>i, <2>v, <1>0 DEF Status
    <3> QED
      BY <2>1, <2>f, <2>b, <2>l, <3>u DEF SendMove, MovedTo
  <2>2. CASE /\ drops' = drops + Len(Contents[b])
             /\ UNCHANGED <<keeps, delivered>>
    <3>u. ASSUME NEW u \in Traces
          PROVE  Status(u)' = IF u \in TracesIn(b) THEN "lost" ELSE Status(u)
      BY <2>2, <2>f, <2>i, <2>v, <1>0 DEF Status
    <3> QED
      BY <2>2, <2>f, <2>b, <2>l, <3>u DEF SendMove, MovedTo
  <2> QED
    BY <1>8, <2>1, <2>2 DEF Sends
<1>9. ASSUME NEW b \in Buffers, Clears(b) PROVE HiddenMove
  <2>i. /\ TracesIn(b)' = {}
        /\ \A c \in Buffers : c # b => TracesIn(c)' = TracesIn(c)
    BY <1>9, ClearedContents DEF Clears
  <2>b. Batches' = Batches
    BY <1>9, <1>0, <2>i DEF Clears, SameFlush, Batches
  <2>u. ASSUME NEW u \in Traces PROVE Status(u)' = IF u \in {} THEN "lost" ELSE Status(u)
    <3>1. BeforeBuffers(u) /\ AfterBuffers(u)
      BY DEF Places
    <3> QED
      BY <1>9, <1>0, <3>1, <2>i DEF Clears, SameTraces, SameFlush, SameCounts, Status,
         BeforeBuffers, AfterBuffers, Untouched
  <2>k. UNCHANGED <<keeps, drops>>
    BY <1>9 DEF Clears, SameCounts
  <2> QED
    BY <2>b, <2>u, <2>k DEF HiddenMove, MovedTo
<1>10. ASSUME NEW b \in Buffers, Unlocks(b) PROVE HiddenMove
  <2>i. \A c \in Buffers : TracesIn(c)' = TracesIn(c)
    BY <1>10, SameContents DEF Unlocks
  <2>e. TracesIn(b) = {}
    BY <1>10, TracesInDef DEF Unlocks
  <2>b. Batches' = Batches
    BY <1>10, <1>0, <2>i DEF Unlocks, SameFlush, Batches
  <2>u. ASSUME NEW u \in Traces PROVE Status(u)' = IF u \in {} THEN "lost" ELSE Status(u)
    <3>1. BeforeBuffers(u) /\ AfterBuffers(u)
      BY DEF Places
    <3> QED
      BY <1>10, <1>0, <3>1, <2>i, <2>e DEF Unlocks, SameTraces, SameFlush, SameCounts, Status,
         BeforeBuffers, AfterBuffers, Untouched
  <2>k. UNCHANGED <<keeps, drops>>
    BY <1>10 DEF Unlocks, SameCounts
  <2> QED
    BY <2>b, <2>u, <2>k DEF HiddenMove, MovedTo
<1> QED
  BY <1>1, <1>2, <1>3, <1>4, <1>5, <1>6, <1>7, <1>8, <1>9, <1>10 DEF Kinds

\* A step of AgentWriter is a step of TraceDelivery, or hidden from it.
LEMMA DeliveryStep ==
    ASSUME TypeInv, LockInv, SwapInv, TempInv, PlaceInv, [Next]_vars,
           ~SerializationCompleted, ~SerializationCompleted',
           \A t \in Traces : StatusOf(t) = Status(t),
           \A t \in Traces : StatusOf(t)' = Status(t)'
    PROVE  [Delivery!DeliveryNext]_(Delivery!deliveryVars)
<1> DEFINE status == [t \in Traces |-> StatusOf(t)]
<1>1. status = [t \in Traces |-> Status(t)] /\ status' = [t \in Traces |-> Status(t)']
  OBVIOUS
<1>2. ASSUME NEW S, NEW s, MovedTo(S, s)
      PROVE  status' = [t \in Traces |-> IF t \in S THEN s ELSE status[t]]
  BY <1>1, <1>2 DEF MovedTo
<1>3. Kinds
  BY StepKinds
<1>4. Places
  BY DEF PlaceInv
<1> HIDE DEF status
<1> DEFINE Goal == [Delivery!DeliveryNext]_(Delivery!deliveryVars)
<1>5. ASSUME HiddenMove PROVE Goal
  <2>1. status' = status
    <3>1. status' = [t \in Traces |-> IF t \in {} THEN "lost" ELSE status[t]]
      BY <1>2, <1>5 DEF HiddenMove
    <3>2. status = [t \in Traces |-> status[t]]
      BY DEF status
    <3> QED
      BY <3>1, <3>2
  <2> QED
    BY <1>5, <2>1 DEF HiddenMove, Delivery!deliveryVars, Batches, status
<1>6. ASSUME NEW t \in Traces, AcceptMove(t) PROVE Goal
  <2>1. status' = [u \in Traces |-> IF u \in {t} THEN "pending" ELSE status[u]]
    BY <1>2, <1>6 DEF AcceptMove
  <2>2. status[t] = "new"
    BY <1>1, <1>6 DEF AcceptMove
  <2>3. Delivery!Accept(t)
    BY <1>6, <2>1 DEF AcceptMove, Delivery!Accept, Delivery!Moved, Batches, status
  <2>4. t \in Delivery!In("new")
    BY <2>2 DEF Delivery!In, status
  <2> QED
    BY <2>3, <2>4 DEF Delivery!DeliveryNext
<1>7. ASSUME NEW t \in Traces, PendingMove(t) PROVE Goal
  <2>1. status[t] = "pending"
    BY <1>1, <1>7 DEF PendingMove
  <2>2. t \in Delivery!In("pending")
    BY <2>1 DEF Delivery!In, status
  <2>3. CASE MovedTo({t}, "collected") /\ UNCHANGED <<keeps, drops>>
    <3>1. status' = [u \in Traces |-> IF u \in {t} THEN "collected" ELSE status[u]]
      BY <1>2, <2>3
    <3>2. Delivery!Collect(t)
      BY <1>7, <2>3, <3>1 DEF PendingMove, Delivery!Collect, Delivery!Moved, Batches, status
    <3> QED
      BY <2>2, <3>2 DEF Delivery!DeliveryNext
  <2>4. CASE MovedTo({t}, "faulty") /\ UNCHANGED <<keeps, drops>>
    <3>1. status' = [u \in Traces |-> IF u \in {t} THEN "faulty" ELSE status[u]]
      BY <1>2, <2>4
    <3>2. Delivery!Fail(t)
      BY <1>7, <2>4, <3>1 DEF PendingMove, Delivery!Fail, Delivery!Moved, Batches, status
    <3> QED
      BY <2>2, <3>2 DEF Delivery!DeliveryNext
  <2>5. CASE MovedTo({t}, "lost") /\ UNCHANGED keeps /\ drops' = drops + 1
    <3>1. status' = [u \in Traces |-> IF u \in {t} THEN "lost" ELSE status[u]]
      BY <1>2, <2>5
    <3>2. Delivery!Refuse(t)
      BY <1>7, <2>5, <3>1 DEF PendingMove, Delivery!Refuse, Delivery!Moved, Batches, status
    <3> QED
      BY <2>2, <3>2 DEF Delivery!DeliveryNext
  <2> QED
    BY <1>7, <2>3, <2>4, <2>5 DEF PendingMove
<1>8. ASSUME NEW b \in Buffers, CloseMove(b) PROVE Goal
  <2> DEFINE S == TracesIn(b)
  <2>1. status' = [u \in Traces |-> IF u \in S THEN "sending" ELSE status[u]]
    BY <1>2, <1>8 DEF CloseMove
  <2>2. S \subseteq Traces
    BY TracesInDef
  <2>3. \A u \in S : status[u] = "collected"
    BY <1>1, <1>8, <2>2 DEF CloseMove
  <2>4. Delivery!Close(S)
    BY <1>8, <2>1 DEF CloseMove, Delivery!Close, Delivery!Moved, Batches, status
  <2>5. S \in SUBSET Delivery!In("collected")
    BY <2>2, <2>3 DEF Delivery!In, status
  <2> QED
    BY <2>4, <2>5 DEF Delivery!DeliveryNext
<1>9. ASSUME NEW b \in Buffers, SendMove(b) PROVE Goal
  <2> DEFINE S == TracesIn(b)
  <2>1. S \in Batches
    BY <1>9 DEF SendMove, Batches
  <2>c. Delivery!Cardinality(S) = Cardinality(S)
    BY DEF Delivery!Cardinality, Cardinality
  <2>2. CASE /\ MovedTo(S, "delivered")
             /\ keeps' = keeps + Cardinality(S) /\ UNCHANGED drops
    <3>1. status' = [u \in Traces |-> IF u \in S THEN "delivered" ELSE status[u]]
      BY <1>2, <2>2
    <3>2. Delivery!Send(S)
      BY <1>9, <2>2, <2>c, <3>1 DEF SendMove, Delivery!Send, Delivery!Moved, Batches, status
    <3> QED
      BY <2>1, <3>2 DEF Delivery!DeliveryNext, Batches
  <2>3. CASE /\ MovedTo(S, "lost")
             /\ drops' = drops + Cardinality(S) /\ UNCHANGED keeps
    <3>1. status' = [u \in Traces |-> IF u \in S THEN "lost" ELSE status[u]]
      BY <1>2, <2>3
    <3>2. Delivery!Send(S)
      BY <1>9, <2>3, <2>c, <3>1 DEF SendMove, Delivery!Send, Delivery!Moved, Batches, status
    <3> QED
      BY <2>1, <3>2 DEF Delivery!DeliveryNext, Batches
  <2> QED
    BY <1>9, <2>2, <2>3 DEF SendMove
<1> HIDE DEF Goal
<1>10. Goal
  BY <1>3, <1>4, <1>5, <1>6, <1>7, <1>8, <1>9, StatusMoves
<1> QED
  BY <1>10 DEF Goal

\* Nothing has been written, and nothing is being sent, when AgentWriter is
\* constructed.
LEMMA DeliveryStart == Init => Delivery!DeliveryInit
<1> SUFFICES ASSUME Init PROVE Delivery!DeliveryInit
  OBVIOUS
<1>1. /\ \A t \in Traces : pc[t] = "idle"
      /\ \A f \in Flushers : sending[f] = "no"
      /\ keeps = 0 /\ drops = 0
  BY ActorsAssumption DEF Init, Threads
<1>2. Sending = {}
  BY <1>1 DEF Sending
<1>3. TypeInv /\ LockInv /\ SwapInv /\ PlaceInv
  BY TypeInvInit, LockInvInit, SwapInvInit, PlaceInvInit
<1>4. ASSUME NEW t \in Traces PROVE StatusOf(t) = "new"
  <2>1. /\ ~\E i \in DOMAIN pendingTraces : pendingTraces[i] = t
        /\ ~\E p \in {t, Serializer} : TraceOf(p) = t /\ pc[p] \in SerializePc
        /\ ~\E b \in Sending : t \in TracesIn(b)
        /\ ~\E b \in Buffers \ (Sending \cup Sent) : t \in TracesIn(b)
        /\ ~(delivered[t] > 0)
        /\ t \notin faulted
    BY <1>1, <1>2, ActorsAssumption
       DEF Init, NewSpanBuffer, TracesIn, Threads, SerializePc
  <2>2. pc[t] \in {"idle", "enqueue"}
    BY <1>1
  <2> QED
    BY <2>1, <2>2 DEF StatusOf
<1> QED
  BY <1>1, <1>2, <1>4 DEF Delivery!DeliveryInit

\* For any number of traces and of flushers, any sizes and any buffer limit,
\* AgentWriter keeps the promise of TraceDelivery as long as its serialization
\* thread runs.
THEOREM DeliveryRefined == Spec /\ []~SerializationCompleted => ImplementsDelivery
<1> DEFINE Inv == TypeInv /\ LockInv /\ SwapInv /\ TempInv /\ PlaceInv
           Mapped == \A t \in Traces : StatusOf(t) = Status(t)
<1>1. Inv /\ ~SerializationCompleted => Mapped
  BY StatusIs DEF PlaceInv
<1>2. /\ Inv /\ ~SerializationCompleted /\ Mapped /\ [Next]_vars
      /\ Mapped' /\ ~SerializationCompleted'
      => [Delivery!DeliveryNext]_(Delivery!deliveryVars)
  BY DeliveryStep
<1> HIDE DEF Mapped
<1>3. Spec => []Inv
  BY TypeInvariance, LockInvariance, SwapInvariance, PlaceInvariance, PTL
<1> HIDE DEF Inv
<1> QED
  BY <1>1, <1>2, <1>3, DeliveryStart, PTL DEF Spec, ImplementsDelivery, Delivery!DeliverySpec
=============================================================================
