------------------------- MODULE AgentWriterProofs -------------------------
(***************************************************************************)
(* Proofs about AgentWriter, for any number of traces, of flush callers    *)
(* and of closers, any sizes and any buffer limit.                         *)
(***************************************************************************)
EXTENDS AgentWriter, FiniteSetTheorems, TLAPS

(***************************************************************************)
(* Types.  TypeOK alone is not inductive: a step takes the head of a plan, *)
(* or serializes the item that the serialization thread holds, and these   *)
(* exist only because of where the thread is.                              *)
(***************************************************************************)

\* Where the callers of WriteTrace, and the serialization thread, can be.
WriterPc == SerializePc \cup {"idle", "enqueue", "isSet", "set", "done"}

LoopPc == SerializePc \cup
          {"drain", "checkExit", "sleep", "wait", "reset", "done"}

PcInv ==
    /\ \A t \in Traces : pc[t] \in WriterPc
    /\ pc[Serializer] \in LoopPc

\* The serialization thread holds a trace whenever it serializes, and the
\* temporary buffer holds the bytes of some trace whenever one is copied.
ItemInv ==
    /\ pc[Serializer] \in SerializePc => item \in Traces
    /\ \A p \in Threads : pc[p] \in CopyPc => temporaryBuffer \in Traces

\* A flusher that is about to use the head of its plan has one.
PlanInv ==
    \A f \in Flushers :
        /\ sending[f] # "no" => fpc[f] \in {"assign", "await"}
        /\ fpc[f] = "fallback" => Len(plan[f]) = 2
        /\ fpc[f] \in {"flushBuffer", "lock", "assign", "await"} =>
             Len(plan[f]) > 0

TypeInv == TypeOK /\ PcInv /\ ItemInv /\ PlanInv

USE MaxBufferSizeAssumption, SizeAssumption, ActorsAssumption

\* The operations of SpanBuffer yield buffers: in particular a trace that fits
\* is copied without passing maxBufferSize.
LEMMA SpanBufferOps ==
    ASSUME NEW b \in SpanBuffers
    PROVE  /\ TraceCount(b) \in Nat
           /\ MarkFull(b) \in SpanBuffers
           /\ Lock(b) \in SpanBuffers
           /\ ClearContent(b) \in SpanBuffers
           /\ Unlock(b) \in SpanBuffers
           /\ \A t, bytes \in Traces :
                Fits(b, t) => Append1(b, t, bytes) \in SpanBuffers
<1> USE DEF SpanBuffers
<1>1. TraceCount(b) \in Nat
    BY DEF TraceCount
<1>2. MarkFull(b) \in SpanBuffers
    BY DEF MarkFull
<1>5. ClearContent(b) \in SpanBuffers
  <2>1. HeaderSize \in HeaderSize .. MaxBufferSize /\ <<>> \in Seq(Traces)
      BY DEF HeaderSize
  <2> QED BY <2>1 DEF ClearContent
<1>3. Lock(b) \in SpanBuffers /\ Unlock(b) \in SpanBuffers
    BY <1>1 DEF Lock, Unlock
<1>4. ASSUME NEW t \in Traces, NEW bytes \in Traces, Fits(b, t)
      PROVE  Append1(b, t, bytes) \in SpanBuffers
  <2>1. b.offset + Size[t] \in HeaderSize .. MaxBufferSize
      BY <1>4 DEF Fits, EnsureCapacity, HeaderSize
  <2>2. Append(b.traces, bytes) \in Seq(Traces)
      OBVIOUS
  <2> QED BY <2>1, <2>2 DEF Append1
<1> QED BY <1>1, <1>2, <1>3, <1>4, <1>5

\* The number of occurrences of a trace in a buffer is a number.
LEMMA CopiesType ==
    ASSUME NEW s \in Seq(Traces), NEW t
    PROVE  Copies(s, t) \in Nat
<1>1. IsFiniteSet(1 .. Len(s))
    BY FS_Interval
<1>2. IsFiniteSet({i \in 1 .. Len(s) : s[i] = t})
    BY <1>1, FS_Subset
<1> QED BY <1>2, FS_CardinalityType DEF Copies

\* Head and tail of a plan that is not empty.
LEMMA PlanOps ==
    ASSUME NEW s \in Seq(Buffers), Len(s) > 0
    PROVE  /\ Head(s) \in Buffers
           /\ Tail(s) \in Seq(Buffers)
           /\ Len(Tail(s)) = Len(s) - 1
  OBVIOUS

\* TypeInv is preserved by every step.
LEMMA TypeInvNext == TypeInv /\ [Next]_vars => TypeInv'
<1> SUFFICES ASSUME TypeInv, [Next]_vars PROVE TypeInv'
    OBVIOUS
<1> TypeOK /\ PcInv /\ ItemInv /\ PlanInv
    BY DEF TypeInv
<1>1. CASE Next
  <2>1. ASSUME NEW t \in Traces, WriteTrace(t)
        PROVE  TypeInv'
    BY <2>1 DEF WriteTrace, SerializationCompleted, TypeInv, TypeOK, PcInv,
        ItemInv, PlanInv, Threads, Flushers, Buffers, SerializePc, CopyPc,
        TryWritePc, ThreadPc, FlusherPc, FlushingPc, WriterPc, LoopPc,
        queueVars, bufferVars, threadVars, flusherVars, accountVars
  <2>2. ASSUME NEW t \in Traces, Enqueue(t)
        PROVE  TypeInv'
    <3>1. pendingTraces' \in Seq(Traces \cup FlushCallers)
        BY <2>2 DEF Enqueue, TypeOK
    <3>2. TypeOK' /\ PcInv'
        BY <2>2, <3>1 DEF Enqueue, TypeOK, PcInv, Threads, ThreadPc,
            WriterPc, queueVars, bufferVars, threadVars, flusherVars,
            accountVars
    <3>3. ItemInv' /\ PlanInv'
        BY <2>2 DEF Enqueue, TypeOK, ItemInv, PlanInv, Threads, SerializePc,
            CopyPc, queueVars, bufferVars, threadVars, flusherVars,
            accountVars
    <3> QED BY <3>2, <3>3 DEF TypeInv
  <2>3. ASSUME NEW t \in Traces, IsSet(t)
        PROVE  TypeInv'
    BY <2>3 DEF IsSet, TypeInv, TypeOK, PcInv, ItemInv, PlanInv, Threads,
        Flushers, Buffers, SerializePc, CopyPc, TryWritePc, ThreadPc,
        FlusherPc, FlushingPc, WriterPc, LoopPc, queueVars, bufferVars,
        threadVars, flusherVars, accountVars
  <2>4. ASSUME NEW t \in Traces, Set(t)
        PROVE  TypeInv'
    BY <2>4 DEF Set, TypeInv, TypeOK, PcInv, ItemInv, PlanInv, Threads,
        Flushers, Buffers, SerializePc, CopyPc, TryWritePc, ThreadPc,
        FlusherPc, FlushingPc, WriterPc, LoopPc, queueVars, bufferVars,
        threadVars, flusherVars, accountVars
  <2>5. ASSUME NEW p \in Threads, ReadActiveBuffer(p)
        PROVE  TypeInv'
    BY <2>5 DEF ReadActiveBuffer, TypeInv, TypeOK, PcInv, ItemInv, PlanInv,
        Threads, Flushers, Buffers, SerializePc, CopyPc, TryWritePc,
        ThreadPc, FlusherPc, FlushingPc, WriterPc, LoopPc, queueVars,
        bufferVars, threadVars, flusherVars, accountVars
  <2>6. ASSUME NEW p \in Threads, TryWriteRefused(p)
        PROVE  TypeInv'
    BY <2>6 DEF TryWriteRefused, Refused, TypeInv, TypeOK, PcInv, ItemInv,
        PlanInv, Threads, Flushers, Buffers, SerializePc, CopyPc, TryWritePc,
        ThreadPc, FlusherPc, FlushingPc, WriterPc, LoopPc, queueVars,
        bufferVars, threadVars, flusherVars, accountVars
  <2>7. ASSUME NEW p \in Threads, TryWriteSerialize(p)
        PROVE  TypeInv'
    BY <2>7 DEF TryWriteSerialize, TryWriteEnters, TraceOf, TypeInv, TypeOK,
        PcInv, ItemInv, PlanInv, Threads, Flushers, Buffers, SerializePc,
        CopyPc, TryWritePc, ThreadPc, FlusherPc, FlushingPc, WriterPc,
        LoopPc, queueVars, bufferVars, threadVars, flusherVars, accountVars
  <2>8. ASSUME NEW p \in Threads, TryWriteThrow(p)
        PROVE  TypeInv'
    BY <2>8 DEF TryWriteThrow, TryWriteEnters, TraceOf, Throw, TypeInv,
        TypeOK, PcInv, ItemInv, PlanInv, Threads, Flushers, Buffers,
        SerializePc, CopyPc, TryWritePc, ThreadPc, FlusherPc, FlushingPc,
        WriterPc, LoopPc, queueVars, bufferVars, threadVars, flusherVars,
        accountVars
  <2>9. ASSUME NEW p \in Threads, TryWriteCopy(p)
        PROVE  TypeInv'
    <3>0. TraceOf(p) \in Traces
        BY <2>9 DEF TryWriteCopy, TraceOf, CopyPc, SerializePc, ItemInv,
            Threads
    <3>1. buffer' \in [Buffers -> SpanBuffers]
      <4>1. buffer[target[p]] \in SpanBuffers /\ target[p] \in Buffers
          BY DEF TypeOK
      <4>2. temporaryBuffer \in Traces
          BY <2>9 DEF TryWriteCopy, ItemInv
      <4>3. (IF Fits(buffer[target[p]], TraceOf(p))
             THEN Append1(buffer[target[p]], TraceOf(p), temporaryBuffer)
             ELSE MarkFull(buffer[target[p]])) \in SpanBuffers
          BY <3>0, <4>1, <4>2, SpanBufferOps
      <4> QED BY <2>9, <4>1, <4>3 DEF TryWriteCopy, TypeOK
    <3>5. TypeOK'
        BY <2>9, <3>1 DEF TryWriteCopy, TypeOK, Return, Refused, ThreadPc,
            SerializePc, queueVars, bufferVars, threadVars, flusherVars,
            accountVars
    <3>2. PcInv'
        BY <2>9 DEF TryWriteCopy, TraceOf, Return, Refused, TypeOK, PcInv,
            Threads, SerializePc, CopyPc, TryWritePc, WriterPc, LoopPc,
            queueVars, bufferVars, threadVars, flusherVars, accountVars
    <3>3. ItemInv'
        BY <2>9 DEF TryWriteCopy, TraceOf, Return, Refused, TypeOK, PcInv,
            ItemInv, Threads, SerializePc, CopyPc, TryWritePc, queueVars,
            bufferVars, threadVars, flusherVars, accountVars
    <3>4. PlanInv'
        BY <2>9 DEF TryWriteCopy, TraceOf, Return, Refused, TypeOK, PlanInv,
            Flushers, FlusherPc, FlushingPc, queueVars, bufferVars,
            threadVars, flusherVars, accountVars
    <3> QED BY <3>2, <3>3, <3>4, <3>5 DEF TypeInv
  <2>10. ASSUME NEW p \in Threads, SwapBuffers(p)
        PROVE  TypeInv'
    BY <2>10 DEF SwapBuffers, Other, TypeInv, TypeOK, PcInv, ItemInv,
        PlanInv, Threads, Flushers, Buffers, SerializePc, CopyPc, TryWritePc,
        ThreadPc, FlusherPc, FlushingPc, WriterPc, LoopPc, queueVars,
        bufferVars, threadVars, flusherVars, accountVars
  <2>11. ASSUME NEW p \in Threads, SwapBuffersWrite(p)
        PROVE  TypeInv'
    BY <2>11 DEF SwapBuffersWrite, TypeInv, TypeOK, PcInv, ItemInv, PlanInv,
        Threads, Flushers, Buffers, SerializePc, CopyPc, TryWritePc,
        ThreadPc, FlusherPc, FlushingPc, WriterPc, LoopPc, queueVars,
        bufferVars, threadVars, flusherVars, accountVars
  <2>12. ASSUME NEW p \in Threads, RequestFlush(p)
        PROVE  TypeInv'
    BY <2>12 DEF RequestFlush, TypeInv, TypeOK, PcInv, ItemInv, PlanInv,
        Threads, Flushers, Buffers, SerializePc, CopyPc, TryWritePc,
        ThreadPc, FlusherPc, FlushingPc, WriterPc, LoopPc, queueVars,
        bufferVars, threadVars, flusherVars, accountVars
  <2>13. ASSUME NEW p \in Threads, CompleteForceFlush(p)
        PROVE  TypeInv'
    BY <2>13 DEF CompleteForceFlush, TypeInv, TypeOK, PcInv, ItemInv,
        PlanInv, Threads, Flushers, Buffers, SerializePc, CopyPc, TryWritePc,
        ThreadPc, FlusherPc, FlushingPc, WriterPc, LoopPc, queueVars,
        bufferVars, threadVars, flusherVars, accountVars
  <2>14. ASSUME NEW p \in Threads, DropTrace(p)
        PROVE  TypeInv'
    BY <2>14 DEF DropTrace, Return, TypeInv, TypeOK, PcInv, ItemInv, PlanInv,
        Threads, Flushers, Buffers, SerializePc, CopyPc, TryWritePc,
        ThreadPc, FlusherPc, FlushingPc, WriterPc, LoopPc, queueVars,
        bufferVars, threadVars, flusherVars, accountVars
  <2>15. ASSUME DequeueTrace
        PROVE  TypeInv'
    <3>1. TypeOK'
        BY <2>15 DEF DequeueTrace, TypeOK, PlanInv, PcInv, ItemInv, Threads,
            Flushers, Buffers, SerializePc, CopyPc, TryWritePc, ThreadPc,
            FlusherPc, FlushingPc, WriterPc, LoopPc, queueVars, bufferVars,
            threadVars, flusherVars, accountVars
    <3>2. PcInv'
        BY <2>15 DEF DequeueTrace, TypeOK, PcInv, Threads, SerializePc, CopyPc,
            TryWritePc, WriterPc, LoopPc, queueVars, bufferVars, threadVars,
            flusherVars, accountVars
    <3>3. ItemInv'
        BY <2>15 DEF DequeueTrace, TypeOK, PcInv, ItemInv, Threads, SerializePc,
            CopyPc, TryWritePc, queueVars, bufferVars, threadVars,
            flusherVars, accountVars
    <3>4. PlanInv'
        BY <2>15 DEF DequeueTrace, TypeOK, PlanInv, Flushers, FlusherPc,
            FlushingPc, queueVars, bufferVars, threadVars, flusherVars,
            accountVars
    <3> QED BY <3>1, <3>2, <3>3, <3>4 DEF TypeInv
  <2>16. ASSUME DequeueWatermark
        PROVE  TypeInv'
    BY <2>16 DEF DequeueWatermark, TypeInv, TypeOK, PcInv, ItemInv, PlanInv,
        Threads, Flushers, Buffers, SerializePc, CopyPc, TryWritePc,
        ThreadPc, FlusherPc, FlushingPc, WriterPc, LoopPc, queueVars,
        bufferVars, threadVars, flusherVars, accountVars
  <2>17. ASSUME QueueDrained
        PROVE  TypeInv'
    BY <2>17 DEF QueueDrained, TypeInv, TypeOK, PcInv, ItemInv, PlanInv,
        Threads, Flushers, Buffers, SerializePc, CopyPc, TryWritePc,
        ThreadPc, FlusherPc, FlushingPc, WriterPc, LoopPc, queueVars,
        bufferVars, threadVars, flusherVars, accountVars
  <2>18. ASSUME CheckProcessExit
        PROVE  TypeInv'
    BY <2>18 DEF CheckProcessExit, TypeInv, TypeOK, PcInv, ItemInv, PlanInv,
        Threads, Flushers, Buffers, SerializePc, CopyPc, TryWritePc,
        ThreadPc, FlusherPc, FlushingPc, WriterPc, LoopPc, queueVars,
        bufferVars, threadVars, flusherVars, accountVars
  <2>19. ASSUME Sleep
        PROVE  TypeInv'
    BY <2>19 DEF Sleep, TypeInv, TypeOK, PcInv, ItemInv, PlanInv, Threads,
        Flushers, Buffers, SerializePc, CopyPc, TryWritePc, ThreadPc,
        FlusherPc, FlushingPc, WriterPc, LoopPc, queueVars, bufferVars,
        threadVars, flusherVars, accountVars
  <2>20. ASSUME Wait
        PROVE  TypeInv'
    BY <2>20 DEF Wait, TypeInv, TypeOK, PcInv, ItemInv, PlanInv, Threads,
        Flushers, Buffers, SerializePc, CopyPc, TryWritePc, ThreadPc,
        FlusherPc, FlushingPc, WriterPc, LoopPc, queueVars, bufferVars,
        threadVars, flusherVars, accountVars
  <2>21. ASSUME Reset
        PROVE  TypeInv'
    BY <2>21 DEF Reset, TypeInv, TypeOK, PcInv, ItemInv, PlanInv, Threads,
        Flushers, Buffers, SerializePc, CopyPc, TryWritePc, ThreadPc,
        FlusherPc, FlushingPc, WriterPc, LoopPc, queueVars, bufferVars,
        threadVars, flusherVars, accountVars
  <2>22. ASSUME NEW f \in Flushers, FlushBuffers(f)
        PROVE  TypeInv'
    BY <2>22 DEF FlushBuffers, Other, TypeInv, TypeOK, PcInv, ItemInv,
        PlanInv, Threads, Flushers, Buffers, SerializePc, CopyPc, TryWritePc,
        ThreadPc, FlusherPc, FlushingPc, WriterPc, LoopPc, queueVars,
        bufferVars, threadVars, flusherVars, accountVars
  <2>23. ASSUME NEW f \in Flushers, CheckFallback(f)
        PROVE  TypeInv'
    <3>0. Head(plan[f]) \in Buffers /\ Tail(plan[f]) \in Seq(Buffers)
          /\ Len(Tail(plan[f])) = Len(plan[f]) - 1
        BY <2>23, PlanOps DEF CheckFallback, TypeOK, PlanInv, Flushers,
            FlusherPc, FlushingPc
    <3>1. TypeOK'
        BY <2>23, <3>0, SpanBufferOps DEF CheckFallback, TypeOK, PlanInv, PcInv,
            ItemInv, Threads, Flushers, Buffers, SerializePc, CopyPc,
            TryWritePc, ThreadPc, FlusherPc, FlushingPc, WriterPc, LoopPc,
            queueVars, bufferVars, threadVars, flusherVars, accountVars
    <3>2. PcInv'
        BY <2>23 DEF CheckFallback, TypeOK, PcInv, Threads, SerializePc, CopyPc,
            TryWritePc, WriterPc, LoopPc, queueVars, bufferVars, threadVars,
            flusherVars, accountVars
    <3>3. ItemInv'
        BY <2>23 DEF CheckFallback, TypeOK, PcInv, ItemInv, Threads,
            SerializePc, CopyPc, TryWritePc, queueVars, bufferVars,
            threadVars, flusherVars, accountVars
    <3>4. PlanInv'
      <4>1. \A g \in Flushers : g # f =>
              fpc'[g] = fpc[g] /\ plan'[g] = plan[g] /\ sending'[g] = sending[g]
          BY <2>23 DEF CheckFallback, TypeOK
      <4>2. Len(plan'[f]) > 0 \/ fpc'[f] = "flushed"
        <5>1. plan'[f] \in {plan[f], Tail(plan[f])}
            BY <2>23 DEF CheckFallback, TypeOK
        <5>2. Len(plan[f]) = 2
            BY <2>23 DEF CheckFallback, PlanInv
        <5> QED BY <3>0, <5>1, <5>2
      <4>3. sending'[f] = "no" /\ fpc'[f] \in {"flushBuffer", "flushed"}
          BY <2>23 DEF CheckFallback, TypeOK, PlanInv
      <4> QED BY <4>1, <4>2, <4>3 DEF PlanInv
    <3> QED BY <3>1, <3>2, <3>3, <3>4 DEF TypeInv
  <2>24. ASSUME NEW f \in Flushers, FlushBuffer(f)
        PROVE  TypeInv'
    <3>0. Head(plan[f]) \in Buffers /\ Tail(plan[f]) \in Seq(Buffers)
          /\ Len(Tail(plan[f])) = Len(plan[f]) - 1
        BY <2>24, PlanOps DEF FlushBuffer, TypeOK, PlanInv, Flushers, FlusherPc,
            FlushingPc
    <3>1. TypeOK'
        BY <2>24, <3>0, SpanBufferOps DEF FlushBuffer, TypeOK, PlanInv, PcInv,
            ItemInv, Threads, Flushers, Buffers, SerializePc, CopyPc,
            TryWritePc, ThreadPc, FlusherPc, FlushingPc, WriterPc, LoopPc,
            queueVars, bufferVars, threadVars, flusherVars, accountVars
    <3>2. PcInv'
        BY <2>24 DEF FlushBuffer, TypeOK, PcInv, Threads, SerializePc, CopyPc,
            TryWritePc, WriterPc, LoopPc, queueVars, bufferVars, threadVars,
            flusherVars, accountVars
    <3>3. ItemInv'
        BY <2>24 DEF FlushBuffer, TypeOK, PcInv, ItemInv, Threads, SerializePc,
            CopyPc, TryWritePc, queueVars, bufferVars, threadVars,
            flusherVars, accountVars
    <3>4. PlanInv'
        BY <2>24, <3>0 DEF FlushBuffer, TypeOK, PlanInv, Flushers, FlusherPc,
            FlushingPc, queueVars, bufferVars, threadVars, flusherVars,
            accountVars
    <3> QED BY <3>1, <3>2, <3>3, <3>4 DEF TypeInv
  <2>25. ASSUME NEW f \in Flushers, LockBuffer(f)
        PROVE  TypeInv'
    <3>0. Head(plan[f]) \in Buffers /\ Tail(plan[f]) \in Seq(Buffers)
          /\ Len(Tail(plan[f])) = Len(plan[f]) - 1
        BY <2>25, PlanOps DEF LockBuffer, TypeOK, PlanInv, Flushers, FlusherPc,
            FlushingPc
    <3>1. TypeOK'
      <4>1. buffer' \in [Buffers -> SpanBuffers]
        <5>1. Lock(buffer[Head(plan[f])]) \in SpanBuffers
            BY <3>0, SpanBufferOps DEF TypeOK
        <5> QED BY <2>25, <5>1 DEF LockBuffer, TypeOK
      <4>2. /\ sending' \in [Flushers -> {"no", "send", "clear", "unlock"}]
            /\ fpc' \in [Flushers -> FlusherPc]
          BY <2>25, <3>0 DEF LockBuffer, TypeOK, FlusherPc,
            FlushingPc
      <4> QED BY <2>25, <4>1, <4>2 DEF LockBuffer, TypeOK, queueVars, bufferVars,
            threadVars, flusherVars, accountVars
    <3>2. PcInv'
        BY <2>25 DEF LockBuffer, TypeOK, PcInv, Threads, SerializePc, CopyPc,
            TryWritePc, WriterPc, LoopPc, queueVars, bufferVars, threadVars,
            flusherVars, accountVars
    <3>3. ItemInv'
        BY <2>25 DEF LockBuffer, TypeOK, PcInv, ItemInv, Threads, SerializePc,
            CopyPc, TryWritePc, queueVars, bufferVars, threadVars,
            flusherVars, accountVars
    <3>4. PlanInv'
        BY <2>25, <3>0 DEF LockBuffer, TypeOK, PlanInv, Flushers, FlusherPc,
            FlushingPc, queueVars, bufferVars, threadVars, flusherVars,
            accountVars
    <3> QED BY <3>1, <3>2, <3>3, <3>4 DEF TypeInv
  <2>26. ASSUME NEW f \in Flushers, LockRefused(f)
        PROVE  TypeInv'
    BY <2>26 DEF LockRefused, TypeInv, TypeOK, PcInv, ItemInv, PlanInv,
        Threads, Flushers, Buffers, SerializePc, CopyPc, TryWritePc,
        ThreadPc, FlusherPc, FlushingPc, WriterPc, LoopPc, queueVars,
        bufferVars, threadVars, flusherVars, accountVars
  <2>27. ASSUME NEW f \in Flushers, SendTracesAsync(f)
        PROVE  TypeInv'
    <3>0. Head(plan[f]) \in Buffers /\ Tail(plan[f]) \in Seq(Buffers)
          /\ Len(Tail(plan[f])) = Len(plan[f]) - 1
        BY <2>27, PlanOps DEF SendTracesAsync, TypeOK, PlanInv, Flushers,
            FlusherPc, FlushingPc
    <3>1. /\ keeps' \in Nat
          /\ drops' \in Nat
          /\ delivered' \in [Traces -> Nat]
      <4>1. buffer[Head(plan[f])].traces \in Seq(Traces)
          BY <3>0 DEF TypeOK, SpanBuffers
      <4>2. \A t \in Traces : Copies(buffer[Head(plan[f])].traces, t) \in Nat
          BY <4>1, CopiesType
      <4>3. TraceCount(buffer[Head(plan[f])]) \in Nat
          BY <4>1 DEF TraceCount
      <4>4. CASE UNCHANGED <<keeps, delivered>>
          BY <2>27, <4>3, <4>4 DEF SendTracesAsync, TypeOK
      <4>5. CASE ~UNCHANGED <<keeps, delivered>>
        <5>1. /\ delivered' = [t \in Traces |->
                   delivered[t] + Copies(buffer[Head(plan[f])].traces, t)]
              /\ keeps' = keeps + TraceCount(buffer[Head(plan[f])])
              /\ drops' = drops
            BY <2>27, <4>5 DEF SendTracesAsync
        <5>2. \A t \in Traces :
                delivered[t] + Copies(buffer[Head(plan[f])].traces, t) \in Nat
            BY <4>2 DEF TypeOK
        <5>3. delivered' \in [Traces -> Nat]
            BY <5>1, <5>2
        <5>4. keeps' \in Nat /\ drops' \in Nat
            BY <4>3, <5>1 DEF TypeOK
        <5> QED BY <5>3, <5>4
      <4> QED BY <4>4, <4>5
    <3>5. TypeOK'
        BY <2>27, <3>1 DEF SendTracesAsync, TypeOK, queueVars, bufferVars,
            threadVars, flusherVars, accountVars
    <3>2. PcInv'
        BY <2>27 DEF SendTracesAsync, TypeOK, PcInv, Threads, SerializePc,
            CopyPc, TryWritePc, WriterPc, LoopPc, queueVars, bufferVars,
            threadVars, flusherVars, accountVars
    <3>3. ItemInv'
        BY <2>27 DEF SendTracesAsync, TypeOK, PcInv, ItemInv, Threads,
            SerializePc, CopyPc, TryWritePc, queueVars, bufferVars,
            threadVars, flusherVars, accountVars
    <3>4. PlanInv'
        BY <2>27, <3>0 DEF SendTracesAsync, TypeOK, PlanInv, Flushers,
            FlusherPc, FlushingPc, queueVars, bufferVars, threadVars,
            flusherVars, accountVars
    <3> QED BY <3>2, <3>3, <3>4, <3>5 DEF TypeInv
  <2>28. ASSUME NEW f \in Flushers, ClearBuffer(f)
        PROVE  TypeInv'
    <3>0. Head(plan[f]) \in Buffers /\ Tail(plan[f]) \in Seq(Buffers)
          /\ Len(Tail(plan[f])) = Len(plan[f]) - 1
        BY <2>28, PlanOps DEF ClearBuffer, TypeOK, PlanInv, Flushers, FlusherPc,
            FlushingPc
    <3>1. TypeOK'
      <4>1. buffer' \in [Buffers -> SpanBuffers]
        <5>1. ClearContent(buffer[Head(plan[f])]) \in SpanBuffers
            BY <3>0, SpanBufferOps DEF TypeOK
        <5> QED BY <2>28, <5>1 DEF ClearBuffer, TypeOK
      <4>2. /\ monitor' \in [Buffers -> Threads \cup Flushers \cup {None}]
            /\ sending' \in [Flushers -> {"no", "send", "clear", "unlock"}]
          BY <2>28, <3>0 DEF ClearBuffer, TypeOK
      <4> QED BY <2>28, <4>1, <4>2 DEF ClearBuffer, TypeOK, queueVars, bufferVars,
            threadVars, flusherVars, accountVars
    <3>2. PcInv'
        BY <2>28 DEF ClearBuffer, TypeOK, PcInv, Threads, SerializePc, CopyPc,
            TryWritePc, WriterPc, LoopPc, queueVars, bufferVars, threadVars,
            flusherVars, accountVars
    <3>3. ItemInv'
        BY <2>28 DEF ClearBuffer, TypeOK, PcInv, ItemInv, Threads, SerializePc,
            CopyPc, TryWritePc, queueVars, bufferVars, threadVars,
            flusherVars, accountVars
    <3>4. PlanInv'
        BY <2>28, <3>0 DEF ClearBuffer, TypeOK, PlanInv, Flushers, FlusherPc,
            FlushingPc, queueVars, bufferVars, threadVars, flusherVars,
            accountVars
    <3> QED BY <3>1, <3>2, <3>3, <3>4 DEF TypeInv
  <2>29. ASSUME NEW f \in Flushers, UnlockBuffer(f)
        PROVE  TypeInv'
    <3>0. Head(plan[f]) \in Buffers /\ Tail(plan[f]) \in Seq(Buffers)
          /\ Len(Tail(plan[f])) = Len(plan[f]) - 1
        BY <2>29, PlanOps DEF UnlockBuffer, TypeOK, PlanInv, Flushers,
            FlusherPc, FlushingPc
    <3>1. TypeOK'
      <4>1. buffer' \in [Buffers -> SpanBuffers]
        <5>1. Unlock(buffer[Head(plan[f])]) \in SpanBuffers
            BY <3>0, SpanBufferOps DEF TypeOK
        <5> QED BY <2>29, <5>1 DEF UnlockBuffer, TypeOK
      <4>2. /\ flushTask' \in [Buffers -> Flushers \cup {None}]
            /\ previous' \in [Flushers -> Flushers \cup {None}]
            /\ monitor' \in [Buffers -> Threads \cup Flushers \cup {None}]
            /\ sending' \in [Flushers -> {"no", "send", "clear", "unlock"}]
          BY <2>29, <3>0 DEF UnlockBuffer, TypeOK
      <4> QED BY <2>29, <4>1, <4>2 DEF UnlockBuffer, TypeOK, queueVars,
            threadVars, flusherVars, accountVars
    <3>2. PcInv'
        BY <2>29 DEF UnlockBuffer, TypeOK, PcInv, Threads, SerializePc, CopyPc,
            TryWritePc, WriterPc, LoopPc, queueVars, bufferVars, threadVars,
            flusherVars, accountVars
    <3>3. ItemInv'
        BY <2>29 DEF UnlockBuffer, TypeOK, PcInv, ItemInv, Threads, SerializePc,
            CopyPc, TryWritePc, queueVars, bufferVars, threadVars,
            flusherVars, accountVars
    <3>4. PlanInv'
        BY <2>29, <3>0 DEF UnlockBuffer, TypeOK, PlanInv, Flushers, FlusherPc,
            FlushingPc, queueVars, bufferVars, threadVars, flusherVars,
            accountVars
    <3> QED BY <3>1, <3>2, <3>3, <3>4 DEF TypeInv
  <2>30. ASSUME NEW f \in Flushers, AssignFlushTask(f)
        PROVE  TypeInv'
    BY <2>30 DEF AssignFlushTask, TypeInv, TypeOK, PcInv, ItemInv, PlanInv,
        Threads, Flushers, Buffers, SerializePc, CopyPc, TryWritePc,
        ThreadPc, FlusherPc, FlushingPc, WriterPc, LoopPc, queueVars,
        bufferVars, threadVars, flusherVars, accountVars
  <2>31. ASSUME NEW f \in Flushers, AwaitFlushTask(f)
        PROVE  TypeInv'
    <3>0. Head(plan[f]) \in Buffers /\ Tail(plan[f]) \in Seq(Buffers)
          /\ Len(Tail(plan[f])) = Len(plan[f]) - 1
        BY <2>31, PlanOps DEF AwaitFlushTask, TypeOK, PlanInv, Flushers,
            FlusherPc, FlushingPc
    <3>1. TypeOK'
        BY <2>31, <3>0 DEF AwaitFlushTask, TypeOK, PlanInv, PcInv, ItemInv,
            Threads, Flushers, Buffers, SerializePc, CopyPc, TryWritePc,
            ThreadPc, FlusherPc, FlushingPc, WriterPc, LoopPc, queueVars,
            bufferVars, threadVars, flusherVars, accountVars
    <3>2. PcInv'
        BY <2>31 DEF AwaitFlushTask, TypeOK, PcInv, Threads, SerializePc,
            CopyPc, TryWritePc, WriterPc, LoopPc, queueVars, bufferVars,
            threadVars, flusherVars, accountVars
    <3>3. ItemInv'
        BY <2>31 DEF AwaitFlushTask, TypeOK, PcInv, ItemInv, Threads,
            SerializePc, CopyPc, TryWritePc, queueVars, bufferVars,
            threadVars, flusherVars, accountVars
    <3>4. PlanInv'
      <4>1. \A g \in Flushers : g # f =>
              fpc'[g] = fpc[g] /\ plan'[g] = plan[g] /\ sending'[g] = sending[g]
          BY <2>31 DEF AwaitFlushTask, TypeOK
      <4>2. Len(plan'[f]) > 0 \/ fpc'[f] = "flushed"
          BY <2>31, <3>0 DEF AwaitFlushTask, TypeOK, PlanInv
      <4>3. sending'[f] = "no" /\ fpc'[f] \in {"flushBuffer", "flushed"}
          BY <2>31 DEF AwaitFlushTask, TypeOK, PlanInv
      <4> QED BY <4>1, <4>2, <4>3 DEF PlanInv
    <3> QED BY <3>1, <3>2, <3>3, <3>4 DEF TypeInv
  <2>32. ASSUME ReplaceForceFlush
        PROVE  TypeInv'
    <3>1. TypeOK'
        BY <2>32 DEF ReplaceForceFlush, TypeOK, PlanInv, PcInv, ItemInv,
            Threads, Flushers, Buffers, SerializePc, CopyPc, TryWritePc,
            ThreadPc, FlusherPc, FlushingPc, WriterPc, LoopPc, queueVars,
            bufferVars, threadVars, flusherVars, accountVars
    <3>2. PcInv'
        BY <2>32 DEF ReplaceForceFlush, TypeOK, PcInv, Threads, SerializePc,
            CopyPc, TryWritePc, WriterPc, LoopPc, queueVars, bufferVars,
            threadVars, flusherVars, accountVars
    <3>3. ItemInv'
        BY <2>32 DEF ReplaceForceFlush, TypeOK, PcInv, ItemInv, Threads,
            SerializePc, CopyPc, TryWritePc, queueVars, bufferVars,
            threadVars, flusherVars, accountVars
    <3>4. PlanInv'
        BY <2>32 DEF ReplaceForceFlush, TypeOK, PlanInv, Flushers, FlusherPc,
            FlushingPc, queueVars, bufferVars, threadVars, flusherVars,
            accountVars
    <3> QED BY <3>1, <3>2, <3>3, <3>4 DEF TypeInv
  <2>33. ASSUME CheckSerializationTask
        PROVE  TypeInv'
    BY <2>33 DEF CheckSerializationTask, SerializationCompleted, TypeInv,
        TypeOK, PcInv, ItemInv, PlanInv, Threads, Flushers, Buffers,
        SerializePc, CopyPc, TryWritePc, ThreadPc, FlusherPc, FlushingPc,
        WriterPc, LoopPc, queueVars, bufferVars, threadVars, flusherVars,
        accountVars
  <2>34. ASSUME NEW f \in FlushCallers, FlushTracesAsync(f)
        PROVE  TypeInv'
    <3>1. TypeOK'
        BY <2>34 DEF FlushTracesAsync, SerializationCompleted, WrittenTraces,
            TypeOK, PlanInv, PcInv, ItemInv, Threads, Flushers, Buffers,
            SerializePc, CopyPc, TryWritePc, ThreadPc, FlusherPc, FlushingPc,
            WriterPc, LoopPc, queueVars, bufferVars, threadVars, flusherVars,
            accountVars
    <3>2. PcInv'
        BY <2>34 DEF FlushTracesAsync, SerializationCompleted, WrittenTraces,
            TypeOK, PcInv, Threads, SerializePc, CopyPc, TryWritePc,
            WriterPc, LoopPc, queueVars, bufferVars, threadVars, flusherVars,
            accountVars
    <3>3. ItemInv'
        BY <2>34 DEF FlushTracesAsync, SerializationCompleted, WrittenTraces,
            TypeOK, PcInv, ItemInv, Threads, SerializePc, CopyPc, TryWritePc,
            queueVars, bufferVars, threadVars, flusherVars, accountVars
    <3>4. PlanInv'
        BY <2>34 DEF FlushTracesAsync, SerializationCompleted, WrittenTraces,
            TypeOK, PlanInv, Flushers, FlusherPc, FlushingPc, queueVars,
            bufferVars, threadVars, flusherVars, accountVars
    <3> QED BY <3>1, <3>2, <3>3, <3>4 DEF TypeInv
  <2>35. ASSUME NEW f \in FlushCallers, WriteWatermark(f)
        PROVE  TypeInv'
    <3>1. TypeOK'
        BY <2>35 DEF WriteWatermark, TypeOK, PlanInv, PcInv, ItemInv, Threads,
            Flushers, Buffers, SerializePc, CopyPc, TryWritePc, ThreadPc,
            FlusherPc, FlushingPc, WriterPc, LoopPc, queueVars, bufferVars,
            threadVars, flusherVars, accountVars
    <3>2. PcInv'
        BY <2>35 DEF WriteWatermark, TypeOK, PcInv, Threads, SerializePc,
            CopyPc, TryWritePc, WriterPc, LoopPc, queueVars, bufferVars,
            threadVars, flusherVars, accountVars
    <3>3. ItemInv'
        BY <2>35 DEF WriteWatermark, TypeOK, PcInv, ItemInv, Threads,
            SerializePc, CopyPc, TryWritePc, queueVars, bufferVars,
            threadVars, flusherVars, accountVars
    <3>4. PlanInv'
        BY <2>35 DEF WriteWatermark, TypeOK, PlanInv, Flushers, FlusherPc,
            FlushingPc, queueVars, bufferVars, threadVars, flusherVars,
            accountVars
    <3> QED BY <3>1, <3>2, <3>3, <3>4 DEF TypeInv
  <2>36. ASSUME NEW f \in FlushCallers, WakeUpThread(f)
        PROVE  TypeInv'
    <3>1. TypeOK'
        BY <2>36 DEF WakeUpThread, TypeOK, PlanInv, PcInv, ItemInv, Threads,
            Flushers, Buffers, SerializePc, CopyPc, TryWritePc, ThreadPc,
            FlusherPc, FlushingPc, WriterPc, LoopPc, queueVars, bufferVars,
            threadVars, flusherVars, accountVars
    <3>2. PcInv'
        BY <2>36 DEF WakeUpThread, TypeOK, PcInv, Threads, SerializePc, CopyPc,
            TryWritePc, WriterPc, LoopPc, queueVars, bufferVars, threadVars,
            flusherVars, accountVars
    <3>3. ItemInv'
        BY <2>36 DEF WakeUpThread, TypeOK, PcInv, ItemInv, Threads, SerializePc,
            CopyPc, TryWritePc, queueVars, bufferVars, threadVars,
            flusherVars, accountVars
    <3>4. PlanInv'
        BY <2>36 DEF WakeUpThread, TypeOK, PlanInv, Flushers, FlusherPc,
            FlushingPc, queueVars, bufferVars, threadVars, flusherVars,
            accountVars
    <3> QED BY <3>1, <3>2, <3>3, <3>4 DEF TypeInv
  <2>37. ASSUME NEW f \in FlushCallers, AwaitWatermark(f)
        PROVE  TypeInv'
    <3>1. TypeOK'
        BY <2>37 DEF AwaitWatermark, TypeOK, PlanInv, PcInv, ItemInv, Threads,
            Flushers, Buffers, SerializePc, CopyPc, TryWritePc, ThreadPc,
            FlusherPc, FlushingPc, WriterPc, LoopPc, queueVars, bufferVars,
            threadVars, flusherVars, accountVars
    <3>2. PcInv'
        BY <2>37 DEF AwaitWatermark, TypeOK, PcInv, Threads, SerializePc,
            CopyPc, TryWritePc, WriterPc, LoopPc, queueVars, bufferVars,
            threadVars, flusherVars, accountVars
    <3>3. ItemInv'
        BY <2>37 DEF AwaitWatermark, TypeOK, PcInv, ItemInv, Threads,
            SerializePc, CopyPc, TryWritePc, queueVars, bufferVars,
            threadVars, flusherVars, accountVars
    <3>4. PlanInv'
        BY <2>37 DEF AwaitWatermark, TypeOK, PlanInv, Flushers, FlusherPc,
            FlushingPc, queueVars, bufferVars, threadVars, flusherVars,
            accountVars
    <3> QED BY <3>1, <3>2, <3>3, <3>4 DEF TypeInv
  <2>38. ASSUME NEW c \in Closers, FlushAndCloseAsync(c)
        PROVE  TypeInv'
    <3>1. TypeOK'
        BY <2>38 DEF FlushAndCloseAsync, WrittenTraces, TypeOK, PlanInv, PcInv,
            ItemInv, Threads, Flushers, Buffers, SerializePc, CopyPc,
            TryWritePc, ThreadPc, FlusherPc, FlushingPc, WriterPc, LoopPc,
            queueVars, bufferVars, threadVars, flusherVars, accountVars
    <3>2. PcInv'
        BY <2>38 DEF FlushAndCloseAsync, WrittenTraces, TypeOK, PcInv, Threads,
            SerializePc, CopyPc, TryWritePc, WriterPc, LoopPc, queueVars,
            bufferVars, threadVars, flusherVars, accountVars
    <3>3. ItemInv'
        BY <2>38 DEF FlushAndCloseAsync, WrittenTraces, TypeOK, PcInv, ItemInv,
            Threads, SerializePc, CopyPc, TryWritePc, queueVars, bufferVars,
            threadVars, flusherVars, accountVars
    <3>4. PlanInv'
        BY <2>38 DEF FlushAndCloseAsync, WrittenTraces, TypeOK, PlanInv,
            Flushers, FlusherPc, FlushingPc, queueVars, bufferVars,
            threadVars, flusherVars, accountVars
    <3> QED BY <3>1, <3>2, <3>3, <3>4 DEF TypeInv
  <2>39. ASSUME NEW c \in Closers, SetForExit(c)
        PROVE  TypeInv'
    <3>1. TypeOK'
        BY <2>39 DEF SetForExit, TypeOK, PlanInv, PcInv, ItemInv, Threads,
            Flushers, Buffers, SerializePc, CopyPc, TryWritePc, ThreadPc,
            FlusherPc, FlushingPc, WriterPc, LoopPc, queueVars, bufferVars,
            threadVars, flusherVars, accountVars
    <3>2. PcInv'
        BY <2>39 DEF SetForExit, TypeOK, PcInv, Threads, SerializePc, CopyPc,
            TryWritePc, WriterPc, LoopPc, queueVars, bufferVars, threadVars,
            flusherVars, accountVars
    <3>3. ItemInv'
        BY <2>39 DEF SetForExit, TypeOK, PcInv, ItemInv, Threads, SerializePc,
            CopyPc, TryWritePc, queueVars, bufferVars, threadVars,
            flusherVars, accountVars
    <3>4. PlanInv'
        BY <2>39 DEF SetForExit, TypeOK, PlanInv, Flushers, FlusherPc,
            FlushingPc, queueVars, bufferVars, threadVars, flusherVars,
            accountVars
    <3> QED BY <3>1, <3>2, <3>3, <3>4 DEF TypeInv
  <2>40. ASSUME NEW c \in Closers, AwaitSerialization(c)
        PROVE  TypeInv'
    <3>1. TypeOK'
        BY <2>40 DEF AwaitSerialization, SerializationCompleted, TypeOK,
            PlanInv, PcInv, ItemInv, Threads, Flushers, Buffers, SerializePc,
            CopyPc, TryWritePc, ThreadPc, FlusherPc, FlushingPc, WriterPc,
            LoopPc, queueVars, bufferVars, threadVars, flusherVars,
            accountVars
    <3>2. PcInv'
        BY <2>40 DEF AwaitSerialization, SerializationCompleted, TypeOK, PcInv,
            Threads, SerializePc, CopyPc, TryWritePc, WriterPc, LoopPc,
            queueVars, bufferVars, threadVars, flusherVars, accountVars
    <3>3. ItemInv'
        BY <2>40 DEF AwaitSerialization, SerializationCompleted, TypeOK, PcInv,
            ItemInv, Threads, SerializePc, CopyPc, TryWritePc, queueVars,
            bufferVars, threadVars, flusherVars, accountVars
    <3>4. PlanInv'
        BY <2>40 DEF AwaitSerialization, SerializationCompleted, TypeOK,
            PlanInv, Flushers, FlusherPc, FlushingPc, queueVars, bufferVars,
            threadVars, flusherVars, accountVars
    <3> QED BY <3>1, <3>2, <3>3, <3>4 DEF TypeInv
  <2>41. ASSUME NEW c \in Closers, SerializationTimeout(c)
        PROVE  TypeInv'
    <3>1. TypeOK'
        BY <2>41 DEF SerializationTimeout, TypeOK, PlanInv, PcInv, ItemInv,
            Threads, Flushers, Buffers, SerializePc, CopyPc, TryWritePc,
            ThreadPc, FlusherPc, FlushingPc, WriterPc, LoopPc, queueVars,
            bufferVars, threadVars, flusherVars, accountVars
    <3>2. PcInv'
        BY <2>41 DEF SerializationTimeout, TypeOK, PcInv, Threads, SerializePc,
            CopyPc, TryWritePc, WriterPc, LoopPc, queueVars, bufferVars,
            threadVars, flusherVars, accountVars
    <3>3. ItemInv'
        BY <2>41 DEF SerializationTimeout, TypeOK, PcInv, ItemInv, Threads,
            SerializePc, CopyPc, TryWritePc, queueVars, bufferVars,
            threadVars, flusherVars, accountVars
    <3>4. PlanInv'
        BY <2>41 DEF SerializationTimeout, TypeOK, PlanInv, Flushers, FlusherPc,
            FlushingPc, queueVars, bufferVars, threadVars, flusherVars,
            accountVars
    <3> QED BY <3>1, <3>2, <3>3, <3>4 DEF TypeInv
  <2>42. ASSUME NEW c \in Closers, CheckLeftover(c)
        PROVE  TypeInv'
    <3>1. TypeOK'
        BY <2>42 DEF CheckLeftover, TypeOK, PlanInv, PcInv, ItemInv, Threads,
            Flushers, Buffers, SerializePc, CopyPc, TryWritePc, ThreadPc,
            FlusherPc, FlushingPc, WriterPc, LoopPc, queueVars, bufferVars,
            threadVars, flusherVars, accountVars
    <3>2. PcInv'
        BY <2>42 DEF CheckLeftover, TypeOK, PcInv, Threads, SerializePc, CopyPc,
            TryWritePc, WriterPc, LoopPc, queueVars, bufferVars, threadVars,
            flusherVars, accountVars
    <3>3. ItemInv'
        BY <2>42 DEF CheckLeftover, TypeOK, PcInv, ItemInv, Threads,
            SerializePc, CopyPc, TryWritePc, queueVars, bufferVars,
            threadVars, flusherVars, accountVars
    <3>4. PlanInv'
        BY <2>42 DEF CheckLeftover, TypeOK, PlanInv, Flushers, FlusherPc,
            FlushingPc, queueVars, bufferVars, threadVars, flusherVars,
            accountVars
    <3> QED BY <3>1, <3>2, <3>3, <3>4 DEF TypeInv
  <2>43. ASSUME NEW c \in Closers, LeftoverTimeout(c)
        PROVE  TypeInv'
    <3>1. TypeOK'
        BY <2>43 DEF LeftoverTimeout, TypeOK, PlanInv, PcInv, ItemInv, Threads,
            Flushers, Buffers, SerializePc, CopyPc, TryWritePc, ThreadPc,
            FlusherPc, FlushingPc, WriterPc, LoopPc, queueVars, bufferVars,
            threadVars, flusherVars, accountVars
    <3>2. PcInv'
        BY <2>43 DEF LeftoverTimeout, TypeOK, PcInv, Threads, SerializePc,
            CopyPc, TryWritePc, WriterPc, LoopPc, queueVars, bufferVars,
            threadVars, flusherVars, accountVars
    <3>3. ItemInv'
        BY <2>43 DEF LeftoverTimeout, TypeOK, PcInv, ItemInv, Threads,
            SerializePc, CopyPc, TryWritePc, queueVars, bufferVars,
            threadVars, flusherVars, accountVars
    <3>4. PlanInv'
        BY <2>43 DEF LeftoverTimeout, TypeOK, PlanInv, Flushers, FlusherPc,
            FlushingPc, queueVars, bufferVars, threadVars, flusherVars,
            accountVars
    <3> QED BY <3>1, <3>2, <3>3, <3>4 DEF TypeInv
  <2>44. ASSUME NEW c \in Closers, LeftoverFlushed(c)
        PROVE  TypeInv'
    <3>1. TypeOK'
        BY <2>44 DEF LeftoverFlushed, TypeOK, PlanInv, PcInv, ItemInv, Threads,
            Flushers, Buffers, SerializePc, CopyPc, TryWritePc, ThreadPc,
            FlusherPc, FlushingPc, WriterPc, LoopPc, queueVars, bufferVars,
            threadVars, flusherVars, accountVars
    <3>2. PcInv'
        BY <2>44 DEF LeftoverFlushed, TypeOK, PcInv, Threads, SerializePc,
            CopyPc, TryWritePc, WriterPc, LoopPc, queueVars, bufferVars,
            threadVars, flusherVars, accountVars
    <3>3. ItemInv'
        BY <2>44 DEF LeftoverFlushed, TypeOK, PcInv, ItemInv, Threads,
            SerializePc, CopyPc, TryWritePc, queueVars, bufferVars,
            threadVars, flusherVars, accountVars
    <3>4. PlanInv'
        BY <2>44 DEF LeftoverFlushed, TypeOK, PlanInv, Flushers, FlusherPc,
            FlushingPc, queueVars, bufferVars, threadVars, flusherVars,
            accountVars
    <3> QED BY <3>1, <3>2, <3>3, <3>4 DEF TypeInv
  <2> QED
      BY <1>1, <2>1, <2>2, <2>3, <2>4, <2>5, <2>6, <2>7, <2>8, <2>9, <2>10,
          <2>11, <2>12, <2>13, <2>14, <2>15, <2>16, <2>17, <2>18, <2>19,
          <2>20, <2>21, <2>22, <2>23, <2>24, <2>25, <2>26, <2>27, <2>28,
          <2>29, <2>30, <2>31, <2>32, <2>33, <2>34, <2>35, <2>36, <2>37,
          <2>38, <2>39, <2>40, <2>41, <2>42, <2>43, <2>44
      DEF Next, SerializeTrace, SerializeTracesLoop, Flush, FlushTraces,
          FlushAndClose
<1>2. CASE UNCHANGED vars
    BY <1>2 DEF TypeInv, TypeOK, PcInv, ItemInv, PlanInv, vars, queueVars,
                bufferVars, threadVars, flusherVars, accountVars
<1> QED BY <1>1, <1>2

\* The state the constructor leaves has its types, and all threads are at
\* their first step.
LEMMA TypeInvInit == Init => TypeInv
<1> SUFFICES ASSUME Init PROVE TypeInv
    OBVIOUS
<1>1. NewSpanBuffer \in SpanBuffers
    BY DEF NewSpanBuffer, SpanBuffers, HeaderSize
<1>2. /\ pc \in [Threads -> ThreadPc]
      /\ fpc \in [Flushers -> FlusherPc]
    BY DEF Init, ThreadPc, FlusherPc
<1>5. /\ buffer \in [Buffers -> SpanBuffers]
      /\ plan \in [Flushers -> Seq(Buffers)]
      /\ pendingTraces \in Seq(Traces \cup FlushCallers)
    BY <1>1 DEF Init
<1>6. /\ monitor \in [Buffers -> Threads \cup Flushers \cup {None}]
      /\ flushTask \in [Buffers -> Flushers \cup {None}]
      /\ target \in [Threads -> Buffers]
      /\ previous \in [Flushers -> Flushers \cup {None}]
      /\ sending \in [Flushers -> {"no", "send", "clear", "unlock"}]
    BY DEF Init, Buffers
<1>7. /\ watermark \in [FlushCallers -> BOOLEAN]
      /\ outcome \in [Closers -> {"none", "ignored", "returned", "warned"}]
      /\ delivered \in [Traces -> Nat]
      /\ written \in [FlushCallers \cup Closers -> SUBSET Traces]
    BY DEF Init
<1>3. TypeOK
    BY <1>2, <1>5, <1>6, <1>7 DEF Init, TypeOK, Buffers
<1>4. PcInv /\ ItemInv /\ PlanInv
    BY DEF Init, PcInv, ItemInv, PlanInv, Threads, Flushers, WriterPc, LoopPc,
           SerializePc, CopyPc
<1> QED BY <1>3, <1>4 DEF TypeInv

\* The types hold at any time, with where threads, items and plans can be.
LEMMA TypeInvariance == Spec => []TypeInv
  BY TypeInvInit, TypeInvNext, PTL DEF Spec

\* Every variable keeps its type; above all, no interleaving of writers and
\* flushers moves the write position of a SpanBuffer out of its bounds.
THEOREM TypeCorrect == Spec => []TypeOK
<1>1. TypeInv => TypeOK
    BY DEF TypeInv
<1> QED BY <1>1, TypeInvariance, PTL

-----------------------------------------------------------------------------
(***************************************************************************)
(* Wake-ups.  NoLostWakeup speaks of a thread that waits; the wake-up can  *)
(* be lost before, between the moment when the queue is found empty and    *)
(* the wait, so the invariant covers that window too.  After an exception  *)
(* the queue was not found empty, but then the thread does not wait.       *)
(***************************************************************************)

GoingToWait ==
    \/ pc[Serializer] = "wait"
    \/ pc[Serializer] = "checkExit" /\ ~hasDequeuedTraces

WakeInv ==
    /\ pc[Serializer] \in SerializePc => hasDequeuedTraces
    /\ GoingToWait /\ pendingTraces # <<>> => serializationMutex \/ SetPending
    /\ pc[Serializer] = "wait" /\ processExit => serializationMutex \/ SetPending

\* WakeInv is preserved by every step.
LEMMA WakeInvNext == TypeInv /\ WakeInv /\ [Next]_vars => WakeInv'
<1> SUFFICES ASSUME TypeInv /\ WakeInv, [Next]_vars PROVE WakeInv'
    OBVIOUS
<1>0. /\ pc \in [Threads -> ThreadPc]
      /\ fpc \in [Flushers -> FlusherPc]
      /\ serializationMutex \in BOOLEAN
      /\ pendingTraces \in Seq(Traces \cup FlushCallers)
      /\ PcInv
    BY DEF TypeInv, TypeOK
<1>1. CASE Next
  <2>1. ASSUME NEW t \in Traces, WriteTrace(t)
        PROVE  WakeInv'
    BY <2>1, <1>0 DEF WriteTrace, SerializationCompleted, WakeInv,
        GoingToWait, SetPending, PcInv, Threads, Flushers, SerializePc,
        CopyPc, TryWritePc, WriterPc, LoopPc, FlushingPc, queueVars,
        bufferVars, threadVars, flusherVars, accountVars
  <2>2. ASSUME NEW t \in Traces, Enqueue(t)
        PROVE  WakeInv'
    BY <2>2, <1>0 DEF Enqueue, WakeInv, GoingToWait, SetPending, PcInv,
        Threads, Flushers, SerializePc, CopyPc, TryWritePc, WriterPc, LoopPc,
        FlushingPc, queueVars, bufferVars, threadVars, flusherVars,
        accountVars
  <2>3. ASSUME NEW t \in Traces, IsSet(t)
        PROVE  WakeInv'
    BY <2>3, <1>0 DEF IsSet, WakeInv, GoingToWait, SetPending, PcInv,
        Threads, Flushers, SerializePc, CopyPc, TryWritePc, WriterPc, LoopPc,
        FlushingPc, queueVars, bufferVars, threadVars, flusherVars,
        accountVars
  <2>4. ASSUME NEW t \in Traces, Set(t)
        PROVE  WakeInv'
    BY <2>4, <1>0 DEF Set, WakeInv, GoingToWait, SetPending, PcInv, Threads,
        Flushers, SerializePc, CopyPc, TryWritePc, WriterPc, LoopPc,
        FlushingPc, queueVars, bufferVars, threadVars, flusherVars,
        accountVars
  <2>5. ASSUME NEW p \in Threads, ReadActiveBuffer(p)
        PROVE  WakeInv'
    BY <2>5, <1>0 DEF ReadActiveBuffer, WakeInv, GoingToWait, SetPending,
        PcInv, Threads, Flushers, SerializePc, CopyPc, TryWritePc, WriterPc,
        LoopPc, FlushingPc, queueVars, bufferVars, threadVars, flusherVars,
        accountVars
  <2>6. ASSUME NEW p \in Threads, TryWriteRefused(p)
        PROVE  WakeInv'
    BY <2>6, <1>0 DEF TryWriteRefused, Refused, WakeInv, GoingToWait,
        SetPending, PcInv, Threads, Flushers, SerializePc, CopyPc,
        TryWritePc, WriterPc, LoopPc, FlushingPc, queueVars, bufferVars,
        threadVars, flusherVars, accountVars
  <2>7. ASSUME NEW p \in Threads, TryWriteSerialize(p)
        PROVE  WakeInv'
    BY <2>7, <1>0 DEF TryWriteSerialize, TryWriteEnters, TraceOf, WakeInv,
        GoingToWait, SetPending, PcInv, Threads, Flushers, SerializePc,
        CopyPc, TryWritePc, WriterPc, LoopPc, FlushingPc, queueVars,
        bufferVars, threadVars, flusherVars, accountVars
  <2>8. ASSUME NEW p \in Threads, TryWriteThrow(p)
        PROVE  WakeInv'
    BY <2>8, <1>0 DEF TryWriteThrow, TryWriteEnters, TraceOf, Throw, WakeInv,
        GoingToWait, SetPending, PcInv, Threads, Flushers, SerializePc,
        CopyPc, TryWritePc, WriterPc, LoopPc, FlushingPc, queueVars,
        bufferVars, threadVars, flusherVars, accountVars
  <2>9. ASSUME NEW p \in Threads, TryWriteCopy(p)
        PROVE  WakeInv'
    BY <2>9, <1>0 DEF TryWriteCopy, TraceOf, Return, Refused, WakeInv,
        GoingToWait, SetPending, PcInv, Threads, Flushers, SerializePc,
        CopyPc, TryWritePc, WriterPc, LoopPc, FlushingPc, queueVars,
        bufferVars, threadVars, flusherVars, accountVars
  <2>10. ASSUME NEW p \in Threads, SwapBuffers(p)
        PROVE  WakeInv'
    BY <2>10, <1>0 DEF SwapBuffers, Other, WakeInv, GoingToWait, SetPending,
        PcInv, Threads, Flushers, SerializePc, CopyPc, TryWritePc, WriterPc,
        LoopPc, FlushingPc, queueVars, bufferVars, threadVars, flusherVars,
        accountVars
  <2>11. ASSUME NEW p \in Threads, SwapBuffersWrite(p)
        PROVE  WakeInv'
    BY <2>11, <1>0 DEF SwapBuffersWrite, WakeInv, GoingToWait, SetPending,
        PcInv, Threads, Flushers, SerializePc, CopyPc, TryWritePc, WriterPc,
        LoopPc, FlushingPc, queueVars, bufferVars, threadVars, flusherVars,
        accountVars
  <2>12. ASSUME NEW p \in Threads, RequestFlush(p)
        PROVE  WakeInv'
    BY <2>12, <1>0 DEF RequestFlush, WakeInv, GoingToWait, SetPending, PcInv,
        Threads, Flushers, SerializePc, CopyPc, TryWritePc, WriterPc, LoopPc,
        FlushingPc, queueVars, bufferVars, threadVars, flusherVars,
        accountVars
  <2>13. ASSUME NEW p \in Threads, CompleteForceFlush(p)
        PROVE  WakeInv'
    BY <2>13, <1>0 DEF CompleteForceFlush, WakeInv, GoingToWait, SetPending,
        PcInv, Threads, Flushers, SerializePc, CopyPc, TryWritePc, WriterPc,
        LoopPc, FlushingPc, queueVars, bufferVars, threadVars, flusherVars,
        accountVars
  <2>14. ASSUME NEW p \in Threads, DropTrace(p)
        PROVE  WakeInv'
    BY <2>14, <1>0 DEF DropTrace, Return, WakeInv, GoingToWait, SetPending,
        PcInv, Threads, Flushers, SerializePc, CopyPc, TryWritePc, WriterPc,
        LoopPc, FlushingPc, queueVars, bufferVars, threadVars, flusherVars,
        accountVars
  <2>15. ASSUME DequeueTrace
        PROVE  WakeInv'
    BY <2>15, <1>0 DEF DequeueTrace, WakeInv, GoingToWait, SetPending, PcInv,
        Threads, Flushers, SerializePc, CopyPc, TryWritePc, WriterPc, LoopPc,
        FlushingPc, queueVars, bufferVars, threadVars, flusherVars,
        accountVars
  <2>16. ASSUME DequeueWatermark
        PROVE  WakeInv'
    BY <2>16, <1>0 DEF DequeueWatermark, WakeInv, GoingToWait, SetPending,
        PcInv, Threads, Flushers, SerializePc, CopyPc, TryWritePc, WriterPc,
        LoopPc, FlushingPc, queueVars, bufferVars, threadVars, flusherVars,
        accountVars
  <2>17. ASSUME QueueDrained
        PROVE  WakeInv'
    BY <2>17, <1>0 DEF QueueDrained, WakeInv, GoingToWait, SetPending, PcInv,
        Threads, Flushers, SerializePc, CopyPc, TryWritePc, WriterPc, LoopPc,
        FlushingPc, queueVars, bufferVars, threadVars, flusherVars,
        accountVars
  <2>18. ASSUME CheckProcessExit
        PROVE  WakeInv'
    BY <2>18, <1>0 DEF CheckProcessExit, WakeInv, GoingToWait, SetPending,
        PcInv, Threads, Flushers, SerializePc, CopyPc, TryWritePc, WriterPc,
        LoopPc, FlushingPc, queueVars, bufferVars, threadVars, flusherVars,
        accountVars
  <2>19. ASSUME Sleep
        PROVE  WakeInv'
    BY <2>19, <1>0 DEF Sleep, WakeInv, GoingToWait, SetPending, PcInv,
        Threads, Flushers, SerializePc, CopyPc, TryWritePc, WriterPc, LoopPc,
        FlushingPc, queueVars, bufferVars, threadVars, flusherVars,
        accountVars
  <2>20. ASSUME Wait
        PROVE  WakeInv'
    BY <2>20, <1>0 DEF Wait, WakeInv, GoingToWait, SetPending, PcInv,
        Threads, Flushers, SerializePc, CopyPc, TryWritePc, WriterPc, LoopPc,
        FlushingPc, queueVars, bufferVars, threadVars, flusherVars,
        accountVars
  <2>21. ASSUME Reset
        PROVE  WakeInv'
    BY <2>21, <1>0 DEF Reset, WakeInv, GoingToWait, SetPending, PcInv,
        Threads, Flushers, SerializePc, CopyPc, TryWritePc, WriterPc, LoopPc,
        FlushingPc, queueVars, bufferVars, threadVars, flusherVars,
        accountVars
  <2>22. ASSUME NEW f \in Flushers, FlushBuffers(f)
        PROVE  WakeInv'
    BY <2>22, <1>0 DEF FlushBuffers, Other, WakeInv, GoingToWait, SetPending,
        PcInv, Threads, Flushers, SerializePc, CopyPc, TryWritePc, WriterPc,
        LoopPc, FlushingPc, queueVars, bufferVars, threadVars, flusherVars,
        accountVars
  <2>23. ASSUME NEW f \in Flushers, CheckFallback(f)
        PROVE  WakeInv'
    BY <2>23, <1>0 DEF CheckFallback, WakeInv, GoingToWait, SetPending,
        PcInv, Threads, Flushers, SerializePc, CopyPc, TryWritePc, WriterPc,
        LoopPc, FlushingPc, queueVars, bufferVars, threadVars, flusherVars,
        accountVars
  <2>24. ASSUME NEW f \in Flushers, FlushBuffer(f)
        PROVE  WakeInv'
    BY <2>24, <1>0 DEF FlushBuffer, WakeInv, GoingToWait, SetPending, PcInv,
        Threads, Flushers, SerializePc, CopyPc, TryWritePc, WriterPc, LoopPc,
        FlushingPc, queueVars, bufferVars, threadVars, flusherVars,
        accountVars
  <2>25. ASSUME NEW f \in Flushers, LockBuffer(f)
        PROVE  WakeInv'
    BY <2>25, <1>0 DEF LockBuffer, WakeInv, GoingToWait, SetPending, PcInv,
        Threads, Flushers, SerializePc, CopyPc, TryWritePc, WriterPc, LoopPc,
        FlushingPc, queueVars, bufferVars, threadVars, flusherVars,
        accountVars
  <2>26. ASSUME NEW f \in Flushers, LockRefused(f)
        PROVE  WakeInv'
    BY <2>26, <1>0 DEF LockRefused, WakeInv, GoingToWait, SetPending, PcInv,
        Threads, Flushers, SerializePc, CopyPc, TryWritePc, WriterPc, LoopPc,
        FlushingPc, queueVars, bufferVars, threadVars, flusherVars,
        accountVars
  <2>27. ASSUME NEW f \in Flushers, SendTracesAsync(f)
        PROVE  WakeInv'
    BY <2>27, <1>0 DEF SendTracesAsync, WakeInv, GoingToWait, SetPending,
        PcInv, Threads, Flushers, SerializePc, CopyPc, TryWritePc, WriterPc,
        LoopPc, FlushingPc, queueVars, bufferVars, threadVars, flusherVars,
        accountVars
  <2>28. ASSUME NEW f \in Flushers, ClearBuffer(f)
        PROVE  WakeInv'
    BY <2>28, <1>0 DEF ClearBuffer, WakeInv, GoingToWait, SetPending, PcInv,
        Threads, Flushers, SerializePc, CopyPc, TryWritePc, WriterPc, LoopPc,
        FlushingPc, queueVars, bufferVars, threadVars, flusherVars,
        accountVars
  <2>29. ASSUME NEW f \in Flushers, UnlockBuffer(f)
        PROVE  WakeInv'
    BY <2>29, <1>0 DEF UnlockBuffer, WakeInv, GoingToWait, SetPending, PcInv,
        Threads, Flushers, SerializePc, CopyPc, TryWritePc, WriterPc, LoopPc,
        FlushingPc, queueVars, bufferVars, threadVars, flusherVars,
        accountVars
  <2>30. ASSUME NEW f \in Flushers, AssignFlushTask(f)
        PROVE  WakeInv'
    BY <2>30, <1>0 DEF AssignFlushTask, WakeInv, GoingToWait, SetPending,
        PcInv, Threads, Flushers, SerializePc, CopyPc, TryWritePc, WriterPc,
        LoopPc, FlushingPc, queueVars, bufferVars, threadVars, flusherVars,
        accountVars
  <2>31. ASSUME NEW f \in Flushers, AwaitFlushTask(f)
        PROVE  WakeInv'
    BY <2>31, <1>0 DEF AwaitFlushTask, WakeInv, GoingToWait, SetPending,
        PcInv, Threads, Flushers, SerializePc, CopyPc, TryWritePc, WriterPc,
        LoopPc, FlushingPc, queueVars, bufferVars, threadVars, flusherVars,
        accountVars
  <2>32. ASSUME ReplaceForceFlush
        PROVE  WakeInv'
    BY <2>32, <1>0 DEF ReplaceForceFlush, WakeInv, GoingToWait, SetPending,
        PcInv, Threads, Flushers, SerializePc, CopyPc, TryWritePc, WriterPc,
        LoopPc, FlushingPc, queueVars, bufferVars, threadVars, flusherVars,
        accountVars
  <2>33. ASSUME CheckSerializationTask
        PROVE  WakeInv'
    BY <2>33, <1>0 DEF CheckSerializationTask, SerializationCompleted,
        WakeInv, GoingToWait, SetPending, PcInv, Threads, Flushers,
        SerializePc, CopyPc, TryWritePc, WriterPc, LoopPc, FlushingPc,
        queueVars, bufferVars, threadVars, flusherVars, accountVars
  <2>34. ASSUME NEW f \in FlushCallers, FlushTracesAsync(f)
        PROVE  WakeInv'
    BY <2>34, <1>0 DEF FlushTracesAsync, SerializationCompleted,
        WrittenTraces, WakeInv, GoingToWait, SetPending, PcInv, Threads,
        Flushers, SerializePc, CopyPc, TryWritePc, WriterPc, LoopPc,
        FlushingPc, queueVars, bufferVars, threadVars, flusherVars,
        accountVars
  <2>35. ASSUME NEW f \in FlushCallers, WriteWatermark(f)
        PROVE  WakeInv'
    BY <2>35, <1>0 DEF WriteWatermark, WakeInv, GoingToWait, SetPending,
        PcInv, Threads, Flushers, SerializePc, CopyPc, TryWritePc, WriterPc,
        LoopPc, FlushingPc, queueVars, bufferVars, threadVars, flusherVars,
        accountVars
  <2>36. ASSUME NEW f \in FlushCallers, WakeUpThread(f)
        PROVE  WakeInv'
    BY <2>36, <1>0 DEF WakeUpThread, WakeInv, GoingToWait, SetPending, PcInv,
        Threads, Flushers, SerializePc, CopyPc, TryWritePc, WriterPc, LoopPc,
        FlushingPc, queueVars, bufferVars, threadVars, flusherVars,
        accountVars
  <2>37. ASSUME NEW f \in FlushCallers, AwaitWatermark(f)
        PROVE  WakeInv'
    BY <2>37, <1>0 DEF AwaitWatermark, WakeInv, GoingToWait, SetPending,
        PcInv, Threads, Flushers, SerializePc, CopyPc, TryWritePc, WriterPc,
        LoopPc, FlushingPc, queueVars, bufferVars, threadVars, flusherVars,
        accountVars
  <2>38. ASSUME NEW c \in Closers, FlushAndCloseAsync(c)
        PROVE  WakeInv'
    BY <2>38, <1>0 DEF FlushAndCloseAsync, WrittenTraces, WakeInv,
        GoingToWait, SetPending, PcInv, Threads, Flushers, SerializePc,
        CopyPc, TryWritePc, WriterPc, LoopPc, FlushingPc, queueVars,
        bufferVars, threadVars, flusherVars, accountVars
  <2>39. ASSUME NEW c \in Closers, SetForExit(c)
        PROVE  WakeInv'
    BY <2>39, <1>0 DEF SetForExit, WakeInv, GoingToWait, SetPending, PcInv,
        Threads, Flushers, SerializePc, CopyPc, TryWritePc, WriterPc, LoopPc,
        FlushingPc, queueVars, bufferVars, threadVars, flusherVars,
        accountVars
  <2>40. ASSUME NEW c \in Closers, AwaitSerialization(c)
        PROVE  WakeInv'
    BY <2>40, <1>0 DEF AwaitSerialization, SerializationCompleted, WakeInv,
        GoingToWait, SetPending, PcInv, Threads, Flushers, SerializePc,
        CopyPc, TryWritePc, WriterPc, LoopPc, FlushingPc, queueVars,
        bufferVars, threadVars, flusherVars, accountVars
  <2>41. ASSUME NEW c \in Closers, SerializationTimeout(c)
        PROVE  WakeInv'
    BY <2>41, <1>0 DEF SerializationTimeout, WakeInv, GoingToWait,
        SetPending, PcInv, Threads, Flushers, SerializePc, CopyPc,
        TryWritePc, WriterPc, LoopPc, FlushingPc, queueVars, bufferVars,
        threadVars, flusherVars, accountVars
  <2>42. ASSUME NEW c \in Closers, CheckLeftover(c)
        PROVE  WakeInv'
    BY <2>42, <1>0 DEF CheckLeftover, WakeInv, GoingToWait, SetPending,
        PcInv, Threads, Flushers, SerializePc, CopyPc, TryWritePc, WriterPc,
        LoopPc, FlushingPc, queueVars, bufferVars, threadVars, flusherVars,
        accountVars
  <2>43. ASSUME NEW c \in Closers, LeftoverTimeout(c)
        PROVE  WakeInv'
    BY <2>43, <1>0 DEF LeftoverTimeout, WakeInv, GoingToWait, SetPending,
        PcInv, Threads, Flushers, SerializePc, CopyPc, TryWritePc, WriterPc,
        LoopPc, FlushingPc, queueVars, bufferVars, threadVars, flusherVars,
        accountVars
  <2>44. ASSUME NEW c \in Closers, LeftoverFlushed(c)
        PROVE  WakeInv'
    BY <2>44, <1>0 DEF LeftoverFlushed, WakeInv, GoingToWait, SetPending,
        PcInv, Threads, Flushers, SerializePc, CopyPc, TryWritePc, WriterPc,
        LoopPc, FlushingPc, queueVars, bufferVars, threadVars, flusherVars,
        accountVars
  <2> QED
      BY <1>1, <2>1, <2>2, <2>3, <2>4, <2>5, <2>6, <2>7, <2>8, <2>9, <2>10,
          <2>11, <2>12, <2>13, <2>14, <2>15, <2>16, <2>17, <2>18, <2>19,
          <2>20, <2>21, <2>22, <2>23, <2>24, <2>25, <2>26, <2>27, <2>28,
          <2>29, <2>30, <2>31, <2>32, <2>33, <2>34, <2>35, <2>36, <2>37,
          <2>38, <2>39, <2>40, <2>41, <2>42, <2>43, <2>44
      DEF Next, SerializeTrace, SerializeTracesLoop, Flush, FlushTraces,
          FlushAndClose
<1>2. CASE UNCHANGED vars
    BY <1>2, <1>0 DEF vars, WakeInv, GoingToWait, SetPending, PcInv, Threads,
        Flushers, SerializePc, CopyPc, TryWritePc, WriterPc, LoopPc,
        FlushingPc, queueVars, bufferVars, threadVars, flusherVars,
        accountVars
<1> QED BY <1>1, <1>2

\* The serialization thread does not wait when it is created.
LEMMA WakeInvInit == Init => WakeInv
  BY DEF Init, WakeInv, GoingToWait, Threads, SerializePc

\* The serialization thread does not sleep through work or through an exit:
\* for any number of writers, flush callers and closers.
THEOREM NoLostWakeupCorrect == Spec => []NoLostWakeup
<1>1. WakeInv => NoLostWakeup
    BY DEF WakeInv, GoingToWait, NoLostWakeup
<1> QED BY <1>1, WakeInvInit, WakeInvNext, TypeInvariance, PTL DEF Spec

-----------------------------------------------------------------------------
(***************************************************************************)
(* Buffers under flush.  Who holds a monitor is determined by where the    *)
(* threads and the flushers are; with that, nobody writes a locked buffer  *)
(* and only the flush that locked it unlocks it.                           *)
(***************************************************************************)

MonitorInv ==
    /\ \A p \in Threads : pc[p] \in CopyPc =>
         monitor[target[p]] = p /\ ~buffer[target[p]].locked
    /\ \A b \in Buffers : monitor[b] \in Threads =>
         pc[monitor[b]] \in CopyPc /\ target[monitor[b]] = b
    /\ \A f \in Flushers : sending[f] = "unlock" =>
         /\ monitor[Head(plan[f])] = f
         /\ TraceCount(buffer[Head(plan[f])]) = 0
         /\ ~buffer[Head(plan[f])].isFull
    /\ \A b \in Buffers : monitor[b] \in Flushers =>
         sending[monitor[b]] = "unlock" /\ Head(plan[monitor[b]]) = b

LockInv == PayloadIntact /\ MonitorInv

\* LockInv is preserved by every step.
LEMMA LockInvNext == TypeInv /\ LockInv /\ [Next]_vars => LockInv'
<1> SUFFICES ASSUME TypeInv /\ LockInv, [Next]_vars PROVE LockInv'
    OBVIOUS
<1>0. /\ pc \in [Threads -> ThreadPc]
      /\ target \in [Threads -> Buffers]
      /\ monitor \in [Buffers -> Threads \cup Flushers \cup {None}]
      /\ buffer \in [Buffers -> SpanBuffers]
      /\ fpc \in [Flushers -> FlusherPc]
      /\ plan \in [Flushers -> Seq(Buffers)]
      /\ sending \in [Flushers -> {"no", "send", "clear", "unlock"}]
      /\ PlanInv
    BY DEF TypeInv, TypeOK
<1>1. CASE Next
  <2>1. ASSUME NEW t \in Traces, WriteTrace(t)
        PROVE  LockInv'
    BY <2>1, <1>0 DEF WriteTrace, SerializationCompleted, LockInv,
        PayloadIntact, MonitorInv, IsFlushing, PlanInv, Flushers, CopyPc,
        TryWritePc, FlushingPc, queueVars, bufferVars, threadVars,
        flusherVars, accountVars
  <2>2. ASSUME NEW t \in Traces, Enqueue(t)
        PROVE  LockInv'
    BY <2>2, <1>0 DEF Enqueue, LockInv, PayloadIntact, MonitorInv,
        IsFlushing, PlanInv, Flushers, CopyPc, TryWritePc, FlushingPc,
        queueVars, bufferVars, threadVars, flusherVars, accountVars
  <2>3. ASSUME NEW t \in Traces, IsSet(t)
        PROVE  LockInv'
    BY <2>3, <1>0 DEF IsSet, LockInv, PayloadIntact, MonitorInv, IsFlushing,
        PlanInv, Flushers, CopyPc, TryWritePc, FlushingPc, queueVars,
        bufferVars, threadVars, flusherVars, accountVars
  <2>4. ASSUME NEW t \in Traces, Set(t)
        PROVE  LockInv'
    BY <2>4, <1>0 DEF Set, LockInv, PayloadIntact, MonitorInv, IsFlushing,
        PlanInv, Flushers, CopyPc, TryWritePc, FlushingPc, queueVars,
        bufferVars, threadVars, flusherVars, accountVars
  <2>5. ASSUME NEW p \in Threads, ReadActiveBuffer(p)
        PROVE  LockInv'
    BY <2>5, <1>0 DEF ReadActiveBuffer, LockInv, PayloadIntact, MonitorInv,
        IsFlushing, PlanInv, Flushers, CopyPc, TryWritePc, FlushingPc,
        queueVars, bufferVars, threadVars, flusherVars, accountVars
  <2>6. ASSUME NEW p \in Threads, TryWriteRefused(p)
        PROVE  LockInv'
    BY <2>6, <1>0 DEF TryWriteRefused, Refused, LockInv, PayloadIntact,
        MonitorInv, IsFlushing, PlanInv, Flushers, CopyPc, TryWritePc,
        FlushingPc, queueVars, bufferVars, threadVars, flusherVars,
        accountVars
  <2>7. ASSUME NEW p \in Threads, TryWriteSerialize(p)
        PROVE  LockInv'
    BY <2>7, <1>0 DEF TryWriteSerialize, TryWriteEnters, TraceOf, LockInv,
        PayloadIntact, MonitorInv, IsFlushing, PlanInv, Flushers, CopyPc,
        TryWritePc, FlushingPc, queueVars, bufferVars, threadVars,
        flusherVars, accountVars
  <2>8. ASSUME NEW p \in Threads, TryWriteThrow(p)
        PROVE  LockInv'
    BY <2>8, <1>0 DEF TryWriteThrow, TryWriteEnters, TraceOf, Throw, LockInv,
        PayloadIntact, MonitorInv, IsFlushing, PlanInv, Flushers, CopyPc,
        TryWritePc, FlushingPc, queueVars, bufferVars, threadVars,
        flusherVars, accountVars
  <2>9. ASSUME NEW p \in Threads, TryWriteCopy(p)
        PROVE  LockInv'
    BY <2>9, <1>0 DEF TryWriteCopy, TraceOf, Return, Refused, Append1,
        MarkFull, LockInv, PayloadIntact, MonitorInv, IsFlushing, PlanInv,
        Flushers, CopyPc, TryWritePc, FlushingPc, queueVars, bufferVars,
        threadVars, flusherVars, accountVars
  <2>10. ASSUME NEW p \in Threads, SwapBuffers(p)
        PROVE  LockInv'
    BY <2>10, <1>0 DEF SwapBuffers, Other, LockInv, PayloadIntact,
        MonitorInv, IsFlushing, PlanInv, Flushers, CopyPc, TryWritePc,
        FlushingPc, queueVars, bufferVars, threadVars, flusherVars,
        accountVars
  <2>11. ASSUME NEW p \in Threads, SwapBuffersWrite(p)
        PROVE  LockInv'
    BY <2>11, <1>0 DEF SwapBuffersWrite, LockInv, PayloadIntact, MonitorInv,
        IsFlushing, PlanInv, Flushers, CopyPc, TryWritePc, FlushingPc,
        queueVars, bufferVars, threadVars, flusherVars, accountVars
  <2>12. ASSUME NEW p \in Threads, RequestFlush(p)
        PROVE  LockInv'
    BY <2>12, <1>0 DEF RequestFlush, LockInv, PayloadIntact, MonitorInv,
        IsFlushing, PlanInv, Flushers, CopyPc, TryWritePc, FlushingPc,
        queueVars, bufferVars, threadVars, flusherVars, accountVars
  <2>13. ASSUME NEW p \in Threads, CompleteForceFlush(p)
        PROVE  LockInv'
    BY <2>13, <1>0 DEF CompleteForceFlush, LockInv, PayloadIntact,
        MonitorInv, IsFlushing, PlanInv, Flushers, CopyPc, TryWritePc,
        FlushingPc, queueVars, bufferVars, threadVars, flusherVars,
        accountVars
  <2>14. ASSUME NEW p \in Threads, DropTrace(p)
        PROVE  LockInv'
    BY <2>14, <1>0 DEF DropTrace, Return, LockInv, PayloadIntact, MonitorInv,
        IsFlushing, PlanInv, Flushers, CopyPc, TryWritePc, FlushingPc,
        queueVars, bufferVars, threadVars, flusherVars, accountVars
  <2>15. ASSUME DequeueTrace
        PROVE  LockInv'
    BY <2>15, <1>0 DEF DequeueTrace, LockInv, PayloadIntact, MonitorInv,
        IsFlushing, PlanInv, Flushers, CopyPc, TryWritePc, FlushingPc,
        queueVars, bufferVars, threadVars, flusherVars, accountVars
  <2>16. ASSUME DequeueWatermark
        PROVE  LockInv'
    BY <2>16, <1>0 DEF DequeueWatermark, LockInv, PayloadIntact, MonitorInv,
        IsFlushing, PlanInv, Flushers, CopyPc, TryWritePc, FlushingPc,
        queueVars, bufferVars, threadVars, flusherVars, accountVars
  <2>17. ASSUME QueueDrained
        PROVE  LockInv'
    BY <2>17, <1>0 DEF QueueDrained, LockInv, PayloadIntact, MonitorInv,
        IsFlushing, PlanInv, Flushers, CopyPc, TryWritePc, FlushingPc,
        queueVars, bufferVars, threadVars, flusherVars, accountVars
  <2>18. ASSUME CheckProcessExit
        PROVE  LockInv'
    BY <2>18, <1>0 DEF CheckProcessExit, LockInv, PayloadIntact, MonitorInv,
        IsFlushing, PlanInv, Flushers, CopyPc, TryWritePc, FlushingPc,
        queueVars, bufferVars, threadVars, flusherVars, accountVars
  <2>19. ASSUME Sleep
        PROVE  LockInv'
    BY <2>19, <1>0 DEF Sleep, LockInv, PayloadIntact, MonitorInv, IsFlushing,
        PlanInv, Flushers, CopyPc, TryWritePc, FlushingPc, queueVars,
        bufferVars, threadVars, flusherVars, accountVars
  <2>20. ASSUME Wait
        PROVE  LockInv'
    BY <2>20, <1>0 DEF Wait, LockInv, PayloadIntact, MonitorInv, IsFlushing,
        PlanInv, Flushers, CopyPc, TryWritePc, FlushingPc, queueVars,
        bufferVars, threadVars, flusherVars, accountVars
  <2>21. ASSUME Reset
        PROVE  LockInv'
    BY <2>21, <1>0 DEF Reset, LockInv, PayloadIntact, MonitorInv, IsFlushing,
        PlanInv, Flushers, CopyPc, TryWritePc, FlushingPc, queueVars,
        bufferVars, threadVars, flusherVars, accountVars
  <2>22. ASSUME NEW f \in Flushers, FlushBuffers(f)
        PROVE  LockInv'
    BY <2>22, <1>0 DEF FlushBuffers, Other, LockInv, PayloadIntact,
        MonitorInv, IsFlushing, PlanInv, Flushers, CopyPc, TryWritePc,
        FlushingPc, queueVars, bufferVars, threadVars, flusherVars,
        accountVars
  <2>23. ASSUME NEW f \in Flushers, CheckFallback(f)
        PROVE  LockInv'
    BY <2>23, <1>0 DEF CheckFallback, LockInv, PayloadIntact, MonitorInv,
        IsFlushing, PlanInv, Flushers, CopyPc, TryWritePc, FlushingPc,
        queueVars, bufferVars, threadVars, flusherVars, accountVars
  <2>24. ASSUME NEW f \in Flushers, FlushBuffer(f)
        PROVE  LockInv'
    BY <2>24, <1>0 DEF FlushBuffer, LockInv, PayloadIntact, MonitorInv,
        IsFlushing, PlanInv, Flushers, CopyPc, TryWritePc, FlushingPc,
        queueVars, bufferVars, threadVars, flusherVars, accountVars
  <2>25. ASSUME NEW f \in Flushers, LockBuffer(f)
        PROVE  LockInv'
    BY <2>25, <1>0 DEF LockBuffer, Lock, TraceCount, LockInv, PayloadIntact,
        MonitorInv, IsFlushing, PlanInv, Flushers, CopyPc, TryWritePc,
        FlushingPc, queueVars, bufferVars, threadVars, flusherVars,
        accountVars
  <2>26. ASSUME NEW f \in Flushers, LockRefused(f)
        PROVE  LockInv'
    BY <2>26, <1>0 DEF LockRefused, LockInv, PayloadIntact, MonitorInv,
        IsFlushing, PlanInv, Flushers, CopyPc, TryWritePc, FlushingPc,
        queueVars, bufferVars, threadVars, flusherVars, accountVars
  <2>27. ASSUME NEW f \in Flushers, SendTracesAsync(f)
        PROVE  LockInv'
    BY <2>27, <1>0 DEF SendTracesAsync, LockInv, PayloadIntact, MonitorInv,
        IsFlushing, PlanInv, Flushers, CopyPc, TryWritePc, FlushingPc,
        queueVars, bufferVars, threadVars, flusherVars, accountVars
  <2>28. ASSUME NEW f \in Flushers, ClearBuffer(f)
        PROVE  LockInv'
    <3>1. PayloadIntact'
      BY <2>28, <1>0 DEF ClearBuffer, ClearContent, TraceCount, LockInv,
          PayloadIntact, IsFlushing, PlanInv, Flushers, FlushingPc
    <3>2. MonitorInv'
      <4>1. buffer[Head(plan[f])].locked
        BY <2>28, <1>0 DEF ClearBuffer, LockInv, PayloadIntact, IsFlushing, PlanInv,
            Flushers, FlushingPc
      <4>2. \A p \in Threads : pc[p] \in CopyPc => target[p] # Head(plan[f])
        BY <4>1, <1>0 DEF LockInv, MonitorInv
      <4>. QED
        BY <2>28, <1>0, <4>2 DEF ClearBuffer, ClearContent, TraceCount, LockInv,
            MonitorInv, PlanInv, Flushers, CopyPc, TryWritePc, threadVars
    <3>. QED  BY <3>1, <3>2 DEF LockInv
  <2>29. ASSUME NEW f \in Flushers, UnlockBuffer(f)
        PROVE  LockInv'
    BY <2>29, <1>0 DEF UnlockBuffer, Unlock, TraceCount, LockInv,
        PayloadIntact, MonitorInv, IsFlushing, PlanInv, Flushers, CopyPc,
        TryWritePc, FlushingPc, queueVars, bufferVars, threadVars,
        flusherVars, accountVars
  <2>30. ASSUME NEW f \in Flushers, AssignFlushTask(f)
        PROVE  LockInv'
    BY <2>30, <1>0 DEF AssignFlushTask, LockInv, PayloadIntact, MonitorInv,
        IsFlushing, PlanInv, Flushers, CopyPc, TryWritePc, FlushingPc,
        queueVars, bufferVars, threadVars, flusherVars, accountVars
  <2>31. ASSUME NEW f \in Flushers, AwaitFlushTask(f)
        PROVE  LockInv'
    BY <2>31, <1>0 DEF AwaitFlushTask, LockInv, PayloadIntact, MonitorInv,
        IsFlushing, PlanInv, Flushers, CopyPc, TryWritePc, FlushingPc,
        queueVars, bufferVars, threadVars, flusherVars, accountVars
  <2>32. ASSUME ReplaceForceFlush
        PROVE  LockInv'
    BY <2>32, <1>0 DEF ReplaceForceFlush, LockInv, PayloadIntact, MonitorInv,
        IsFlushing, PlanInv, Flushers, CopyPc, TryWritePc, FlushingPc,
        queueVars, bufferVars, threadVars, flusherVars, accountVars
  <2>33. ASSUME CheckSerializationTask
        PROVE  LockInv'
    BY <2>33, <1>0 DEF CheckSerializationTask, SerializationCompleted,
        LockInv, PayloadIntact, MonitorInv, IsFlushing, PlanInv, Flushers,
        CopyPc, TryWritePc, FlushingPc, queueVars, bufferVars, threadVars,
        flusherVars, accountVars
  <2>34. ASSUME NEW f \in FlushCallers, FlushTracesAsync(f)
        PROVE  LockInv'
    BY <2>34, <1>0 DEF FlushTracesAsync, SerializationCompleted,
        WrittenTraces, LockInv, PayloadIntact, MonitorInv, IsFlushing,
        PlanInv, Flushers, CopyPc, TryWritePc, FlushingPc, queueVars,
        bufferVars, threadVars, flusherVars, accountVars
  <2>35. ASSUME NEW f \in FlushCallers, WriteWatermark(f)
        PROVE  LockInv'
    BY <2>35, <1>0 DEF WriteWatermark, LockInv, PayloadIntact, MonitorInv,
        IsFlushing, PlanInv, Flushers, CopyPc, TryWritePc, FlushingPc,
        queueVars, bufferVars, threadVars, flusherVars, accountVars
  <2>36. ASSUME NEW f \in FlushCallers, WakeUpThread(f)
        PROVE  LockInv'
    BY <2>36, <1>0 DEF WakeUpThread, LockInv, PayloadIntact, MonitorInv,
        IsFlushing, PlanInv, Flushers, CopyPc, TryWritePc, FlushingPc,
        queueVars, bufferVars, threadVars, flusherVars, accountVars
  <2>37. ASSUME NEW f \in FlushCallers, AwaitWatermark(f)
        PROVE  LockInv'
    BY <2>37, <1>0 DEF AwaitWatermark, LockInv, PayloadIntact, MonitorInv,
        IsFlushing, PlanInv, Flushers, CopyPc, TryWritePc, FlushingPc,
        queueVars, bufferVars, threadVars, flusherVars, accountVars
  <2>38. ASSUME NEW c \in Closers, FlushAndCloseAsync(c)
        PROVE  LockInv'
    BY <2>38, <1>0 DEF FlushAndCloseAsync, WrittenTraces, LockInv,
        PayloadIntact, MonitorInv, IsFlushing, PlanInv, Flushers, CopyPc,
        TryWritePc, FlushingPc, queueVars, bufferVars, threadVars,
        flusherVars, accountVars
  <2>39. ASSUME NEW c \in Closers, SetForExit(c)
        PROVE  LockInv'
    BY <2>39, <1>0 DEF SetForExit, LockInv, PayloadIntact, MonitorInv,
        IsFlushing, PlanInv, Flushers, CopyPc, TryWritePc, FlushingPc,
        queueVars, bufferVars, threadVars, flusherVars, accountVars
  <2>40. ASSUME NEW c \in Closers, AwaitSerialization(c)
        PROVE  LockInv'
    BY <2>40, <1>0 DEF AwaitSerialization, SerializationCompleted, LockInv,
        PayloadIntact, MonitorInv, IsFlushing, PlanInv, Flushers, CopyPc,
        TryWritePc, FlushingPc, queueVars, bufferVars, threadVars,
        flusherVars, accountVars
  <2>41. ASSUME NEW c \in Closers, SerializationTimeout(c)
        PROVE  LockInv'
    BY <2>41, <1>0 DEF SerializationTimeout, LockInv, PayloadIntact,
        MonitorInv, IsFlushing, PlanInv, Flushers, CopyPc, TryWritePc,
        FlushingPc, queueVars, bufferVars, threadVars, flusherVars,
        accountVars
  <2>42. ASSUME NEW c \in Closers, CheckLeftover(c)
        PROVE  LockInv'
    BY <2>42, <1>0 DEF CheckLeftover, LockInv, PayloadIntact, MonitorInv,
        IsFlushing, PlanInv, Flushers, CopyPc, TryWritePc, FlushingPc,
        queueVars, bufferVars, threadVars, flusherVars, accountVars
  <2>43. ASSUME NEW c \in Closers, LeftoverTimeout(c)
        PROVE  LockInv'
    BY <2>43, <1>0 DEF LeftoverTimeout, LockInv, PayloadIntact, MonitorInv,
        IsFlushing, PlanInv, Flushers, CopyPc, TryWritePc, FlushingPc,
        queueVars, bufferVars, threadVars, flusherVars, accountVars
  <2>44. ASSUME NEW c \in Closers, LeftoverFlushed(c)
        PROVE  LockInv'
    BY <2>44, <1>0 DEF LeftoverFlushed, LockInv, PayloadIntact, MonitorInv,
        IsFlushing, PlanInv, Flushers, CopyPc, TryWritePc, FlushingPc,
        queueVars, bufferVars, threadVars, flusherVars, accountVars
  <2> QED
      BY <1>1, <2>1, <2>2, <2>3, <2>4, <2>5, <2>6, <2>7, <2>8, <2>9, <2>10,
          <2>11, <2>12, <2>13, <2>14, <2>15, <2>16, <2>17, <2>18, <2>19,
          <2>20, <2>21, <2>22, <2>23, <2>24, <2>25, <2>26, <2>27, <2>28,
          <2>29, <2>30, <2>31, <2>32, <2>33, <2>34, <2>35, <2>36, <2>37,
          <2>38, <2>39, <2>40, <2>41, <2>42, <2>43, <2>44
      DEF Next, SerializeTrace, SerializeTracesLoop, Flush, FlushTraces,
          FlushAndClose
<1>2. CASE UNCHANGED vars
    BY <1>2, <1>0 DEF vars, LockInv, PayloadIntact, MonitorInv, IsFlushing,
        PlanInv, Flushers, CopyPc, TryWritePc, FlushingPc, queueVars,
        bufferVars, threadVars, flusherVars, accountVars
<1> QED BY <1>1, <1>2

\* New buffers are not locked, and no monitor is held.
LEMMA LockInvInit == Init => LockInv
<1> SUFFICES ASSUME Init PROVE LockInv
    OBVIOUS
<1>1. /\ \A f \in Flushers : sending[f] = "no"
      /\ \A b \in Buffers : ~buffer[b].locked /\ monitor[b] = None
      /\ \A p \in Threads : pc[p] \notin CopyPc
    BY DEF Init, NewSpanBuffer, CopyPc
<1>2. PayloadIntact
    BY <1>1 DEF PayloadIntact, IsFlushing
<1>3. MonitorInv
    BY <1>1 DEF MonitorInv
<1> QED BY <1>2, <1>3 DEF LockInv

\* At any time a locked buffer has its one flush, and a monitor its one holder.
LEMMA LockInvariance == Spec => []LockInv
  BY LockInvInit, LockInvNext, TypeInvariance, PTL DEF Spec

\* Whatever the flush task fields say, a buffer is flushed by one flusher at a
\* time and is not written until it has been sent: for any number of flushers,
\* and of threads that serialize on their own after the shutdown.
THEOREM PayloadIntactCorrect == Spec => []PayloadIntact
<1>1. LockInv => PayloadIntact
    BY DEF LockInv
<1> QED BY <1>1, LockInvariance, PTL

-----------------------------------------------------------------------------
(***************************************************************************)
(* Swapping.  The serialization thread swaps away from a buffer only after *)
(* TryWrite has refused a trace, and until the swap the reason stays true  *)
(* or the buffer is emptied.                                               *)
(***************************************************************************)

Parked(b) == TraceCount(b) > 0 => b.isFull \/ b.locked

SwapInv ==
    ~SerializationCompleted =>
        /\ \A t \in Traces : pc[t] \notin SerializePc
        /\ pc[Serializer] \in {"write1", "copy1", "swap", "signal", "write2",
                               "copy2"} => target[Serializer] = activeBuffer
        /\ pc[Serializer] = "swapWrite" =>
             target[Serializer] = Other(activeBuffer)
        /\ pc[Serializer] \in {"swap", "swapWrite"} =>
             Parked(buffer[activeBuffer])
        /\ Parked(buffer[Other(activeBuffer)])

\* SwapInv is preserved by every step.
LEMMA SwapInvNext == TypeInv /\ LockInv /\ SwapInv /\ [Next]_vars => SwapInv'
<1> SUFFICES ASSUME TypeInv /\ LockInv /\ SwapInv, [Next]_vars PROVE SwapInv'
    OBVIOUS
<1>0. /\ pc \in [Threads -> ThreadPc]
      /\ target \in [Threads -> Buffers]
      /\ activeBuffer \in Buffers
      /\ monitor \in [Buffers -> Threads \cup Flushers \cup {None}]
      /\ buffer \in [Buffers -> SpanBuffers]
      /\ plan \in [Flushers -> Seq(Buffers)]
      /\ PcInv /\ MonitorInv
    BY DEF TypeInv, TypeOK, LockInv
<1>1. CASE Next
  <2>1. ASSUME NEW t \in Traces, WriteTrace(t)
        PROVE  SwapInv'
    BY <2>1, <1>0 DEF WriteTrace, SerializationCompleted, SwapInv, Parked,
        SerializationCompleted, Other, Buffers, TraceCount, PcInv,
        MonitorInv, Threads, SerializePc, CopyPc, TryWritePc, WriterPc,
        LoopPc, queueVars, bufferVars, threadVars, flusherVars, accountVars
  <2>2. ASSUME NEW t \in Traces, Enqueue(t)
        PROVE  SwapInv'
    BY <2>2, <1>0 DEF Enqueue, SwapInv, Parked, SerializationCompleted,
        Other, Buffers, TraceCount, PcInv, MonitorInv, Threads, SerializePc,
        CopyPc, TryWritePc, WriterPc, LoopPc, queueVars, bufferVars,
        threadVars, flusherVars, accountVars
  <2>3. ASSUME NEW t \in Traces, IsSet(t)
        PROVE  SwapInv'
    BY <2>3, <1>0 DEF IsSet, SwapInv, Parked, SerializationCompleted, Other,
        Buffers, TraceCount, PcInv, MonitorInv, Threads, SerializePc, CopyPc,
        TryWritePc, WriterPc, LoopPc, queueVars, bufferVars, threadVars,
        flusherVars, accountVars
  <2>4. ASSUME NEW t \in Traces, Set(t)
        PROVE  SwapInv'
    BY <2>4, <1>0 DEF Set, SwapInv, Parked, SerializationCompleted, Other,
        Buffers, TraceCount, PcInv, MonitorInv, Threads, SerializePc, CopyPc,
        TryWritePc, WriterPc, LoopPc, queueVars, bufferVars, threadVars,
        flusherVars, accountVars
  <2>5. ASSUME NEW p \in Threads, ReadActiveBuffer(p)
        PROVE  SwapInv'
    BY <2>5, <1>0 DEF ReadActiveBuffer, SwapInv, Parked,
        SerializationCompleted, Other, Buffers, TraceCount, PcInv,
        MonitorInv, Threads, SerializePc, CopyPc, TryWritePc, WriterPc,
        LoopPc, queueVars, bufferVars, threadVars, flusherVars, accountVars
  <2>6. ASSUME NEW p \in Threads, TryWriteRefused(p)
        PROVE  SwapInv'
    BY <2>6, <1>0 DEF TryWriteRefused, Refused, SwapInv, Parked,
        SerializationCompleted, Other, Buffers, TraceCount, PcInv,
        MonitorInv, Threads, SerializePc, CopyPc, TryWritePc, WriterPc,
        LoopPc, queueVars, bufferVars, threadVars, flusherVars, accountVars
  <2>7. ASSUME NEW p \in Threads, TryWriteSerialize(p)
        PROVE  SwapInv'
    BY <2>7, <1>0 DEF TryWriteSerialize, TryWriteEnters, TraceOf, SwapInv,
        Parked, SerializationCompleted, Other, Buffers, TraceCount, PcInv,
        MonitorInv, Threads, SerializePc, CopyPc, TryWritePc, WriterPc,
        LoopPc, queueVars, bufferVars, threadVars, flusherVars, accountVars
  <2>8. ASSUME NEW p \in Threads, TryWriteThrow(p)
        PROVE  SwapInv'
    BY <2>8, <1>0 DEF TryWriteThrow, TryWriteEnters, TraceOf, Throw, SwapInv,
        Parked, SerializationCompleted, Other, Buffers, TraceCount, PcInv,
        MonitorInv, Threads, SerializePc, CopyPc, TryWritePc, WriterPc,
        LoopPc, queueVars, bufferVars, threadVars, flusherVars, accountVars
  <2>9. ASSUME NEW p \in Threads, TryWriteCopy(p)
        PROVE  SwapInv'
    BY <2>9, <1>0 DEF TryWriteCopy, TraceOf, Return, Refused, Append1,
        MarkFull, SwapInv, Parked, SerializationCompleted, Other, Buffers,
        TraceCount, PcInv, MonitorInv, Threads, SerializePc, CopyPc,
        TryWritePc, WriterPc, LoopPc, queueVars, bufferVars, threadVars,
        flusherVars, accountVars
  <2>10. ASSUME NEW p \in Threads, SwapBuffers(p)
        PROVE  SwapInv'
    BY <2>10, <1>0 DEF SwapBuffers, Other, SwapInv, Parked,
        SerializationCompleted, Other, Buffers, TraceCount, PcInv,
        MonitorInv, Threads, SerializePc, CopyPc, TryWritePc, WriterPc,
        LoopPc, queueVars, bufferVars, threadVars, flusherVars, accountVars
  <2>11. ASSUME NEW p \in Threads, SwapBuffersWrite(p)
        PROVE  SwapInv'
    BY <2>11, <1>0 DEF SwapBuffersWrite, SwapInv, Parked,
        SerializationCompleted, Other, Buffers, TraceCount, PcInv,
        MonitorInv, Threads, SerializePc, CopyPc, TryWritePc, WriterPc,
        LoopPc, queueVars, bufferVars, threadVars, flusherVars, accountVars
  <2>12. ASSUME NEW p \in Threads, RequestFlush(p)
        PROVE  SwapInv'
    BY <2>12, <1>0 DEF RequestFlush, SwapInv, Parked, SerializationCompleted,
        Other, Buffers, TraceCount, PcInv, MonitorInv, Threads, SerializePc,
        CopyPc, TryWritePc, WriterPc, LoopPc, queueVars, bufferVars,
        threadVars, flusherVars, accountVars
  <2>13. ASSUME NEW p \in Threads, CompleteForceFlush(p)
        PROVE  SwapInv'
    BY <2>13, <1>0 DEF CompleteForceFlush, SwapInv, Parked,
        SerializationCompleted, Other, Buffers, TraceCount, PcInv,
        MonitorInv, Threads, SerializePc, CopyPc, TryWritePc, WriterPc,
        LoopPc, queueVars, bufferVars, threadVars, flusherVars, accountVars
  <2>14. ASSUME NEW p \in Threads, DropTrace(p)
        PROVE  SwapInv'
    BY <2>14, <1>0 DEF DropTrace, Return, SwapInv, Parked,
        SerializationCompleted, Other, Buffers, TraceCount, PcInv,
        MonitorInv, Threads, SerializePc, CopyPc, TryWritePc, WriterPc,
        LoopPc, queueVars, bufferVars, threadVars, flusherVars, accountVars
  <2>15. ASSUME DequeueTrace
        PROVE  SwapInv'
    BY <2>15, <1>0 DEF DequeueTrace, SwapInv, Parked, SerializationCompleted,
        Other, Buffers, TraceCount, PcInv, MonitorInv, Threads, SerializePc,
        CopyPc, TryWritePc, WriterPc, LoopPc, queueVars, bufferVars,
        threadVars, flusherVars, accountVars
  <2>16. ASSUME DequeueWatermark
        PROVE  SwapInv'
    BY <2>16, <1>0 DEF DequeueWatermark, SwapInv, Parked,
        SerializationCompleted, Other, Buffers, TraceCount, PcInv,
        MonitorInv, Threads, SerializePc, CopyPc, TryWritePc, WriterPc,
        LoopPc, queueVars, bufferVars, threadVars, flusherVars, accountVars
  <2>17. ASSUME QueueDrained
        PROVE  SwapInv'
    BY <2>17, <1>0 DEF QueueDrained, SwapInv, Parked, SerializationCompleted,
        Other, Buffers, TraceCount, PcInv, MonitorInv, Threads, SerializePc,
        CopyPc, TryWritePc, WriterPc, LoopPc, queueVars, bufferVars,
        threadVars, flusherVars, accountVars
  <2>18. ASSUME CheckProcessExit
        PROVE  SwapInv'
    BY <2>18, <1>0 DEF CheckProcessExit, SwapInv, Parked,
        SerializationCompleted, Other, Buffers, TraceCount, PcInv,
        MonitorInv, Threads, SerializePc, CopyPc, TryWritePc, WriterPc,
        LoopPc, queueVars, bufferVars, threadVars, flusherVars, accountVars
  <2>19. ASSUME Sleep
        PROVE  SwapInv'
    BY <2>19, <1>0 DEF Sleep, SwapInv, Parked, SerializationCompleted, Other,
        Buffers, TraceCount, PcInv, MonitorInv, Threads, SerializePc, CopyPc,
        TryWritePc, WriterPc, LoopPc, queueVars, bufferVars, threadVars,
        flusherVars, accountVars
  <2>20. ASSUME Wait
        PROVE  SwapInv'
    BY <2>20, <1>0 DEF Wait, SwapInv, Parked, SerializationCompleted, Other,
        Buffers, TraceCount, PcInv, MonitorInv, Threads, SerializePc, CopyPc,
        TryWritePc, WriterPc, LoopPc, queueVars, bufferVars, threadVars,
        flusherVars, accountVars
  <2>21. ASSUME Reset
        PROVE  SwapInv'
    BY <2>21, <1>0 DEF Reset, SwapInv, Parked, SerializationCompleted, Other,
        Buffers, TraceCount, PcInv, MonitorInv, Threads, SerializePc, CopyPc,
        TryWritePc, WriterPc, LoopPc, queueVars, bufferVars, threadVars,
        flusherVars, accountVars
  <2>22. ASSUME NEW f \in Flushers, FlushBuffers(f)
        PROVE  SwapInv'
    BY <2>22, <1>0 DEF FlushBuffers, Other, SwapInv, Parked,
        SerializationCompleted, Other, Buffers, TraceCount, PcInv,
        MonitorInv, Threads, SerializePc, CopyPc, TryWritePc, WriterPc,
        LoopPc, queueVars, bufferVars, threadVars, flusherVars, accountVars
  <2>23. ASSUME NEW f \in Flushers, CheckFallback(f)
        PROVE  SwapInv'
    BY <2>23, <1>0 DEF CheckFallback, SwapInv, Parked,
        SerializationCompleted, Other, Buffers, TraceCount, PcInv,
        MonitorInv, Threads, SerializePc, CopyPc, TryWritePc, WriterPc,
        LoopPc, queueVars, bufferVars, threadVars, flusherVars, accountVars
  <2>24. ASSUME NEW f \in Flushers, FlushBuffer(f)
        PROVE  SwapInv'
    BY <2>24, <1>0 DEF FlushBuffer, SwapInv, Parked, SerializationCompleted,
        Other, Buffers, TraceCount, PcInv, MonitorInv, Threads, SerializePc,
        CopyPc, TryWritePc, WriterPc, LoopPc, queueVars, bufferVars,
        threadVars, flusherVars, accountVars
  <2>25. ASSUME NEW f \in Flushers, LockBuffer(f)
        PROVE  SwapInv'
    BY <2>25, <1>0 DEF LockBuffer, Lock, TraceCount, SwapInv, Parked,
        SerializationCompleted, Other, Buffers, TraceCount, PcInv,
        MonitorInv, Threads, SerializePc, CopyPc, TryWritePc, WriterPc,
        LoopPc, queueVars, bufferVars, threadVars, flusherVars, accountVars
  <2>26. ASSUME NEW f \in Flushers, LockRefused(f)
        PROVE  SwapInv'
    BY <2>26, <1>0 DEF LockRefused, SwapInv, Parked, SerializationCompleted,
        Other, Buffers, TraceCount, PcInv, MonitorInv, Threads, SerializePc,
        CopyPc, TryWritePc, WriterPc, LoopPc, queueVars, bufferVars,
        threadVars, flusherVars, accountVars
  <2>27. ASSUME NEW f \in Flushers, SendTracesAsync(f)
        PROVE  SwapInv'
    BY <2>27, <1>0 DEF SendTracesAsync, SwapInv, Parked,
        SerializationCompleted, Other, Buffers, TraceCount, PcInv,
        MonitorInv, Threads, SerializePc, CopyPc, TryWritePc, WriterPc,
        LoopPc, queueVars, bufferVars, threadVars, flusherVars, accountVars
  <2>28. ASSUME NEW f \in Flushers, ClearBuffer(f)
        PROVE  SwapInv'
    BY <2>28, <1>0 DEF ClearBuffer, ClearContent, TraceCount, SwapInv,
        Parked, SerializationCompleted, Other, Buffers, TraceCount, PcInv,
        MonitorInv, Threads, SerializePc, CopyPc, TryWritePc, WriterPc,
        LoopPc, queueVars, bufferVars, threadVars, flusherVars, accountVars
  <2>29. ASSUME NEW f \in Flushers, UnlockBuffer(f)
        PROVE  SwapInv'
    BY <2>29, <1>0 DEF UnlockBuffer, Unlock, TraceCount, SwapInv, Parked,
        SerializationCompleted, Other, Buffers, TraceCount, PcInv,
        MonitorInv, Threads, SerializePc, CopyPc, TryWritePc, WriterPc,
        LoopPc, queueVars, bufferVars, threadVars, flusherVars, accountVars
  <2>30. ASSUME NEW f \in Flushers, AssignFlushTask(f)
        PROVE  SwapInv'
    BY <2>30, <1>0 DEF AssignFlushTask, SwapInv, Parked,
        SerializationCompleted, Other, Buffers, TraceCount, PcInv,
        MonitorInv, Threads, SerializePc, CopyPc, TryWritePc, WriterPc,
        LoopPc, queueVars, bufferVars, threadVars, flusherVars, accountVars
  <2>31. ASSUME NEW f \in Flushers, AwaitFlushTask(f)
        PROVE  SwapInv'
    BY <2>31, <1>0 DEF AwaitFlushTask, SwapInv, Parked,
        SerializationCompleted, Other, Buffers, TraceCount, PcInv,
        MonitorInv, Threads, SerializePc, CopyPc, TryWritePc, WriterPc,
        LoopPc, queueVars, bufferVars, threadVars, flusherVars, accountVars
  <2>32. ASSUME ReplaceForceFlush
        PROVE  SwapInv'
    BY <2>32, <1>0 DEF ReplaceForceFlush, SwapInv, Parked,
        SerializationCompleted, Other, Buffers, TraceCount, PcInv,
        MonitorInv, Threads, SerializePc, CopyPc, TryWritePc, WriterPc,
        LoopPc, queueVars, bufferVars, threadVars, flusherVars, accountVars
  <2>33. ASSUME CheckSerializationTask
        PROVE  SwapInv'
    BY <2>33, <1>0 DEF CheckSerializationTask, SerializationCompleted,
        SwapInv, Parked, SerializationCompleted, Other, Buffers, TraceCount,
        PcInv, MonitorInv, Threads, SerializePc, CopyPc, TryWritePc,
        WriterPc, LoopPc, queueVars, bufferVars, threadVars, flusherVars,
        accountVars
  <2>34. ASSUME NEW f \in FlushCallers, FlushTracesAsync(f)
        PROVE  SwapInv'
    BY <2>34, <1>0 DEF FlushTracesAsync, SerializationCompleted,
        WrittenTraces, SwapInv, Parked, SerializationCompleted, Other,
        Buffers, TraceCount, PcInv, MonitorInv, Threads, SerializePc, CopyPc,
        TryWritePc, WriterPc, LoopPc, queueVars, bufferVars, threadVars,
        flusherVars, accountVars
  <2>35. ASSUME NEW f \in FlushCallers, WriteWatermark(f)
        PROVE  SwapInv'
    BY <2>35, <1>0 DEF WriteWatermark, SwapInv, Parked,
        SerializationCompleted, Other, Buffers, TraceCount, PcInv,
        MonitorInv, Threads, SerializePc, CopyPc, TryWritePc, WriterPc,
        LoopPc, queueVars, bufferVars, threadVars, flusherVars, accountVars
  <2>36. ASSUME NEW f \in FlushCallers, WakeUpThread(f)
        PROVE  SwapInv'
    BY <2>36, <1>0 DEF WakeUpThread, SwapInv, Parked, SerializationCompleted,
        Other, Buffers, TraceCount, PcInv, MonitorInv, Threads, SerializePc,
        CopyPc, TryWritePc, WriterPc, LoopPc, queueVars, bufferVars,
        threadVars, flusherVars, accountVars
  <2>37. ASSUME NEW f \in FlushCallers, AwaitWatermark(f)
        PROVE  SwapInv'
    BY <2>37, <1>0 DEF AwaitWatermark, SwapInv, Parked,
        SerializationCompleted, Other, Buffers, TraceCount, PcInv,
        MonitorInv, Threads, SerializePc, CopyPc, TryWritePc, WriterPc,
        LoopPc, queueVars, bufferVars, threadVars, flusherVars, accountVars
  <2>38. ASSUME NEW c \in Closers, FlushAndCloseAsync(c)
        PROVE  SwapInv'
    BY <2>38, <1>0 DEF FlushAndCloseAsync, WrittenTraces, SwapInv, Parked,
        SerializationCompleted, Other, Buffers, TraceCount, PcInv,
        MonitorInv, Threads, SerializePc, CopyPc, TryWritePc, WriterPc,
        LoopPc, queueVars, bufferVars, threadVars, flusherVars, accountVars
  <2>39. ASSUME NEW c \in Closers, SetForExit(c)
        PROVE  SwapInv'
    BY <2>39, <1>0 DEF SetForExit, SwapInv, Parked, SerializationCompleted,
        Other, Buffers, TraceCount, PcInv, MonitorInv, Threads, SerializePc,
        CopyPc, TryWritePc, WriterPc, LoopPc, queueVars, bufferVars,
        threadVars, flusherVars, accountVars
  <2>40. ASSUME NEW c \in Closers, AwaitSerialization(c)
        PROVE  SwapInv'
    BY <2>40, <1>0 DEF AwaitSerialization, SerializationCompleted, SwapInv,
        Parked, SerializationCompleted, Other, Buffers, TraceCount, PcInv,
        MonitorInv, Threads, SerializePc, CopyPc, TryWritePc, WriterPc,
        LoopPc, queueVars, bufferVars, threadVars, flusherVars, accountVars
  <2>41. ASSUME NEW c \in Closers, SerializationTimeout(c)
        PROVE  SwapInv'
    BY <2>41, <1>0 DEF SerializationTimeout, SwapInv, Parked,
        SerializationCompleted, Other, Buffers, TraceCount, PcInv,
        MonitorInv, Threads, SerializePc, CopyPc, TryWritePc, WriterPc,
        LoopPc, queueVars, bufferVars, threadVars, flusherVars, accountVars
  <2>42. ASSUME NEW c \in Closers, CheckLeftover(c)
        PROVE  SwapInv'
    BY <2>42, <1>0 DEF CheckLeftover, SwapInv, Parked,
        SerializationCompleted, Other, Buffers, TraceCount, PcInv,
        MonitorInv, Threads, SerializePc, CopyPc, TryWritePc, WriterPc,
        LoopPc, queueVars, bufferVars, threadVars, flusherVars, accountVars
  <2>43. ASSUME NEW c \in Closers, LeftoverTimeout(c)
        PROVE  SwapInv'
    BY <2>43, <1>0 DEF LeftoverTimeout, SwapInv, Parked,
        SerializationCompleted, Other, Buffers, TraceCount, PcInv,
        MonitorInv, Threads, SerializePc, CopyPc, TryWritePc, WriterPc,
        LoopPc, queueVars, bufferVars, threadVars, flusherVars, accountVars
  <2>44. ASSUME NEW c \in Closers, LeftoverFlushed(c)
        PROVE  SwapInv'
    BY <2>44, <1>0 DEF LeftoverFlushed, SwapInv, Parked,
        SerializationCompleted, Other, Buffers, TraceCount, PcInv,
        MonitorInv, Threads, SerializePc, CopyPc, TryWritePc, WriterPc,
        LoopPc, queueVars, bufferVars, threadVars, flusherVars, accountVars
  <2> QED
      BY <1>1, <2>1, <2>2, <2>3, <2>4, <2>5, <2>6, <2>7, <2>8, <2>9, <2>10,
          <2>11, <2>12, <2>13, <2>14, <2>15, <2>16, <2>17, <2>18, <2>19,
          <2>20, <2>21, <2>22, <2>23, <2>24, <2>25, <2>26, <2>27, <2>28,
          <2>29, <2>30, <2>31, <2>32, <2>33, <2>34, <2>35, <2>36, <2>37,
          <2>38, <2>39, <2>40, <2>41, <2>42, <2>43, <2>44
      DEF Next, SerializeTrace, SerializeTracesLoop, Flush, FlushTraces,
          FlushAndClose
<1>2. CASE UNCHANGED vars
    BY <1>2, <1>0 DEF vars, SwapInv, Parked, SerializationCompleted, Other,
        Buffers, TraceCount, PcInv, MonitorInv, Threads, SerializePc, CopyPc,
        TryWritePc, WriterPc, LoopPc, queueVars, bufferVars, threadVars,
        flusherVars, accountVars
<1> QED BY <1>1, <1>2

\* New buffers are empty, so nothing waits in the one that is not active.
LEMMA SwapInvInit == Init => SwapInv
  BY DEF Init, SwapInv, Parked, NewSpanBuffer, TraceCount, Threads, Buffers,
         Other, SerializePc, SerializationCompleted

\* At any time the serialization thread has left a buffer only for a reason.
LEMMA SwapInvariance == Spec => []SwapInv
  BY SwapInvInit, SwapInvNext, TypeInvariance, LockInvariance, PTL DEF Spec

\* The periodic flush, which skips a fallback buffer that is not full, leaves
\* no trace behind: for any sizes and any limit of the buffers.
THEOREM NoStrandedTracesCorrect == Spec => []NoStrandedTraces
<1>1. SwapInv => NoStrandedTraces
    BY DEF SwapInv, Parked, NoStrandedTraces
<1> QED BY <1>1, SwapInvariance, PTL

-----------------------------------------------------------------------------
(***************************************************************************)
(* Eager flush.  A signal to a _forceFlush that was replaced in between    *)
(* has no effect, but whoever replaced it reads _activeBuffer afterwards.  *)
(***************************************************************************)

EagerInv ==
    LET b == Other(activeBuffer)
    IN  /\ ~SerializationCompleted
        /\ buffer[b].isFull /\ ~buffer[b].locked
        /\ pc[Serializer] # "request"
        /\ ~(pc[Serializer] = "signal" /\ Serializer \in requesters)
        => LoopWillFlush(b)

\* EagerInv is preserved by every step.
LEMMA EagerInvNext == TypeInv /\ LockInv /\ SwapInv /\ EagerInv /\ [Next]_vars => EagerInv'
<1> SUFFICES ASSUME TypeInv /\ LockInv /\ SwapInv /\ EagerInv, [Next]_vars PROVE EagerInv'
    OBVIOUS
<1>0. /\ pc \in [Threads -> ThreadPc]
      /\ activeBuffer \in Buffers
      /\ buffer \in [Buffers -> SpanBuffers]
      /\ plan \in [Flushers -> Seq(Buffers)]
      /\ fpc \in [Flushers -> FlusherPc]
      /\ forceFlush \in BOOLEAN
      /\ PcInv /\ PlanInv /\ MonitorInv
    BY DEF TypeInv, TypeOK, LockInv
<1>1. CASE Next
  <2>1. ASSUME NEW t \in Traces, WriteTrace(t)
        PROVE  EagerInv'
    BY <2>1, <1>0 DEF WriteTrace, SerializationCompleted, EagerInv,
        LoopWillFlush, SwapInv, SerializationCompleted, Other, Buffers,
        PcInv, PlanInv, MonitorInv, Threads, Flushers, SerializePc, CopyPc,
        TryWritePc, WriterPc, LoopPc, FlushingPc, queueVars, bufferVars,
        threadVars, flusherVars, accountVars
  <2>2. ASSUME NEW t \in Traces, Enqueue(t)
        PROVE  EagerInv'
    BY <2>2, <1>0 DEF Enqueue, EagerInv, LoopWillFlush, SwapInv,
        SerializationCompleted, Other, Buffers, PcInv, PlanInv, MonitorInv,
        Threads, Flushers, SerializePc, CopyPc, TryWritePc, WriterPc, LoopPc,
        FlushingPc, queueVars, bufferVars, threadVars, flusherVars,
        accountVars
  <2>3. ASSUME NEW t \in Traces, IsSet(t)
        PROVE  EagerInv'
    BY <2>3, <1>0 DEF IsSet, EagerInv, LoopWillFlush, SwapInv,
        SerializationCompleted, Other, Buffers, PcInv, PlanInv, MonitorInv,
        Threads, Flushers, SerializePc, CopyPc, TryWritePc, WriterPc, LoopPc,
        FlushingPc, queueVars, bufferVars, threadVars, flusherVars,
        accountVars
  <2>4. ASSUME NEW t \in Traces, Set(t)
        PROVE  EagerInv'
    BY <2>4, <1>0 DEF Set, EagerInv, LoopWillFlush, SwapInv,
        SerializationCompleted, Other, Buffers, PcInv, PlanInv, MonitorInv,
        Threads, Flushers, SerializePc, CopyPc, TryWritePc, WriterPc, LoopPc,
        FlushingPc, queueVars, bufferVars, threadVars, flusherVars,
        accountVars
  <2>5. ASSUME NEW p \in Threads, ReadActiveBuffer(p)
        PROVE  EagerInv'
    BY <2>5, <1>0 DEF ReadActiveBuffer, EagerInv, LoopWillFlush, SwapInv,
        SerializationCompleted, Other, Buffers, PcInv, PlanInv, MonitorInv,
        Threads, Flushers, SerializePc, CopyPc, TryWritePc, WriterPc, LoopPc,
        FlushingPc, queueVars, bufferVars, threadVars, flusherVars,
        accountVars
  <2>6. ASSUME NEW p \in Threads, TryWriteRefused(p)
        PROVE  EagerInv'
    BY <2>6, <1>0 DEF TryWriteRefused, Refused, EagerInv, LoopWillFlush,
        SwapInv, SerializationCompleted, Other, Buffers, PcInv, PlanInv,
        MonitorInv, Threads, Flushers, SerializePc, CopyPc, TryWritePc,
        WriterPc, LoopPc, FlushingPc, queueVars, bufferVars, threadVars,
        flusherVars, accountVars
  <2>7. ASSUME NEW p \in Threads, TryWriteSerialize(p)
        PROVE  EagerInv'
    BY <2>7, <1>0 DEF TryWriteSerialize, TryWriteEnters, TraceOf, EagerInv,
        LoopWillFlush, SwapInv, SerializationCompleted, Other, Buffers,
        PcInv, PlanInv, MonitorInv, Threads, Flushers, SerializePc, CopyPc,
        TryWritePc, WriterPc, LoopPc, FlushingPc, queueVars, bufferVars,
        threadVars, flusherVars, accountVars
  <2>8. ASSUME NEW p \in Threads, TryWriteThrow(p)
        PROVE  EagerInv'
    BY <2>8, <1>0 DEF TryWriteThrow, TryWriteEnters, TraceOf, Throw,
        EagerInv, LoopWillFlush, SwapInv, SerializationCompleted, Other,
        Buffers, PcInv, PlanInv, MonitorInv, Threads, Flushers, SerializePc,
        CopyPc, TryWritePc, WriterPc, LoopPc, FlushingPc, queueVars,
        bufferVars, threadVars, flusherVars, accountVars
  <2>9. ASSUME NEW p \in Threads, TryWriteCopy(p)
        PROVE  EagerInv'
    BY <2>9, <1>0 DEF TryWriteCopy, TraceOf, Return, Refused, Append1,
        MarkFull, EagerInv, LoopWillFlush, SwapInv, SerializationCompleted,
        Other, Buffers, PcInv, PlanInv, MonitorInv, Threads, Flushers,
        SerializePc, CopyPc, TryWritePc, WriterPc, LoopPc, FlushingPc,
        queueVars, bufferVars, threadVars, flusherVars, accountVars
  <2>10. ASSUME NEW p \in Threads, SwapBuffers(p)
        PROVE  EagerInv'
    BY <2>10, <1>0 DEF SwapBuffers, Other, EagerInv, LoopWillFlush, SwapInv,
        SerializationCompleted, Other, Buffers, PcInv, PlanInv, MonitorInv,
        Threads, Flushers, SerializePc, CopyPc, TryWritePc, WriterPc, LoopPc,
        FlushingPc, queueVars, bufferVars, threadVars, flusherVars,
        accountVars
  <2>11. ASSUME NEW p \in Threads, SwapBuffersWrite(p)
        PROVE  EagerInv'
    BY <2>11, <1>0 DEF SwapBuffersWrite, EagerInv, LoopWillFlush, SwapInv,
        SerializationCompleted, Other, Buffers, PcInv, PlanInv, MonitorInv,
        Threads, Flushers, SerializePc, CopyPc, TryWritePc, WriterPc, LoopPc,
        FlushingPc, queueVars, bufferVars, threadVars, flusherVars,
        accountVars
  <2>12. ASSUME NEW p \in Threads, RequestFlush(p)
        PROVE  EagerInv'
    BY <2>12, <1>0 DEF RequestFlush, EagerInv, LoopWillFlush, SwapInv,
        SerializationCompleted, Other, Buffers, PcInv, PlanInv, MonitorInv,
        Threads, Flushers, SerializePc, CopyPc, TryWritePc, WriterPc, LoopPc,
        FlushingPc, queueVars, bufferVars, threadVars, flusherVars,
        accountVars
  <2>13. ASSUME NEW p \in Threads, CompleteForceFlush(p)
        PROVE  EagerInv'
    <3>1. CASE p # Serializer
        BY <2>13, <3>1, <1>0 DEF CompleteForceFlush, EagerInv, SwapInv,
               SerializationCompleted, SerializePc, Threads
    <3>2. CASE p = Serializer /\ Serializer \in requesters
        BY <2>13, <3>2 DEF CompleteForceFlush, EagerInv, LoopWillFlush
    <3>3. CASE p = Serializer /\ Serializer \notin requesters
      <4>1. forceFlush' = forceFlush /\ pc[Serializer] = "signal"
          BY <2>13, <3>3, <1>0 DEF CompleteForceFlush
      <4>2. LoopWillFlush(Other(activeBuffer)) => LoopWillFlush(Other(activeBuffer))'
          BY <2>13, <4>1 DEF CompleteForceFlush, LoopWillFlush, Other,
                 flusherVars
      <4> QED BY <2>13, <3>3, <4>1, <4>2 DEF CompleteForceFlush, EagerInv,
                 SerializationCompleted, bufferVars, Other
    <3> QED BY <3>1, <3>2, <3>3
  <2>14. ASSUME NEW p \in Threads, DropTrace(p)
        PROVE  EagerInv'
    BY <2>14, <1>0 DEF DropTrace, Return, EagerInv, LoopWillFlush, SwapInv,
        SerializationCompleted, Other, Buffers, PcInv, PlanInv, MonitorInv,
        Threads, Flushers, SerializePc, CopyPc, TryWritePc, WriterPc, LoopPc,
        FlushingPc, queueVars, bufferVars, threadVars, flusherVars,
        accountVars
  <2>15. ASSUME DequeueTrace
        PROVE  EagerInv'
    BY <2>15, <1>0 DEF DequeueTrace, EagerInv, LoopWillFlush, SwapInv,
        SerializationCompleted, Other, Buffers, PcInv, PlanInv, MonitorInv,
        Threads, Flushers, SerializePc, CopyPc, TryWritePc, WriterPc, LoopPc,
        FlushingPc, queueVars, bufferVars, threadVars, flusherVars,
        accountVars
  <2>16. ASSUME DequeueWatermark
        PROVE  EagerInv'
    BY <2>16, <1>0 DEF DequeueWatermark, EagerInv, LoopWillFlush, SwapInv,
        SerializationCompleted, Other, Buffers, PcInv, PlanInv, MonitorInv,
        Threads, Flushers, SerializePc, CopyPc, TryWritePc, WriterPc, LoopPc,
        FlushingPc, queueVars, bufferVars, threadVars, flusherVars,
        accountVars
  <2>17. ASSUME QueueDrained
        PROVE  EagerInv'
    BY <2>17, <1>0 DEF QueueDrained, EagerInv, LoopWillFlush, SwapInv,
        SerializationCompleted, Other, Buffers, PcInv, PlanInv, MonitorInv,
        Threads, Flushers, SerializePc, CopyPc, TryWritePc, WriterPc, LoopPc,
        FlushingPc, queueVars, bufferVars, threadVars, flusherVars,
        accountVars
  <2>18. ASSUME CheckProcessExit
        PROVE  EagerInv'
    BY <2>18, <1>0 DEF CheckProcessExit, EagerInv, LoopWillFlush, SwapInv,
        SerializationCompleted, Other, Buffers, PcInv, PlanInv, MonitorInv,
        Threads, Flushers, SerializePc, CopyPc, TryWritePc, WriterPc, LoopPc,
        FlushingPc, queueVars, bufferVars, threadVars, flusherVars,
        accountVars
  <2>19. ASSUME Sleep
        PROVE  EagerInv'
    BY <2>19, <1>0 DEF Sleep, EagerInv, LoopWillFlush, SwapInv,
        SerializationCompleted, Other, Buffers, PcInv, PlanInv, MonitorInv,
        Threads, Flushers, SerializePc, CopyPc, TryWritePc, WriterPc, LoopPc,
        FlushingPc, queueVars, bufferVars, threadVars, flusherVars,
        accountVars
  <2>20. ASSUME Wait
        PROVE  EagerInv'
    BY <2>20, <1>0 DEF Wait, EagerInv, LoopWillFlush, SwapInv,
        SerializationCompleted, Other, Buffers, PcInv, PlanInv, MonitorInv,
        Threads, Flushers, SerializePc, CopyPc, TryWritePc, WriterPc, LoopPc,
        FlushingPc, queueVars, bufferVars, threadVars, flusherVars,
        accountVars
  <2>21. ASSUME Reset
        PROVE  EagerInv'
    BY <2>21, <1>0 DEF Reset, EagerInv, LoopWillFlush, SwapInv,
        SerializationCompleted, Other, Buffers, PcInv, PlanInv, MonitorInv,
        Threads, Flushers, SerializePc, CopyPc, TryWritePc, WriterPc, LoopPc,
        FlushingPc, queueVars, bufferVars, threadVars, flusherVars,
        accountVars
  <2>22. ASSUME NEW f \in Flushers, FlushBuffers(f)
        PROVE  EagerInv'
    BY <2>22, <1>0 DEF FlushBuffers, Other, EagerInv, LoopWillFlush, SwapInv,
        SerializationCompleted, Other, Buffers, PcInv, PlanInv, MonitorInv,
        Threads, Flushers, SerializePc, CopyPc, TryWritePc, WriterPc, LoopPc,
        FlushingPc, queueVars, bufferVars, threadVars, flusherVars,
        accountVars
  <2>23. ASSUME NEW f \in Flushers, CheckFallback(f)
        PROVE  EagerInv'
    <3> DEFINE b == Other(activeBuffer)
    <3> SUFFICES ASSUME ~SerializationCompleted,
                        buffer[b].isFull, ~buffer[b].locked,
                        pc[Serializer] # "request",
                        ~(pc[Serializer] = "signal" /\ Serializer \in requesters)
                 PROVE  LoopWillFlush(b)'
        BY <2>23 DEF CheckFallback, EagerInv, SerializationCompleted, Other, queueVars, bufferVars, threadVars,
               flusherVars, accountVars
    <3>1. LoopWillFlush(b)
        BY DEF EagerInv
    <3>2. CASE f # FlushLoop
        BY <2>23, <3>1, <3>2, <1>0 DEF CheckFallback, LoopWillFlush, Other, Flushers,
               queueVars, bufferVars, threadVars,
               flusherVars, accountVars
    <3>3. CASE f = FlushLoop
      <4> DEFINE s == plan[FlushLoop]
      <4> HIDE DEF b
      <4>1. CASE forceFlush
          BY <2>23, <4>1 DEF CheckFallback, LoopWillFlush
      <4>2. CASE ~forceFlush
        <5>1. fpc[FlushLoop] = "fallback"
            BY <2>23, <3>3 DEF CheckFallback
        <5>2. PICK i \in 1 .. Len(s) : s[i] = b
            BY <3>1, <4>2, <5>1 DEF LoopWillFlush
        <5>3. s \in Seq(Buffers) /\ Len(s) = 2
            BY <1>0, <5>1 DEF Flushers, PlanInv
        <5>4. /\ fpc'[FlushLoop] = "flushBuffer"
              /\ plan'[FlushLoop] =
                   IF buffer[Head(s)].isFull \/ flushAllBuffers(FlushLoop)
                   THEN s ELSE Tail(s)
            BY <2>23, <3>3, <1>0 DEF CheckFallback, Flushers
        <5>7. \E j \in 1 .. Len(plan'[FlushLoop]) : plan'[FlushLoop][j] = b
          <6>1. CASE plan'[FlushLoop] = s
              BY <5>2, <6>1
          <6>2. CASE plan'[FlushLoop] # s
            <7>1. plan'[FlushLoop] = Tail(s) /\ ~buffer[Head(s)].isFull
                BY <5>4, <6>2
            <7>2. Head(s) = s[1] /\ Tail(s)[1] = s[2] /\ Len(Tail(s)) = 1
                BY <5>3
            <7>3. s[2] = b
                BY <5>2, <5>3, <7>1, <7>2
            <7>4. 1 \in 1 .. Len(plan'[FlushLoop]) /\ plan'[FlushLoop][1] = b
                BY <7>1, <7>2, <7>3
            <7> QED BY <7>4
          <6> QED BY <6>1, <6>2
        <5>8. b' = b
            BY <2>23 DEF CheckFallback, b, Other
        <5> QED BY <5>4, <5>7, <5>8 DEF LoopWillFlush
      <4> QED BY <4>1, <4>2
    <3> QED BY <3>2, <3>3
  <2>24. ASSUME NEW f \in Flushers, FlushBuffer(f)
        PROVE  EagerInv'
    BY <2>24, <1>0 DEF FlushBuffer, EagerInv, LoopWillFlush, SwapInv,
        SerializationCompleted, Other, Buffers, PcInv, PlanInv, MonitorInv,
        Threads, Flushers, SerializePc, CopyPc, TryWritePc, WriterPc, LoopPc,
        FlushingPc, queueVars, bufferVars, threadVars, flusherVars,
        accountVars
  <2>25. ASSUME NEW f \in Flushers, LockBuffer(f)
        PROVE  EagerInv'
    BY <2>25, <1>0 DEF LockBuffer, Lock, TraceCount, EagerInv, LoopWillFlush,
        SwapInv, SerializationCompleted, Other, Buffers, PcInv, PlanInv,
        MonitorInv, Threads, Flushers, SerializePc, CopyPc, TryWritePc,
        WriterPc, LoopPc, FlushingPc, queueVars, bufferVars, threadVars,
        flusherVars, accountVars
  <2>26. ASSUME NEW f \in Flushers, LockRefused(f)
        PROVE  EagerInv'
    BY <2>26, <1>0 DEF LockRefused, EagerInv, LoopWillFlush, SwapInv,
        SerializationCompleted, Other, Buffers, PcInv, PlanInv, MonitorInv,
        Threads, Flushers, SerializePc, CopyPc, TryWritePc, WriterPc, LoopPc,
        FlushingPc, queueVars, bufferVars, threadVars, flusherVars,
        accountVars
  <2>27. ASSUME NEW f \in Flushers, SendTracesAsync(f)
        PROVE  EagerInv'
    BY <2>27, <1>0 DEF SendTracesAsync, EagerInv, LoopWillFlush, SwapInv,
        SerializationCompleted, Other, Buffers, PcInv, PlanInv, MonitorInv,
        Threads, Flushers, SerializePc, CopyPc, TryWritePc, WriterPc, LoopPc,
        FlushingPc, queueVars, bufferVars, threadVars, flusherVars,
        accountVars
  <2>28. ASSUME NEW f \in Flushers, ClearBuffer(f)
        PROVE  EagerInv'
    BY <2>28, <1>0 DEF ClearBuffer, ClearContent, TraceCount, EagerInv,
        LoopWillFlush, SwapInv, SerializationCompleted, Other, Buffers,
        PcInv, PlanInv, MonitorInv, Threads, Flushers, SerializePc, CopyPc,
        TryWritePc, WriterPc, LoopPc, FlushingPc, queueVars, bufferVars,
        threadVars, flusherVars, accountVars
  <2>29. ASSUME NEW f \in Flushers, UnlockBuffer(f)
        PROVE  EagerInv'
    BY <2>29, <1>0 DEF UnlockBuffer, Unlock, TraceCount, EagerInv,
        LoopWillFlush, SwapInv, SerializationCompleted, Other, Buffers,
        PcInv, PlanInv, MonitorInv, Threads, Flushers, SerializePc, CopyPc,
        TryWritePc, WriterPc, LoopPc, FlushingPc, queueVars, bufferVars,
        threadVars, flusherVars, accountVars
  <2>30. ASSUME NEW f \in Flushers, AssignFlushTask(f)
        PROVE  EagerInv'
    BY <2>30, <1>0 DEF AssignFlushTask, EagerInv, LoopWillFlush, SwapInv,
        SerializationCompleted, Other, Buffers, PcInv, PlanInv, MonitorInv,
        Threads, Flushers, SerializePc, CopyPc, TryWritePc, WriterPc, LoopPc,
        FlushingPc, queueVars, bufferVars, threadVars, flusherVars,
        accountVars
  <2>31. ASSUME NEW f \in Flushers, AwaitFlushTask(f)
        PROVE  EagerInv'
    <3> DEFINE b == Other(activeBuffer)
    <3> SUFFICES ASSUME ~SerializationCompleted,
                        buffer[b].isFull, ~buffer[b].locked,
                        pc[Serializer] # "request",
                        ~(pc[Serializer] = "signal" /\ Serializer \in requesters)
                 PROVE  LoopWillFlush(b)'
        BY <2>31 DEF AwaitFlushTask, EagerInv, SerializationCompleted, Other, queueVars, bufferVars, threadVars,
               flusherVars, accountVars
    <3>1. LoopWillFlush(b)
        BY DEF EagerInv
    <3>2. CASE f # FlushLoop
        BY <2>31, <3>1, <3>2, <1>0 DEF AwaitFlushTask, LoopWillFlush, Other, Flushers,
               queueVars, bufferVars, threadVars,
               flusherVars, accountVars
    <3>3. CASE f = FlushLoop
      <4> DEFINE s == plan[FlushLoop]
      <4> HIDE DEF b
      <4>1. CASE forceFlush
          BY <2>31, <4>1 DEF AwaitFlushTask, LoopWillFlush
      <4>2. CASE ~forceFlush
        <5>1. fpc[FlushLoop] = "await"
            BY <2>31, <3>3 DEF AwaitFlushTask
        <5>2. PICK i \in 2 .. Len(s) : s[i] = b
            BY <3>1, <4>2, <5>1 DEF LoopWillFlush
        <5>3. s \in Seq(Buffers)
            BY <1>0 DEF Flushers
        <5>4. /\ i - 1 \in 1 .. Len(Tail(s))
              /\ Tail(s)[i - 1] = b
            BY <5>2, <5>3
        <5>5. fpc'[FlushLoop] = "flushBuffer" /\ plan'[FlushLoop] = Tail(s)
            BY <2>31, <3>3, <1>0, <5>2, <5>3 DEF AwaitFlushTask, Flushers
        <5>6. \E j \in 1 .. Len(plan'[FlushLoop]) : plan'[FlushLoop][j] = b
            BY <5>4, <5>5
        <5>7. b' = b
            BY <2>31 DEF AwaitFlushTask, b, Other
        <5> QED BY <5>5, <5>6, <5>7 DEF LoopWillFlush
      <4> QED BY <4>1, <4>2
    <3> QED BY <3>2, <3>3
  <2>32. ASSUME ReplaceForceFlush
        PROVE  EagerInv'
    BY <2>32, <1>0 DEF ReplaceForceFlush, EagerInv, LoopWillFlush, SwapInv,
        SerializationCompleted, Other, Buffers, PcInv, PlanInv, MonitorInv,
        Threads, Flushers, SerializePc, CopyPc, TryWritePc, WriterPc, LoopPc,
        FlushingPc, queueVars, bufferVars, threadVars, flusherVars,
        accountVars
  <2>33. ASSUME CheckSerializationTask
        PROVE  EagerInv'
    BY <2>33, <1>0 DEF CheckSerializationTask, SerializationCompleted,
        EagerInv, LoopWillFlush, SwapInv, SerializationCompleted, Other,
        Buffers, PcInv, PlanInv, MonitorInv, Threads, Flushers, SerializePc,
        CopyPc, TryWritePc, WriterPc, LoopPc, FlushingPc, queueVars,
        bufferVars, threadVars, flusherVars, accountVars
  <2>34. ASSUME NEW f \in FlushCallers, FlushTracesAsync(f)
        PROVE  EagerInv'
    BY <2>34, <1>0 DEF FlushTracesAsync, SerializationCompleted,
        WrittenTraces, EagerInv, LoopWillFlush, SwapInv,
        SerializationCompleted, Other, Buffers, PcInv, PlanInv, MonitorInv,
        Threads, Flushers, SerializePc, CopyPc, TryWritePc, WriterPc, LoopPc,
        FlushingPc, queueVars, bufferVars, threadVars, flusherVars,
        accountVars
  <2>35. ASSUME NEW f \in FlushCallers, WriteWatermark(f)
        PROVE  EagerInv'
    BY <2>35, <1>0 DEF WriteWatermark, EagerInv, LoopWillFlush, SwapInv,
        SerializationCompleted, Other, Buffers, PcInv, PlanInv, MonitorInv,
        Threads, Flushers, SerializePc, CopyPc, TryWritePc, WriterPc, LoopPc,
        FlushingPc, queueVars, bufferVars, threadVars, flusherVars,
        accountVars
  <2>36. ASSUME NEW f \in FlushCallers, WakeUpThread(f)
        PROVE  EagerInv'
    BY <2>36, <1>0 DEF WakeUpThread, EagerInv, LoopWillFlush, SwapInv,
        SerializationCompleted, Other, Buffers, PcInv, PlanInv, MonitorInv,
        Threads, Flushers, SerializePc, CopyPc, TryWritePc, WriterPc, LoopPc,
        FlushingPc, queueVars, bufferVars, threadVars, flusherVars,
        accountVars
  <2>37. ASSUME NEW f \in FlushCallers, AwaitWatermark(f)
        PROVE  EagerInv'
    BY <2>37, <1>0 DEF AwaitWatermark, EagerInv, LoopWillFlush, SwapInv,
        SerializationCompleted, Other, Buffers, PcInv, PlanInv, MonitorInv,
        Threads, Flushers, SerializePc, CopyPc, TryWritePc, WriterPc, LoopPc,
        FlushingPc, queueVars, bufferVars, threadVars, flusherVars,
        accountVars
  <2>38. ASSUME NEW c \in Closers, FlushAndCloseAsync(c)
        PROVE  EagerInv'
    BY <2>38, <1>0 DEF FlushAndCloseAsync, WrittenTraces, EagerInv,
        LoopWillFlush, SwapInv, SerializationCompleted, Other, Buffers,
        PcInv, PlanInv, MonitorInv, Threads, Flushers, SerializePc, CopyPc,
        TryWritePc, WriterPc, LoopPc, FlushingPc, queueVars, bufferVars,
        threadVars, flusherVars, accountVars
  <2>39. ASSUME NEW c \in Closers, SetForExit(c)
        PROVE  EagerInv'
    BY <2>39, <1>0 DEF SetForExit, EagerInv, LoopWillFlush, SwapInv,
        SerializationCompleted, Other, Buffers, PcInv, PlanInv, MonitorInv,
        Threads, Flushers, SerializePc, CopyPc, TryWritePc, WriterPc, LoopPc,
        FlushingPc, queueVars, bufferVars, threadVars, flusherVars,
        accountVars
  <2>40. ASSUME NEW c \in Closers, AwaitSerialization(c)
        PROVE  EagerInv'
    BY <2>40, <1>0 DEF AwaitSerialization, SerializationCompleted, EagerInv,
        LoopWillFlush, SwapInv, SerializationCompleted, Other, Buffers,
        PcInv, PlanInv, MonitorInv, Threads, Flushers, SerializePc, CopyPc,
        TryWritePc, WriterPc, LoopPc, FlushingPc, queueVars, bufferVars,
        threadVars, flusherVars, accountVars
  <2>41. ASSUME NEW c \in Closers, SerializationTimeout(c)
        PROVE  EagerInv'
    BY <2>41, <1>0 DEF SerializationTimeout, EagerInv, LoopWillFlush,
        SwapInv, SerializationCompleted, Other, Buffers, PcInv, PlanInv,
        MonitorInv, Threads, Flushers, SerializePc, CopyPc, TryWritePc,
        WriterPc, LoopPc, FlushingPc, queueVars, bufferVars, threadVars,
        flusherVars, accountVars
  <2>42. ASSUME NEW c \in Closers, CheckLeftover(c)
        PROVE  EagerInv'
    BY <2>42, <1>0 DEF CheckLeftover, EagerInv, LoopWillFlush, SwapInv,
        SerializationCompleted, Other, Buffers, PcInv, PlanInv, MonitorInv,
        Threads, Flushers, SerializePc, CopyPc, TryWritePc, WriterPc, LoopPc,
        FlushingPc, queueVars, bufferVars, threadVars, flusherVars,
        accountVars
  <2>43. ASSUME NEW c \in Closers, LeftoverTimeout(c)
        PROVE  EagerInv'
    BY <2>43, <1>0 DEF LeftoverTimeout, EagerInv, LoopWillFlush, SwapInv,
        SerializationCompleted, Other, Buffers, PcInv, PlanInv, MonitorInv,
        Threads, Flushers, SerializePc, CopyPc, TryWritePc, WriterPc, LoopPc,
        FlushingPc, queueVars, bufferVars, threadVars, flusherVars,
        accountVars
  <2>44. ASSUME NEW c \in Closers, LeftoverFlushed(c)
        PROVE  EagerInv'
    BY <2>44, <1>0 DEF LeftoverFlushed, EagerInv, LoopWillFlush, SwapInv,
        SerializationCompleted, Other, Buffers, PcInv, PlanInv, MonitorInv,
        Threads, Flushers, SerializePc, CopyPc, TryWritePc, WriterPc, LoopPc,
        FlushingPc, queueVars, bufferVars, threadVars, flusherVars,
        accountVars
  <2> QED
      BY <1>1, <2>1, <2>2, <2>3, <2>4, <2>5, <2>6, <2>7, <2>8, <2>9, <2>10,
          <2>11, <2>12, <2>13, <2>14, <2>15, <2>16, <2>17, <2>18, <2>19,
          <2>20, <2>21, <2>22, <2>23, <2>24, <2>25, <2>26, <2>27, <2>28,
          <2>29, <2>30, <2>31, <2>32, <2>33, <2>34, <2>35, <2>36, <2>37,
          <2>38, <2>39, <2>40, <2>41, <2>42, <2>43, <2>44
      DEF Next, SerializeTrace, SerializeTracesLoop, Flush, FlushTraces,
          FlushAndClose
<1>2. CASE UNCHANGED vars
    BY <1>2, <1>0 DEF vars, EagerInv, LoopWillFlush, SwapInv,
        SerializationCompleted, Other, Buffers, PcInv, PlanInv, MonitorInv,
        Threads, Flushers, SerializePc, CopyPc, TryWritePc, WriterPc, LoopPc,
        FlushingPc, queueVars, bufferVars, threadVars, flusherVars,
        accountVars
<1> QED BY <1>1, <1>2

\* New buffers are not full, so no eager flush is due.
LEMMA EagerInvInit == Init => EagerInv
  BY DEF Init, EagerInv, NewSpanBuffer, Buffers, Other

\* No request for an eager flush is lost, although the request and the
\* replacement of _forceFlush are not synchronized.
THEOREM EagerFlushCorrect == Spec => []EagerFlush
<1>1. EagerInv => EagerFlush
    BY DEF EagerInv, EagerFlush
<1>2. Spec => []EagerInv
    BY EagerInvInit, EagerInvNext, TypeInvariance, LockInvariance,
       SwapInvariance, PTL DEF Spec
<1> QED BY <1>1, <1>2, PTL
=============================================================================
