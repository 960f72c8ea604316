----------------------------- MODULE AgentWriter -----------------------------
(***************************************************************************)
(* Datadog.Trace.Agent.AgentWriter: the pipeline from the application      *)
(* threads that finish traces to the trace agent.                          *)
(*                                                                         *)
(*   WriteTrace --> _pendingTraces --> serialization thread                *)
(*                                        |                                *)
(*                     front / back SpanBuffer (one is active)             *)
(*                                        |                                *)
(*                flush loop, FlushTracesAsync, FlushAndCloseAsync --> api *)
(*                                                                         *)
(* The actors are: one caller of WriteTrace per trace; the serialization   *)
(* thread; and the flushers, which are the flush loop, the callers of      *)
(* FlushTracesAsync and the callers of FlushAndCloseAsync.  Each step is   *)
(* one access to state that another actor can see; timeouts and the answer *)
(* of the agent are choices.                                               *)
(***************************************************************************)
EXTENDS SpanBuffer, FiniteSets

CONSTANTS
    Serializer,       \* the thread that runs SerializeTracesLoop
    FlushLoop,        \* the task that runs FlushBuffersTaskLoopAsync
    FlushCallers,     \* calls of FlushTracesAsync
    Closers,          \* calls of FlushAndCloseAsync
    Faulty,           \* the traces whose serialization throws
    AutomaticFlush,   \* constructor argument automaticFlush
    None              \* no thread; a completed task

Threads == Traces \cup {Serializer}
Flushers == {FlushLoop} \cup FlushCallers \cup Closers

\* The actors are distinct, and None is none of them.
ASSUME ActorsAssumption ==
    /\ Threads \cap Flushers = {}
    /\ Serializer \notin Traces
    /\ FlushLoop \notin FlushCallers \cup Closers
    /\ FlushCallers \cap Closers = {}
    /\ None \notin Threads \cup Flushers
    /\ Faulty \subseteq Traces
    /\ AutomaticFlush \in BOOLEAN

Buffers == {"front", "back"}

Other(b) == IF b = "front" THEN "back" ELSE "front"

VARIABLES
    pendingTraces,     \* _pendingTraces: traces, and watermarks (a flush caller)
    serializationMutex,\* _serializationMutex is set
    processExit,       \* _processExit is completed
    activeBuffer,      \* _activeBuffer
    buffer,            \* the two SpanBuffers
    monitor,           \* monitor[b]: who holds _syncRoot of b
    temporaryBuffer,   \* the trace whose bytes _temporaryBuffer holds
    forceFlush,        \* the current _forceFlush is completed
    requesters,        \* threads in RequestFlush that hold the current _forceFlush
    flushTask,         \* flushTask[b]: owner of the pending flush task of b
    keeps, drops,      \* the counts given to the keep rate calculator
    pc,                \* pc[p]: where thread p is
    target,            \* target[p]: local variable buffer of SerializeTrace
    item,              \* the work item that the serialization thread holds
    hasDequeuedTraces, \* local variable of SerializeTracesLoop
    fpc,               \* fpc[f]: where flusher f is
    plan,              \* plan[f]: buffers that FlushBuffers still has to flush
    previous,          \* previous[f]: owner of the flush task that f awaits
    sending,           \* sending[f]: stage of f's InternalBufferFlush
    watermark,         \* watermark[f]: the task completion source of f is set
    outcome,           \* outcome[c]: how FlushAndCloseAsync ended
    delivered,         \* delivered[t]: payloads with t that the agent accepted
    faulted,           \* traces whose serialization has thrown
    written            \* written[f]: traces written before f was called

queueVars == <<pendingTraces, serializationMutex>>
bufferVars == <<buffer, monitor>>
threadVars == <<pc, target, item, hasDequeuedTraces>>
flusherVars == <<fpc, plan, previous, sending, watermark, outcome>>
accountVars == <<keeps, drops, delivered, faulted, written>>
vars == <<queueVars, processExit, activeBuffer, bufferVars, temporaryBuffer,
          forceFlush, requesters, flushTask, accountVars, threadVars,
          flusherVars>>

\* _serializationTask.IsCompleted
SerializationCompleted == pc[Serializer] = "done"

Init ==
    /\ pendingTraces = <<>>
    /\ serializationMutex = FALSE
    /\ processExit = FALSE
    /\ activeBuffer = "front"
    /\ buffer = [b \in Buffers |-> NewSpanBuffer]
    /\ monitor = [b \in Buffers |-> None]
    /\ temporaryBuffer = None
    /\ forceFlush = FALSE
    /\ requesters = {}
    /\ flushTask = [b \in Buffers |-> None]
    /\ keeps = 0 /\ drops = 0
    /\ pc = [p \in Threads |->
                IF p # Serializer THEN "idle"
                ELSE IF AutomaticFlush THEN "drain" ELSE "done"]
    /\ target = [p \in Threads |-> "front"]
    /\ item = None
    /\ hasDequeuedTraces = FALSE
    /\ fpc = [f \in Flushers |->
                IF f # FlushLoop THEN "idle"
                ELSE IF AutomaticFlush THEN "delay" ELSE "done"]
    /\ plan = [f \in Flushers |-> <<>>]
    /\ previous = [f \in Flushers |-> None]
    /\ sending = [f \in Flushers |-> "no"]
    /\ watermark = [f \in FlushCallers |-> FALSE]
    /\ outcome = [c \in Closers |-> "none"]
    /\ delivered = [t \in Traces |-> 0]
    /\ faulted = {}
    /\ written = [f \in FlushCallers \cup Closers |-> {}]

-----------------------------------------------------------------------------
(***************************************************************************)
(* WriteTrace                                                              *)
(***************************************************************************)

\* The test of _serializationTask.IsCompleted.
WriteTrace(t) ==
    /\ pc[t] = "idle"
    /\ pc' = [pc EXCEPT ![t] =
                IF SerializationCompleted THEN "serialize" ELSE "enqueue"]
    /\ UNCHANGED <<queueVars, processExit, activeBuffer, bufferVars,
                   temporaryBuffer, forceFlush, requesters, flushTask,
                   accountVars, target, item, hasDequeuedTraces, flusherVars>>

Enqueue(t) ==
    /\ pc[t] = "enqueue"
    /\ pendingTraces' = Append(pendingTraces, t)
    /\ pc' = [pc EXCEPT ![t] = "isSet"]
    /\ UNCHANGED <<serializationMutex, processExit, activeBuffer, bufferVars,
                   temporaryBuffer, forceFlush, requesters, flushTask,
                   accountVars, target, item, hasDequeuedTraces, flusherVars>>

IsSet(t) ==
    /\ pc[t] = "isSet"
    /\ pc' = [pc EXCEPT ![t] = IF serializationMutex THEN "done" ELSE "set"]
    /\ UNCHANGED <<queueVars, processExit, activeBuffer, bufferVars,
                   temporaryBuffer, forceFlush, requesters, flushTask,
                   accountVars, target, item, hasDequeuedTraces, flusherVars>>

Set(t) ==
    /\ pc[t] = "set"
    /\ serializationMutex' = TRUE
    /\ pc' = [pc EXCEPT ![t] = "done"]
    /\ UNCHANGED <<pendingTraces, processExit, activeBuffer, bufferVars,
                   temporaryBuffer, forceFlush, requesters, flushTask,
                   accountVars, target, item, hasDequeuedTraces, flusherVars>>

-----------------------------------------------------------------------------
(***************************************************************************)
(* SerializeTrace, run by the serialization thread or, once that thread    *)
(* has ended, by the callers of WriteTrace                                 *)
(***************************************************************************)

TraceOf(p) == IF p = Serializer THEN item ELSE p

Return(p) == IF p = Serializer THEN "drain" ELSE "done"

\* SerializeTrace is left by an exception: the catch clause of the loop, or
\* the caller of WriteTrace.
Throw(p) == IF p = Serializer THEN "checkExit" ELSE "done"

TryWritePc == {"write1", "write2"}
CopyPc == {"copy1", "copy2"}

\* Variant: the second refusal returns without counting the trace.
RefusedVariant(p) == IF pc[p] \in {"write1", "copy1"} THEN "swap" ELSE Return(p)

\* Where SerializeTrace goes when its first, or its second TryWrite fails.
Refused(p) == IF pc[p] \in {"write1", "copy1"} THEN "swap" ELSE "drop"

\* SerializeTrace reads _activeBuffer.
ReadActiveBuffer(p) ==
    /\ pc[p] = "serialize"
    /\ target' = [target EXCEPT ![p] = activeBuffer]
    /\ pc' = [pc EXCEPT ![p] = "write1"]
    /\ UNCHANGED <<queueVars, processExit, activeBuffer, bufferVars,
                   temporaryBuffer, forceFlush, requesters, flushTask,
                   accountVars, item, hasDequeuedTraces, flusherVars>>

\* TryWrite: Monitor.TryEnter fails, or the buffer is locked.
TryWriteRefused(p) ==
    /\ pc[p] \in TryWritePc
    /\ monitor[target[p]] # None \/ buffer[target[p]].locked
    /\ pc' = [pc EXCEPT ![p] = Refused(p)]
    /\ UNCHANGED <<queueVars, processExit, activeBuffer, bufferVars,
                   temporaryBuffer, forceFlush, requesters, flushTask,
                   accountVars, target, item, hasDequeuedTraces, flusherVars>>

\* Variant: TryWrite does not look at _locked.
TryWriteEntersVariant(p) ==
    /\ pc[p] \in TryWritePc
    /\ monitor[target[p]] = None

TryWriteEnters(p) ==
    /\ pc[p] \in TryWritePc
    /\ monitor[target[p]] = None
    /\ ~buffer[target[p]].locked

\* TryWrite: enter the monitor and serialize to the temporary buffer.
TryWriteSerialize(p) ==
    /\ TryWriteEnters(p)
    /\ TraceOf(p) \notin Faulty
    /\ monitor' = [monitor EXCEPT ![target[p]] = p]
    /\ temporaryBuffer' = TraceOf(p)
    /\ pc' = [pc EXCEPT ![p] = IF pc[p] = "write1" THEN "copy1" ELSE "copy2"]
    /\ UNCHANGED <<queueVars, processExit, activeBuffer, buffer, forceFlush,
                   requesters, flushTask, accountVars, target, item,
                   hasDequeuedTraces, flusherVars>>

\* TryWrite: the formatter throws; the finally clause leaves the monitor.
TryWriteThrow(p) ==
    /\ TryWriteEnters(p)
    /\ TraceOf(p) \in Faulty
    /\ temporaryBuffer' = TraceOf(p)
    /\ faulted' = faulted \cup {TraceOf(p)}
    /\ pc' = [pc EXCEPT ![p] = Throw(p)]
    /\ UNCHANGED <<queueVars, processExit, activeBuffer, bufferVars,
                   forceFlush, requesters, flushTask, keeps, drops, delivered,
                   written, target, item, hasDequeuedTraces, flusherVars>>

\* TryWrite: copy the temporary buffer, or mark the buffer full.
TryWriteCopy(p) ==
    LET b == target[p]
        fits == Fits(buffer[b], TraceOf(p))
    IN  /\ pc[p] \in CopyPc
        /\ buffer' = [buffer EXCEPT ![b] =
                        IF fits THEN Append1(@, TraceOf(p), temporaryBuffer)
                                ELSE MarkFull(@)]
        /\ monitor' = [monitor EXCEPT ![b] = None]
        /\ pc' = [pc EXCEPT ![p] = IF fits THEN Return(p) ELSE Refused(p)]
        /\ UNCHANGED <<queueVars, processExit, activeBuffer, temporaryBuffer,
                       forceFlush, requesters, flushTask, accountVars, target,
                       item, hasDequeuedTraces, flusherVars>>

\* SwapBuffers: is there room in the buffer that is not active?
SwapBuffers(p) ==
    LET other == Other(activeBuffer)
    IN  /\ pc[p] = "swap"
        /\ target' = [target EXCEPT ![p] = other]
        /\ pc' = [pc EXCEPT ![p] = IF buffer[other].isFull THEN "drop"
                                                           ELSE "swapWrite"]
        /\ UNCHANGED <<queueVars, processExit, activeBuffer, bufferVars,
                       temporaryBuffer, forceFlush, requesters, flushTask,
                       accountVars, item, hasDequeuedTraces, flusherVars>>

SwapBuffersWrite(p) ==
    /\ pc[p] = "swapWrite"
    /\ activeBuffer' = target[p]
    /\ pc' = [pc EXCEPT ![p] = "request"]
    /\ UNCHANGED <<queueVars, processExit, bufferVars, temporaryBuffer,
                   forceFlush, requesters, flushTask, accountVars, target,
                   item, hasDequeuedTraces, flusherVars>>

\* SwapBuffers returns _activeBuffer; RequestFlush reads _forceFlush.
RequestFlush(p) ==
    /\ pc[p] = "request"
    /\ target' = [target EXCEPT ![p] = activeBuffer]
    /\ requesters' = requesters \cup {p}
    /\ pc' = [pc EXCEPT ![p] = "signal"]
    /\ UNCHANGED <<queueVars, processExit, activeBuffer, bufferVars,
                   temporaryBuffer, forceFlush, flushTask, accountVars, item,
                   hasDequeuedTraces, flusherVars>>

\* TrySetResult: without effect on _forceFlush if it has been replaced since.
CompleteForceFlush(p) ==
    /\ pc[p] = "signal"
    /\ forceFlush' = (forceFlush \/ p \in requesters)
    /\ requesters' = requesters \ {p}
    /\ pc' = [pc EXCEPT ![p] = "write2"]
    /\ UNCHANGED <<queueVars, processExit, activeBuffer, bufferVars,
                   temporaryBuffer, flushTask, accountVars, target, item,
                   hasDequeuedTraces, flusherVars>>

\* Variant: a dropped trace is not counted.
DropTraceVariant(p) ==
    /\ pc[p] = "drop"
    /\ pc' = [pc EXCEPT ![p] = Return(p)]
    /\ UNCHANGED <<queueVars, processExit, activeBuffer, bufferVars,
                   temporaryBuffer, forceFlush, requesters, flushTask,
                   accountVars, target, item, hasDequeuedTraces, flusherVars>>

DropTrace(p) ==
    /\ pc[p] = "drop"
    /\ drops' = drops + 1
    /\ pc' = [pc EXCEPT ![p] = Return(p)]
    /\ UNCHANGED <<queueVars, processExit, activeBuffer, bufferVars,
                   temporaryBuffer, forceFlush, requesters, flushTask, keeps,
                   delivered, faulted, written, target, item,
                   hasDequeuedTraces, flusherVars>>

SerializeTrace(p) ==
    \/ ReadActiveBuffer(p)
    \/ TryWriteRefused(p) \/ TryWriteSerialize(p) \/ TryWriteThrow(p)
    \/ TryWriteCopy(p)
    \/ SwapBuffers(p) \/ SwapBuffersWrite(p)
    \/ RequestFlush(p) \/ CompleteForceFlush(p)
    \/ DropTrace(p)

-----------------------------------------------------------------------------
(***************************************************************************)
(* SerializeTracesLoop                                                     *)
(***************************************************************************)

\* TryDequeue returns a trace.
DequeueTrace ==
    /\ pc[Serializer] = "drain"
    /\ pendingTraces # <<>>
    /\ Head(pendingTraces) \in Traces
    /\ item' = Head(pendingTraces)
    /\ pendingTraces' = Tail(pendingTraces)
    /\ hasDequeuedTraces' = TRUE
    /\ pc' = [pc EXCEPT ![Serializer] = "serialize"]
    /\ UNCHANGED <<serializationMutex, processExit, activeBuffer, bufferVars,
                   temporaryBuffer, forceFlush, requesters, flushTask,
                   accountVars, target, flusherVars>>

\* TryDequeue returns a watermark; its callback completes a FlushTracesAsync.
DequeueWatermark ==
    /\ pc[Serializer] = "drain"
    /\ pendingTraces # <<>>
    /\ Head(pendingTraces) \in FlushCallers
    /\ watermark' = [watermark EXCEPT ![Head(pendingTraces)] = TRUE]
    /\ pendingTraces' = Tail(pendingTraces)
    /\ UNCHANGED <<serializationMutex, processExit, activeBuffer, bufferVars,
                   temporaryBuffer, forceFlush, requesters, flushTask,
                   accountVars, threadVars, fpc, plan, previous, sending,
                   outcome>>

\* TryDequeue returns false.
QueueDrained ==
    /\ pc[Serializer] = "drain"
    /\ pendingTraces = <<>>
    /\ pc' = [pc EXCEPT ![Serializer] = "checkExit"]
    /\ UNCHANGED <<queueVars, processExit, activeBuffer, bufferVars,
                   temporaryBuffer, forceFlush, requesters, flushTask,
                   accountVars, target, item, hasDequeuedTraces, flusherVars>>

\* Variant: the event is reset before Wait, on the way to it.
CheckProcessExitVariant ==
    /\ pc[Serializer] = "checkExit"
    /\ serializationMutex' = FALSE
    /\ pc' = [pc EXCEPT ![Serializer] =
                IF processExit THEN "done"
                ELSE IF hasDequeuedTraces THEN "sleep" ELSE "wait"]
    /\ UNCHANGED <<pendingTraces, processExit, activeBuffer, bufferVars,
                   temporaryBuffer, forceFlush, requesters, flushTask,
                   accountVars, target, item, hasDequeuedTraces, flusherVars>>

\* The test of _processExit, and the choice between Sleep and Wait.
CheckProcessExit ==
    /\ pc[Serializer] = "checkExit"
    /\ pc' = [pc EXCEPT ![Serializer] =
                IF processExit THEN "done"
                ELSE IF hasDequeuedTraces THEN "sleep" ELSE "wait"]
    /\ UNCHANGED <<queueVars, processExit, activeBuffer, bufferVars,
                   temporaryBuffer, forceFlush, requesters, flushTask,
                   accountVars, target, item, hasDequeuedTraces, flusherVars>>

Sleep ==
    /\ pc[Serializer] = "sleep"
    /\ pc' = [pc EXCEPT ![Serializer] = "drain"]
    /\ hasDequeuedTraces' = FALSE
    /\ UNCHANGED <<queueVars, processExit, activeBuffer, bufferVars,
                   temporaryBuffer, forceFlush, requesters, flushTask,
                   accountVars, target, item, flusherVars>>

Wait ==
    /\ pc[Serializer] = "wait"
    /\ serializationMutex
    /\ pc' = [pc EXCEPT ![Serializer] = "reset"]
    /\ UNCHANGED <<queueVars, processExit, activeBuffer, bufferVars,
                   temporaryBuffer, forceFlush, requesters, flushTask,
                   accountVars, target, item, hasDequeuedTraces, flusherVars>>

Reset ==
    /\ pc[Serializer] = "reset"
    /\ serializationMutex' = FALSE
    /\ pc' = [pc EXCEPT ![Serializer] = "drain"]
    /\ UNCHANGED <<pendingTraces, processExit, activeBuffer, bufferVars,
                   temporaryBuffer, forceFlush, requesters, flushTask,
                   accountVars, target, item, hasDequeuedTraces, flusherVars>>

SerializeTracesLoop ==
    \/ DequeueTrace \/ DequeueWatermark \/ QueueDrained
    \/ CheckProcessExit \/ Sleep \/ Wait \/ Reset

-----------------------------------------------------------------------------
(***************************************************************************)
(* FlushBuffers, run by every flusher.  Only the loop spares a fallback    *)
(* buffer that is not full: the others pass flushAllBuffers = true.        *)
(***************************************************************************)

flushAllBuffers(f) == f # FlushLoop

\* FlushBuffers reads _activeBuffer.
FlushBuffers(f) ==
    /\ fpc[f] = "flushBuffers"
    /\ plan' = [plan EXCEPT ![f] = <<Other(activeBuffer), activeBuffer>>]
    /\ fpc' = [fpc EXCEPT ![f] = "fallback"]
    /\ UNCHANGED <<queueVars, processExit, activeBuffer, bufferVars,
                   temporaryBuffer, forceFlush, requesters, flushTask,
                   accountVars, threadVars, previous, sending, watermark,
                   outcome>>

\* The fallback buffer is flushed first, if it is full or all are to be.
CheckFallback(f) ==
    /\ fpc[f] = "fallback"
    /\ plan' = [plan EXCEPT ![f] =
                  IF buffer[Head(@)].isFull \/ flushAllBuffers(f)
                  THEN @ ELSE Tail(@)]
    /\ fpc' = [fpc EXCEPT ![f] = "flushBuffer"]
    /\ UNCHANGED <<queueVars, processExit, activeBuffer, bufferVars,
                   temporaryBuffer, forceFlush, requesters, flushTask,
                   accountVars, threadVars, previous, sending, watermark,
                   outcome>>

\* FlushBuffer reads the flush task of the buffer, in order to await it.
FlushBuffer(f) ==
    /\ fpc[f] = "flushBuffer"
    /\ previous' = [previous EXCEPT ![f] = flushTask[Head(plan[f])]]
    /\ fpc' = [fpc EXCEPT ![f] = "lock"]
    /\ UNCHANGED <<queueVars, processExit, activeBuffer, bufferVars,
                   temporaryBuffer, forceFlush, requesters, flushTask,
                   accountVars, threadVars, plan, sending, watermark, outcome>>

\* Variant: Lock does not test whether the buffer is locked already.
LockBufferVariant(f) ==
    LET b == Head(plan[f])
    IN  /\ fpc[f] = "lock"
        /\ previous[f] = None
        /\ monitor[b] = None
        /\ buffer' = [buffer EXCEPT ![b] = Lock(@)]
        /\ sending' = [sending EXCEPT ![f] =
                         IF TraceCount(buffer[b]) > 0 THEN "send" ELSE "clear"]
        /\ fpc' = [fpc EXCEPT ![f] = "assign"]
        /\ UNCHANGED <<queueVars, processExit, activeBuffer, monitor,
                       temporaryBuffer, forceFlush, requesters, flushTask,
                       accountVars, threadVars, plan, previous, watermark,
                       outcome>>

\* InternalBufferFlush up to its first await.  SendTracesAsync is not called
\* for an empty buffer.
LockBuffer(f) ==
    LET b == Head(plan[f])
    IN  /\ fpc[f] = "lock"
        /\ previous[f] = None
        /\ monitor[b] = None
        /\ ~buffer[b].locked
        /\ buffer' = [buffer EXCEPT ![b] = Lock(@)]
        /\ sending' = [sending EXCEPT ![f] =
                         IF TraceCount(buffer[b]) > 0 THEN "send" ELSE "clear"]
        /\ fpc' = [fpc EXCEPT ![f] = "assign"]
        /\ UNCHANGED <<queueVars, processExit, activeBuffer, monitor,
                       temporaryBuffer, forceFlush, requesters, flushTask,
                       accountVars, threadVars, plan, previous, watermark,
                       outcome>>

\* Lock returns false: InternalBufferFlush returns at once.
LockRefused(f) ==
    LET b == Head(plan[f])
    IN  /\ fpc[f] = "lock"
        /\ previous[f] = None
        /\ monitor[b] = None
        /\ buffer[b].locked
        /\ fpc' = [fpc EXCEPT ![f] = "assign"]
        /\ UNCHANGED <<queueVars, processExit, activeBuffer, bufferVars,
                       temporaryBuffer, forceFlush, requesters, flushTask,
                       accountVars, threadVars, plan, previous, sending,
                       watermark, outcome>>

\* How often trace t occurs in the sequence s.
Copies(s, t) == Cardinality({i \in 1 .. Len(s) : s[i] = t})

\* SendTracesAsync ends: true, false, or an exception.  The last two count
\* the traces as dropped.
SendTracesAsync(f) ==
    LET b == Head(plan[f])
        count == TraceCount(buffer[b])
    IN  /\ sending[f] = "send"
        /\ sending' = [sending EXCEPT ![f] = "clear"]
        /\ \/ /\ keeps' = keeps + count
              /\ delivered' = [t \in Traces |-> delivered[t] +
                                                Copies(buffer[b].traces, t)]
              /\ UNCHANGED drops
           \/ /\ drops' = drops + count
              /\ UNCHANGED <<keeps, delivered>>
        /\ UNCHANGED <<queueVars, processExit, activeBuffer, bufferVars,
                       temporaryBuffer, forceFlush, requesters, flushTask,
                       faulted, written, threadVars, fpc, plan, previous,
                       watermark, outcome>>

\* The finally clause of InternalBufferFlush: Clear resets the buffer ...
ClearBuffer(f) ==
    LET b == Head(plan[f])
    IN  /\ sending[f] = "clear"
        /\ monitor[b] = None
        /\ monitor' = [monitor EXCEPT ![b] = f]
        /\ buffer' = [buffer EXCEPT ![b] = ClearContent(@)]
        /\ sending' = [sending EXCEPT ![f] = "unlock"]
        /\ UNCHANGED <<queueVars, processExit, activeBuffer, temporaryBuffer,
                       forceFlush, requesters, flushTask, accountVars,
                       threadVars, fpc, plan, previous, watermark, outcome>>

\* ... and unlocks it; the task of this flush completes.
UnlockBuffer(f) ==
    LET b == Head(plan[f])
    IN  /\ sending[f] = "unlock"
        /\ buffer' = [buffer EXCEPT ![b] = Unlock(@)]
        /\ monitor' = [monitor EXCEPT ![b] = None]
        /\ sending' = [sending EXCEPT ![f] = "no"]
        /\ flushTask' = [c \in Buffers |->
                            IF flushTask[c] = f THEN None ELSE flushTask[c]]
        /\ previous' = [g \in Flushers |->
                            IF previous[g] = f THEN None ELSE previous[g]]
        /\ UNCHANGED <<queueVars, processExit, activeBuffer, temporaryBuffer,
                       forceFlush, requesters, accountVars, threadVars, fpc,
                       plan, watermark, outcome>>

\* InternalBufferFlush has returned its task, pending if SendTracesAsync is,
\* and the field of the buffer is assigned.
AssignFlushTask(f) ==
    LET b == Head(plan[f])
    IN  /\ fpc[f] = "assign"
        /\ sending[f] = "no" \/ buffer[b].header > 0
        /\ flushTask' = [flushTask EXCEPT ![b] =
                            IF sending[f] = "no" THEN None ELSE f]
        /\ fpc' = [fpc EXCEPT ![f] = "await"]
        /\ UNCHANGED <<queueVars, processExit, activeBuffer, bufferVars,
                       temporaryBuffer, forceFlush, requesters, accountVars,
                       threadVars, plan, previous, sending, watermark, outcome>>

\* The await of that task, and the next buffer of FlushBuffers if any.
AwaitFlushTask(f) ==
    /\ fpc[f] = "await"
    /\ sending[f] = "no"
    /\ plan' = [plan EXCEPT ![f] = Tail(@)]
    /\ fpc' = [fpc EXCEPT ![f] = IF Len(plan[f]) = 1 THEN "flushed"
                                                    ELSE "flushBuffer"]
    /\ UNCHANGED <<queueVars, processExit, activeBuffer, bufferVars,
                   temporaryBuffer, forceFlush, requesters, flushTask,
                   accountVars, threadVars, previous, sending, watermark,
                   outcome>>

Flush(f) ==
    \/ FlushBuffers(f) \/ CheckFallback(f) \/ FlushBuffer(f)
    \/ LockBuffer(f) \/ LockRefused(f)
    \/ SendTracesAsync(f) \/ ClearBuffer(f) \/ UnlockBuffer(f)
    \/ AssignFlushTask(f) \/ AwaitFlushTask(f)

-----------------------------------------------------------------------------
(***************************************************************************)
(* FlushBuffersTaskLoopAsync                                               *)
(***************************************************************************)

\* WhenAny returns (the one second timer may always be the reason), and a
\* completed _forceFlush is replaced.
ReplaceForceFlush ==
    /\ fpc[FlushLoop] = "delay"
    /\ forceFlush' = FALSE
    /\ requesters' = IF forceFlush THEN {} ELSE requesters
    /\ fpc' = [fpc EXCEPT ![FlushLoop] = "flushBuffers"]
    /\ UNCHANGED <<queueVars, processExit, activeBuffer, bufferVars,
                   temporaryBuffer, flushTask, accountVars, threadVars, plan,
                   previous, sending, watermark, outcome>>

\* Variant: _forceFlush is replaced at the end of the iteration as well.
CheckSerializationTaskVariant ==
    /\ fpc[FlushLoop] = "flushed"
    /\ forceFlush' = FALSE
    /\ fpc' = [fpc EXCEPT ![FlushLoop] =
                IF SerializationCompleted THEN "done" ELSE "delay"]
    /\ UNCHANGED <<queueVars, processExit, activeBuffer, bufferVars,
                   temporaryBuffer, requesters, flushTask, accountVars,
                   threadVars, plan, previous, sending, watermark, outcome>>

\* The loop ends once the serialization task has completed.
CheckSerializationTask ==
    /\ fpc[FlushLoop] = "flushed"
    /\ fpc' = [fpc EXCEPT ![FlushLoop] =
                IF SerializationCompleted THEN "done" ELSE "delay"]
    /\ UNCHANGED <<queueVars, processExit, activeBuffer, bufferVars,
                   temporaryBuffer, forceFlush, requesters, flushTask,
                   accountVars, threadVars, plan, previous, sending, watermark,
                   outcome>>

-----------------------------------------------------------------------------
(***************************************************************************)
(* FlushTracesAsync                                                        *)
(***************************************************************************)

\* The traces whose WriteTrace has returned.
WrittenTraces == {t \in Traces : pc[t] = "done"}

FlushTracesAsync(f) ==
    /\ fpc[f] = "idle"
    /\ fpc' = [fpc EXCEPT ![f] =
                IF SerializationCompleted THEN "flushBuffers" ELSE "enqueue"]
    /\ written' = [written EXCEPT ![f] = WrittenTraces]
    /\ UNCHANGED <<queueVars, processExit, activeBuffer, bufferVars,
                   temporaryBuffer, forceFlush, requesters, flushTask, keeps,
                   drops, delivered, faulted, threadVars, plan, previous,
                   sending, watermark, outcome>>

WriteWatermark(f) ==
    /\ fpc[f] = "enqueue"
    /\ pendingTraces' = Append(pendingTraces, f)
    /\ fpc' = [fpc EXCEPT ![f] = "set"]
    /\ UNCHANGED <<serializationMutex, processExit, activeBuffer, bufferVars,
                   temporaryBuffer, forceFlush, requesters, flushTask,
                   accountVars, threadVars, plan, previous, sending, watermark,
                   outcome>>

\* Variant: wakeUpThread is false.
WakeUpThreadVariant(f) ==
    /\ fpc[f] = "set"
    /\ fpc' = [fpc EXCEPT ![f] = "awaitWatermark"]
    /\ UNCHANGED <<queueVars, processExit, activeBuffer, bufferVars,
                   temporaryBuffer, forceFlush, requesters, flushTask,
                   accountVars, threadVars, plan, previous, sending, watermark,
                   outcome>>

\* WriteWatermark wakes the serialization thread up.
WakeUpThread(f) ==
    /\ fpc[f] = "set"
    /\ serializationMutex' = TRUE
    /\ fpc' = [fpc EXCEPT ![f] = "awaitWatermark"]
    /\ UNCHANGED <<pendingTraces, processExit, activeBuffer, bufferVars,
                   temporaryBuffer, forceFlush, requesters, flushTask,
                   accountVars, threadVars, plan, previous, sending, watermark,
                   outcome>>

\* Variant: FlushTracesAsync does not await its watermark.
AwaitWatermarkVariant(f) ==
    /\ fpc[f] = "awaitWatermark"
    /\ fpc' = [fpc EXCEPT ![f] = "flushBuffers"]
    /\ UNCHANGED <<queueVars, processExit, activeBuffer, bufferVars,
                   temporaryBuffer, forceFlush, requesters, flushTask,
                   accountVars, threadVars, plan, previous, sending, watermark,
                   outcome>>

AwaitWatermark(f) ==
    /\ fpc[f] = "awaitWatermark"
    /\ watermark[f]
    /\ fpc' = [fpc EXCEPT ![f] = "flushBuffers"]
    /\ UNCHANGED <<queueVars, processExit, activeBuffer, bufferVars,
                   temporaryBuffer, forceFlush, requesters, flushTask,
                   accountVars, threadVars, plan, previous, sending, watermark,
                   outcome>>

\* FlushTracesAsync returns when its FlushBuffers does.
FlushTracesReturned(f) == fpc[f] = "flushed"

FlushTraces(f) ==
    \/ FlushTracesAsync(f) \/ WriteWatermark(f) \/ WakeUpThread(f)
    \/ AwaitWatermark(f)

-----------------------------------------------------------------------------
(***************************************************************************)
(* FlushAndCloseAsync                                                      *)
(***************************************************************************)

\* TrySetResult: only the first call goes on.
FlushAndCloseAsync(c) ==
    /\ fpc[c] = "idle"
    /\ processExit' = TRUE
    /\ fpc' = [fpc EXCEPT ![c] = IF processExit THEN "done" ELSE "set"]
    /\ outcome' = [outcome EXCEPT ![c] = IF processExit THEN "ignored" ELSE @]
    /\ written' = [written EXCEPT ![c] = WrittenTraces]
    /\ UNCHANGED <<queueVars, activeBuffer, bufferVars, temporaryBuffer,
                   forceFlush, requesters, flushTask, keeps, drops, delivered,
                   faulted, threadVars, plan, previous, sending, watermark>>

\* Variant: the exit is requested without waking the serialization thread.
SetForExitVariant(c) ==
    /\ fpc[c] = "set"
    /\ fpc' = [fpc EXCEPT ![c] = "awaitSerialization"]
    /\ UNCHANGED <<queueVars, processExit, activeBuffer, bufferVars,
                   temporaryBuffer, forceFlush, requesters, flushTask,
                   accountVars, threadVars, plan, previous, sending, watermark,
                   outcome>>

\* _serializationMutex.Set()
SetForExit(c) ==
    /\ fpc[c] = "set"
    /\ serializationMutex' = TRUE
    /\ fpc' = [fpc EXCEPT ![c] = "awaitSerialization"]
    /\ UNCHANGED <<pendingTraces, processExit, activeBuffer, bufferVars,
                   temporaryBuffer, forceFlush, requesters, flushTask,
                   accountVars, threadVars, plan, previous, sending, watermark,
                   outcome>>

AwaitSerialization(c) ==
    /\ fpc[c] = "awaitSerialization"
    /\ SerializationCompleted
    /\ fpc' = [fpc EXCEPT ![c] = "awaitFlushTask"]
    /\ UNCHANGED <<queueVars, processExit, activeBuffer, bufferVars,
                   temporaryBuffer, forceFlush, requesters, flushTask,
                   accountVars, threadVars, plan, previous, sending, watermark,
                   outcome>>

\* The 20 seconds elapse first: the traces could not be flushed.
SerializationTimeout(c) ==
    /\ fpc[c] = "awaitSerialization"
    /\ fpc' = [fpc EXCEPT ![c] = "done"]
    /\ outcome' = [outcome EXCEPT ![c] = "warned"]
    /\ UNCHANGED <<queueVars, processExit, activeBuffer, bufferVars,
                   temporaryBuffer, forceFlush, requesters, flushTask,
                   accountVars, threadVars, plan, previous, sending, watermark>>

\* Variant: only the front buffer is inspected.
CheckLeftoverVariant(c) ==
    LET allGood == TraceCount(buffer["front"]) = 0
    IN  /\ fpc[c] = "awaitFlushTask"
        /\ fpc' = [fpc EXCEPT ![c] = IF allGood THEN "done" ELSE "flushBuffers"]
        /\ outcome' = [outcome EXCEPT ![c] = IF allGood THEN "returned" ELSE @]
        /\ UNCHANGED <<queueVars, processExit, activeBuffer, bufferVars,
                       temporaryBuffer, forceFlush, requesters, flushTask,
                       accountVars, threadVars, plan, previous, sending,
                       watermark>>

\* WhenAny(_flushTask, 20 seconds) returns, for either reason, and the counts
\* of the buffers are read.
CheckLeftover(c) ==
    LET allGood == \A b \in Buffers : TraceCount(buffer[b]) = 0
    IN  /\ fpc[c] = "awaitFlushTask"
        /\ fpc' = [fpc EXCEPT ![c] = IF allGood THEN "done" ELSE "flushBuffers"]
        /\ outcome' = [outcome EXCEPT ![c] = IF allGood THEN "returned" ELSE @]
        /\ UNCHANGED <<queueVars, processExit, activeBuffer, bufferVars,
                       temporaryBuffer, forceFlush, requesters, flushTask,
                       accountVars, threadVars, plan, previous, sending,
                       watermark>>

FlushingPc == {"flushBuffers", "fallback", "flushBuffer", "lock", "assign",
               "await", "flushed"}

\* The delay ends before the forced flush: FlushAndCloseAsync returns with a
\* warning, and the flush goes on in the background.
LeftoverTimeout(c) ==
    /\ fpc[c] \in FlushingPc
    /\ outcome[c] = "none"
    /\ outcome' = [outcome EXCEPT ![c] = "warned"]
    /\ UNCHANGED <<queueVars, processExit, activeBuffer, bufferVars,
                   temporaryBuffer, forceFlush, requesters, flushTask,
                   accountVars, threadVars, fpc, plan, previous, sending,
                   watermark>>

LeftoverFlushed(c) ==
    /\ fpc[c] = "flushed"
    /\ fpc' = [fpc EXCEPT ![c] = "done"]
    /\ outcome' = [outcome EXCEPT ![c] = IF @ = "none" THEN "returned" ELSE @]
    /\ UNCHANGED <<queueVars, processExit, activeBuffer, bufferVars,
                   temporaryBuffer, forceFlush, requesters, flushTask,
                   accountVars, threadVars, plan, previous, sending, watermark>>

FlushAndClose(c) ==
    \/ FlushAndCloseAsync(c) \/ SetForExit(c)
    \/ AwaitSerialization(c) \/ SerializationTimeout(c)
    \/ CheckLeftover(c)
    \/ LeftoverTimeout(c) \/ LeftoverFlushed(c)

-----------------------------------------------------------------------------

Next ==
    \/ \E t \in Traces : WriteTrace(t) \/ Enqueue(t) \/ IsSet(t) \/ Set(t)
    \/ \E p \in Threads : SerializeTrace(p)
    \/ SerializeTracesLoop
    \/ \E f \in Flushers : Flush(f)
    \/ ReplaceForceFlush \/ CheckSerializationTask
    \/ \E f \in FlushCallers : FlushTraces(f)
    \/ \E c \in Closers : FlushAndClose(c)

Spec == Init /\ [][Next]_vars

(***************************************************************************)
(* Fairness.  Threads and tasks that can run do run, and a request to the  *)
(* agent ends, as its transport has a timeout.  Nothing is assumed about   *)
(* when the application calls the writer, nor about the 20 second delays   *)
(* of FlushAndCloseAsync.  A flusher that waits for the monitor of a       *)
(* buffer is not overtaken for ever: the monitor is held for a bounded     *)
(* time, and the loop that competes for it sleeps for a second in between. *)
(***************************************************************************)
Fairness ==
    /\ \A t \in Traces :
         WF_vars(Enqueue(t) \/ IsSet(t) \/ Set(t) \/ SerializeTrace(t))
    /\ WF_vars(SerializeTracesLoop \/ SerializeTrace(Serializer))
    /\ WF_vars(Flush(FlushLoop) \/ ReplaceForceFlush \/ CheckSerializationTask)
    /\ \A f \in FlushCallers :
         WF_vars(Flush(f) \/ WriteWatermark(f) \/ WakeUpThread(f)
                 \/ AwaitWatermark(f))
    /\ \A c \in Closers :
         WF_vars(Flush(c) \/ SetForExit(c) \/ AwaitSerialization(c)
                 \/ CheckLeftover(c) \/ LeftoverFlushed(c))
    /\ \A f \in Flushers : SF_vars(LockBuffer(f) \/ LockRefused(f))

FairSpec == Spec /\ Fairness

-----------------------------------------------------------------------------
(***************************************************************************)
(* Properties                                                              *)
(***************************************************************************)

\* Where a thread is while it runs SerializeTrace.
SerializePc == {"serialize", "write1", "copy1", "swap", "swapWrite",
                "request", "signal", "write2", "copy2", "drop"}

ThreadPc == SerializePc \cup
            {"idle", "enqueue", "isSet", "set", "drain", "checkExit", "sleep",
             "wait", "reset", "done"}

FlusherPc == FlushingPc \cup
             {"delay", "idle", "enqueue", "set", "awaitWatermark",
              "awaitSerialization", "awaitFlushTask", "done"}

\* Type invariant.  It includes the limit of SpanBuffer: however the writers
\* interleave, the write position stays within maxBufferSize.
TypeOK ==
    /\ pendingTraces \in Seq(Traces \cup FlushCallers)
    /\ serializationMutex \in BOOLEAN
    /\ processExit \in BOOLEAN
    /\ activeBuffer \in Buffers
    /\ buffer \in [Buffers -> SpanBuffers]
    /\ monitor \in [Buffers -> Threads \cup Flushers \cup {None}]
    /\ temporaryBuffer \in Traces \cup {None}
    /\ forceFlush \in BOOLEAN
    /\ requesters \in SUBSET Threads
    /\ flushTask \in [Buffers -> Flushers \cup {None}]
    /\ keeps \in Nat /\ drops \in Nat
    /\ pc \in [Threads -> ThreadPc]
    /\ target \in [Threads -> Buffers]
    /\ item \in Traces \cup {None}
    /\ hasDequeuedTraces \in BOOLEAN
    /\ fpc \in [Flushers -> FlusherPc]
    /\ plan \in [Flushers -> Seq(Buffers)]
    /\ previous \in [Flushers -> Flushers \cup {None}]
    /\ sending \in [Flushers -> {"no", "send", "clear", "unlock"}]
    /\ watermark \in [FlushCallers -> BOOLEAN]
    /\ outcome \in [Closers -> {"none", "ignored", "returned", "warned"}]
    /\ delivered \in [Traces -> Nat]
    /\ faulted \in SUBSET Traces
    /\ written \in [FlushCallers \cup Closers -> SUBSET Traces]

\* An actor is about to set _serializationMutex.
SetPending ==
    \/ \E t \in Traces : pc[t] \in {"isSet", "set"}
    \/ \E f \in FlushCallers \cup Closers : fpc[f] = "set"

\* The serialization thread never sleeps on its event while there is work to
\* do or the process exits, unless a thread is about to wake it up: the order
\* enqueue, test, set in WriteTrace against wait, reset, drain in
\* SerializeTracesLoop loses no wake-up.
NoLostWakeup ==
    pc[Serializer] = "wait" /\ (pendingTraces # <<>> \/ processExit)
        => serializationMutex \/ SetPending

\* f is flushing buffer b: InternalBufferFlush has locked b for f.
IsFlushing(f, b) == sending[f] # "no" /\ Head(plan[f]) = b

\* A buffer is locked by exactly one flush, whatever the flushers do with the
\* flush task fields; and until that flush clears it, the header sent to the
\* agent counts exactly the traces that follow it.
PayloadIntact ==
    /\ \A b \in Buffers : buffer[b].locked <=> \E f \in Flushers : IsFlushing(f, b)
    /\ \A b \in Buffers : \A f, g \in Flushers :
         IsFlushing(f, b) /\ IsFlushing(g, b) => f = g
    /\ \A f \in Flushers : sending[f] = "send" =>
         LET b == buffer[Head(plan[f])]
         IN  b.header = TraceCount(b) /\ TraceCount(b) > 0

\* While the serialization thread runs, traces in the buffer that is not
\* active are in a buffer that is full or being flushed.  FlushBuffers relies
\* on this: its periodic call skips a fallback buffer that is not full.
NoStrandedTraces ==
    ~SerializationCompleted =>
        LET b == buffer[Other(activeBuffer)]
        IN  TraceCount(b) > 0 => b.isFull \/ b.locked

\* The flush loop is going to look at buffer b in its current iteration, or
\* to start an iteration without waiting for its timer.
LoopWillFlush(b) ==
    \/ forceFlush
    \/ fpc[FlushLoop] \in {"flushBuffers", "done"}
    \/ /\ fpc[FlushLoop] \in {"fallback", "flushBuffer", "lock"}
       /\ \E i \in 1 .. Len(plan[FlushLoop]) : plan[FlushLoop][i] = b
    \/ /\ fpc[FlushLoop] \in {"assign", "await"}
       /\ \E i \in 2 .. Len(plan[FlushLoop]) : plan[FlushLoop][i] = b

\* A request for an eager flush is never lost: once the serialization thread
\* has swapped away from a full buffer and signalled, the flush loop takes care
\* of that buffer without its one second timer, even when the signal races with
\* the replacement of _forceFlush.
EagerFlush ==
    LET b == Other(activeBuffer)
    IN  /\ ~SerializationCompleted
        /\ buffer[b].isFull /\ ~buffer[b].locked
        /\ pc[Serializer] \notin {"request", "signal"}
        => LoopWillFlush(b)

\* The number of traces for which WriteTrace has taken responsibility.
Accepted == Cardinality({t \in Traces : pc[t] \notin {"idle", "enqueue"}})

\* Traces in b that the keep rate calculator has not counted yet.
Uncounted(b) ==
    IF \E f \in Flushers : IsFlushing(f, b) /\ sending[f] # "send"
    THEN 0 ELSE TraceCount(buffer[b])

\* The number of traces in _pendingTraces.
Queued == Cardinality({i \in 1 .. Len(pendingTraces) : pendingTraces[i] \in Traces})

\* Every trace is accounted for exactly once: it waits in the queue, is being
\* serialized, sits in a buffer, was counted as kept or dropped, or made the
\* serializer throw.  Only the last are missing from the keep rate.
KeepRateConservation ==
    Accepted =
        Queued
        + Cardinality({p \in Threads : pc[p] \in SerializePc})
        + Uncounted("front") + Uncounted("back")
        + keeps + drops + Cardinality(faulted)

\* The uncounted copies of t in buffer b.
Buffered(t, b) == IF Uncounted(b) = 0 THEN 0 ELSE Copies(buffer[b].traces, t)

\* As long as the serialization thread runs, a trace is in one place at a time
\* and the agent accepts it at most once, although two buffers, a loop and
\* several explicit flushes take part.
AtMostOnce ==
    ~SerializationCompleted =>
        \A t \in Traces :
            Copies(pendingTraces, t)
            + (IF pc[Serializer] \in SerializePc /\ item = t THEN 1 ELSE 0)
            + Buffered(t, "front") + Buffered(t, "back")
            + delivered[t] <= 1

InQueue(t) == Copies(pendingTraces, t) > 0

\* Trace t is in a buffer, and its payload has not been accepted or refused.
InBuffer(t, b) == Buffered(t, b) > 0

\* Trace t waits in the queue, in the serializer, or in a buffer.
InTransit(t) ==
    \/ InQueue(t)
    \/ pc[Serializer] \in SerializePc /\ item = t
    \/ \E b \in Buffers : InBuffer(t, b)

\* While the serialization thread runs, a call of FlushTracesAsync that returns
\* leaves behind no trace written before it in the queue or in a buffer, but
\* for a buffer that another flush has locked and is sending.
FlushTracesPromise ==
    ~SerializationCompleted =>
        \A f \in FlushCallers : FlushTracesReturned(f) =>
            \A t \in written[f] : InTransit(t) =>
                \E b \in Buffers : InBuffer(t, b) /\ buffer[b].locked

\* A call of FlushAndCloseAsync that returns without its warning leaves no
\* trace written before it in a buffer, unless another flush is sending it,
\* even when the flush loop has ended before the last trace was serialized.
\* (It may leave a trace in the queue: see FlushAndCloseFlushes.  And it needs
\* AutomaticFlush: see AgentWriterFlushProofs.)
FlushAndClosePromise ==
    \A c \in Closers : outcome[c] = "returned" =>
        \A t \in written[c], b \in Buffers :
            InBuffer(t, b) => buffer[b].locked

\* What Tracer's constructor says of its shutdown callback, which awaits
\* FlushAndCloseAsync: the traces written before are flushed, or else the
\* warning is logged.
FlushAndCloseFlushes ==
    \A c \in Closers : outcome[c] = "returned" =>
        \A t \in written[c] : ~InTransit(t)

\* A trace accepted while the serialization thread runs does not stay behind:
\* it is eventually sent, counted as dropped or found faulty, unless the
\* shutdown leaves it in the queue or logs that it could not flush everything.
TracesSettle ==
    \A t \in Traces :
        InTransit(t) /\ ~SerializationCompleted ~>
            \/ ~InTransit(t)
            \/ SerializationCompleted /\ InQueue(t)
            \/ \E c \in Closers : outcome[c] = "warned"

\* FlushTracesAsync returns: its watermark is reached and the flushes that it
\* awaits complete.
FlushTracesTerminates ==
    \A f \in FlushCallers : fpc[f] # "idle" ~> FlushTracesReturned(f)

\* Once a call of FlushAndCloseAsync has requested the exit, the serialization
\* thread and the flush loop end and that call returns.
ShutdownTerminates ==
    processExit ~> /\ SerializationCompleted
                   /\ fpc[FlushLoop] = "done"
                   /\ \A c \in Closers : fpc[c] # "idle" => outcome[c] # "none"
=============================================================================
