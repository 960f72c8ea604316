# A TLA+ model of the Datadog .NET tracer

This directory specifies the core of the Datadog .NET tracer: in `src/tracer/src/Datadog.Trace`, how
finished spans become traces, how many of them are kept and how they reach the agent; in
`src/tracer/src/Datadog.Trace.ClrProfiler.Native`, how the profiler gets methods compiled again and what it
puts into them. The modules are written from the source, checked with TLC on small instances, and in part proved about
with TLAPS for all values of their constants. `PROJECT.json` lists the components, the runs, the mutants, the
source lines behind the definitions, the hazards of the code and the theorems.

## The system

An application thread starts spans through `Tracer`. The spans of one local trace share a
`TraceContext`. When the last of them is finished, or when enough of them are, the context hands them
to the `AgentWriter`, which serializes them to one of two `SpanBuffer`s. A loop sends the buffers to
the agent through `Api`, whose answers also carry sampling rates for the next traces.

    Span.Finish -> TraceContext.CloseSpan -> Tracer.Write -> AgentWriter.WriteTrace
        -> _pendingTraces -> serialization thread -> front/back SpanBuffer
        -> flush loop / FlushTracesAsync / FlushAndCloseAsync -> Api.SendTracesAsync -> agent

Most spans are started by integrations. The native profiler (`CorProfiler`) is called by the runtime when
modules are loaded, unloaded and compiled. Its startup hook loads the managed tracer, which calls
`InitializeProfiler` with the methods to instrument. The thread of `RejitHandler` asks the runtime to compile those
methods again; the runtime asks for the new body (`GetReJITParameters`), and `CallTarget_RewriterCallback` makes it with
the help of `ILRewriter`: the integration's `BeginMethod` runs before the original instructions, and `EndMethod` after
them.

    runtime -> ModuleLoadFinished, InitializeProfiler -> RejitHandler queue -> rejit thread -> RequestReJIT
    runtime -> GetReJITParameters -> NotifyReJITParameters -> CallTarget_RewriterCallback -> ILRewriter.Export

### Inventory

| Component | State | Operations | What is hard | What makes it correct |
|---|---|---|---|---|
| `SpanBuffer` | bytes, write position, trace count, full, locked | `TryWrite`, `Lock`, `Clear`, `EnsureCapacity` | writes race with a flush; counters are read without the monitor | the header counts the traces behind it; the limit holds |
| `AgentWriter` | queue, event, two buffers, active buffer, flush tasks, exit flag | `WriteTrace`, `FlushTracesAsync`, `FlushAndCloseAsync`, the serialization loop, the flush loop | wake-ups, swaps, eager flushes, overlapping flushes, shutdown, timeouts, failures | no trace lost without being counted, none sent twice, flushes and shutdown end |
| `TraceContext`, `Span` | open count, finished spans, root, sampling priority and its lock | `AddSpan`, `CloseSpan`, `Finish`, priority setter and lock, partial flush | spans finished by many threads; priority outside the lock | each span written once; complete traces leave; chunks carry the priority |
| `Api` | none between calls | `SendTracesAsync` with five tries | lost answers, retries | bounded tries, one verdict |
| `MovingAverageKeepRateCalculator` | counters, ring of buckets, sums | increments, `UpdateBucket`, `CancelUpdates` | increments race with the update; window of 0 | sums agree with the buckets; rate within 0 and 1 |
| `RateLimiter` | queue of times, window counters, refresh flag | `Allowed`, `GetEffectiveRate` | count and enqueue are not atomic; the window's shift races | overshoot is bounded by the number of threads |
| `RuleBasedSampler`, rules | rules, agent rates | `GetSamplingPriority`, `SetDefaultSampleRates` | replacement of the rates during use | a decision uses one set of rates |
| `AsyncLocalScopeManager`, `Scope` | active scope, parent links | `Activate`, `Close` | scopes closed out of order | the active scope is an open one |
| `LifetimeManager` | queue of hooks | `AddShutdownTask`, the exit events | events race; a hook throws | every hook runs once |
| `TracingProcessManager` | agent processes, failure counts | start, keep-alive loop | crash loops, exclusive pipes | bounded restarts |
| `AppSecAgentWriter` | event queue, event, exit flag | `AddEvent`, the sender loop | test, reset, wait | no lost wake-up, bounded batch |
| `LogRateLimiter` | bucket per call site | `ShouldLog` | update function run more than once | skips are reported once |
| `GrowingCollection` | list of segments | `Add`, enumeration | lock-free growth | no item lost, `Add` ends |
| `LogGroupMutex`, `FileLogSink` | named mutex, iteration, files | acquire, rotate | a process dies with the mutex | one writer at a time |
| `CorProfiler` (native) | attached flag, modules, integrations, hooked AppDomains | the callbacks of the runtime, `InitializeProfiler`, `Shutdown` | callbacks on any thread, four locks, shutdown during callbacks | no target missed, nothing deleted is used, every callback returns |
| `RejitHandler` (native) | request queue, tables of modules and methods, native images | enqueue, the rejit thread, inliners, shutdown | promises and locks at shutdown; modules that go away | every waiter is answered, the queue drains |
| `ILRewriter` (native) | list of instructions, clauses | insert, `Export` | short branches that no longer reach | every branch leads to its target |
| Call target rewriting (native) | the new body | `CallTarget_RewriterCallback` | exceptions of method and integration, nested handlers, branches into what is replaced | the caller sees the original result; `EndMethod` once |
| Transports, formatters, settings, duck typing, integrations, CI visibility, runtime metrics | - | - | input/output, encoding, code generation | not modelled, see below |

Vendored code, samples, tests, installers and the build are not part of the model.

## Modules

| Module | Models |
|---|---|
| `SpanBuffer` | the buffer as a record, its operations as operators |
| `AgentWriter` | the pipeline; extends `SpanBuffer` |
| `MCAgentWriter` | constants for TLC; extends `AgentWriterDelivery` |
| `AgentWriterProofs` | theorems about `AgentWriter`: types, wake-ups, buffers and monitors |
| `AgentWriterDeliveryProofs` | where a trace is; the refinement of `TraceDelivery` |
| `AgentWriterFlushProofs` | what `FlushTracesAsync` and `FlushAndCloseAsync` promise |
| `AgentWriterAccountProofs` | the balance of the keep rate |
| `TraceContext` | the spans and the priority of one trace |
| `MCTraceContext` | constants for TLC |
| `TraceContextProofs` | theorems about `TraceContext` |
| `TraceDelivery` | what the writer promises: an abstract specification |
| `AgentWriterDelivery` | the refinement mapping from `AgentWriter` to `TraceDelivery` |
| `RateLimiter`, `MCRateLimiter` | the rate limiter of the sampler |
| `RateLimiterProofs` | theorems about `RateLimiter` |
| `NativeProfiler`, `MCNativeProfiler` | the callbacks of `CorProfiler`, and `RejitHandler` |
| `NativeProfilerProofs` | theorems about `NativeProfiler` |
| `ILRewriter` | instruction lists and their export, as operators |
| `CallTarget`, `MCCallTarget` | the rewritten body and its execution; extends `ILRewriter` |
| `CallTargetProofs` | theorems about `CallTarget` and `ILRewriter` |

A definition whose name ends in `Variant` is a wrong version of the definition that follows it. No
specification uses it: it is there to show, as a mutant, that a property would notice the error.

### SpanBuffer and AgentWriter

A step is one access to state that another actor can see: `WriteTrace` is four steps (test of the
task, enqueue, `IsSet`, `Set`), `TryWrite` is two (enter and serialize to the temporary buffer; copy
and leave), `Clear` is two, because `IsFull` and `TraceCount` are read without the monitor.
`monitor[b]` is the owner of `_syncRoot`. The local variables of the threads are `pc`, `target`,
`item`, `hasDequeuedTraces`; those of the flushers are `fpc`, `plan` (what `FlushBuffers` still has to
flush), `previous` (the flush task awaited first) and `sending` (the stage of `InternalBufferFlush`).
A flush task is named by the flusher that owns it, and `None` is a completed one; `requesters` are the
threads that hold a reference to the current `_forceFlush`. `keeps` and `drops` are what the keep rate
calculator is told. `delivered`, `faulted`, `written` and `outcome` are history, for the properties.

Choices stand for what the code does not control: timers, the two 20 second delays of
`FlushAndCloseAsync`, and the answer of `Api.SendTracesAsync` (true; or false or an exception, which
count alike). Abstracted: bytes (a trace has a size), `SpanCount`, statistics, logging, the keep rate tag
that `SerializeTrace` writes on the root, the growth of the arrays. `Task.Run` in the .NET 4.5 branch
of `CompleteTaskCompletionSource` is not modelled. `CancelUpdates` belongs to the keep rate
calculator. `Ping` sends an empty payload and touches no state. Each trace is written by a thread of its own
and each flush or close call is made once: more calls are more elements of the constants.

### TraceContext

`AddSpan`, and the part of `CloseSpan` under `lock (this)`, are one step each. The sampling priority
and its lock flag are outside the lock, so the setter is two steps (test, assign), and the root takes
`LockSamplingPriority` and the metric as steps of their own before it enters the lock.
`PropagateMetadata` reads the priority once and touches only spans that its thread owns: one
step. The sampler's answer is a choice, never null, as `Tracer` always has a sampler. `parentPriority` is the
priority of the remote parent; as in `Tracer.CreateSpanContext`, it is assigned before the first
`AddSpan`. `PartialFlushMinSpans` may be 0: `TracerSettings` sets 500 when the configuration has no value or one that is not
positive, but does not assign a positive one (see below). Spans may be started at any time, also when the trace has been written completely. Left out:
global tags that set a priority before the first `AddSpan`, the span that `WebRequest`
instrumentation creates without adding it to its context, and the header that `Inject` writes.
`started`, `partialTrace` and `written` are history.

### TraceDelivery

The abstract specification has no queue, threads or buffers. A trace is new, pending, collected, sending, and at last
delivered, lost or faulty; a batch is a set of traces closed by one step and delivered or lost by another, which counts
each of its traces once. `AgentWriterDelivery` reads the state of a trace off the places where it may be (queue, hands of a
thread, buffers, stage of the flush), so a trace that vanishes from all of them, or is in two, shows as a step
that the specification does not allow. The refinement is claimed while the serialization thread runs: without it,
concurrent writers share `_temporaryBuffer` (see below).

### RateLimiter

One step is one access to shared state: `CompareExchange` of `_refreshing`, `Clock.UtcNow`, each assignment of the shift (the last two
together, as `_windowBegin` is read by the thread that refreshes only), each `TryPeek` with its `TryDequeue` (only the
refreshing thread dequeues), each interlocked increment, `Count`, `Enqueue`. The sums of `GetEffectiveRate` are two steps. The
clock, in ticks, does not go back. `enqueued` (all time stamps ever put into the queue), `calledAt`, `overlapped` and `torn` are history.

### NativeProfiler

The constants say which modules, methods and native images exist, which methods an integration targets, and which
methods of an image inline which. `pc[t]` names the next step of a thread, and the sets `ModuleLocked`, `ModulesLocked`,
`NgenLocked`, `ShutdownShared` say in front of which steps it holds which lock: a step ends where the code waits for a
lock, a promise or the end of a thread, and where it lets go of what others wait for. The locks
`m_methods_lock` and `m_ngenModulesLock` are innermost and held within one step. Every method of the handler takes the shutdown lock shared, some of them twice; the
second acquisition is taken to succeed (it could block behind a waiting writer on some platforms).

`fault` is where a thread goes that uses a deleted handler or a destroyed module. `armed` is history: the methods whose `RequestReJIT` came
after their replacement was stored. `requested`, `pending`, `loaded`, `gone` and `hooked` are the
runtime's. So are the answers about inliners (`Answers`): for each method that is looked up the runtime enumerates all inliners, or
calls its data incomplete and enumerates some of them, or none. A lookup that fails (data incomplete, call sequence, arguments) does what
the last of these does: nothing is enqueued, and the method is not marked. There is no bound on how often this happens. `asked`, `told` and `again` are
history: what has been looked up, which inliners were named, and whether the last lookup was one of incomplete data that named some. The runtime (marked external in the map) loads a module once, does not unload it while it reports its load or
compiles one of its methods, runs `InitializeProfiler` only after the startup hook, and calls `Shutdown` once. `JitDuringShutdown` says
whether `Shutdown` may be called while another thread is inside a JIT callback. The passing run says
no; the code has no protection of its own, as `NativeProfilerShutdown` shows.

`NgenCovered` promises as much as the runtime tells: an inliner that no answer has named is not known to the profiler. `NoStaleModules` is about `m_modules` and what
its entries own (methods, replacements, marks). It says nothing of `m_ngenModules`, from which the code never removes an image, nor of the marks of other
modules' methods for such an image: they keep the id of an image that is gone. In the model this has no effect, as the lookup of an image that is gone
fails and no id is used twice; a runtime that used one again for another image would find methods marked that were never looked up there.

Left out: call site mode (`is_calltarget_enabled` false), the modules that `ModuleLoadFinished` looks at for other
reasons (IIS, PInvoke maps, the managed profiler's own load), attachment, metadata, and a `module_ids_` entry that
outlives its module, which `ProcessModuleForRejit` skips because the runtime refuses its metadata. An AppDomain whose startup hook
failed is never tried again; the model has that (`JitLock`), and no property is about it.

### ILRewriter and CallTarget

An instruction is a record with an identity, so an insertion leaves branches to an instruction as they are, like the
pointers `m_pTarget` do. One record may stand for a straight run of instructions of some size. `Offsets` is the first
loop of a pass of `Export`, `TooFar` and `Widen` the second, `Export` (the action) one pass, and `Again` the `goto again`.

`CallTarget` runs a body twice. First as written: branches on a value and calls that may throw make choices, which are
recorded in `trail`; `result` is how the run ends. Then the body is rewritten and exported, or left alone
(`Skip`: any of the early returns of the callback), and run again with the same choices, while
`BeginMethod` and `EndMethod` may each throw; `outcome` is how this run ends. The interpreter works on offsets and on the exported
clauses, so a wrong displacement or a wrong clause changes what the method does. It stands for the runtime, and is
external in the map; it does not verify the body, so a body with inconsistent stack depths runs, with the effect its
instructions have. `EndMethod` returns the value it is given: an integration that changes the return value is free to
do so and is not the subject. `LogException` does not throw.

The methods are a constant, and `CallTargetAssumption` says what they are: what `Import` makes of the bytes (`Imported`:
distinct instructions, branches and clauses that refer to them, short branches that reach) and the rules of ECMA-335 that
any body must keep before a profiler sees it (`HandlersEnteredByClause`: control comes into a handler by an
exception or a leave only; `InstructionsInPlace`: it does not run off the end, `endfinally` and `rethrow` are in handlers of
their kind, `ret` is in no block). The runtime refuses a body that breaks them; TLC evaluates them on the 23 bodies.

Left out: `switch` tables, prefixes such as `tail.`, filters, a try block that ends with the last instruction (its handler would
have to lie in front of it), the header, the maximum stack, the limit `maxSize` on
the output, tokens and signatures. The sizes of the argument loading are the constants `BeginSize` and `EndSize`.

## Runs

| Run | Instance | Shows |
|---|---|---|
| `AgentWriterPipeline` | 3 traces (1 faulty), loop | `TypeOK`, `NoLostWakeup`, `NoStrandedTraces`, `EagerFlush`, `AtMostOnce`, `KeepRateConservation` |
| `AgentWriterFlush` | 1 trace, loop, 1 flush call | `PayloadIntact`, `FlushTracesPromise`, `FlushTracesTerminates`, `ImplementsDelivery` |
| `AgentWriterShutdown` | 1 trace, loop, 1 close call | `NoLostWakeup`, `FlushAndClosePromise`, `TracesSettle`, `ShutdownTerminates` |
| `AgentWriterDirect` | no serialization thread, 3 writers (1 faulty), 2 close calls | `PayloadIntact`, `KeepRateConservation` |
| `TraceContext` | 3 spans, 3 threads, 2 priorities, threshold 2 | `TypeOK`, `SpansConserved`, `OpenSpansCounts`, `NothingLeftBehind`, `ChunkPriority`, `CompleteTraceWritten` |
| `RateLimiter` | 2 threads with 2 calls each, limit 1, interval 1, 4 ticks | `TypeOK`, `OvershootBounded`, `RefusalRecent`, `RateAtMostOne` |
| `NativeProfiler` | 2 threads, 2 modules (1 native image), 2 integrations | `TypeOK`, `PairsCovered`, `NgenCovered`, `HandlerAlive`, `NoStaleModules`, `CallbacksReturn`, `QueueDrains` |
| `CallTarget` | 23 bodies | `TypeOK`, `BranchesExact`, `EndMatchesBegin`, `IntegrationIsolated`, `OutcomePreserved`, `EndSeesOutcome`, `MethodEnds` |
| `AgentWriterShutdownLoss` | 1 trace, loop, 1 close call | violation of `FlushAndCloseFlushes` |
| `TraceContextRootless` | 3 spans, 2 threads | violation of `RootlessChunkPriority` |
| `NativeProfilerShutdown` | as `NativeProfiler`, with JIT callbacks during the shutdown | violation of `HandlerAlive` |
| `CallTargetReturn` | as `CallTarget` | violation of `ReturnValueStored` |

The bounds. With `MaxBufferSize = 6` and traces of size 1 behind a header of 5, a buffer holds one trace: the second
trace fills it and swaps the buffers, the third is dropped if both are taken, and the faulty one throws.
(`AgentWriterDirect` has room for two, so that concurrent writers meet in one buffer.) Queue, buffers and counters are bounded by the
number of traces, so the models need no other bound. In `TraceContext`, two spans out of three trigger a partial flush, with
or without the root, and the third makes the last chunk; a trace can also be completed and started again.
In `RateLimiter`, two threads pass the limit of one together, a window passes and is shifted under a running call, and
time stamps expire, so the room is used again. In `NativeProfiler`, the framework's native image inlines the target in the application's
module, and both are targets; either is loaded first, unloaded or not, before or after each of the two calls of
`InitializeProfiler`; every lookup may be answered completely or not, any number of times. In `CallTarget`, the bodies have loops to the first
instruction, several returns, a catch and a finally of their own, and families of bodies whose branches, forward and
backward, fall just short of the limit of one byte, meet it, or exceed it, with one, two and three passes of
`Export`; an original run may choose three times to throw or to jump (`MaxChoices`). The refinement was also checked
by hand with two traces in a larger buffer and no flush call; with both it takes too long for a routine run.
Symmetry (of the traces that do not throw) is used only in runs without temporal properties. Deadlock is
checked, but for the runs with a close call, whose system is meant to stop.

### What the violations show

* The serialization thread tests `_processExit` after it has drained the queue. A trace
  enqueued between the two is left in the queue, and `FlushAndCloseAsync` returns without its
  warning. What does hold is `FlushAndClosePromise`: no such trace is left in a buffer. In the same gap
  a watermark can be enqueued that is never run; its `FlushTracesAsync` then does not return. Without a
  shutdown it returns (`FlushTracesTerminates`).
* When the root leaves with a partial flush, the last chunk carries no sampling priority at all.
  What does hold is `ChunkPriority`.
* `JITInlining` and `GetReJITParameters` take no lock of `CorProfiler`. One that has passed its test when `Shutdown` deletes
  the handler uses the deleted object. With such callbacks in flight the shutdown can also block: it holds
  `m_modules_lock` and waits for the exclusive shutdown lock, which a callback holds shared while it waits for
  `m_modules_lock`: with `JitDuringShutdown` TRUE, TLC also finds `CallbacksReturn` violated, with a `JITInlining` inside
  `HasModuleAndMethod` and `Shutdown` waiting for one another. When the JIT is at rest, `HandlerAlive` and `CallbacksReturn` hold.
* A branch to a `RET` with the value on the stack skips the `StLocal` inserted in front of it, and the `LEAVE_S` discards the
  value. What does hold for the other bodies is `OutcomePreserved`.

Three smaller disagreements between the words and the code have no run. `ConfigurationKeys.PartialFlushMinSpans` is to "set the minimum number of closed spans in a
trace before it's partially flushed", but the constructor of `TracerSettings` (`TracerSettings.cs:208-213`) assigns the property only when the value is missing or not
positive: a positive one leaves the field 0, and `ShouldTriggerPartialFlush` then flushes every span that is closed (only code that sets the property gets the
threshold it wants). `TraceContext` takes any natural number, and `NothingLeftBehind` says that no span waits if it is 0; the run has
2, and was repeated by hand with 0. `FlushBuffer` locks the buffer before it stores the flush task, so a `FlushTracesAsync` that
comes in between returns while the loop still sends; `FlushTracesPromise` says what it does guarantee: nothing is
left but in a buffer that is being sent. And the branch of `AddSpan` that locks a propagated priority is never taken, as `Tracer` has already
assigned that priority.

Two waits of the native profiler lie outside what its properties claim. `InitializeProfiler` with an empty list of integrations would wait
for ever, holding two locks, for the promise that the rejit thread drops (`rejit_handler.cpp:284`); its one managed caller
passes the generated definitions, which are not empty (`ConstantsAssumption`). And while the runtime names inliners of a method and calls its data incomplete, every request that the rejit thread makes looks the method up again and
enqueues the same inliners, so the queue need not become empty; `QueueDrains` is stated for behaviours in which this comes to an end.

After the serialization thread has ended, application threads serialize directly and share
`_temporaryBuffer`; when they write to different buffers, one can copy the bytes of the other. The model has this
race, which is why `AtMostOnce` is stated for the time while the thread runs;
`AgentWriterDirect` shows what holds nevertheless.

### Fairness

`FairSpec` of `AgentWriter` assumes that a thread or task that can take a step takes it
(weak fairness per actor): the operating system schedules threads, the thread pool runs continuations, `Task.Delay`
ends, and a request to the agent ends since its transport has a timeout. It does not assume that the
application calls anything, nor which of a task and a delay wins. A flusher waiting for a
buffer's monitor has strong fairness: the monitor is held for a short time, and the loop that competes for it
sleeps for a second in between. `FairSpec` of `TraceContext` assumes that a thread inside `Finish`
or the setter goes on; nothing makes the application finish a span. `FairSpec` of `NativeProfiler` assumes weak fairness of every
thread that is inside a callback, and of the rejit thread; nothing makes the runtime start a callback. `FairSpec` of `CallTarget` assumes
that the rewriter and the method go on; the loops of the original run end since `MaxChoices` bounds their jumps, and the other run
repeats them. `RateLimiter` has no liveness property.

## Proofs

Everything below holds for any number of traces, callers, spans and threads, and for any
sizes and limits that satisfy the assumptions of the modules: the buffer limit is at least the header (the constructor
throws otherwise), a trace has a positive size, the actors are distinct, the threshold of the partial flush is
a natural number, there are finitely many threads that call the rate limiter, and the methods that a native image
is asked for as inliners are methods of that image (the runtime enumerates the inliners within one image). For `CallTarget` it holds
for any set of methods that keep `CallTargetAssumption`, any sizes of what is added, and original runs of any length.

`AgentWriterProofs`:

* `TypeCorrect`. `TypeOK` alone is not inductive: a step takes the head of a plan or serializes the item in hand. `TypeInv`
  adds where a thread can be (`PcInv`), that it has an item when it serializes (`ItemInv`) and a plan
  when it flushes (`PlanInv`).
* `NoLostWakeupCorrect`, from `WakeInv`: the property also while the thread is between its drain
  and its `Wait`, where it is not visible yet that the queue was empty.
* `PayloadIntactCorrect`, from `LockInv`: `PayloadIntact` with `MonitorInv`, who holds which
  monitor. A writer in `TryWrite` excludes the `Lock` that would write the header under it.
* `NoStrandedTracesCorrect`, from `SwapInv`: why the serialization thread left a buffer, at each stage of the
  swap. `IsFull` is set before the swap and only a flush clears it, together with the traces.
* `EagerFlushCorrect`, from `EagerInv`: where the signal is (in the thread that is about to complete `_forceFlush`, in the
  completed `_forceFlush`, or in the iteration of the loop that it has caused).

`TraceContextProofs`:

* `TypeCorrect`, `SpansConservedCorrect`, `OpenSpansCorrect`, from one invariant, `SpanInv`: the types but for the
  sign of the count, who holds spans (`HolderInv`), `SpansConserved`, and the count as a cardinality
  (`CountInv`). They need each other: the count cannot become negative because the span being closed is one of those
  counted, which follows from its being in one place only.
* `NothingLeftBehindCorrect`, inductive given the types.
* `ChunkPriorityCorrect`, from `ChunkInv`: once there is a root there is a priority, only the root passes
  through the steps that set its metric, and a finished root without the metric is still in them. That no other thread
  changes the metrics of a chunk is `SpansConserved`.

`AgentWriterDeliveryProofs`:

* `AtMostOnceCorrect`. The invariant `PlaceInv` says of every trace in which places it can be: the queue, the hands of the serialization
  thread, one of the buffers, delivered, faulty. It would be long to show it for every action, so `Kinds` first says what a step
  does to these places: nothing, or one of nine things (a trace is accepted, taken, collected, refused, or found faulty; a buffer is closed, sent
  with either answer, cleared, unlocked). `StepKinds` proves that every action is of a kind, `PlacesKept` that every kind keeps the places. `TempInv` says that
  the temporary buffer holds the trace being copied; it is why all this is claimed while the serialization thread runs: afterwards, writers that serialize
  for themselves share that buffer.
* `DeliveryRefined`: `Spec` implies the specification of `TraceDelivery` under the mapping of `AgentWriterDelivery`, on behaviours in which the
  serialization thread does not end (the hypothesis `[]~SerializationCompleted`, for the reason above). The initial states map to initial
  states, and each kind of step to one action of `TraceDelivery` or to a stutter.

`AgentWriterFlushProofs`:

* `FlushTracesPromiseCorrect`, from `FlushCallInv`: the watermark of a call is in the queue once, behind the traces written before the call
  (`WatermarkInv`, `WrittenInv`), so they are past the serializer when it is run; from then on, a buffer which the call has gone by
  has none of them, or a flush has it locked. `Ahead` is what the call has still to look at, including the buffer at whose lock it waits.
* `FlushAndClosePromiseCorrect`, from `ClosingInv`, under `AutomaticFlush`, which is what the constructor of `AgentWriter` sets unless a test or a benchmark asks
  otherwise. The difficulty is what comes after the shutdown: writers that serialize for themselves go on filling the buffers, and with the shared
  temporary buffer they copy one another's traces; but a trace written before the close call is with none of them. In a writer that never had a
  serialization thread it may be, and the property fails: TLC finds this with two traces, one flush call and one close call.

`AgentWriterAccountProofs`:

* `KeepRateConservationCorrect`, from `AccountInv`: the balance with what makes it move by one at a time: before it reaches a buffer, a
  trace is in one place (`OnePlace`), also after the shutdown. `AccountKinds` sorts the steps by what they do to the account. The sum counts buffers by
  number and not by content, so the race on the temporary buffer does not disturb it, and no hypothesis is needed.

`RateLimiterProofs`:

* `TypeCorrect`; `OvershootIsBounded`, from `QueueInv` (the queue is the end of the sequence of all time stamps, and what has left it
  has expired) and `OvershootInv` (the traces allowed in an interval, and the threads that have seen room and may still be
  allowed in it, are bounded together: the thread that sees room last counts for one of the others).
* `RefusalsAreRecent`, from `RefreshInv`, `ActiveInv` and `AloneInv`: a call that no other overlaps refreshes the window itself, so the queue that it
  finds full has a head within the interval.
* `RateIsAtMostOne`, from `RateInv`: a check is counted before what it allows, and a shift of the window which meets no other call moves both counts.

`NativeProfilerProofs`:

* `TypeCorrect`, with `ArgInv`: what a thread holds in front of each step.
* `HandlerStaysAlive`, from `SafeInv`: who holds the module lock (`LockInv`), that the handler is deleted only when detached
  (`AttachInv`), that callbacks in progress are about loaded modules (`LoadInv`), that a promise belongs to a thread that waits in `InitializeProfiler` with
  the module lock, so that nothing is unloaded behind the rejit thread (`PromiseInv`, `RejitLoadInv`), and `AliveInv`. It assumes `~JitDuringShutdown`, as
  the passing run does: without it, `NativeProfilerShutdown` violates the property.
* `NoModuleIsStale`, from `SafeInv`, `KeptInv` (a method is kept in the entry of its module, and a mark in that of its method) and `EndInv`. The last is about the
  end: a module unloaded after `is_attached_` was reset goes without `RemoveModule`, and what is left of it goes with the tables in `RejitHandler::Shutdown`.
  Nobody fills them again, because `Shutdown` has joined the rejit thread, waits for the callbacks inside the handler, and holds the module lock that the other
  ones need. This needs no assumption about the JIT.
* `TargetsAreCovered`, from `PairsInv`: each target of a loaded module has been requested with its replacement in place, or is on its way, for the integrations known and
  for those that come with a promise in progress. `InlinersAreCovered`, from `NgenInv`, for every answer that the runtime may give: an inliner that was named is requested or
  on its way, a mark in `ngenDone` means that all inliners were named, and a method that has not been looked up in an image will be, by a thread that
  can be named.

`CallTargetProofs` proves every invariant of the run `CallTarget`:

* `ExportExact`: every exported displacement leads to its target. `Export` widens branches until none is too far, so the theorem rests on
  what the offsets are (`OffsetsAre`: each is the one before it and the size in between) and on the instruction list being, in every phase, the method's
  own or the one the rewriter makes of it, with branches only made longer (`ListInv`, `Shaped`).
* `RunTypeOK`, `EndOnce`, `Isolation`, `SameOutcome` and `OutcomeTold`, from one invariant, `RunInv`. None of the five is near to inductive: that the
  second run ends as the first depends on where the first has been. The argument has these steps.
  - *Places.* A step in the method's own instructions is a function of a moment: the place, the stack, what the handlers hold, the choices used.
    `Path(m, trail, u, v)` says that the run leads from `u` to `v`.
  - *The first run* is on the path from the start with the choices that it has recorded (`First`), so when it ends `Path` leads from the start to its
    result (`Ending`).
  - *Two lists, one run.* An original instruction at its place in the rewritten list does what it does in the method, until the method ends: offsets
    differ, but places correspond, and the added clauses, which come after the method's own, are not reached by an exception or a leave that one of
    its own clauses takes. So the second run is somewhere on the path from the start to `result`. For a body that was left alone (`Skip`) this is all
    (`PlainRun`).
  - *Zones.* A rewritten run is in front of the method (`InBegin`: `BeginMethod` and the catch that logs what it throws), in the method (`InBody`), at a
    return whose value was stored (`InReturn`), in the catch that keeps the exception (`InCatch`), in the finally with `EndMethod` and its own catch
    (`InFinally`), or behind it (`InOut`). For each zone it is said what the two locals hold, whether `EndMethod` has run, and what is known of the end to
    come. A step leads within a zone or on to another; there is no way around the finally and no way through it twice.
  - `Over` is what the last zone leaves behind, and implies the properties of a call that is done.

TLAPS has no induction over data here, and this proof needs it several times (along a list, along a run, in the sum of the sizes, for the least clause). It is
had from finite sets: `SetInduction` takes a set of numbers that holds 0 and with each number the next; were one missing, the numbers
up to it in the set would be mapped by +1 into themselves without 0, against the cardinality. A path is not a sequence but the statement that *every* set
of moments that holds `u` and, with a moment, the one that follows, holds `v`. The recursive functions that `ILRewriter` defines (`Offsets`, and the
flattening in `Rewritten`) are shown to exist in the same way, before anything is said of their values.

Of the inductive invariants, those of the other modules were checked with TLC before they were proved. `RunInv` and `ListInv` quantify over sets of moments and
over lists, which TLC cannot enumerate: TLC checked the properties that follow from them, and the wrong versions show that these can fail.

Every invariant of a passing run is now stated by a theorem. The one action property that is a refinement (`ImplementsDelivery`) is proved by `DeliveryRefined`. Only model-checked: all
liveness (`FlushTracesTerminates`, `TracesSettle`, `ShutdownTerminates`, `CompleteTraceWritten`, `CallbacksReturn`, `QueueDrains`, `MethodEnds`), which TLAPS
does not reach.

## Not modelled, and the plan

Not modelled yet, and worth it: `MovingAverageKeepRateCalculator` (the ring of buckets and its sums), `AppSecAgentWriter` (a smaller
producer and consumer), `GrowingCollection` and `LogGroupMutex` (used by the shared logging code), the call site mode of the
native profiler (superseded by call target, but still in the code).

Not planned: transports and formatters (input/output and encoding; their callers see success, refusal or an exception), settings
(parsing; what they leave behind are assumptions on constants), duck typing (code generation), integrations (adapters that start and finish spans), CI visibility and runtime
metrics (clients of the same pipeline without a protocol of their own), the rules of the sampler (evaluated on tags, which are
data), `AsyncLocalScopeManager` (its state is local to an execution context), `LifetimeManager` (a list of hooks run once),
`TracingProcessManager` (processes and files of Azure App Services), `LogRateLimiter`.

Most of the C and C++ in the repository is not the tracer's: the headers of CoreCLR and the vendored libraries under
`Datadog.Trace.ClrProfiler.Native/lib`. Of its own native code, about fifteen thousand lines, much is access to metadata through the
runtime's interfaces (`clr_helpers`, signatures, tokens, resource loading), logging and configuration, which keeps no state that a
property could be about.
