---------------------------- MODULE TraceContext ----------------------------
(***************************************************************************)
(* Datadog.Trace.TraceContext, with the part of Span and Tracer that       *)
(* drives it: the spans of one local trace are started and finished by     *)
(* application threads; the context gathers the finished spans, gives them *)
(* to Tracer.Write when none is open or when enough are waiting (a partial *)
(* flush), and decides the sampling priority of the trace.                 *)
(*                                                                         *)
(* AddSpan, and the middle of CloseSpan, hold the lock of the context.     *)
(* The sampling priority and its lock flag are read and written without    *)
(* it, so each of their accesses is a step.                                *)
(***************************************************************************)
EXTENDS Integers, Sequences, FiniteSets

CONSTANTS
    Spans,                \* the spans of the trace
    Threads,              \* application threads
    Priorities,           \* values of SamplingPriority
    PartialFlushEnabled,  \* Settings.PartialFlushEnabled
    PartialFlushMinSpans, \* Settings.PartialFlushMinSpans
    None                  \* no span; no priority

\* TracerSettings sets a PartialFlushMinSpans that is missing or not positive to 500.  It
\* does not assign one that is positive: the field stays 0, unless code sets the property,
\* which refuses what is not positive.
ASSUME SettingsAssumption ==
    /\ PartialFlushEnabled \in BOOLEAN
    /\ PartialFlushMinSpans \in Nat

ASSUME NoneAssumption == None \notin Spans /\ None \notin Priorities

VARIABLES
    parentPriority,         \* priority in the context of the remote parent
    rootSpan,               \* RootSpan
    openSpans,              \* _openSpans
    spans,                  \* _spans: finished spans not yet handed over
    samplingPriority,       \* _samplingPriority
    samplingPriorityLocked, \* _samplingPriorityLocked
    started,                \* spans that StartSpan has returned
    isFinished,             \* spans whose IsFinished is set
    metric,                 \* metric[s]: the sampling priority metric of s
    pc,                     \* pc[th]: where thread th is
    span,                   \* span[th]: argument of CloseSpan
    value,                  \* value[th]: argument of the priority's setter
    chunk,                  \* chunk[th]: local variable spansToWrite
    partial,                \* partial[th]: local shouldPropagateMetadata
    partialTrace,           \* a partial flush has happened
    written                 \* written[s]: times s was given to Tracer.Write

priorityVars == <<samplingPriority, samplingPriorityLocked>>
spanVars == <<started, isFinished, metric>>
threadVars == <<pc, span, value, chunk, partial>>
outputVars == <<partialTrace, written>>
vars == <<parentPriority, rootSpan, openSpans, spans, priorityVars, spanVars,
          threadVars, outputVars>>

\* CreateSpanContext: the priority of a remote parent is assigned when the
\* context is created.
Init ==
    /\ parentPriority \in Priorities \cup {None}
    /\ rootSpan = None
    /\ openSpans = 0
    /\ spans = <<>>
    /\ samplingPriority = parentPriority
    /\ samplingPriorityLocked = FALSE
    /\ started = {}
    /\ isFinished = {}
    /\ metric = [s \in Spans |-> None]
    /\ pc = [th \in Threads |-> "idle"]
    /\ span = [th \in Threads |-> None]
    /\ value = [th \in Threads |-> None]
    /\ chunk = [th \in Threads |-> <<>>]
    /\ partial = [th \in Threads |-> FALSE]
    /\ partialTrace = FALSE
    /\ written = [s \in Spans |-> 0]

-----------------------------------------------------------------------------
(***************************************************************************)
(* AddSpan, called by StartSpan.  The first span becomes the root; it      *)
(* decides the priority if there is none yet, sampled being the answer of  *)
(* the sampler.  A span may be started at any time, also when all spans    *)
(* before it have been handed over.                                        *)
(***************************************************************************)
AddSpan(th, s, sampled) ==
    LET decides == rootSpan = None /\ samplingPriority = None
        inherits == decides /\ parentPriority # None
    IN  /\ pc[th] = "idle"
        /\ s \notin started
        /\ started' = started \cup {s}
        /\ rootSpan' = IF rootSpan = None THEN s ELSE rootSpan
        /\ samplingPriority' = IF inherits THEN parentPriority
                               ELSE IF decides THEN sampled
                               ELSE samplingPriority
        /\ samplingPriorityLocked' = (samplingPriorityLocked \/ inherits)
        /\ openSpans' = openSpans + 1
        /\ UNCHANGED <<parentPriority, spans, isFinished, metric, threadVars,
                       outputVars>>

-----------------------------------------------------------------------------
(***************************************************************************)
(* The setter of SamplingPriority, called for any span of the trace by     *)
(* SetTag or SetTraceSamplingPriority: the test, then the assignment.      *)
(***************************************************************************)
SetSamplingPriority(th, p) ==
    /\ pc[th] = "idle"
    /\ started # {}
    /\ ~samplingPriorityLocked
    /\ value' = [value EXCEPT ![th] = p]
    /\ pc' = [pc EXCEPT ![th] = "assign"]
    /\ UNCHANGED <<parentPriority, rootSpan, openSpans, spans, priorityVars,
                   spanVars, span, chunk, partial, outputVars>>

AssignSamplingPriority(th) ==
    /\ pc[th] = "assign"
    /\ samplingPriority' = value[th]
    /\ value' = [value EXCEPT ![th] = None]
    /\ pc' = [pc EXCEPT ![th] = "idle"]
    /\ UNCHANGED <<parentPriority, rootSpan, openSpans, spans,
                   samplingPriorityLocked, spanVars, span, chunk, partial,
                   outputVars>>

\* LockSamplingPriority: nothing is locked while there is no priority.
LockSamplingPriority ==
    samplingPriorityLocked' =
        (samplingPriorityLocked \/ samplingPriority # None)

\* SpanContextPropagator.Inject locks the priority that it sends.
Inject(th) ==
    /\ pc[th] = "idle"
    /\ started # {}
    /\ LockSamplingPriority
    /\ UNCHANGED <<parentPriority, rootSpan, openSpans, spans,
                   samplingPriority, spanVars, threadVars, outputVars>>

-----------------------------------------------------------------------------
(***************************************************************************)
(* Span.Finish and CloseSpan                                               *)
(***************************************************************************)

\* Variant: every call of Finish closes the span.
FinishVariant(th, s) ==
    /\ pc[th] = "idle"
    /\ s \in started
    /\ isFinished' = isFinished \cup {s}
    /\ span' = [span EXCEPT ![th] = s]
    /\ pc' = [pc EXCEPT ![th] =
                IF s = rootSpan THEN "lockPriority" ELSE "close"]
    /\ UNCHANGED <<parentPriority, rootSpan, openSpans, spans, priorityVars,
                   started, metric, value, chunk, partial, outputVars>>

\* Finish, under the lock of the span: only the first call closes the span.
Finish(th, s) ==
    /\ pc[th] = "idle"
    /\ s \in started \ isFinished
    /\ isFinished' = isFinished \cup {s}
    /\ span' = [span EXCEPT ![th] = s]
    /\ pc' = [pc EXCEPT ![th] =
                IF s = rootSpan THEN "lockPriority" ELSE "close"]
    /\ UNCHANGED <<parentPriority, rootSpan, openSpans, spans, priorityVars,
                   started, metric, value, chunk, partial, outputVars>>

\* CloseSpan of the root: LockSamplingPriority.
CloseRoot(th) ==
    /\ pc[th] = "lockPriority"
    /\ LockSamplingPriority
    /\ pc' = [pc EXCEPT ![th] = "setMetric"]
    /\ UNCHANGED <<parentPriority, rootSpan, openSpans, spans,
                   samplingPriority, spanVars, span, value, chunk, partial,
                   outputVars>>

\* CloseSpan of the root: the metric, if there is a priority.
SetRootMetric(th) ==
    /\ pc[th] = "setMetric"
    /\ metric' = [metric EXCEPT ![span[th]] =
                    IF samplingPriority = None THEN @ ELSE samplingPriority]
    /\ pc' = [pc EXCEPT ![th] = "close"]
    /\ UNCHANGED <<parentPriority, rootSpan, openSpans, spans, priorityVars,
                   started, isFinished, span, value, chunk, partial,
                   outputVars>>

\* Variant: the count of open spans is not looked at.
TakesAllVariant(open, finished) ==
    PartialFlushEnabled /\ Len(finished) >= PartialFlushMinSpans

\* Variant: off by one.
ShouldTriggerPartialFlushVariant(finished) ==
    PartialFlushEnabled /\ Len(finished) > PartialFlushMinSpans

ShouldTriggerPartialFlush(finished) ==
    PartialFlushEnabled /\ Len(finished) >= PartialFlushMinSpans

\* The finished spans are handed over.
TakesAll(open, finished) ==
    open = 0 \/ ShouldTriggerPartialFlush(finished)

\* Variant: the builder keeps the spans that it has handed over.
RemainingVariant(takes, finished) == finished

\* The new value of _spans.
Remaining(takes, finished) == IF takes THEN <<>> ELSE finished

\* CloseSpan, under the lock of the context.
CloseSpan(th) ==
    LET open == openSpans - 1
        finished == Append(spans, span[th])
        takes == TakesAll(open, finished)
        isPartial == takes /\ open # 0
    IN  /\ pc[th] = "close"
        /\ openSpans' = open
        /\ spans' = Remaining(takes, finished)
        /\ chunk' = [chunk EXCEPT ![th] = IF takes THEN finished ELSE <<>>]
        /\ partial' = [partial EXCEPT ![th] = isPartial]
        /\ partialTrace' = (partialTrace \/ isPartial)
        /\ span' = [span EXCEPT ![th] = None]
        /\ pc' = [pc EXCEPT ![th] = IF ~takes THEN "idle"
                                    ELSE IF isPartial THEN "propagate"
                                    ELSE "write"]
        /\ UNCHANGED <<parentPriority, rootSpan, priorityVars, spanVars, value,
                       written>>

Contains(q, s) == \E i \in 1 .. Len(q) : q[i] = s

\* Variant: only the last span of the chunk gets the priority.
PropagateMetadataVariant(th) ==
    /\ pc[th] = "propagate"
    /\ metric' = [metric EXCEPT ![chunk[th][Len(chunk[th])]] =
                    IF samplingPriority = None THEN @ ELSE samplingPriority]
    /\ pc' = [pc EXCEPT ![th] = "write"]
    /\ UNCHANGED <<parentPriority, rootSpan, openSpans, spans, priorityVars,
                   started, isFinished, span, value, chunk, partial,
                   outputVars>>

\* PropagateMetadata reads the priority once; no other thread sees the spans.
PropagateMetadata(th) ==
    /\ pc[th] = "propagate"
    /\ metric' = [s \in Spans |->
                    IF samplingPriority # None /\ Contains(chunk[th], s)
                    THEN samplingPriority ELSE metric[s]]
    /\ pc' = [pc EXCEPT ![th] = "write"]
    /\ UNCHANGED <<parentPriority, rootSpan, openSpans, spans, priorityVars,
                   started, isFinished, span, value, chunk, partial,
                   outputVars>>

\* The number of occurrences of s in the sequence q.
Copies(q, s) == Cardinality({i \in 1 .. Len(q) : q[i] = s})

\* Tracer.Write
Write(th) ==
    /\ pc[th] = "write"
    /\ written' = [s \in Spans |-> written[s] + Copies(chunk[th], s)]
    /\ chunk' = [chunk EXCEPT ![th] = <<>>]
    /\ partial' = [partial EXCEPT ![th] = FALSE]
    /\ pc' = [pc EXCEPT ![th] = "idle"]
    /\ UNCHANGED <<parentPriority, rootSpan, openSpans, spans, priorityVars,
                   spanVars, span, value, partialTrace>>

-----------------------------------------------------------------------------

\* What a thread does once it has called Finish.
Close(th) ==
    \/ CloseRoot(th) \/ SetRootMetric(th) \/ CloseSpan(th)
    \/ PropagateMetadata(th) \/ Write(th)

Next ==
    \E th \in Threads :
        \/ \E s \in Spans, p \in Priorities : AddSpan(th, s, p)
        \/ \E p \in Priorities : SetSamplingPriority(th, p)
        \/ AssignSamplingPriority(th)
        \/ Inject(th)
        \/ \E s \in Spans : Finish(th, s)
        \/ Close(th)

Spec == Init /\ [][Next]_vars

\* A thread inside a call goes on; nothing makes the application finish a span.
Fairness ==
    \A th \in Threads : WF_vars(AssignSamplingPriority(th) \/ Close(th))

FairSpec == Spec /\ Fairness

-----------------------------------------------------------------------------
(***************************************************************************)
(* Properties                                                              *)
(***************************************************************************)

ClosingPc == {"lockPriority", "setMetric", "close"}

HandingOverPc == {"propagate", "write"}

\* Type invariant.
TypeOK ==
    /\ parentPriority \in Priorities \cup {None}
    /\ rootSpan \in Spans \cup {None}
    /\ openSpans \in Nat
    /\ spans \in Seq(Spans)
    /\ samplingPriority \in Priorities \cup {None}
    /\ samplingPriorityLocked \in BOOLEAN
    /\ started \in SUBSET Spans
    /\ isFinished \in SUBSET Spans
    /\ metric \in [Spans -> Priorities \cup {None}]
    /\ pc \in [Threads -> {"idle", "assign"} \cup ClosingPc \cup HandingOverPc]
    /\ span \in [Threads -> Spans \cup {None}]
    /\ value \in [Threads -> Priorities \cup {None}]
    /\ chunk \in [Threads -> Seq(Spans)]
    /\ partial \in [Threads -> BOOLEAN]
    /\ partialTrace \in BOOLEAN
    /\ written \in [Spans -> Nat]

\* th has marked s finished and not yet entered the lock of the context.
Closing(th, s) == pc[th] \in ClosingPc /\ span[th] = s

IsDistinct(q) ==
    \A i, j \in 1 .. Len(q) : q[i] = q[j] => i = j

\* However the threads interleave, a finished span is in exactly one place:
\* with the thread that closes it, among the spans that wait, in a chunk that a
\* thread carries to Tracer.Write, or written once.  So no span is lost when
\* Finish races with a partial flush, and none is written twice.
SpansConserved ==
    /\ IsDistinct(spans)
    /\ \A th \in Threads : IsDistinct(chunk[th])
    /\ \A s \in Spans :
         /\ s \in isFinished <=>
              \/ \E th \in Threads : Closing(th, s) \/ Contains(chunk[th], s)
              \/ Contains(spans, s)
              \/ written[s] # 0
         /\ \A th, u \in Threads :
              /\ Closing(th, s) /\ Closing(u, s) => th = u
              /\ Contains(chunk[th], s) /\ Contains(chunk[u], s) => th = u
              /\ ~(Closing(th, s) /\ Contains(chunk[u], s))
         /\ Contains(spans, s) =>
              \A th \in Threads : ~Closing(th, s) /\ ~Contains(chunk[th], s)
         /\ written[s] # 0 =>
              /\ written[s] = 1
              /\ ~Contains(spans, s)
              /\ \A th \in Threads : ~Closing(th, s) /\ ~Contains(chunk[th], s)

\* _openSpans counts the spans that have been started and not yet closed, so
\* that reaching zero really means that the trace is complete.
OpenSpansCounts ==
    openSpans = Cardinality({s \in started :
                    s \in isFinished => \E th \in Threads : Closing(th, s)})

\* Nothing waits for a flush that will not come: spans wait only while another
\* span is open, and fewer than PartialFlushMinSpans of them if partial
\* flushes are enabled.  With the 0 that a configured threshold leaves behind, no
\* span waits at all.
NothingLeftBehind ==
    /\ openSpans = 0 => spans = <<>>
    /\ PartialFlushEnabled => spans = <<>> \/ Len(spans) < PartialFlushMinSpans

\* The agent finds the priority in a chunk: a partial chunk carries one
\* priority on all of its spans, also when other threads set the priority
\* meanwhile, and in any other chunk with the root, the root carries one.
ChunkPriority ==
    \A th \in Threads : pc[th] = "write" =>
        IF partial[th]
        THEN \E p \in Priorities :
               \A i \in 1 .. Len(chunk[th]) : metric[chunk[th][i]] = p
        ELSE Contains(chunk[th], rootSpan) => metric[rootSpan] # None

\* Once no span is open, every finished span gets written.
CompleteTraceWritten ==
    \A s \in Spans : s \in isFinished /\ openSpans = 0 ~> written[s] = 1

\* What the comment in CloseSpan says: in a trace that is flushed in parts, a
\* chunk that lacks the root needs the priority on its other spans.
RootlessChunkPriority ==
    \A th \in Threads :
        pc[th] = "write" /\ partialTrace /\ ~Contains(chunk[th], rootSpan) =>
            \A i \in 1 .. Len(chunk[th]) : metric[chunk[th][i]] # None
=============================================================================
