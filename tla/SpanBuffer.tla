----------------------------- MODULE SpanBuffer -----------------------------
(***************************************************************************)
(* Datadog.Trace.Agent.SpanBuffer: the byte buffer in which the agent      *)
(* writer gathers serialized traces until they are sent.                   *)
(*                                                                         *)
(* A buffer is a record; the operations of the class are operators from    *)
(* records to records, used by AgentWriter under the buffer's monitor.     *)
(* The bytes are abstracted to the sequence of the traces they encode      *)
(* (field "traces", whose length is TraceCount) and to the write position  *)
(* (field "offset", in the units of Size).  "header" is the array header   *)
(* that Lock writes in front of the traces.                                *)
(***************************************************************************)
EXTENDS Integers, Sequences

CONSTANTS
    Traces,         \* the traces the application produces
    Size,           \* Size[t]: length of trace t once serialized
    MaxBufferSize   \* constructor argument maxBufferSize

\* Bytes reserved in front of the traces for the MessagePack array header.
HeaderSize == 5

\* The constructor throws when the buffer cannot hold its own header.
ASSUME MaxBufferSizeAssumption ==
    MaxBufferSize \in Nat /\ MaxBufferSize >= HeaderSize

\* A trace has at least one span, so it never serializes to nothing.
ASSUME SizeAssumption == Size \in [Traces -> Nat \ {0}]

SpanBuffers ==
    [traces : Seq(Traces), offset : HeaderSize .. MaxBufferSize,
     isFull : BOOLEAN, locked : BOOLEAN, header : Nat]

NewSpanBuffer ==
    [traces |-> <<>>, offset |-> HeaderSize,
     isFull |-> FALSE, locked |-> FALSE, header |-> 0]

TraceCount(b) == Len(b.traces)

\* Variant: the limit forgets the header.
EnsureCapacityVariant(minDesiredSize) ==
    minDesiredSize <= MaxBufferSize + HeaderSize

\* EnsureCapacity: the array grows on demand, but never past maxBufferSize.
EnsureCapacity(minDesiredSize) == minDesiredSize <= MaxBufferSize

(***************************************************************************)
(* The end of TryWrite, once trace t has been serialized to the temporary  *)
(* buffer: either it does not fit, and the buffer is marked full, or Size  *)
(* of t bytes are copied.  The bytes are those that the temporary buffer   *)
(* holds at that moment, an encoding of trace "bytes".                     *)
(***************************************************************************)
Fits(b, t) == EnsureCapacity(Size[t] + b.offset)

\* Variant: a buffer that refuses a trace is not marked.
MarkFullVariant(b) == b

MarkFull(b) == [b EXCEPT !.isFull = TRUE]

Append1(b, t, bytes) ==
    [b EXCEPT !.traces = Append(@, bytes), !.offset = @ + Size[t]]

\* Lock, when the buffer is not locked yet: write the header, then lock.
Lock(b) == [b EXCEPT !.header = TraceCount(b), !.locked = TRUE]

\* Variant: the write position is reset, the counters are not.
ClearContentVariant(b) == [b EXCEPT !.offset = HeaderSize, !.isFull = FALSE]

(***************************************************************************)
(* Clear holds the monitor for its whole body, but IsFull and TraceCount   *)
(* are read without it, and TryWrite only tries to enter it.  So the reset *)
(* of the counters and the unlocking are two steps: between them the       *)
(* buffer looks empty and refuses writes.                                  *)
(***************************************************************************)
ClearContent(b) ==
    [b EXCEPT !.offset = HeaderSize, !.traces = <<>>, !.isFull = FALSE]

\* The header is dead from here until the next Lock.
Unlock(b) == [b EXCEPT !.locked = FALSE, !.header = 0]
=============================================================================
