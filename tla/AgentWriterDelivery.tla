------------------------- MODULE AgentWriterDelivery -------------------------
(***************************************************************************)
(* AgentWriter implements TraceDelivery as long as its serialization       *)
(* thread runs.  The state of a trace is read off the places it may be in, *)
(* so a trace that disappears from all of them, or shows up in two, is     *)
(* seen as a step that TraceDelivery does not allow.                       *)
(***************************************************************************)
EXTENDS AgentWriter

TracesIn(b) == {buffer[b].traces[i] : i \in DOMAIN buffer[b].traces}

\* The buffers whose traces SendTracesAsync is sending, and those whose traces it has sent.
Sending == {Head(plan[f]) : f \in {g \in Flushers : sending[g] = "send"}}
Sent == {Head(plan[f]) : f \in {g \in Flushers : sending[g] \in {"clear", "unlock"}}}

StatusOf(t) ==
    CASE pc[t] \in {"idle", "enqueue"} -> "new"
      [] \E i \in DOMAIN pendingTraces : pendingTraces[i] = t -> "pending"
      [] \E p \in {t, Serializer} : TraceOf(p) = t /\ pc[p] \in SerializePc -> "pending"
      [] \E b \in Sending : t \in TracesIn(b) -> "sending"
      [] \E b \in Buffers \ (Sending \cup Sent) : t \in TracesIn(b) -> "collected"
      [] delivered[t] > 0 -> "delivered"
      [] t \in faulted -> "faulty"
      [] OTHER -> "lost"

Delivery ==
    INSTANCE TraceDelivery WITH
        status <- [t \in Traces |-> StatusOf(t)],
        batches <- {TracesIn(b) : b \in Sending}

\* AgentWriter keeps the promise of TraceDelivery: whatever the serialization thread, the
\* flush loop and the explicit flushes do to the two buffers, a trace is in one batch at
\* most, a batch that is being sent does not change, its traces are delivered or lost
\* together, and the keep rate counts each of them once.
ImplementsDelivery == Delivery!DeliverySpec
=============================================================================
