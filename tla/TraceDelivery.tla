---------------------------- MODULE TraceDelivery ----------------------------
(***************************************************************************)
(* What AgentWriter promises, without its queue, its threads and its two   *)
(* buffers.  A trace that is handed over is refused, found faulty, or put  *)
(* into a batch.  A batch is closed before it is sent, the agent takes or  *)
(* loses it as a whole, and each of its traces is counted once, as kept or *)
(* as dropped.                                                             *)
(***************************************************************************)
EXTENDS Naturals, FiniteSets

CONSTANT Traces

VARIABLES
    status,      \* status[t]: how far trace t has come
    batches,     \* the closed batches, which are being sent
    keeps, drops \* the counts given to the keep rate calculator

deliveryVars == <<status, batches, keeps, drops>>

In(s) == {t \in Traces : status[t] = s}

Moved(S, s) == [t \in Traces |-> IF t \in S THEN s ELSE status[t]]

DeliveryInit ==
    /\ status = [t \in Traces |-> "new"]
    /\ batches = {}
    /\ keeps = 0
    /\ drops = 0

\* WriteTrace takes the trace over.
Accept(t) ==
    /\ status' = Moved({t}, "pending")
    /\ UNCHANGED <<batches, keeps, drops>>

\* A SpanBuffer has room for it ...
Collect(t) ==
    /\ status' = Moved({t}, "collected")
    /\ UNCHANGED <<batches, keeps, drops>>

\* ... or none has.
Refuse(t) ==
    /\ status' = Moved({t}, "lost")
    /\ drops' = drops + 1
    /\ UNCHANGED <<batches, keeps>>

\* Its serialization throws: it is not counted.
Fail(t) ==
    /\ status' = Moved({t}, "faulty")
    /\ UNCHANGED <<batches, keeps, drops>>

\* A flush closes a batch: from here on it neither grows nor shrinks.
Close(S) ==
    /\ S # {}
    /\ status' = Moved(S, "sending")
    /\ batches' = batches \cup {S}
    /\ UNCHANGED <<keeps, drops>>

\* The agent takes a batch, or the batch is lost.
Send(S) ==
    /\ batches' = batches \ {S}
    /\ \/ /\ status' = Moved(S, "delivered")
          /\ keeps' = keeps + Cardinality(S)
          /\ UNCHANGED drops
       \/ /\ status' = Moved(S, "lost")
          /\ drops' = drops + Cardinality(S)
          /\ UNCHANGED keeps

DeliveryNext ==
    \/ \E t \in In("new") : Accept(t)
    \/ \E t \in In("pending") : Collect(t) \/ Refuse(t) \/ Fail(t)
    \/ \E S \in SUBSET In("collected") : Close(S)
    \/ \E S \in batches : Send(S)

DeliverySpec == DeliveryInit /\ [][DeliveryNext]_deliveryVars
=============================================================================
