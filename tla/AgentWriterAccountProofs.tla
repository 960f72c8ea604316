---------------------- MODULE AgentWriterAccountProofs ----------------------
(***************************************************************************)
(* The keep rate, for any number of traces and of flushers, during the     *)
(* life of the serialization thread and after it: every trace that the     *)
(* writer has taken over is in the queue, in a serializer or in a buffer,  *)
(* or is counted once as kept, as dropped or as faulty.                    *)
(*                                                                         *)
(* A step moves at most one trace, or settles the contents of one buffer;  *)
(* AccountKinds says which of these it does, and the balance follows.      *)
(***************************************************************************)
EXTENDS AgentWriterDeliveryProofs

\* The traces that WriteTrace has taken over.
AcceptedTraces == {t \in Traces : pc[t] \notin {"idle", "enqueue"}}

\* The threads that run SerializeTrace.
Serializing == {p \in Threads : pc[p] \in SerializePc}

\* Before it reaches a buffer, a trace is in one place at a time: it is new, it
\* waits, the serialization thread or its own thread serializes it, or it has
\* made the serializer throw.  After the end of the serialization thread too.
OnePlace(t) ==
    /\ t \notin AcceptedTraces => ~Waits(t) /\ Held # t /\ t \notin faulted \cup Serializing
    /\ Waits(t) => Held # t /\ t \notin faulted \cup Serializing
    /\ Held = t => t \notin faulted \cup Serializing
    /\ t \in faulted => t \notin Serializing

\* The inductive invariant of the account.
AccountInv ==
    /\ IsFiniteSet(AcceptedTraces) /\ IsFiniteSet(Serializing) /\ IsFiniteSet(faulted)
    /\ QueueDistinct
    /\ \A t \in Traces : OnePlace(t)
    /\ KeepRateConservation

-----------------------------------------------------------------------------
(* What a step does to the account *)

SamePlaces == AcceptedTraces' = AcceptedTraces /\ Serializing' = Serializing /\ Held' = Held
SameWaiting == (\A t \in Traces : Waits(t)' <=> Waits(t)) /\ SameQueue /\ Queued' = Queued
SameBuffers == \A b \in Buffers : Uncounted(b)' = Uncounted(b)
SameTotals == UNCHANGED <<faulted, keeps, drops>>

Still == SamePlaces /\ SameWaiting /\ SameBuffers /\ SameTotals

\* Enqueue
TakesOver(t) ==
    /\ t \notin AcceptedTraces /\ AcceptedTraces' = AcceptedTraces \cup {t}
    /\ \A u \in Traces : Waits(u)' <=> Waits(u) \/ u = t
    /\ QueueDistinct /\ ~Waits(t) => QueueDistinct'
    /\ Queued' = Queued + 1
    /\ Serializing' = Serializing /\ Held' = Held /\ SameBuffers /\ SameTotals

\* WriteTrace, once the serialization thread has ended
WritesItself(t) ==
    /\ t \notin AcceptedTraces /\ AcceptedTraces' = AcceptedTraces \cup {t}
    /\ Serializing' = Serializing \cup {t}
    /\ Held' = Held /\ SameWaiting /\ SameBuffers /\ SameTotals

\* DequeueTrace
Dequeues(t) ==
    /\ Waits(t) /\ Held = None /\ Held' = t
    /\ QueueDistinct => /\ QueueDistinct'
                        /\ \A u \in Traces : Waits(u)' <=> Waits(u) /\ u # t
    /\ Queued = Queued' + 1
    /\ Serializer \notin Serializing /\ Serializing' = Serializing \cup {Serializer}
    /\ AcceptedTraces' = AcceptedTraces /\ SameBuffers /\ SameTotals

\* Thread p returns from SerializeTrace.
Leaves(p) ==
    /\ p \in Serializing /\ Serializing' = Serializing \ {p}
    /\ Held' = IF p = Serializer THEN None ELSE Held
    /\ AcceptedTraces' = AcceptedTraces /\ SameWaiting

\* TryWriteThrow, DropTrace and TryWriteCopy
LeavesFaulty(p) ==
    Leaves(p) /\ faulted' = faulted \cup {TraceOf(p)} /\ UNCHANGED <<keeps, drops>> /\ SameBuffers

LeavesDropped(p) ==
    Leaves(p) /\ drops' = drops + 1 /\ UNCHANGED <<keeps, faulted>> /\ SameBuffers

LeavesCopied(p, b) ==
    /\ Leaves(p) /\ SameTotals
    /\ Uncounted(b)' = Uncounted(b) + 1 /\ Uncounted(Other(b))' = Uncounted(Other(b))

\* SendTracesAsync
Settles(b) ==
    /\ keeps' + drops' = keeps + drops + Uncounted(b)
    /\ Uncounted(b)' = 0 /\ Uncounted(Other(b))' = Uncounted(Other(b))
    /\ SamePlaces /\ SameWaiting /\ UNCHANGED faulted

AccountKinds ==
    \/ Still
    \/ \E t \in Traces : TakesOver(t) \/ WritesItself(t) \/ Dequeues(t)
    \/ \E p \in Threads : LeavesFaulty(p) \/ LeavesDropped(p)
    \/ \E p \in Threads, b \in Buffers : LeavesCopied(p, b)
    \/ \E b \in Buffers : Settles(b)

-----------------------------------------------------------------------------
(* The balance is preserved *)

\* The traces in the queue can be counted.
LEMMA QueuedType == TypeInv => Queued \in Nat
<1> SUFFICES ASSUME TypeInv PROVE Queued \in Nat
  OBVIOUS
<1> DEFINE Q == {i \in 1 .. Len(pendingTraces) : pendingTraces[i] \in Traces}
<1>1. Len(pendingTraces) \in Nat
  BY DEF TypeInv, TypeOK
<1>2. IsFiniteSet(1 .. Len(pendingTraces))
  BY <1>1, FS_Interval
<1>3. IsFiniteSet(Q)
  BY <1>2, FS_Subset
<1> QED
  BY <1>3, FS_CardinalityType DEF Queued

\* The balance adds up natural numbers.
LEMMA Numbers ==
    ASSUME TypeInv, IsFiniteSet(AcceptedTraces), IsFiniteSet(Serializing), IsFiniteSet(faulted)
    PROVE  /\ Cardinality(AcceptedTraces) \in Nat /\ Cardinality(Serializing) \in Nat
           /\ Cardinality(faulted) \in Nat /\ Queued \in Nat
           /\ Uncounted("front") \in Nat /\ Uncounted("back") \in Nat
           /\ keeps \in Nat /\ drops \in Nat
           /\ KeepRateConservation <=>
                Cardinality(AcceptedTraces) =
                    Queued + Cardinality(Serializing) + Uncounted("front") + Uncounted("back")
                    + keeps + drops + Cardinality(faulted)
<1>1. /\ Cardinality(AcceptedTraces) \in Nat /\ Cardinality(Serializing) \in Nat
      /\ Cardinality(faulted) \in Nat
  BY FS_CardinalityType
<1>2. Queued \in Nat
  BY QueuedType
<1>3. \A b \in Buffers : Uncounted(b) \in Nat
  BY SpanBufferOps DEF TypeInv, TypeOK, Uncounted
<1>4. "front" \in Buffers /\ "back" \in Buffers /\ keeps \in Nat /\ drops \in Nat
  BY DEF TypeInv, TypeOK, Buffers
<1>5. KeepRateConservation <=>
        Cardinality(AcceptedTraces) =
            Queued + Cardinality(Serializing) + Uncounted("front") + Uncounted("back")
            + keeps + drops + Cardinality(faulted)
  BY DEF KeepRateConservation, Accepted, AcceptedTraces, Serializing
<1> QED
  BY <1>1, <1>2, <1>3, <1>4, <1>5

\* A step keeps the invariant when it keeps the sets finite, the places apart
\* and the balance.
LEMMA AccountStep ==
    ASSUME TypeInv', IsFiniteSet(AcceptedTraces'), IsFiniteSet(Serializing'), IsFiniteSet(faulted'),
           QueueDistinct', \A t \in Traces : OnePlace(t)',
           Cardinality(AcceptedTraces') =
                Queued' + Cardinality(Serializing') + Uncounted("front")' + Uncounted("back")'
                + keeps' + drops' + Cardinality(faulted')
    PROVE  AccountInv'
<1>1. KeepRateConservation' <=>
        Cardinality(AcceptedTraces') =
            Queued' + Cardinality(Serializing') + Uncounted("front")' + Uncounted("back")'
            + keeps' + drops' + Cardinality(faulted')
  BY DEF KeepRateConservation, Accepted, AcceptedTraces, Serializing
<1> QED
  BY <1>1 DEF AccountInv

\* Each kind of step preserves the invariant.
LEMMA AccountKept ==
    ASSUME TypeInv, TypeInv', AccountInv, AccountKinds
    PROVE  AccountInv'
<1>0. /\ IsFiniteSet(AcceptedTraces) /\ IsFiniteSet(Serializing) /\ IsFiniteSet(faulted)
      /\ QueueDistinct
      /\ Serializer \in Threads /\ Serializer \notin Traces /\ None \notin Traces
      /\ Threads = Traces \cup {Serializer}
  BY ActorsAssumption DEF AccountInv, Threads
<1>1. /\ Cardinality(AcceptedTraces) \in Nat /\ Cardinality(Serializing) \in Nat
      /\ Cardinality(faulted) \in Nat /\ Queued \in Nat
      /\ Uncounted("front") \in Nat /\ Uncounted("back") \in Nat
      /\ keeps \in Nat /\ drops \in Nat
      /\ Cardinality(AcceptedTraces) =
            Queued + Cardinality(Serializing) + Uncounted("front") + Uncounted("back")
            + keeps + drops + Cardinality(faulted)
  BY <1>0, Numbers DEF AccountInv
<1>2. \A t \in Traces : OnePlace(t)
  BY DEF AccountInv
<1>3. /\ keeps' \in Nat /\ drops' \in Nat
      /\ \A b \in Buffers : Uncounted(b)' \in Nat
  BY SpanBufferOps DEF TypeInv, TypeOK, Uncounted
<1>b. /\ Buffers = {"front", "back"} /\ Other("front") = "back" /\ Other("back") = "front"
      /\ SameBuffers => /\ Uncounted("front")' = Uncounted("front")
                        /\ Uncounted("back")' = Uncounted("back")
  BY DEF Buffers, Other, SameBuffers
<1>4. CASE Still
  <2>1. \A t \in Traces : OnePlace(t)'
    BY <1>2, <1>4 DEF Still, SamePlaces, SameWaiting, SameTotals, OnePlace
  <2>2. QueueDistinct'
    BY <1>0, <1>4 DEF Still, SameWaiting, SameQueue
  <2>3. /\ IsFiniteSet(AcceptedTraces') /\ IsFiniteSet(Serializing') /\ IsFiniteSet(faulted')
        /\ Cardinality(AcceptedTraces') =
          Queued' + Cardinality(Serializing') + Uncounted("front")' + Uncounted("back")'
          + keeps' + drops' + Cardinality(faulted')
    BY <1>0, <1>1, <1>4, <1>b DEF Still, SamePlaces, SameWaiting, SameTotals
  <2> QED
    BY <2>1, <2>2, <2>3, AccountStep
<1>5. ASSUME NEW t \in Traces, TakesOver(t) PROVE AccountInv'
  <2>1. OnePlace(t) /\ t \notin AcceptedTraces
    BY <1>2, <1>5 DEF TakesOver
  <2>2. \A u \in Traces : OnePlace(u)'
    BY <1>2, <1>5, <2>1 DEF TakesOver, SameTotals, OnePlace
  <2>3. QueueDistinct'
    BY <1>0, <1>5, <2>1 DEF TakesOver, OnePlace
  <2>4. /\ IsFiniteSet(AcceptedTraces')
        /\ Cardinality(AcceptedTraces') = Cardinality(AcceptedTraces) + 1
    BY <1>0, <1>5, <2>1, FS_AddElement DEF TakesOver
  <2>5. /\ IsFiniteSet(Serializing') /\ IsFiniteSet(faulted')
        /\ Cardinality(AcceptedTraces') =
          Queued' + Cardinality(Serializing') + Uncounted("front")' + Uncounted("back")'
          + keeps' + drops' + Cardinality(faulted')
    BY <1>0, <1>1, <1>5, <1>b, <2>4 DEF TakesOver, SameTotals
  <2> QED
    BY <2>2, <2>3, <2>4, <2>5, AccountStep
<1>6. ASSUME NEW t \in Traces, WritesItself(t) PROVE AccountInv'
  <2>1. OnePlace(t) /\ t \notin AcceptedTraces
    BY <1>2, <1>6 DEF WritesItself
  <2>2. \A u \in Traces : OnePlace(u)'
    BY <1>2, <1>6, <2>1 DEF WritesItself, SameWaiting, SameTotals, OnePlace
  <2>3. QueueDistinct'
    BY <1>0, <1>6 DEF WritesItself, SameWaiting, SameQueue
  <2>4. /\ IsFiniteSet(AcceptedTraces')
        /\ Cardinality(AcceptedTraces') = Cardinality(AcceptedTraces) + 1
    BY <1>0, <1>6, <2>1, FS_AddElement DEF WritesItself
  <2>5. t \notin Serializing
    BY <2>1 DEF OnePlace
  <2>6. /\ IsFiniteSet(Serializing')
        /\ Cardinality(Serializing') = Cardinality(Serializing) + 1
    BY <1>0, <1>6, <2>5, FS_AddElement DEF WritesItself
  <2>7. /\ IsFiniteSet(faulted')
        /\ Cardinality(AcceptedTraces') =
          Queued' + Cardinality(Serializing') + Uncounted("front")' + Uncounted("back")'
          + keeps' + drops' + Cardinality(faulted')
    BY <1>0, <1>1, <1>6, <1>b, <2>4, <2>6 DEF WritesItself, SameWaiting, SameTotals
  <2> QED
    BY <2>2, <2>3, <2>4, <2>6, <2>7, AccountStep
<1>7. ASSUME NEW t \in Traces, Dequeues(t) PROVE AccountInv'
  <2>1. OnePlace(t) /\ Waits(t)
    BY <1>2, <1>7 DEF Dequeues
  <2>2. \A u \in Traces : OnePlace(u)'
    BY <1>0, <1>2, <1>7, <2>1 DEF Dequeues, SameTotals, OnePlace
  <2>3. QueueDistinct'
    BY <1>0, <1>7 DEF Dequeues
  <2>4. /\ IsFiniteSet(Serializing')
        /\ Cardinality(Serializing') = Cardinality(Serializing) + 1
    BY <1>0, <1>7, FS_AddElement DEF Dequeues
  <2>5. (Queued \in Nat)'
    BY QueuedType, PTL
  <2>6. /\ IsFiniteSet(AcceptedTraces') /\ IsFiniteSet(faulted')
        /\ Cardinality(AcceptedTraces') =
          Queued' + Cardinality(Serializing') + Uncounted("front")' + Uncounted("back")'
          + keeps' + drops' + Cardinality(faulted')
    BY <1>0, <1>1, <1>7, <1>b, <2>4, <2>5 DEF Dequeues, SameTotals
  <2> QED
    BY <2>2, <2>3, <2>4, <2>6, AccountStep
<1>8. ASSUME NEW p \in Threads, Leaves(p)
      PROVE  /\ QueueDistinct'
             /\ IsFiniteSet(AcceptedTraces') /\ IsFiniteSet(Serializing')
             /\ Cardinality(AcceptedTraces') = Cardinality(AcceptedTraces)
             /\ Cardinality(Serializing') + 1 = Cardinality(Serializing)
             /\ Cardinality(Serializing') \in Nat
             /\ Queued' = Queued
             /\ UNCHANGED faulted => \A t \in Traces : OnePlace(t)'
             /\ \A t \in Traces : OnePlace(t) /\ (Waits(t)' <=> Waits(t))
                                  /\ (Held' = t => Held = t)
  <2>1. QueueDistinct' /\ Queued' = Queued /\ \A t \in Traces : Waits(t)' <=> Waits(t)
    BY <1>0, <1>8 DEF Leaves, SameWaiting, SameQueue
  <2>2. /\ IsFiniteSet(Serializing')
        /\ Cardinality(Serializing') = Cardinality(Serializing) - 1
    BY <1>0, <1>8, FS_RemoveElement DEF Leaves
  <2>3. Cardinality(Serializing') \in Nat
    BY <2>2, FS_CardinalityType
  <2>4. AcceptedTraces' = AcceptedTraces
    BY <1>8 DEF Leaves
  <2>5. \A t \in Traces : Held' = t => Held = t
    BY <1>0, <1>8 DEF Leaves
  <2>6. ASSUME UNCHANGED faulted PROVE \A t \in Traces : OnePlace(t)'
    BY <1>2, <1>8, <2>1, <2>4, <2>5, <2>6 DEF OnePlace, Leaves
  <2> QED
    BY <1>0, <1>1, <1>2, <2>1, <2>2, <2>3, <2>4, <2>5, <2>6
<1>9. ASSUME NEW p \in Threads, LeavesFaulty(p) PROVE AccountInv'
  <2>0. Leaves(p) /\ faulted' = faulted \cup {TraceOf(p)}
    BY <1>9 DEF LeavesFaulty
  <2>a. /\ TraceOf(p) \in Traces
        /\ p = Serializer => Held = TraceOf(p)
        /\ p # Serializer => TraceOf(p) = p
    BY <1>0, <2>0 DEF TraceOf, Held, Leaves, Serializing, TypeInv, ItemInv
  <2>b. PICK t \in Traces : t = TraceOf(p)
    BY <2>a
  <2>1. Leaves(p) /\ faulted' = faulted \cup {t}
    BY <2>0, <2>b
  <2>2. (p = Serializer => Held = t) /\ (p # Serializer => t = p)
    BY <2>a, <2>b
  <2>3. OnePlace(t)
    BY <1>2, <2>2
  <2>4. t \notin faulted /\ ~Waits(t) /\ t \in AcceptedTraces /\ (p # Serializer => Held # t)
    BY <2>1, <2>2, <2>3 DEF OnePlace, Leaves
  <2>5. \A u \in Traces : OnePlace(u)'
    <3>1. t \notin Serializing' /\ Held' # t /\ ~Waits(t)'
      BY <1>0, <2>1, <2>2, <2>3, <2>4 DEF OnePlace, Leaves, SameWaiting
    <3>2. ASSUME NEW u \in Traces, u # t PROVE OnePlace(u)'
      BY <1>2, <1>8, <2>1, <3>2 DEF OnePlace, Leaves
    <3>3. OnePlace(t)'
      BY <2>1, <2>4, <3>1 DEF OnePlace, Leaves
    <3> QED
      BY <3>2, <3>3
  <2>6. IsFiniteSet(faulted') /\ Cardinality(faulted') = Cardinality(faulted) + 1
    BY <1>0, <2>1, <2>4, FS_AddElement
  <2>7. Cardinality(AcceptedTraces') =
          Queued' + Cardinality(Serializing') + Uncounted("front")' + Uncounted("back")'
          + keeps' + drops' + Cardinality(faulted')
    BY <1>1, <1>8, <1>9, <1>b, <2>1, <2>6 DEF LeavesFaulty
  <2> QED
    BY <1>8, <2>1, <2>5, <2>6, <2>7, AccountStep
<1>10. ASSUME NEW p \in Threads, LeavesDropped(p) PROVE AccountInv'
  <2>1. Leaves(p) /\ faulted' = faulted
    BY <1>10 DEF LeavesDropped
  <2>2. Cardinality(AcceptedTraces') =
          Queued' + Cardinality(Serializing') + Uncounted("front")' + Uncounted("back")'
          + keeps' + drops' + Cardinality(faulted')
    BY <1>1, <1>8, <1>10, <1>b, <2>1 DEF LeavesDropped
  <2>3. IsFiniteSet(faulted')
    BY <1>0, <2>1
  <2> QED
    BY <1>8, <2>1, <2>2, <2>3, AccountStep
<1>11. ASSUME NEW p \in Threads, NEW b \in Buffers, LeavesCopied(p, b) PROVE AccountInv'
  <2>1. Leaves(p) /\ faulted' = faulted
    BY <1>11 DEF LeavesCopied, SameTotals
  <2>2. Uncounted("front")' + Uncounted("back")' = Uncounted("front") + Uncounted("back") + 1
    BY <1>1, <1>11, <1>b DEF LeavesCopied
  <2>3. Cardinality(AcceptedTraces') =
          Queued' + Cardinality(Serializing') + Uncounted("front")' + Uncounted("back")'
          + keeps' + drops' + Cardinality(faulted')
    BY <1>1, <1>3, <1>8, <1>11, <1>b, <2>1, <2>2 DEF LeavesCopied, SameTotals
  <2>4. IsFiniteSet(faulted')
    BY <1>0, <2>1
  <2> QED
    BY <1>8, <2>1, <2>3, <2>4, AccountStep
<1>12. ASSUME NEW b \in Buffers, Settles(b) PROVE AccountInv'
  <2>1. \A t \in Traces : OnePlace(t)'
    BY <1>2, <1>12 DEF Settles, SamePlaces, SameWaiting, OnePlace
  <2>2. QueueDistinct'
    BY <1>0, <1>12 DEF Settles, SameWaiting, SameQueue
  <2>3. Uncounted("front")' + Uncounted("back")' + Uncounted(b)
          = Uncounted("front") + Uncounted("back")
    BY <1>1, <1>12, <1>b DEF Settles
  <2>4. Uncounted(b) \in Nat
    BY <1>1, <1>b
  <2>5. Cardinality(AcceptedTraces') =
          Queued' + Cardinality(Serializing') + Uncounted("front")' + Uncounted("back")'
          + keeps' + drops' + Cardinality(faulted')
    BY <1>1, <1>3, <1>12, <1>b, <2>3, <2>4 DEF Settles, SamePlaces, SameWaiting
  <2>6. IsFiniteSet(AcceptedTraces') /\ IsFiniteSet(Serializing') /\ IsFiniteSet(faulted')
    BY <1>0, <1>12 DEF Settles, SamePlaces
  <2> QED
    BY <2>1, <2>2, <2>5, <2>6, AccountStep
<1> QED
  BY <1>4, <1>5, <1>6, <1>7, <1>9, <1>10, <1>11, <1>12 DEF AccountKinds

-----------------------------------------------------------------------------
(* Every step does one of these things *)

\* The traces in the queue, when an item joins it.
LEMMA QueuedAppended ==
    ASSUME TypeInv, NEW x \in Traces \cup FlushCallers,
           pendingTraces' = Append(pendingTraces, x)
    PROVE  Queued' = IF x \in Traces THEN Queued + 1 ELSE Queued
<1> DEFINE s == pendingTraces
           r == pendingTraces'
           n == Len(s) + 1
           Q == {i \in DOMAIN s : s[i] \in Traces}
           R == {i \in DOMAIN r : r[i] \in Traces}
<1>1. s \in Seq(Traces \cup FlushCallers) /\ r \in Seq(Traces \cup FlushCallers)
  BY DEF TypeInv, TypeOK
<1>2. /\ DOMAIN r = DOMAIN s \cup {n} /\ n \notin DOMAIN s
      /\ r[n] = x /\ \A i \in DOMAIN s : r[i] = s[i]
  BY <1>1, AppendElements
<1>3. DOMAIN s = 1 .. Len(s) /\ DOMAIN r = 1 .. Len(r) /\ Len(s) \in Nat
  BY <1>1
<1>4. Queued = Cardinality(Q) /\ Queued' = Cardinality(R)
  BY <1>3 DEF Queued
<1>5. IsFiniteSet(Q)
  <2>1. IsFiniteSet(1 .. Len(s))
    BY <1>3, FS_Interval
  <2> QED
    BY <1>3, <2>1, FS_Subset
<1> HIDE DEF n
<1>6. CASE x \in Traces
  <2>1. R = Q \cup {n} /\ n \notin Q
    BY <1>2, <1>6
  <2>2. Cardinality(R) = Cardinality(Q) + 1
    <3> HIDE DEF Q, R
    <3> QED
      BY <1>5, <2>1, FS_AddElement
  <2> QED
    BY <1>4, <1>6, <2>2
<1>7. CASE x \notin Traces
  <2>1. R = Q
    BY <1>2, <1>7
  <2> QED
    BY <1>4, <1>7, <2>1
<1> QED
  BY <1>6, <1>7

\* The traces in the queue, when its first item leaves.
LEMMA QueuedShortened ==
    ASSUME TypeInv, pendingTraces # <<>>, pendingTraces' = Tail(pendingTraces)
    PROVE  Queued = IF Head(pendingTraces) \in Traces THEN Queued' + 1 ELSE Queued'
<1> DEFINE s == pendingTraces
           r == pendingTraces'
           n == Len(s)
           Q == {i \in DOMAIN s : s[i] \in Traces}
           R == {i \in DOMAIN r : r[i] \in Traces}
           shift == [i \in R |-> i + 1]
<1>1. s \in Seq(Traces \cup FlushCallers) /\ r \in Seq(Traces \cup FlushCallers)
  BY DEF TypeInv, TypeOK
<1>2. /\ DOMAIN r = 1 .. (n - 1) /\ DOMAIN s = 1 .. n
      /\ n \in Nat /\ n > 0 /\ Head(s) = s[1]
      /\ \A i \in 1 .. (n - 1) : r[i] = s[i + 1]
  BY <1>1, TailElements
<1>3. DOMAIN r = 1 .. Len(r) /\ DOMAIN s = 1 .. Len(s)
  BY <1>1
<1>4. Queued = Cardinality(Q) /\ Queued' = Cardinality(R)
  BY <1>3 DEF Queued
<1>5. IsFiniteSet(Q) /\ IsFiniteSet(R)
  <2>1. IsFiniteSet(1 .. n) /\ IsFiniteSet(1 .. (n - 1))
    BY <1>2, FS_Interval
  <2> QED
    BY <1>2, <2>1, FS_Subset
<1> HIDE DEF n
<1>6. Cardinality(Q \ {1}) = Cardinality(R)
  <2>1. shift \in [R -> Q \ {1}]
    <3> SUFFICES ASSUME NEW i \in R PROVE i + 1 \in Q \ {1}
      OBVIOUS
    <3>1. i \in 1 .. (n - 1) /\ s[i + 1] \in Traces
      BY <1>2
    <3>2. i + 1 \in 1 .. n /\ i + 1 # 1
      BY <1>2, <3>1
    <3> QED
      BY <1>2, <3>1, <3>2
  <2>2. \A i, j \in R : shift[i] = shift[j] => i = j
    BY <1>2
  <2>3. ASSUME NEW j \in Q \ {1} PROVE \E i \in R : shift[i] = j
    <3>1. j \in 1 .. n /\ j # 1 /\ s[j] \in Traces
      BY <1>2
    <3>2. j - 1 \in 1 .. (n - 1) /\ (j - 1) + 1 = j
      BY <1>2, <3>1
    <3>3. r[j - 1] = s[j]
      BY <1>2, <3>2
    <3>4. j - 1 \in R
      BY <1>2, <3>1, <3>2, <3>3
    <3> QED
      BY <3>2, <3>4
  <2> HIDE DEF Q, R, shift
  <2>4. shift \in Bijection(R, Q \ {1})
    BY <2>1, <2>2, <2>3, Fun_IsBij
  <2>5. ExistsBijection(R, Q \ {1})
    BY <2>4 DEF ExistsBijection
  <2> QED
    BY <1>5, <2>5, FS_Bijection
<1>7. 1 \in Q <=> Head(s) \in Traces
  BY <1>2
<1>8. Cardinality(Q \ {1}) = IF 1 \in Q THEN Cardinality(Q) - 1 ELSE Cardinality(Q)
  <2> HIDE DEF Q
  <2> QED
    BY <1>5, FS_RemoveElement
<1>9. Cardinality(Q) \in Nat
  BY <1>5, FS_CardinalityType
<1> HIDE DEF Q, R, s
<1>10. CASE 1 \in Q
  BY <1>4, <1>6, <1>7, <1>8, <1>9, <1>10 DEF s
<1>11. CASE 1 \notin Q
  BY <1>4, <1>6, <1>7, <1>8, <1>9, <1>11 DEF s
<1> QED
  BY <1>10, <1>11

\* What the calculator has not counted of a buffer, by the state of its flush.
LEMMA UncountedIs ==
    ASSUME TypeInv, TypeInv', NEW b \in Buffers
    PROVE  /\ Uncounted(b) = IF b \in Sent THEN 0 ELSE Len(Contents[b])
           /\ Uncounted(b)' = IF b \in Sent' THEN 0 ELSE Len(Contents'[b])
<1>1. /\ sending \in [Flushers -> {"no", "send", "clear", "unlock"}]
      /\ sending' \in [Flushers -> {"no", "send", "clear", "unlock"}]
  BY DEF TypeInv, TypeOK
<1>2. Contents[b] = buffer[b].traces /\ Contents'[b] = buffer'[b].traces
  BY DEF Contents
<1>3. /\ b \in Sent <=> \E f \in Flushers : IsFlushing(f, b) /\ sending[f] # "send"
      /\ b \in Sent' <=> \E f \in Flushers : IsFlushing(f, b)' /\ sending'[f] # "send"
  BY <1>1 DEF Sent, IsFlushing
<1> QED
  BY <1>2, <1>3 DEF Uncounted, TraceCount

\* A step that leaves the buffers alone.
LEMMA BuffersKept ==
    ASSUME TypeInv, TypeInv', Contents' = Contents,
           \A b \in Buffers : (b \in Sent' <=> b \in Sent) \/ Contents[b] = <<>>
    PROVE  SameBuffers
<1> SUFFICES ASSUME NEW b \in Buffers PROVE Uncounted(b)' = Uncounted(b)
  BY DEF SameBuffers
<1>1. Contents[b] = <<>> => Len(Contents[b]) = 0
  OBVIOUS
<1> QED
  BY <1>1, UncountedIs

\* A step that leaves the queue alone.
LEMMA WaitingKept ==
    ASSUME pendingTraces' = pendingTraces
    PROVE  SameWaiting
  BY QueueUnchanged DEF SameWaiting, Queued

\* A step that moves no trace.
LEMMA StillStep ==
    ASSUME TypeInv, TypeInv', Unmoved,
           \A u \in Traces : pc'[u] \in SerializePc <=> pc[u] \in SerializePc
    PROVE  AccountKinds
<1>1. SamePlaces
  BY DEF Unmoved, SamePlaces, AcceptedTraces, Serializing, Held, Threads
<1>2. SameWaiting
  BY WaitingKept DEF Unmoved
<1>3. SameFlush
  BY FlushUnchanged DEF Unmoved
<1>4. SameBuffers
  BY <1>3, BuffersKept DEF Unmoved, SameFlush
<1> QED
  BY <1>1, <1>2, <1>4 DEF Unmoved, AccountKinds, Still, SameTotals

\* Thread p returns from SerializeTrace, or is thrown out of it.
LEMMA LeaveStep ==
    ASSUME TypeInv, NEW p \in Threads, NEW x, pc[p] \in SerializePc,
           x \in {"drain", "checkExit", "done"}, pc' = [pc EXCEPT ![p] = x],
           UNCHANGED <<item, pendingTraces>>
    PROVE  Leaves(p)
<1>1. pc \in [Threads -> ThreadPc] /\ Serializer \in Threads /\ Traces \subseteq Threads
  BY DEF TypeInv, TypeOK, Threads
<1>2. pc'[p] = x /\ \A q \in Threads : q # p => pc'[q] = pc[q]
  BY <1>1
<1>3. p \in Serializing /\ Serializing' = Serializing \ {p}
  BY <1>2 DEF Serializing, SerializePc
<1>4. AcceptedTraces' = AcceptedTraces
  BY <1>1, <1>2 DEF AcceptedTraces, SerializePc
<1>5. Held' = IF p = Serializer THEN None ELSE Held
  BY <1>1, <1>2 DEF Held, SerializePc
<1> QED
  BY <1>3, <1>4, <1>5, WaitingKept DEF Leaves

\* Every step does one of these things, also when the threads of the
\* application serialize at the same time.
LEMMA AccountMoves ==
    ASSUME TypeInv, TypeInv', LockInv, [Next]_vars
    PROVE  AccountKinds
<1>0. /\ pc \in [Threads -> ThreadPc] /\ Serializer \in Threads /\ Serializer \notin Traces
      /\ Threads = Traces \cup {Serializer} /\ None \notin Traces
      /\ target \in [Threads -> Buffers]
      /\ buffer \in [Buffers -> SpanBuffers]
      /\ plan \in [Flushers -> Seq(Buffers)]
      /\ fpc \in [Flushers -> FlusherPc]
      /\ sending \in [Flushers -> {"no", "send", "clear", "unlock"}]
      /\ PlanInv /\ ItemInv
      /\ Traces \cap FlushCallers = {}
      /\ FlushLoop \in Flushers /\ FlushCallers \subseteq Flushers
      /\ Closers \subseteq Flushers
  BY ActorsAssumption DEF TypeInv, TypeOK, Threads, Flushers
<1>b. \A b \in Buffers : b \in Sending \cup Sent <=> buffer[b].locked
  BY FlushedBuffers
<1>c. buffer' = buffer => Contents' = Contents
  BY DEF Contents
<1>f. UNCHANGED <<sending, plan>> => SameFlush
  BY FlushUnchanged
<1>p. UNCHANGED <<pc, item>> => SamePlaces
  BY DEF SamePlaces, AcceptedTraces, Serializing, Held
<1>u. UNCHANGED <<sending, plan, buffer>> => SameBuffers
  BY <1>c, <1>f, BuffersKept DEF SameFlush
<1> USE DEF queueVars, bufferVars, threadVars, flusherVars, accountVars
<1>1. CASE Next
  <2>1. ASSUME NEW t \in Traces, WriteTrace(t) PROVE AccountKinds
    <3>1. CASE SerializationCompleted
      <4>1. /\ pc' = [pc EXCEPT ![t] = "serialize"] /\ pc[t] = "idle"
            /\ UNCHANGED <<item, pendingTraces, sending, plan, buffer, faulted, keeps, drops>>
        BY <2>1, <3>1 DEF WriteTrace
      <4>2. pc'[t] = "serialize" /\ \A q \in Threads : q # t => pc'[q] = pc[q]
        BY <4>1, <1>0
      <4>3. /\ t \notin AcceptedTraces /\ AcceptedTraces' = AcceptedTraces \cup {t}
            /\ Serializing' = Serializing \cup {t}
        BY <4>1, <4>2, <1>0 DEF AcceptedTraces, Serializing, SerializePc
      <4>4. Held' = Held
        BY <4>1, <4>2, <1>0 DEF Held
      <4>5. WritesItself(t)
        BY <4>1, <4>3, <4>4, <1>u, WaitingKept DEF WritesItself, SameTotals
      <4> QED
        BY <4>5 DEF AccountKinds
    <3>2. CASE ~SerializationCompleted
      <4>1. Unmoved /\ \A u \in Traces : pc'[u] \in SerializePc <=> pc[u] \in SerializePc
        BY <2>1, <3>2, <1>0, <1>c DEF Unmoved, WriteTrace, SerializePc
      <4> QED
        BY <4>1, StillStep
    <3> QED
      BY <3>1, <3>2
  <2>2. ASSUME NEW t \in Traces, Enqueue(t) PROVE AccountKinds
    <3>1. /\ pendingTraces' = Append(pendingTraces, t)
          /\ pc[t] = "enqueue" /\ pc' = [pc EXCEPT ![t] = "isSet"]
          /\ UNCHANGED <<item, sending, plan, buffer, faulted, keeps, drops>>
      BY <2>2 DEF Enqueue
    <3>2. pc'[t] = "isSet" /\ \A q \in Threads : q # t => pc'[q] = pc[q]
      BY <3>1, <1>0
    <3>3. /\ \A u \in Traces : Waits(u)' <=> Waits(u) \/ u = t
          /\ QueueDistinct /\ ~Waits(t) => QueueDistinct'
          /\ Queued' = Queued + 1
      BY <3>1, QueueAppended, QueuedAppended
    <3>4. t \notin AcceptedTraces /\ AcceptedTraces' = AcceptedTraces \cup {t}
      BY <3>1, <3>2, <1>0 DEF AcceptedTraces
    <3>5. Serializing' = Serializing /\ Held' = Held
      BY <3>1, <3>2, <1>0 DEF Serializing, Held, SerializePc
    <3>6. TakesOver(t)
      BY <3>1, <3>3, <3>4, <3>5, <1>u DEF TakesOver, SameTotals
    <3> QED
      BY <3>6 DEF AccountKinds
  <2>3. ASSUME NEW t \in Traces, IsSet(t) PROVE AccountKinds
    <3>1. Unmoved /\ \A u \in Traces : pc'[u] \in SerializePc <=> pc[u] \in SerializePc
      BY <2>3, <1>0, <1>c DEF Unmoved, IsSet, PlanInv,
         SerializePc, TryWritePc, CopyPc
    <3> QED
      BY <3>1, StillStep
  <2>4. ASSUME NEW t \in Traces, Set(t) PROVE AccountKinds
    <3>1. Unmoved /\ \A u \in Traces : pc'[u] \in SerializePc <=> pc[u] \in SerializePc
      BY <2>4, <1>0, <1>c DEF Unmoved, Set, PlanInv,
         SerializePc, TryWritePc, CopyPc
    <3> QED
      BY <3>1, StillStep
  <2>5. ASSUME NEW p \in Threads, ReadActiveBuffer(p) PROVE AccountKinds
    <3>1. Unmoved /\ \A u \in Traces : pc'[u] \in SerializePc <=> pc[u] \in SerializePc
      BY <2>5, <1>0, <1>c DEF Unmoved, ReadActiveBuffer, PlanInv,
         SerializePc, TryWritePc, CopyPc
    <3> QED
      BY <3>1, StillStep
  <2>6. ASSUME NEW p \in Threads, TryWriteRefused(p) PROVE AccountKinds
    <3>1. Unmoved /\ \A u \in Traces : pc'[u] \in SerializePc <=> pc[u] \in SerializePc
      BY <2>6, <1>0, <1>c DEF Unmoved, TryWriteRefused, Refused, PlanInv,
         SerializePc, TryWritePc, CopyPc
    <3> QED
      BY <3>1, StillStep
  <2>7. ASSUME NEW p \in Threads, TryWriteSerialize(p) PROVE AccountKinds
    <3>1. Unmoved /\ \A u \in Traces : pc'[u] \in SerializePc <=> pc[u] \in SerializePc
      BY <2>7, <1>0, <1>c DEF Unmoved, TryWriteSerialize, TryWriteEnters, TraceOf, PlanInv,
         SerializePc, TryWritePc, CopyPc
    <3> QED
      BY <3>1, StillStep
  <2>8. ASSUME NEW p \in Threads, TryWriteThrow(p) PROVE AccountKinds
    <3>1. /\ pc[p] \in SerializePc /\ pc' = [pc EXCEPT ![p] = Throw(p)]
          /\ faulted' = faulted \cup {TraceOf(p)}
          /\ UNCHANGED <<item, pendingTraces, sending, plan, buffer, keeps, drops>>
      BY <2>8 DEF TryWriteThrow, TryWriteEnters, TryWritePc, SerializePc
    <3>2. Leaves(p)
      BY <3>1, LeaveStep DEF Throw
    <3>3. LeavesFaulty(p)
      BY <3>1, <3>2, <1>u DEF LeavesFaulty
    <3> QED
      BY <3>3 DEF AccountKinds
  <2>9. ASSUME NEW p \in Threads, TryWriteCopy(p) PROVE AccountKinds
    <3>0. PICK b \in Buffers : b = target[p]
      BY <1>0
    <3>a. /\ pc[p] \in CopyPc /\ pc[p] \in SerializePc /\ temporaryBuffer \in Traces
          /\ buffer[b] \in SpanBuffers /\ ~buffer[b].locked
          /\ UNCHANGED <<item, pendingTraces, sending, plan, keeps, drops, delivered, faulted>>
      BY <2>9, <3>0, <1>0 DEF TryWriteCopy, CopyPc, SerializePc, ItemInv, LockInv, MonitorInv
    <3>1. CASE Fits(buffer[b], TraceOf(p))
      <4>1. /\ pc' = [pc EXCEPT ![p] = Return(p)]
            /\ buffer' = [buffer EXCEPT ![b] = Append1(@, TraceOf(p), temporaryBuffer)]
        BY <2>9, <3>0, <3>1 DEF TryWriteCopy
      <4>2. Leaves(p)
        BY <3>a, <4>1, LeaveStep DEF Return
      <4>3. Contents' = [Contents EXCEPT ![b] = Append(@, temporaryBuffer)]
        BY <4>1, <3>a, <1>0 DEF Contents, Append1, SpanBuffers
      <4>4. Contents[b] \in Seq(Traces) /\ DOMAIN Contents = Buffers
        BY <3>a DEF Contents, SpanBuffers
      <4>5. /\ Len(Contents'[b]) = Len(Contents[b]) + 1
            /\ Contents'[Other(b)] = Contents[Other(b)]
            /\ Other(b) \in Buffers
        BY <4>3, <4>4, <3>a DEF Buffers, Other
      <4>6. b \notin Sent /\ Sent' = Sent
        BY <3>a, <1>b, <1>f DEF SameFlush
      <4>7. Uncounted(b)' = Uncounted(b) + 1 /\ Uncounted(Other(b))' = Uncounted(Other(b))
        <5>1. /\ Uncounted(b) = IF b \in Sent THEN 0 ELSE Len(Contents[b])
              /\ Uncounted(b)' = IF b \in Sent' THEN 0 ELSE Len(Contents'[b])
          BY UncountedIs
        <5>2. \A c \in Buffers : Contents'[c] = Contents[c] => Uncounted(c)' = Uncounted(c)
          BY <4>6, UncountedIs
        <5>3. \A c \in Buffers : c = Other(b) => Uncounted(c)' = Uncounted(c)
          BY <4>5, <5>2
        <5>4. PICK c \in Buffers : c = Other(b)
          BY <4>5
        <5> QED
          BY <4>5, <4>6, <5>1, <5>3, <5>4
      <4>8. LeavesCopied(p, b)
        BY <3>a, <4>2, <4>7 DEF LeavesCopied, SameTotals
      <4> QED
        BY <4>8 DEF AccountKinds
    <3>2. CASE ~Fits(buffer[b], TraceOf(p))
      <4>1. /\ pc' = [pc EXCEPT ![p] = Refused(p)]
            /\ buffer' = [buffer EXCEPT ![b] = MarkFull(@)]
        BY <2>9, <3>0, <3>2 DEF TryWriteCopy
      <4>2. Contents' = Contents
        BY <4>1, <3>a, <1>0 DEF Contents, MarkFull, SpanBuffers
      <4>3. Unmoved /\ \A u \in Traces : pc'[u] \in SerializePc <=> pc[u] \in SerializePc
        BY <4>1, <4>2, <3>a, <1>0 DEF Unmoved, Refused, SerializePc
      <4> QED
        BY <4>3, StillStep
    <3> QED
      BY <3>1, <3>2
  <2>10. ASSUME NEW p \in Threads, SwapBuffers(p) PROVE AccountKinds
    <3>1. Unmoved /\ \A u \in Traces : pc'[u] \in SerializePc <=> pc[u] \in SerializePc
      BY <2>10, <1>0, <1>c DEF Unmoved, SwapBuffers, PlanInv,
         SerializePc, TryWritePc, CopyPc
    <3> QED
      BY <3>1, StillStep
  <2>11. ASSUME NEW p \in Threads, SwapBuffersWrite(p) PROVE AccountKinds
    <3>1. Unmoved /\ \A u \in Traces : pc'[u] \in SerializePc <=> pc[u] \in SerializePc
      BY <2>11, <1>0, <1>c DEF Unmoved, SwapBuffersWrite, PlanInv,
         SerializePc, TryWritePc, CopyPc
    <3> QED
      BY <3>1, StillStep
  <2>12. ASSUME NEW p \in Threads, RequestFlush(p) PROVE AccountKinds
    <3>1. Unmoved /\ \A u \in Traces : pc'[u] \in SerializePc <=> pc[u] \in SerializePc
      BY <2>12, <1>0, <1>c DEF Unmoved, RequestFlush, PlanInv,
         SerializePc, TryWritePc, CopyPc
    <3> QED
      BY <3>1, StillStep
  <2>13. ASSUME NEW p \in Threads, CompleteForceFlush(p) PROVE AccountKinds
    <3>1. Unmoved /\ \A u \in Traces : pc'[u] \in SerializePc <=> pc[u] \in SerializePc
      BY <2>13, <1>0, <1>c DEF Unmoved, CompleteForceFlush, PlanInv,
         SerializePc, TryWritePc, CopyPc
    <3> QED
      BY <3>1, StillStep
  <2>14. ASSUME NEW p \in Threads, DropTrace(p) PROVE AccountKinds
    <3>1. /\ pc[p] \in SerializePc /\ pc' = [pc EXCEPT ![p] = Return(p)]
          /\ drops' = drops + 1
          /\ UNCHANGED <<item, pendingTraces, sending, plan, buffer, keeps, faulted>>
      BY <2>14 DEF DropTrace, SerializePc
    <3>2. Leaves(p)
      BY <3>1, LeaveStep DEF Return
    <3>3. LeavesDropped(p)
      BY <3>1, <3>2, <1>u DEF LeavesDropped
    <3> QED
      BY <3>3 DEF AccountKinds
  <2>15. CASE DequeueTrace
    <3>0. PICK t \in Traces : t = Head(pendingTraces)
      BY <2>15 DEF DequeueTrace
    <3>1. /\ pendingTraces # <<>> /\ pendingTraces' = Tail(pendingTraces)
          /\ UNCHANGED <<sending, plan, faulted, keeps, drops, buffer>>
          /\ pc[Serializer] = "drain" /\ pc'[Serializer] = "serialize" /\ item' = t
          /\ \A u \in Traces : pc'[u] = pc[u]
      BY <2>15, <3>0, <1>0 DEF DequeueTrace
    <3>2. /\ Waits(t)
          /\ QueueDistinct => /\ QueueDistinct'
                              /\ \A u \in Traces : Waits(u)' <=> Waits(u) /\ u # t
          /\ Queued = Queued' + 1
      BY <3>0, <3>1, QueueShortened, QueuedShortened
    <3>3. Held = None /\ Held' = t
      BY <3>1 DEF Held, SerializePc
    <3>4. /\ Serializer \notin Serializing /\ Serializing' = Serializing \cup {Serializer}
          /\ AcceptedTraces' = AcceptedTraces
      BY <3>1, <1>0 DEF Serializing, AcceptedTraces, SerializePc
    <3>5. Dequeues(t)
      BY <3>1, <3>2, <3>3, <3>4, <1>u DEF Dequeues, SameTotals
    <3> QED
      BY <3>5 DEF AccountKinds
  <2>16. CASE DequeueWatermark
    <3>1. /\ pendingTraces # <<>> /\ pendingTraces' = Tail(pendingTraces)
          /\ UNCHANGED <<sending, plan, pc, item, faulted, keeps, drops, buffer>>
          /\ Head(pendingTraces) \notin Traces
      BY <2>16, <1>0 DEF DequeueWatermark
    <3>2. SameWaiting
      BY <3>1, QueueShortened, QueuedShortened DEF SameWaiting, SameQueue
    <3>3. Still
      BY <3>1, <3>2, <1>p, <1>u DEF Still, SameTotals
    <3> QED
      BY <3>3 DEF AccountKinds
  <2>17. CASE QueueDrained
    <3>1. Unmoved /\ \A u \in Traces : pc'[u] \in SerializePc <=> pc[u] \in SerializePc
      BY <2>17, <1>0, <1>c DEF Unmoved, QueueDrained, PlanInv,
         SerializePc, TryWritePc, CopyPc
    <3> QED
      BY <3>1, StillStep
  <2>18. CASE CheckProcessExit
    <3>1. Unmoved /\ \A u \in Traces : pc'[u] \in SerializePc <=> pc[u] \in SerializePc
      BY <2>18, <1>0, <1>c DEF Unmoved, CheckProcessExit, PlanInv,
         SerializePc, TryWritePc, CopyPc
    <3> QED
      BY <3>1, StillStep
  <2>19. CASE Sleep
    <3>1. Unmoved /\ \A u \in Traces : pc'[u] \in SerializePc <=> pc[u] \in SerializePc
      BY <2>19, <1>0, <1>c DEF Unmoved, Sleep, PlanInv,
         SerializePc, TryWritePc, CopyPc
    <3> QED
      BY <3>1, StillStep
  <2>20. CASE Wait
    <3>1. Unmoved /\ \A u \in Traces : pc'[u] \in SerializePc <=> pc[u] \in SerializePc
      BY <2>20, <1>0, <1>c DEF Unmoved, Wait, PlanInv,
         SerializePc, TryWritePc, CopyPc
    <3> QED
      BY <3>1, StillStep
  <2>21. CASE Reset
    <3>1. Unmoved /\ \A u \in Traces : pc'[u] \in SerializePc <=> pc[u] \in SerializePc
      BY <2>21, <1>0, <1>c DEF Unmoved, Reset, PlanInv,
         SerializePc, TryWritePc, CopyPc
    <3> QED
      BY <3>1, StillStep
  <2>22. ASSUME NEW f \in Flushers, FlushBuffers(f) PROVE AccountKinds
    <3>1. Unmoved /\ \A u \in Traces : pc'[u] \in SerializePc <=> pc[u] \in SerializePc
      BY <2>22, <1>0, <1>c DEF Unmoved, FlushBuffers, PlanInv,
         SerializePc, TryWritePc, CopyPc
    <3> QED
      BY <3>1, StillStep
  <2>23. ASSUME NEW f \in Flushers, CheckFallback(f) PROVE AccountKinds
    <3>1. Unmoved /\ \A u \in Traces : pc'[u] \in SerializePc <=> pc[u] \in SerializePc
      BY <2>23, <1>0, <1>c DEF Unmoved, CheckFallback, PlanInv,
         SerializePc, TryWritePc, CopyPc
    <3> QED
      BY <3>1, StillStep
  <2>24. ASSUME NEW f \in Flushers, FlushBuffer(f) PROVE AccountKinds
    <3>1. Unmoved /\ \A u \in Traces : pc'[u] \in SerializePc <=> pc[u] \in SerializePc
      BY <2>24, <1>0, <1>c DEF Unmoved, FlushBuffer, PlanInv,
         SerializePc, TryWritePc, CopyPc
    <3> QED
      BY <3>1, StillStep
  <2>25. ASSUME NEW f \in Flushers, LockBuffer(f) PROVE AccountKinds
    <3>s. UNCHANGED <<pc, item, plan, pendingTraces, faulted>>
      BY <2>25 DEF LockBuffer
    <3>p. SamePlaces /\ SameWaiting
      BY <3>s, <1>p, WaitingKept

    <3> DEFINE b == Head(plan[f])
    <3>1. /\ fpc[f] = "lock"
          /\ buffer' = [buffer EXCEPT ![b] = Lock(@)]
          /\ sending' = [sending EXCEPT ![f] = IF TraceCount(buffer[b]) > 0 THEN "send"
                                                                          ELSE "clear"]
          /\ UNCHANGED <<keeps, drops>>
      BY <2>25 DEF LockBuffer
    <3>2. sending[f] = "no" /\ Len(plan[f]) > 0 /\ plan[f] \in Seq(Buffers)
      BY <3>1, <1>0 DEF PlanInv
    <3>3. b \in Buffers /\ buffer[b] \in SpanBuffers
      BY <3>2, PlanOps, <1>0
    <3>4. Contents' = Contents
      BY <3>1, <3>3, <1>0 DEF Contents, Lock, SpanBuffers
    <3>5. ~(TraceCount(buffer[b]) > 0) => Contents[b] = <<>>
      BY <3>3 DEF Contents, SpanBuffers, TraceCount
    <3>6. \A c \in Buffers : (c \in Sent' <=> c \in Sent) \/ Contents[c] = <<>>
      <4>1. \A g \in Flushers : g # f => sending'[g] = sending[g]
        BY <3>1, <1>0
      <4>2. sending'[f] = IF TraceCount(buffer[b]) > 0 THEN "send" ELSE "clear"
        BY <3>1, <1>0
      <4>3. ASSUME NEW c \in Buffers, c # b \/ TraceCount(buffer[b]) > 0
            PROVE  c \in Sent' <=> c \in Sent
        BY <3>2, <3>s, <4>1, <4>2, <4>3 DEF Sent
      <4> QED
        BY <3>5, <4>3
    <3>7. Still
      BY <3>1, <3>4, <3>6, <3>p, <3>s, BuffersKept DEF Still, SameTotals
    <3> QED
      BY <3>7 DEF AccountKinds
  <2>26. ASSUME NEW f \in Flushers, LockRefused(f) PROVE AccountKinds
    <3>1. Unmoved /\ \A u \in Traces : pc'[u] \in SerializePc <=> pc[u] \in SerializePc
      BY <2>26, <1>0, <1>c DEF Unmoved, LockRefused, PlanInv,
         SerializePc, TryWritePc, CopyPc
    <3> QED
      BY <3>1, StillStep
  <2>27. ASSUME NEW f \in Flushers, SendTracesAsync(f) PROVE AccountKinds
    <3>s. UNCHANGED <<pc, item, plan, pendingTraces, faulted>>
      BY <2>27 DEF SendTracesAsync
    <3>p. SamePlaces /\ SameWaiting
      BY <3>s, <1>p, WaitingKept

    <3>1. /\ sending[f] = "send" /\ sending' = [sending EXCEPT ![f] = "clear"]
          /\ UNCHANGED buffer
      BY <2>27 DEF SendTracesAsync
    <3>2. /\ Head(plan[f]) \in Buffers
          /\ \A g \in Flushers : sending[g] # "no" /\ g # f => Head(plan[g]) # Head(plan[f])
      BY <3>1, FlusherOf
    <3>3. PICK b \in Buffers : b = Head(plan[f])
      BY <3>2
    <3>4. b \notin Sent /\ Sent' = Sent \cup {b}
      <4>1. \A g \in Flushers : g # f => sending'[g] = sending[g]
        BY <3>1, <1>0
      <4>2. sending'[f] = "clear" /\ plan' = plan
        BY <3>1, <3>s, <1>0
      <4>3. b \notin Sent
        BY <3>1, <3>2, <3>3 DEF Sent
      <4> QED
        BY <3>1, <3>3, <4>1, <4>2, <4>3 DEF Sent
    <3>5. Contents' = Contents /\ Contents[b] = buffer[b].traces
      BY <3>1, <1>c DEF Contents
    <3>6. Uncounted(b) = Len(Contents[b]) /\ Uncounted(b)' = 0
      BY <3>4, UncountedIs
    <3>7. Uncounted(Other(b))' = Uncounted(Other(b))
      <4>1. \A c \in Buffers : c # b => Uncounted(c)' = Uncounted(c)
        BY <3>4, <3>5, UncountedIs
      <4>2. PICK c \in Buffers : c = Other(b) /\ c # b
        BY DEF Buffers, Other
      <4> QED
        BY <4>1, <4>2
    <3>8. \/ keeps' = keeps + Len(Contents[b]) /\ drops' = drops
          \/ drops' = drops + Len(Contents[b]) /\ keeps' = keeps
      BY <2>27, <3>3, <3>5 DEF SendTracesAsync, TraceCount
    <3>9. keeps \in Nat /\ drops \in Nat
      BY DEF TypeInv, TypeOK
    <3>a. buffer[b].traces \in Seq(Traces)
      BY <1>0 DEF SpanBuffers
    <3>b. PICK n \in Nat : n = Len(Contents[b])
      BY <3>5, <3>a
    <3>10. keeps' + drops' = keeps + drops + Uncounted(b)
      <4>1. Uncounted(b) = n
        BY <3>6, <3>b
      <4>2. CASE keeps' = keeps + n /\ drops' = drops
        BY <3>9, <4>1, <4>2
      <4>3. CASE drops' = drops + n /\ keeps' = keeps
        BY <3>9, <4>1, <4>3
      <4> QED
        BY <3>8, <3>b, <4>2, <4>3
    <3>11. Settles(b)
      BY <3>6, <3>7, <3>10, <3>p, <3>s DEF Settles
    <3> QED
      BY <3>11 DEF AccountKinds
  <2>28. ASSUME NEW f \in Flushers, ClearBuffer(f) PROVE AccountKinds
    <3>s. UNCHANGED <<pc, item, plan, pendingTraces, faulted>>
      BY <2>28 DEF ClearBuffer
    <3>p. SamePlaces /\ SameWaiting
      BY <3>s, <1>p, WaitingKept

    <3>1. /\ sending[f] = "clear" /\ sending' = [sending EXCEPT ![f] = "unlock"]
          /\ buffer' = [buffer EXCEPT ![Head(plan[f])] = ClearContent(@)]
          /\ UNCHANGED <<keeps, drops>>
      BY <2>28 DEF ClearBuffer
    <3>2. Head(plan[f]) \in Buffers
      BY <3>1, FlusherOf
    <3>3. Head(plan[f]) \in Sent
      BY <3>1 DEF Sent
    <3>4. Sent' = Sent
      BY <3>1, <3>s, <1>0 DEF Sent
    <3>5. \A c \in Buffers : c # Head(plan[f]) => Contents'[c] = Contents[c]
      BY <3>1, <3>2, <1>0 DEF Contents
    <3>6. SameBuffers
      BY <3>3, <3>4, <3>5, UncountedIs DEF SameBuffers
    <3>7. Still
      BY <3>1, <3>6, <3>p, <3>s DEF Still, SameTotals
    <3> QED
      BY <3>7 DEF AccountKinds
  <2>29. ASSUME NEW f \in Flushers, UnlockBuffer(f) PROVE AccountKinds
    <3>s. UNCHANGED <<pc, item, plan, pendingTraces, faulted>>
      BY <2>29 DEF UnlockBuffer
    <3>p. SamePlaces /\ SameWaiting
      BY <3>s, <1>p, WaitingKept

    <3> DEFINE b == Head(plan[f])
    <3>1. /\ sending[f] = "unlock" /\ sending' = [sending EXCEPT ![f] = "no"]
          /\ buffer' = [buffer EXCEPT ![b] = Unlock(@)]
          /\ UNCHANGED <<keeps, drops>>
      BY <2>29 DEF UnlockBuffer
    <3>2. b \in Buffers
      BY <3>1, FlusherOf
    <3>3. Contents' = Contents
      BY <3>1, <3>2, <1>0 DEF Contents, Unlock, SpanBuffers
    <3>4. Contents[b] = <<>>
      <4>1. TraceCount(buffer[b]) = 0
        BY <3>1 DEF LockInv, MonitorInv
      <4>2. buffer[b].traces \in Seq(Traces)
        BY <3>2, <1>0 DEF SpanBuffers
      <4> QED
        BY <3>2, <4>1, <4>2 DEF TraceCount, Contents
    <3>5. \A c \in Buffers : c # b => (c \in Sent' <=> c \in Sent)
      <4>1. \A g \in Flushers : g # f => sending'[g] = sending[g]
        BY <3>1, <1>0
      <4>2. sending'[f] = "no"
        BY <3>1, <1>0
      <4> QED
        BY <3>s, <4>1, <4>2 DEF Sent
    <3>6. Still
      BY <3>1, <3>3, <3>4, <3>5, <3>p, <3>s, BuffersKept DEF Still, SameTotals
    <3> QED
      BY <3>6 DEF AccountKinds
  <2>30. ASSUME NEW f \in Flushers, AssignFlushTask(f) PROVE AccountKinds
    <3>1. Unmoved /\ \A u \in Traces : pc'[u] \in SerializePc <=> pc[u] \in SerializePc
      BY <2>30, <1>0, <1>c DEF Unmoved, AssignFlushTask, PlanInv,
         SerializePc, TryWritePc, CopyPc
    <3> QED
      BY <3>1, StillStep
  <2>31. ASSUME NEW f \in Flushers, AwaitFlushTask(f) PROVE AccountKinds
    <3>1. Unmoved /\ \A u \in Traces : pc'[u] \in SerializePc <=> pc[u] \in SerializePc
      BY <2>31, <1>0, <1>c DEF Unmoved, AwaitFlushTask, PlanInv,
         SerializePc, TryWritePc, CopyPc
    <3> QED
      BY <3>1, StillStep
  <2>32. CASE ReplaceForceFlush
    <3>1. Unmoved /\ \A u \in Traces : pc'[u] \in SerializePc <=> pc[u] \in SerializePc
      BY <2>32, <1>0, <1>c DEF Unmoved, ReplaceForceFlush, PlanInv,
         SerializePc, TryWritePc, CopyPc
    <3> QED
      BY <3>1, StillStep
  <2>33. CASE CheckSerializationTask
    <3>1. Unmoved /\ \A u \in Traces : pc'[u] \in SerializePc <=> pc[u] \in SerializePc
      BY <2>33, <1>0, <1>c DEF Unmoved, CheckSerializationTask, PlanInv,
         SerializePc, TryWritePc, CopyPc
    <3> QED
      BY <3>1, StillStep
  <2>34. ASSUME NEW f \in FlushCallers, FlushTracesAsync(f) PROVE AccountKinds
    <3>1. Unmoved /\ \A u \in Traces : pc'[u] \in SerializePc <=> pc[u] \in SerializePc
      BY <2>34, <1>0, <1>c DEF Unmoved, FlushTracesAsync, PlanInv,
         SerializePc, TryWritePc, CopyPc
    <3> QED
      BY <3>1, StillStep
  <2>35. ASSUME NEW f \in FlushCallers, WriteWatermark(f) PROVE AccountKinds
    <3>1. /\ pendingTraces' = Append(pendingTraces, f)
          /\ UNCHANGED <<sending, plan, pc, item, faulted, keeps, drops, buffer>>
          /\ f \notin Traces
      BY <2>35, <1>0 DEF WriteWatermark
    <3>2. SameWaiting
      BY <3>1, QueueAppended, QueuedAppended DEF SameWaiting, SameQueue
    <3>3. Still
      BY <3>1, <3>2, <1>p, <1>u DEF Still, SameTotals
    <3> QED
      BY <3>3 DEF AccountKinds
  <2>36. ASSUME NEW f \in FlushCallers, WakeUpThread(f) PROVE AccountKinds
    <3>1. Unmoved /\ \A u \in Traces : pc'[u] \in SerializePc <=> pc[u] \in SerializePc
      BY <2>36, <1>0, <1>c DEF Unmoved, WakeUpThread, PlanInv,
         SerializePc, TryWritePc, CopyPc
    <3> QED
      BY <3>1, StillStep
  <2>37. ASSUME NEW f \in FlushCallers, AwaitWatermark(f) PROVE AccountKinds
    <3>1. Unmoved /\ \A u \in Traces : pc'[u] \in SerializePc <=> pc[u] \in SerializePc
      BY <2>37, <1>0, <1>c DEF Unmoved, AwaitWatermark, PlanInv,
         SerializePc, TryWritePc, CopyPc
    <3> QED
      BY <3>1, StillStep
  <2>38. ASSUME NEW c \in Closers, FlushAndCloseAsync(c) PROVE AccountKinds
    <3>1. Unmoved /\ \A u \in Traces : pc'[u] \in SerializePc <=> pc[u] \in SerializePc
      BY <2>38, <1>0, <1>c DEF Unmoved, FlushAndCloseAsync, PlanInv,
         SerializePc, TryWritePc, CopyPc
    <3> QED
      BY <3>1, StillStep
  <2>39. ASSUME NEW c \in Closers, SetForExit(c) PROVE AccountKinds
    <3>1. Unmoved /\ \A u \in Traces : pc'[u] \in SerializePc <=> pc[u] \in SerializePc
      BY <2>39, <1>0, <1>c DEF Unmoved, SetForExit, PlanInv,
         SerializePc, TryWritePc, CopyPc
    <3> QED
      BY <3>1, StillStep
  <2>40. ASSUME NEW c \in Closers, AwaitSerialization(c) PROVE AccountKinds
    <3>1. Unmoved /\ \A u \in Traces : pc'[u] \in SerializePc <=> pc[u] \in SerializePc
      BY <2>40, <1>0, <1>c DEF Unmoved, AwaitSerialization, PlanInv,
         SerializePc, TryWritePc, CopyPc
    <3> QED
      BY <3>1, StillStep
  <2>41. ASSUME NEW c \in Closers, SerializationTimeout(c) PROVE AccountKinds
    <3>1. Unmoved /\ \A u \in Traces : pc'[u] \in SerializePc <=> pc[u] \in SerializePc
      BY <2>41, <1>0, <1>c DEF Unmoved, SerializationTimeout, PlanInv,
         SerializePc, TryWritePc, CopyPc
    <3> QED
      BY <3>1, StillStep
  <2>42. ASSUME NEW c \in Closers, CheckLeftover(c) PROVE AccountKinds
    <3>1. Unmoved /\ \A u \in Traces : pc'[u] \in SerializePc <=> pc[u] \in SerializePc
      BY <2>42, <1>0, <1>c DEF Unmoved, CheckLeftover, PlanInv,
         SerializePc, TryWritePc, CopyPc
    <3> QED
      BY <3>1, StillStep
  <2>43. ASSUME NEW c \in Closers, LeftoverTimeout(c) PROVE AccountKinds
    <3>1. Unmoved /\ \A u \in Traces : pc'[u] \in SerializePc <=> pc[u] \in SerializePc
      BY <2>43, <1>0, <1>c DEF Unmoved, LeftoverTimeout, PlanInv,
         SerializePc, TryWritePc, CopyPc
    <3> QED
      BY <3>1, StillStep
  <2>44. ASSUME NEW c \in Closers, LeftoverFlushed(c) PROVE AccountKinds
    <3>1. Unmoved /\ \A u \in Traces : pc'[u] \in SerializePc <=> pc[u] \in SerializePc
      BY <2>44, <1>0, <1>c DEF Unmoved, LeftoverFlushed, PlanInv,
         SerializePc, TryWritePc, CopyPc
    <3> QED
      BY <3>1, StillStep
  <2> QED
    BY <1>1, <2>1, <2>2, <2>3, <2>4, <2>5, <2>6, <2>7, <2>8, <2>9, <2>10, <2>11, <2>12,
       <2>13, <2>14, <2>15, <2>16, <2>17, <2>18, <2>19, <2>20, <2>21, <2>22, <2>23,
       <2>24, <2>25, <2>26, <2>27, <2>28, <2>29, <2>30, <2>31, <2>32, <2>33, <2>34,
       <2>35, <2>36, <2>37, <2>38, <2>39, <2>40, <2>41, <2>42, <2>43, <2>44
    DEF Next, SerializeTrace, SerializeTracesLoop, Flush, FlushTraces, FlushAndClose
<1>2. CASE UNCHANGED vars
  <2>1. Unmoved /\ \A u \in Traces : pc'[u] \in SerializePc <=> pc[u] \in SerializePc
    BY <1>2, <1>c DEF vars, Unmoved
  <2> QED
    BY <2>1, StillStep
<1> QED
  BY <1>1, <1>2

\* Nothing is accepted, queued, serialized, buffered or counted at first.
LEMMA AccountInvInit == Init => AccountInv
<1> SUFFICES ASSUME Init PROVE AccountInv
  OBVIOUS
<1>0. TypeInv
  BY TypeInvInit
<1>1. /\ pendingTraces = <<>> /\ faulted = {} /\ keeps = 0 /\ drops = 0
      /\ \A t \in Traces : pc[t] = "idle"
      /\ pc[Serializer] \notin SerializePc
      /\ None \notin Traces
      /\ \A f \in Flushers : sending[f] = "no"
      /\ \A b \in Buffers : buffer[b].traces = <<>>
  BY ActorsAssumption DEF Init, NewSpanBuffer, Threads, SerializePc
<1>2. AcceptedTraces = {} /\ Serializing = {}
  BY <1>1 DEF AcceptedTraces, Serializing, Threads, SerializePc
<1>3. QueueDistinct /\ \A t \in Traces : ~Waits(t)
  BY <1>1 DEF QueueDistinct, Waits
<1>4. Held = None
  BY <1>1 DEF Held
<1>5. \A t \in Traces : OnePlace(t)
  BY <1>1, <1>2, <1>3, <1>4 DEF OnePlace
<1>6. /\ IsFiniteSet(AcceptedTraces) /\ IsFiniteSet(Serializing) /\ IsFiniteSet(faulted)
      /\ Cardinality(AcceptedTraces) = 0 /\ Cardinality(Serializing) = 0
      /\ Cardinality(faulted) = 0
  BY <1>1, <1>2, FS_EmptySet
<1>7. Queued = 0
  <2>1. {i \in 1 .. Len(pendingTraces) : pendingTraces[i] \in Traces} = {}
    BY <1>1
  <2> QED
    BY <2>1, FS_EmptySet DEF Queued
<1>8. Uncounted("front") = 0 /\ Uncounted("back") = 0
  <2>1. \A b \in Buffers : Len(buffer[b].traces) = 0
    BY <1>1
  <2> QED
    BY <1>1, <2>1 DEF Uncounted, IsFlushing, TraceCount, Buffers
<1>9. KeepRateConservation
  BY <1>0, <1>1, <1>6, <1>7, <1>8, Numbers
<1> QED
  BY <1>3, <1>5, <1>6, <1>9 DEF AccountInv

\* The balance of the keep rate holds in every state, for any number of
\* traces, of writers that serialize for themselves after the shutdown and of
\* concurrent flushes: nothing that WriteTrace has taken over is lost or
\* counted twice, whether a TryWrite is refused, the formatter throws, or the
\* agent answers yes, no or not at all.
THEOREM KeepRateConservationCorrect == Spec => []KeepRateConservation
<1>1. TypeInv /\ TypeInv' /\ LockInv /\ AccountInv /\ [Next]_vars => AccountInv'
  BY AccountMoves, AccountKept
<1>2. AccountInv => KeepRateConservation
  BY DEF AccountInv
<1> QED
  BY <1>1, <1>2, AccountInvInit, TypeInvariance, LockInvariance, PTL DEF Spec
=============================================================================
