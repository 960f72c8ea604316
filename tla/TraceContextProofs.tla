------------------------- MODULE TraceContextProofs -------------------------
(***************************************************************************)
(* Proofs about TraceContext, for any number of spans and threads and any  *)
(* threshold of the partial flush.                                         *)
(***************************************************************************)
EXTENDS TraceContext, FiniteSetTheorems, TLAPS

(***************************************************************************)
(* The inductive invariant.  That spans are conserved depends on where     *)
(* threads hold spans (HolderInv); that the count of open spans does not   *)
(* go below zero depends on the spans being conserved.                     *)
(***************************************************************************)

\* TypeOK, but for the sign of openSpans.
PreType ==
    /\ parentPriority \in Priorities \cup {None}
    /\ rootSpan \in Spans \cup {None}
    /\ spans \in Seq(Spans)
    /\ samplingPriority \in Priorities \cup {None}
    /\ samplingPriorityLocked \in BOOLEAN
    /\ started \in SUBSET Spans
    /\ isFinished \in SUBSET Spans
    /\ metric \in [Spans -> Priorities \cup {None}]
    /\ pc \in [Threads -> {"idle", "assign"} \cup ClosingPc \cup HandingOverPc]
    /\ span \in [Threads -> Spans \cup {None}]
    /\ value \in [Threads -> Priorities \cup {None}]
    /\ chunk \in [Threads -> Seq(Spans)]
    /\ partial \in [Threads -> BOOLEAN]
    /\ partialTrace \in BOOLEAN
    /\ written \in [Spans -> Nat]

\* A thread that closes a span has one, and a thread carries a chunk only
\* while it hands it over.
HolderInv ==
    /\ isFinished \subseteq started
    /\ \A th \in Threads :
         /\ pc[th] \in ClosingPc => span[th] \in Spans
         /\ pc[th] \notin HandingOverPc => chunk[th] = <<>>

\* The spans that openSpans counts.
OpenSet ==
    {s \in started : s \in isFinished => \E th \in Threads : Closing(th, s)}

CountInv ==
    /\ IsFiniteSet(started)
    /\ openSpans = Cardinality(OpenSet)

SpanInv == PreType /\ HolderInv /\ SpansConserved /\ CountInv

USE SettingsAssumption, NoneAssumption

-----------------------------------------------------------------------------
\* Adding a span to the builder adds it to the spans that wait, and keeps them
\* distinct if it is new.
LEMMA AppendContains ==
    ASSUME NEW q \in Seq(Spans), NEW e \in Spans
    PROVE  /\ Append(q, e) \in Seq(Spans)
           /\ \A x : Contains(Append(q, e), x) <=> Contains(q, x) \/ x = e
           /\ IsDistinct(q) /\ ~Contains(q, e) => IsDistinct(Append(q, e))
<1>1. /\ Append(q, e) \in Seq(Spans)
      /\ Len(Append(q, e)) = Len(q) + 1
      /\ \A i \in 1 .. Len(q) : Append(q, e)[i] = q[i]
      /\ Append(q, e)[Len(q) + 1] = e
      /\ Len(q) \in Nat
    OBVIOUS
<1>2. ASSUME NEW x
      PROVE  Contains(Append(q, e), x) <=> Contains(q, x) \/ x = e
    BY <1>1 DEF Contains
<1>3. ASSUME IsDistinct(q), ~Contains(q, e)
      PROVE  IsDistinct(Append(q, e))
  <2> SUFFICES ASSUME NEW i \in 1 .. Len(Append(q, e)),
                      NEW j \in 1 .. Len(Append(q, e)),
                      Append(q, e)[i] = Append(q, e)[j]
               PROVE  i = j
      BY DEF IsDistinct
  <2> DEFINE n == Len(q)
  <2>1. CASE i \in 1 .. n /\ j \in 1 .. n
      BY <2>1, <1>1, <1>3 DEF IsDistinct
  <2>2. CASE i = n + 1 \/ j = n + 1
      BY <2>2, <1>1, <1>3 DEF Contains
  <2> QED BY <2>1, <2>2, <1>1
<1> QED BY <1>1, <1>2, <1>3

\* The empty sequence contains nothing.
LEMMA EmptyContains ==
    /\ \A x : ~Contains(<<>>, x)
    /\ IsDistinct(<<>>)
  BY DEF Contains, IsDistinct

\* In a sequence without duplicates, Copies counts zero or one.
LEMMA CopiesDistinct ==
    ASSUME NEW q \in Seq(Spans), IsDistinct(q), NEW s
    PROVE  Copies(q, s) = IF Contains(q, s) THEN 1 ELSE 0
<1> DEFINE I == {i \in 1 .. Len(q) : q[i] = s}
<1>1. CASE Contains(q, s)
  <2>1. PICK i \in 1 .. Len(q) : q[i] = s
      BY <1>1 DEF Contains
  <2>2. I = {i}
      BY <2>1 DEF IsDistinct
  <2>3. Cardinality(I) = 1
      BY <2>2, FS_Singleton
  <2> QED BY <1>1, <2>3 DEF Copies
<1>2. CASE ~Contains(q, s)
  <2>1. I = {}
      BY <1>2 DEF Contains
  <2>2. Cardinality(I) = 0
      BY <2>1, FS_EmptySet
  <2> QED BY <1>2, <2>2 DEF Copies
<1> QED BY <1>1, <1>2

\* SpanInv holds initially.
LEMMA SpanInvInit == Init => SpanInv
<1> SUFFICES ASSUME Init PROVE SpanInv
    OBVIOUS
<1>1. PreType
  <2>1. <<>> \in Seq(Spans)
      OBVIOUS
  <2>2. 0 \in Nat
      OBVIOUS
  <2> QED BY <2>1, <2>2 DEF Init, PreType
<1>2. HolderInv
    BY DEF Init, HolderInv, ClosingPc, HandingOverPc
<1>3. SpansConserved
    BY EmptyContains DEF Init, SpansConserved, Closing, ClosingPc
<1>4. CountInv
  <2>1. OpenSet = {} /\ started = {}
      BY DEF Init, OpenSet
  <2> QED BY <2>1, FS_EmptySet DEF CountInv, Init
<1> QED BY <1>1, <1>2, <1>3, <1>4 DEF SpanInv

\* Steps that only move threads between the stages of a call, or that set the
\* priority or the metrics, leave every span where it is.
LEMMA SameSpans ==
    ASSUME SpanInv, HolderInv',
           \A th \in Threads, s \in Spans : Closing(th, s)' <=> Closing(th, s),
           UNCHANGED <<openSpans, spans, started, isFinished, chunk, written>>
    PROVE  SpansConserved' /\ CountInv'
<1>1. SpansConserved'
  <2>1. IsDistinct(spans)' /\ \A th \in Threads : IsDistinct(chunk[th])'
      BY DEF SpanInv, SpansConserved
  <2>2. /\ \A s : Contains(spans, s)' <=> Contains(spans, s)
        /\ \A th, s : Contains(chunk[th], s)' <=> Contains(chunk[th], s)
      OBVIOUS
  <2> QED BY <2>1, <2>2 DEF SpanInv, SpansConserved
<1>2. OpenSet' = OpenSet
    BY DEF OpenSet, SpanInv, PreType
<1>3. CountInv'
    BY <1>2 DEF CountInv, SpanInv
<1> QED BY <1>1, <1>3

\* SpanInv is preserved by every step.
LEMMA SpanInvNext == SpanInv /\ [Next]_vars => SpanInv'
<1> SUFFICES ASSUME SpanInv, [Next]_vars PROVE SpanInv'
    OBVIOUS
<1> PreType /\ HolderInv /\ SpansConserved /\ CountInv
    BY DEF SpanInv
<1>1. ASSUME NEW th \in Threads, NEW s \in Spans, NEW p \in Priorities,
             AddSpan(th, s, p)
      PROVE  SpanInv'
  <2>1. PreType'
      BY <1>1 DEF AddSpan, PreType, threadVars, outputVars
  <2>2. HolderInv'
      BY <1>1 DEF AddSpan, HolderInv, threadVars
  <2>3. SpansConserved'
      BY <1>1 DEF AddSpan, SpansConserved, Closing, threadVars, outputVars
  <2>4. OpenSet' = OpenSet \cup {s} /\ s \notin OpenSet
      BY <1>1 DEF AddSpan, OpenSet, HolderInv, Closing, threadVars, PreType
  <2>5. IsFiniteSet(OpenSet)
      BY FS_Subset DEF CountInv, OpenSet
  <2>6. IsFiniteSet(started')
      BY <1>1, FS_AddElement DEF AddSpan, CountInv
  <2>7. CountInv'
      BY <1>1, <2>4, <2>5, <2>6, FS_AddElement DEF AddSpan, CountInv
  <2> QED BY <2>1, <2>2, <2>3, <2>7 DEF SpanInv
<1>2. ASSUME NEW th \in Threads, NEW p \in Priorities,
             SetSamplingPriority(th, p)
      PROVE  SpanInv'
  <2>1. PreType' /\ HolderInv'
      BY <1>2 DEF SetSamplingPriority, PreType, HolderInv, ClosingPc,
          HandingOverPc, priorityVars, spanVars, outputVars
  <2>2. \A u \in Threads, s \in Spans : Closing(u, s)' <=> Closing(u, s)
      BY <1>2 DEF SetSamplingPriority, Closing, ClosingPc, PreType
  <2>3. SpansConserved' /\ CountInv'
      BY <1>2, <2>1, <2>2, SameSpans
          DEF SetSamplingPriority, spanVars, outputVars
  <2> QED BY <2>1, <2>3 DEF SpanInv
<1>3. ASSUME NEW th \in Threads, AssignSamplingPriority(th)
      PROVE  SpanInv'
  <2>1. PreType' /\ HolderInv'
      BY <1>3 DEF AssignSamplingPriority, PreType, HolderInv, ClosingPc,
          HandingOverPc, spanVars, outputVars
  <2>2. \A u \in Threads, s \in Spans : Closing(u, s)' <=> Closing(u, s)
      BY <1>3 DEF AssignSamplingPriority, Closing, ClosingPc, PreType
  <2>3. SpansConserved' /\ CountInv'
      BY <1>3, <2>1, <2>2, SameSpans
          DEF AssignSamplingPriority, spanVars, outputVars
  <2> QED BY <2>1, <2>3 DEF SpanInv
<1>4. ASSUME NEW th \in Threads, Inject(th)
      PROVE  SpanInv'
  <2>1. PreType' /\ HolderInv'
      BY <1>4 DEF Inject, LockSamplingPriority, PreType, HolderInv,
          spanVars, threadVars, outputVars
  <2>2. \A u \in Threads, s \in Spans : Closing(u, s)' <=> Closing(u, s)
      BY <1>4 DEF Inject, Closing, threadVars
  <2>3. SpansConserved' /\ CountInv'
      BY <1>4, <2>1, <2>2, SameSpans
          DEF Inject, spanVars, threadVars, outputVars
  <2> QED BY <2>1, <2>3 DEF SpanInv
<1>5. ASSUME NEW th \in Threads, NEW s \in Spans, Finish(th, s)
      PROVE  SpanInv'
  <2>1. PreType' /\ HolderInv'
      BY <1>5 DEF Finish, PreType, HolderInv, ClosingPc, HandingOverPc,
          priorityVars, outputVars
  <2>2. /\ \A u \in Threads, r \in Spans :
               Closing(u, r)' <=> Closing(u, r) \/ (u = th /\ r = s)
        /\ isFinished' = isFinished \cup {s} /\ s \notin isFinished
        /\ UNCHANGED <<started, spans, chunk, written, openSpans>>
      BY <1>5 DEF Finish, Closing, ClosingPc, PreType, outputVars
  <2>3. \A r \in Spans : Closing(th, r) => r = s
      BY <1>5 DEF Finish, Closing, ClosingPc
  <2>4. SpansConserved'
      BY <2>2, <2>3 DEF SpansConserved, Contains, IsDistinct
  <2>5. OpenSet' = OpenSet
      BY <2>2, <1>5 DEF OpenSet, PreType
  <2>6. CountInv'
      BY <2>2, <2>5 DEF CountInv
  <2> QED BY <2>1, <2>4, <2>6 DEF SpanInv
<1>6. ASSUME NEW th \in Threads, CloseRoot(th)
      PROVE  SpanInv'
  <2>1. PreType' /\ HolderInv'
      BY <1>6 DEF CloseRoot, LockSamplingPriority, PreType, HolderInv,
          ClosingPc, HandingOverPc, spanVars, outputVars
  <2>2. \A u \in Threads, s \in Spans : Closing(u, s)' <=> Closing(u, s)
      BY <1>6 DEF CloseRoot, Closing, ClosingPc, PreType
  <2>3. SpansConserved' /\ CountInv'
      BY <1>6, <2>1, <2>2, SameSpans DEF CloseRoot, spanVars, outputVars
  <2> QED BY <2>1, <2>3 DEF SpanInv
<1>7. ASSUME NEW th \in Threads, SetRootMetric(th)
      PROVE  SpanInv'
  <2>1. PreType' /\ HolderInv'
      BY <1>7 DEF SetRootMetric, PreType, HolderInv, ClosingPc,
          HandingOverPc, priorityVars, outputVars
  <2>2. \A u \in Threads, s \in Spans : Closing(u, s)' <=> Closing(u, s)
      BY <1>7 DEF SetRootMetric, Closing, ClosingPc, PreType
  <2>3. SpansConserved' /\ CountInv'
      BY <1>7, <2>1, <2>2, SameSpans DEF SetRootMetric, outputVars
  <2> QED BY <2>1, <2>3 DEF SpanInv
<1>8. ASSUME NEW th \in Threads, CloseSpan(th)
      PROVE  SpanInv'
  <2> DEFINE s == span[th]
             finished == Append(spans, s)
             takes == TakesAll(openSpans - 1, finished)
  <2>1. s \in Spans /\ Closing(th, s) /\ chunk[th] = <<>>
      BY <1>8 DEF CloseSpan, HolderInv, Closing, ClosingPc, HandingOverPc
  <2>2. /\ finished \in Seq(Spans)
        /\ \A x : Contains(finished, x) <=> Contains(spans, x) \/ x = s
        /\ IsDistinct(finished)
    <3>1. ~Contains(spans, s) /\ IsDistinct(spans) /\ spans \in Seq(Spans)
        BY <2>1 DEF SpansConserved, PreType
    <3> HIDE DEF s
    <3> QED BY <3>1, <2>1, AppendContains
  <2>3. /\ spans' = IF takes THEN <<>> ELSE finished
        /\ chunk' = [chunk EXCEPT ![th] = IF takes THEN finished ELSE <<>>]
        /\ openSpans' = openSpans - 1
        /\ UNCHANGED <<started, isFinished, written>>
      BY <1>8 DEF CloseSpan, Remaining, spanVars
  <2> HIDE DEF takes, finished
  <2>4. PreType'
    <3>1. spans' \in Seq(Spans) /\ chunk' \in [Threads -> Seq(Spans)]
        BY <2>2, <2>3 DEF PreType
    <3> QED BY <1>8, <3>1 DEF CloseSpan, PreType, HandingOverPc, priorityVars,
            spanVars, TakesAll
  <2>5. HolderInv'
      BY <1>8, <2>3 DEF CloseSpan, HolderInv, ClosingPc, HandingOverPc,
          PreType, spanVars, takes, finished
  <2>6. \A u \in Threads, r \in Spans :
            Closing(u, r)' <=> Closing(u, r) /\ u # th
      BY <1>8 DEF CloseSpan, Closing, ClosingPc, PreType
  <2>7. /\ \A r \in Spans : Contains(spans, r)' <=>
               ~takes /\ (Contains(spans, r) \/ r = s)
        /\ \A u \in Threads, r \in Spans : Contains(chunk[u], r)' <=>
               \/ u # th /\ Contains(chunk[u], r)
               \/ u = th /\ takes /\ (Contains(spans, r) \/ r = s)
        /\ IsDistinct(spans)'
        /\ \A u \in Threads : IsDistinct(chunk[u])'
    <3>1. spans' = (IF takes THEN <<>> ELSE finished) /\ IsDistinct(spans)'
      <4>1. IsDistinct(spans')
          BY <2>2, <2>3, EmptyContains
      <4> QED BY <4>1, <2>3 DEF IsDistinct
    <3>2. \A r \in Spans : Contains(spans', r) <=>
               ~takes /\ (Contains(spans, r) \/ r = s)
        BY <2>2, <3>1, EmptyContains
    <3>3. \A u \in Threads : u # th => chunk'[u] = chunk[u]
        BY <2>3 DEF PreType
    <3>4. chunk'[th] = IF takes THEN finished ELSE <<>>
        BY <2>3 DEF PreType
    <3>5. \A r \in Spans : Contains(chunk'[th], r) <=>
               takes /\ (Contains(spans, r) \/ r = s)
        BY <2>2, <3>4, EmptyContains
    <3>6. ASSUME NEW u \in Threads PROVE IsDistinct(chunk'[u])
        BY <2>2, <3>3, <3>4, EmptyContains DEF SpansConserved
    <3>7. \A u \in Threads, r \in Spans : Contains(chunk'[u], r) <=>
               \/ u # th /\ Contains(chunk[u], r)
               \/ u = th /\ takes /\ (Contains(spans, r) \/ r = s)
        BY <3>3, <3>5
    <3> QED BY <3>1, <3>2, <3>6, <3>7 DEF Contains, IsDistinct
  <2>8. SpansConserved'
    <3>1. \A r \in Spans : ~Contains(chunk[th], r)
        BY <2>1, EmptyContains
    <3>2. \A r \in Spans : Closing(th, r) => r = s
        BY DEF Closing
    <3>3. \A u \in Threads : Closing(u, s) => u = th
        BY <2>1 DEF SpansConserved
    <3>4. /\ s \in isFinished
          /\ ~Contains(spans, s)
          /\ written[s] = 0
          /\ \A u \in Threads : ~Contains(chunk[u], s)
        BY <2>1 DEF SpansConserved, PreType
    <3> SUFFICES ASSUME NEW r \in Spans
                 PROVE  /\ (r \in isFinished <=>
                             \/ \E u \in Threads :
                                  Closing(u, r) \/ Contains(chunk[u], r)
                             \/ Contains(spans, r)
                             \/ written[r] # 0)'
                        /\ \A u, w \in Threads :
                             /\ (Closing(u, r) /\ Closing(w, r) => u = w)'
                             /\ (Contains(chunk[u], r)
                                  /\ Contains(chunk[w], r) => u = w)'
                             /\ ~(Closing(u, r) /\ Contains(chunk[w], r))'
                        /\ (Contains(spans, r) =>
                             \A u \in Threads :
                               ~Closing(u, r) /\ ~Contains(chunk[u], r))'
                        /\ (written[r] # 0 =>
                             /\ written[r] = 1
                             /\ ~Contains(spans, r)
                             /\ \A u \in Threads :
                                 ~Closing(u, r) /\ ~Contains(chunk[u], r))'
        BY <2>7 DEF SpansConserved
    <3>5. CASE r = s
        BY <3>5, <3>1, <3>2, <3>3, <3>4, <2>1, <2>3, <2>6, <2>7
    <3>6. CASE r # s
        BY <3>6, <3>1, <3>2, <2>3, <2>6, <2>7 DEF SpansConserved
    <3> QED BY <3>5, <3>6
  <2>9. OpenSet' = OpenSet \ {s} /\ s \in OpenSet
    <3>1. s \in isFinished /\ \A u \in Threads : Closing(u, s) => u = th
        BY <2>1 DEF SpansConserved
    <3>2. \A r \in Spans : Closing(th, r) => r = s
        BY DEF Closing
    <3> QED BY <2>1, <2>3, <2>6, <3>1, <3>2 DEF OpenSet, HolderInv, PreType
  <2>10. IsFiniteSet(OpenSet)
      BY FS_Subset DEF CountInv, OpenSet
  <2>11. CountInv'
      BY <2>3, <2>9, <2>10, FS_RemoveElement DEF CountInv
  <2> QED BY <2>4, <2>5, <2>8, <2>11 DEF SpanInv
<1>9. ASSUME NEW th \in Threads, PropagateMetadata(th)
      PROVE  SpanInv'
  <2>1. PreType' /\ HolderInv'
      BY <1>9 DEF PropagateMetadata, PreType, HolderInv, ClosingPc,
          HandingOverPc, priorityVars, outputVars
  <2>2. \A u \in Threads, s \in Spans : Closing(u, s)' <=> Closing(u, s)
      BY <1>9 DEF PropagateMetadata, Closing, ClosingPc, PreType
  <2>3. SpansConserved' /\ CountInv'
      BY <1>9, <2>1, <2>2, SameSpans DEF PropagateMetadata, outputVars
  <2> QED BY <2>1, <2>3 DEF SpanInv
<1>10. ASSUME NEW th \in Threads, Write(th)
       PROVE  SpanInv'
  <2>1. \A s \in Spans : written'[s] =
            written[s] + IF Contains(chunk[th], s) THEN 1 ELSE 0
    <3>1. \A s : Copies(chunk[th], s) = IF Contains(chunk[th], s) THEN 1 ELSE 0
        BY CopiesDistinct DEF PreType, SpansConserved
    <3> QED BY <1>10, <3>1 DEF Write
  <2>2. PreType'
    <3>1. written' \in [Spans -> Nat]
      <4>1. DOMAIN written' = Spans /\ written' = [s \in Spans |-> written'[s]]
          BY <1>10 DEF Write
      <4>2. ASSUME NEW s \in Spans PROVE written'[s] \in Nat
        <5>1. written[s] \in Nat
            BY DEF PreType
        <5> QED BY <5>1, <2>1
      <4> QED BY <4>1, <4>2
    <3> QED BY <1>10, <3>1 DEF Write, PreType, priorityVars, spanVars
  <2>3. HolderInv'
      BY <1>10 DEF Write, HolderInv, ClosingPc, HandingOverPc, PreType,
          spanVars
  <2>4. \A u \in Threads, s \in Spans : Closing(u, s)' <=> Closing(u, s)
      BY <1>10 DEF Write, Closing, ClosingPc, PreType
  <2>5. \A u \in Threads :
          /\ IsDistinct(chunk[u])'
          /\ \A s \in Spans :
               Contains(chunk[u], s)' <=> u # th /\ Contains(chunk[u], s)
      BY <1>10, EmptyContains
          DEF Write, PreType, Contains, IsDistinct, SpansConserved
  <2>6. /\ UNCHANGED <<spans, isFinished, started, openSpans>>
        /\ IsDistinct(spans)' /\ \A s : Contains(spans, s)' <=> Contains(spans, s)
      BY <1>10 DEF Write, spanVars, SpansConserved, IsDistinct, Contains
  <2>7. SpansConserved'
      BY <2>1, <2>4, <2>5, <2>6 DEF SpansConserved, PreType
  <2>8. OpenSet' = OpenSet
      BY <2>4, <2>6 DEF OpenSet, PreType
  <2>9. CountInv'
      BY <2>6, <2>8 DEF CountInv
  <2> QED BY <2>2, <2>3, <2>7, <2>9 DEF SpanInv
<1>11. CASE UNCHANGED vars
  <2>1. PreType' /\ HolderInv'
      BY <1>11 DEF vars, PreType, HolderInv, priorityVars, spanVars,
          threadVars, outputVars
  <2>2. \A u \in Threads, s \in Spans : Closing(u, s)' <=> Closing(u, s)
      BY <1>11 DEF vars, threadVars, Closing
  <2>3. SpansConserved' /\ CountInv'
      BY <1>11, <2>1, <2>2, SameSpans
          DEF vars, spanVars, threadVars, outputVars
  <2> QED BY <2>1, <2>3 DEF SpanInv
<1> QED BY <1>1, <1>2, <1>3, <1>4, <1>5, <1>6, <1>7, <1>8, <1>9, <1>10, <1>11
        DEF Next, Close

\* Type correctness: in particular the count of open spans never goes below
\* zero, whichever threads finish the spans.
THEOREM TypeCorrect == Spec => []TypeOK
<1>1. SpanInv => TypeOK
  <2> SUFFICES ASSUME SpanInv PROVE TypeOK
      OBVIOUS
  <2>1. IsFiniteSet(OpenSet)
      BY FS_Subset DEF SpanInv, CountInv, OpenSet
  <2>2. openSpans \in Nat
      BY <2>1, FS_CardinalityType DEF SpanInv, CountInv
  <2> QED BY <2>2 DEF SpanInv, PreType, TypeOK
<1> QED BY <1>1, SpanInvInit, SpanInvNext, PTL DEF Spec

\* A finished span is in exactly one place and is written at most once,
\* whatever races Finish, CloseSpan and the partial flushes run into.
THEOREM SpansConservedCorrect == Spec => []SpansConserved
<1>1. SpanInv => SpansConserved
    BY DEF SpanInv
<1> QED BY <1>1, SpanInvInit, SpanInvNext, PTL DEF Spec

\* _openSpans is the number of spans started and not yet closed.
THEOREM OpenSpansCorrect == Spec => []OpenSpansCounts
<1>1. SpanInv => OpenSpansCounts
    BY DEF SpanInv, CountInv, OpenSet, OpenSpansCounts
<1> QED BY <1>1, SpanInvInit, SpanInvNext, PTL DEF Spec

\* Spans wait only for another open span, and never PartialFlushMinSpans of
\* them when partial flushes are enabled; none waits if that is 0.
THEOREM NothingLeftBehindCorrect == Spec => []NothingLeftBehind
<1>1. Init => NothingLeftBehind
    BY DEF Init, NothingLeftBehind
<1>2. TypeOK /\ NothingLeftBehind /\ [Next]_vars => NothingLeftBehind'
  <2> SUFFICES ASSUME TypeOK, NothingLeftBehind, [Next]_vars
               PROVE  NothingLeftBehind'
      OBVIOUS
  <2>1. ASSUME NEW th \in Threads, CloseSpan(th)
        PROVE  NothingLeftBehind'
    <3>1. CASE TakesAll(openSpans - 1, Append(spans, span[th]))
      <4>1. spans' = <<>>
          BY <2>1, <3>1 DEF CloseSpan, Remaining
      <4> QED BY <4>1 DEF NothingLeftBehind
    <3>2. CASE ~TakesAll(openSpans - 1, Append(spans, span[th]))
      <4>1. spans' = Append(spans, span[th]) /\ openSpans' = openSpans - 1
          BY <2>1, <3>2 DEF CloseSpan, Remaining
      <4>2. Len(spans') \in Nat
          BY <4>1 DEF TypeOK
      <4> QED BY <3>2, <4>1, <4>2
              DEF NothingLeftBehind, TakesAll, ShouldTriggerPartialFlush
    <3> QED BY <3>1, <3>2
  <2>2. ASSUME NEW th \in Threads, NEW s \in Spans, NEW p \in Priorities,
               AddSpan(th, s, p)
        PROVE  NothingLeftBehind'
      BY <2>2 DEF AddSpan, NothingLeftBehind, TypeOK
  <2>3. CASE UNCHANGED <<openSpans, spans>>
      BY <2>3 DEF NothingLeftBehind
  <2>4. \/ \E th \in Threads : CloseSpan(th)
        \/ \E th \in Threads, s \in Spans, p \in Priorities : AddSpan(th, s, p)
        \/ UNCHANGED <<openSpans, spans>>
      BY DEF Next, Close, vars, SetSamplingPriority, AssignSamplingPriority,
          Inject, Finish, CloseRoot, SetRootMetric, PropagateMetadata, Write
  <2> QED BY <2>1, <2>2, <2>3, <2>4
<1> QED BY <1>1, <1>2, TypeCorrect, PTL DEF Spec

-----------------------------------------------------------------------------
(***************************************************************************)
(* The priority of the chunks.  From the moment there is a root there is a *)
(* priority, only the root passes through the steps that set its metric,   *)
(* and a finished root that lacks the metric is still in these steps.      *)
(***************************************************************************)
RootPc == {"lockPriority", "setMetric"}

PriorityInv ==
    /\ rootSpan = None => started = {} /\ \A th \in Threads : pc[th] = "idle"
    /\ rootSpan # None => samplingPriority # None
    /\ rootSpan \in isFinished /\ metric[rootSpan] = None =>
         \E th \in Threads : pc[th] \in RootPc
    /\ \A th \in Threads :
         /\ pc[th] = "assign" => value[th] \in Priorities
         /\ pc[th] \in RootPc => span[th] = rootSpan

ChunkInv == PriorityInv /\ ChunkPriority

\* ChunkInv is preserved by every step.
LEMMA ChunkInvNext == SpanInv /\ ChunkInv /\ [Next]_vars => ChunkInv'
<1> SUFFICES ASSUME SpanInv, ChunkInv, [Next]_vars PROVE ChunkInv'
    OBVIOUS
<1> PreType /\ HolderInv /\ SpansConserved /\ PriorityInv /\ ChunkPriority
    BY DEF SpanInv, ChunkInv
<1>1. ASSUME NEW th \in Threads, NEW s \in Spans, NEW p \in Priorities,
             AddSpan(th, s, p)
      PROVE  ChunkInv'
  <2>1. PriorityInv'
      BY <1>1 DEF AddSpan, PriorityInv, PreType, HolderInv, RootPc, threadVars
  <2>2. ChunkPriority'
    <3>1. CASE rootSpan = None
        BY <1>1, <3>1 DEF AddSpan, ChunkPriority, PriorityInv, threadVars
    <3>2. CASE rootSpan # None
        BY <1>1, <3>2 DEF AddSpan, ChunkPriority, threadVars
    <3> QED BY <3>1, <3>2
  <2> QED BY <2>1, <2>2 DEF ChunkInv
<1>2. ASSUME NEW th \in Threads, NEW p \in Priorities,
             SetSamplingPriority(th, p)
      PROVE  ChunkInv'
  <2>1. PriorityInv'
      BY <1>2 DEF SetSamplingPriority, PriorityInv, PreType, RootPc,
          priorityVars, spanVars
  <2>2. ChunkPriority'
      BY <1>2 DEF SetSamplingPriority, ChunkPriority, PreType, spanVars
  <2> QED BY <2>1, <2>2 DEF ChunkInv
<1>3. ASSUME NEW th \in Threads, AssignSamplingPriority(th)
      PROVE  ChunkInv'
  <2>1. PriorityInv'
      BY <1>3 DEF AssignSamplingPriority, PriorityInv, PreType, RootPc,
          spanVars
  <2>2. ChunkPriority'
      BY <1>3 DEF AssignSamplingPriority, ChunkPriority, PreType, spanVars
  <2> QED BY <2>1, <2>2 DEF ChunkInv
<1>4. ASSUME NEW th \in Threads, Inject(th)
      PROVE  ChunkInv'
    BY <1>4 DEF Inject, ChunkInv, PriorityInv, ChunkPriority, spanVars,
        threadVars
<1>5. ASSUME NEW th \in Threads, NEW s \in Spans, Finish(th, s)
      PROVE  ChunkInv'
  <2>1. PriorityInv'
      BY <1>5 DEF Finish, PriorityInv, PreType, RootPc, priorityVars
  <2>2. ChunkPriority'
      BY <1>5 DEF Finish, ChunkPriority, PreType
  <2> QED BY <2>1, <2>2 DEF ChunkInv
<1>6. ASSUME NEW th \in Threads, CloseRoot(th)
      PROVE  ChunkInv'
  <2>1. PriorityInv'
      BY <1>6 DEF CloseRoot, PriorityInv, PreType, RootPc, spanVars
  <2>2. ChunkPriority'
      BY <1>6 DEF CloseRoot, ChunkPriority, PreType, spanVars
  <2> QED BY <2>1, <2>2 DEF ChunkInv
<1>7. ASSUME NEW th \in Threads, SetRootMetric(th)
      PROVE  ChunkInv'
  <2>1. /\ span[th] = rootSpan /\ rootSpan \in Spans
        /\ samplingPriority \in Priorities
        /\ Closing(th, rootSpan)
      BY <1>7 DEF SetRootMetric, PriorityInv, PreType, HolderInv, RootPc,
          ClosingPc, Closing
  <2>2. metric' = [metric EXCEPT ![rootSpan] = samplingPriority]
      BY <1>7, <2>1 DEF SetRootMetric
  <2>3. PriorityInv'
      BY <1>7, <2>1, <2>2 DEF SetRootMetric, PriorityInv, PreType, RootPc,
          priorityVars
  <2>4. ChunkPriority'
    <3>1. \A u \in Threads : ~Contains(chunk[u], rootSpan)
        BY <2>1 DEF SpansConserved
    <3>2. \A u \in Threads : \A i \in 1 .. Len(chunk[u]) :
             metric'[chunk[u][i]] = metric[chunk[u][i]]
        BY <3>1, <2>2 DEF Contains, PreType
    <3>3. UNCHANGED <<chunk, partial, rootSpan>>
          /\ \A u \in Threads : pc'[u] = "write" => pc[u] = "write"
        BY <1>7 DEF SetRootMetric, PreType
    <3>4. metric'[rootSpan] # None
        BY <2>1, <2>2 DEF PreType
    <3> QED BY <3>2, <3>3, <3>4 DEF ChunkPriority
  <2> QED BY <2>3, <2>4 DEF ChunkInv
<1>8. ASSUME NEW th \in Threads, CloseSpan(th)
      PROVE  ChunkInv'
  <2> DEFINE finished == Append(spans, span[th])
             takes == TakesAll(openSpans - 1, finished)
  <2>1. /\ span[th] \in Spans
        /\ pc' = [pc EXCEPT ![th] = IF ~takes THEN "idle"
                                    ELSE IF takes /\ openSpans - 1 # 0
                                         THEN "propagate" ELSE "write"]
        /\ partial' = [partial EXCEPT ![th] = takes /\ openSpans - 1 # 0]
        /\ chunk' = [chunk EXCEPT ![th] = IF takes THEN finished ELSE <<>>]
        /\ UNCHANGED <<rootSpan, priorityVars, spanVars, value>>
      BY <1>8 DEF CloseSpan, HolderInv, ClosingPc
  <2>2. \A x : Contains(finished, x) <=> Contains(spans, x) \/ x = span[th]
      BY <2>1, AppendContains DEF PreType
  <2> HIDE DEF finished, takes
  <2>3. PriorityInv'
      BY <1>8, <2>1 DEF CloseSpan, PriorityInv, PreType, RootPc, priorityVars,
          spanVars
  <2>4. ASSUME Contains(finished, rootSpan)
        PROVE  metric[rootSpan] # None
    <3>1. rootSpan \in Spans
        BY <1>8, <2>1 DEF CloseSpan, PriorityInv, PreType
    <3>2. rootSpan \in isFinished
        BY <1>8, <2>1, <2>2, <2>4, <3>1
            DEF CloseSpan, SpansConserved, Closing, ClosingPc
    <3>3. ASSUME NEW u \in Threads, pc[u] \in RootPc PROVE FALSE
      <4>1. Closing(u, rootSpan) /\ u # th
          BY <1>8, <3>3 DEF CloseSpan, PriorityInv, RootPc, Closing, ClosingPc
      <4>2. CASE Contains(spans, rootSpan)
          BY <4>1, <4>2, <3>1 DEF SpansConserved
      <4>3. CASE rootSpan = span[th]
        <5>1. Closing(th, rootSpan)
            BY <1>8, <4>3 DEF CloseSpan, Closing, ClosingPc
        <5> QED BY <5>1, <4>1, <3>1 DEF SpansConserved
      <4> QED BY <2>2, <2>4, <4>2, <4>3
    <3> QED BY <3>2, <3>3 DEF PriorityInv
  <2>5. ChunkPriority'
    <3> SUFFICES ASSUME NEW u \in Threads, pc'[u] = "write"
                 PROVE  IF partial'[u]
                        THEN \E p \in Priorities :
                               \A i \in 1 .. Len(chunk'[u]) :
                                 metric'[chunk'[u][i]] = p
                        ELSE Contains(chunk'[u], rootSpan')
                               => metric'[rootSpan'] # None
        BY DEF ChunkPriority, Contains
    <3>1. CASE u = th
      <4>1. ~partial'[u] /\ chunk'[u] = finished
          BY <2>1, <3>1 DEF PreType
      <4>2. rootSpan' = rootSpan /\ metric' = metric
          BY <2>1 DEF spanVars
      <4> QED BY <4>1, <4>2, <2>4
    <3>2. CASE u # th
      <4>1. /\ partial'[u] = partial[u] /\ chunk'[u] = chunk[u]
            /\ pc[u] = "write" /\ rootSpan' = rootSpan /\ metric' = metric
          BY <2>1, <3>2 DEF PreType, spanVars
      <4> QED BY <4>1 DEF ChunkPriority
    <3> QED BY <3>1, <3>2
  <2> QED BY <2>3, <2>5 DEF ChunkInv
<1>9. ASSUME NEW th \in Threads, PropagateMetadata(th)
      PROVE  ChunkInv'
  <2>1. samplingPriority \in Priorities
      BY <1>9 DEF PropagateMetadata, PriorityInv, PreType
  <2>2. \A s \in Spans : metric'[s] = IF Contains(chunk[th], s)
                                      THEN samplingPriority ELSE metric[s]
      BY <1>9, <2>1 DEF PropagateMetadata
  <2>3. PriorityInv'
      BY <1>9, <2>1, <2>2 DEF PropagateMetadata, PriorityInv, PreType, RootPc,
          priorityVars
  <2>4. ChunkPriority'
    <3> SUFFICES ASSUME NEW u \in Threads, pc'[u] = "write"
                 PROVE  IF partial[u]
                        THEN \E p \in Priorities :
                               \A i \in 1 .. Len(chunk[u]) :
                                 metric'[chunk[u][i]] = p
                        ELSE Contains(chunk[u], rootSpan)
                               => metric'[rootSpan] # None
        BY <1>9 DEF PropagateMetadata, ChunkPriority
    <3>1. rootSpan \in Spans
        BY <1>9 DEF PropagateMetadata, PriorityInv, PreType
    <3>2. CASE u = th
      <4>1. \A i \in 1 .. Len(chunk[u]) :
               metric'[chunk[u][i]] = samplingPriority
          BY <2>2, <3>2 DEF Contains, PreType
      <4> QED BY <2>1, <2>2, <3>1, <3>2, <4>1
    <3>3. CASE u # th
      <4>1. pc[u] = "write"
          BY <1>9, <3>3 DEF PropagateMetadata, PreType
      <4>2. \A i \in 1 .. Len(chunk[u]) :
               chunk[u][i] \in Spans /\ ~Contains(chunk[th], chunk[u][i])
        <5>1. ASSUME NEW i \in 1 .. Len(chunk[u])
              PROVE  chunk[u][i] \in Spans /\ Contains(chunk[u], chunk[u][i])
            BY DEF PreType, Contains
        <5> QED BY <5>1, <3>3 DEF SpansConserved
      <4>3. \A i \in 1 .. Len(chunk[u]) :
               metric'[chunk[u][i]] = metric[chunk[u][i]]
          BY <2>2, <4>2
      <4>4. metric[rootSpan] # None => metric'[rootSpan] # None
          BY <2>1, <2>2, <3>1
      <4> QED BY <4>1, <4>3, <4>4 DEF ChunkPriority
    <3> QED BY <3>2, <3>3
  <2> QED BY <2>3, <2>4 DEF ChunkInv
<1>10. ASSUME NEW th \in Threads, Write(th)
       PROVE  ChunkInv'
  <2>1. PriorityInv'
      BY <1>10 DEF Write, PriorityInv, PreType, RootPc, priorityVars, spanVars
  <2>2. ChunkPriority'
      BY <1>10 DEF Write, ChunkPriority, PreType, spanVars
  <2> QED BY <2>1, <2>2 DEF ChunkInv
<1>11. CASE UNCHANGED vars
    BY <1>11 DEF vars, ChunkInv, PriorityInv, ChunkPriority, priorityVars,
        spanVars, threadVars
<1> QED BY <1>1, <1>2, <1>3, <1>4, <1>5, <1>6, <1>7, <1>8, <1>9, <1>10, <1>11
        DEF Next, Close

\* The chunks given to Tracer.Write carry the sampling priority where the agent
\* looks for it, although the priority is read and written without a lock.
THEOREM ChunkPriorityCorrect == Spec => []ChunkPriority
<1>1. Init => ChunkInv
    BY DEF Init, ChunkInv, PriorityInv, ChunkPriority, RootPc
<1>2. ChunkInv => ChunkPriority
    BY DEF ChunkInv
<1> QED BY <1>1, <1>2, SpanInvInit, SpanInvNext, ChunkInvNext, PTL DEF Spec
=============================================================================
