------------------------ MODULE NativeProfilerProofs ------------------------
(***************************************************************************)
(* Proofs about NativeProfiler, for any number of threads, modules,        *)
(* methods, native images and integrations.                                *)
(***************************************************************************)
EXTENDS NativeProfiler, FiniteSetTheorems, SequenceTheorems, TLAPS

(***************************************************************************)
(* The inductive invariants.  They are about the order in which the locks  *)
(* let a callback, Shutdown and the rejit thread come to one another: who  *)
(* holds the module lock, which modules the callbacks in progress are      *)
(* about, and what becomes of a promise.  Two of them say where a method   *)
(* is on its way to RequestReJIT, and two what is left in the handler's    *)
(* tables of a module that is unloaded, and of all of them after Shutdown. *)
(***************************************************************************)
\* The steps of ProcessModuleForRejit, and of InitializeProfiler
ProcSteps == {"proc_module", "proc_method"}
InitSteps == {"init_lock", "init_module", "init_wait"}

\* What a thread has read before it waits for a lock: the module, method or definitions of
\* its callback, and the matches that ProcessModuleForRejit has still to register.
ArgInv ==
    /\ \A t \in Callers :
         /\ pc[t] \in ModuleSteps \cup UnloadSteps => arg[t] \in Modules
         /\ pc[t] \in {"ngen_add", "ngen_scan"} => arg[t] \in NGenModules
         /\ pc[t] \in JitSteps => arg[t] \in Pairs
         /\ pc[t] \in InitSteps => arg[t] \in Ids
    /\ \A t \in Threads :
         /\ pc[t] = "proc_method" => arg[t] \in work[t]
         /\ pc[t] \notin ProcSteps \cup {"fault"} => work[t] = {}

\* module_id_to_info_map_lock_ has one holder.
LockInv == \A t, u \in Callers : pc[t] \in ModuleLocked /\ pc[u] \in ModuleLocked => t = u

\* The handler is deleted after is_attached_ was reset, by Shutdown alone; no
\* just-in-time callback that has seen it set is in progress then, by the assumption on
\* the runtime.
AttachInv ==
    /\ ~rejit_handler => ~is_attached
    /\ ~JitDuringShutdown /\ ~is_attached => Free(JitSteps, Callers)
    /\ \A t \in Callers : pc[t] \in ShutdownSteps => ~is_attached

\* The callback that t executes is about module m.
Uses(t, m) ==
    \/ pc[t] \in ModuleSteps \cup UnloadSteps /\ arg[t] = m
    \/ pc[t] \in ProcSteps /\ \E p \in work[t] : ModuleOf(p) = m
    \/ pc[t] \in JitSteps /\ ModuleOf(arg[t]) = m

\* A callback in progress is about a loaded module, and the runtime unloads no module
\* that another callback is about.
LoadInv ==
    /\ loaded \cap gone = {}
    /\ module_ids \subseteq loaded \cup gone
    /\ \A p \in pending : ModuleOf(p) \in loaded
    /\ \A t \in Callers, m \in Modules : Uses(t, m) => m \in loaded
    /\ \A t, u \in Callers : pc[u] \in UnloadSteps /\ Uses(t, arg[u]) => t = u

\* A promise, in the queue or with the rejit thread, belongs to a thread that waits in
\* InitializeProfiler; the modules and integrations that it was made for are the current
\* ones until it is resolved; there is one at most.
PromiseInv ==
    /\ \A i \in DOMAIN queue : queue[i].type = 2 =>
         LET t == queue[i].promise
         IN  /\ pc[t] = "init_wait" /\ t \notin resolved /\ reply = None
             /\ queue[i].modules = module_ids
             /\ queue[i].integrations = Definitions[arg[t]]
    /\ \A i, j \in DOMAIN queue : queue[i].type = 2 /\ queue[j].type = 2 => i = j
    /\ reply # None => pc[reply] = "init_wait" /\ reply \notin resolved
    /\ \A t \in resolved : pc[t] = "init_wait"
    /\ pc[Rejit] \in ProcSteps => reply # None

\* The modules whose methods the rejit thread registers are loaded: their removal needs
\* the lock that the waiting InitializeProfiler holds.
RejitLoadInv ==
    is_attached /\ pc[Rejit] \in ProcSteps => \A p \in work[Rejit] : ModuleOf(p) \in loaded

\* The module that GetOrAddModule has returned is there when GetOrAddMethod is called.
AliveInv ==
   /\ \A t \in Threads : pc[t] = "proc_method" => ModuleOf(arg[t]) \in m_modules
   /\ \A t \in Callers : pc[t] = "par_method" => ModuleOf(arg[t]) \in m_modules

\* The methods that will be requested with their replacement: those still to be
\* registered, and the registered ones in the queue or in the hands of a thread.  The
\* rejit thread has its methods in hand until the call of RequestReJIT.
RequestSteps == {"proc_module", "proc_method", "req_request"}
Working == UNION {work[t] : t \in Threads}
InHand == IF pc[Rejit] \in RequestSteps THEN found[Rejit] ELSE {}
Found == (UNION {found[t] : t \in Callers}) \cup InHand
Planned == Working \cup (m_replaced \cap (Queued \cup Found))
OnItsWay == armed \cup Planned
\* No target of the integrations known is missed, nor of the ones that arrive with a
\* promise that the rejit thread has taken up.
PairsInv ==
    is_attached =>
        /\ Targets(integration_methods, module_ids \cap loaded) \subseteq OnItsWay
        /\ \A t \in Callers : t = reply \/ t \in resolved =>
              Targets(Definitions[arg[t]], module_ids \cap loaded) \subseteq OnItsWay

\* What a handler's table knows of a method is kept in a RejitHandlerModule, and a mark in
\* a RejitHandlerModuleMethod.
KeptInv ==
    /\ \A p \in m_methods : ModuleOf(p) \in m_modules
    /\ \A d \in ngenDone : d[2] \in m_methods

\* The steps in which a callback is about to add something to the handler's tables
HandlerSteps == {"ngen_add", "ngen_scan", "proc_module", "proc_method", "par_module", "par_method"}
JoinedSteps == {"sd_modules", "sd_ngen", "sd_write", "sd_delete"}
\* RejitHandler::Shutdown clears the tables when the rejit thread has ended and no
\* callback is inside the handler; none comes back to fill them again.
EndInv ==
    /\ \A t \in Callers : pc[t] \in JoinedSteps => pc[Rejit] = "ended"
    /\ m_shutdown =>
         /\ ~is_attached /\ pc[Rejit] = "ended" /\ m_modules = {}
         /\ rejit_handler => \E t \in Callers : pc[t] = "sd_delete"
         /\ \A t \in Callers : pc[t] \notin HandlerSteps

\* The methods that have been asked for, or that the rejit thread will ask for next
Wanted == requested \cup Queued \cup (IF pc[Rejit] = "req_request" THEN found[Rejit] ELSE {})
\* The inliners that the runtime has named are asked for.  A mark on a method
\* (m_ngenModules of RejitHandlerModuleMethod) is set only when it has named all of them;
\* a method without the mark is looked up again.
NgenInv ==
    /\ m_ngenModules \subseteq loaded \cup gone
    /\ \A q \in told : ModuleOf(q) \in loaded \cup gone /\ (ModuleOf(q) \in loaded => q \in Wanted)
    /\ \A d \in ngenDone : d \in asked /\ Inliners[d[1]][d[2]] \subseteq told
    /\ is_attached =>
        /\ \A p \in armed : p \in m_replaced \/ ModuleOf(p) \in gone
        /\ \A ng \in m_ngenModules \cap loaded, p \in armed \cap m_replaced :
            \/ <<ng, p>> \in asked
            \/ pc[Rejit] = "req_ngen"
            \/ pc[Rejit] = "req_scan" /\ ng \in scan
            \/ \E t \in Callers : pc[t] = "ngen_scan" /\ arg[t] = ng

-----------------------------------------------------------------------------
(* The queue and the threads *)

\* SetToSeq, with which the model orders the methods of a native image, misses none.
LEMMA SetToSeqRange ==
    ASSUME NEW S, IsFiniteSet(S)
    PROVE  /\ SetToSeq(S) \in Seq(S)
           /\ \A x \in S : \E i \in DOMAIN SetToSeq(S) : SetToSeq(S)[i] = x
<1> DEFINE n == Cardinality(S)
           f == SetToSeq(S)
<1>1. n \in Nat /\ ExistsBijection(1 .. n, S)
  BY FS_CardinalityType
<1>2. \E g \in [1 .. n -> S] : IsInjective(g)
  BY <1>1 DEF ExistsBijection, Bijection, Injection
<1>3. f \in [1 .. n -> S] /\ IsInjective(f)
  BY <1>2 DEF SetToSeq
<1> HIDE DEF f
<1>4. f \in Seq(S)
  BY <1>1, <1>3
<1>5. Cardinality(1 .. n) = n
  BY <1>1, FS_Interval
<1>6. f \in Surjection(1 .. n, S)
  BY <1>3, <1>5, FS_Injection DEF Injection
<1> QED
  BY <1>3, <1>4, <1>6 DEF Surjection, f

\* A step of a thread leaves the others where they are.
LEMMA GotoStep ==
    ASSUME DOMAIN pc = Threads, NEW t \in Threads, NEW step, Goto(t, step)
    PROVE  /\ DOMAIN pc' = Threads
           /\ pc'[t] = step
           /\ \A u \in Threads : u # t => pc'[u] = pc[u]
BY DEF Goto

\* What is in the queue stays there, and no new item has a promise.
QueueGrows ==
    /\ DOMAIN queue \subseteq DOMAIN queue'
    /\ \A i \in DOMAIN queue : queue'[i] = queue[i]
    /\ \A i \in DOMAIN queue' : queue'[i].type = 2 => i \in DOMAIN queue

\* The items by their types.
LEMMA ItemTypes ==
    ASSUME NEW item \in Items
    PROVE  /\ item.type = 1 => item \in RequestItems /\ item.pairs \subseteq Pairs
           /\ item.type = 2 => /\ item \in ProcessItems
                               /\ item.modules \subseteq Modules
                               /\ item.integrations \subseteq Integrations
                               /\ item.promise \in Callers
           /\ item.type \in {-1, 1, 2}
BY DEF Items, RequestItems, ProcessItems, EndItem

\* EnqueueForRejit, and the end of the queue: an item is added.
LEMMA QueueAppend ==
    ASSUME queue \in Seq(Items), NEW item \in Items, queue' = Append(queue, item)
    PROVE  /\ queue' \in Seq(Items)
           /\ item.type # 2 => QueueGrows
           /\ Queued \subseteq Queued'
           /\ item.type = 1 => item.pairs \subseteq Queued'
<1>1. /\ queue' \in Seq(Items) /\ Len(queue) \in Nat
      /\ DOMAIN queue = 1 .. Len(queue) /\ DOMAIN queue' = 1 .. (Len(queue) + 1)
      /\ \A i \in 1 .. Len(queue) : queue'[i] = queue[i]
      /\ queue'[Len(queue) + 1] = item
  OBVIOUS
<1>2. item.type # 2 => QueueGrows
  BY <1>1 DEF QueueGrows
<1>3. Queued \subseteq Queued'
  BY <1>1 DEF Queued
<1>4. item.type = 1 => item.pairs \subseteq Queued'
  BY <1>1 DEF Queued
<1> QED
  BY <1>1, <1>2, <1>3, <1>4

\* Several requests are added, one for each member of s.
LEMMA QueueConcat ==
    ASSUME queue \in Seq(Items), NEW s \in Seq(RequestItems), queue' = queue \o s
    PROVE  /\ queue' \in Seq(Items)
           /\ QueueGrows
           /\ Queued \subseteq Queued'
           /\ \A i \in DOMAIN s : s[i].pairs \subseteq Queued'
<1>1. s \in Seq(Items)
  BY SeqMonotonic DEF Items
<1>2. /\ queue' \in Seq(Items) /\ Len(queue) \in Nat /\ Len(s) \in Nat
      /\ DOMAIN queue = 1 .. Len(queue) /\ DOMAIN s = 1 .. Len(s)
      /\ DOMAIN queue' = 1 .. (Len(queue) + Len(s))
      /\ \A i \in 1 .. Len(queue) : queue'[i] = queue[i]
      /\ \A i \in 1 .. Len(s) : queue'[Len(queue) + i] = s[i]
  BY <1>1
<1>3. \A i \in 1 .. Len(s) : s[i] \in RequestItems /\ s[i].type = 1
  <2>1. \A x \in RequestItems : x.type = 1
    BY DEF RequestItems
  <2>2. \A i \in 1 .. Len(s) : s[i] \in RequestItems
    OBVIOUS
  <2> QED
    BY <2>1, <2>2
<1>4. \A i \in DOMAIN queue' \ DOMAIN queue : i - Len(queue) \in 1 .. Len(s)
  BY <1>2
<1>5. \A i \in DOMAIN queue' \ DOMAIN queue : queue'[i].type = 1
  <2> TAKE i \in DOMAIN queue' \ DOMAIN queue
  <2>1. queue'[Len(queue) + (i - Len(queue))] = s[i - Len(queue)]
    BY <1>2, <1>4
  <2>2. Len(queue) + (i - Len(queue)) = i
    BY <1>2
  <2> QED
    BY <1>3, <1>4, <2>1, <2>2
<1>6. QueueGrows
  BY <1>2, <1>5 DEF QueueGrows
<1>7. Queued \subseteq Queued'
  BY <1>2 DEF Queued
<1>8. ASSUME NEW i \in DOMAIN s PROVE s[i].pairs \subseteq Queued'
  <2>1. /\ Len(queue) + i \in DOMAIN queue'
        /\ queue'[Len(queue) + i].type = 1 /\ queue'[Len(queue) + i] = s[i]
    BY <1>2, <1>3, <1>8
  <2> QED
    BY <2>1 DEF Queued
<1> QED
  BY <1>2, <1>6, <1>7, <1>8

\* The rejit thread takes the first item.
LEMMA QueueTail ==
    ASSUME queue \in Seq(Items), queue # <<>>, queue' = Tail(queue)
    PROVE  /\ queue' \in Seq(Items)
           /\ 1 \in DOMAIN queue /\ Head(queue) = queue[1] /\ Head(queue) \in Items
           /\ \A i \in DOMAIN queue' : i + 1 \in DOMAIN queue /\ queue'[i] = queue[i + 1] /\ i \in Nat \ {0}
           /\ Queued \subseteq Queued' \cup (IF Head(queue).type = 1 THEN Head(queue).pairs ELSE {})
<1>1. /\ queue' \in Seq(Items) /\ Len(queue) \in Nat \ {0}
      /\ DOMAIN queue = 1 .. Len(queue) /\ DOMAIN queue' = 1 .. (Len(queue) - 1)
      /\ \A i \in 1 .. (Len(queue) - 1) : queue'[i] = queue[i + 1]
      /\ Head(queue) = queue[1] /\ Head(queue) \in Items
  OBVIOUS
<1>2. ASSUME NEW i \in DOMAIN queue, queue[i].type = 1, i # 1
      PROVE  queue[i].pairs \subseteq Queued'
  <2>1. i - 1 \in DOMAIN queue' /\ queue'[i - 1] = queue[i]
    BY <1>1, <1>2
  <2> QED
    BY <1>2, <2>1 DEF Queued
<1>3. Queued \subseteq Queued' \cup (IF Head(queue).type = 1 THEN Head(queue).pairs ELSE {})
  BY <1>1, <1>2 DEF Queued
<1> QED
  BY <1>1, <1>3

\* The methods that integrations target are methods.
LEMMA TargetsArePairs ==
    ASSUME NEW integrations \in SUBSET Integrations, NEW modules
    PROVE  Targets(integrations, modules) \subseteq Pairs
BY ConstantsAssumption DEF Targets

\* The inliners of a method in a native image are methods of that image.
LEMMA InlinersInImage ==
    ASSUME NEW ng \in NGenModules, NEW p \in Pairs, NEW q \in Inliners[ng][p]
    PROVE  ModuleOf(q) = ng
BY ConstantsAssumption DEF ModuleOf

\* What RequestRejitForInlinersInModule does: every method that is not marked is looked
\* up, the inliners that the runtime names are enqueued, and a mark says that all of
\* them were named.
LEMMA ScanEffect ==
    ASSUME TypeOK, NEW ng \in NGenModules, RequestRejitForInlinersInModule(ng)
    PROVE  /\ queue' \in Seq(Items)
           /\ QueueGrows
           /\ Queued \subseteq Queued'
           /\ asked' \subseteq NGenModules \X Pairs /\ told' \subseteq Pairs /\ again' \in BOOLEAN
           /\ ngenDone' \subseteq NGenModules \X Pairs
           /\ asked \subseteq asked' /\ told \subseteq told'
           /\ ng \in loaded => \A p \in m_methods : <<ng, p>> \in ngenDone \/ <<ng, p>> \in asked'
           /\ \A q \in told' : q \in told \/ (q \in Queued' /\ ModuleOf(q) = ng /\ ng \in loaded)
           /\ \A d \in ngenDone' : \/ d \in ngenDone
                                   \/ /\ d[1] = ng /\ d[2] \in m_methods /\ d \in asked'
                                      /\ Inliners[d[1]][d[2]] \subseteq told'
<1> DEFINE todo == {p \in m_methods : ng \in loaded /\ <<ng, p>> \notin ngenDone}
<1>a. PICK complete \in SUBSET todo : \E answer \in Answers(ng, todo, complete) :
        /\ InlinersInModule(ng, answer, complete)
        /\ asked' = asked \cup ({ng} \X todo)
        /\ told' = told \cup UNION {answer[p] : p \in todo}
        /\ again' = \E p \in todo \ complete : answer[p] # {}
  BY DEF RequestRejitForInlinersInModule
<1>1. PICK answer \in Answers(ng, todo, complete) :
        /\ InlinersInModule(ng, answer, complete)
        /\ asked' = asked \cup ({ng} \X todo)
        /\ told' = told \cup UNION {answer[p] : p \in todo}
        /\ again' = \E p \in todo \ complete : answer[p] # {}
  BY <1>a
<1>2. /\ queue \in Seq(Items) /\ m_methods \subseteq Pairs
      /\ ngenDone \subseteq NGenModules \X Pairs
      /\ asked \subseteq NGenModules \X Pairs /\ told \subseteq Pairs
  BY DEF TypeOK
<1>3. /\ answer \in [todo -> SUBSET PairsOf(ng)]
      /\ \A p \in todo : answer[p] \subseteq Inliners[ng][p]
      /\ \A p \in complete : answer[p] = Inliners[ng][p]
  BY <1>1 DEF Answers
<1> DEFINE S == {p \in todo : answer[p] # {}}
           s == SetToSeq(S)
           items == [i \in DOMAIN s |-> RequestItem(answer[s[i]])]
<1>4. IsFiniteSet(Pairs)
  BY ConstantsAssumption
<1>5. todo \subseteq Pairs /\ S \subseteq Pairs
  BY <1>2
<1>6. \A p \in todo : answer[p] \subseteq Pairs /\ \A q \in answer[p] : ModuleOf(q) = ng
  BY <1>3 DEF PairsOf
<1>7. s \in Seq(S) /\ \A x \in S : \E i \in DOMAIN s : s[i] = x
  BY <1>4, <1>5, FS_Subset, SetToSeqRange
<1>7a. queue' = queue \o items /\ ngenDone' = ngenDone \cup ({ng} \X complete)
  <2>1. DOMAIN answer = todo
    BY <1>3
  <2> QED
    BY <1>1, <2>1 DEF InlinersInModule
<1> HIDE DEF s
<1>8. items \in Seq(RequestItems)
  <2>1. Len(s) \in Nat /\ DOMAIN s = 1 .. Len(s) /\ \A i \in DOMAIN s : s[i] \in S
    BY <1>7
  <2>2. \A i \in DOMAIN s : RequestItem(answer[s[i]]) \in RequestItems
    BY <1>6, <2>1 DEF RequestItem, RequestItems
  <2> QED
    BY <2>1, <2>2
<1>9. /\ queue' \in Seq(Items) /\ QueueGrows /\ Queued \subseteq Queued'
      /\ \A i \in DOMAIN items : items[i].pairs \subseteq Queued'
  BY <1>2, <1>7a, <1>8, QueueConcat
<1>10. ASSUME NEW p \in todo PROVE answer[p] \subseteq Queued'
  <2>1. CASE p \in S
    <3>1. PICK i \in DOMAIN s : s[i] = p
      BY <1>7, <2>1
    <3>2. items[i].pairs = answer[p]
      BY <3>1 DEF RequestItem
    <3> QED
      BY <1>9, <3>1, <3>2
  <2>2. CASE p \notin S
    BY <2>2
  <2> QED
    BY <2>1, <2>2
<1>11. asked' \subseteq NGenModules \X Pairs /\ told' \subseteq Pairs /\ again' \in BOOLEAN
  BY <1>1, <1>2, <1>5, <1>6
<1>12. ngenDone' \subseteq NGenModules \X Pairs
  BY <1>2, <1>5, <1>7a
<1>13. ng \in loaded => \A p \in m_methods : <<ng, p>> \in ngenDone \/ <<ng, p>> \in asked'
  BY <1>1
<1>14. ASSUME NEW q \in told', q \notin told
       PROVE  q \in Queued' /\ ModuleOf(q) = ng /\ ng \in loaded
  <2>1. PICK p \in todo : q \in answer[p]
    BY <1>1, <1>14
  <2> QED
    BY <1>6, <1>10, <2>1
<1>15. ASSUME NEW d \in ngenDone', d \notin ngenDone
       PROVE  /\ d[1] = ng /\ d[2] \in m_methods /\ d \in asked'
              /\ Inliners[d[1]][d[2]] \subseteq told'
  <2>1. PICK p \in complete : d = <<ng, p>>
    BY <1>7a, <1>15
  <2>2. answer[p] = Inliners[ng][p] /\ answer[p] \subseteq told'
    BY <1>1, <1>3, <2>1
  <2> QED
    BY <1>1, <2>1, <2>2
<1> QED
  BY <1>1, <1>9, <1>11, <1>12, <1>13, <1>14, <1>15

-----------------------------------------------------------------------------
\* Every callback and every step of the rejit thread keeps the types, and what a thread
\* carries from one step to the next.
LEMMA TypeInvNext ==
    ASSUME TypeOK, ArgInv, [Next]_vars
    PROVE  TypeOK' /\ ArgInv'
<1>0. Rejit \notin Callers /\ Threads = Callers \cup {Rejit}
  BY ConstantsAssumption DEF Threads
<1> USE DEF corVars, handlerVars, queueVars, clrVars, lookupVars, localVars, Goto,
            ModuleSteps, UnloadSteps, JitSteps, ShutdownSteps, ProcSteps, InitSteps, CallerPcs, RejitPcs
<1> DEFINE Goal == TypeOK' /\ ArgInv'
<1>1. ASSUME NEW t \in Callers, NEW m \in Modules, ModuleLoadFinished(t, m) PROVE Goal
  <2>1. TypeOK'
    BY <1>0, <1>1 DEF ModuleLoadFinished, TypeOK, ArgInv
  <2>2. ArgInv'
    BY <1>0, <1>1 DEF ModuleLoadFinished, TypeOK, ArgInv
  <2> QED
    BY <2>1, <2>2
<1>2. ASSUME NEW t \in Callers, NEW m \in Modules, ModuleUnloadStarted(t, m) PROVE Goal
  <2>1. TypeOK'
    BY <1>0, <1>2 DEF ModuleUnloadStarted, Unload, TypeOK, ArgInv
  <2>2. ArgInv'
    BY <1>0, <1>2 DEF ModuleUnloadStarted, TypeOK, ArgInv
  <2> QED
    BY <2>1, <2>2
<1>3. ASSUME NEW t \in Callers, NEW m \in Modules, JITCompilationStarted(t, m) PROVE Goal
  <2>1. TypeOK'
    BY <1>0, <1>3 DEF JITCompilationStarted, TypeOK, ArgInv
  <2>2. ArgInv'
    BY <1>0, <1>3 DEF JITCompilationStarted, TypeOK, ArgInv
  <2> QED
    BY <2>1, <2>2
<1>4. ASSUME NEW t \in Callers, NEW d \in Domains, AppDomainShutdownFinished(t, d) PROVE Goal
  <2>1. TypeOK'
    BY <1>0, <1>4 DEF AppDomainShutdownFinished, TypeOK, ArgInv
  <2>2. ArgInv'
    BY <1>0, <1>4 DEF AppDomainShutdownFinished, TypeOK, ArgInv
  <2> QED
    BY <2>1, <2>2
<1>5. ASSUME NEW t \in Callers, NEW id \in Ids, InitializeProfiler(t, id) PROVE Goal
  <2>1. TypeOK'
    BY <1>0, <1>5 DEF InitializeProfiler, TypeOK, ArgInv
  <2>2. ArgInv'
    BY <1>0, <1>5 DEF InitializeProfiler, TypeOK, ArgInv
  <2> QED
    BY <2>1, <2>2
<1>6. ASSUME NEW t \in Callers, NEW p \in Pairs, JITInlining(t, p) PROVE Goal
  <2>1. TypeOK'
    BY <1>0, <1>6 DEF JITInlining, TypeOK, ArgInv
  <2>2. ArgInv'
    BY <1>0, <1>6 DEF JITInlining, TypeOK, ArgInv
  <2> QED
    BY <2>1, <2>2
<1>7. ASSUME NEW t \in Callers, NEW p \in Pairs, GetReJITParameters(t, p) PROVE Goal
  <2>1. TypeOK'
    BY <1>0, <1>7 DEF GetReJITParameters, TypeOK, ArgInv
  <2>2. ArgInv'
    BY <1>0, <1>7 DEF GetReJITParameters, TypeOK, ArgInv
  <2> QED
    BY <2>1, <2>2
<1>8. ASSUME NEW t \in Callers, Shutdown(t) PROVE Goal
  <2>1. TypeOK'
    BY <1>0, <1>8 DEF Shutdown, TypeOK, ArgInv
  <2>2. ArgInv'
    BY <1>0, <1>8 DEF Shutdown, TypeOK, ArgInv
  <2> QED
    BY <2>1, <2>2
<1>9. ASSUME NEW t \in Callers, LoadLock(t) PROVE Goal
  <2>1. TypeOK'
    BY <1>0, <1>9 DEF LoadLock, TypeOK, ArgInv
  <2>2. ArgInv'
    BY <1>0, <1>9 DEF LoadLock, TypeOK, ArgInv
  <2> QED
    BY <2>1, <2>2
<1>10. ASSUME NEW t \in Callers, AddNGenModule(t) PROVE Goal
  <2>1. TypeOK'
    BY <1>0, <1>10 DEF AddNGenModule, TypeOK, ArgInv
  <2>2. ArgInv'
    BY <1>0, <1>10 DEF AddNGenModule, TypeOK, ArgInv
  <2> QED
    BY <2>1, <2>2
<1>11. ASSUME NEW t \in Callers, LoadScan(t) PROVE Goal
  <2>1. TypeOK'
    <3>1. arg[t] \in NGenModules /\ RequestRejitForInlinersInModule(arg[t])
      BY <1>11 DEF LoadScan, AddNGenModuleScan, ArgInv
    <3>2. /\ queue' \in Seq(Items) /\ asked' \subseteq NGenModules \X Pairs
          /\ told' \subseteq Pairs /\ again' \in BOOLEAN
          /\ ngenDone' \subseteq NGenModules \X Pairs
      BY <3>1, ScanEffect
    <3> QED
      BY <1>0, <1>11, <3>2 DEF LoadScan, TypeOK, ArgInv
  <2>2. ArgInv'
    BY <1>0, <1>11 DEF LoadScan, TypeOK, ArgInv
  <2> QED
    BY <2>1, <2>2
<1>12. ASSUME NEW t \in Callers, LoadProcess(t) PROVE Goal
  <2>1. TypeOK'
    <3> DEFINE m == arg[t]
               targets == IF rejit_handler /\ m \in Instrumentable
                            THEN Targets(integration_methods, {m}) ELSE {}
    <3>1. targets \subseteq Pairs
      BY TargetsArePairs DEF TypeOK
    <3>2. /\ work' = [work EXCEPT ![t] = targets] /\ m \in Modules
          /\ module_ids' \in {module_ids, module_ids \cup {m}}
          /\ pc' = [pc EXCEPT ![t] = IF targets = {} THEN "idle" ELSE "proc_module"]
          /\ arg' = [arg EXCEPT ![t] = None]
          /\ UNCHANGED <<is_attached, rejit_handler, integration_methods, definitions_ids,
                         first_jit, handlerVars, queueVars, clrVars, found, scan, reply>>
      BY <1>12 DEF LoadProcess, ArgInv
    <3> HIDE DEF targets, m
    <3>3. work' \in [Threads -> SUBSET Pairs] /\ module_ids' \subseteq Modules
      BY <1>0, <3>1, <3>2 DEF TypeOK
    <3> QED
      BY <1>0, <3>2, <3>3 DEF TypeOK
  <2>2. ArgInv'
    BY <1>0, <1>12 DEF LoadProcess, TypeOK, ArgInv
  <2> QED
    BY <2>1, <2>2
<1>13. ASSUME NEW t \in Callers, UnloadLock(t) PROVE Goal
  <2>1. TypeOK'
    BY <1>0, <1>13 DEF UnloadLock, Unload, TypeOK, ArgInv
  <2>2. ArgInv'
    BY <1>0, <1>13 DEF UnloadLock, TypeOK, ArgInv
  <2> QED
    BY <2>1, <2>2
<1>14. ASSUME NEW t \in Callers, UnloadRemove(t) PROVE Goal
  <2>1. TypeOK'
    BY <1>0, <1>14 DEF UnloadRemove, RemoveModule, Unload, TypeOK, ArgInv
  <2>2. ArgInv'
    BY <1>0, <1>14 DEF UnloadRemove, TypeOK, ArgInv
  <2> QED
    BY <2>1, <2>2
<1>15. ASSUME NEW t \in Callers, JitLock(t) PROVE Goal
  <2>1. TypeOK'
    <3>1. DomainOf[arg[t]] \in Domains
      BY <1>15 DEF JitLock, ArgInv, Domains
    <3> QED
      BY <1>0, <1>15, <3>1 DEF JitLock, TypeOK, ArgInv
  <2>2. ArgInv'
    BY <1>0, <1>15 DEF JitLock, TypeOK, ArgInv
  <2> QED
    BY <2>1, <2>2
<1>16. ASSUME NEW t \in Callers, InitLock(t) PROVE Goal
  <2>1. TypeOK'
    BY <1>0, <1>16 DEF InitLock, TypeOK, ArgInv
  <2>2. ArgInv'
    BY <1>0, <1>16 DEF InitLock, TypeOK, ArgInv
  <2> QED
    BY <2>1, <2>2
<1>17. ASSUME NEW t \in Callers, InitModule(t) PROVE Goal
  <2>1. TypeOK'
    <3>1. arg[t] \in Ids /\ Definitions[arg[t]] \subseteq Integrations
      BY <1>17, ConstantsAssumption DEF InitModule, ArgInv
    <3>2. ProcessItem(module_ids, Definitions[arg[t]], t) \in Items
      BY <1>17, <3>1 DEF ProcessItem, ProcessItems, Items, TypeOK
    <3>3. queue' \in Seq(Items)
      BY <1>17, <3>2, QueueAppend DEF InitModule, TypeOK
    <3> QED
      BY <1>0, <1>17, <3>1, <3>3 DEF InitModule, TypeOK, ArgInv
  <2>2. ArgInv'
    <3>1. pc[t] = "init_module" /\ UNCHANGED work
      BY <1>17 DEF InitModule
    <3>2. CASE rejit_handler
      <4>1. UNCHANGED arg /\ pc' = [pc EXCEPT ![t] = "init_wait"]
        BY <1>17, <3>2 DEF InitModule
      <4> QED
        BY <1>0, <3>1, <4>1 DEF TypeOK, ArgInv
    <3>3. CASE ~rejit_handler
      <4>1. arg' = [arg EXCEPT ![t] = None] /\ pc' = [pc EXCEPT ![t] = "idle"]
        BY <1>17, <3>3 DEF InitModule
      <4> QED
        BY <1>0, <3>1, <4>1 DEF TypeOK, ArgInv
    <3> QED
      BY <3>2, <3>3
  <2> QED
    BY <2>1, <2>2
<1>18. ASSUME NEW t \in Callers, InitWait(t) PROVE Goal
  <2>1. TypeOK'
    <3>1. Definitions[arg[t]] \subseteq Integrations
      BY <1>18, ConstantsAssumption DEF InitWait, ArgInv
    <3> QED
      BY <1>0, <1>18, <3>1 DEF InitWait, TypeOK, ArgInv
  <2>2. ArgInv'
    BY <1>0, <1>18 DEF InitWait, TypeOK, ArgInv
  <2> QED
    BY <2>1, <2>2
<1>19. ASSUME NEW t \in Callers, InliningCheck(t) PROVE Goal
  <2>1. TypeOK'
    BY <1>0, <1>19 DEF InliningCheck, TypeOK, ArgInv
  <2>2. ArgInv'
    BY <1>0, <1>19 DEF InliningCheck, TypeOK, ArgInv
  <2> QED
    BY <2>1, <2>2
<1>20. ASSUME NEW t \in Callers, HasModuleAndMethod(t) PROVE Goal
  <2>1. TypeOK'
    BY <1>0, <1>20 DEF HasModuleAndMethod, TypeOK, ArgInv
  <2>2. ArgInv'
    BY <1>0, <1>20 DEF HasModuleAndMethod, TypeOK, ArgInv
  <2> QED
    BY <2>1, <2>2
<1>21. ASSUME NEW t \in Callers, EnterHandler(t, "inl_shared", "inl_modules") PROVE Goal
  <2>1. TypeOK'
    BY <1>0, <1>21 DEF EnterHandler, TypeOK, ArgInv
  <2>2. ArgInv'
    BY <1>0, <1>21 DEF EnterHandler, TypeOK, ArgInv
  <2> QED
    BY <2>1, <2>2
<1>22. ASSUME NEW t \in Callers, EnterHandler(t, "par_shared", "par_module") PROVE Goal
  <2>1. TypeOK'
    BY <1>0, <1>22 DEF EnterHandler, TypeOK, ArgInv
  <2>2. ArgInv'
    BY <1>0, <1>22 DEF EnterHandler, TypeOK, ArgInv
  <2> QED
    BY <2>1, <2>2
<1>23. ASSUME NEW t \in Callers, ParametersModule(t) PROVE Goal
  <2>1. TypeOK'
    <3>1. ModuleOf(arg[t]) \in Modules
      BY <1>23 DEF ParametersModule, ArgInv, Pairs, ModuleOf
    <3> QED
      BY <1>0, <1>23, <3>1 DEF ParametersModule, TypeOK, ArgInv
  <2>2. ArgInv'
    BY <1>0, <1>23 DEF ParametersModule, TypeOK, ArgInv
  <2> QED
    BY <2>1, <2>2
<1>24. ASSUME NEW t \in Callers, ParametersMethod(t) PROVE Goal
  <2>1. TypeOK'
    BY <1>0, <1>24 DEF ParametersMethod, TypeOK, ArgInv
  <2>2. ArgInv'
    BY <1>0, <1>24 DEF ParametersMethod, TypeOK, ArgInv
  <2> QED
    BY <2>1, <2>2
<1>25. ASSUME NEW t \in Callers, ShutdownLock(t) PROVE Goal
  <2>1. TypeOK'
    <3>1. queue' \in Seq(Items)
      BY <1>25, QueueAppend DEF ShutdownLock, TypeOK, Items
    <3> QED
      BY <1>0, <1>25, <3>1 DEF ShutdownLock, TypeOK, ArgInv
  <2>2. ArgInv'
    BY <1>0, <1>25 DEF ShutdownLock, TypeOK, ArgInv
  <2> QED
    BY <2>1, <2>2
<1>26. ASSUME NEW t \in Callers, ShutdownWait(t) PROVE Goal
  <2>1. TypeOK'
    BY <1>0, <1>26 DEF ShutdownWait, TypeOK, ArgInv
  <2>2. ArgInv'
    BY <1>0, <1>26 DEF ShutdownWait, TypeOK, ArgInv
  <2> QED
    BY <2>1, <2>2
<1>27. ASSUME NEW t \in Callers, ShutdownWrite(t) PROVE Goal
  <2>1. TypeOK'
    BY <1>0, <1>27 DEF ShutdownWrite, TypeOK, ArgInv
  <2>2. ArgInv'
    BY <1>0, <1>27 DEF ShutdownWrite, TypeOK, ArgInv
  <2> QED
    BY <2>1, <2>2
<1>28. ASSUME NEW t \in Callers, ShutdownDelete(t) PROVE Goal
  <2>1. TypeOK'
    BY <1>0, <1>28 DEF ShutdownDelete, TypeOK, ArgInv
  <2>2. ArgInv'
    BY <1>0, <1>28 DEF ShutdownDelete, TypeOK, ArgInv
  <2> QED
    BY <2>1, <2>2
<1>29. ASSUME NEW t \in Threads, GetOrAddModule(t) PROVE Goal
  <2>1. TypeOK'
    <3>1. PICK p \in work[t] : m_modules' = m_modules \cup {ModuleOf(p)} /\ arg' = [arg EXCEPT ![t] = p]
      BY <1>29 DEF GetOrAddModule
    <3>2. p \in Pairs /\ ModuleOf(p) \in Modules
      BY <1>29 DEF TypeOK, Pairs, ModuleOf
    <3> QED
      BY <1>0, <1>29, <3>1, <3>2 DEF GetOrAddModule, TypeOK, ArgInv
  <2>2. ArgInv'
    BY <1>0, <1>29 DEF GetOrAddModule, TypeOK, ArgInv
  <2> QED
    BY <2>1, <2>2
<1>30. ASSUME NEW t \in Threads, ProcessMethod(t) PROVE Goal
  <2> DEFINE p == arg[t]
             last == work[t] = {p}
  <2>a. p \in work[t] /\ p \in Pairs /\ found[t] \subseteq Pairs
    BY <1>30 DEF ProcessMethod, ArgInv, TypeOK
  <2>b. CASE ModuleOf(p) \in m_modules
    <3>1. /\ pc[t] = "proc_method"
          /\ GetOrAddMethod(t)
          /\ work' = [work EXCEPT ![t] = @ \ {p}]
          /\ found' = [found EXCEPT ![t] = IF last /\ t # Rejit THEN {} ELSE @ \cup {p}]
          /\ arg' = [arg EXCEPT ![t] = None]
          /\ queue' = IF last /\ t # Rejit
                        THEN Append(queue, RequestItem(found[t] \cup {p})) ELSE queue
          /\ pc' = [pc EXCEPT ![t] = IF ~last THEN "proc_module"
                                     ELSE IF t = Rejit THEN "req_request" ELSE "idle"]
          /\ UNCHANGED <<corVars, m_shutdown, m_modules, m_ngenModules, ngenDone, resolved,
                         clrVars, scan, reply>>
      BY <1>30, <2>b DEF ProcessMethod
    <3>2. queue' \in Seq(Items)
      <4>1. RequestItem(found[t] \cup {p}) \in Items
        BY <2>a DEF RequestItem, RequestItems, Items
      <4> QED
        BY <3>1, <4>1, QueueAppend DEF TypeOK
    <3>3. work' \in [Threads -> SUBSET Pairs] /\ found' \in [Threads -> SUBSET Pairs]
      BY <2>a, <3>1 DEF TypeOK
    <3>4. TypeOK'
      BY <1>0, <2>a, <3>1, <3>2, <3>3 DEF TypeOK, GetOrAddMethod
    <3>5. ArgInv'
      <4>1. last => work'[t] = {}
        BY <1>30, <3>1 DEF TypeOK
      <4> QED
        BY <1>0, <1>30, <3>1, <4>1 DEF TypeOK, ArgInv
    <3> QED
      BY <3>4, <3>5
  <2>c. CASE ModuleOf(p) \notin m_modules
    <3>1. /\ pc[t] = "proc_method" /\ pc' = [pc EXCEPT ![t] = "fault"]
          /\ UNCHANGED <<m_methods, m_replaced, work, found, arg, queue,
                         corVars, m_shutdown, m_modules, m_ngenModules, ngenDone, resolved,
                         clrVars, scan, reply>>
      BY <1>30, <2>c DEF ProcessMethod
    <3> QED
      BY <1>0, <3>1 DEF TypeOK, ArgInv
  <2> QED
    BY <2>b, <2>c
<1>31. CASE Pop
  <2> DEFINE item == Head(queue)
             targets == Targets(item.integrations, item.modules \cap loaded)
             empty == item.modules = {} \/ item.integrations = {}
  <2>a. queue # <<>> /\ queue' = Tail(queue) /\ queue \in Seq(Items) /\ pc[Rejit] = "pop"
    BY <1>31 DEF Pop, TypeOK
  <2>b. queue' \in Seq(Items) /\ item \in Items
    BY <2>a, QueueTail
  <2>c. UNCHANGED <<corVars, handlerVars, clrVars, arg, scan>>
    BY <1>31 DEF Pop
  <2>d. work[Rejit] = {}
    BY <1>0, <2>a DEF ArgInv
  <2>1. CASE item.type = -1
    <3>1. pc' = [pc EXCEPT ![Rejit] = "ended"] /\ UNCHANGED <<work, found, reply, resolved>>
      BY <1>31, <2>1 DEF Pop
    <3> QED
      BY <1>0, <2>b, <2>c, <2>d, <3>1 DEF TypeOK, ArgInv
  <2>2. CASE item.type = 1
    <3>1. /\ pc' = [pc EXCEPT ![Rejit] = "req_request"] /\ UNCHANGED <<work, reply, resolved>>
          /\ found' = [found EXCEPT ![Rejit] = item.pairs]
      BY <1>31, <2>2 DEF Pop
    <3>2. item.pairs \subseteq Pairs
      BY <2>2, <2>b, ItemTypes
    <3> HIDE DEF item
    <3>3. found' \in [Threads -> SUBSET Pairs]
      BY <1>0, <3>1, <3>2 DEF TypeOK
    <3> QED
      BY <1>0, <2>b, <2>c, <2>d, <3>1, <3>3 DEF TypeOK, ArgInv
  <2>3. CASE item.type = 2
    <3>1. /\ work' = [work EXCEPT ![Rejit] = IF empty THEN {} ELSE targets]
          /\ reply' = IF empty \/ targets = {} THEN None ELSE item.promise
          /\ resolved' = IF ~empty /\ targets = {}
                           THEN resolved \cup {item.promise} ELSE resolved
          /\ pc' = [pc EXCEPT ![Rejit] = IF empty \/ targets = {} THEN "pop" ELSE "proc_module"]
          /\ UNCHANGED found
      <4>1. item.type # 1 /\ item.type # -1
        BY <2>3
      <4> QED
        BY <1>31, <4>1, Zenon DEF Pop
    <3>2. item.integrations \subseteq Integrations /\ item.promise \in Callers
      BY <2>3, <2>b, ItemTypes
    <3>3. targets \subseteq Pairs
      BY <3>2, TargetsArePairs
    <3> HIDE DEF targets, empty, item
    <3>4. /\ work' \in [Threads -> SUBSET Pairs]
          /\ resolved' \subseteq Callers /\ reply' \in Callers \cup {None}
      BY <1>0, <3>1, <3>2, <3>3 DEF TypeOK
    <3>5. TypeOK'
      BY <1>0, <2>b, <2>c, <3>1, <3>4 DEF TypeOK
    <3>6. ArgInv'
      BY <1>0, <2>a, <2>c, <2>d, <3>1 DEF TypeOK, ArgInv
    <3> QED
      BY <3>5, <3>6
  <2> QED
    BY <2>b, <2>1, <2>2, <2>3, ItemTypes
<1>32. CASE RequestRejit
  <2>1. TypeOK'
    BY <1>0, <1>32 DEF RequestRejit, TypeOK, ArgInv
  <2>2. ArgInv'
    BY <1>0, <1>32 DEF RequestRejit, TypeOK, ArgInv
  <2> QED
    BY <2>1, <2>2
<1>33. CASE RequestRejitForNGenInliners
  <2>a. CASE m_ngenModules = {}
    <3>1. ItemDone /\ scan' = m_ngenModules /\ pc[Rejit] = "req_ngen"
          /\ UNCHANGED <<corVars, handlerVars, queue, clrVars, arg, work>>
      BY <1>33, <2>a DEF RequestRejitForNGenInliners
    <3> QED
      BY <1>0, <3>1 DEF ItemDone, TypeOK, ArgInv
  <2>b. CASE m_ngenModules # {}
    <3>1. /\ scan' = m_ngenModules /\ pc[Rejit] = "req_ngen"
          /\ pc' = [pc EXCEPT ![Rejit] = "req_scan"]
          /\ UNCHANGED <<corVars, handlerVars, queue, clrVars, arg, work, resolved, reply, found>>
      BY <1>33, <2>b DEF RequestRejitForNGenInliners
    <3> QED
      BY <1>0, <3>1 DEF TypeOK, ArgInv
  <2> QED
    BY <2>a, <2>b
<1>34. CASE ScanNGenModule
  <2>a. PICK ng \in scan :
          /\ RequestRejitForInlinersInModule(ng)
          /\ scan' = scan \ {ng}
          /\ ItemDone \/ UNCHANGED <<pc, resolved, reply, found>>
    BY <1>34 DEF ScanNGenModule
  <2>b. /\ queue' \in Seq(Items) /\ asked' \subseteq NGenModules \X Pairs
        /\ told' \subseteq Pairs /\ again' \in BOOLEAN
        /\ ngenDone' \subseteq NGenModules \X Pairs
    BY <2>a, ScanEffect DEF TypeOK
  <2>c. /\ pc[Rejit] = "req_scan"
        /\ UNCHANGED <<corVars, m_shutdown, m_modules, m_methods, m_replaced, m_ngenModules,
                       loaded, gone, hooked, requested, armed, pending, arg, work>>
    BY <1>34 DEF ScanNGenModule
  <2>d. CASE ItemDone
    BY <1>0, <2>a, <2>b, <2>c, <2>d DEF ItemDone, TypeOK, ArgInv
  <2>e. CASE UNCHANGED <<pc, resolved, reply, found>>
    BY <1>0, <2>a, <2>b, <2>c, <2>e DEF TypeOK, ArgInv
  <2> QED
    BY <2>a, <2>d, <2>e
<1>35. CASE UNCHANGED vars
  BY <1>35 DEF vars, TypeOK, ArgInv
<1> QED
  BY <1>0, <1>1, <1>2, <1>3, <1>4, <1>5, <1>6, <1>7, <1>8, <1>9, <1>10, <1>11, <1>12, <1>13, <1>14, <1>15, <1>16, <1>17, <1>18, <1>19, <1>20, <1>21, <1>22, <1>23, <1>24, <1>25, <1>26, <1>27, <1>28, <1>29, <1>30, <1>31, <1>32, <1>33, <1>34, <1>35
     DEF Next, Callback, CallerStep, RejitStep

\* The types hold initially, and the threads carry nothing.
LEMMA TypeInvInit == Init => TypeOK /\ ArgInv
<1> SUFFICES ASSUME Init PROVE TypeOK /\ ArgInv
  OBVIOUS
<1>1. Rejit \notin Callers
  BY ConstantsAssumption
<1>2. TypeOK
  <2>1. /\ DOMAIN pc = Threads /\ pc[Rejit] = "pop" /\ \A t \in Callers : pc[t] = "idle"
        /\ arg \in [Threads -> {None}]
        /\ work \in [Threads -> SUBSET Pairs] /\ found \in [Threads -> SUBSET Pairs]
    BY <1>1 DEF Init, Threads
  <2>2. queue \in Seq(Items)
    BY DEF Init
  <2>3. /\ is_attached \in BOOLEAN /\ rejit_handler \in BOOLEAN /\ m_shutdown \in BOOLEAN
        /\ again \in BOOLEAN
    BY DEF Init
  <2> QED
    BY <2>1, <2>2, <2>3 DEF Init, TypeOK, CallerPcs, RejitPcs
<1>3. ArgInv
  BY <1>1 DEF Init, ArgInv, Threads, ModuleSteps, UnloadSteps, JitSteps, InitSteps
<1> QED
  BY <1>2, <1>3

\* NativeProfiler keeps its types: what a thread reads after it waited for a lock is of
\* the kind that the step before has left.
THEOREM TypeCorrect == Spec => []TypeOK
<1>1. Init => TypeOK /\ ArgInv
  BY TypeInvInit
<1>2. (TypeOK /\ ArgInv) /\ [Next]_vars => (TypeOK /\ ArgInv)'
  BY TypeInvNext
<1> QED
  BY <1>1, <1>2, PTL DEF Spec

-----------------------------------------------------------------------------
(* What the steps of one thread leave to the others *)

\* A step of a runtime's thread changes the locals of no other thread.
LEMMA CallerFrame ==
    ASSUME TypeOK, NEW t \in Callers, Callback(t) \/ CallerStep(t)
    PROVE  /\ \A u \in Threads : u # t => /\ pc'[u] = pc[u] /\ arg'[u] = arg[u]
                                          /\ work'[u] = work[u] /\ found'[u] = found[u]
           /\ scan' = scan /\ reply' = reply
<1> DEFINE Frame == /\ \A u \in Threads : u # t => /\ pc'[u] = pc[u] /\ arg'[u] = arg[u]
                                                   /\ work'[u] = work[u] /\ found'[u] = found[u]
                    /\ scan' = scan /\ reply' = reply
<1>0. t \in Threads /\ t # Rejit
  BY ConstantsAssumption DEF Threads
<1> USE DEF TypeOK, Goto, corVars, handlerVars, queueVars, clrVars, localVars
<1>1. ASSUME NEW m \in Modules, ModuleLoadFinished(t, m) PROVE Frame
  BY <1>0, <1>1 DEF ModuleLoadFinished
<1>2. ASSUME NEW m \in Modules, ModuleUnloadStarted(t, m) PROVE Frame
  BY <1>0, <1>2 DEF ModuleUnloadStarted
<1>3. ASSUME NEW m \in Modules, JITCompilationStarted(t, m) PROVE Frame
  BY <1>0, <1>3 DEF JITCompilationStarted
<1>4. ASSUME NEW d \in Domains, AppDomainShutdownFinished(t, d) PROVE Frame
  BY <1>0, <1>4 DEF AppDomainShutdownFinished
<1>5. ASSUME NEW id \in Ids, InitializeProfiler(t, id) PROVE Frame
  BY <1>0, <1>5 DEF InitializeProfiler
<1>6. ASSUME NEW p \in Pairs, JITInlining(t, p) PROVE Frame
  BY <1>0, <1>6 DEF JITInlining
<1>7. ASSUME NEW p \in Pairs, GetReJITParameters(t, p) PROVE Frame
  BY <1>0, <1>7 DEF GetReJITParameters
<1>8. CASE Shutdown(t)
  BY <1>0, <1>8 DEF Shutdown
<1>9. CASE LoadLock(t)
  BY <1>0, <1>9 DEF LoadLock
<1>10. CASE AddNGenModule(t)
  BY <1>0, <1>10 DEF AddNGenModule
<1>11. CASE LoadScan(t)
  BY <1>0, <1>11 DEF LoadScan
<1>12. CASE LoadProcess(t)
  BY <1>0, <1>12 DEF LoadProcess
<1>13. CASE UnloadLock(t)
  BY <1>0, <1>13 DEF UnloadLock
<1>14. CASE UnloadRemove(t)
  BY <1>0, <1>14 DEF UnloadRemove
<1>15. CASE JitLock(t)
  BY <1>0, <1>15 DEF JitLock
<1>16. CASE InitLock(t)
  BY <1>0, <1>16 DEF InitLock
<1>17. CASE InitModule(t)
  BY <1>0, <1>17 DEF InitModule
<1>18. CASE InitWait(t)
  BY <1>0, <1>18 DEF InitWait
<1>19. CASE InliningCheck(t)
  BY <1>0, <1>19 DEF InliningCheck
<1>20. CASE HasModuleAndMethod(t)
  BY <1>0, <1>20 DEF HasModuleAndMethod
<1>21. CASE EnterHandler(t, "inl_shared", "inl_modules")
  BY <1>0, <1>21 DEF EnterHandler
<1>22. CASE EnterHandler(t, "par_shared", "par_module")
  BY <1>0, <1>22 DEF EnterHandler
<1>23. CASE ParametersModule(t)
  BY <1>0, <1>23 DEF ParametersModule
<1>24. CASE ParametersMethod(t)
  BY <1>0, <1>24 DEF ParametersMethod
<1>25. CASE ShutdownLock(t)
  BY <1>0, <1>25 DEF ShutdownLock
<1>26. CASE ShutdownWait(t)
  BY <1>0, <1>26 DEF ShutdownWait
<1>27. CASE ShutdownWrite(t)
  BY <1>0, <1>27 DEF ShutdownWrite
<1>28. CASE ShutdownDelete(t)
  BY <1>0, <1>28 DEF ShutdownDelete
<1>29. CASE GetOrAddModule(t)
  BY <1>0, <1>29 DEF GetOrAddModule
<1>30. CASE ProcessMethod(t)
  BY <1>0, <1>30 DEF ProcessMethod
<1> QED
  BY <1>1, <1>2, <1>3, <1>4, <1>5, <1>6, <1>7, <1>8, <1>9, <1>10, <1>11, <1>12, <1>13, <1>14,
     <1>15, <1>16, <1>17, <1>18, <1>19, <1>20, <1>21, <1>22, <1>23, <1>24, <1>25, <1>26, <1>27,
     <1>28, <1>29, <1>30
     DEF Callback, CallerStep

\* A step of the rejit thread changes the locals of no other thread, nor what the
\* callbacks test first.
LEMMA RejitFrame ==
    ASSUME TypeOK, RejitStep
    PROVE  /\ \A u \in Callers : /\ pc'[u] = pc[u] /\ arg'[u] = arg[u]
                                 /\ work'[u] = work[u] /\ found'[u] = found[u]
           /\ UNCHANGED <<corVars, m_shutdown, m_ngenModules, loaded, gone>>
<1> DEFINE Frame == /\ \A u \in Callers : /\ pc'[u] = pc[u] /\ arg'[u] = arg[u]
                                          /\ work'[u] = work[u] /\ found'[u] = found[u]
                    /\ UNCHANGED <<corVars, m_shutdown, m_ngenModules, loaded, gone>>
<1>0. Rejit \in Threads /\ Callers \subseteq Threads /\ Rejit \notin Callers
  BY ConstantsAssumption DEF Threads
<1> USE DEF TypeOK, Goto, corVars, handlerVars, queueVars, clrVars, localVars
<1>1. CASE Pop
  <2>1. UNCHANGED <<corVars, m_shutdown, m_ngenModules, loaded, gone, arg>>
    BY <1>1 DEF Pop
  <2>2. \E l : pc' = [pc EXCEPT ![Rejit] = l]
    BY <1>1, Zenon DEF Pop
  <2>3. \E w : work' = [work EXCEPT ![Rejit] = w] \/ work' = work
    BY <1>1, Zenon DEF Pop
  <2>4. \E w : found' = [found EXCEPT ![Rejit] = w] \/ found' = found
    BY <1>1, Zenon DEF Pop
  <2> QED
    BY <1>0, <2>1, <2>2, <2>3, <2>4
<1>2. CASE GetOrAddModule(Rejit)
  BY <1>0, <1>2 DEF GetOrAddModule
<1>3. CASE ProcessMethod(Rejit)
  BY <1>0, <1>3 DEF ProcessMethod
<1>4. CASE RequestRejit
  BY <1>0, <1>4 DEF RequestRejit
<1>5. CASE RequestRejitForNGenInliners
  BY <1>0, <1>5 DEF RequestRejitForNGenInliners, ItemDone
<1>6. CASE ScanNGenModule
  <2>1. UNCHANGED <<corVars, m_shutdown, m_ngenModules, loaded, gone, arg, work>>
    BY <1>6 DEF ScanNGenModule
  <2>2. ItemDone \/ UNCHANGED <<pc, found>>
    BY <1>6 DEF ScanNGenModule
  <2> QED
    BY <1>0, <2>1, <2>2 DEF ItemDone
<1> QED
  BY <1>1, <1>2, <1>3, <1>4, <1>5, <1>6 DEF RejitStep

\* A thread that holds module_id_to_info_map_lock_ after a step held it before, or found
\* it free.
LEMMA LockTaken ==
    ASSUME TypeOK, NEW t \in Callers, Callback(t) \/ CallerStep(t), pc'[t] \in ModuleLocked
    PROVE  pc[t] \in ModuleLocked \/ ModuleFree
<1> DEFINE Held == pc[t] \in ModuleLocked \/ ModuleFree
<1>0. t \in Threads /\ t # Rejit
  BY ConstantsAssumption DEF Threads
<1> USE DEF TypeOK, Goto, ModuleLocked
<1>1. ASSUME NEW m \in Modules, ModuleLoadFinished(t, m) PROVE Held
  BY <1>0, <1>1 DEF ModuleLoadFinished
<1>2. ASSUME NEW m \in Modules, ModuleUnloadStarted(t, m) PROVE Held
  BY <1>0, <1>2 DEF ModuleUnloadStarted
<1>3. ASSUME NEW m \in Modules, JITCompilationStarted(t, m) PROVE Held
  BY <1>0, <1>3 DEF JITCompilationStarted
<1>4. ASSUME NEW d \in Domains, AppDomainShutdownFinished(t, d) PROVE Held
  BY <1>0, <1>4 DEF AppDomainShutdownFinished
<1>5. ASSUME NEW id \in Ids, InitializeProfiler(t, id) PROVE Held
  BY <1>0, <1>5 DEF InitializeProfiler
<1>6. ASSUME NEW p \in Pairs, JITInlining(t, p) PROVE Held
  BY <1>0, <1>6 DEF JITInlining
<1>7. ASSUME NEW p \in Pairs, GetReJITParameters(t, p) PROVE Held
  BY <1>0, <1>7 DEF GetReJITParameters
<1>8. CASE Shutdown(t)
  BY <1>0, <1>8 DEF Shutdown
<1>9. CASE LoadLock(t)
  BY <1>0, <1>9 DEF LoadLock
<1>10. CASE AddNGenModule(t)
  BY <1>0, <1>10 DEF AddNGenModule
<1>11. CASE LoadScan(t)
  BY <1>0, <1>11 DEF LoadScan
<1>12. CASE LoadProcess(t)
  BY <1>0, <1>12 DEF LoadProcess
<1>13. CASE UnloadLock(t)
  BY <1>0, <1>13 DEF UnloadLock
<1>14. CASE UnloadRemove(t)
  BY <1>0, <1>14 DEF UnloadRemove
<1>15. CASE JitLock(t)
  BY <1>0, <1>15 DEF JitLock
<1>16. CASE InitLock(t)
  BY <1>0, <1>16 DEF InitLock
<1>17. CASE InitModule(t)
  BY <1>0, <1>17 DEF InitModule
<1>18. CASE InitWait(t)
  BY <1>0, <1>18 DEF InitWait
<1>19. CASE InliningCheck(t)
  BY <1>0, <1>19 DEF InliningCheck
<1>20. CASE HasModuleAndMethod(t)
  BY <1>0, <1>20 DEF HasModuleAndMethod
<1>21. CASE EnterHandler(t, "inl_shared", "inl_modules")
  BY <1>0, <1>21 DEF EnterHandler
<1>22. CASE EnterHandler(t, "par_shared", "par_module")
  BY <1>0, <1>22 DEF EnterHandler
<1>23. CASE ParametersModule(t)
  BY <1>0, <1>23 DEF ParametersModule
<1>24. CASE ParametersMethod(t)
  BY <1>0, <1>24 DEF ParametersMethod
<1>25. CASE ShutdownLock(t)
  BY <1>0, <1>25 DEF ShutdownLock
<1>26. CASE ShutdownWait(t)
  BY <1>0, <1>26 DEF ShutdownWait
<1>27. CASE ShutdownWrite(t)
  BY <1>0, <1>27 DEF ShutdownWrite
<1>28. CASE ShutdownDelete(t)
  BY <1>0, <1>28 DEF ShutdownDelete
<1>29. CASE GetOrAddModule(t)
  BY <1>0, <1>29 DEF GetOrAddModule
<1>30. CASE ProcessMethod(t)
  BY <1>0, <1>30 DEF ProcessMethod
<1> QED
  BY <1>1, <1>2, <1>3, <1>4, <1>5, <1>6, <1>7, <1>8, <1>9, <1>10, <1>11, <1>12, <1>13, <1>14,
     <1>15, <1>16, <1>17, <1>18, <1>19, <1>20, <1>21, <1>22, <1>23, <1>24, <1>25, <1>26, <1>27,
     <1>28, <1>29, <1>30
     DEF Callback, CallerStep

\* At most one thread is between lock and unlock of module_id_to_info_map_lock_, also
\* while it waits for its promise or, in Shutdown, for the rejit thread.
LEMMA LockInvNext ==
    ASSUME TypeOK, LockInv, [Next]_vars
    PROVE  LockInv'
<1>0. Callers \subseteq Threads
  BY DEF Threads
<1>1. ASSUME NEW t \in Callers, Callback(t) \/ CallerStep(t) PROVE LockInv'
  <2>1. \A u \in Callers : u # t => pc'[u] = pc[u]
    BY <1>0, <1>1, CallerFrame
  <2>2. pc'[t] \in ModuleLocked => pc[t] \in ModuleLocked \/ ModuleFree
    BY <1>1, LockTaken
  <2> QED
    BY <2>1, <2>2 DEF LockInv, ModuleFree, Free
<1>2. CASE RejitStep
  BY <1>2, RejitFrame DEF LockInv
<1>3. CASE UNCHANGED vars
  BY <1>3 DEF vars, localVars, LockInv
<1> QED
  BY <1>1, <1>2, <1>3 DEF Next

-----------------------------------------------------------------------------
(* Shutdown, and modules that come and go *)

\* is_attached_ is only reset; who enters the just-in-time callbacks has seen it set.
LEMMA AttachStep ==
    ASSUME TypeOK, NEW t \in Callers, Callback(t) \/ CallerStep(t)
    PROVE  /\ is_attached' => is_attached
           /\ ~rejit_handler' => ~rejit_handler \/ pc[t] = "sd_delete"
           /\ pc'[t] \in JitSteps => pc[t] \in JitSteps \/ is_attached'
           /\ pc'[t] \in ShutdownSteps => pc[t] \in ShutdownSteps \/ ~is_attached'
           /\ ~is_attached' => ~is_attached \/ JitDuringShutdown \/ Free(JitSteps, Callers)
<1> DEFINE Goal == /\ is_attached' => is_attached
                   /\ ~rejit_handler' => ~rejit_handler \/ pc[t] = "sd_delete"
                   /\ pc'[t] \in JitSteps => pc[t] \in JitSteps \/ is_attached'
                   /\ pc'[t] \in ShutdownSteps => pc[t] \in ShutdownSteps \/ ~is_attached'
                   /\ ~is_attached' => ~is_attached \/ JitDuringShutdown \/ Free(JitSteps, Callers)
<1>0. t \in Threads /\ t # Rejit
  BY ConstantsAssumption DEF Threads
<1> USE DEF TypeOK, Goto, JitSteps, ShutdownSteps, corVars, localVars
<1>1. ASSUME NEW m \in Modules, ModuleLoadFinished(t, m) PROVE Goal
  BY <1>0, <1>1 DEF ModuleLoadFinished
<1>2. ASSUME NEW m \in Modules, ModuleUnloadStarted(t, m) PROVE Goal
  BY <1>0, <1>2 DEF ModuleUnloadStarted
<1>3. ASSUME NEW m \in Modules, JITCompilationStarted(t, m) PROVE Goal
  BY <1>0, <1>3 DEF JITCompilationStarted
<1>4. ASSUME NEW d \in Domains, AppDomainShutdownFinished(t, d) PROVE Goal
  BY <1>0, <1>4 DEF AppDomainShutdownFinished
<1>5. ASSUME NEW id \in Ids, InitializeProfiler(t, id) PROVE Goal
  BY <1>0, <1>5 DEF InitializeProfiler
<1>6. ASSUME NEW p \in Pairs, JITInlining(t, p) PROVE Goal
  BY <1>0, <1>6 DEF JITInlining
<1>7. ASSUME NEW p \in Pairs, GetReJITParameters(t, p) PROVE Goal
  BY <1>0, <1>7 DEF GetReJITParameters
<1>8. CASE Shutdown(t)
  BY <1>0, <1>8 DEF Shutdown
<1>9. CASE LoadLock(t)
  BY <1>0, <1>9 DEF LoadLock
<1>10. CASE AddNGenModule(t)
  BY <1>0, <1>10 DEF AddNGenModule
<1>11. CASE LoadScan(t)
  BY <1>0, <1>11 DEF LoadScan
<1>12. CASE LoadProcess(t)
  BY <1>0, <1>12 DEF LoadProcess
<1>13. CASE UnloadLock(t)
  BY <1>0, <1>13 DEF UnloadLock
<1>14. CASE UnloadRemove(t)
  BY <1>0, <1>14 DEF UnloadRemove
<1>15. CASE JitLock(t)
  BY <1>0, <1>15 DEF JitLock
<1>16. CASE InitLock(t)
  BY <1>0, <1>16 DEF InitLock
<1>17. CASE InitModule(t)
  BY <1>0, <1>17 DEF InitModule
<1>18. CASE InitWait(t)
  BY <1>0, <1>18 DEF InitWait
<1>19. CASE InliningCheck(t)
  BY <1>0, <1>19 DEF InliningCheck
<1>20. CASE HasModuleAndMethod(t)
  BY <1>0, <1>20 DEF HasModuleAndMethod
<1>21. CASE EnterHandler(t, "inl_shared", "inl_modules")
  BY <1>0, <1>21 DEF EnterHandler
<1>22. CASE EnterHandler(t, "par_shared", "par_module")
  BY <1>0, <1>22 DEF EnterHandler
<1>23. CASE ParametersModule(t)
  BY <1>0, <1>23 DEF ParametersModule
<1>24. CASE ParametersMethod(t)
  BY <1>0, <1>24 DEF ParametersMethod
<1>25. CASE ShutdownLock(t)
  BY <1>0, <1>25 DEF ShutdownLock
<1>26. CASE ShutdownWait(t)
  BY <1>0, <1>26 DEF ShutdownWait
<1>27. CASE ShutdownWrite(t)
  BY <1>0, <1>27 DEF ShutdownWrite
<1>28. CASE ShutdownDelete(t)
  BY <1>0, <1>28 DEF ShutdownDelete
<1>29. CASE GetOrAddModule(t)
  BY <1>0, <1>29 DEF GetOrAddModule
<1>30. CASE ProcessMethod(t)
  BY <1>0, <1>30 DEF ProcessMethod
<1> QED
  BY <1>1, <1>2, <1>3, <1>4, <1>5, <1>6, <1>7, <1>8, <1>9, <1>10, <1>11, <1>12, <1>13, <1>14,
     <1>15, <1>16, <1>17, <1>18, <1>19, <1>20, <1>21, <1>22, <1>23, <1>24, <1>25, <1>26, <1>27,
     <1>28, <1>29, <1>30
     DEF Callback, CallerStep

\* The handler is deleted only after is_attached_ has been reset, and no just-in-time
\* callback is in progress then, unless the runtime lets Shutdown run during one.
LEMMA AttachInvNext ==
    ASSUME TypeOK, AttachInv, [Next]_vars
    PROVE  AttachInv'
<1>0. Callers \subseteq Threads
  BY DEF Threads
<1>1. ASSUME NEW t \in Callers, Callback(t) \/ CallerStep(t) PROVE AttachInv'
  <2>1. \A u \in Callers : u # t => pc'[u] = pc[u]
    BY <1>0, <1>1, CallerFrame
  <2>2. /\ is_attached' => is_attached
        /\ ~rejit_handler' => ~rejit_handler \/ pc[t] = "sd_delete"
        /\ pc'[t] \in JitSteps => pc[t] \in JitSteps \/ is_attached'
        /\ pc'[t] \in ShutdownSteps => pc[t] \in ShutdownSteps \/ ~is_attached'
        /\ ~is_attached' => ~is_attached \/ JitDuringShutdown \/ Free(JitSteps, Callers)
    BY <1>1, AttachStep
  <2>3. pc[t] = "sd_delete" => pc[t] \in ShutdownSteps
    BY DEF ShutdownSteps
  <2>4. ~rejit_handler' => ~is_attached'
    BY <2>2, <2>3 DEF AttachInv
  <2>5. ASSUME ~JitDuringShutdown, ~is_attached', NEW u \in Callers PROVE pc'[u] \notin JitSteps
    BY <2>1, <2>2, <2>5 DEF AttachInv, Free
  <2>6. ASSUME NEW u \in Callers, pc'[u] \in ShutdownSteps PROVE ~is_attached'
    BY <2>1, <2>2, <2>6 DEF AttachInv
  <2> QED
    BY <2>4, <2>5, <2>6 DEF AttachInv, Free
<1>2. CASE RejitStep
  BY <1>2, RejitFrame DEF AttachInv, Free, corVars
<1>3. CASE UNCHANGED vars
  BY <1>3 DEF vars, corVars, localVars, AttachInv, Free
<1> QED
  BY <1>1, <1>2, <1>3 DEF Next

\* How a step changes the modules that its thread uses, and the ones that are loaded.
LoadStep(t) ==
    /\ \A m \in Modules : Uses(t, m)' =>
         \/ Uses(t, m) /\ (pc[t] \in UnloadSteps => pc'[t] \in UnloadSteps)
         \/ m \in loaded /\ ~Unloading(m)
         \/ m \in loaded' /\ m \notin loaded
    /\ pc'[t] \in UnloadSteps =>
         \/ pc[t] \in UnloadSteps /\ arg'[t] = arg[t]
         \/ pc[t] = "idle" /\ ~InUse(arg'[t])
    /\ \/ UNCHANGED <<loaded, gone>> /\ pending' \subseteq pending
       \/ /\ gone' = gone /\ pending' = pending
          /\ \E m \in Modules \ (loaded \cup gone) : loaded' = loaded \cup {m}
       \/ \E m \in Modules :
            /\ loaded' = loaded \ {m} /\ gone' = gone \cup {m}
            /\ pending' = pending \ PairsOf(m)
            /\ \/ pc[t] \in UnloadSteps /\ arg[t] = m /\ pc'[t] = "idle"
               \/ pc[t] = "idle" /\ pc'[t] = "idle" /\ ~InUse(m)
            /\ is_attached => pc[t] = "unload_remove"
    /\ \A m \in module_ids' : m \in module_ids \/ Uses(t, m)

\* Every step of a runtime's thread is of this kind.
LEMMA LoadSteps ==
    ASSUME TypeOK, ArgInv, \A p \in pending : ModuleOf(p) \in loaded,
           NEW t \in Callers, Callback(t) \/ CallerStep(t)
    PROVE  LoadStep(t)
<1>0. t \in Threads /\ t # Rejit
  BY ConstantsAssumption DEF Threads
<1> USE DEF TypeOK, ArgInv, Goto, LoadStep, Uses, UnloadSteps, ModuleSteps, JitSteps, ProcSteps,
            corVars, handlerVars, queueVars, clrVars, localVars
<1>1. ASSUME NEW m \in Modules, ModuleLoadFinished(t, m) PROVE LoadStep(t)
  BY <1>0, <1>1 DEF ModuleLoadFinished
<1>2. ASSUME NEW m \in Modules, ModuleUnloadStarted(t, m) PROVE LoadStep(t)
  <2>1. ~Unloading(m)
    BY <1>2 DEF ModuleUnloadStarted, InUse, Unloading
  <2>2. CASE is_attached
    BY <1>0, <1>2, <2>1, <2>2 DEF ModuleUnloadStarted
  <2>3. CASE ~is_attached
    BY <1>0, <1>2, <2>1, <2>3 DEF ModuleUnloadStarted, Unload
  <2> QED
    BY <2>2, <2>3
<1>3. ASSUME NEW m \in Modules, JITCompilationStarted(t, m) PROVE LoadStep(t)
  BY <1>0, <1>3 DEF JITCompilationStarted
<1>4. ASSUME NEW d \in Domains, AppDomainShutdownFinished(t, d) PROVE LoadStep(t)
  BY <1>0, <1>4 DEF AppDomainShutdownFinished
<1>5. ASSUME NEW id \in Ids, InitializeProfiler(t, id) PROVE LoadStep(t)
  BY <1>0, <1>5 DEF InitializeProfiler
<1>6. ASSUME NEW p \in Pairs, JITInlining(t, p) PROVE LoadStep(t)
  BY <1>0, <1>6 DEF JITInlining
<1>7. ASSUME NEW p \in Pairs, GetReJITParameters(t, p) PROVE LoadStep(t)
  BY <1>0, <1>7 DEF GetReJITParameters
<1>8. CASE Shutdown(t)
  BY <1>0, <1>8 DEF Shutdown
<1>9. CASE LoadLock(t)
  BY <1>0, <1>9 DEF LoadLock
<1>10. CASE AddNGenModule(t)
  BY <1>0, <1>10 DEF AddNGenModule
<1>11. CASE LoadScan(t)
  BY <1>0, <1>11 DEF LoadScan
<1>12. CASE LoadProcess(t)
  <2>1. \A p \in Targets(integration_methods, {arg[t]}) : ModuleOf(p) = arg[t]
    BY DEF Targets
  <2>2. /\ pc[t] = "load_process" /\ arg[t] \in Modules /\ UNCHANGED <<loaded, gone, pending>>
        /\ pc'[t] \in {"idle", "proc_module"}
        /\ \A p \in work'[t] : ModuleOf(p) = arg[t]
        /\ module_ids' \subseteq module_ids \cup {arg[t]}
    BY <1>0, <1>12, <2>1 DEF LoadProcess
  <2> QED
    BY <2>2
<1>13. CASE UnloadLock(t)
  <2>1. CASE is_attached
    BY <1>0, <1>13, <2>1 DEF UnloadLock
  <2>2. CASE ~is_attached
    BY <1>0, <1>13, <2>2 DEF UnloadLock, Unload
  <2> QED
    BY <2>1, <2>2
<1>14. CASE UnloadRemove(t)
  BY <1>0, <1>14 DEF UnloadRemove, Unload
<1>15. CASE JitLock(t)
  BY <1>0, <1>15 DEF JitLock
<1>16. CASE InitLock(t)
  BY <1>0, <1>16 DEF InitLock
<1>17. CASE InitModule(t)
  BY <1>0, <1>17 DEF InitModule
<1>18. CASE InitWait(t)
  BY <1>0, <1>18 DEF InitWait
<1>19. CASE InliningCheck(t)
  BY <1>0, <1>19 DEF InliningCheck
<1>20. CASE HasModuleAndMethod(t)
  BY <1>0, <1>20 DEF HasModuleAndMethod
<1>21. CASE EnterHandler(t, "inl_shared", "inl_modules")
  BY <1>0, <1>21 DEF EnterHandler
<1>22. CASE EnterHandler(t, "par_shared", "par_module")
  BY <1>0, <1>22 DEF EnterHandler
<1>23. CASE ParametersModule(t)
  BY <1>0, <1>23 DEF ParametersModule
<1>24. CASE ParametersMethod(t)
  BY <1>0, <1>24 DEF ParametersMethod
<1>25. CASE ShutdownLock(t)
  BY <1>0, <1>25 DEF ShutdownLock
<1>26. CASE ShutdownWait(t)
  BY <1>0, <1>26 DEF ShutdownWait
<1>27. CASE ShutdownWrite(t)
  BY <1>0, <1>27 DEF ShutdownWrite
<1>28. CASE ShutdownDelete(t)
  BY <1>0, <1>28 DEF ShutdownDelete
<1>29. CASE GetOrAddModule(t)
  BY <1>0, <1>29 DEF GetOrAddModule
<1>30. CASE ProcessMethod(t)
  <2>1. /\ pc[t] = "proc_method" /\ UNCHANGED <<loaded, gone, pending, module_ids>>
        /\ pc'[t] \in {"proc_module", "idle", "fault"} /\ work'[t] \subseteq work[t]
    BY <1>0, <1>30 DEF ProcessMethod
  <2> QED
    BY <2>1
<1> QED
  BY <1>1, <1>2, <1>3, <1>4, <1>5, <1>6, <1>7, <1>8, <1>9, <1>10, <1>11, <1>12, <1>13, <1>14,
     <1>15, <1>16, <1>17, <1>18, <1>19, <1>20, <1>21, <1>22, <1>23, <1>24, <1>25, <1>26, <1>27,
     <1>28, <1>29, <1>30
     DEF Callback, CallerStep

\* The runtime unloads no module that a callback in progress uses, and starts no callback
\* for a module that is being unloaded.
LEMMA LoadInvNext ==
    ASSUME TypeOK, ArgInv, LoadInv, [Next]_vars
    PROVE  LoadInv'
<1>0. Callers \subseteq Threads
  BY DEF Threads
<1>1. ASSUME NEW t \in Callers, Callback(t) \/ CallerStep(t) PROVE LoadInv'
  <2>1. \A u \in Callers : u # t => pc'[u] = pc[u] /\ arg'[u] = arg[u] /\ work'[u] = work[u]
    BY <1>0, <1>1, CallerFrame
  <2>2. LoadStep(t)
    BY <1>1, LoadSteps DEF LoadInv
  <2>3. \A u \in Callers : \A m : u # t => (Uses(u, m)' <=> Uses(u, m))
    BY <2>1 DEF Uses
  <2>4. \A u \in Callers : \A m : Uses(u, m) => InUse(m)
    BY DEF Uses, InUse, ProcSteps
  <2>5. pc'[t] \in UnloadSteps => arg'[t] \in Modules
    BY <1>1, TypeInvNext DEF Next, ArgInv
  <2>6. \A u \in Callers : pc[u] \in UnloadSteps => Uses(u, arg[u]) /\ arg[u] \in Modules
    BY DEF Uses, ArgInv
  <2>7. loaded' \cap gone' = {}
    BY <2>2 DEF LoadStep, LoadInv
  <2>8. ASSUME NEW m \in Modules, m \in loaded, m \notin loaded',
               NEW u \in Callers, Uses(u, m)
        PROVE  u = t /\ pc[t] \in UnloadSteps /\ pc'[t] = "idle" /\ arg[t] = m
    BY <2>2, <2>4, <2>6, <2>8 DEF LoadStep, LoadInv
  <2>9. ASSUME NEW m \in Modules, NEW u \in Callers, Uses(u, m)' PROVE m \in loaded'
    <3>1. CASE u = t
      <4>1. CASE m \in loaded
        <5>1. CASE Uses(t, m) /\ (pc[t] \in UnloadSteps => pc'[t] \in UnloadSteps)
          BY <2>8, <4>1, <5>1 DEF UnloadSteps
        <5>2. CASE ~Unloading(m)
          <6>1. ~(pc[t] \in UnloadSteps /\ arg[t] = m)
            BY <5>2 DEF Unloading
          <6>2. ~Uses(t, m)' \/ pc'[t] # "idle"
            BY DEF Uses, ModuleSteps, UnloadSteps, ProcSteps, JitSteps
          <6> QED
            BY <2>2, <2>9, <3>1, <4>1, <6>1, <6>2 DEF LoadStep
        <5> QED
          BY <2>2, <2>9, <3>1, <4>1, <5>1, <5>2 DEF LoadStep
      <4>2. CASE m \notin loaded
        BY <2>2, <2>9, <3>1, <4>2 DEF LoadStep, LoadInv
      <4> QED
        BY <4>1, <4>2
    <3>2. CASE u # t
      BY <2>3, <2>8, <2>9, <3>2 DEF LoadInv
    <3> QED
      BY <3>1, <3>2
  <2>10. ASSUME NEW u \in Callers, NEW v \in Callers, pc'[v] \in UnloadSteps,
                NEW m \in Modules, arg'[v] = m, Uses(u, m)'
         PROVE  u = v
    <3>1. ASSUME v # t, u # t PROVE u = v
      BY <2>1, <2>3, <2>10, <3>1 DEF LoadInv
    <3>2. ASSUME v # t, u = t PROVE FALSE
      <4>1. pc[v] \in UnloadSteps /\ arg[v] = m /\ m \in loaded
        BY <2>1, <2>6, <2>10, <3>2 DEF LoadInv
      <4>2. Unloading(m) /\ ~Uses(t, m)
        BY <3>2, <4>1 DEF Unloading, LoadInv
      <4> QED
        BY <2>2, <2>10, <3>2, <4>1, <4>2 DEF LoadStep
    <3>3. ASSUME v = t, u # t PROVE FALSE
      <4>1. Uses(u, m) /\ InUse(m)
        BY <2>3, <2>4, <2>10, <3>3
      <4> QED
        BY <2>2, <2>10, <3>3, <4>1 DEF LoadStep, LoadInv
    <3> QED
      BY <3>1, <3>2, <3>3
  <2>11. \A p \in pending' : ModuleOf(p) \in loaded'
    BY <2>2 DEF LoadStep, LoadInv, PairsOf, TypeOK
  <2>12. module_ids' \subseteq loaded' \cup gone'
    <3>1. \A m \in module_ids' : m \in Modules
      BY <1>1, TypeInvNext DEF Next, TypeOK
    <3>2. \A m \in module_ids' : m \in loaded \cup gone
      BY <2>2, <3>1 DEF LoadStep, LoadInv
    <3> QED
      BY <2>2, <3>2 DEF LoadStep
  <2>13. \A u, v \in Callers : pc'[v] \in UnloadSteps /\ Uses(u, arg[v])' => u = v
    <3> SUFFICES ASSUME NEW u \in Callers, NEW v \in Callers,
                        pc'[v] \in UnloadSteps, Uses(u, arg[v])'
                 PROVE  u = v
      OBVIOUS
    <3>1. arg'[v] \in Modules
      BY <1>1, TypeInvNext DEF Next, ArgInv
    <3> QED
      BY <2>10, <3>1 DEF Uses
  <2> QED
    BY <2>7, <2>9, <2>11, <2>12, <2>13 DEF LoadInv
<1>2. CASE RejitStep
  <2>1. /\ \A u \in Callers : pc'[u] = pc[u] /\ arg'[u] = arg[u] /\ work'[u] = work[u]
        /\ UNCHANGED <<loaded, gone, module_ids>>
    BY <1>2, RejitFrame DEF corVars
  <2>2. \A p \in pending' : ModuleOf(p) \in loaded
    BY <1>2 DEF RejitStep, Pop, GetOrAddModule, ProcessMethod, RequestRejit,
                RequestRejitForNGenInliners, ScanNGenModule, clrVars, LoadInv
  <2> QED
    BY <2>1, <2>2 DEF LoadInv, Uses
<1>3. CASE UNCHANGED vars
  BY <1>3 DEF vars, corVars, clrVars, localVars, LoadInv, Uses
<1> QED
  BY <1>1, <1>2, <1>3 DEF Next

-----------------------------------------------------------------------------
(* The promise of EnqueueProcessModule *)

\* A step that leaves the promises alone; one that adds a module holds the module lock.
PromiseStep(t) ==
    /\ QueueGrows
    /\ resolved' = resolved
    /\ pc[t] # "init_wait" /\ pc'[t] # "init_wait"
    /\ module_ids' = module_ids \/ pc[t] = "load_process"

\* Of the steps of a callback, only InitializeProfiler makes and takes a promise.
LEMMA PromiseSteps ==
    ASSUME TypeOK, ArgInv, NEW t \in Callers, Callback(t) \/ CallerStep(t)
    PROVE  \/ PromiseStep(t)
           \/ InitWait(t)
           \/ InitModule(t) /\ rejit_handler
<1> DEFINE Goal == PromiseStep(t) \/ InitWait(t) \/ (InitModule(t) /\ rejit_handler)
<1>0. t \in Threads /\ t # Rejit
  BY ConstantsAssumption DEF Threads
<1>a. queue' = queue => QueueGrows
  BY DEF QueueGrows
<1>b. queue \in Seq(Items)
  BY DEF TypeOK
<1> USE DEF TypeOK, Goto, PromiseStep, corVars, handlerVars, queueVars, clrVars, localVars
<1>1. ASSUME NEW m \in Modules, ModuleLoadFinished(t, m) PROVE Goal
  BY <1>0, <1>a, <1>1 DEF ModuleLoadFinished
<1>2. ASSUME NEW m \in Modules, ModuleUnloadStarted(t, m) PROVE Goal
  BY <1>0, <1>a, <1>2 DEF ModuleUnloadStarted, Unload
<1>3. ASSUME NEW m \in Modules, JITCompilationStarted(t, m) PROVE Goal
  BY <1>0, <1>a, <1>3 DEF JITCompilationStarted
<1>4. ASSUME NEW d \in Domains, AppDomainShutdownFinished(t, d) PROVE Goal
  BY <1>0, <1>a, <1>4 DEF AppDomainShutdownFinished
<1>5. ASSUME NEW id \in Ids, InitializeProfiler(t, id) PROVE Goal
  BY <1>0, <1>a, <1>5 DEF InitializeProfiler
<1>6. ASSUME NEW p \in Pairs, JITInlining(t, p) PROVE Goal
  BY <1>0, <1>a, <1>6 DEF JITInlining
<1>7. ASSUME NEW p \in Pairs, GetReJITParameters(t, p) PROVE Goal
  BY <1>0, <1>a, <1>7 DEF GetReJITParameters
<1>8. CASE Shutdown(t)
  BY <1>0, <1>a, <1>8 DEF Shutdown
<1>9. CASE LoadLock(t)
  BY <1>0, <1>a, <1>9 DEF LoadLock
<1>10. CASE AddNGenModule(t)
  BY <1>0, <1>a, <1>10 DEF AddNGenModule
<1>11. CASE LoadScan(t)
  <2>1. QueueGrows
    BY <1>11, ScanEffect DEF LoadScan, AddNGenModuleScan, ArgInv
  <2> QED
    BY <1>0, <1>11, <2>1 DEF LoadScan
<1>12. CASE LoadProcess(t)
  BY <1>0, <1>a, <1>12 DEF LoadProcess
<1>13. CASE UnloadLock(t)
  BY <1>0, <1>a, <1>13 DEF UnloadLock, Unload
<1>14. CASE UnloadRemove(t)
  BY <1>0, <1>a, <1>14 DEF UnloadRemove, Unload
<1>15. CASE JitLock(t)
  BY <1>0, <1>a, <1>15 DEF JitLock
<1>16. CASE InitLock(t)
  BY <1>0, <1>a, <1>16 DEF InitLock
<1>17. CASE InitModule(t)
  BY <1>0, <1>a, <1>17 DEF InitModule
<1>18. CASE InitWait(t)
  BY <1>18
<1>19. CASE InliningCheck(t)
  BY <1>0, <1>a, <1>19 DEF InliningCheck
<1>20. CASE HasModuleAndMethod(t)
  BY <1>0, <1>a, <1>20 DEF HasModuleAndMethod
<1>21. CASE EnterHandler(t, "inl_shared", "inl_modules")
  BY <1>0, <1>a, <1>21 DEF EnterHandler
<1>22. CASE EnterHandler(t, "par_shared", "par_module")
  BY <1>0, <1>a, <1>22 DEF EnterHandler
<1>23. CASE ParametersModule(t)
  BY <1>0, <1>a, <1>23 DEF ParametersModule
<1>24. CASE ParametersMethod(t)
  BY <1>0, <1>a, <1>24 DEF ParametersMethod
<1>25. CASE ShutdownLock(t)
  <2>1. EndItem \in Items /\ EndItem.type = -1
    BY DEF EndItem, Items
  <2>2. QueueGrows
    BY <1>b, <1>25, <2>1, QueueAppend DEF ShutdownLock
  <2> QED
    BY <1>0, <1>25, <2>2 DEF ShutdownLock
<1>26. CASE ShutdownWait(t)
  BY <1>0, <1>a, <1>26 DEF ShutdownWait
<1>27. CASE ShutdownWrite(t)
  BY <1>0, <1>a, <1>27 DEF ShutdownWrite
<1>28. CASE ShutdownDelete(t)
  BY <1>0, <1>a, <1>28 DEF ShutdownDelete
<1>29. CASE GetOrAddModule(t)
  BY <1>0, <1>a, <1>29 DEF GetOrAddModule
<1>30. CASE ProcessMethod(t)
  <2>1. CASE queue' = queue
    BY <1>0, <1>a, <1>30, <2>1 DEF ProcessMethod
  <2>2. CASE queue' = Append(queue, RequestItem(found[t] \cup {arg[t]}))
    <3> DEFINE item == RequestItem(found[t] \cup {arg[t]})
    <3>1. found[t] \cup {arg[t]} \in SUBSET Pairs
      BY <1>0, <1>30 DEF ProcessMethod, ArgInv
    <3>2. item \in Items /\ item.type # 2
      BY <3>1 DEF Items, RequestItems, RequestItem
    <3> HIDE DEF item
    <3>3. queue' = Append(queue, item)
      BY <2>2 DEF item
    <3>4. QueueGrows
      BY ONLY <1>b, <3>2, <3>3, QueueAppend
    <3> QED
      BY <1>0, <1>30, <3>4 DEF ProcessMethod
  <2> QED
    BY <1>0, <1>30, <2>1, <2>2 DEF ProcessMethod
<1> QED
  BY <1>1, <1>2, <1>3, <1>4, <1>5, <1>6, <1>7, <1>8, <1>9, <1>10, <1>11, <1>12, <1>13, <1>14,
     <1>15, <1>16, <1>17, <1>18, <1>19, <1>20, <1>21, <1>22, <1>23, <1>24, <1>25, <1>26, <1>27,
     <1>28, <1>29, <1>30
     DEF Callback, CallerStep

\* The steps of the rejit thread other than Pop: none but the last of an item touches a
\* promise, and then it is the one the thread has to keep.
LEMMA RejitPromise ==
    ASSUME TypeOK, ArgInv, RejitStep, ~Pop
    PROVE  /\ QueueGrows
           /\ \/ UNCHANGED <<resolved, reply>>
              \/ /\ resolved' = IF reply = None THEN resolved ELSE resolved \cup {reply}
                 /\ reply' = None
                 /\ pc'[Rejit] = "pop"
           /\ pc'[Rejit] \in ProcSteps => pc[Rejit] \in ProcSteps
<1> DEFINE Goal == /\ QueueGrows
                   /\ \/ UNCHANGED <<resolved, reply>>
                      \/ /\ resolved' = IF reply = None THEN resolved ELSE resolved \cup {reply}
                         /\ reply' = None
                         /\ pc'[Rejit] = "pop"
                   /\ pc'[Rejit] \in ProcSteps => pc[Rejit] \in ProcSteps
<1>0. Rejit \in Threads
  BY DEF Threads
<1>a. queue' = queue => QueueGrows
  BY DEF QueueGrows
<1> USE DEF TypeOK, Goto, ProcSteps, queueVars
<1>1. CASE GetOrAddModule(Rejit)
  BY <1>0, <1>a, <1>1 DEF GetOrAddModule
<1>2. CASE ProcessMethod(Rejit)
  BY <1>0, <1>a, <1>2 DEF ProcessMethod
<1>3. CASE RequestRejit
  BY <1>0, <1>a, <1>3 DEF RequestRejit
<1>4. CASE RequestRejitForNGenInliners
  BY <1>0, <1>a, <1>4 DEF RequestRejitForNGenInliners, ItemDone
<1>5. CASE ScanNGenModule
  <2>1. QueueGrows
    BY <1>5, ScanEffect DEF ScanNGenModule
  <2> QED
    BY <1>0, <1>5, <2>1 DEF ScanNGenModule, ItemDone
<1> QED
  BY <1>1, <1>2, <1>3, <1>4, <1>5 DEF RejitStep

\* A list of modules and integrations comes to the front of the queue.
LEMMA PopProcess ==
    ASSUME Pop, Head(queue).type = 2
    PROVE  LET item == Head(queue)
               targets == Targets(item.integrations, item.modules \cap loaded)
               empty == item.modules = {} \/ item.integrations = {}
           IN  /\ work' = [work EXCEPT ![Rejit] = IF empty THEN {} ELSE targets]
               /\ reply' = IF empty \/ targets = {} THEN None ELSE item.promise
               /\ resolved' = IF ~empty /\ targets = {} THEN resolved \cup {item.promise}
                                                        ELSE resolved
               /\ pc' = [pc EXCEPT ![Rejit] = IF empty \/ targets = {} THEN "pop"
                                                                       ELSE "proc_module"]
               /\ found' = found
<1>1. Head(queue).type # -1 /\ Head(queue).type # 1
  OBVIOUS
<1> QED
  BY <1>1, Zenon DEF Pop, Goto

\* A promise in the queue or with the rejit thread is the one for which a thread waits
\* in InitializeProfiler, with all locks held: there is one at most, and the modules and
\* integrations of the item are still the current ones.
LEMMA PromiseInvNext ==
    ASSUME TypeOK, ArgInv, LockInv, PromiseInv, [Next]_vars
    PROVE  PromiseInv'
<1>0. Callers \subseteq Threads /\ Rejit \notin Callers /\ None \notin Callers
  BY ConstantsAssumption DEF Threads
<1>a. queue \in Seq(Items) /\ \A i \in DOMAIN queue : queue[i] \in Items
  BY DEF TypeOK
<1>b. \A i \in DOMAIN queue : queue[i].type = 2 => queue[i].promise \in Callers
  BY <1>a, ItemTypes
<1>c. reply \in Callers \cup {None} /\ resolved \subseteq Callers
  BY DEF TypeOK
<1>d. {"init_wait", "load_process"} \subseteq ModuleLocked
  BY DEF ModuleLocked
<1>1. ASSUME NEW t \in Callers, Callback(t) \/ CallerStep(t) PROVE PromiseInv'
  <2>1. /\ \A u \in Threads : u # t => pc'[u] = pc[u] /\ arg'[u] = arg[u]
        /\ reply' = reply /\ pc'[Rejit] = pc[Rejit]
    BY <1>0, <1>1, CallerFrame DEF Threads
  <2>2. CASE PromiseStep(t)
    <3>1. module_ids' = module_ids \/ \A u \in Callers : pc[u] # "init_wait"
      BY <1>d, <2>2 DEF PromiseStep, LockInv
    <3>2. \A u \in Callers : pc[u] = "init_wait" => pc'[u] = "init_wait" /\ arg'[u] = arg[u]
      BY <1>0, <2>1, <2>2 DEF PromiseStep
    <3>3. ASSUME NEW i \in DOMAIN queue', queue'[i].type = 2
          PROVE  LET u == queue'[i].promise
                 IN  /\ pc'[u] = "init_wait" /\ u \notin resolved' /\ reply' = None
                     /\ queue'[i].modules = module_ids'
                     /\ queue'[i].integrations = Definitions[arg'[u]]
      <4>1. i \in DOMAIN queue /\ queue'[i] = queue[i]
        BY <2>2, <3>3 DEF PromiseStep, QueueGrows
      <4> QED
        BY <1>b, <2>1, <2>2, <3>1, <3>2, <3>3, <4>1 DEF PromiseStep, PromiseInv
    <3>4. \A i, j \in DOMAIN queue' : queue'[i].type = 2 /\ queue'[j].type = 2 => i = j
      BY <2>2 DEF PromiseStep, PromiseInv, QueueGrows
    <3> QED
      BY <1>c, <2>1, <2>2, <3>2, <3>3, <3>4 DEF PromiseStep, PromiseInv
  <2>3. CASE InitWait(t)
    <3>1. /\ UNCHANGED <<queue, module_ids>> /\ resolved' = resolved \ {t} /\ t \in resolved
      BY <2>3 DEF InitWait
    <3> QED
      BY <1>0, <1>b, <1>c, <2>1, <3>1 DEF PromiseInv
  <2>4. CASE InitModule(t) /\ rejit_handler
    <3>1. /\ \A u \in Callers : pc[u] # "init_wait"
          /\ pc'[t] = "init_wait" /\ arg' = arg /\ resolved' = resolved /\ module_ids' = module_ids
          /\ queue' = Append(queue, ProcessItem(module_ids, Definitions[arg[t]], t))
      BY <1>0, <2>4 DEF InitModule, ModuleFree, Free, ModuleLocked, Goto, TypeOK
    <3>2. (\A i \in DOMAIN queue : queue[i].type # 2) /\ reply = None /\ resolved = {}
      BY <1>b, <1>c, <3>1 DEF PromiseInv
    <3>3. \A i \in DOMAIN queue' : \/ i \in DOMAIN queue /\ queue'[i] = queue[i]
                                   \/ /\ i = Len(queue) + 1
                                      /\ queue'[i] = ProcessItem(module_ids, Definitions[arg[t]], t)
      BY <1>a, <3>1
    <3> QED
      BY <2>1, <3>1, <3>2, <3>3 DEF PromiseInv, ProcessItem
  <2> QED
    BY <1>1, <2>2, <2>3, <2>4, PromiseSteps
<1>2. CASE RejitStep
  <2>1. /\ \A u \in Callers : pc'[u] = pc[u] /\ arg'[u] = arg[u]
        /\ module_ids' = module_ids
    BY <1>2, RejitFrame DEF corVars
  <2>2. CASE Pop
    <3> DEFINE item == queue[1]
    <3>1. /\ 1 \in DOMAIN queue /\ Head(queue) = item
          /\ \A i \in DOMAIN queue' : i + 1 \in DOMAIN queue /\ queue'[i] = queue[i + 1] /\ i \in Nat \ {0}
      BY <1>a, <2>2, QueueTail DEF Pop
    <3>2. \/ /\ item.type # 2 /\ UNCHANGED <<resolved, reply>> /\ pc'[Rejit] \notin ProcSteps
          \/ /\ item.type = 2
             /\ \/ reply' = None /\ resolved' = resolved /\ pc'[Rejit] = "pop"
                \/ reply' = None /\ resolved' = resolved \cup {item.promise} /\ pc'[Rejit] = "pop"
                \/ reply' = item.promise /\ resolved' = resolved
      <4>1. DOMAIN pc = Threads /\ Rejit \in Threads
        BY DEF TypeOK, Threads
      <4>2. Head(queue) = item
        BY <3>1
      <4>3. CASE item.type = -1
        BY <2>2, <4>1, <4>2, <4>3 DEF Pop, Goto, ProcSteps
      <4>4. CASE item.type = 1
        BY <2>2, <4>1, <4>2, <4>4 DEF Pop, Goto, ProcSteps
      <4>5. CASE item.type = 2
        <5> DEFINE targets == Targets(Head(queue).integrations, Head(queue).modules \cap loaded)
                   nothing == Head(queue).modules = {} \/ Head(queue).integrations = {}
        <5>1. /\ reply' = IF nothing \/ targets = {} THEN None ELSE item.promise
              /\ resolved' = IF ~nothing /\ targets = {} THEN resolved \cup {item.promise} ELSE resolved
              /\ pc' = [pc EXCEPT ![Rejit] = IF nothing \/ targets = {} THEN "pop" ELSE "proc_module"]
          BY <2>2, <4>2, <4>5, PopProcess
        <5> HIDE DEF targets, nothing
        <5> QED
          BY <4>1, <4>5, <5>1
      <4> QED
        BY <2>2, <4>2, <4>3, <4>4, <4>5 DEF Pop
    <3> HIDE DEF item
    <3>3. CASE item.type # 2
      <4>1. \A i \in DOMAIN queue' : i + 1 \in DOMAIN queue /\ queue'[i] = queue[i + 1]
        BY <3>1
      <4>2. \A i, j \in DOMAIN queue' : i + 1 = j + 1 => i = j
        BY <3>1
      <4>3. \A i, j \in DOMAIN queue' : queue'[i].type = 2 /\ queue'[j].type = 2 => i = j
        BY <4>1, <4>2 DEF PromiseInv
      <4>4. \A i \in DOMAIN queue' : queue'[i].type = 2 => queue'[i].promise \in Callers
        BY <1>b, <4>1
      <4> QED
        BY <1>c, <2>1, <3>2, <3>3, <4>1, <4>3, <4>4 DEF PromiseInv
    <3>4. CASE item.type = 2
      <4>1. \A i \in DOMAIN queue' : queue'[i].type # 2
        <5>1. \A i \in DOMAIN queue' : i + 1 # 1
          BY <3>1
        <5> QED
          BY <3>1, <3>4, <5>1 DEF PromiseInv, item
      <4>2. item.promise \in Callers /\ pc[item.promise] = "init_wait" /\ item.promise \notin resolved
        BY <1>b, <3>1, <3>4 DEF PromiseInv, item
      <4>3. "pop" \notin ProcSteps
        BY DEF ProcSteps
      <4> QED
        BY <1>0, <1>c, <2>1, <3>2, <3>4, <4>1, <4>2, <4>3 DEF PromiseInv
    <3> QED
      BY <3>3, <3>4
  <2>3. CASE ~Pop
    <3>1. /\ QueueGrows
          /\ \/ UNCHANGED <<resolved, reply>>
             \/ /\ resolved' = IF reply = None THEN resolved ELSE resolved \cup {reply}
                /\ reply' = None
                /\ pc'[Rejit] = "pop"
          /\ pc'[Rejit] \in ProcSteps => pc[Rejit] \in ProcSteps
      BY <1>2, <2>3, RejitPromise
    <3>2. "pop" \notin ProcSteps
      BY DEF ProcSteps
    <3>3. ASSUME NEW i \in DOMAIN queue', queue'[i].type = 2
          PROVE  LET u == queue'[i].promise
                 IN  /\ pc'[u] = "init_wait" /\ u \notin resolved' /\ reply' = None
                     /\ queue'[i].modules = module_ids'
                     /\ queue'[i].integrations = Definitions[arg'[u]]
      <4>1. i \in DOMAIN queue /\ queue'[i] = queue[i]
        BY <3>1, <3>3 DEF QueueGrows
      <4> QED
        BY <1>b, <2>1, <3>1, <3>3, <4>1 DEF PromiseInv
    <3>4. \A i, j \in DOMAIN queue' : queue'[i].type = 2 /\ queue'[j].type = 2 => i = j
      BY <3>1 DEF PromiseInv, QueueGrows
    <3> QED
      BY <1>c, <2>1, <3>1, <3>2, <3>3, <3>4 DEF PromiseInv
  <2> QED
    BY <2>2, <2>3
<1>3. CASE UNCHANGED vars
  BY <1>3 DEF vars, corVars, queueVars, localVars, PromiseInv
<1> QED
  BY <1>1, <1>2, <1>3 DEF Next

-----------------------------------------------------------------------------
(* What the handler keeps of a module, while somebody uses it *)

\* How a step changes m_modules, and where it may end on a fault.
ModulesStep(t) ==
    /\ \/ /\ m_modules \subseteq m_modules' /\ pc[t] # "unload_remove"
          /\ \A m \in m_modules' : m \in m_modules \/ Uses(t, m)
       \/ pc[t] = "unload_remove" /\ m_modules' = m_modules \ {arg[t]}
       \/ pc[t] = "sd_write" /\ Free(ShutdownShared, Threads) /\ m_modules' = {}
    /\ pc'[t] \in {"proc_method", "par_method"} => ModuleOf(arg'[t]) \in m_modules'
    /\ pc'[t] = "fault" =>
         \/ pc[t] = "fault"
         \/ pc[t] \in {"proc_method", "par_method"} /\ ModuleOf(arg[t]) \notin m_modules
         \/ pc[t] \in JitSteps /\ ~rejit_handler

\* Every step of a runtime's thread is of this kind.
LEMMA ModulesSteps ==
    ASSUME TypeOK, ArgInv, NEW t \in Callers, Callback(t) \/ CallerStep(t)
    PROVE  ModulesStep(t)
<1>0. t \in Threads /\ t # Rejit
  BY ConstantsAssumption DEF Threads
<1> USE DEF TypeOK, Goto, ModulesStep, JitSteps, corVars, handlerVars, queueVars, clrVars, localVars
<1>1. ASSUME NEW m \in Modules, ModuleLoadFinished(t, m) PROVE ModulesStep(t)
  BY <1>0, <1>1 DEF ModuleLoadFinished
<1>2. ASSUME NEW m \in Modules, ModuleUnloadStarted(t, m) PROVE ModulesStep(t)
  BY <1>0, <1>2 DEF ModuleUnloadStarted
<1>3. ASSUME NEW m \in Modules, JITCompilationStarted(t, m) PROVE ModulesStep(t)
  BY <1>0, <1>3 DEF JITCompilationStarted
<1>4. ASSUME NEW d \in Domains, AppDomainShutdownFinished(t, d) PROVE ModulesStep(t)
  BY <1>0, <1>4 DEF AppDomainShutdownFinished
<1>5. ASSUME NEW id \in Ids, InitializeProfiler(t, id) PROVE ModulesStep(t)
  BY <1>0, <1>5 DEF InitializeProfiler
<1>6. ASSUME NEW p \in Pairs, JITInlining(t, p) PROVE ModulesStep(t)
  BY <1>0, <1>6 DEF JITInlining
<1>7. ASSUME NEW p \in Pairs, GetReJITParameters(t, p) PROVE ModulesStep(t)
  BY <1>0, <1>7 DEF GetReJITParameters
<1>8. CASE Shutdown(t)
  BY <1>0, <1>8 DEF Shutdown
<1>9. CASE LoadLock(t)
  BY <1>0, <1>9 DEF LoadLock
<1>10. CASE AddNGenModule(t)
  BY <1>0, <1>10 DEF AddNGenModule
<1>11. CASE LoadScan(t)
  BY <1>0, <1>11 DEF LoadScan
<1>12. CASE LoadProcess(t)
  BY <1>0, <1>12 DEF LoadProcess
<1>13. CASE UnloadLock(t)
  BY <1>0, <1>13 DEF UnloadLock
<1>14. CASE UnloadRemove(t)
  BY <1>0, <1>14 DEF UnloadRemove, RemoveModule
<1>15. CASE JitLock(t)
  BY <1>0, <1>15 DEF JitLock
<1>16. CASE InitLock(t)
  BY <1>0, <1>16 DEF InitLock
<1>17. CASE InitModule(t)
  BY <1>0, <1>17 DEF InitModule
<1>18. CASE InitWait(t)
  BY <1>0, <1>18 DEF InitWait
<1>19. CASE InliningCheck(t)
  BY <1>0, <1>19 DEF InliningCheck
<1>20. CASE HasModuleAndMethod(t)
  BY <1>0, <1>20 DEF HasModuleAndMethod
<1>21. CASE EnterHandler(t, "inl_shared", "inl_modules")
  BY <1>0, <1>21 DEF EnterHandler
<1>22. CASE EnterHandler(t, "par_shared", "par_module")
  BY <1>0, <1>22 DEF EnterHandler
<1>23. CASE ParametersModule(t)
  BY <1>0, <1>23 DEF ParametersModule, Uses, ProcSteps
<1>24. CASE ParametersMethod(t)
  BY <1>0, <1>24 DEF ParametersMethod
<1>25. CASE ShutdownLock(t)
  BY <1>0, <1>25 DEF ShutdownLock
<1>26. CASE ShutdownWait(t)
  BY <1>0, <1>26 DEF ShutdownWait
<1>27. CASE ShutdownWrite(t)
  BY <1>0, <1>27 DEF ShutdownWrite
<1>28. CASE ShutdownDelete(t)
  BY <1>0, <1>28 DEF ShutdownDelete
<1>29. CASE GetOrAddModule(t)
  BY <1>0, <1>29 DEF GetOrAddModule, Uses, ProcSteps
<1>30. CASE ProcessMethod(t)
  BY <1>0, <1>30 DEF ProcessMethod
<1> QED
  BY <1>1, <1>2, <1>3, <1>4, <1>5, <1>6, <1>7, <1>8, <1>9, <1>10, <1>11, <1>12, <1>13, <1>14,
     <1>15, <1>16, <1>17, <1>18, <1>19, <1>20, <1>21, <1>22, <1>23, <1>24, <1>25, <1>26, <1>27,
     <1>28, <1>29, <1>30
     DEF Callback, CallerStep

\* The steps of the rejit thread: it adds modules it works on, and removes none.
LEMMA RejitModules ==
    ASSUME TypeOK, ArgInv, RejitStep
    PROVE  /\ m_modules \subseteq m_modules'
           /\ \A m \in m_modules' : \/ m \in m_modules
                                    \/ /\ pc[Rejit] \in ProcSteps
                                       /\ \E p \in work[Rejit] : ModuleOf(p) = m
           /\ pc'[Rejit] = "proc_method" => ModuleOf(arg'[Rejit]) \in m_modules'
           /\ pc'[Rejit] = "fault" =>
                pc[Rejit] = "fault" \/ (pc[Rejit] = "proc_method" /\ ModuleOf(arg[Rejit]) \notin m_modules)
           /\ pc'[Rejit] \in ProcSteps =>
                \/ pc[Rejit] \in ProcSteps /\ work'[Rejit] \subseteq work[Rejit]
                \/ \A p \in work'[Rejit] : ModuleOf(p) \in loaded
<1> DEFINE Goal == /\ m_modules \subseteq m_modules'
                   /\ \A m \in m_modules' : \/ m \in m_modules
                                            \/ /\ pc[Rejit] \in ProcSteps
                                               /\ \E p \in work[Rejit] : ModuleOf(p) = m
                   /\ pc'[Rejit] = "proc_method" => ModuleOf(arg'[Rejit]) \in m_modules'
                   /\ pc'[Rejit] = "fault" =>
                        \/ pc[Rejit] = "fault"
                        \/ pc[Rejit] = "proc_method" /\ ModuleOf(arg[Rejit]) \notin m_modules
                   /\ pc'[Rejit] \in ProcSteps =>
                        \/ pc[Rejit] \in ProcSteps /\ work'[Rejit] \subseteq work[Rejit]
                        \/ \A p \in work'[Rejit] : ModuleOf(p) \in loaded
<1>0. Rejit \in Threads
  BY DEF Threads
<1>1. CASE Pop
  <2>1. m_modules' = m_modules
    BY <1>1 DEF Pop, handlerVars
  <2>2. CASE Head(queue).type = 2
    <3> DEFINE targets == Targets(Head(queue).integrations, Head(queue).modules \cap loaded)
               nothing == Head(queue).modules = {} \/ Head(queue).integrations = {}
    <3>1. /\ work' = [work EXCEPT ![Rejit] = IF nothing THEN {} ELSE targets]
          /\ pc' = [pc EXCEPT ![Rejit] = IF nothing \/ targets = {} THEN "pop" ELSE "proc_module"]
      BY <1>1, <2>2, PopProcess
    <3>2. \A p \in targets : ModuleOf(p) \in loaded
      BY DEF Targets
    <3> HIDE DEF targets, nothing
    <3>3. pc'[Rejit] \in {"pop", "proc_module"} /\ work'[Rejit] \in {{}, targets}
      BY <1>0, <3>1 DEF TypeOK
    <3> QED
      BY <2>1, <3>2, <3>3
  <2>3. CASE Head(queue).type # 2
    <3>1. pc'[Rejit] \in {"ended", "req_request"}
      BY <1>0, <1>1, <2>3 DEF Pop, Goto, TypeOK
    <3> QED
      BY <2>1, <3>1 DEF ProcSteps
  <2> QED
    BY <2>2, <2>3
<1> USE DEF TypeOK, Goto, ProcSteps, handlerVars
<1>2. CASE GetOrAddModule(Rejit)
  BY <1>0, <1>2 DEF GetOrAddModule
<1>3. CASE ProcessMethod(Rejit)
  BY <1>0, <1>3 DEF ProcessMethod
<1>4. CASE RequestRejit
  BY <1>0, <1>4 DEF RequestRejit
<1>5. CASE RequestRejitForNGenInliners
  BY <1>0, <1>5 DEF RequestRejitForNGenInliners, ItemDone
<1>6. CASE ScanNGenModule
  BY <1>0, <1>6 DEF ScanNGenModule, ItemDone
<1> QED
  BY <1>1, <1>2, <1>3, <1>4, <1>5, <1>6 DEF RejitStep

\* While the rejit thread registers the methods of a promise, InitializeProfiler holds
\* the module lock: no module is removed.
LEMMA NoRemovalMeanwhile ==
    ASSUME TypeOK, LockInv, PromiseInv, pc[Rejit] \in ProcSteps,
           NEW t \in Callers, pc[t] \in ModuleLocked
    PROVE  pc[t] = "init_wait"
<1>1. reply \in Callers /\ pc[reply] = "init_wait"
  BY DEF PromiseInv, TypeOK
<1>2. "init_wait" \in ModuleLocked
  BY DEF ModuleLocked
<1> QED
  BY <1>1, <1>2 DEF LockInv

\* The modules that the rejit thread works on stay loaded.
LEMMA RejitLoadInvNext ==
    ASSUME TypeOK, ArgInv, LockInv, LoadInv, PromiseInv, RejitLoadInv, [Next]_vars
    PROVE  RejitLoadInv'
<1>0. Rejit \in Threads /\ Rejit \notin Callers
  BY ConstantsAssumption DEF Threads
<1>1. ASSUME NEW t \in Callers, Callback(t) \/ CallerStep(t) PROVE RejitLoadInv'
  <2>1. pc'[Rejit] = pc[Rejit] /\ work'[Rejit] = work[Rejit]
    BY <1>0, <1>1, CallerFrame
  <2>2. is_attached' => is_attached
    BY <1>1, AttachStep
  <2>3. LoadStep(t)
    BY <1>1, LoadSteps DEF LoadInv
  <2>4. pc[Rejit] \in ProcSteps => pc[t] # "unload_remove"
    BY NoRemovalMeanwhile DEF ModuleLocked
  <2>5. is_attached /\ pc[Rejit] \in ProcSteps => loaded \subseteq loaded'
    BY <2>3, <2>4 DEF LoadStep
  <2> QED
    BY <2>1, <2>2, <2>5 DEF RejitLoadInv
<1>2. CASE RejitStep
  <2>1. UNCHANGED <<is_attached, loaded>>
    BY <1>2, RejitFrame DEF corVars
  <2>2. pc'[Rejit] \in ProcSteps =>
          \/ pc[Rejit] \in ProcSteps /\ work'[Rejit] \subseteq work[Rejit]
          \/ \A p \in work'[Rejit] : ModuleOf(p) \in loaded
    BY <1>2, RejitModules
  <2> QED
    BY <2>1, <2>2 DEF RejitLoadInv
<1>3. CASE UNCHANGED vars
  BY <1>3 DEF vars, corVars, clrVars, localVars, RejitLoadInv
<1> QED
  BY <1>1, <1>2, <1>3 DEF Next

\* Between GetOrAddModule and GetOrAddMethod nobody removes the module.
LEMMA AliveInvNext ==
    ASSUME TypeOK, ArgInv, LockInv, LoadInv, PromiseInv, AliveInv, [Next]_vars
    PROVE  AliveInv'
<1>0. Rejit \in Threads /\ Rejit \notin Callers /\ Threads = Callers \cup {Rejit}
  BY ConstantsAssumption DEF Threads
<1>1. ASSUME NEW t \in Callers, Callback(t) \/ CallerStep(t) PROVE AliveInv'
  <2>1. \A u \in Threads : u # t => pc'[u] = pc[u] /\ arg'[u] = arg[u]
    BY <1>1, CallerFrame
  <2>2. ModulesStep(t)
    BY <1>1, ModulesSteps
  <2>3. ASSUME NEW u \in Threads, u # t, pc[u] \in {"proc_method", "par_method"}
        PROVE  ModuleOf(arg[u]) \in m_modules'
    <3>0. pc[u] = "par_method" => u # Rejit
      BY DEF TypeOK, RejitPcs
    <3>1. ModuleOf(arg[u]) \in m_modules
      BY <1>0, <2>3, <3>0 DEF AliveInv
    <3>2. CASE pc[t] = "unload_remove"
      <4>1. u # Rejit /\ pc[u] = "par_method"
        <5>1. pc[u] = "proc_method" => pc[u] \in ProcSteps /\ pc[u] \in ModuleLocked
          BY DEF ProcSteps, ModuleLocked
        <5>2. pc[t] \in ModuleLocked
          BY <3>2 DEF ModuleLocked
        <5>3. pc[u] # "proc_method"
          BY <1>0, <2>3, <3>2, <5>1, <5>2, NoRemovalMeanwhile DEF LockInv
        <5> QED
          BY <2>3, <3>0, <5>3
      <4>2. Uses(u, ModuleOf(arg[u])) /\ pc[t] \in UnloadSteps
        BY <3>2, <4>1 DEF Uses, JitSteps, UnloadSteps
      <4>3. ModuleOf(arg[u]) # arg[t]
        BY <1>0, <2>3, <4>1, <4>2 DEF LoadInv
      <4> QED
        BY <2>2, <3>1, <3>2, <4>3 DEF ModulesStep
    <3>3. ~Free(ShutdownShared, Threads)
      BY <2>3 DEF Free, ShutdownShared
    <3> QED
      BY <2>2, <3>1, <3>2, <3>3 DEF ModulesStep
  <2>4. \A u \in Threads : pc'[u] = "proc_method" => ModuleOf(arg'[u]) \in m_modules'
    <3>1. pc'[t] = "proc_method" => ModuleOf(arg'[t]) \in m_modules'
      BY <2>2 DEF ModulesStep
    <3>2. ASSUME NEW u \in Threads, u # t, pc'[u] = "proc_method"
          PROVE  ModuleOf(arg'[u]) \in m_modules'
      <4>1. pc[u] = "proc_method" /\ arg'[u] = arg[u]
        BY <2>1, <3>2
      <4>2. ModuleOf(arg[u]) \in m_modules'
        BY <2>3, <3>2, <4>1
      <4> QED
        BY <4>1, <4>2
    <3> QED
      BY <3>1, <3>2
  <2>5. \A u \in Callers : pc'[u] = "par_method" => ModuleOf(arg'[u]) \in m_modules'
    BY <1>0, <2>1, <2>2, <2>3 DEF ModulesStep
  <2> QED
    BY <2>4, <2>5 DEF AliveInv
<1>2. CASE RejitStep
  <2>1. \A u \in Callers : pc'[u] = pc[u] /\ arg'[u] = arg[u]
    BY <1>2, RejitFrame
  <2>2. /\ m_modules \subseteq m_modules'
        /\ pc'[Rejit] = "proc_method" => ModuleOf(arg'[Rejit]) \in m_modules'
    BY <1>2, RejitModules
  <2> QED
    BY <1>0, <2>1, <2>2 DEF AliveInv
<1>3. CASE UNCHANGED vars
  BY <1>3 DEF vars, handlerVars, localVars, AliveInv
<1> QED
  BY <1>1, <1>2, <1>3 DEF Next

\* What the proofs of the safety properties need together.
SafeInv ==
    /\ TypeOK /\ ArgInv /\ LockInv /\ AttachInv
    /\ LoadInv /\ PromiseInv /\ RejitLoadInv /\ AliveInv

\* All of it holds initially.
LEMMA SafeInvInit == Init => SafeInv
<1> SUFFICES ASSUME Init PROVE SafeInv
  OBVIOUS
<1>0. Rejit \in Threads /\ Rejit \notin Callers /\ Threads = Callers \cup {Rejit}
  BY ConstantsAssumption DEF Threads
<1>1. /\ \A t \in Callers : pc[t] = "idle"
      /\ pc[Rejit] = "pop"
  BY <1>0 DEF Init
<1>2. TypeOK /\ ArgInv
  BY TypeInvInit
<1>4. LockInv
  BY <1>1 DEF LockInv, ModuleLocked
<1>5. AttachInv
  BY <1>1 DEF Init, AttachInv, ShutdownSteps
<1>6. LoadInv
  BY <1>1 DEF Init, LoadInv, Uses, ModuleSteps, UnloadSteps, ProcSteps, JitSteps
<1>7. PromiseInv
  BY <1>1 DEF Init, PromiseInv, ProcSteps
<1>8. RejitLoadInv
  BY <1>1 DEF RejitLoadInv, ProcSteps
<1>9. AliveInv
  BY <1>0, <1>1 DEF AliveInv
<1> QED
  BY <1>2, <1>4, <1>5, <1>6, <1>7, <1>8, <1>9 DEF SafeInv

\* Every step keeps all of it.
LEMMA SafeInvNext ==
    ASSUME SafeInv, [Next]_vars
    PROVE  SafeInv'
<1>1. TypeOK' /\ ArgInv'
  BY TypeInvNext DEF SafeInv
<1>2. LockInv'
  BY LockInvNext DEF SafeInv
<1>3. AttachInv'
  BY AttachInvNext DEF SafeInv
<1>4. LoadInv'
  BY LoadInvNext DEF SafeInv
<1>5. PromiseInv'
  BY PromiseInvNext DEF SafeInv
<1>6. RejitLoadInv'
  BY RejitLoadInvNext DEF SafeInv
<1>7. AliveInv'
  BY AliveInvNext DEF SafeInv
<1> QED
  BY <1>1, <1>2, <1>3, <1>4, <1>5, <1>6, <1>7 DEF SafeInv

\* No callback and no step of the rejit thread uses the RejitHandler that Shutdown has
\* deleted or a module that RemoveModule has destroyed, provided that the runtime does
\* not call Shutdown while it is in a just-in-time callback.  With that hypothesis
\* dropped the property fails: see the run of NativeProfilerShutdown.cfg.
THEOREM HandlerStaysAlive ==
    ASSUME ~JitDuringShutdown
    PROVE  Spec => []HandlerAlive
<1>1. Init => HandlerAlive
  BY DEF Init, HandlerAlive
<1>2. ASSUME SafeInv, HandlerAlive, [Next]_vars PROVE HandlerAlive'
  <2>0. Rejit \in Threads /\ Threads = Callers \cup {Rejit}
    BY DEF Threads
  <2>1. ASSUME NEW t \in Callers, Callback(t) \/ CallerStep(t) PROVE HandlerAlive'
    <3>1. \A u \in Threads : u # t => pc'[u] = pc[u]
      BY <1>2, <2>1, CallerFrame DEF SafeInv
    <3>2. ModulesStep(t)
      BY <1>2, <2>1, ModulesSteps DEF SafeInv
    <3>3. pc[t] \in JitSteps => rejit_handler
      BY <1>2 DEF SafeInv, AttachInv, Free
    <3>4. pc'[t] # "fault"
      BY <1>2, <2>0, <3>2, <3>3 DEF ModulesStep, SafeInv, AliveInv, HandlerAlive
    <3> QED
      BY <1>2, <3>1, <3>4 DEF HandlerAlive
  <2>2. CASE RejitStep
    <3>1. \A u \in Callers : pc'[u] = pc[u]
      BY <1>2, <2>2, RejitFrame DEF SafeInv
    <3>2. pc'[Rejit] = "fault" =>
            pc[Rejit] = "fault" \/ (pc[Rejit] = "proc_method" /\ ModuleOf(arg[Rejit]) \notin m_modules)
      BY <1>2, <2>2, RejitModules DEF SafeInv
    <3> QED
      BY <1>2, <2>0, <3>1, <3>2 DEF SafeInv, AliveInv, HandlerAlive
  <2>3. CASE UNCHANGED vars
    BY <1>2, <2>3 DEF vars, localVars, HandlerAlive
  <2> QED
    BY <1>2, <2>1, <2>2, <2>3 DEF Next
<1> QED
  BY <1>1, <1>2, SafeInvInit, SafeInvNext, PTL DEF Spec

-----------------------------------------------------------------------------
(* What the handler keeps of a module that is gone *)

\* How a step changes the tables, and who comes to the steps that add to them.
KeptStep(t) ==
    /\ \A p \in m_methods' : p \in m_methods \/ ModuleOf(p) \in m_modules
    /\ \A d \in ngenDone' : d \in ngenDone \/ d[2] \in m_methods
    /\ \/ m_modules \subseteq m_modules' /\ m_methods \subseteq m_methods'
       \/ \E m \in Modules :
            /\ m_modules' = m_modules \ {m} /\ m_methods' = m_methods \ PairsOf(m)
            /\ \A d \in ngenDone' : ModuleOf(d[2]) # m
       \/ m_modules' = {} /\ m_methods' = {} /\ ngenDone' = {}
    /\ m_modules' \subseteq m_modules \/ pc[t] \in HandlerSteps
    /\ pc'[t] \in JoinedSteps => pc[t] \in JoinedSteps \/ pc[Rejit] = "ended"
    /\ pc'[t] \in HandlerSteps =>
         \/ pc[t] \in HandlerSteps
         \/ pc[t] = "load_lock" /\ is_attached
         \/ pc[t] = "load_process" /\ rejit_handler
         \/ ~m_shutdown
    /\ rejit_handler' => rejit_handler /\ pc[t] # "sd_delete"
    /\ \/ m_shutdown' = m_shutdown
       \/ /\ pc[t] = "sd_write" /\ pc'[t] = "sd_delete" /\ m_modules' = {}
          /\ Free(ShutdownShared, Threads)

\* Every step of a runtime's thread is of this kind.
LEMMA KeptSteps ==
    ASSUME TypeOK, ArgInv, NEW t \in Callers, Callback(t) \/ CallerStep(t)
    PROVE  KeptStep(t)
<1>0. t \in Threads /\ t # Rejit
  BY ConstantsAssumption DEF Threads
<1> USE DEF TypeOK, Goto, KeptStep, HandlerSteps, JoinedSteps, corVars, handlerVars, localVars
<1>1. ASSUME NEW m \in Modules, ModuleLoadFinished(t, m) PROVE KeptStep(t)
  BY <1>0, <1>1 DEF ModuleLoadFinished
<1>2. ASSUME NEW m \in Modules, ModuleUnloadStarted(t, m) PROVE KeptStep(t)
  BY <1>0, <1>2 DEF ModuleUnloadStarted
<1>3. ASSUME NEW m \in Modules, JITCompilationStarted(t, m) PROVE KeptStep(t)
  BY <1>0, <1>3 DEF JITCompilationStarted
<1>4. ASSUME NEW d \in Domains, AppDomainShutdownFinished(t, d) PROVE KeptStep(t)
  BY <1>0, <1>4 DEF AppDomainShutdownFinished
<1>5. ASSUME NEW id \in Ids, InitializeProfiler(t, id) PROVE KeptStep(t)
  BY <1>0, <1>5 DEF InitializeProfiler
<1>6. ASSUME NEW p \in Pairs, JITInlining(t, p) PROVE KeptStep(t)
  BY <1>0, <1>6 DEF JITInlining
<1>7. ASSUME NEW p \in Pairs, GetReJITParameters(t, p) PROVE KeptStep(t)
  BY <1>0, <1>7 DEF GetReJITParameters
<1>8. CASE Shutdown(t)
  BY <1>0, <1>8 DEF Shutdown
<1>9. CASE LoadLock(t)
  BY <1>0, <1>9 DEF LoadLock
<1>10. CASE AddNGenModule(t)
  BY <1>0, <1>10 DEF AddNGenModule
<1>11. CASE LoadScan(t)
  <2>1. \A d \in ngenDone' : d \in ngenDone \/ d[2] \in m_methods
    BY <1>11, ScanEffect DEF LoadScan, AddNGenModuleScan, ArgInv
  <2> QED
    BY <1>0, <1>11, <2>1 DEF LoadScan
<1>12. CASE LoadProcess(t)
  BY <1>0, <1>12 DEF LoadProcess
<1>13. CASE UnloadLock(t)
  BY <1>0, <1>13 DEF UnloadLock
<1>14. CASE UnloadRemove(t)
  <2>1. /\ arg[t] \in Modules /\ RemoveModule(arg[t])
        /\ pc' = [pc EXCEPT ![t] = "idle"]
        /\ UNCHANGED <<rejit_handler, m_shutdown>>
    BY <1>0, <1>14 DEF UnloadRemove, ArgInv, UnloadSteps
  <2> QED
    BY <1>0, <1>14, <2>1 DEF RemoveModule, PairsOf, UnloadRemove
<1>15. CASE JitLock(t)
  BY <1>0, <1>15 DEF JitLock
<1>16. CASE InitLock(t)
  BY <1>0, <1>16 DEF InitLock
<1>17. CASE InitModule(t)
  BY <1>0, <1>17 DEF InitModule
<1>18. CASE InitWait(t)
  BY <1>0, <1>18 DEF InitWait
<1>19. CASE InliningCheck(t)
  BY <1>0, <1>19 DEF InliningCheck
<1>20. CASE HasModuleAndMethod(t)
  BY <1>0, <1>20 DEF HasModuleAndMethod
<1>21. CASE EnterHandler(t, "inl_shared", "inl_modules")
  BY <1>0, <1>21 DEF EnterHandler
<1>22. CASE EnterHandler(t, "par_shared", "par_module")
  BY <1>0, <1>22 DEF EnterHandler
<1>23. CASE ParametersModule(t)
  BY <1>0, <1>23 DEF ParametersModule
<1>24. CASE ParametersMethod(t)
  BY <1>0, <1>24 DEF ParametersMethod
<1>25. CASE ShutdownLock(t)
  BY <1>0, <1>25 DEF ShutdownLock
<1>26. CASE ShutdownWait(t)
  BY <1>0, <1>26 DEF ShutdownWait
<1>27. CASE ShutdownWrite(t)
  BY <1>0, <1>27 DEF ShutdownWrite
<1>28. CASE ShutdownDelete(t)
  BY <1>0, <1>28 DEF ShutdownDelete
<1>29. CASE GetOrAddModule(t)
  BY <1>0, <1>29 DEF GetOrAddModule
<1>30. CASE ProcessMethod(t)
  BY <1>0, <1>30 DEF ProcessMethod, GetOrAddMethod
<1> QED
  BY <1>1, <1>2, <1>3, <1>4, <1>5, <1>6, <1>7, <1>8, <1>9, <1>10, <1>11, <1>12, <1>13, <1>14,
     <1>15, <1>16, <1>17, <1>18, <1>19, <1>20, <1>21, <1>22, <1>23, <1>24, <1>25, <1>26, <1>27,
     <1>28, <1>29, <1>30
     DEF Callback, CallerStep

\* The rejit thread adds a method to a module that is there, and marks a method that is.
LEMMA RejitKept ==
    ASSUME TypeOK, KeptInv, RejitStep
    PROVE  /\ KeptInv'
           /\ UNCHANGED <<m_shutdown, rejit_handler>>
           /\ pc[Rejit] # "ended"
<1> USE DEF KeptInv, handlerVars, corVars
<1>1. CASE Pop
  BY <1>1 DEF Pop
<1>2. CASE GetOrAddModule(Rejit)
  BY <1>2 DEF GetOrAddModule
<1>3. CASE ProcessMethod(Rejit)
  BY <1>3 DEF ProcessMethod, GetOrAddMethod
<1>4. CASE RequestRejit
  BY <1>4 DEF RequestRejit
<1>5. CASE RequestRejitForNGenInliners
  BY <1>5 DEF RequestRejitForNGenInliners
<1>6. CASE ScanNGenModule
  <2>1. \A d \in ngenDone' : d \in ngenDone \/ d[2] \in m_methods
    BY <1>6, ScanEffect DEF ScanNGenModule, TypeOK
  <2> QED
    BY <1>6, <2>1 DEF ScanNGenModule
<1> QED
  BY <1>1, <1>2, <1>3, <1>4, <1>5, <1>6 DEF RejitStep

\* RemoveModule takes the methods with their module, and Shutdown leaves a handler that
\* nobody fills again: it has joined the rejit thread, it waits for the callbacks inside,
\* and the ones that hold the module lock come before it or find the handler deleted.
LEMMA KeptInvNext ==
    ASSUME SafeInv, KeptInv, EndInv, [Next]_vars
    PROVE  KeptInv' /\ EndInv'
<1>0. /\ Rejit \in Threads /\ Rejit \notin Callers /\ Threads = Callers \cup {Rejit}
      /\ TypeOK /\ ArgInv /\ LockInv /\ AttachInv
  BY ConstantsAssumption DEF Threads, SafeInv
<1>1. ASSUME NEW t \in Callers, Callback(t) \/ CallerStep(t) PROVE KeptInv' /\ EndInv'
  <2>1. KeptStep(t)
    BY <1>0, <1>1, KeptSteps
  <2>2. \A u \in Threads : u # t => pc'[u] = pc[u]
    BY <1>0, <1>1, CallerFrame
  <2>3. is_attached' => is_attached
    BY <1>0, <1>1, AttachStep
  <2>4. m_methods \subseteq Pairs /\ pc'[Rejit] = pc[Rejit]
    BY <1>0, <2>2 DEF TypeOK
  <2>5. KeptInv'
    <3>1. CASE m_modules \subseteq m_modules' /\ m_methods \subseteq m_methods'
      BY <2>1, <3>1 DEF KeptStep, KeptInv
    <3>2. ASSUME NEW m \in Modules,
                 m_modules' = m_modules \ {m}, m_methods' = m_methods \ PairsOf(m),
                 \A d \in ngenDone' : ModuleOf(d[2]) # m
          PROVE  KeptInv'
      <4>1. \A p \in m_methods' : ModuleOf(p) \in m_modules'
        BY <2>4, <3>2 DEF KeptInv, PairsOf
      <4>2. \A d \in ngenDone' : d[2] \in m_methods'
        BY <2>1, <3>2 DEF KeptStep, KeptInv, PairsOf
      <4> QED
        BY <4>1, <4>2 DEF KeptInv
    <3>3. CASE m_modules' = {} /\ m_methods' = {} /\ ngenDone' = {}
      BY <3>3 DEF KeptInv
    <3> QED
      BY <2>1, <3>1, <3>2, <3>3 DEF KeptStep
  <2>6. \A u \in Callers : pc'[u] \in JoinedSteps => pc'[Rejit] = "ended"
    BY <1>0, <2>1, <2>2, <2>4 DEF KeptStep, EndInv, JoinedSteps
  <2>7. CASE m_shutdown' = m_shutdown
    <3>1. SUFFICES ASSUME m_shutdown PROVE EndInv'
      BY <2>5, <2>6, <2>7 DEF EndInv, JoinedSteps, HandlerSteps
    <3>2. /\ ~is_attached /\ pc[Rejit] = "ended" /\ m_modules = {}
          /\ rejit_handler => \E u \in Callers : pc[u] = "sd_delete"
          /\ \A u \in Callers : pc[u] \notin HandlerSteps
      BY <3>1 DEF EndInv
    <3>3. pc'[t] \notin HandlerSteps
      <4>1. pc[t] = "load_process" => ~rejit_handler
        <5>1. {"load_process", "sd_delete"} \subseteq ModuleLocked
          BY DEF ModuleLocked
        <5> QED
          BY <1>0, <3>2, <5>1 DEF LockInv
      <4> QED
        BY <2>1, <3>1, <3>2, <4>1 DEF KeptStep
    <3>4. m_modules' = {}
      BY <2>1, <3>2 DEF KeptStep
    <3>5. rejit_handler' => \E u \in Callers : pc'[u] = "sd_delete"
      <4> SUFFICES ASSUME rejit_handler' PROVE \E u \in Callers : pc'[u] = "sd_delete"
        OBVIOUS
      <4>1. rejit_handler /\ pc[t] # "sd_delete"
        BY <2>1 DEF KeptStep
      <4>2. PICK u \in Callers : pc[u] = "sd_delete"
        BY <3>2, <4>1
      <4> QED
        BY <1>0, <2>2, <4>1, <4>2
    <3>6. \A u \in Callers : pc'[u] \notin HandlerSteps
      BY <1>0, <2>2, <3>2, <3>3
    <3> QED
      BY <2>3, <2>4, <2>6, <3>2, <3>4, <3>5, <3>6 DEF EndInv
  <2>8. CASE /\ pc[t] = "sd_write" /\ pc'[t] = "sd_delete" /\ m_modules' = {}
             /\ Free(ShutdownShared, Threads)
    <3>1. ~is_attached /\ pc[Rejit] = "ended"
      BY <1>0, <2>8 DEF AttachInv, ShutdownSteps, EndInv, JoinedSteps
    <3>2. ASSUME NEW u \in Callers PROVE pc'[u] \notin HandlerSteps
      <4>1. CASE u = t
        BY <2>8, <4>1 DEF HandlerSteps
      <4>2. CASE u # t
        <5>1. pc[u] # "ngen_add"
          <6>1. {"ngen_add", "sd_write"} \subseteq ModuleLocked
            BY DEF ModuleLocked
          <6> QED
            BY <1>0, <2>8, <4>2, <6>1 DEF LockInv
        <5>2. pc[u] \notin ShutdownShared
          BY <1>0, <2>8 DEF Free
        <5>3. pc[u] \notin HandlerSteps
          BY <5>1, <5>2 DEF HandlerSteps, ShutdownShared
        <5> QED
          BY <1>0, <2>2, <4>2, <5>3
      <4> QED
        BY <4>1, <4>2
    <3> QED
      BY <1>0, <2>3, <2>4, <2>5, <2>6, <2>8, <3>1, <3>2 DEF EndInv, JoinedSteps, HandlerSteps
  <2> QED
    BY <2>1, <2>5, <2>7, <2>8 DEF KeptStep
<1>2. CASE RejitStep
  <2>1. \A u \in Callers : pc'[u] = pc[u]
    BY <1>0, <1>2, RejitFrame
  <2>2. KeptInv' /\ UNCHANGED <<m_shutdown, rejit_handler>> /\ pc[Rejit] # "ended"
    BY <1>0, <1>2, RejitKept
  <2> QED
    BY <2>1, <2>2 DEF EndInv
<1>3. CASE UNCHANGED vars
  BY <1>3 DEF vars, corVars, handlerVars, localVars, KeptInv, EndInv
<1> QED
  BY <1>1, <1>2, <1>3 DEF Next

\* A module that is gone has no RejitHandlerModule: RemoveModule comes after every
\* GetOrAddModule for it, on whatever thread.
LEMMA ModulesGoneNext ==
    ASSUME SafeInv, [Next]_vars, is_attached, m_modules \cap gone = {}
    PROVE  is_attached' => m_modules' \cap gone' = {}
<1>1. ASSUME NEW t \in Callers, Callback(t) \/ CallerStep(t), is_attached'
      PROVE  m_modules' \cap gone' = {}
  <2>1. ModulesStep(t)
    BY <1>1, ModulesSteps DEF SafeInv
  <2>2. LoadStep(t)
    BY <1>1, LoadSteps DEF SafeInv, LoadInv
  <2>3. pc[t] # "sd_write"
    BY DEF SafeInv, AttachInv, ShutdownSteps
  <2>4. \A m \in Modules : Uses(t, m) => m \notin gone
    BY DEF SafeInv, LoadInv
  <2>5. m_modules' \subseteq Modules
    BY SafeInvNext DEF SafeInv, TypeOK
  <2>6. m_modules' \cap gone = {}
    BY <2>1, <2>4, <2>5 DEF ModulesStep
  <2>7. CASE pc[t] = "unload_remove"
    <3>1. m_modules' \subseteq m_modules \ {arg[t]} /\ gone' \subseteq gone \cup {arg[t]}
      BY <2>1, <2>2, <2>7 DEF ModulesStep, LoadStep
    <3> QED
      BY <2>6, <3>1
  <2>8. CASE pc[t] # "unload_remove"
    BY <2>2, <2>6, <2>8 DEF LoadStep
  <2> QED
    BY <2>7, <2>8
<1>2. CASE RejitStep
  <2>1. UNCHANGED <<is_attached, gone>>
    BY <1>2, RejitFrame DEF SafeInv, corVars
  <2>2. \A m \in m_modules' : \/ m \in m_modules
                              \/ /\ pc[Rejit] \in ProcSteps
                                 /\ \E p \in work[Rejit] : ModuleOf(p) = m
    BY <1>2, RejitModules DEF SafeInv
  <2> QED
    BY <2>1, <2>2 DEF SafeInv, LoadInv, RejitLoadInv
<1>3. CASE UNCHANGED vars
  BY <1>3 DEF vars, corVars, handlerVars, clrVars
<1> QED
  BY <1>1, <1>2, <1>3 DEF Next

\* A module that is gone has no RejitHandlerModule, and no method, replacement or mark in
\* one: RemoveModule comes after every GetOrAddModule and GetOrAddMethod for it, and what
\* is unloaded after the profiler was detached goes with RejitHandler::Shutdown.
THEOREM NoModuleIsStale == Spec => []NoStaleModules
<1> DEFINE Attached == is_attached => m_modules \cap gone = {}
<1>1. Init => KeptInv /\ EndInv /\ Attached
  BY ConstantsAssumption DEF Init, KeptInv, EndInv, JoinedSteps, Threads
<1>2. SafeInv /\ KeptInv /\ EndInv /\ Attached => NoStaleModules
  <2> SUFFICES ASSUME SafeInv, KeptInv, EndInv, Attached, is_attached \/ m_shutdown
               PROVE  /\ m_modules \cap gone = {}
                      /\ \A p \in m_methods \cup m_replaced : ModuleOf(p) \notin gone
                      /\ \A d \in ngenDone : ModuleOf(d[2]) \notin gone
    BY DEF NoStaleModules
  <2>1. m_modules \cap gone = {}
    BY DEF EndInv
  <2>2. m_replaced \subseteq m_methods
    BY DEF SafeInv, TypeOK
  <2> QED
    BY <2>1, <2>2 DEF KeptInv
<1>3. (SafeInv /\ KeptInv /\ EndInv /\ Attached) /\ [Next]_vars
        => (SafeInv /\ KeptInv /\ EndInv /\ Attached)'
  <2> SUFFICES ASSUME SafeInv, KeptInv, EndInv, Attached, [Next]_vars
               PROVE  (SafeInv /\ KeptInv /\ EndInv /\ Attached)'
    OBVIOUS
  <2>1. is_attached' => is_attached
    <3>1. ASSUME NEW t \in Callers, Callback(t) \/ CallerStep(t), is_attached' PROVE is_attached
      BY <3>1, AttachStep DEF SafeInv
    <3>2. CASE RejitStep
      BY <3>2, RejitFrame DEF SafeInv, corVars
    <3> QED
      BY <3>1, <3>2 DEF Next, vars, corVars
  <2>2. Attached'
    BY <2>1, ModulesGoneNext
  <2> QED
    BY <2>2, SafeInvNext, KeptInvNext
<1> QED
  BY <1>1, <1>2, <1>3, SafeInvInit, PTL DEF Spec

-----------------------------------------------------------------------------
(* The target methods are compiled again *)

\* A step loses no method that is on its way, but with the module or in Shutdown.
PlanStep(t) ==
    /\ Queued \subseteq Queued'
    /\ UNCHANGED <<requested, armed>>
    /\ \A p \in work[t] : p \in work'[t] \/ p \in m_replaced' \cap (Queued' \cup found'[t])
    /\ found[t] \subseteq Queued' \cup found'[t]
    /\ \A p \in m_replaced : \/ p \in m_replaced'
                             \/ ModuleOf(p) \notin loaded' /\ ModuleOf(p) \in gone'
                             \/ pc[t] = "sd_write"
    /\ \A p \in m_replaced' : p \in m_replaced \/ Uses(t, ModuleOf(p))
    /\ \/ UNCHANGED <<module_ids, integration_methods>>
       \/ InitWait(t)
       \/ LoadProcess(t)
       \/ ~rejit_handler

\* Every step of a runtime's thread is of this kind.
LEMMA PlanSteps ==
    ASSUME TypeOK, ArgInv, AliveInv, NEW t \in Callers, Callback(t) \/ CallerStep(t)
    PROVE  PlanStep(t)
<1>0. t \in Threads /\ t # Rejit
  BY ConstantsAssumption DEF Threads
<1>a. queue' = queue => Queued' = Queued
  BY DEF Queued
<1>b. queue \in Seq(Items)
  BY DEF TypeOK
<1>c. m_replaced' = m_replaced => \A p \in m_replaced' : p \in m_replaced \/ Uses(t, ModuleOf(p))
  OBVIOUS
<1> USE DEF TypeOK, Goto, PlanStep, corVars, handlerVars, queueVars, clrVars, localVars
<1>1. ASSUME NEW m \in Modules, ModuleLoadFinished(t, m) PROVE PlanStep(t)
  BY <1>0, <1>a, <1>1 DEF ModuleLoadFinished
<1>2. ASSUME NEW m \in Modules, ModuleUnloadStarted(t, m) PROVE PlanStep(t)
  BY <1>0, <1>a, <1>2 DEF ModuleUnloadStarted, Unload
<1>3. ASSUME NEW m \in Modules, JITCompilationStarted(t, m) PROVE PlanStep(t)
  BY <1>0, <1>a, <1>3 DEF JITCompilationStarted
<1>4. ASSUME NEW d \in Domains, AppDomainShutdownFinished(t, d) PROVE PlanStep(t)
  BY <1>0, <1>a, <1>4 DEF AppDomainShutdownFinished
<1>5. ASSUME NEW id \in Ids, InitializeProfiler(t, id) PROVE PlanStep(t)
  BY <1>0, <1>a, <1>5 DEF InitializeProfiler
<1>6. ASSUME NEW p \in Pairs, JITInlining(t, p) PROVE PlanStep(t)
  BY <1>0, <1>a, <1>6 DEF JITInlining
<1>7. ASSUME NEW p \in Pairs, GetReJITParameters(t, p) PROVE PlanStep(t)
  BY <1>0, <1>a, <1>7 DEF GetReJITParameters
<1>8. CASE Shutdown(t)
  BY <1>0, <1>a, <1>8 DEF Shutdown
<1>9. CASE LoadLock(t)
  BY <1>0, <1>a, <1>9 DEF LoadLock
<1>10. CASE AddNGenModule(t)
  BY <1>0, <1>a, <1>10 DEF AddNGenModule
<1>11. CASE LoadScan(t)
  <2>1. Queued \subseteq Queued'
    BY <1>11, ScanEffect DEF LoadScan, AddNGenModuleScan, ArgInv
  <2> QED
    BY <1>0, <1>11, <2>1 DEF LoadScan
<1>12. CASE LoadProcess(t)
  <2>1. work[t] = {}
    BY <1>0, <1>12 DEF LoadProcess, ArgInv, ProcSteps
  <2>2. Queued' = Queued /\ UNCHANGED <<requested, armed, found, m_replaced>>
    BY <1>a, <1>12 DEF LoadProcess
  <2> QED
    BY <1>12, <2>1, <2>2
<1>13. CASE UnloadLock(t)
  BY <1>0, <1>a, <1>13 DEF UnloadLock, Unload
<1>14. CASE UnloadRemove(t)
  BY <1>0, <1>a, <1>14 DEF UnloadRemove, Unload, RemoveModule, PairsOf
<1>15. CASE JitLock(t)
  BY <1>0, <1>a, <1>15 DEF JitLock
<1>16. CASE InitLock(t)
  BY <1>0, <1>a, <1>16 DEF InitLock
<1>17. CASE InitModule(t)
  <2>1. UNCHANGED <<requested, armed, work, found, m_replaced, module_ids>>
    BY <1>17 DEF InitModule
  <2>2. CASE rejit_handler
    <3> DEFINE item == ProcessItem(module_ids, Definitions[arg[t]], t)
    <3>1. arg[t] \in Ids
      BY <1>0, <1>17 DEF InitModule, ArgInv, InitSteps
    <3>2. item \in Items
      BY <3>1, ConstantsAssumption DEF Items, ProcessItems, ProcessItem
    <3>3. queue' = Append(queue, item) /\ integration_methods' = integration_methods
      BY <1>17, <2>2 DEF InitModule
    <3> HIDE DEF item
    <3>4. Queued \subseteq Queued'
      BY ONLY <1>b, <3>2, <3>3, QueueAppend
    <3> QED
      BY <2>1, <3>3, <3>4
  <2>3. CASE ~rejit_handler
    <3>1. Queued' = Queued
      BY <1>a, <1>17, <2>3 DEF InitModule
    <3> QED
      BY <2>1, <2>3, <3>1
  <2> QED
    BY <2>2, <2>3
<1>18. CASE InitWait(t)
  <2>1. Queued' = Queued /\ UNCHANGED <<requested, armed, work, found, m_replaced>>
    BY <1>a, <1>18 DEF InitWait
  <2> QED
    BY <1>18, <2>1
<1>19. CASE InliningCheck(t)
  BY <1>0, <1>a, <1>19 DEF InliningCheck
<1>20. CASE HasModuleAndMethod(t)
  BY <1>0, <1>a, <1>20 DEF HasModuleAndMethod
<1>21. CASE EnterHandler(t, "inl_shared", "inl_modules")
  BY <1>0, <1>a, <1>21 DEF EnterHandler
<1>22. CASE EnterHandler(t, "par_shared", "par_module")
  BY <1>0, <1>a, <1>22 DEF EnterHandler
<1>23. CASE ParametersModule(t)
  BY <1>0, <1>a, <1>23 DEF ParametersModule
<1>24. CASE ParametersMethod(t)
  BY <1>0, <1>a, <1>24 DEF ParametersMethod
<1>25. CASE ShutdownLock(t)
  <2>1. EndItem \in Items
    BY DEF Items
  <2>2. Queued \subseteq Queued'
    BY <1>b, <1>25, <2>1, QueueAppend DEF ShutdownLock
  <2> QED
    BY <1>0, <1>25, <2>2 DEF ShutdownLock
<1>26. CASE ShutdownWait(t)
  BY <1>0, <1>a, <1>26 DEF ShutdownWait
<1>27. CASE ShutdownWrite(t)
  BY <1>0, <1>a, <1>27 DEF ShutdownWrite
<1>28. CASE ShutdownDelete(t)
  BY <1>0, <1>a, <1>28 DEF ShutdownDelete
<1>29. CASE GetOrAddModule(t)
  BY <1>0, <1>a, <1>29 DEF GetOrAddModule
<1>30. CASE ProcessMethod(t)
  <2> DEFINE p == arg[t]
             last == work[t] = {p}
             item == RequestItem(found[t] \cup {p})
  <2>1. /\ ModuleOf(p) \in m_modules /\ pc[t] = "proc_method" /\ p \in work[t] /\ p \in Pairs
    BY <1>0, <1>30 DEF ProcessMethod, AliveInv, ArgInv
  <2>2. /\ m_replaced' = m_replaced \cup {p}
        /\ work'[t] = work[t] \ {p}
        /\ found'[t] = IF last THEN {} ELSE found[t] \cup {p}
        /\ queue' = IF last THEN Append(queue, item) ELSE queue
        /\ UNCHANGED <<requested, armed, module_ids, integration_methods>>
    BY <1>0, <1>30, <2>1 DEF ProcessMethod, GetOrAddMethod
  <2>3. item \in Items /\ item.type = 1 /\ item.pairs = found[t] \cup {p}
    BY <1>0, <2>1 DEF Items, RequestItems, RequestItem
  <2>4. Uses(t, ModuleOf(p))
    BY <2>1 DEF Uses, ProcSteps
  <2> HIDE DEF item, last, p
  <2>5. CASE last
    <3>1. Queued \subseteq Queued' /\ item.pairs \subseteq Queued'
      BY ONLY <1>b, <2>2, <2>3, <2>5, QueueAppend
    <3> QED
      BY <2>2, <2>3, <2>4, <2>5, <3>1
  <2>6. CASE ~last
    <3>1. Queued' = Queued
      BY <1>a, <2>2, <2>6
    <3> QED
      BY <2>2, <2>4, <2>6, <3>1
  <2> QED
    BY <2>5, <2>6
<1> QED
  BY <1>1, <1>2, <1>3, <1>4, <1>5, <1>6, <1>7, <1>8, <1>9, <1>10, <1>11, <1>12, <1>13, <1>14,
     <1>15, <1>16, <1>17, <1>18, <1>19, <1>20, <1>21, <1>22, <1>23, <1>24, <1>25, <1>26, <1>27,
     <1>28, <1>29, <1>30
     DEF Callback, CallerStep

\* The same for the rejit thread: what it takes from the queue or from its list it
\* requests, or keeps until it does.
LEMMA RejitKeeps ==
    ASSUME SafeInv, RejitStep, NEW p \in OnItsWay, ModuleOf(p) \in loaded
    PROVE  p \in OnItsWay'
<1>0. /\ Rejit \in Threads /\ Rejit \notin Callers /\ Threads = Callers \cup {Rejit}
      /\ TypeOK /\ ArgInv /\ AliveInv
  BY ConstantsAssumption DEF Threads, SafeInv
<1>1. \A u \in Callers : work'[u] = work[u] /\ found'[u] = found[u]
  BY <1>0, RejitFrame
<1>2. p \in Planned <=>
         \/ \E u \in Callers : p \in work[u]
         \/ p \in work[Rejit]
         \/ /\ p \in m_replaced
            /\ p \in Queued \/ p \in InHand \/ \E u \in Callers : p \in found[u]
  <2>1. p \in Working <=> (\E u \in Callers : p \in work[u]) \/ p \in work[Rejit]
    BY <1>0 DEF Working
  <2>2. p \in Found <=> (\E u \in Callers : p \in found[u]) \/ p \in InHand
    BY DEF Found
  <2> QED
    BY <2>1, <2>2 DEF Planned
<1>2a. p \in Planned' <=>
         \/ \E u \in Callers : p \in work'[u]
         \/ p \in work'[Rejit]
         \/ /\ p \in m_replaced'
            /\ p \in Queued' \/ p \in InHand' \/ \E u \in Callers : p \in found'[u]
  <2>1. p \in Working' <=> (\E u \in Callers : p \in work'[u]) \/ p \in work'[Rejit]
    BY <1>0 DEF Working
  <2>2. p \in Found' <=> (\E u \in Callers : p \in found'[u]) \/ p \in InHand'
    BY DEF Found
  <2> QED
    BY <2>1, <2>2 DEF Planned
<1>3. /\ armed \subseteq armed'
      /\ m_replaced \subseteq m_replaced'
      /\ p \in work[Rejit] => p \in work'[Rejit] \/ (p \in m_replaced' /\ p \in InHand')
      /\ p \in m_replaced /\ (p \in Queued \/ p \in InHand) => p \in armed' \/ p \in Queued' \/ p \in InHand'
  <2> DEFINE Goal == /\ armed \subseteq armed'
                     /\ m_replaced \subseteq m_replaced'
                     /\ p \in work[Rejit] => p \in work'[Rejit] \/ (p \in m_replaced' /\ p \in InHand')
                     /\ p \in m_replaced /\ (p \in Queued \/ p \in InHand)
                          => p \in armed' \/ p \in Queued' \/ p \in InHand'
  <2>0. queue' = queue => Queued' = Queued
    BY DEF Queued
  <2> USE DEF handlerVars, queueVars, clrVars
  <2>a. DOMAIN pc = Threads /\ found \in [Threads -> SUBSET Pairs] /\ work \in [Threads -> SUBSET Pairs]
    BY <1>0 DEF TypeOK
  <2>1. CASE Pop
    <3>1. UNCHANGED <<armed, m_replaced>> /\ InHand = {} /\ work[Rejit] = {}
      BY <1>0, <2>1 DEF Pop, ArgInv, ProcSteps, InHand, RequestSteps
    <3>2. queue \in Seq(Items) /\ queue # <<>> /\ queue' = Tail(queue)
      BY <1>0, <2>1 DEF Pop, TypeOK
    <3>3. Queued \subseteq Queued' \cup (IF Head(queue).type = 1 THEN Head(queue).pairs ELSE {})
      BY ONLY <3>2, QueueTail
    <3>4. Head(queue).type = 1 => InHand' = Head(queue).pairs
      BY <1>0, <2>1, <2>a DEF Pop, Goto, InHand, RequestSteps
    <3> QED
      BY <3>1, <3>3, <3>4
  <2>2. CASE GetOrAddModule(Rejit)
    <3>1. UNCHANGED <<armed, m_replaced, work, found, queue>>
      BY <2>2 DEF GetOrAddModule
    <3>2. pc[Rejit] \in RequestSteps /\ pc'[Rejit] \in RequestSteps
      BY <1>0, <2>2, <2>a DEF GetOrAddModule, Goto, RequestSteps
    <3> QED
      BY <2>0, <3>1, <3>2 DEF InHand
  <2>3. CASE ProcessMethod(Rejit)
    <3>1. ModuleOf(arg[Rejit]) \in m_modules
      BY <1>0, <2>3 DEF ProcessMethod, AliveInv
    <3>2. /\ m_replaced' = m_replaced \cup {arg[Rejit]}
          /\ work'[Rejit] = work[Rejit] \ {arg[Rejit]}
          /\ found'[Rejit] = found[Rejit] \cup {arg[Rejit]}
          /\ queue' = queue /\ armed' = armed
          /\ pc'[Rejit] \in RequestSteps /\ pc[Rejit] \in RequestSteps
      BY <1>0, <2>3, <2>a, <3>1 DEF ProcessMethod, GetOrAddMethod, Goto, RequestSteps
    <3>3. InHand' = InHand \cup {arg[Rejit]} /\ Queued' = Queued
      BY <2>0, <3>2 DEF InHand
    <3> QED
      BY <3>2, <3>3
  <2>4. CASE RequestRejit
    <3>1. /\ Queued' = Queued /\ UNCHANGED <<m_replaced, work>> /\ InHand = found[Rejit]
          /\ armed' = armed \cup ({q \in found[Rejit] : ModuleOf(q) \in loaded} \cap m_replaced)
      BY <2>0, <2>4 DEF RequestRejit, InHand, RequestSteps
    <3> QED
      BY <3>1
  <2>5. CASE RequestRejitForNGenInliners
    <3>1. Queued' = Queued /\ UNCHANGED <<armed, m_replaced, work>> /\ InHand = {}
      BY <2>0, <2>5 DEF RequestRejitForNGenInliners, InHand, RequestSteps
    <3> QED
      BY <3>1
  <2>6. CASE ScanNGenModule
    <3>1. Queued \subseteq Queued'
      BY <1>0, <2>6, ScanEffect DEF ScanNGenModule, TypeOK
    <3>2. UNCHANGED <<armed, m_replaced, work>> /\ InHand = {}
      BY <2>6 DEF ScanNGenModule, InHand, RequestSteps
    <3> QED
      BY <3>1, <3>2
  <2> QED
    BY <2>1, <2>2, <2>3, <2>4, <2>5, <2>6 DEF RejitStep
<1> QED
  BY <1>1, <1>2, <1>2a, <1>3 DEF OnItsWay

\* And for a runtime's thread, as long as the profiler is attached.
LEMMA CallerKeeps ==
    ASSUME SafeInv, is_attached', NEW t \in Callers, Callback(t) \/ CallerStep(t),
           NEW p \in OnItsWay, ModuleOf(p) \in loaded'
    PROVE  p \in OnItsWay'
<1>0. /\ t \in Threads /\ Rejit \in Threads /\ Rejit \notin Callers /\ Threads = Callers \cup {Rejit}
      /\ TypeOK /\ ArgInv /\ AliveInv
  BY ConstantsAssumption DEF Threads, SafeInv
<1>1. /\ \A u \in Threads : u # t => pc'[u] = pc[u] /\ work'[u] = work[u] /\ found'[u] = found[u]
  BY <1>0, CallerFrame
<1>2. PlanStep(t)
  BY <1>0, PlanSteps
<1>3. p \in m_replaced => p \in m_replaced'
  <2>1. is_attached
    BY <1>0, AttachStep
  <2>2. pc[t] # "sd_write"
    BY <2>1 DEF SafeInv, AttachInv, ShutdownSteps
  <2> QED
    BY <1>2, <2>2 DEF PlanStep
<1>4. p \in Planned <=>
         \/ \E u \in Callers : p \in work[u]
         \/ p \in work[Rejit]
         \/ /\ p \in m_replaced
            /\ p \in Queued \/ p \in InHand \/ \E u \in Callers : p \in found[u]
  <2>1. p \in Working <=> (\E u \in Callers : p \in work[u]) \/ p \in work[Rejit]
    BY <1>0 DEF Working
  <2>2. p \in Found <=> (\E u \in Callers : p \in found[u]) \/ p \in InHand
    BY DEF Found
  <2> QED
    BY <2>1, <2>2 DEF Planned
<1>5. p \in Planned' <=>
         \/ \E u \in Callers : p \in work'[u]
         \/ p \in work'[Rejit]
         \/ /\ p \in m_replaced'
            /\ p \in Queued' \/ p \in InHand' \/ \E u \in Callers : p \in found'[u]
  <2>1. p \in Working' <=> (\E u \in Callers : p \in work'[u]) \/ p \in work'[Rejit]
    BY <1>0 DEF Working
  <2>2. p \in Found' <=> (\E u \in Callers : p \in found'[u]) \/ p \in InHand'
    BY DEF Found
  <2> QED
    BY <2>1, <2>2 DEF Planned
<1>6. InHand' = InHand
  BY <1>0, <1>1 DEF InHand
<1> QED
  BY <1>0, <1>1, <1>2, <1>3, <1>4, <1>5, <1>6 DEF PlanStep, OnItsWay

-----------------------------------------------------------------------------
(* No target method is missed *)

\* What a target method of a loaded module is.
LEMMA TargetsDef ==
    ASSUME NEW integrations, NEW modules, NEW p
    PROVE  p \in Targets(integrations, modules) <=>
             (\E x \in integrations : p \in Matches[x]) /\ ModuleOf(p) \in modules
BY DEF Targets

\* Modules are loaded and integrations arrive in any order: the target methods are found
\* when the module comes (LoadProcess) or when the promise is made (Pop), because each
\* looks at the other's list under the module lock.
LEMMA PairsInvNext ==
    ASSUME SafeInv, PairsInv, [Next]_vars
    PROVE  PairsInv'
<1>0. /\ Rejit \in Threads /\ Rejit \notin Callers /\ Threads = Callers \cup {Rejit}
      /\ None \notin Callers
      /\ TypeOK /\ ArgInv /\ LockInv /\ AttachInv /\ LoadInv /\ PromiseInv /\ AliveInv
  BY ConstantsAssumption DEF Threads, SafeInv
<1>1. ASSUME NEW t \in Callers, Callback(t) \/ CallerStep(t), is_attached' PROVE PairsInv'
  <2>1. is_attached /\ rejit_handler
    BY <1>0, <1>1, AttachStep DEF AttachInv
  <2>2. PlanStep(t)
    BY <1>0, <1>1, PlanSteps
  <2>3. LoadStep(t)
    BY <1>0, <1>1, LoadSteps DEF LoadInv
  <2>4. \A p \in OnItsWay : ModuleOf(p) \in loaded' => p \in OnItsWay'
    BY <1>1, CallerKeeps
  <2>5. module_ids \cap loaded' \subseteq module_ids \cap loaded
    BY <1>0, <2>3 DEF LoadStep, LoadInv
  <2>6. /\ \A u \in Callers : u # t => pc'[u] = pc[u] /\ arg'[u] = arg[u]
        /\ reply' = reply
    BY <1>0, <1>1, CallerFrame
  <2>7. ASSUME NEW p \in Targets(integration_methods, module_ids \cap loaded') PROVE p \in OnItsWay'
    <3>1. ModuleOf(p) \in loaded' /\ p \in Targets(integration_methods, module_ids \cap loaded)
      BY <2>5, TargetsDef
    <3> QED
      BY <2>1, <2>4, <3>1 DEF PairsInv
  <2>8. Targets(integration_methods', module_ids' \cap loaded') \subseteq OnItsWay'
    <3>1. CASE UNCHANGED <<module_ids, integration_methods>>
      BY <2>7, <3>1
    <3>2. CASE InitWait(t)
      <4>1. /\ t \in resolved /\ module_ids' = module_ids /\ loaded' = loaded
            /\ integration_methods' = integration_methods \cup Definitions[arg[t]]
        BY <3>2 DEF InitWait, clrVars
      <4>2. ASSUME NEW p \in Targets(integration_methods', module_ids' \cap loaded')
            PROVE  p \in OnItsWay'
        <5>1. \/ p \in Targets(integration_methods, module_ids \cap loaded')
              \/ p \in Targets(Definitions[arg[t]], module_ids \cap loaded)
          BY <4>1, <4>2, TargetsDef
        <5>2. ModuleOf(p) \in loaded'
          BY <4>2, TargetsDef
        <5> QED
          BY <2>1, <2>4, <2>7, <4>1, <5>1, <5>2 DEF PairsInv
      <4> QED
        BY <4>2
    <3>3. CASE LoadProcess(t)
      <4> DEFINE m == arg[t]
      <4>1. /\ integration_methods' = integration_methods /\ loaded' = loaded
            /\ module_ids' = IF m \in Instrumentable THEN module_ids \cup {m} ELSE module_ids
            /\ m \in Instrumentable => work'[t] = Targets(integration_methods, {m})
        BY <1>0, <2>1, <3>3 DEF LoadProcess, clrVars, TypeOK
      <4>2. work'[t] \subseteq OnItsWay'
        BY <1>0 DEF OnItsWay, Planned, Working
      <4>3. ASSUME NEW p \in Targets(integration_methods', module_ids' \cap loaded')
            PROVE  p \in OnItsWay'
        <5>1. \/ p \in Targets(integration_methods, module_ids \cap loaded')
              \/ m \in Instrumentable /\ p \in Targets(integration_methods, {m})
          BY <4>1, <4>3, TargetsDef
        <5> QED
          BY <2>7, <4>1, <4>2, <5>1
      <4> QED
        BY <4>3
    <3> QED
      BY <2>1, <2>2, <3>1, <3>2, <3>3 DEF PlanStep
  <2>9. ASSUME NEW u \in Callers, u = reply' \/ u \in resolved'
        PROVE  Targets(Definitions[arg'[u]], module_ids' \cap loaded') \subseteq OnItsWay'
    <3>1. u = reply \/ u \in resolved
      <4>1. resolved' \subseteq resolved
        BY <1>0, <1>1, PromiseSteps DEF PromiseStep, InitWait, InitModule
      <4> QED
        BY <2>6, <2>9, <4>1
    <3>2. pc[u] = "init_wait"
      BY <1>0, <3>1 DEF PromiseInv, TypeOK
    <3>3. u # t /\ module_ids' = module_ids
      <4>1. CASE PromiseStep(t)
        <5>1. {"init_wait", "load_process"} \subseteq ModuleLocked
          BY DEF ModuleLocked
        <5> QED
          BY <1>0, <3>2, <4>1, <5>1 DEF PromiseStep, LockInv
      <4>2. CASE InitWait(t)
        <5>1. t \in resolved /\ t \notin resolved' /\ module_ids' = module_ids
          BY <4>2 DEF InitWait
        <5> QED
          BY <1>0, <2>6, <2>9, <5>1 DEF PromiseInv
      <4>3. CASE InitModule(t)
        BY <3>2, <4>3 DEF InitModule
      <4> QED
        BY <1>0, <1>1, <4>1, <4>2, <4>3, PromiseSteps
    <3>4. arg'[u] = arg[u]
      BY <2>6, <3>3
    <3>5. ASSUME NEW p \in Targets(Definitions[arg[u]], module_ids \cap loaded') PROVE p \in OnItsWay'
      <4>1. ModuleOf(p) \in loaded' /\ p \in Targets(Definitions[arg[u]], module_ids \cap loaded)
        BY <2>5, TargetsDef
      <4> QED
        BY <2>1, <2>4, <3>1, <4>1 DEF PairsInv
    <3> QED
      BY <3>3, <3>4, <3>5
  <2> QED
    BY <2>8, <2>9 DEF PairsInv
<1>2. ASSUME RejitStep, is_attached' PROVE PairsInv'
  <2>1. /\ \A u \in Callers : arg'[u] = arg[u]
        /\ UNCHANGED <<integration_methods, module_ids, loaded, is_attached>>
    BY <1>0, <1>2, RejitFrame DEF corVars
  <2>2. \A p \in OnItsWay : ModuleOf(p) \in loaded => p \in OnItsWay'
    BY <1>2, RejitKeeps
  <2>3. \A i : Targets(i, module_ids \cap loaded) \subseteq OnItsWay
          => Targets(i, module_ids \cap loaded) \subseteq OnItsWay'
    BY <2>2, TargetsDef
  <2>4. ASSUME NEW u \in Callers, u = reply' \/ u \in resolved'
        PROVE  Targets(Definitions[arg[u]], module_ids \cap loaded) \subseteq OnItsWay'
    <3>1. CASE u = reply \/ u \in resolved
      BY <1>2, <2>1, <2>3, <3>1 DEF PairsInv
    <3>2. CASE ~(u = reply \/ u \in resolved)
      <4>1. Pop
        BY <1>0, <1>2, <2>4, <3>2, RejitPromise
      <4>2. Head(queue).type = 2 /\ u = Head(queue).promise
        <5>1. CASE Head(queue).type = 2
          BY <1>0, <2>4, <3>2, <4>1, <5>1, PopProcess
        <5>2. CASE Head(queue).type # 2
          BY <2>4, <3>2, <4>1, <5>2 DEF Pop
        <5> QED
          BY <5>1, <5>2
      <4>3. /\ Head(queue).modules = module_ids
            /\ Head(queue).integrations = Definitions[arg[u]]
        <5>1. queue \in Seq(Items) /\ queue # <<>> /\ queue' = Tail(queue)
          BY <1>0, <4>1 DEF Pop, TypeOK
        <5>2. 1 \in DOMAIN queue /\ Head(queue) = queue[1]
          BY ONLY <5>1, QueueTail
        <5> QED
          BY <1>0, <4>2, <5>2 DEF PromiseInv
      <4> DEFINE targets == Targets(Head(queue).integrations, Head(queue).modules \cap loaded)
                 nothing == Head(queue).modules = {} \/ Head(queue).integrations = {}
      <4>4. /\ work' = [work EXCEPT ![Rejit] = IF nothing THEN {} ELSE targets]
            /\ reply' = IF nothing \/ targets = {} THEN None ELSE u
            /\ resolved' = IF ~nothing /\ targets = {} THEN resolved \cup {u} ELSE resolved
        BY <4>1, <4>2, PopProcess
      <4>5. targets = Targets(Definitions[arg[u]], module_ids \cap loaded)
        BY <4>3
      <4> HIDE DEF targets, nothing
      <4>6. ~nothing
        BY <1>0, <2>4, <3>2, <4>4
      <4>7. targets \subseteq work'[Rejit]
        BY <1>0, <4>4, <4>6 DEF TypeOK
      <4>8. work'[Rejit] \subseteq OnItsWay'
        BY <1>0 DEF OnItsWay, Planned, Working
      <4> QED
        BY <4>5, <4>7, <4>8
    <3> QED
      BY <3>1, <3>2
  <2>5. Targets(integration_methods, module_ids \cap loaded) \subseteq OnItsWay'
    BY <1>2, <2>1, <2>3 DEF PairsInv
  <2> QED
    BY <2>1, <2>4, <2>5 DEF PairsInv
<1>3. CASE UNCHANGED vars
  <2>1. /\ UNCHANGED <<is_attached, integration_methods, module_ids, loaded, armed, reply, resolved, arg>>
        /\ UNCHANGED <<work, found, pc, m_replaced, queue>>
    BY <1>3 DEF vars, corVars, handlerVars, queueVars, clrVars, localVars
  <2>2. OnItsWay' = OnItsWay
    BY <2>1 DEF OnItsWay, Planned, Working, Found, InHand, Queued
  <2> QED
    BY <2>1, <2>2 DEF PairsInv
<1> QED
  BY <1>1, <1>2, <1>3 DEF Next, PairsInv

\* Whatever the order in which modules are loaded (ModuleLoadFinished) and integrations
\* arrive (InitializeProfiler), no target method of a loaded module is missed: each has
\* been requested with its replacement registered, or is on its way to RequestReJIT.
THEOREM TargetsAreCovered == Spec => []PairsCovered
<1>1. Init => PairsInv
  BY DEF Init, PairsInv, Targets
<1>2. PairsInv => PairsCovered
  <2>1. Planned \subseteq Covered
    <3>0. Rejit \in Threads /\ Callers \subseteq Threads
      BY DEF Threads
    <3>1. \A p \in Working : p \in InProgress
      BY DEF Working, InProgress
    <3>2. \A p \in Found : p \in InProgress
      BY <3>0 DEF Found, InHand, InProgress
    <3> QED
      BY <3>1, <3>2 DEF Planned, Covered
  <2> QED
    BY <2>1 DEF PairsInv, PairsCovered, OnItsWay
<1>3. (SafeInv /\ PairsInv) /\ [Next]_vars => (SafeInv /\ PairsInv)'
  BY SafeInvNext, PairsInvNext
<1> QED
  BY <1>1, <1>2, <1>3, SafeInvInit, PTL DEF Spec

-----------------------------------------------------------------------------
(* The methods of native images that inline a target method *)

\* Who goes through a native image: it is new, or AddNGenModule is at its methods.
NgenStep(t) ==
    /\ \/ /\ m_ngenModules' = m_ngenModules /\ pc[t] # "ngen_scan"
          /\ ngenDone' \subseteq ngenDone /\ UNCHANGED lookupVars
       \/ AddNGenModule(t)
       \/ LoadScan(t)

\* Every step of a runtime's thread is of this kind.
LEMMA NgenSteps ==
    ASSUME TypeOK, NEW t \in Callers, Callback(t) \/ CallerStep(t)
    PROVE  NgenStep(t)
<1> USE DEF NgenStep, handlerVars, clrVars
<1>1. ASSUME NEW m \in Modules, ModuleLoadFinished(t, m) PROVE NgenStep(t)
  BY <1>1 DEF ModuleLoadFinished
<1>2. ASSUME NEW m \in Modules, ModuleUnloadStarted(t, m) PROVE NgenStep(t)
  BY <1>2 DEF ModuleUnloadStarted, Unload
<1>3. ASSUME NEW m \in Modules, JITCompilationStarted(t, m) PROVE NgenStep(t)
  BY <1>3 DEF JITCompilationStarted
<1>4. ASSUME NEW d \in Domains, AppDomainShutdownFinished(t, d) PROVE NgenStep(t)
  BY <1>4 DEF AppDomainShutdownFinished
<1>5. ASSUME NEW id \in Ids, InitializeProfiler(t, id) PROVE NgenStep(t)
  BY <1>5 DEF InitializeProfiler
<1>6. ASSUME NEW p \in Pairs, JITInlining(t, p) PROVE NgenStep(t)
  BY <1>6 DEF JITInlining
<1>7. ASSUME NEW p \in Pairs, GetReJITParameters(t, p) PROVE NgenStep(t)
  BY <1>7 DEF GetReJITParameters
<1>8. CASE Shutdown(t)
  BY <1>8 DEF Shutdown
<1>9. CASE LoadLock(t)
  BY <1>9 DEF LoadLock
<1>10. CASE AddNGenModule(t)
  BY <1>10
<1>11. CASE LoadScan(t)
  BY <1>11
<1>12. CASE LoadProcess(t)
  BY <1>12 DEF LoadProcess
<1>13. CASE UnloadLock(t)
  BY <1>13 DEF UnloadLock, Unload
<1>14. CASE UnloadRemove(t)
  BY <1>14 DEF UnloadRemove, Unload, RemoveModule
<1>15. CASE JitLock(t)
  BY <1>15 DEF JitLock
<1>16. CASE InitLock(t)
  BY <1>16 DEF InitLock
<1>17. CASE InitModule(t)
  BY <1>17 DEF InitModule
<1>18. CASE InitWait(t)
  BY <1>18 DEF InitWait
<1>19. CASE InliningCheck(t)
  BY <1>19 DEF InliningCheck
<1>20. CASE HasModuleAndMethod(t)
  BY <1>20 DEF HasModuleAndMethod
<1>21. CASE EnterHandler(t, "inl_shared", "inl_modules")
  BY <1>21 DEF EnterHandler
<1>22. CASE EnterHandler(t, "par_shared", "par_module")
  BY <1>22 DEF EnterHandler
<1>23. CASE ParametersModule(t)
  BY <1>23 DEF ParametersModule
<1>24. CASE ParametersMethod(t)
  BY <1>24 DEF ParametersMethod
<1>25. CASE ShutdownLock(t)
  BY <1>25 DEF ShutdownLock
<1>26. CASE ShutdownWait(t)
  BY <1>26 DEF ShutdownWait
<1>27. CASE ShutdownWrite(t)
  BY <1>27 DEF ShutdownWrite
<1>28. CASE ShutdownDelete(t)
  BY <1>28 DEF ShutdownDelete
<1>29. CASE GetOrAddModule(t)
  BY <1>29 DEF GetOrAddModule
<1>30. CASE ProcessMethod(t)
  BY <1>30 DEF ProcessMethod
<1> QED
  BY <1>1, <1>2, <1>3, <1>4, <1>5, <1>6, <1>7, <1>8, <1>9, <1>10, <1>11, <1>12, <1>13, <1>14,
     <1>15, <1>16, <1>17, <1>18, <1>19, <1>20, <1>21, <1>22, <1>23, <1>24, <1>25, <1>26, <1>27,
     <1>28, <1>29, <1>30
     DEF Callback, CallerStep

\* A method of a loaded module that the rejit thread has been asked for stays asked for:
\* RequestRejit drops only the methods of modules that are gone.
LEMMA RejitWants ==
    ASSUME SafeInv, RejitStep, NEW q \in Wanted, ModuleOf(q) \in loaded
    PROVE  q \in Wanted'
<1>0. Rejit \in Threads /\ TypeOK /\ ArgInv /\ AliveInv
  BY DEF Threads, SafeInv
<1> DEFINE F == IF pc[Rejit] = "req_request" THEN found[Rejit] ELSE {}
           FP == IF pc'[Rejit] = "req_request" THEN found'[Rejit] ELSE {}
<1>1. requested \subseteq requested'
  BY DEF RejitStep, Pop, GetOrAddModule, ProcessMethod, RequestRejit,
         RequestRejitForNGenInliners, ScanNGenModule, clrVars
<1>2. q \in Queued => q \in Queued' \/ q \in FP
  <2>0. queue' = queue => Queued' = Queued
    BY DEF Queued
  <2>1. CASE Pop
    <3>1. queue \in Seq(Items) /\ queue # <<>> /\ queue' = Tail(queue)
      BY <1>0, <2>1 DEF Pop, TypeOK
    <3>2. Queued \subseteq Queued' \cup (IF Head(queue).type = 1 THEN Head(queue).pairs ELSE {})
      BY ONLY <3>1, QueueTail
    <3>3. Head(queue).type = 1 => FP = Head(queue).pairs
      BY <1>0, <2>1 DEF Pop, Goto, TypeOK
    <3> HIDE DEF F, FP
    <3> QED
      BY <3>2, <3>3
  <2>2. CASE ScanNGenModule
    <3>1. Queued \subseteq Queued'
      BY <1>0, <2>2, ScanEffect DEF ScanNGenModule, TypeOK
    <3> QED
      BY <3>1
  <2>3. CASE GetOrAddModule(Rejit) \/ ProcessMethod(Rejit) \/ RequestRejit \/ RequestRejitForNGenInliners
    <3>1. queue' = queue
      BY <2>3 DEF GetOrAddModule, ProcessMethod, RequestRejit, RequestRejitForNGenInliners, queueVars
    <3> QED
      BY <2>0, <3>1
  <2> QED
    BY <2>1, <2>2, <2>3 DEF RejitStep
<1>3. q \in F => q \in requested'
  <2> SUFFICES ASSUME pc[Rejit] = "req_request", q \in found[Rejit] PROVE q \in requested'
    OBVIOUS
  <2>1. RequestRejit
    BY DEF RejitStep, Pop, GetOrAddModule, ProcessMethod, RequestRejitForNGenInliners, ScanNGenModule
  <2> QED
    BY <2>1 DEF RequestRejit
<1> HIDE DEF F, FP
<1>4. q \in requested \/ q \in Queued \/ q \in F
  BY DEF Wanted, F
<1>5. q \in requested' \/ q \in Queued' \/ q \in FP
  BY <1>1, <1>2, <1>3, <1>4
<1> QED
  BY <1>5 DEF Wanted, FP

\* The two orders in which an image and a method can become known: AddNGenModule goes
\* through the methods that there are, RequestRejitForNGenInliners through the images,
\* and the marks of RejitHandlerModuleMethod::m_ngenModules are set only when the data
\* was complete.
LEMMA NgenInvNext ==
    ASSUME SafeInv, NgenInv, [Next]_vars
    PROVE  NgenInv'
<1>0. /\ Rejit \in Threads /\ Rejit \notin Callers /\ Threads = Callers \cup {Rejit}
      /\ TypeOK /\ ArgInv /\ AttachInv /\ LoadInv /\ RejitLoadInv /\ AliveInv
  BY ConstantsAssumption DEF Threads, SafeInv
<1>a. /\ m_ngenModules \subseteq NGenModules /\ scan \subseteq m_ngenModules
      /\ m_replaced \subseteq m_methods /\ m_methods \subseteq Pairs /\ armed \subseteq Pairs
  BY <1>0 DEF TypeOK
<1>1. ASSUME NEW t \in Callers, Callback(t) \/ CallerStep(t) PROVE NgenInv'
  <2>1. \A u \in Threads : u # t => pc'[u] = pc[u] /\ arg'[u] = arg[u] /\ found'[u] = found[u]
    BY <1>0, <1>1, CallerFrame
  <2>2. PlanStep(t)
    BY <1>0, <1>1, PlanSteps
  <2>3. LoadStep(t)
    BY <1>0, <1>1, LoadSteps DEF LoadInv
  <2>4. NgenStep(t)
    BY <1>0, <1>1, NgenSteps
  <2>5. \A m \in Modules : Uses(t, m) => m \in loaded
    BY <1>0 DEF LoadInv
  <2>6. scan' = scan /\ pc'[Rejit] = pc[Rejit]
    BY <1>0, <1>1, <2>1, CallerFrame
  <2>7. Wanted \subseteq Wanted' /\ Queued' \subseteq Wanted'
    <3>1. Queued \subseteq Queued' /\ requested' = requested
      BY <2>2 DEF PlanStep
    <3>2. pc'[Rejit] = pc[Rejit] /\ found'[Rejit] = found[Rejit]
      BY <1>0, <2>1
    <3> QED
      BY <3>1, <3>2 DEF Wanted
  <2>8. /\ loaded \cup gone \subseteq loaded' \cup gone'
        /\ gone \subseteq gone'
        /\ \A m \in loaded' : m \in loaded \/ m \notin loaded \cup gone
    BY <2>3 DEF LoadStep
  <2>9. CASE AddNGenModule(t)
    <3>1. /\ pc[t] = "ngen_add" /\ pc'[t] = "ngen_scan" /\ arg'[t] = arg[t]
          /\ m_ngenModules' = m_ngenModules \cup {arg[t]}
          /\ UNCHANGED <<ngenDone, loaded, gone, is_attached, armed, m_replaced, asked, told>>
      BY <1>0, <2>9 DEF AddNGenModule, Goto, TypeOK, clrVars, lookupVars, corVars
    <3>2. arg[t] \in loaded
      BY <1>0, <2>5, <3>1 DEF ArgInv, Uses, ModuleSteps
    <3>3. \A ng : (\E u \in Callers : pc[u] = "ngen_scan" /\ arg[u] = ng)
                     => \E u \in Callers : pc'[u] = "ngen_scan" /\ arg'[u] = ng
      BY <1>0, <2>1, <3>1
    <3>4. /\ m_ngenModules' \subseteq loaded' \cup gone'
          /\ \A q \in told' : ModuleOf(q) \in loaded' \cup gone' /\ (ModuleOf(q) \in loaded' => q \in Wanted')
          /\ \A d \in ngenDone' : d \in asked' /\ Inliners[d[1]][d[2]] \subseteq told'
      BY <2>7, <3>1, <3>2 DEF NgenInv
    <3>5. ASSUME is_attached, NEW ng \in m_ngenModules' \cap loaded', NEW p \in armed' \cap m_replaced'
          PROVE  \/ <<ng, p>> \in asked'
                 \/ pc'[Rejit] = "req_ngen"
                 \/ pc'[Rejit] = "req_scan" /\ ng \in scan'
                 \/ \E u \in Callers : pc'[u] = "ngen_scan" /\ arg'[u] = ng
      <4>1. CASE ng = arg[t]
        BY <3>1, <4>1
      <4>2. CASE ng \in m_ngenModules \cap loaded
        BY <2>6, <3>1, <3>3, <3>5, <4>2 DEF NgenInv
      <4> QED
        BY <3>1, <3>5, <4>1, <4>2
    <3> QED
      BY <3>1, <3>4, <3>5 DEF NgenInv
  <2>10. CASE LoadScan(t)
    <3>1. /\ pc[t] = "ngen_scan" /\ RequestRejitForInlinersInModule(arg[t])
          /\ UNCHANGED <<m_ngenModules, loaded, gone, is_attached, armed, m_replaced>>
      BY <2>10 DEF LoadScan, AddNGenModuleScan, corVars
    <3>2. arg[t] \in NGenModules /\ arg[t] \in loaded
      BY <1>0, <2>5, <3>1 DEF ArgInv, Uses, ModuleSteps
    <3>3. /\ asked \subseteq asked' /\ told \subseteq told'
          /\ \A p \in m_methods : <<arg[t], p>> \in ngenDone \/ <<arg[t], p>> \in asked'
          /\ \A q \in told' : q \in told \/ (q \in Queued' /\ ModuleOf(q) = arg[t])
          /\ \A d \in ngenDone' : d \in ngenDone \/ (d \in asked' /\ Inliners[d[1]][d[2]] \subseteq told')
      BY <1>0, <3>1, <3>2, ScanEffect
    <3>4. /\ m_ngenModules' \subseteq loaded' \cup gone'
          /\ \A d \in ngenDone' : d \in asked' /\ Inliners[d[1]][d[2]] \subseteq told'
      BY <3>1, <3>3 DEF NgenInv
    <3>5. \A q \in told' : ModuleOf(q) \in loaded' \cup gone' /\ (ModuleOf(q) \in loaded' => q \in Wanted')
      BY <2>7, <3>1, <3>2, <3>3 DEF NgenInv
    <3>6. ASSUME is_attached, NEW ng \in m_ngenModules' \cap loaded', NEW p \in armed' \cap m_replaced'
          PROVE  \/ <<ng, p>> \in asked'
                 \/ pc'[Rejit] = "req_ngen"
                 \/ pc'[Rejit] = "req_scan" /\ ng \in scan'
                 \/ \E u \in Callers : pc'[u] = "ngen_scan" /\ arg'[u] = ng
      <4>1. CASE ng = arg[t]
        <5>1. p \in m_methods
          BY <1>a, <3>1, <3>6
        <5> QED
          BY <3>3, <4>1, <5>1 DEF NgenInv
      <4>2. CASE ng # arg[t]
        <5>1. (\E u \in Callers : pc[u] = "ngen_scan" /\ arg[u] = ng)
                 => \E u \in Callers : pc'[u] = "ngen_scan" /\ arg'[u] = ng
          BY <1>0, <2>1, <4>2
        <5> QED
          BY <2>6, <3>1, <3>3, <3>6, <5>1 DEF NgenInv
      <4> QED
        BY <4>1, <4>2
    <3> QED
      BY <3>1, <3>4, <3>5, <3>6 DEF NgenInv
  <2>11. CASE /\ m_ngenModules' = m_ngenModules /\ pc[t] # "ngen_scan"
              /\ ngenDone' \subseteq ngenDone /\ UNCHANGED lookupVars
    <3>0. UNCHANGED <<asked, told>>
      BY <2>11 DEF lookupVars
    <3>1. is_attached' => is_attached
      BY <1>0, <1>1, AttachStep
    <3>2. pc[t] = "sd_write" => ~is_attached
      BY <1>0 DEF AttachInv, ShutdownSteps
    <3>3. \A ng : (\E u \in Callers : pc[u] = "ngen_scan" /\ arg[u] = ng)
                     => \E u \in Callers : pc'[u] = "ngen_scan" /\ arg'[u] = ng
      BY <1>0, <2>1, <2>11
    <3>4. /\ m_ngenModules' \subseteq loaded' \cup gone'
          /\ \A q \in told' : ModuleOf(q) \in loaded' \cup gone' /\ (ModuleOf(q) \in loaded' => q \in Wanted')
          /\ \A d \in ngenDone' : d \in asked' /\ Inliners[d[1]][d[2]] \subseteq told'
      BY <2>7, <2>8, <2>11, <3>0 DEF NgenInv
    <3>5. ASSUME is_attached PROVE \A p \in armed' : p \in m_replaced' \/ ModuleOf(p) \in gone'
      BY <2>2, <2>8, <3>2, <3>5 DEF PlanStep, NgenInv
    <3>6. ASSUME is_attached, NEW ng \in m_ngenModules' \cap loaded', NEW p \in armed' \cap m_replaced'
          PROVE  \/ <<ng, p>> \in asked'
                 \/ pc'[Rejit] = "req_ngen"
                 \/ pc'[Rejit] = "req_scan" /\ ng \in scan'
                 \/ \E u \in Callers : pc'[u] = "ngen_scan" /\ arg'[u] = ng
      <4>1. ng \in m_ngenModules \cap loaded
        BY <2>8, <2>11, <3>6 DEF NgenInv
      <4>2. p \in armed
        BY <2>2, <3>6 DEF PlanStep
      <4>3. p \in m_replaced
        <5>1. ModuleOf(p) \in Modules
          BY <1>a, <4>2 DEF Pairs, ModuleOf
        <5>2. Uses(t, ModuleOf(p)) => ModuleOf(p) \notin gone
          BY <1>0, <2>5, <5>1 DEF LoadInv
        <5> QED
          BY <2>2, <3>6, <4>2, <5>2 DEF PlanStep, NgenInv
      <4> QED
        BY <2>6, <3>0, <3>3, <3>6, <4>1, <4>2, <4>3 DEF NgenInv
    <3> QED
      BY <3>1, <3>4, <3>5, <3>6 DEF NgenInv
  <2> QED
    BY <2>4, <2>9, <2>10, <2>11 DEF NgenStep
<1>2. CASE RejitStep
  <2>1. /\ \A u \in Callers : pc'[u] = pc[u] /\ arg'[u] = arg[u]
        /\ UNCHANGED <<is_attached, m_ngenModules, loaded, gone>>
    BY <1>0, <1>2, RejitFrame DEF corVars
  <2>2. \A q \in Wanted : ModuleOf(q) \in loaded => q \in Wanted'
    BY <1>2, RejitWants
  <2>3. (\A ng : (\E u \in Callers : pc[u] = "ngen_scan" /\ arg[u] = ng)
                     => \E u \in Callers : pc'[u] = "ngen_scan" /\ arg'[u] = ng)
    BY <2>1
  <2>4. /\ m_replaced \subseteq m_replaced'
        /\ \A p \in m_replaced' : p \in m_replaced \/ ~is_attached \/ ModuleOf(p) \in loaded
    <3>1. CASE ProcessMethod(Rejit)
      <4>1. pc[Rejit] \in ProcSteps /\ arg[Rejit] \in work[Rejit]
        BY <1>0, <3>1 DEF ProcessMethod, ProcSteps, ArgInv
      <4>2. m_replaced' \in {m_replaced, m_replaced \cup {arg[Rejit]}}
        BY <3>1 DEF ProcessMethod, GetOrAddMethod
      <4> QED
        BY <1>0, <4>1, <4>2 DEF RejitLoadInv
    <3>2. CASE ~ProcessMethod(Rejit)
      <4>1. m_replaced' = m_replaced
        BY <1>2, <3>2 DEF RejitStep, Pop, GetOrAddModule, RequestRejit,
                          RequestRejitForNGenInliners, ScanNGenModule, handlerVars
      <4> QED
        BY <4>1
    <3> QED
      BY <3>1, <3>2
  <2>5. \A p \in armed' : p \in armed \/ p \in m_replaced
    BY <1>2 DEF RejitStep, Pop, GetOrAddModule, ProcessMethod, RequestRejit,
                RequestRejitForNGenInliners, ScanNGenModule, clrVars
  <2>6. ASSUME is_attached PROVE \A p \in armed' : p \in m_replaced' \/ ModuleOf(p) \in gone'
    BY <2>1, <2>4, <2>5, <2>6 DEF NgenInv
  <2>7. CASE ~ScanNGenModule
    <3>1. UNCHANGED <<ngenDone, asked, told>>
      BY <1>2, <2>7 DEF RejitStep, Pop, GetOrAddModule, ProcessMethod, RequestRejit,
                        RequestRejitForNGenInliners, handlerVars, clrVars, lookupVars
    <3>2. /\ \A q \in told' : ModuleOf(q) \in loaded' \cup gone' /\ (ModuleOf(q) \in loaded' => q \in Wanted')
          /\ \A d \in ngenDone' : d \in asked' /\ Inliners[d[1]][d[2]] \subseteq told'
      BY <2>1, <2>2, <3>1 DEF NgenInv
    <3>3. ASSUME is_attached, NEW ng \in m_ngenModules \cap loaded, NEW p \in armed' \cap m_replaced'
          PROVE  \/ <<ng, p>> \in asked'
                 \/ pc'[Rejit] = "req_ngen"
                 \/ pc'[Rejit] = "req_scan" /\ ng \in scan'
                 \/ \E u \in Callers : pc'[u] = "ngen_scan" /\ arg'[u] = ng
      <4>0. DOMAIN pc = Threads
        BY <1>0 DEF TypeOK
      <4>1. CASE RequestRejit
        BY <1>0, <4>0, <4>1 DEF RequestRejit, Goto
      <4>2. CASE RequestRejitForNGenInliners
        BY <1>0, <3>3, <4>0, <4>2 DEF RequestRejitForNGenInliners, Goto
      <4>3. CASE Pop \/ GetOrAddModule(Rejit) \/ ProcessMethod(Rejit)
        <5>1. armed' = armed /\ pc[Rejit] \notin {"req_ngen", "req_scan"}
          BY <4>3 DEF Pop, GetOrAddModule, ProcessMethod, clrVars
        <5>2. p \in armed /\ p \in m_replaced
          <6>1. ModuleOf(p) \in loaded => ModuleOf(p) \notin gone
            BY <1>0 DEF LoadInv
          <6> QED
            BY <2>4, <3>3, <5>1, <6>1 DEF NgenInv
        <5>3. <<ng, p>> \in asked \/ \E u \in Callers : pc[u] = "ngen_scan" /\ arg[u] = ng
          BY <3>3, <5>1, <5>2 DEF NgenInv
        <5> QED
          BY <2>3, <3>1, <5>3
      <4> QED
        BY <1>2, <2>7, <4>1, <4>2, <4>3 DEF RejitStep
    <3> QED
      BY <2>1, <2>6, <3>2, <3>3 DEF NgenInv
  <2>8. CASE ScanNGenModule
    <3>1. PICK im \in scan : /\ RequestRejitForInlinersInModule(im)
                             /\ scan' = scan \ {im}
                             /\ \/ scan = {im}
                                \/ scan # {im} /\ pc' = pc
      BY <2>8 DEF ScanNGenModule
    <3>2. im \in NGenModules
      BY <1>a
    <3>3. /\ asked \subseteq asked' /\ told \subseteq told'
          /\ im \in loaded => \A p \in m_methods : <<im, p>> \in ngenDone \/ <<im, p>> \in asked'
          /\ \A q \in told' : q \in told \/ (q \in Queued' /\ ModuleOf(q) = im /\ im \in loaded)
          /\ \A d \in ngenDone' : d \in ngenDone \/ (d \in asked' /\ Inliners[d[1]][d[2]] \subseteq told')
      BY <1>0, <3>1, <3>2, ScanEffect
    <3>4. Queued' \subseteq Wanted' /\ UNCHANGED <<armed, m_replaced>> /\ pc[Rejit] = "req_scan"
      BY <2>8 DEF Wanted, ScanNGenModule
    <3>5. \A d \in ngenDone' : d \in asked' /\ Inliners[d[1]][d[2]] \subseteq told'
      BY <3>3 DEF NgenInv
    <3>6. \A q \in told' : ModuleOf(q) \in loaded' \cup gone' /\ (ModuleOf(q) \in loaded' => q \in Wanted')
      BY <2>1, <2>2, <3>3, <3>4 DEF NgenInv
    <3>7. ASSUME is_attached, NEW ng \in m_ngenModules \cap loaded, NEW p \in armed \cap m_replaced
          PROVE  \/ <<ng, p>> \in asked'
                 \/ pc'[Rejit] = "req_scan" /\ ng \in scan'
                 \/ \E u \in Callers : pc'[u] = "ngen_scan" /\ arg'[u] = ng
      <4>1. CASE ng = im
        <5>1. p \in m_methods /\ im \in loaded
          BY <1>a, <3>7, <4>1
        <5> QED
          BY <3>3, <4>1, <5>1 DEF NgenInv
      <4>2. CASE ng # im
        <5>1. \/ <<ng, p>> \in asked
              \/ ng \in scan
              \/ \E u \in Callers : pc[u] = "ngen_scan" /\ arg[u] = ng
          BY <3>4, <3>7 DEF NgenInv
        <5> QED
          BY <2>3, <3>1, <3>3, <3>4, <4>2, <5>1
      <4> QED
        BY <4>1, <4>2
    <3> QED
      BY <2>1, <2>6, <3>4, <3>5, <3>6, <3>7 DEF NgenInv
  <2> QED
    BY <2>7, <2>8
<1>3. CASE UNCHANGED vars
  <2>1. /\ UNCHANGED <<is_attached, m_ngenModules, ngenDone, loaded, gone, armed, m_replaced>>
        /\ UNCHANGED <<requested, queue, found, pc, scan, arg, asked, told>>
    BY <1>3 DEF vars, corVars, handlerVars, queueVars, clrVars, lookupVars, localVars
  <2>2. Wanted' = Wanted
    BY <2>1 DEF Wanted, Queued
  <2> QED
    BY <2>1, <2>2 DEF NgenInv
<1> QED
  BY <1>1, <1>2, <1>3 DEF Next

\* A method in a native image that inlines a target method is compiled again as well, as
\* far as the runtime tells, and whichever of the two becomes known first: the inliners
\* that it has named are requested or on their way, a mark is set only when it has named
\* all, and each target has been looked up in each image, or somebody has still to go
\* through this image.
THEOREM InlinersAreCovered == Spec => []NgenCovered
<1>1. Init => NgenInv
  BY DEF Init, NgenInv
<1>2. NgenInv => NgenCovered
  <2>1. Wanted \subseteq requested \cup Covered
    BY DEF Wanted, Covered, InProgress, Threads
  <2>2. \A q, ng : q \in PairsOf(ng) => ModuleOf(q) = ng
    BY DEF PairsOf
  <2> QED
    BY <2>1, <2>2 DEF NgenInv, NgenCovered
<1>3. (SafeInv /\ NgenInv) /\ [Next]_vars => (SafeInv /\ NgenInv)'
  BY SafeInvNext, NgenInvNext
<1> QED
  BY <1>1, <1>2, <1>3, SafeInvInit, PTL DEF Spec
=============================================================================
