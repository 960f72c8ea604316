--------------------------- MODULE NativeProfiler ---------------------------
(***************************************************************************)
(* The native profiler in call target mode: the callbacks of CorProfiler   *)
(* that the runtime makes on its threads (modules loaded and unloaded,     *)
(* methods compiled, inlined or compiled again, shutdown), the call        *)
(* InitializeProfiler from managed code, and RejitHandler with its thread, *)
(* which asks the runtime to compile the target methods again.             *)
(*                                                                         *)
(* pc[t] names the next step of thread t, and with it the locks that t     *)
(* holds.  A step ends where the code waits for a lock or for another      *)
(* thread, and where it releases what others may wait for.  Two locks are  *)
(* left out: m_methods_lock and m_ngenModulesLock are taken last and held  *)
(* inside one step.  A thread that holds the shutdown lock may take it     *)
(* again, as the code does.                                                *)
(***************************************************************************)
EXTENDS Integers, Sequences, FiniteSets, SequencesExt

CONSTANTS
    Callers,           \* threads of the runtime
    Rejit,             \* the thread of EnqueueThreadLoop
    Modules,           \* ModuleIDs; each is loaded at most once
    MethodDefs,        \* method tokens
    NGenModules,       \* modules with native images
    Instrumentable,    \* modules that ModuleLoadFinished does not skip
    DomainOf,          \* the AppDomain of a module
    Definitions,       \* InitializeProfiler: id -> set of integrations
    Matches,           \* integration -> the methods that it targets
    Inliners,          \* native image -> method -> methods of the image that inline it
    JitDuringShutdown, \* TRUE: Shutdown may run during a JIT callback
    None

Pairs == Modules \X MethodDefs
Domains == {DomainOf[m] : m \in Modules}
Ids == DOMAIN Definitions
Integrations == DOMAIN Matches
Threads == Callers \cup {Rejit}

ASSUME ConstantsAssumption ==
    /\ Rejit \notin Callers
    /\ None \notin Threads
    /\ NGenModules \subseteq Modules
    /\ Instrumentable \subseteq Modules
    /\ DOMAIN DomainOf = Modules
    /\ IsFiniteSet(Pairs)
    /\ \A id \in Ids : Definitions[id] \subseteq Integrations /\ Definitions[id] # {}
    /\ \A x \in Integrations : Matches[x] \subseteq Pairs
    /\ Inliners \in [NGenModules -> [Pairs -> SUBSET Pairs]]
    /\ \A ng \in NGenModules, p \in Pairs : \A q \in Inliners[ng][p] : q[1] = ng
    /\ JitDuringShutdown \in BOOLEAN

VARIABLES
    is_attached,         \* is_attached_
    rejit_handler,       \* TRUE: allocated; FALSE: deleted and nullptr
    module_ids,          \* module_ids_
    integration_methods, \* integration_methods_
    definitions_ids,     \* definitions_ids_
    first_jit,           \* first_jit_compilation_app_domains
    m_shutdown,          \* RejitHandler::m_shutdown
    m_modules,           \* keys of RejitHandler::m_modules
    m_methods,           \* keys of RejitHandlerModule::m_methods, with their module
    m_replaced,          \* the methods with a MethodReplacement
    m_ngenModules,       \* RejitHandler::m_ngenModules
    ngenDone,            \* RejitHandlerModuleMethod::m_ngenModules, with the method
    queue,               \* m_rejit_queue
    resolved,            \* the callers whose promise is set
    loaded, gone,        \* runtime: modules loaded, and unloaded
    hooked,              \* runtime: AppDomains where the startup hook was inserted
    requested,           \* runtime: methods of the RequestReJIT calls
    armed,               \* the ones requested when their replacement was known
    pending,             \* runtime: methods to be compiled again
    asked,               \* runtime: <<native image, method>> looked up so far
    told,                \* runtime: inliners named by the answers so far
    again,               \* TRUE: the last lookup named inliners and was incomplete
    pc, arg, work, found, \* locals of the threads
    scan, reply          \* locals of the rejit thread

corVars == <<is_attached, rejit_handler, module_ids, integration_methods,
             definitions_ids, first_jit>>
handlerVars == <<m_shutdown, m_modules, m_methods, m_replaced, m_ngenModules, ngenDone>>
queueVars == <<queue, resolved>>
lookupVars == <<asked, told, again>>
clrVars == <<loaded, gone, hooked, requested, armed, pending, lookupVars>>
localVars == <<pc, arg, work, found, scan, reply>>
vars == <<corVars, handlerVars, queueVars, clrVars, localVars>>

-----------------------------------------------------------------------------
(* Items of the queue *)

RequestItems == [type : {1}, pairs : SUBSET Pairs]
ProcessItems == [type : {2}, modules : SUBSET Modules,
                 integrations : SUBSET Integrations, promise : Callers]
EndItem == [type |-> -1]
Items == RequestItems \cup ProcessItems \cup {EndItem}

RequestItem(pairs) == [type |-> 1, pairs |-> pairs]
ProcessItem(modules, integrations, promise) ==
    [type |-> 2, modules |-> modules, integrations |-> integrations, promise |-> promise]

-----------------------------------------------------------------------------
(* The locks, by the steps in front of which they are held *)

\* module_id_to_info_map_lock_.  Wrong version: InitializeProfiler lets go of it to wait.
ModuleLockedVariant ==
    {"ngen_add", "ngen_scan", "load_process", "proc_module", "proc_method",
     "unload_remove", "sd_join", "sd_modules", "sd_ngen", "sd_write", "sd_delete"}
ModuleLocked ==
    {"ngen_add", "ngen_scan", "load_process", "proc_module", "proc_method",
     "unload_remove", "init_wait", "sd_join", "sd_modules", "sd_ngen", "sd_write",
     "sd_delete"}

\* definitions_ids_lock_
DefinitionsLocked == {"init_module", "init_wait"}

\* m_modules_lock, across steps: only Shutdown keeps it while it waits
ModulesLocked == {"sd_ngen", "sd_write"}

\* m_ngenModules_lock
NgenLocked == {"ngen_scan", "req_scan", "sd_write"}

\* m_shutdown_lock, shared; the holder of the exclusive lock needs one step
ShutdownShared ==
    {"ngen_scan", "proc_module", "proc_method", "req_request", "req_ngen", "req_scan",
     "inl_modules", "par_module", "par_method"}

Free(locked, threads) == \A t \in threads : pc[t] \notin locked

ModuleFree == Free(ModuleLocked, Callers)
DefinitionsFree == Free(DefinitionsLocked, Callers)
ModulesFree == Free(ModulesLocked, Threads)
NgenFree == Free(NgenLocked, Threads)

\* The callbacks that the just-in-time compiler makes
JitSteps == {"inl_check", "inl_shared", "inl_modules", "par_shared", "par_module", "par_method"}
ModuleSteps == {"load_lock", "ngen_add", "ngen_scan", "load_process", "jit_lock"}
UnloadSteps == {"unload_lock", "unload_remove"}
ShutdownSteps == {"sd_lock", "sd_join", "sd_modules", "sd_ngen", "sd_write", "sd_delete"}

ModuleOf(p) == p[1]
PairsOf(m) == {p \in Pairs : ModuleOf(p) = m}
Targets(integrations, modules) ==
    {p \in UNION {Matches[x] : x \in integrations} : ModuleOf(p) \in modules}

Goto(t, step) == pc' = [pc EXCEPT ![t] = step]
Unloading(m) == \E t \in Callers : pc[t] \in UnloadSteps /\ arg[t] = m

-----------------------------------------------------------------------------
(* RejitHandler *)

\* What the runtime may answer about the methods in todo: each has the inliners that
\* are enumerated, and complete has the methods whose data is not incomplete.  A lookup
\* that fails answers as one that enumerates nothing and is incomplete.
Answers(ng, todo, complete) ==
    {answer \in [todo -> SUBSET PairsOf(ng)] :
        \A p \in todo :
            /\ answer[p] \subseteq Inliners[ng][p]
            /\ p \in complete => answer[p] = Inliners[ng][p]}

\* RequestRejitForInlinersInModule, under m_modules_lock, for one native image: every
\* method not marked yet is looked up, the inliners that the runtime names are enqueued,
\* and it is marked unless its data is incomplete.  Wrong version: the mark is forgotten.
InlinersInModuleVariant(ng, answer, complete) ==
    LET s == SetToSeq({p \in DOMAIN answer : answer[p] # {}})
    IN  /\ queue' = queue \o [i \in DOMAIN s |-> RequestItem(answer[s[i]])]
        /\ UNCHANGED ngenDone
InlinersInModule(ng, answer, complete) ==
    LET s == SetToSeq({p \in DOMAIN answer : answer[p] # {}})
    IN  /\ queue' = queue \o [i \in DOMAIN s |-> RequestItem(answer[s[i]])]
        /\ ngenDone' = ngenDone \cup ({ng} \X complete)

\* EnumNgenModuleMethodsInliningThisMethod fails for a module that is gone.
RequestRejitForInlinersInModule(ng) ==
    LET todo == {p \in m_methods : ng \in loaded /\ <<ng, p>> \notin ngenDone}
    IN  \E complete \in SUBSET todo : \E answer \in Answers(ng, todo, complete) :
            /\ InlinersInModule(ng, answer, complete)
            /\ asked' = asked \cup ({ng} \X todo)
            /\ told' = told \cup UNION {answer[p] : p \in todo}
            /\ again' = \E p \in todo \ complete : answer[p] # {}

\* The part of ProcessModuleForRejit that takes m_modules_lock for one match.
GetOrAddModule(t) ==
    /\ pc[t] = "proc_module"
    /\ ModulesFree
    /\ \E p \in work[t] :
        /\ m_modules' = m_modules \cup {ModuleOf(p)}
        /\ arg' = [arg EXCEPT ![t] = p]
    /\ Goto(t, "proc_method")
    /\ UNCHANGED <<corVars, m_shutdown, m_methods, m_replaced, m_ngenModules, ngenDone,
                   queueVars, clrVars, work, found, scan, reply>>

\* GetOrAddMethod and SetMethodReplacement, on the module found by the step before.
\* After the last match the methods are enqueued, or requested by the rejit thread.
GetOrAddMethod(t) ==
    /\ m_methods' = m_methods \cup {arg[t]}
    /\ m_replaced' = m_replaced \cup {arg[t]}

\* The pointer that GetOrAddModule returned is of no use once the module is removed.
ProcessMethod(t) ==
    LET p == arg[t]
        last == work[t] = {p}
    IN  /\ pc[t] = "proc_method"
        /\ \/ /\ ModuleOf(p) \in m_modules
              /\ GetOrAddMethod(t)
              /\ work' = [work EXCEPT ![t] = @ \ {p}]
              /\ found' = [found EXCEPT ![t] = IF last /\ t # Rejit THEN {} ELSE @ \cup {p}]
              /\ arg' = [arg EXCEPT ![t] = None]
              /\ queue' = IF last /\ t # Rejit
                            THEN Append(queue, RequestItem(found[t] \cup {p}))
                            ELSE queue
              /\ Goto(t, IF ~last THEN "proc_module"
                         ELSE IF t = Rejit THEN "req_request" ELSE "idle")
           \/ /\ ModuleOf(p) \notin m_modules
              /\ Goto(t, "fault")
              /\ UNCHANGED <<m_methods, m_replaced, work, found, arg, queue>>
        /\ UNCHANGED <<corVars, m_shutdown, m_modules, m_ngenModules, ngenDone, resolved,
                       clrVars, scan, reply>>

-----------------------------------------------------------------------------
(* EnqueueThreadLoop *)

\* Wait for an item.  A list of modules or integrations that is empty is dropped, and
\* its promise with it.
Pop ==
    /\ pc[Rejit] = "pop"
    /\ queue # <<>>
    /\ LET item == Head(queue)
           targets == Targets(item.integrations, item.modules \cap loaded)
           empty == item.modules = {} \/ item.integrations = {}
       IN  \/ /\ item.type = -1
              /\ Goto(Rejit, "ended")
              /\ UNCHANGED <<work, found, reply, resolved>>
           \/ /\ item.type = 1
              /\ found' = [found EXCEPT ![Rejit] = item.pairs]
              /\ Goto(Rejit, "req_request")
              /\ UNCHANGED <<work, reply, resolved>>
           \/ /\ item.type = 2
              /\ work' = [work EXCEPT ![Rejit] = IF empty THEN {} ELSE targets]
              /\ reply' = IF empty \/ targets = {} THEN None ELSE item.promise
              /\ resolved' = IF ~empty /\ targets = {}
                               THEN resolved \cup {item.promise} ELSE resolved
              /\ Goto(Rejit, IF empty \/ targets = {} THEN "pop" ELSE "proc_module")
              /\ UNCHANGED found
    /\ queue' = Tail(queue)
    /\ UNCHANGED <<corVars, handlerVars, clrVars, arg, scan>>

\* RequestRejit: the runtime accepts the methods of the modules that are loaded.
RequestRejit ==
    LET accepted == {p \in found[Rejit] : ModuleOf(p) \in loaded}
    IN  /\ pc[Rejit] = "req_request"
        /\ requested' = requested \cup accepted
        /\ armed' = armed \cup (accepted \cap m_replaced)
        /\ pending' = pending \cup accepted
        /\ Goto(Rejit, "req_ngen")
        /\ UNCHANGED <<corVars, handlerVars, queueVars, loaded, gone, hooked, lookupVars,
                       arg, work, found, scan, reply>>

\* What is left of an item is a promise to resolve.
ItemDone ==
    /\ resolved' = IF reply = None THEN resolved ELSE resolved \cup {reply}
    /\ reply' = None
    /\ found' = [found EXCEPT ![Rejit] = {}]
    /\ Goto(Rejit, "pop")

\* RequestRejitForNGenInliners takes m_ngenModules_lock and goes through the images.
RequestRejitForNGenInliners ==
    /\ pc[Rejit] = "req_ngen"
    /\ NgenFree
    /\ scan' = m_ngenModules
    /\ \/ /\ m_ngenModules = {}
          /\ ItemDone
       \/ /\ m_ngenModules # {}
          /\ Goto(Rejit, "req_scan")
          /\ UNCHANGED <<resolved, reply, found>>
    /\ UNCHANGED <<corVars, handlerVars, queue, clrVars, arg, work>>

ScanNGenModule ==
    /\ pc[Rejit] = "req_scan"
    /\ ModulesFree
    /\ \E ng \in scan :
        /\ RequestRejitForInlinersInModule(ng)
        /\ scan' = scan \ {ng}
        /\ \/ /\ scan = {ng}
              /\ ItemDone
           \/ /\ scan # {ng}
              /\ UNCHANGED <<pc, resolved, reply, found>>
    /\ UNCHANGED <<corVars, m_shutdown, m_modules, m_methods, m_replaced, m_ngenModules,
                   loaded, gone, hooked, requested, armed, pending, arg, work>>

-----------------------------------------------------------------------------
(* ModuleLoadFinished *)

ModuleLoadFinished(t, m) ==
    /\ pc[t] = "idle"
    /\ m \notin loaded \cup gone
    /\ loaded' = loaded \cup {m}
    /\ \/ /\ is_attached
          /\ Goto(t, "load_lock")
          /\ arg' = [arg EXCEPT ![t] = m]
       \/ /\ ~is_attached
          /\ UNCHANGED <<pc, arg>>
    /\ UNCHANGED <<corVars, handlerVars, queueVars, gone, hooked, requested, armed, pending,
                   lookupVars, work, found, scan, reply>>

LoadLock(t) ==
    /\ pc[t] = "load_lock"
    /\ ModuleFree
    /\ Goto(t, IF ~is_attached THEN "idle"
               ELSE IF arg[t] \in NGenModules /\ rejit_handler THEN "ngen_add"
               ELSE "load_process")
    /\ arg' = IF is_attached THEN arg ELSE [arg EXCEPT ![t] = None]
    /\ UNCHANGED <<corVars, handlerVars, queueVars, clrVars, work, found, scan, reply>>

AddNGenModule(t) ==
    /\ pc[t] = "ngen_add"
    /\ NgenFree
    /\ m_ngenModules' = m_ngenModules \cup {arg[t]}
    /\ Goto(t, "ngen_scan")
    /\ UNCHANGED <<corVars, m_shutdown, m_modules, m_methods, m_replaced, ngenDone,
                   queueVars, clrVars, arg, work, found, scan, reply>>

\* The end of AddNGenModule.  Wrong version: the methods known already are not looked up.
AddNGenModuleScanVariant(t) ==
    UNCHANGED <<queue, ngenDone, lookupVars>>
AddNGenModuleScan(t) ==
    RequestRejitForInlinersInModule(arg[t])

LoadScan(t) ==
    /\ pc[t] = "ngen_scan"
    /\ ModulesFree
    /\ AddNGenModuleScan(t)
    /\ Goto(t, "load_process")
    /\ UNCHANGED <<corVars, m_shutdown, m_modules, m_methods, m_replaced, m_ngenModules,
                   resolved, loaded, gone, hooked, requested, armed, pending,
                   arg, work, found, scan, reply>>

\* The rest of ModuleLoadFinished, to the first match of ProcessModuleForRejit.
LoadProcess(t) ==
    LET m == arg[t]
        targets == IF rejit_handler /\ m \in Instrumentable
                     THEN Targets(integration_methods, {m}) ELSE {}
    IN  /\ pc[t] = "load_process"
        /\ module_ids' = IF m \in Instrumentable THEN module_ids \cup {m} ELSE module_ids
        /\ work' = [work EXCEPT ![t] = targets]
        /\ arg' = [arg EXCEPT ![t] = None]
        /\ Goto(t, IF targets = {} THEN "idle" ELSE "proc_module")
        /\ UNCHANGED <<is_attached, rejit_handler, integration_methods, definitions_ids,
                       first_jit, handlerVars, queueVars, clrVars, found, scan, reply>>

-----------------------------------------------------------------------------
(* ModuleUnloadStarted.  The runtime does not unload a module while it      *)
(* reports its load or compiles one of its methods again.                   *)

InUse(m) ==
    \E t \in Callers :
        \/ pc[t] \in ModuleSteps \cup UnloadSteps /\ arg[t] = m
        \/ pc[t] \in {"proc_module", "proc_method"}
             /\ \E p \in work[t] \cup found[t] : ModuleOf(p) = m
        \/ pc[t] \in JitSteps /\ ModuleOf(arg[t]) = m

Unload(m) ==
    /\ loaded' = loaded \ {m}
    /\ gone' = gone \cup {m}
    /\ pending' = pending \ PairsOf(m)
    /\ UNCHANGED <<hooked, requested, armed, lookupVars>>

ModuleUnloadStarted(t, m) ==
    /\ pc[t] = "idle"
    /\ m \in loaded
    /\ ~InUse(m)
    /\ \/ /\ is_attached
          /\ Goto(t, "unload_lock")
          /\ arg' = [arg EXCEPT ![t] = m]
          /\ UNCHANGED clrVars
       \/ /\ ~is_attached
          /\ Unload(m)
          /\ UNCHANGED <<pc, arg>>
    /\ UNCHANGED <<corVars, handlerVars, queueVars, work, found, scan, reply>>

UnloadLock(t) ==
    /\ pc[t] = "unload_lock"
    /\ ModuleFree
    /\ \/ /\ is_attached
          /\ Goto(t, "unload_remove")
          /\ UNCHANGED <<clrVars, arg>>
       \/ /\ ~is_attached
          /\ Unload(arg[t])
          /\ Goto(t, "idle")
          /\ arg' = [arg EXCEPT ![t] = None]
    /\ UNCHANGED <<corVars, handlerVars, queueVars, work, found, scan, reply>>

\* RemoveModule destroys the module with its methods.  Wrong version: the methods are
\* destroyed, and the module with what it knows of them stays.
RemoveModuleVariant(m) ==
    /\ m_methods' = m_methods \ PairsOf(m)
    /\ UNCHANGED <<m_modules, m_replaced, ngenDone>>
RemoveModule(m) ==
    /\ m_modules' = m_modules \ {m}
    /\ m_methods' = m_methods \ PairsOf(m)
    /\ m_replaced' = m_replaced \ PairsOf(m)
    /\ ngenDone' = {d \in ngenDone : ModuleOf(d[2]) # m}

UnloadRemove(t) ==
    /\ pc[t] = "unload_remove"
    /\ ModulesFree
    /\ RemoveModule(arg[t])
    /\ Unload(arg[t])
    /\ Goto(t, "idle")
    /\ arg' = [arg EXCEPT ![t] = None]
    /\ UNCHANGED <<corVars, m_shutdown, m_ngenModules, queueVars, work, found, scan, reply>>

-----------------------------------------------------------------------------
(* JITCompilationStarted and AppDomainShutdownFinished: the startup hook,   *)
(* whose managed code calls InitializeProfiler                              *)

JITCompilationStarted(t, m) ==
    /\ pc[t] = "idle"
    /\ m \in loaded
    /\ ~Unloading(m)
    /\ is_attached
    /\ Goto(t, "jit_lock")
    /\ arg' = [arg EXCEPT ![t] = m]
    /\ UNCHANGED <<corVars, handlerVars, queueVars, clrVars, work, found, scan, reply>>

\* The first method compiled in an AppDomain gets the hook.  The AppDomain is noted
\* before RunILStartupHook, which may fail.
\* Wrong version: any module will do.
HookableVariant(m) ==
    /\ is_attached
    /\ DomainOf[m] \notin first_jit
Hookable(m) ==
    /\ is_attached
    /\ m \in module_ids
    /\ DomainOf[m] \notin first_jit

JitLock(t) ==
    /\ pc[t] = "jit_lock"
    /\ ModuleFree
    /\ \/ /\ Hookable(arg[t])
          /\ first_jit' = first_jit \cup {DomainOf[arg[t]]}
          /\ hooked' \in {hooked, hooked \cup {DomainOf[arg[t]]}}
       \/ /\ ~Hookable(arg[t])
          /\ UNCHANGED <<first_jit, hooked>>
    /\ Goto(t, "idle")
    /\ arg' = [arg EXCEPT ![t] = None]
    /\ UNCHANGED <<is_attached, rejit_handler, module_ids, integration_methods,
                   definitions_ids, handlerVars, queueVars, loaded, gone, requested, armed,
                   pending, lookupVars, work, found, scan, reply>>

\* All of it is one step: it waits for module_id_to_info_map_lock_ and nothing else.
AppDomainShutdownFinished(t, d) ==
    /\ pc[t] = "idle"
    /\ \A m \in loaded : DomainOf[m] # d
    /\ d \in first_jit
    /\ is_attached
    /\ ModuleFree
    /\ first_jit' = first_jit \ {d}
    /\ hooked' = hooked \ {d}
    /\ UNCHANGED <<is_attached, rejit_handler, module_ids, integration_methods,
                   definitions_ids, handlerVars, queueVars, loaded, gone, requested, armed,
                   pending, lookupVars, localVars>>

-----------------------------------------------------------------------------
(* InitializeProfiler *)

InitializeProfiler(t, id) ==
    /\ pc[t] = "idle"
    /\ hooked # {}
    /\ Goto(t, "init_lock")
    /\ arg' = [arg EXCEPT ![t] = id]
    /\ UNCHANGED <<corVars, handlerVars, queueVars, clrVars, work, found, scan, reply>>

InitLock(t) ==
    LET skips == arg[t] \in definitions_ids \/ ~rejit_handler
    IN  /\ pc[t] = "init_lock"
        /\ DefinitionsFree
        /\ Goto(t, IF skips THEN "idle" ELSE "init_module")
        /\ arg' = IF skips THEN [arg EXCEPT ![t] = None] ELSE arg
        /\ UNCHANGED <<corVars, handlerVars, queueVars, clrVars, work, found, scan, reply>>

\* With the lock on the modules the handler is tested again, and EnqueueProcessModule
\* leaves a promise with the rejit thread.
InitModule(t) ==
    /\ pc[t] = "init_module"
    /\ ModuleFree
    /\ definitions_ids' = definitions_ids \cup {arg[t]}
    /\ \/ /\ rejit_handler
          /\ queue' = Append(queue, ProcessItem(module_ids, Definitions[arg[t]], t))
          /\ Goto(t, "init_wait")
          /\ UNCHANGED <<integration_methods, arg>>
       \/ /\ ~rejit_handler
          /\ integration_methods' = integration_methods \cup Definitions[arg[t]]
          /\ Goto(t, "idle")
          /\ arg' = [arg EXCEPT ![t] = None]
          /\ UNCHANGED queue
    /\ UNCHANGED <<is_attached, rejit_handler, module_ids, first_jit, handlerVars, resolved,
                   clrVars, work, found, scan, reply>>

InitWait(t) ==
    /\ pc[t] = "init_wait"
    /\ t \in resolved
    /\ resolved' = resolved \ {t}
    /\ integration_methods' = integration_methods \cup Definitions[arg[t]]
    /\ Goto(t, "idle")
    /\ arg' = [arg EXCEPT ![t] = None]
    /\ UNCHANGED <<is_attached, rejit_handler, module_ids, definitions_ids, first_jit,
                   handlerVars, queue, clrVars, work, found, scan, reply>>

-----------------------------------------------------------------------------
(* JITInlining and GetReJITParameters *)

JITInlining(t, p) ==
    /\ pc[t] = "idle"
    /\ ModuleOf(p) \in loaded
    /\ ~Unloading(ModuleOf(p))
    /\ is_attached
    /\ rejit_handler
    /\ Goto(t, "inl_check")
    /\ arg' = [arg EXCEPT ![t] = p]
    /\ UNCHANGED <<corVars, handlerVars, queueVars, clrVars, work, found, scan, reply>>

\* The second test, in the expression that goes on to call HasModuleAndMethod.
InliningCheck(t) ==
    LET calls == is_attached /\ rejit_handler
    IN  /\ pc[t] = "inl_check"
        /\ Goto(t, IF calls THEN "inl_shared" ELSE "idle")
        /\ arg' = IF calls THEN arg ELSE [arg EXCEPT ![t] = None]
        /\ UNCHANGED <<corVars, handlerVars, queueVars, clrVars, work, found, scan, reply>>

\* A handler's method starts: it takes the shutdown lock, which a deleted handler has
\* not, and returns when m_shutdown is set.
EnterHandler(t, from, to) ==
    /\ pc[t] = from
    /\ \/ /\ ~rejit_handler
          /\ Goto(t, "fault")
          /\ UNCHANGED arg
       \/ /\ rejit_handler
          /\ m_shutdown
          /\ Goto(t, "idle")
          /\ arg' = [arg EXCEPT ![t] = None]
       \/ /\ rejit_handler
          /\ ~m_shutdown
          /\ Goto(t, to)
          /\ UNCHANGED arg
    /\ UNCHANGED <<corVars, handlerVars, queueVars, clrVars, work, found, scan, reply>>

\* HasModuleAndMethod; its answer, whether the method is in m_methods, is the runtime's.
HasModuleAndMethod(t) ==
    /\ pc[t] = "inl_modules"
    /\ ModulesFree
    /\ Goto(t, "idle")
    /\ arg' = [arg EXCEPT ![t] = None]
    /\ UNCHANGED <<corVars, handlerVars, queueVars, clrVars, work, found, scan, reply>>

\* The runtime asks for the new body of a method it was requested to compile again.
GetReJITParameters(t, p) ==
    /\ pc[t] = "idle"
    /\ p \in pending
    /\ ~Unloading(ModuleOf(p))
    /\ pending' = pending \ {p}
    /\ \/ /\ is_attached
          /\ Goto(t, "par_shared")
          /\ arg' = [arg EXCEPT ![t] = p]
       \/ /\ ~is_attached
          /\ UNCHANGED <<pc, arg>>
    /\ UNCHANGED <<corVars, handlerVars, queueVars, loaded, gone, hooked, requested, armed,
                   lookupVars, work, found, scan, reply>>

\* NotifyReJITParameters, up to m_rewriteCallback, which CallTarget models.  The method
\* is added when it is not there (an inliner), without a replacement.
ParametersModule(t) ==
    /\ pc[t] = "par_module"
    /\ ModulesFree
    /\ m_modules' = m_modules \cup {ModuleOf(arg[t])}
    /\ Goto(t, "par_method")
    /\ UNCHANGED <<corVars, m_shutdown, m_methods, m_replaced, m_ngenModules, ngenDone,
                   queueVars, clrVars, arg, work, found, scan, reply>>

ParametersMethod(t) ==
    /\ pc[t] = "par_method"
    /\ \/ /\ ModuleOf(arg[t]) \in m_modules
          /\ m_methods' = m_methods \cup {arg[t]}
          /\ Goto(t, "idle")
          /\ arg' = [arg EXCEPT ![t] = None]
       \/ /\ ModuleOf(arg[t]) \notin m_modules
          /\ Goto(t, "fault")
          /\ UNCHANGED <<m_methods, arg>>
    /\ UNCHANGED <<corVars, m_shutdown, m_modules, m_replaced, m_ngenModules, ngenDone,
                   queueVars, clrVars, work, found, scan, reply>>

-----------------------------------------------------------------------------
(* Shutdown *)

\* The runtime calls Shutdown once.
Shutdown(t) ==
    /\ pc[t] = "idle"
    /\ is_attached
    /\ rejit_handler
    /\ Free(ShutdownSteps, Callers)
    /\ JitDuringShutdown \/ Free(JitSteps, Callers)
    /\ is_attached' = FALSE
    /\ Goto(t, "sd_lock")
    /\ UNCHANGED <<rejit_handler, module_ids, integration_methods, definitions_ids,
                   first_jit, handlerVars, queueVars, clrVars, arg, work, found, scan, reply>>

\* RejitHandler::Shutdown starts: the thread is told to end ...
ShutdownLock(t) ==
    /\ pc[t] = "sd_lock"
    /\ ModuleFree
    /\ queue' = Append(queue, EndItem)
    /\ Goto(t, "sd_join")
    /\ UNCHANGED <<corVars, handlerVars, resolved, clrVars, arg, work, found, scan, reply>>

\* ... and joined; then come m_modules_lock, m_ngenModules_lock ...
ShutdownWait(t) ==
    /\ \/ pc[t] = "sd_join" /\ pc[Rejit] = "ended" /\ Goto(t, "sd_modules")
       \/ pc[t] = "sd_modules" /\ ModulesFree /\ Goto(t, "sd_ngen")
       \/ pc[t] = "sd_ngen" /\ NgenFree /\ Goto(t, "sd_write")
    /\ UNCHANGED <<corVars, handlerVars, queueVars, clrVars, arg, work, found, scan, reply>>

\* ... and m_shutdown_lock, exclusive.
ShutdownWrite(t) ==
    /\ pc[t] = "sd_write"
    /\ Free(ShutdownShared, Threads)
    /\ m_shutdown' = TRUE
    /\ m_modules' = {}
    /\ m_methods' = {}
    /\ m_replaced' = {}
    /\ ngenDone' = {}
    /\ Goto(t, "sd_delete")
    /\ UNCHANGED <<corVars, m_ngenModules, queueVars, clrVars, arg, work, found, scan, reply>>

ShutdownDelete(t) ==
    /\ pc[t] = "sd_delete"
    /\ rejit_handler' = FALSE
    /\ Goto(t, "idle")
    /\ UNCHANGED <<is_attached, module_ids, integration_methods, definitions_ids, first_jit,
                   handlerVars, queueVars, clrVars, arg, work, found, scan, reply>>

-----------------------------------------------------------------------------
Init ==
    /\ is_attached = TRUE
    /\ rejit_handler = TRUE
    /\ m_shutdown = FALSE
    /\ again = FALSE
    /\ queue = <<>>
    /\ reply = None
    /\ module_ids = {} /\ integration_methods = {} /\ definitions_ids = {} /\ first_jit = {}
    /\ m_modules = {} /\ m_methods = {} /\ m_replaced = {} /\ m_ngenModules = {}
    /\ ngenDone = {} /\ resolved = {} /\ loaded = {} /\ gone = {} /\ hooked = {}
    /\ requested = {} /\ armed = {} /\ pending = {} /\ scan = {} /\ asked = {} /\ told = {}
    /\ pc = [t \in Threads |-> IF t = Rejit THEN "pop" ELSE "idle"]
    /\ arg = [t \in Threads |-> None]
    /\ work = [t \in Threads |-> {}]
    /\ found = [t \in Threads |-> {}]

\* What the runtime and managed code may start
Callback(t) ==
    \/ \E m \in Modules :
          \/ ModuleLoadFinished(t, m)
          \/ ModuleUnloadStarted(t, m)
          \/ JITCompilationStarted(t, m)
    \/ \E d \in Domains : AppDomainShutdownFinished(t, d)
    \/ \E id \in Ids : InitializeProfiler(t, id)
    \/ \E p \in Pairs : JITInlining(t, p) \/ GetReJITParameters(t, p)
    \/ Shutdown(t)

\* The steps of a call in progress
CallerStep(t) ==
    \/ LoadLock(t) \/ AddNGenModule(t) \/ LoadScan(t) \/ LoadProcess(t)
    \/ GetOrAddModule(t) \/ ProcessMethod(t)
    \/ UnloadLock(t) \/ UnloadRemove(t)
    \/ JitLock(t)
    \/ InitLock(t) \/ InitModule(t) \/ InitWait(t)
    \/ InliningCheck(t) \/ HasModuleAndMethod(t)
    \/ EnterHandler(t, "inl_shared", "inl_modules")
    \/ EnterHandler(t, "par_shared", "par_module")
    \/ ParametersModule(t) \/ ParametersMethod(t)
    \/ ShutdownLock(t) \/ ShutdownWait(t) \/ ShutdownWrite(t) \/ ShutdownDelete(t)

RejitStep ==
    \/ Pop
    \/ GetOrAddModule(Rejit) \/ ProcessMethod(Rejit)
    \/ RequestRejit \/ RequestRejitForNGenInliners \/ ScanNGenModule

Next ==
    \/ \E t \in Callers : Callback(t) \/ CallerStep(t)
    \/ RejitStep

Spec == Init /\ [][Next]_vars

\* The operating system runs every thread that is not blocked.  Nothing makes the
\* runtime start a callback.
FairSpec ==
    /\ Spec
    /\ \A t \in Callers : WF_vars(CallerStep(t))
    /\ WF_vars(RejitStep)

-----------------------------------------------------------------------------
(* Properties *)

CallerPcs == ModuleSteps \cup UnloadSteps \cup ShutdownSteps \cup JitSteps \cup
    {"idle", "fault", "proc_module", "proc_method", "init_lock", "init_module", "init_wait"}
RejitPcs == {"pop", "ended", "fault", "proc_module", "proc_method", "req_request", "req_ngen",
             "req_scan"}

\* The types of the variables.
TypeOK ==
    /\ is_attached \in BOOLEAN
    /\ rejit_handler \in BOOLEAN
    /\ m_shutdown \in BOOLEAN
    /\ module_ids \subseteq Modules
    /\ integration_methods \subseteq Integrations
    /\ definitions_ids \subseteq Ids
    /\ first_jit \subseteq Domains
    /\ m_modules \subseteq Modules
    /\ m_methods \subseteq Pairs
    /\ m_replaced \subseteq m_methods
    /\ m_ngenModules \subseteq NGenModules
    /\ ngenDone \subseteq NGenModules \X Pairs
    /\ queue \in Seq(Items)
    /\ resolved \subseteq Callers
    /\ loaded \subseteq Modules /\ gone \subseteq Modules
    /\ hooked \subseteq Domains
    /\ requested \subseteq Pairs /\ armed \subseteq Pairs /\ pending \subseteq Pairs
    /\ asked \subseteq NGenModules \X Pairs /\ told \subseteq Pairs /\ again \in BOOLEAN
    /\ DOMAIN pc = Threads
    /\ \A t \in Callers : pc[t] \in CallerPcs
    /\ pc[Rejit] \in RejitPcs
    /\ arg \in [Threads -> Modules \cup Pairs \cup Ids \cup {None}]
    /\ work \in [Threads -> SUBSET Pairs]
    /\ found \in [Threads -> SUBSET Pairs]
    /\ scan \subseteq m_ngenModules
    /\ reply \in Callers \cup {None}

Queued == UNION {queue[i].pairs : i \in {j \in DOMAIN queue : queue[j].type = 1}}
InProgress ==
    UNION {work[t] \cup found[t] : t \in Threads}

\* The methods that the runtime is going to be asked to compile again
Covered == Queued \cup InProgress

\* Whatever the order in which modules are loaded (ModuleLoadFinished) and integrations
\* arrive (InitializeProfiler), no target method of a loaded module is missed: each is
\* registered with its replacement and requested afterwards, or on its way there.
PairsCovered ==
    is_attached =>
        Targets(integration_methods, module_ids \cap loaded) \subseteq armed \cup Covered

\* A method in a native image that inlines a target method is compiled again as well,
\* as far as the runtime tells, and whichever of the two is known first.  What an answer
\* named has been requested or is on its way; a mark says that all inliners were named,
\* so that incomplete data is looked up again; and each target has been looked up in
\* each image, unless somebody has still to go through the image.
NgenCovered ==
    is_attached =>
        \A ng \in m_ngenModules \cap loaded :
            /\ told \cap PairsOf(ng) \subseteq requested \cup Covered
            /\ \A p \in armed \cap m_replaced :
                  /\ <<ng, p>> \in ngenDone => Inliners[ng][p] \subseteq told
                  /\ \/ <<ng, p>> \in asked
                     \/ pc[Rejit] = "req_ngen"
                     \/ pc[Rejit] = "req_scan" /\ ng \in scan
                     \/ \E t \in Callers : pc[t] = "ngen_scan" /\ arg[t] = ng

\* No callback and no step of the rejit thread uses the RejitHandler that Shutdown has
\* deleted, or a module that RemoveModule has destroyed.
HandlerAlive == \A t \in Threads : pc[t] # "fault"

\* A module that is gone has no RejitHandlerModule, and no method, replacement or mark
\* in one: RemoveModule comes after every GetOrAddModule and GetOrAddMethod for it, and
\* what is unloaded behind the back of a profiler that is no longer attached goes with
\* RejitHandler::Shutdown.  Nothing like it holds of m_ngenModules and of the marks of
\* other modules' methods, where the id of an image that is gone stays.
NoStaleModules ==
    is_attached \/ m_shutdown =>
        /\ m_modules \cap gone = {}
        /\ \A p \in m_methods \cup m_replaced : ModuleOf(p) \notin gone
        /\ \A d \in ngenDone : ModuleOf(d[2]) \notin gone

\* Every callback returns, InitializeProfiler (which waits for its promise) and
\* Shutdown (which joins the thread and takes all locks) included.
CallbacksReturn == \A t \in Callers : []<>(pc[t] = "idle")

\* The rejit thread comes to the end of its queue, although its own requests add the
\* inliners it finds to it.  What may keep it busy is inliner data that is incomplete
\* again and again: every request asks for it anew and adds the same inliners.
QueueDrains ==
    <>[](~again) => []<>((queue = <<>> /\ pc[Rejit] = "pop") \/ pc[Rejit] = "ended")
=============================================================================
