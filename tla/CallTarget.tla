----------------------------- MODULE CallTarget -----------------------------
(***************************************************************************)
(* CallTarget_RewriterCallback: the body of a target method is wrapped so  *)
(* that BeginMethod runs before it and EndMethod after it, whatever the    *)
(* method and the two calls do.                                            *)
(*                                                                         *)
(* The method is run twice: as it was written, which yields result, and    *)
(* then, rewritten and exported, with the same choices (trail).  The       *)
(* actions of the run are the runtime's: an interpreter of instructions    *)
(* by their offset, with the exported exception clauses.                   *)
(***************************************************************************)
EXTENDS ILRewriter, FiniteSets, FiniteSetsExt

CONSTANTS
    Methods,    \* method bodies: records with the fields void, il, clauses
    BeginSize,  \* bytes that load the arguments and call BeginMethod
    EndSize,    \* bytes that load the locals and call EndMethod
    Values,     \* what the instructions of the methods push and throw
    MaxChoices, \* bound: branches and calls of the original run that choose
    Default,    \* CallTargetInvoker.GetDefaultValue
    Fault       \* an exception of the integration

VARIABLES
    phase,      \* "original", "rewrite", "export", "rewritten", "done"
    method,     \* the method, as written
    il,         \* the list of the ILRewriter
    m_offset,   \* the offsets of its places
    clauses,    \* m_pEH
    ip,         \* run: offset of the next instruction
    stack,      \* run: the evaluation stack
    caught,     \* run: clause -> the exception that its handler got
    cont,       \* run: clause -> what follows its finally handler
    trail,      \* the choices made, or still to be repeated
    returnValue, exception, \* the locals added for TReturn and Exception
    ends,       \* what the EndMethod calls have been told
    result,     \* how the method ended as written
    outcome     \* how it ended after CallTarget_RewriterCallback

listVars == <<method, il, m_offset, clauses>>
runVars == <<ip, stack, caught, cont, trail>>
localVars == <<returnValue, exception, ends>>
vars == <<phase, listVars, runVars, localVars, result, outcome>>

-----------------------------------------------------------------------------
(* The instructions that are added *)

Instr(id, op, size) ==
    [id |-> id, op |-> op, size |-> size, target |-> None, short |-> FALSE, value |-> None]
LeaveS(id, target) ==
    [id |-> id, op |-> "leave", size |-> 0, target |-> target, short |-> TRUE, value |-> None]

\* Identities of what is added; the method's own instructions have smaller ones.
Added == 1000

\* ModifyLocalSigAndInitialize and the part before the original instructions.
BeginPart(first) ==
    <<Instr(Added + 1, "init", 14),
      Instr(Added + 2, "begin", BeginSize),
      Instr(Added + 3, "nop", 2),
      LeaveS(Added + 4, first),
      Instr(Added + 5, "log", 5),
      LeaveS(Added + 6, first)>>

\* The catch, the finally with EndMethod, and the return.
EndPart(void) ==
    <<Instr(Added + 11, "stexc", 2),
      Instr(Added + 12, "rethrow", 2),
      Instr(Added + 13, "end", EndSize)>>
    \o (IF void THEN <<>> ELSE <<Instr(Added + 14, "stret", 2)>>) \o
    <<LeaveS(Added + 15, Added + 17),
      Instr(Added + 16, "log", 5),
      LeaveS(Added + 18, Added + 17),
      Instr(Added + 17, "endfinally", 1)>>
    \o (IF void THEN <<>> ELSE <<Instr(Added + 19, "ldret", 2)>>) \o
    <<Instr(Added + 20, "ret", 1)>>

\* Every return of the method becomes a LEAVE_S to the end: the same ILInstr, behind a
\* new StLocal when there is a value.  Wrong version: the value is not stored.
ReturnsVariant(void, instr) ==
    IF instr.op # "ret" THEN <<instr>>
    ELSE <<LeaveS(instr.id, IF void THEN Added + 20 ELSE Added + 19)>>
Returns(void, instr) ==
    IF instr.op # "ret" THEN <<instr>>
    ELSE IF void THEN <<LeaveS(instr.id, Added + 20)>>
    ELSE <<Instr(Added + 100 + instr.id, "stret", 2), LeaveS(instr.id, Added + 19)>>

Clause(kind, try_begin, try_end, handler_begin, handler_end) ==
    [kind |-> kind, try_begin |-> try_begin, try_end |-> try_end,
     handler_begin |-> handler_begin, handler_end |-> handler_end]

\* The clauses of the method come first, then the inner ones of what is added.
\* Wrong versions: the outer catch in front; a finally that leaves out the catch.
NewClausesVariant(own) ==
    own \o
    <<Clause("catch", Added + 1, Added + 11, Added + 11, Added + 12),
      Clause("catch", Added + 1, Added + 5, Added + 5, Added + 6),
      Clause("catch", Added + 13, Added + 16, Added + 16, Added + 18),
      Clause("finally", Added + 1, Added + 13, Added + 13, Added + 17)>>
NewClausesNarrowVariant(own) ==
    own \o
    <<Clause("catch", Added + 1, Added + 5, Added + 5, Added + 6),
      Clause("catch", Added + 13, Added + 16, Added + 16, Added + 18),
      Clause("catch", Added + 1, Added + 11, Added + 11, Added + 12),
      Clause("finally", Added + 1, Added + 11, Added + 13, Added + 17)>>
NewClauses(own) ==
    own \o
    <<Clause("catch", Added + 1, Added + 5, Added + 5, Added + 6),
      Clause("catch", Added + 13, Added + 16, Added + 16, Added + 18),
      Clause("catch", Added + 1, Added + 11, Added + 11, Added + 12),
      Clause("finally", Added + 1, Added + 13, Added + 13, Added + 17)>>

-----------------------------------------------------------------------------
(* The methods *)

Jumps == {"br", "brtrue", "leave"}
NeverFallThrough == {"br", "leave", "endfinally", "rethrow", "ret"}
Ops == Jumps \cup NeverFallThrough \cup {"nop", "push", "dup", "pop", "call"}

Instructions ==
    [id : 1..(Added - 1), op : Ops, target : 1..(Added - 1) \cup {None},
     short : BOOLEAN, size : Nat, value : Values \cup {None}]

\* The places of the two blocks of a clause.
TryBlock(list, c) == Position(list, c.try_begin)..(Position(list, c.try_end) - 1)
HandlerBlock(list, c) == Position(list, c.handler_begin)..Position(list, c.handler_end)

\* What Import makes of the bytes: distinct instructions, branches between them, and short
\* branches that reach their target.
Imported(m) ==
    LET ids == {m.il[i].id : i \in DOMAIN m.il}
    IN  /\ m.void \in BOOLEAN
        /\ m.il \in Seq(Instructions) /\ m.il # <<>>
        /\ m.clauses \in Seq([kind : {"catch", "finally"}, try_begin : ids, try_end : ids,
                              handler_begin : ids, handler_end : ids])
        /\ \A i, j \in DOMAIN m.il : m.il[i].id = m.il[j].id => i = j
        /\ \A i \in DOMAIN m.il :
             /\ IsBranch(m.il[i]) <=> m.il[i].op \in Jumps
             /\ IsBranch(m.il[i]) => m.il[i].target \in ids
             /\ ~IsBranch(m.il[i]) => m.il[i].size > 0
        /\ TooFar(m.il, Offsets(m.il)) = {}

\* The rules of the runtime for handlers (ECMA-335, I.12.4.2): a handler is not empty, and
\* control comes into it by an exception or a leave only, not from the start, by falling
\* through or by a branch; a handler in a handler belongs to a try block in there.
HandlersEnteredByClause(m) ==
    \A c \in DOMAIN m.clauses :
        LET handler == HandlerBlock(m.il, m.clauses[c])
        IN  /\ handler # {} /\ 1 \notin handler
            /\ \A i \in DOMAIN m.il :
                 /\ i + 1 \in handler /\ m.il[i].op \notin NeverFallThrough => i \in handler
                 /\ IsBranch(m.il[i]) /\ Position(m.il, m.il[i].target) \in handler
                      => i \in handler
            /\ \A d \in DOMAIN m.clauses \ {c} :
                 Position(m.il, m.clauses[d].handler_begin) \in handler
                   => TryBlock(m.il, m.clauses[d]) \subseteq handler

\* The rules for instructions (ECMA-335, partition III): control does not run off the end,
\* endfinally and rethrow are in handlers of their kind, ret is in no block, and where there
\* is a value to return it was pushed before.
InstructionsInPlace(m) ==
    /\ m.il[Len(m.il)].op \in NeverFallThrough
    /\ ~m.void => m.il[1].op # "ret"
    /\ \A i \in DOMAIN m.il :
         LET InHandlerOf(kind) == \E c \in DOMAIN m.clauses :
                 m.clauses[c].kind = kind /\ i \in HandlerBlock(m.il, m.clauses[c])
         IN  /\ m.il[i].op = "endfinally" => InHandlerOf("finally")
             /\ m.il[i].op = "rethrow" => InHandlerOf("catch")
             /\ m.il[i].op = "ret" => \A c \in DOMAIN m.clauses :
                  i \notin TryBlock(m.il, m.clauses[c]) \cup HandlerBlock(m.il, m.clauses[c])

ASSUME CallTargetAssumption ==
    /\ BeginSize \in Nat \ {0} /\ EndSize \in Nat \ {0} /\ MaxChoices \in Nat
    /\ None \notin Nat
    /\ Fault \notin Values \cup {None}
    /\ \A m \in Methods :
         Imported(m) /\ HandlersEnteredByClause(m) /\ InstructionsInPlace(m)

-----------------------------------------------------------------------------
(* The rewriter *)

Start ==
    /\ ip' = 0
    /\ stack' = <<>>
    /\ caught' = <<>>
    /\ cont' = <<>>

\* An early return (S_FALSE) leaves the body as it was: the managed profiler is not
\* loaded, an argument is by reference, a token cannot be defined, ...
Skip ==
    /\ phase = "rewrite"
    /\ phase' = "rewritten"
    /\ Start
    /\ UNCHANGED <<listVars, trail, localVars, result, outcome>>

Rewrite ==
    LET New(instr) == Returns(method.void, instr)
    IN  /\ phase = "rewrite"
        /\ phase' = "export"
        /\ il' = BeginPart(Head(il).id) \o Rewritten(il, New) \o EndPart(method.void)
        /\ clauses' = NewClauses(clauses)
        /\ UNCHANGED <<method, m_offset, runVars, localVars, result, outcome>>

\* One pass of Export.  Another one follows when a branch had to be replaced.
\* Wrong version: it does not.
AgainVariant(far) == FALSE
Again(far) == far # {}

Export ==
    LET offset == Offsets(il)
    IN  /\ phase = "export"
        /\ m_offset' = offset
        /\ il' = Widen(il, offset)
        /\ \/ /\ Again(TooFar(il, offset))
              /\ UNCHANGED <<phase, ip, stack, caught, cont>>
           \/ /\ ~Again(TooFar(il, offset))
              /\ phase' = "rewritten"
              /\ Start
        /\ UNCHANGED <<method, clauses, trail, localVars, result, outcome>>

-----------------------------------------------------------------------------
(* The runtime *)

Running == phase \in {"original", "rewritten"}
Here == CHOOSE i \in DOMAIN il : m_offset[i] = ip
Op(op) == Running /\ il[Here].op = op
Top == stack[Len(stack)]
Popped == SubSeq(stack, 1, Len(stack) - 1)
Exported == [i \in DOMAIN clauses |-> ExportClause(il, m_offset, clauses[i])]
InTry(c, at) == c.try_begin <= at /\ at < c.try_end
InHandler(c, at) == c.handler_begin <= at /\ at < c.handler_end

Following == ip + Size(il[Here])
With(f, i, value) == [j \in DOMAIN f \cup {i} |-> IF j = i THEN value ELSE f[j]]

\* The method ends.
Finish(how) ==
    /\ \/ /\ phase = "original"
          /\ phase' = "rewrite"
          /\ result' = how
          /\ UNCHANGED outcome
       \/ /\ phase = "rewritten"
          /\ phase' = "done"
          /\ outcome' = how
          /\ UNCHANGED result
    /\ UNCHANGED <<ip, stack, caught, cont>>

\* An exception at an offset goes to the first clause from the given one on.
Raise(e, at, from) ==
    LET found == {i \in DOMAIN clauses : i >= from /\ InTry(Exported[i], at)}
        i == Min(found)
    IN  \/ /\ found = {}
           /\ Finish([kind |-> "throw", value |-> e])
        \/ /\ found # {}
           /\ ip' = Exported[i].handler_begin
           /\ \/ /\ clauses[i].kind = "catch"
                 /\ stack' = <<e>>
                 /\ caught' = With(caught, i, e)
                 /\ UNCHANGED cont
              \/ /\ clauses[i].kind = "finally"
                 /\ stack' = <<>>
                 /\ cont' = With(cont, i, [kind |-> "throw", value |-> e, at |-> at])
                 /\ UNCHANGED caught
           /\ UNCHANGED <<phase, result, outcome>>

\* Control leaves for an offset through the finally handlers in between.
LeaveTo(to, at, from) ==
    LET through == {i \in DOMAIN clauses :
                      /\ i >= from
                      /\ clauses[i].kind = "finally"
                      /\ InTry(Exported[i], at)
                      /\ ~InTry(Exported[i], to)}
        i == Min(through)
    IN  /\ stack' = <<>>
        /\ \/ /\ through = {}
              /\ ip' = to
              /\ UNCHANGED cont
           \/ /\ through # {}
              /\ ip' = Exported[i].handler_begin
              /\ cont' = With(cont, i, [kind |-> "leave", value |-> to, at |-> at])
        /\ UNCHANGED <<phase, caught, result, outcome>>

\* A choice is made by the original run and repeated by the other.
Choose(c) ==
    \/ /\ phase = "original"
       /\ c => Len(trail) < MaxChoices
       /\ trail' = Append(trail, c)
    \/ /\ phase = "rewritten"
       /\ trail # <<>>
       /\ c = Head(trail)
       /\ trail' = Tail(trail)

\* push, pop, dup and everything that neither jumps nor matters here
Straight ==
    /\ \/ Op("nop") /\ UNCHANGED stack
       \/ Op("push") /\ stack' = Append(stack, il[Here].value)
       \/ Op("dup") /\ stack' = Append(stack, Top)
       \/ Op("pop") /\ stack' = Popped
    /\ ip' = Following
    /\ UNCHANGED <<phase, listVars, caught, cont, trail, localVars, result, outcome>>

\* A branch: always, or on the value on top of the stack
Branch ==
    /\ \/ /\ Op("br")
          /\ ip' = Destination(il, m_offset, Here)
          /\ UNCHANGED <<stack, trail>>
       \/ /\ Op("brtrue")
          /\ stack' = Popped
          /\ \E taken \in BOOLEAN :
              /\ Choose(taken)
              /\ ip' = IF taken THEN Destination(il, m_offset, Here) ELSE Following
    /\ UNCHANGED <<phase, listVars, caught, cont, localVars, result, outcome>>

\* A call, which may throw
Call ==
    /\ Op("call")
    /\ \E throws \in BOOLEAN :
        /\ Choose(throws)
        /\ \/ /\ throws
              /\ Raise(il[Here].value, ip, 1)
           \/ /\ ~throws
              /\ ip' = Following
              /\ UNCHANGED <<phase, stack, caught, cont, result, outcome>>
    /\ UNCHANGED <<listVars, localVars>>

Leave ==
    /\ Op("leave")
    /\ LeaveTo(Destination(il, m_offset, Here), ip, 1)
    /\ UNCHANGED <<listVars, trail, localVars>>

EndFinally ==
    /\ Op("endfinally")
    /\ LET i == Min({j \in DOMAIN clauses :
                       clauses[j].kind = "finally" /\ InHandler(Exported[j], ip)})
       IN  \/ cont[i].kind = "leave" /\ LeaveTo(cont[i].value, cont[i].at, i + 1)
           \/ cont[i].kind = "throw" /\ Raise(cont[i].value, cont[i].at, i + 1)
    /\ UNCHANGED <<listVars, trail, localVars>>

Rethrow ==
    /\ Op("rethrow")
    /\ LET i == Min({j \in DOMAIN clauses :
                       clauses[j].kind = "catch" /\ InHandler(Exported[j], ip)})
       IN  Raise(caught[i], ip, 1)
    /\ UNCHANGED <<listVars, trail, localVars>>

Return ==
    /\ Op("ret")
    /\ Finish([kind |-> "ret", value |-> IF method.void THEN None ELSE Top])
    /\ UNCHANGED <<listVars, trail, localVars>>

-----------------------------------------------------------------------------
(* The runtime on what was added *)

\* init, ldret, stret, stexc and LogException, which does not throw.
\* Wrong version: the exception is not kept.
StoreExceptionVariant == UNCHANGED exception
StoreException == exception' = Top

AddedStraight ==
    /\ \/ /\ Op("init")
          /\ returnValue' = Default
          /\ exception' = None
          /\ UNCHANGED stack
       \/ /\ Op("stexc")
          /\ StoreException
          /\ stack' = Popped
          /\ UNCHANGED returnValue
       \/ /\ Op("stret")
          /\ returnValue' = Top
          /\ stack' = Popped
          /\ UNCHANGED exception
       \/ /\ Op("ldret")
          /\ stack' = Append(stack, returnValue)
          /\ UNCHANGED <<returnValue, exception>>
       \/ /\ Op("log")
          /\ stack' = Popped
          /\ UNCHANGED <<returnValue, exception>>
    /\ ip' = Following
    /\ UNCHANGED <<phase, listVars, caught, cont, trail, ends, result, outcome>>

\* BeginMethod returns or throws.
BeginMethod ==
    /\ Op("begin")
    /\ \/ /\ Raise(Fault, ip, 1)
       \/ /\ ip' = Following
          /\ UNCHANGED <<phase, stack, caught, cont, result, outcome>>
    /\ UNCHANGED <<listVars, trail, localVars>>

\* EndMethod gets the two locals; it returns the value it was given, or throws.
EndMethod ==
    /\ Op("end")
    /\ ends' = Append(ends, [value |-> returnValue, exception |-> exception])
    /\ \/ /\ Raise(Fault, ip, 1)
       \/ /\ ip' = Following
          /\ stack' = IF method.void THEN stack ELSE Append(stack, returnValue)
          /\ UNCHANGED <<phase, caught, cont, result, outcome>>
    /\ UNCHANGED <<listVars, trail, returnValue, exception>>

-----------------------------------------------------------------------------
Init ==
    /\ phase = "original"
    /\ method \in Methods
    /\ il = method.il
    /\ m_offset = Offsets(il)
    /\ clauses = method.clauses
    /\ ip = 0
    /\ stack = <<>>
    /\ caught = <<>>
    /\ cont = <<>>
    /\ trail = <<>>
    /\ returnValue = None
    /\ exception = None
    /\ ends = <<>>
    /\ result = None
    /\ outcome = None

Next ==
    \/ Skip \/ Rewrite \/ Export
    \/ Straight \/ Branch \/ Call \/ Leave \/ EndFinally \/ Rethrow \/ Return
    \/ AddedStraight \/ BeginMethod \/ EndMethod

Spec == Init /\ [][Next]_vars

\* A thread that runs goes on running.
FairSpec == Spec /\ WF_vars(Next)

-----------------------------------------------------------------------------
(* Properties *)

Instrumented == Len(il) > Len(method.il)

\* A branch with a value on the stack leads to a return itself.
BranchToReturn ==
    /\ ~method.void
    /\ \E i, j \in DOMAIN method.il :
          method.il[i].target = method.il[j].id /\ method.il[j].op = "ret"

\* The types of the variables.
TypeOK ==
    /\ phase \in {"original", "rewrite", "export", "rewritten", "done"}
    /\ method \in Methods
    /\ \A i \in DOMAIN il : IsBranch(il[i]) => \E j \in DOMAIN il : il[j].id = il[i].target
    /\ \A i, j \in DOMAIN il : il[i].id = il[j].id => i = j
    /\ m_offset \in [DOMAIN m_offset -> Nat]
    /\ Running => \E i \in DOMAIN il : m_offset[i] = ip
    /\ Len(stack) \in Nat
    /\ trail \in Seq(BOOLEAN)
    /\ Len(ends) \in Nat

\* ILRewriter.Export: the displacement that is written for a branch, of one byte or of
\* four, leads to the instruction the branch was meant for.
BranchesExact ==
    phase \in {"rewritten", "done"} =>
        LET offset == Offsets(il)
        IN  \A i \in DOMAIN il : IsBranch(il[i]) =>
                Destination(il, m_offset, i) = offset[Position(il, il[i].target)]

\* An instrumented call runs EndMethod once, whether the method returns or throws and
\* whether BeginMethod or EndMethod throw.
EndMatchesBegin ==
    phase = "done" => Len(ends) = IF Instrumented THEN 1 ELSE 0

\* No exception of the integration reaches the caller of the method.
IntegrationIsolated ==
    phase = "done" /\ outcome.kind = "throw" => outcome.value # Fault

\* The caller gets what the method, as it was written, returns or throws, if no branch
\* leads to a return with the value already on the stack.
OutcomePreserved ==
    phase = "done" /\ ~BranchToReturn => outcome = result

\* EndMethod is told the value that the method returned, or the exception that it threw,
\* under the same condition.
EndSeesOutcome ==
    phase = "done" /\ Instrumented /\ ~BranchToReturn =>
        \A i \in DOMAIN ends :
            IF result.kind = "throw"
              THEN ends[i].exception = result.value
              ELSE ends[i].exception = None /\ (~method.void => ends[i].value = result.value)

\* "All RET instructions are replaced with a LEAVE_S. If non-void method, the value on the
\* stack is first stored in the TReturn local": the caller gets the value that the method
\* returns.
ReturnValueStored ==
    phase = "done" => outcome = result

\* Export comes to an end, and so does the method.
MethodEnds == <>(phase = "done")
=============================================================================
