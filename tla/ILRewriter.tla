----------------------------- MODULE ILRewriter -----------------------------
(***************************************************************************)
(* The native ILRewriter: a method body as a list of instructions, the     *)
(* insertion of instructions, and the export to bytes, which replaces the  *)
(* short branches that do not reach their target by long ones.             *)
(*                                                                         *)
(* An instruction is a record                                              *)
(*   id      its identity (the ILInstr object), which insertions keep      *)
(*   op      what it does                                                  *)
(*   target  the id of m_pTarget, or None when it is not a branch          *)
(*   short   TRUE for the opcodes with a one byte displacement             *)
(*   size    the bytes of an instruction that is not a branch; one record  *)
(*           may stand for a straight run of them                          *)
(*   value   what it pushes or throws                                      *)
(* An exception clause names its instructions: try_begin, try_end (the     *)
(* first one after the try block), handler_begin, handler_end (the last    *)
(* one of the handler).                                                    *)
(***************************************************************************)
EXTENDS Integers, Sequences, SequencesExt

CONSTANT None

IsBranch(instr) == instr.target # None
Size(instr) == IF ~IsBranch(instr) THEN instr.size ELSE IF instr.short THEN 2 ELSE 5

\* The place of an instruction in the list.
Position(il, id) == CHOOSE i \in DOMAIN il : il[i].id = id

\* The first loop of a pass of Export: m_offset of every place, and of the sentinel.
Offsets(il) ==
    LET offset[i \in 1..(Len(il) + 1)] ==
            IF i = 1 THEN 0 ELSE offset[i - 1] + Size(il[i - 1])
    IN  offset

\* InsertBefore, for every instruction: New(instr) is what goes in front of it and the
\* instruction itself, which branches still lead to.
Rewritten(il, New(_)) == FlattenSeq([i \in DOMAIN il |-> New(il[i])])

\* The conversion (INT8).
Int8(n) == ((n + 128) % 256) - 128

\* delta: from the end of the branch to its target.
Delta(il, offset, i) == offset[Position(il, il[i].target)] - offset[i + 1]

\* Wrong version: the comparison allows one byte too many.
FitsVariant(delta) == delta \in -128..128
Fits(delta) == Int8(delta) = delta

\* The second loop: the short branches that have to become long ones.
TooFar(il, offset) ==
    {i \in DOMAIN il : IsBranch(il[i]) /\ il[i].short /\ ~Fits(Delta(il, offset, i))}

\* Wrong version: the opcode LEAVE_S is not replaced.
WidenVariant(il, offset) ==
    [i \in DOMAIN il |->
        IF i \in TooFar(il, offset) /\ il[i].op # "leave"
          THEN [il[i] EXCEPT !.short = FALSE] ELSE il[i]]
Widen(il, offset) ==
    LET far == TooFar(il, offset)
    IN  [i \in DOMAIN il |-> IF i \in far THEN [il[i] EXCEPT !.short = FALSE] ELSE il[i]]

\* Where the exported branch leads: the displacement has one byte, or four.
Destination(il, offset, i) ==
    LET delta == Delta(il, offset, i)
    IN  offset[i + 1] + (IF il[i].short THEN Int8(delta) ELSE delta)

\* The exported clause: the offsets of its two blocks, and of what follows them.
ExportClause(il, offset, c) ==
    [kind |-> c.kind,
     try_begin |-> offset[Position(il, c.try_begin)],
     try_end |-> offset[Position(il, c.try_end)],
     handler_begin |-> offset[Position(il, c.handler_begin)],
     handler_end |-> offset[Position(il, c.handler_end) + 1]]
=============================================================================
