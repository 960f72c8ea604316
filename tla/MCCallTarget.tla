---------------------------- MODULE MCCallTarget ----------------------------
(***************************************************************************)
(* CallTarget on bodies that meet the cases of the rewriter: branches back *)
(* to the first instruction, returns in several places, the method's own   *)
(* catch and finally blocks, and short branches at the limit of one byte.  *)
(***************************************************************************)
EXTENDS CallTarget

CONSTANTS v, w, e

I(id, op, size, value) ==
    [id |-> id, op |-> op, size |-> size, target |-> None, short |-> FALSE, value |-> value]
B(id, op, target) ==
    [id |-> id, op |-> op, size |-> 0, target |-> target, short |-> TRUE, value |-> None]
Body(void, list, own) == [void |-> void, il |-> list, clauses |-> own]

\* do { call } while (...); return w
Loop == Body(FALSE,
    <<I(1, "call", 5, e), I(2, "push", 1, v), B(3, "brtrue", 1), I(4, "push", 1, w),
      I(5, "ret", 1, None)>>, <<>>)

\* if (...) return w; return v, with two branches that pass n + 4 and n + 5 bytes, and three
\* more when the return is replaced.  Both stay short, or the second becomes long and with
\* it the first, which passes it, in a pass of its own, or both become long at once.
TwoReturns(n) == Body(FALSE,
    <<I(1, "push", 1, v), B(2, "brtrue", 7), I(3, "push", 1, v), B(4, "brtrue", 8),
      I(5, "push", n, w), I(6, "ret", 1, None),
      I(7, "nop", 4, None), I(8, "push", 1, v), I(9, "ret", 1, None)>>, <<>>)

\* A branch back over n + 3 bytes, at the other limit
FarLoop(n) == Body(TRUE,
    <<I(1, "call", n, e), I(2, "push", 1, v), B(3, "brtrue", 1), I(4, "ret", 1, None)>>, <<>>)

\* A branch back over n + 8 bytes and a return
Over(n) == Body(FALSE,
    <<I(1, "call", n, e), I(2, "push", 1, v), B(3, "brtrue", 6), I(4, "push", 1, w),
      I(5, "ret", 1, None), I(6, "push", 1, v), B(7, "brtrue", 1), I(8, "push", 1, v),
      I(9, "ret", 1, None)>>, <<>>)

\* if (...) return w; n bytes; return v: the first return is n + 51 bytes from the end
Early(n) == Body(FALSE,
    <<I(1, "push", 1, v), B(2, "brtrue", 5), I(3, "push", 1, w), I(4, "ret", 1, None),
      I(5, "call", n, e), I(6, "push", 1, v), I(7, "ret", 1, None)>>, <<>>)

\* try { call } catch { call }; return v
Catches == Body(FALSE,
    <<I(1, "call", 5, e), B(2, "leave", 6), I(3, "pop", 1, None), I(4, "call", 5, e),
      B(5, "leave", 6), I(6, "push", 1, v), I(7, "ret", 1, None)>>,
    <<Clause("catch", 1, 3, 3, 5)>>)

\* try { call } finally { call }; a branch to the return, without a value
Finally == Body(TRUE,
    <<I(1, "call", 5, e), B(2, "leave", 5), I(3, "call", 5, e), I(4, "endfinally", 1, None),
      I(5, "push", 1, v), B(6, "brtrue", 8), I(7, "nop", 60, None), I(8, "ret", 1, None)>>,
    <<Clause("finally", 1, 3, 3, 4)>>)

\* return v ?? w, as compilers write it: dup; brtrue.s L; pop; push w; L: ret
Coalesce == Body(FALSE,
    <<I(1, "push", 1, v), I(2, "dup", 1, None), B(3, "brtrue", 6), I(4, "pop", 1, None),
      I(5, "push", 1, w), I(6, "ret", 1, None)>>, <<>>)

\* if (...) goto the end over a nop
Jump == Body(TRUE,
    <<B(1, "br", 3), I(2, "nop", 1, None), I(3, "call", 5, e), I(4, "ret", 1, None)>>, <<>>)

MCMethods ==
    {Loop, Catches, Finally, Coalesce, Jump}
    \cup {TwoReturns(n) : n \in 118..122}
    \cup {FarLoop(n) : n \in 123..125}
    \cup {Over(n) : n \in 116..120}
    \cup {Early(n) : n \in 74..78}
=============================================================================
