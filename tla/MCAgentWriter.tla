--------------------------- MODULE MCAgentWriter ---------------------------
(***************************************************************************)
(* AgentWriter on small instances.  With every trace of size 1, the value  *)
(* 6 of MaxBufferSize gives each buffer room for one trace behind the      *)
(* header: the second trace already fills it and makes the buffers swap.   *)
(***************************************************************************)
EXTENDS AgentWriterDelivery, TLC

CONSTANTS t1, t2, t3

UnitSize == [t \in Traces |-> 1]

\* Traces that serialize without an exception are interchangeable.
Symmetry == Permutations(Traces \ Faulty)
=============================================================================
