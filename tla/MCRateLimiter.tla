---------------------------- MODULE MCRateLimiter ----------------------------
(***************************************************************************)
(* RateLimiter on a small instance: enough ticks for a window to pass and  *)
(* its time stamps to expire, and enough calls to use the room again.      *)
(***************************************************************************)
EXTENDS RateLimiter, TLC

CONSTANTS p1, p2

Symmetry == Permutations(Threads)
=============================================================================
