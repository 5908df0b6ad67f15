--------------------------- MODULE MCJudgeLimiter ---------------------------
(***************************************************************************)
(* TLC instance of JudgeLimiter: six calls of one key for two slots and    *)
(* one queue place, so that calls wait at both semaphores, several permits *)
(* are free at once, timers race with grants, and the clock moves past a   *)
(* window in which not every call is allowed.                              *)
(***************************************************************************)
EXTENDS JudgeLimiter, TLC

CallSymmetry == Permutations(Requests)
=============================================================================
