----------------------------- MODULE MCRunnerJob -----------------------------
(***************************************************************************)
(* TLC instance of RunnerJob: a problem with an enabled public case, an    *)
(* enabled hidden one and a disabled one, a time limit on each side of the *)
(* bound, and programs that write up to twice the output limit.            *)
(***************************************************************************)
EXTENDS RunnerJob
=============================================================================
