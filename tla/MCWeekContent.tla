---------------------------- MODULE MCWeekContent ----------------------------
(***************************************************************************)
(* TLC instances of WeekContent: one administrator with every operation,   *)
(* two administrators whose handlers interleave, and small instances for   *)
(* the statements of the repository that the code does not keep.           *)
(***************************************************************************)
EXTENDS WeekContent, TLC

AdminSymmetry == Permutations(Admins)
=============================================================================
