--------------------------- MODULE MCWeekLifecycle ---------------------------
(***************************************************************************)
(* TLC instances of WeekLifecycle: one administrator beside two public     *)
(* readers, and small instances with two administrators or readers for the *)
(* statements of the repository that the code does not keep.               *)
(***************************************************************************)
EXTENDS WeekLifecycle, TLC

Symmetry == Permutations(Admins) \cup Permutations(Readers)
=============================================================================
