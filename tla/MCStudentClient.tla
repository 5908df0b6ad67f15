--------------------------- MODULE MCStudentClient ---------------------------
(***************************************************************************)
(* The TLC instance of StudentClient: a student who types, runs and moves *)
(* between a week of two problems, which was edited before, and one of a   *)
(* single problem, while the server changes the weeks.                     *)
(***************************************************************************)
EXTENDS StudentClient
=============================================================================
