--------------------------- MODULE MCJudgePipeline ---------------------------
(***************************************************************************)
(* TLC instance of JudgePipeline: two students for one slot and one        *)
(* queue place, two administrators, one connection, two threads and a      *)
(* restart, so that previews and orphaned jobs fill pool and threads.      *)
(***************************************************************************)
EXTENDS JudgePipeline
=============================================================================
