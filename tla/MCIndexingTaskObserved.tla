----------------------- MODULE MCIndexingTaskObserved -----------------------
(***************************************************************************)
(* Instances of IndexingTaskObserved for TLC: those of IndexingTask.       *)
(***************************************************************************)
EXTENDS MCIndexingTask, IndexingTaskObserved
=============================================================================
