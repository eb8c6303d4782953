--------------------------- MODULE MCTaskManager ---------------------------
(* TaskManager on a small instance: the tasks are interchangeable. *)
EXTENDS TaskManager, TLC

TaskSymmetry == Permutations(Tasks)
=============================================================================
