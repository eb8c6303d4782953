---------------------------- MODULE MCMutexGuard ----------------------------
(* MutexGuard on small instances: the tasks are interchangeable. *)
EXTENDS MutexGuard, TLC

TaskSymmetry == Permutations(Tasks)
=============================================================================
