----------------------------- MODULE MCTaskQueue -----------------------------
(* Instances of the task queue for TLC. *)
EXTENDS TaskQueue, TLC

Symmetry == Permutations(Workers) \cup Permutations(Procs)
TaskSymmetry == Permutations(TaskIds) \cup Symmetry
=============================================================================
