------------------------------ MODULE MCTasks -------------------------------
(* Instance of Tasks for TLC: which block the heap gives does not matter.  *)
EXTENDS Tasks, TLC

BlockSymmetry == Permutations(Blocks)

=============================================================================
