---------------------------- MODULE MCSleepQueue ----------------------------
(* A small instance of SleepQueue for TLC: one task more than the array    *)
(* holds, and an array deep enough for two iterations of heapify_down.     *)
EXTENDS SleepQueue, TLC

Symmetry == Permutations(Task)
=============================================================================
