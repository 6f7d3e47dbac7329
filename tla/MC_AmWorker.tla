---------------------------- MODULE MC_AmWorker ----------------------------
(* Model-checking instance of AmWorker: the constants are given in the     *)
(* .cfg files; tasks are interchangeable, so safety runs use symmetry.     *)
EXTENDS AmWorker, TLC

TaskSymmetry == Permutations(Tasks)

=============================================================================
