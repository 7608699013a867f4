---------------------------- MODULE MCThreadPool ----------------------------
(* ThreadPool with its tasks interchangeable, for runs of safety properties.*)
EXTENDS ThreadPool, TLC

TaskSymmetry == Permutations(Tasks)

=============================================================================
