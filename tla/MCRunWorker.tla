---------------------------- MODULE MCRunWorker ----------------------------
(* Instances of RunWorker for TLC.  Runs are created in any order and are      *)
(* otherwise alike, and so are pods, so both sets may be permuted wherever no  *)
(* liveness property is checked.                                               *)
EXTENDS RunWorker, TLC

Symmetry == Permutations(Runs) \cup Permutations(Pods)
=============================================================================
