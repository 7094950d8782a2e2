-------------------------- MODULE MCApprovalResume --------------------------
(* Instances of ApprovalResume for TLC.  Calls, reviewers and workers are      *)
(* alike, so they may be permuted where only invariants are checked.           *)
EXTENDS ApprovalResume, TLC

Symmetry == Permutations(Calls) \cup Permutations(Reviewers) \cup Permutations(Workers)
=============================================================================
