-------------------------- MODULE MCRedisRunStore --------------------------
(***************************************************************************)
(* Two processes, two runs.  Processes and runs are interchangeable.        *)
(***************************************************************************)
EXTENDS RedisRunStore, TLC

Symmetry == Permutations(Pod) \cup Permutations(Run)
=============================================================================
