--------------------------- MODULE MCExecutionJobs ---------------------------
(* Instances of ExecutionJobs for TLC.                                     *)
EXTENDS ExecutionJobs, TLC

Symmetry == Permutations(Job) \cup Permutations(Client)
=============================================================================
