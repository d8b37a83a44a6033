--------------------------- MODULE MCWorkspaceLocks ---------------------------
(* Instances of WorkspaceLocks for TLC: three tasks of a plan, the first   *)
(* two share a file, the third has a file of its own; a fourth task has no *)
(* target files and is always granted.                                     *)
EXTENDS WorkspaceLocks, TLC

MCTask == {"a", "b", "c", "d"}
MCPath == {"x", "y", "z"}
MCTargetFiles ==
  [t \in MCTask |-> CASE t = "a" -> {"x"}
                      [] t = "b" -> {"x", "y"}
                      [] t = "c" -> {"z"}
                      [] t = "d" -> {}]
MCRank == [t \in MCTask |-> CASE t = "a" -> 1 [] t = "b" -> 2
                              [] t = "c" -> 3 [] t = "d" -> 4]
Symmetry == Permutations(Request)
=============================================================================
