------------------------------ MODULE MCDocSync ------------------------------
(* A tree for TLC: root / a / b, and root / c.                             *)
EXTENDS DocSync

MCDir == {"root", "a", "b", "c"}
MCAbove == [d \in MCDir |-> CASE d = "root" -> {}
                              [] d = "b" -> {"root", "a"}
                              [] OTHER -> {"root"}]
MCDepth == [d \in MCDir |-> CASE d = "root" -> 0 [] d = "b" -> 2 [] OTHER -> 1]
=============================================================================
