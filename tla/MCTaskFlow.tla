----------------------------- MODULE MCTaskFlow -----------------------------
EXTENDS TaskFlow

CONSTANTS a, b

\* b depends on a.
MCDependsOn == [t \in Task |-> IF t = b THEN {a} \cap Task ELSE {}]
=============================================================================
