SPECIFICATION Spec
CONSTANTS
  a = a
  b = b
  Task = {a}
  DependsOn <- MCDependsOn
  MaxRepairs = 1
  Request = {r1}
  Architecture = arch
  Kinds = {"wave", "apply", "verify", "repair"}
  OneAtATime = TRUE
  IOFails = FALSE
  MaxRestarts = 0
INVARIANT RestIsClean
CHECK_DEADLOCK FALSE
