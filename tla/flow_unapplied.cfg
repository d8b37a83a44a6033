SPECIFICATION Spec
CONSTANTS
  a = a
  b = b
  Task = {a}
  DependsOn <- MCDependsOn
  MaxRepairs = 1
  Request = {r1}
  Architecture = arch
  Kinds = {"wave", "apply", "verify", "repair", "reverify"}
  OneAtATime = TRUE
  IOFails = FALSE
  MaxRestarts = 0
INVARIANT AppliedIsCurrent
CHECK_DEADLOCK FALSE
