SPECIFICATION Spec
CONSTANTS
  a = a
  b = b
  Task = {a}
  DependsOn <- MCDependsOn
  MaxRepairs = 0
  Request = {r1}
  Architecture = arch
  Kinds = {"wave", "apply", "verify", "close"}
  OneAtATime = TRUE
  IOFails = FALSE
  MaxRestarts = 0
INVARIANT CutOffIsRecovered
CHECK_DEADLOCK FALSE
