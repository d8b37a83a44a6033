SPECIFICATION Spec
CONSTANTS
  a = a
  b = b
  Task = {a}
  DependsOn <- MCDependsOn
  MaxRepairs = 0
  Request = {r1, r2}
  Architecture = arch
  Kinds = {"wave", "close"}
  OneAtATime = TRUE
  IOFails = FALSE
  MaxRestarts = 0
INVARIANT OneAgentPerTask
CHECK_DEADLOCK FALSE
