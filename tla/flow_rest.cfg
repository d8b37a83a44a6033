SPECIFICATION FairSpec
CONSTANTS
  a = a
  b = b
  Task = {a, b}
  DependsOn <- MCDependsOn
  MaxRepairs = 0
  Request = {r1}
  Architecture = arch
  Kinds = {"wave", "retry", "verify", "apply", "reject", "cancel", "mode", "edit"}
  OneAtATime = TRUE
  IOFails = FALSE
  MaxRestarts = 0
INVARIANT RestIsClean
PROPERTIES LifecycleSpec RequestEnds
CHECK_DEADLOCK FALSE
