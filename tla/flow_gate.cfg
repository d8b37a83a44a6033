SPECIFICATION Spec
CONSTANTS
  a = a
  b = b
  Task = {a, b}
  DependsOn <- MCDependsOn
  MaxRepairs = 1
  Request = {r1}
  Architecture = arch
  Kinds = {"wave", "reverify", "repair", "verify", "apply", "docs", "close", "resume"}
  OneAtATime = TRUE
  IOFails = TRUE
  MaxRestarts = 1
INVARIANTS TypeOK ReadyMeansDocumented AppliedHasLanded DependenciesFirst RecoverySuffices
PROPERTY LifecycleSpec
CHECK_DEADLOCK FALSE
