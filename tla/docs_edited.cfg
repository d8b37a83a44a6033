SPECIFICATION Spec
CONSTANTS
  Dir <- MCDir
  Root = "root"
  Above <- MCAbove
  Depth <- MCDepth
  Request = {r1}
  OneAtATime = FALSE
  DirectEdits = FALSE
  Undocumented = {}
  Cuts = TRUE
  MaxRetries = 2
  MaxChanges = 2
  MaxRestarts = 1
INVARIANT SyncedIsFresh
CHECK_DEADLOCK FALSE
