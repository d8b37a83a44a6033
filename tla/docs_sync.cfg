SPECIFICATION FairSpec
CONSTANTS
  Dir <- MCDir
  Root = "root"
  Above <- MCAbove
  Depth <- MCDepth
  Request = {r1}
  OneAtATime = TRUE
  DirectEdits = FALSE
  Undocumented = {}
  Cuts = TRUE
  MaxRetries = 2
  MaxChanges = 2
  MaxRestarts = 1
INVARIANTS TypeOK SyncedIsFresh BlockedIsShown
PROPERTY SyncEnds
CHECK_DEADLOCK FALSE
