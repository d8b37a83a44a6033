CONSTANTS
  Request = {r1, r2}
  Task <- MCTask
  Path <- MCPath
  TargetFiles <- MCTargetFiles
  Rank <- MCRank
  MaxRestarts = 0
SPECIFICATION Spec
INVARIANT Exclusive
