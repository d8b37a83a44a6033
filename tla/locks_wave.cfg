CONSTANTS
  Request = {r1}
  Task <- MCTask
  Path <- MCPath
  TargetFiles <- MCTargetFiles
  Rank <- MCRank
  MaxRestarts = 2
SPECIFICATION FairSpec
INVARIANTS TypeOK WaveExclusive WorkIsRecorded
PROPERTY WorkIsReleased
