SPECIFICATION Spec
CONSTANTS
  t1 = t1  t2 = t2  f1 = f1  f2 = f2  contracts = contracts
  Task = {t1, t2}
  Files <- MCFiles
  Contracts = contracts
  Absent = Absent
  New = {f1}
  TaskFiles <- MCTaskFiles
  Mode <- AutoReview
  SNAPSHOT_MAX = 2
  MaxFaults = 1
  Serial = TRUE
  Calm = TRUE
  Quiet = TRUE
  MaxRounds = 2
  MaxActs = 1
PROPERTY PatchesProtect
CHECK_DEADLOCK FALSE
