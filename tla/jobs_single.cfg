CONSTANTS
  Job = {j1, j2, j3}
  Client = {c1}
  Stopper = {s1}
  NoRequest = NoRequest
  NoJob = NoJob
  MaxHistory = 2
  MaxRestarts = 2
SPECIFICATION FairSpec
INVARIANT RestartClassified
INVARIANT OrphanIsForeign
PROPERTY JobIsClosed
PROPERTY LedgerSpec
