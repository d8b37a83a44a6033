CONSTANTS
  Job = {j1, j2}
  Client = {c1, c2}
  Stopper = {s1}
  NoRequest = NoRequest
  NoJob = NoJob
  MaxHistory = 2
  MaxRestarts = 1
SPECIFICATION Spec
SYMMETRY Symmetry
INVARIANT TypeOK
INVARIANT LiveNotOrphaned
