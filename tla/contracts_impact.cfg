SPECIFICATION FairSpec
CONSTANTS
  Null = Null
  A = A
  B = B
  G = G
  x = x
  y = y
  z = z
  fa = fa
  fb = fb
  fs = fs
  tb = tb
  Module <- MCModule
  Symbol = {x, y, z}
  Private = {}
  File = {fa, fb, fs, tb}
  Home <- MCHome
  TestFile = {tb}
  SharedFile = {fs}
  EntryModule = {A}
  Content <- MCContent
  Writer = {w1, w2}
  Lander = {l1}
  Batches <- MCBatches
  Patches <- MCPatches
  Architectures <- MCArchitectures
  MaxCalls = 2
  MaxCrashes = 1
  MaxMisreads = 0
  MaxLandings = 1
INVARIANT EveryConsumerTold
CHECK_DEADLOCK FALSE
