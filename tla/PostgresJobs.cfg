SPECIFICATION Spec
CONSTANTS
  k1 = k1
  j1 = j1
  j2 = j2
  Job = {j1, j2}
  NoKey = NoKey
  Key <- KeyMC
  MaxTries <- TriesMC
  Worker = {w1, w2}
  MaxLeases = 3
  NoJob = NoJob
INVARIANTS
  NeverRace
CHECK_DEADLOCK FALSE
