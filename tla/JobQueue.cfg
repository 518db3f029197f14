SPECIFICATION FairSpec
CONSTANTS
  j1 = j1
  j2 = j2
  j3 = j3
  r1 = r1
  k1 = k1
  Job = {j1, j2, j3}
  Request = {r1}
  Direct = Direct
  Via <- ViaMC
  Key <- KeyMC
  NoKey = NoKey
  Declared <- DeclaredMC
  Unfit = {j2}
  Later = {j1}
  Worker = {w1, w2}
  MaxPending = 2
  BatchSize = 2
  MaxLeases = 2
  NoJob = NoJob
  NoLease = NoLease
INVARIANTS
  CommitFirst
  GoneForAReason
  OverlapHasCause
PROPERTIES
  EveryJobIsTried
CHECK_DEADLOCK FALSE
