\* A web host: a lost connection cancels the body and aborts the request.
SPECIFICATION FairSpec
CONSTANTS
  Run = {r1, r2}
  Client = {c1, c2}
  NoRun = NoRun
  MaxFrames = 2
  MaxConns = 3
  HostSignals = TRUE
CHECK_DEADLOCK FALSE
INVARIANTS
  DropDetaches
PROPERTIES
  ImplementsFeed
  FollowerFinishes
  CachedIsEvicted
