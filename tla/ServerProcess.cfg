SPECIFICATION FairSpec
CONSTANTS
  r1 = r1
  r2 = r2
  c1 = c1
  c2 = c2
  p1 = p1
  Request <- MCRequest
  Web <- MCWeb
  MapConfigs <- MCMapConfigs
  Job <- MCJob
  Forbid <- MCForbid
  Pool <- MCPool
  MaxRuns = 2
  Plugins = 2
  Observed = TRUE
INVARIANTS SpanIsAccountedFor ForbidNeverOverlaps NoPoolLeaks
PROPERTIES ShutdownExits
CHECK_DEADLOCK FALSE
