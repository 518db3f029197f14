SPECIFICATION Spec
CONSTANTS
  f1 = f1
  r1 = r1
  r2 = r2
  Key = {f1, r1, r2}
  RouteKey = {r1, r2}
  t1 = t1
  t2 = t2
  Tag = {t1, t2}
  TagSets <- SomeTags
  Caller = {c1, c2, c3}
  MaxEntries = 2
  MaxVersion = 1
  NoEntry = NoEntry
  NoCaller = NoCaller
  Failed = Failed
  InFlightCounts = FALSE
SYMMETRY Sym
INVARIANTS
  StoreExact
  FlightsOverlapForCause
  FreshAfterInvalidate
  JoinersAreHeld
CHECK_DEADLOCK FALSE
