SPECIFICATION FairSpec
CONSTANTS
  c1 = c1
  c2 = c2
  Call = {c1, c2}
  Request = {q1, q2}
  Subject = {alice, bob}
  NoSubject = NoSubject
  Timer = Timer
  Nobody = Nobody
  OnTimeout <- OnTimeoutMC
INVARIANTS
  RunsAsDecided
  OwnerDecides
  OneWinner
  SpanIsTheWait
PROPERTIES
  EveryPauseEnds
CHECK_DEADLOCK FALSE
