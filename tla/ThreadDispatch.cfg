SPECIFICATION FairSpec
CONSTANTS
  t1 = t1
  c1 = c1
  m1 = m1
  m2 = m2
  m3 = m3
  r1 = r1
  r2 = r2
  r3 = r3
  Run <- MCRun
  Message <- MCMessage
  Thread = {t1}
  Client = {c1}
  NoRun = NoRun
  NoMessage = NoMessage
  MaxFrames = 2
  MaxConns = 2
  HostSignals = TRUE
  SendsCursor = FALSE
  Watches <- AllWatchT1
CONSTRAINT Canonical
INVARIANTS WaiterIsBounded OneActiveRun FollowUpsInOrder
PROPERTIES EveryFollowUpRuns SubscriberReleased
CHECK_DEADLOCK FALSE
