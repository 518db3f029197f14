SPECIFICATION FairSpec
CONSTANTS
  MaxTurns = 2
  Gate = {g1, g2}
  Question = {q1, q2}
  Surface = {tui, panel}
  None = None
INVARIANTS
  NoCutTurnWaits
  DecidedOnce
  OneQuestion
PROPERTIES
  EveryGateEnds
CHECK_DEADLOCK FALSE
