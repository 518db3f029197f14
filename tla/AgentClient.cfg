SPECIFICATION FairSpec
CONSTANTS
  MaxTurns = 2
  MaxDrives = 3
  MaxChunks = 2
  Coalescing = TRUE
  Durable = TRUE
INVARIANTS
  CommittedIsWhole
  AnswersItsQuestion
  ScreenCatchesUp
PROPERTIES
  TurnSettles
CHECK_DEADLOCK FALSE
