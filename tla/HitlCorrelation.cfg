SPECIFICATION CorrelationSpec
CONSTANTS
  NCalls = 4
  MaxOthers = 2
  HooksInOrder = TRUE
  RoundOf <- RoundsMC
INVARIANTS
  GateNamesItsCall
  ResultSettlesItsCard
  NothingStale
CHECK_DEADLOCK FALSE
