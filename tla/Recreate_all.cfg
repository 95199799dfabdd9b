SPECIFICATION FairSpec
CONSTANTS
  MaxGen = 2
  MaxId = 8
  Clusters = {1, 2}
  ConnStates = {"up", "paused", "broken"}
  Budgets <- AllBudgets
  Setups <- Disturbed
INVARIANTS TypeOK ReadyIsPushed
PROPERTIES OrphansOnlyByLoss Converges GapsClose
CHECK_DEADLOCK FALSE
