SPECIFICATION FairSpec
CONSTANTS
  MaxGen = 2
  Names = {"a", "b"}
  Keys = {"k"}
  ConnStates = {"up", "paused", "broken"}
  Budgets <- AllBudgets
  Setups <- Disturbed
INVARIANTS TypeOK ReadyIsPushed
PROPERTIES OrphansOnlyByLoss ForeignUntouched Converges
CHECK_DEADLOCK FALSE
