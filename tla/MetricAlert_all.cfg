SPECIFICATION FairSpec
CONSTANTS
  Kinds = {"metric", "log"}
  MaxGen = 2
  MaxId = 6
  Clusters = {1, 2}
  Places <- StayOrMove
  ConnStates = {"up", "paused", "broken"}
  Budgets <- Mixed
INVARIANTS TypeOK ReadyIsPushed
PROPERTIES Mirrors NeverSilentlyIdle OrphansOnlyByLoss Converges DeletionCompletes
CHECK_DEADLOCK FALSE
