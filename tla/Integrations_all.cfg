SPECIFICATION FairSpec
CONSTANTS
  Resources <- Pair
  MaxGen = 2
  ConnStates = {"up", "paused", "broken"}
  Setups <- Disturbed
  Clusters = {1, 2}
  Names = {"slack", "pager", "bad"}
  Slots = {"global", "metrics"}
  MaxId = 5
INVARIANTS TypeOK
PROPERTIES OrphansOnlyByLoss LeavesByOwner Converges
CHECK_DEADLOCK FALSE
