SPECIFICATION FairSpec
CONSTANTS
  Resources <- Pair
  MaxGen = 2
  ConnStates = {"up", "paused", "broken"}
  Setups <- Disturbed
  Keys = {"a", "b", "c"}
  MaxValue = 3
INVARIANTS TypeOK ReadyIsStored
PROPERTIES OthersKept Converges
CHECK_DEADLOCK FALSE
