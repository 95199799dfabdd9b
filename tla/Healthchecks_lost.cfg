SPECIFICATION FairSpec
CONSTANTS
  Checks <- TwoChecks
  Clusters = {1, 2}
  Setups <- Calm
  MaxGen = 2
  MaxId = 9
  ConnStates = {"up"}
PROPERTY KeptInSync
CHECK_DEADLOCK FALSE
