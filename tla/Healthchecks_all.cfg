SPECIFICATION FairSpec
CONSTANTS
  Checks <- TwoChecks
  Clusters = {1, 2}
  Setups <- Disturbed
  MaxGen = 2
  MaxId = 9
  ConnStates = {"up", "paused", "broken"}
INVARIANTS TypeOK AloneInSync HandMadeKept
PROPERTIES NothingLost OrphansOnlyByLoss LostEntriesReturn
CHECK_DEADLOCK FALSE
