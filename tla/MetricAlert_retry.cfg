SPECIFICATION FairSpec
CONSTANTS
  Kinds = {"metric", "log"}
  MaxGen = 2
  MaxId = 3
  Clusters = {1, 2}
  Places <- Stay
  ConnStates = {"up"}
  Budgets <- OneServerFault
PROPERTIES RetriesSync
CHECK_DEADLOCK FALSE
