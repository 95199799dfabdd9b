SPECIFICATION FairSpec
CONSTANTS
  MaxGen = 3
  Plans <- Histories
  Budgets <- OneFault
INVARIANTS TypeOK RetainedUsable
PROPERTIES Persists Converges
CHECK_DEADLOCK FALSE
