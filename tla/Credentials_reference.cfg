SPECIFICATION Spec
CONSTANTS
  MaxGen = 3
  Plans <- Referring
  Budgets <- Quiet
INVARIANTS ReferencedIsUsed
CHECK_DEADLOCK FALSE
