SPECIFICATION FairSpec
CONSTANTS
  MaxGen = 3
  Plans <- Courses
  Budgets <- AnyTwo
INVARIANTS TypeOK IdleIsApplied
PROPERTIES StartsInOrder PauseHolds Converges
CHECK_DEADLOCK FALSE
