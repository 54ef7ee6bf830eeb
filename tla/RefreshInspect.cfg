SPECIFICATION Spec
CONSTANTS
  Budget <- Budgets
  Total = 0
  Gates = 2
  MaxTime = 10
  MaxRefreshes = 1
  MaxSwallows = 1
INVARIANTS InspectIsCapped
CHECK_DEADLOCK FALSE
