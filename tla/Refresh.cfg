SPECIFICATION FairSpec
CONSTANTS
  Budget <- Budgets
  Total = 5
  Gates = 2
  MaxTime = 10
  MaxRefreshes = 2
  MaxSwallows = 1
INVARIANTS DeadlinesAreKept GatesAreWhole
PROPERTIES KeepsGates RefreshEnds
CHECK_DEADLOCK FALSE
