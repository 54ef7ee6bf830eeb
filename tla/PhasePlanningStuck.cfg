SPECIFICATION Spec
CONSTANTS
  Procs = {p1}
  Candidates <- NoCandidates
  ByHand = "by-hand"
  Slices <- FirstNeedsSecond
  NoPlan = NoPlan
  Nothing = Nothing
  MaxPhases = 1
  MaxCommands = 0
  MaxCrashes = 1
INVARIANTS SomePlanIsReady
CHECK_DEADLOCK FALSE
