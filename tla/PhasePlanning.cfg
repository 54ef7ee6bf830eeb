SPECIFICATION FairSpec
CONSTANTS
  Procs = {p1}
  Candidates <- TwoCandidates
  ByHand = "by-hand"
  Slices <- FirstNeedsSecond
  NoPlan = NoPlan
  Nothing = Nothing
  MaxPhases = 3
  MaxCommands = 2
  MaxCrashes = 2
INVARIANTS RoadmapIsSound SomePlanIsReadyUndisturbed
PROPERTIES PlansArePreserved EveryCandidateIsPlanned
CHECK_DEADLOCK FALSE
