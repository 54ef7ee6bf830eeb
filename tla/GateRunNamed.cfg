SPECIFICATION Spec
CONSTANTS
  Procs = {p1}
  MaxGates = 2
  Generated = FALSE
  Findings = {f1, f2}
  NoFinding = NoFinding
  Nothing = Nothing
  Torn = Torn
  MaxAnswers = 5
  MaxCrashes = 0
  MaxReaudits = 0
PROPERTIES DecisionsNeverRevert
CHECK_DEADLOCK FALSE
