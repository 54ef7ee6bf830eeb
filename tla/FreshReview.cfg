SPECIFICATION FairSpec
CONSTANTS
  Procs = {p1, p2}
  Preparers = {p1}
  Packets = {k1, k2}
  Combined = {k1}
  Cyclic = {k2}
  Answers = {a1, a2}
  NotRun = NotRun
  Malformed = Malformed
  NoFile = NoFile
  NoOne = NoOne
  MaxCrashes = 1
  MaxSubmissions = 2
INVARIANTS TypeOK FinalizerStaysValid CompletionIsCoherent
PROPERTIES PacketImmutable ImplementsReviewOutcome OpenReviewCompletes
CHECK_DEADLOCK FALSE
