SPECIFICATION Parts
CONSTANTS
  None = None
  Plain = Plain
  NoReport = NoReport
  Torn = Torn
  Cycle = Cycle
  s1 = s1  s2 = s2  s3 = s3  c1 = c1  m1 = m1  g1 = g1
  fileA = fileA  fileB = fileB  slug = slug
  r1 = r1  r2 = r2  p1 = p1  p2 = p2  f1 = f1  f2 = f2
  NoFinding = NoFinding  Missing = Missing  Absent = Absent
  Nothing = Nothing
  Processes = {"p1", "p2"}
  Repositories <- SmallRepositories
  MaxRefreshes = 3
  Options <- SmallOptions
  Works <- SmallWorks
  MaxSeconds = 200
  SampleLimit = 2
  ActivationSamples = 2
  Workers = {p1, p2}
  Contents = {"x", "y"}
  MaxScans = 2
  MaxEdits = 1
  Tracked = {1}  Untracked = 3  Inside = 4
  Branches = {"b1", "b2"}
  MaxChanges = 2
  SourceFiles = {"f1"}
  RuleSets = {"c1", "c2"}
  MaxEntries = 1
  MaxTime = 2
  Tools = {"py", "ts"}
  Trees <- SmallTrees
  Controllers = {p1}
  MaxGates = 3
  Generated = TRUE
  GateFindings = {f1, f2}
  MaxAnswers = 3
  MaxCrashes = 2
  MaxReaudits = 1
  Users = {"u1", "u2"}
  Issues = {"f1", "f2", "f3"}
  IssueStatuses = {"accepted", "open"}
  MaxCommands = 4
  FleetRepos = {1}
  FleetWorlds <- SmallFleet
  MaxAudits = 2
  MaxMoves = 1
  MaxDeaths = 1
  AuditDays = {1, 2}
  MaxAge = 1
  RefreshDays = {1}
  Outputs = {"o1", "o2"}
  RunNames = {"r", "s"}
  OwedFlaws <- SmallOwed
  OwedKeys <- SmallOwedKeys
  ScanCounts = {1}
  LongerNames <- SmallLonger
  AgentPlans <- SmallPlans
  DeferredChecks = {"advisory"}
  PhaseFiles = {"A", "B"}
  SourceFindings <- SmallFindings
  PhaseContracts <- SmallPhases
  Acceptances <- SmallDecisions
  SensitiveFiles = {"B"}
  RolloutFiles = {"a", "b"}
  RepositoryLists <- SmallLists
  RunVerdicts <- SmallVerdicts
  ReportClaims <- SmallClaims
  Generates = ".quality-runner/"
  MaxCommits = 1
  LoopFiles = {"a", "p", "q", "i"}
  PackageFiles = {"p"}
  PrintedNames <- SmallPrints
  UnlistedFiles = {"i"}
  CommittedTrees <- SmallCommits
  FlawedContents = {"bad"}
  FilelessContents = {}
  GitFailures = {{}, {"range"}}
  MaxReviews = 2
  MaxHistory = 2
  TaskPaths = {"a"}
  ConfigName = "config"
  EntryOrder <- SmallEntries
  WorkContents <- SmallContents
  SpotsOf <- SmallSpots
  WorkConfigs <- SmallRules
  ToolVersions = {"v1", Missing}
  CommitOfHead <- SmallHead
  CommitOfTarget <- SmallTarget
  CommitOfBase <- SmallBase
  MaxTaskCommands = 3
  MaxTaskEdits = 1
  MaxTaskCrashes = 1
  Learners = {p1}
  LearningRepos = {1, 2}
  Promoters = {1}
  RegistryFiles <- SmallRegistries
  LearningDays = {2}
  LeastRepositories = 2
  LeastClassified = 2
  LeastPrecision = 95
  MostCost = 30
  MostDays = 1
  MaxRegistryEdits = 2
  MaxAggregates = 2
  MaxDecisions = 1
  MaxChecks = 1
  GateCapabilities <- SmallCapabilities
  RepoInvariants <- SmallInvariants
  VerifyPolicies <- SmallPolicies
  VerifyWorlds <- SmallWorlds
  SkillRepos = {"r"}
  PackIds = {"u", "k", "o", "c", "d"}
  MatchableText <- SmallText
  OfferedPacks <- SmallPacks
  SkillSettings <- SmallSections
  OwnedPacks <- SmallOwn
  PackCorpus <- SmallCorpus
  UserSettings <- SmallUsers
  PackScore <- SmallScore
  ReviewRequests <- SmallRequested
  MaxSkillCommands = 2
  MaxSkillAudits = 2
  MaxSkillDeaths = 1
  CoreGates <- SmallGates
  CommandedGates = {"lint"}
  StrictGates = {"lint"}
  MobileGate = "mobile"
  HookGate = "hook"
  GuidedGates = {"lint"}
  BroadRubrics <- SmallBroad
  AboutRubric <- SmallAbout
  NamesOfEvidence <- SmallEvidenceNames
  NamesInContract <- SmallNames
  NamesInProfile <- SmallNames
  AdoptedRepos <- Adopting
  RepoBecomes <- AdoptingBecomes
  Certifiers = {p1, p2}
  MaxCertifications = 2
  MaxCertifierDeaths = 1
  WalkedFiles <- SmallFiles
  PathTraits <- SmallTraits
  PathTexts <- SmallTexts
  SecuritySettings <- SmallSettings
  CommandOffers <- SmallOffers
  MaxSecurityAudits = 2
  MaxSecurityEdits = 1
  ScopeWalk <- SmallWalk
  DirsAbove <- SmallAbove
  NeverRead = {"vendor"}
  GeneratedDirs = {}
  IgnoredDirs = {"vendor"}
  DefaultExclusions = {"vendor"}
  MaxFilesRead = 3
  Appliers = {p1}
  MarkedDirs = {"apiCache", "gen"}
  HeavyDirs = {"big", "genSrc"}
  ProtectedNames = {"apiCache", "genSrc"}
  ReviewerReports <- SmallReports
  HandConfigs <- SmallConfigs
  AuditRequests <- SmallRequests
  MaxHandEdits = 1
  MaxNewCommits = 1
  ScanRows = {s1, s2, s3}
  ScanCandidates = {c1}
  MissingKinds = {m1}
  ReviewKinds = {g1}
  RowFile <- SmallRowFile
  RowCategory <- SmallRowCategory
  FileSlug <- SmallSlug
  LedgerRuns = {r1, r2}
  RetainedCounts = {1}
  MaxLedgerEdits = 1
  FirstAccepted = {s1, c1}
  Chosen = {"baseline", "waves", "ledger", "verification", "loop", "evidence",
            "skills", "delivery", "closure", "rollout"}
SYMMETRY Symmetry
INVARIANTS
  SamplesAreSound WavesAreLeast OpenFindingsPlannedOnce
  ResolvedOnlyByDecision VerdictIsEarned ReportsAgree
  DeltasAreEarned ResolvedIsGone ReleaseIsReviewed DeliveriesAreWhole
  ClosuresAreEarned ReportsAreEarned
PROPERTIES AcceptanceIsKept CommandsAreAdditive
CHECK_DEADLOCK FALSE
