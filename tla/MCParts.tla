------------------------------- MODULE MCParts -------------------------------
(* The parts of Quality Runner that are modelled one by one, each on a small *)
(* instance. A behaviour is one of one part; the parts never meet, so they   *)
(* share their variables.                                                    *)
EXTENDS TimeoutBaseline, TLC

CONSTANTS
  Plain, NoReport, Torn, Cycle, Nothing, s1, s2, s3, c1, m1, g1, fileA, fileB, slug,
  r1, r2, p1, p2, f1, f2, NoFinding, Missing, Absent,
  Chosen, \* the parts of a run
  \* The parts that are proved about take what follows, whatever it is.
  Workers, Contents, MaxScans, MaxEdits,            \* the caches
  Tracked, Untracked, Inside, Branches, MaxChanges, \* InventoryCache
  SourceFiles, RuleSets, MaxEntries, MaxTime,       \* AnalysisCache
  Tools, Trees,                                     \* SimilarityCache
  Controllers, MaxGates, Generated, GateFindings, MaxAnswers, MaxCrashes, MaxReaudits, \* GateRun
  Users, Issues, IssueStatuses, MaxCommands,      \* KnownIssues
  FleetRepos, FleetWorlds, MaxAudits, MaxMoves, MaxDeaths,           \* the fleet
  AuditDays, MaxAge, RefreshDays, Outputs,                           \* FleetAudit, DetectorRefresh
  RunNames, OwedFlaws, OwedKeys, ScanCounts, AgentPlans, LongerNames, DeferredChecks, \* Delivery
  PhaseFiles, SourceFindings, PhaseContracts, Acceptances, SensitiveFiles, \* PhaseClosure
  RolloutFiles, RepositoryLists, RunVerdicts, ReportClaims, Generates, MaxCommits, \* Rollout
  LoopFiles, PackageFiles, PrintedNames, UnlistedFiles, CommittedTrees, \* ReviewLoop
  FlawedContents, FilelessContents, GitFailures, MaxReviews, MaxHistory,
  TaskPaths, ConfigName, EntryOrder, WorkContents, SpotsOf, WorkConfigs, \* TaskWorkflow
  ToolVersions, CommitOfHead, CommitOfTarget, CommitOfBase, MaxTaskCommands, MaxTaskEdits,
  MaxTaskCrashes,
  Learners, LearningRepos, Promoters, RegistryFiles, LearningDays, LeastRepositories, \* BugLearning
  LeastClassified, LeastPrecision, MostCost, MostDays, MaxRegistryEdits, MaxAggregates,
  MaxDecisions, MaxChecks,
  GateCapabilities, RepoInvariants, VerifyPolicies, VerifyWorlds,     \* Verification
  SkillRepos, PackIds, MatchableText, OfferedPacks, SkillSettings, OwnedPacks, \* QualitySkills
  PackCorpus, UserSettings, PackScore, ReviewRequests, MaxSkillCommands, MaxSkillAudits,
  MaxSkillDeaths,
  CoreGates, CommandedGates, StrictGates, MobileGate, HookGate, GuidedGates,   \* GateAdoption
  BroadRubrics, AboutRubric, NamesOfEvidence, NamesInContract, NamesInProfile, AdoptedRepos,
  RepoBecomes, Certifiers, MaxCertifications, MaxCertifierDeaths,
  WalkedFiles, PathTraits, PathTexts, SecuritySettings, CommandOffers,         \* SecurityScan
  MaxSecurityAudits, MaxSecurityEdits,
  ScopeWalk, DirsAbove, NeverRead, GeneratedDirs, IgnoredDirs, DefaultExclusions, \* Exclusions
  MaxFilesRead, Appliers, MarkedDirs, HeavyDirs, ProtectedNames, ReviewerReports, HandConfigs,
  AuditRequests, MaxHandEdits, MaxNewCommits,
  ScanRows, ScanCandidates, MissingKinds, ReviewKinds, RowFile, RowCategory, FileSlug, \* FindingLedger
  LedgerRuns, RetainedCounts, MaxLedgerEdits, FirstAccepted

ASSUME CachesAssumption ==
  /\ Nothing \notin Contents /\ Nothing \notin [Tracked -> Contents]
  /\ Untracked \notin Tracked /\ Inside \notin Tracked /\ Untracked # Inside
  /\ None \notin Nat

\* TimeoutBaseline, which is proved about, has variables of its own.
VARIABLES part, a, b, c, d, e, f, g, h, i, j

shared == <<a, b, c, d, e, f, g, h, i, j>>

parts == <<part, repo, cache, refresh, started, whole, a, b, c, d, e, f, g, h, i, j>>

(* TimeoutBaseline: options with another gate timeout, a focus, a total of    *)
(* one's own; a fast refresh and a slow one; a checkout and its changes.     *)
Small == [gate |-> 120, explicit |-> <<>>, execute |-> TRUE, overlay |-> FALSE,
          focus |-> FALSE, ambiguous |-> FALSE]

SmallOptions ==
  {Small, [Small EXCEPT !.gate = 400], [Small EXCEPT !.focus = TRUE],
   [Small EXCEPT !.explicit = [total |-> 100]]}

Took(inspect, run, verify) == [inspect |-> inspect, run |-> run, verify |-> verify]

SmallWorks == {Took(10, 200, 40), Took(50, 20, 150)}

SmallRepositories ==
  {[static |-> "s1", plan |-> "g1", validated |-> TRUE], [static |-> "s2", plan |-> "g1", validated |-> FALSE],
   [static |-> "s1", plan |-> "g2", validated |-> TRUE]}

Values == INSTANCE PartsValues

Shared == INSTANCE SharedValues

\* Values of the constants that a configuration cannot write down.
SmallFleet == Shared!SmallFleet

SmallOwed == Values!DeliverySources

SmallOwedKeys == Values!DeliveryKeys

SmallLonger == Values!NamesWithin

SmallPlans == Values!NativePlans

SmallFindings == Values!ClosureSources

SmallPhases == Values!ClosurePhases

SmallDecisions == {{}, {Values!InA(1)}}

SmallCommits == Values!LoopTrees(Absent)

SmallPrints == Values!LoopNames

SmallLists == {<<"gone", "r">>, <<"r">>}

SmallVerdicts == Values!Verdicts(None)

SmallClaims == Values!WorkerClaims(None)

SmallEntries == Shared!TaskEntries

SmallSpots == Shared!TaskSpots

SmallContents == Shared!TaskContents

SmallRules == Shared!TaskConfigs

SmallHead == Shared!TaskHead

SmallTarget == Shared!TaskTarget

SmallBase == Shared!TaskBase

SmallCapabilities == Values!SmallCapability

SmallInvariants == Values!SmallInvariant

SmallPolicies == Values!SmallPolicies

SmallWorlds == Values!SmallWorlds

SmallRegistries == Values!BugRegistries

SmallText == Values!SkillText

SmallPacks == Values!SkillCandidates

SmallSections == Values!SkillSections

SmallOwn == Values!SkillOwn

SmallCorpus == Values!SkillCorpus

SmallUsers == Values!SkillGlobals

SmallScore == Values!SkillScore

SmallRequested == {None, "parallel"}

SmallFiles == Values!SecurityFiles

SmallTraits == Values!SecurityTraits

SmallTexts == Values!SecurityTexts

SmallSettings == Values!SecurityPolicies

SmallOffers == Values!SecurityOffers

SmallWalk == Shared!SmallWalk

SmallAbove == Shared!SmallAbove

SmallReports == Shared!SmallReports

SmallConfigs == Shared!SmallConfigs

SmallRequests == Shared!SmallRequests

W == INSTANCE SliceWaves WITH
       N <- 3, Priorities <- {"high", "low"},
       priority <- a, needs <- b, numbered <- c, waves <- d

\* Two files whose paths differ only in characters that a slug drops, rows of
\* both planning families, a candidate, a missing capability, an agent review.
SmallRowFile == (s1 :> fileA) @@ (s2 :> fileA) @@ (s3 :> fileB)

SmallRowCategory == (s1 :> "simplify") @@ (s2 :> "integrate") @@ (s3 :> "integrate")

SmallSlug == (fileA :> slug) @@ (fileB :> slug)

L == INSTANCE FindingLedger WITH
       Structural <- ScanRows, Candidate <- ScanCandidates, Capability <- MissingKinds,
       ReviewGate <- ReviewKinds, FileOf <- RowFile, CategoryOf <- RowCategory,
       SlugOf <- FileSlug, RunId <- LedgerRuns, KeptCounts <- RetainedCounts,
       MaxEdits <- MaxLedgerEdits,
       scan <- a, config <- b, store <- c, gates <- d, result <- e, accepted <- f, edits <- g

V == INSTANCE Verification WITH
       Capability <- GateCapabilities, Invariant <- RepoInvariants,
       Policies <- VerifyPolicies, Worlds <- VerifyWorlds,
       world <- a, policy <- b, pc <- c, done <- d, scan <- e, partial <- f, final <- g,
       handoff <- h

K == INSTANCE KnownIssues WITH
       Fingerprints <- Issues, Statuses <- IssueStatuses,
       file <- a, command <- b, given <- c, removed <- d

I == INSTANCE InventoryCache WITH
       Processes <- Workers,
       repo <- a, cache <- b, scan <- c, shown <- d, changes <- e, raced <- f

A == INSTANCE AnalysisCache WITH
       Scanners <- Processes, Files <- SourceFiles, Configs <- RuleSets,
       source <- a, now <- b, blurred <- c, index <- d, entries <- e, scan <- f, served <- g,
       scans <- h, edits <- i

\* A repository of one language and of two, and one without sources.
SmallTrees == Values!SimilarityTrees

N == INSTANCE SimilarityCache WITH
       Processes <- Workers,
       tree <- a, installed <- b, index <- c, entries <- d, job <- e, shown <- f, raced <- g,
       scans <- h, edits <- i

G == INSTANCE GateRun WITH
       Procs <- Controllers, Findings <- GateFindings,
       gate <- a, history <- b, ledger <- c, pc <- d, job <- e, answers <- f, crashes <- g,
       reaudits <- h

ASSUME GatesAssumption ==
  /\ MaxGates \in Nat /\ MaxAnswers \in Nat
  /\ Nothing \notin G!Statuses /\ Torn \notin G!Statuses /\ Nothing # Torn
  /\ Nothing \notin G!Answers /\ NoFinding \notin GateFindings

\* HEAD has a violation more than the target revision.
T == INSTANCE TaskWorkflow WITH
       Procs <- Workers, Paths <- TaskPaths, Entries <- EntryOrder, ConfigFile <- ConfigName,
       Contents <- WorkContents, Spots <- SpotsOf, Configs <- WorkConfigs,
       Tools <- ToolVersions, HeadTree <- CommitOfHead, TargetTree <- CommitOfTarget,
       BaseTree <- CommitOfBase, MaxCommands <- MaxTaskCommands, MaxEdits <- MaxTaskEdits,
       MaxCrashes <- MaxTaskCrashes,
       work <- a, tools <- b, record <- c, baselines <- d, checks <- e, pc <- f, job <- g,
       commands <- h, edits <- i, crashes <- j

\* Two audits of one repository; and two refreshes, in two output directories.
F == INSTANCE FleetAudit WITH
       Procs <- Workers, Repos <- FleetRepos, Worlds <- FleetWorlds, Days <- AuditDays,
       MaxCrashes <- MaxDeaths,
       world <- a, audits <- b, trees <- c, feed <- d, passes <- e, repeated <- f, pc <- g,
       job <- h, spent <- i

D == INSTANCE DetectorRefresh WITH
       Procs <- Workers, Repos <- FleetRepos, Worlds <- FleetWorlds, Days <- RefreshDays,
       MaxRefreshes <- MaxAudits, MaxCrashes <- MaxDeaths,
       world <- a, trees <- b, runs <- c, ledgers <- d, spoiled <- e, pc <- f, job <- g,
       spent <- h

E == INSTANCE ExclusionPreflight WITH
       Walk <- ScopeWalk, Above <- DirsAbove, Always <- NeverRead, Generated <- GeneratedDirs,
       Ignored <- IgnoredDirs, Default <- DefaultExclusions, MaxTextFiles <- MaxFilesRead,
       Processes <- Appliers, Marked <- MarkedDirs, Heavy <- HeavyDirs,
       Protected <- ProtectedNames, Reports <- ReviewerReports, UserConfigs <- HandConfigs,
       Requests <- AuditRequests, MaxEdits <- MaxHandEdits, MaxCommits <- MaxNewCommits,
       config <- a, commit <- b, packet <- c, job <- d, latest <- e, edits <- f

Holds(scripts, files, contract, commands, mobile) ==
  [scripts |-> scripts, config |-> files, contract |-> contract, commands |-> commands,
   required |-> {}, mobile |-> mobile]

\* Gates with part of the evidence and with all of it, one that is skipped, one
\* that only the contract knows, and a placeholder for a command.
Adopting ==
  {Holds({}, {"lint"}, {}, <<>>, FALSE), Holds({"lint"}, {}, {}, <<>>, TRUE),
   Holds({"lint"}, {}, {"lint"}, <<>>, FALSE),
   Holds({}, {}, {"mobile"}, "lint" :> "real", TRUE),
   Holds({"mobile"}, {}, {"lint"}, "lint" :> "placeholder", FALSE)}

AdoptingBecomes ==
  Holds({"lint"}, {}, {"lint"}, <<>>, FALSE) :> Holds({}, {"lint"}, {"mobile"}, <<>>, FALSE)

SmallGates == <<"lint", "mobile">>

SmallBroad == <<"runtime">>

SmallAbout == "runtime" :> {"lint", "mobile"}

SmallNames == "lint" :> {"lint"} @@ "mobile" :> {"mobile"}

SmallEvidenceNames == "lint" :> {} @@ "mobile" :> {"mobile"}

C == INSTANCE GateAdoption WITH
       Gates <- CoreGates, Commanded <- CommandedGates, Strict <- StrictGates,
       Mobile <- MobileGate, Hook <- HookGate, Guided <- GuidedGates, Broad <- BroadRubrics,
       About <- AboutRubric, EvidenceNames <- NamesOfEvidence,
       ContractNames <- NamesInContract, ProfileNames <- NamesInProfile,
       Repos <- AdoptedRepos, Becomes <- RepoBecomes, Processes <- Certifiers,
       MaxCommands <- MaxCertifications, MaxDeaths <- MaxCertifierDeaths,
       repo <- a, disk <- b, job <- c, report <- d, spent <- e

\* Two flaws of one rule in two files.
S == INSTANCE CodexEvidence WITH
       Flaws <- {1, 2}, Paths <- {"a", "b"}, PathOf <- (1 :> "a" @@ 2 :> "b"),
       RuleOf <- (1 :> 1 @@ 2 :> 1), Editions <- ("baseline" :> {1} @@ "current" :> {1, 2}),
       TextOf <- Values!EvidenceTexts, Styles <- {"sarif", "ids"}, MaxChanges <- 1,
       code <- a, disk <- b, changes <- c

Q == INSTANCE QualitySkills WITH
       Repos <- SkillRepos, Ids <- PackIds, Text <- MatchableText,
       Candidates <- OfferedPacks, Sections <- SkillSettings, OwnPacks <- OwnedPacks,
       Corpus <- PackCorpus, Globals <- UserSettings, Score <- PackScore,
       Requested <- ReviewRequests, MaxCommands <- MaxSkillCommands,
       MaxAudits <- MaxSkillAudits, MaxDeaths <- MaxSkillDeaths,
       section <- a, files <- b, corpus <- c, global <- d, writes <- e, audit <- f, handoff <- g,
       spent <- h

\* A route that comes and goes changes what the other files are asked for.
U == INSTANCE SecurityScan WITH
       Files <- WalkedFiles, Traits <- PathTraits, Texts <- PathTexts,
       Policies <- SecuritySettings, Offers <- CommandOffers, MaxAudits <- MaxSecurityAudits,
       MaxEdits <- MaxSecurityEdits,
       source <- a, policy <- b, offer <- c, cache <- d, job <- e, report <- f, audits <- g,
       edits <- h

\* Two repositories, of which the first holds a candidate-linked invariant.
B == INSTANCE BugLearning WITH
       Procs <- Learners, Repos <- LearningRepos, Promoting <- Promoters,
       Registries <- RegistryFiles, Days <- LearningDays, MinRepositories <- LeastRepositories,
       MinClassified <- LeastClassified, MinPrecision <- LeastPrecision, MaxCost <- MostCost,
       MaxAge <- MostDays, MaxEdits <- MaxRegistryEdits,
       registry <- a, fleet <- b, decision <- c, receipt <- d, job <- e, recorded <- f,
       approved <- g, spent <- h

\* A source and a manifest that may be missing; the baseline's git call may fail.
Y == INSTANCE ReviewLoop WITH
       Files <- LoopFiles, Packages <- PackageFiles, GitName <- PrintedNames,
       Ignored <- UnlistedFiles, Trees <- CommittedTrees,
       Flawed <- FlawedContents, Adrift <- FilelessContents, Failures <- GitFailures,
       MaxRuns <- MaxReviews, MaxCommits <- MaxHistory,
       commits <- a, head <- b, work <- c, runs <- d, job <- e, delta <- f, compared <- g,
       spent <- h

J == INSTANCE Delivery WITH
       RunIds <- RunNames, Sources <- OwedFlaws, KeysOf <- OwedKeys, CacheCounts <- ScanCounts,
       Plans <- AgentPlans, PartOf <- LongerNames, Deferred <- DeferredChecks,
       source <- a, runs <- b, contracts <- c, receipt <- d, result <- e, spent <- f,
       inventory <- g, captured <- h

P == INSTANCE PhaseClosure WITH
       Files <- PhaseFiles, RunIds <- RunNames, Sources <- SourceFindings,
       Phases <- PhaseContracts, Decisions <- Acceptances, Sensitive <- SensitiveFiles,
       MaxEdits <- MaxChanges,
       source <- a, config <- b, phase <- c, runs <- d, closure <- e, decided <- f, spent <- g

R == INSTANCE Rollout WITH
       Files <- RolloutFiles, Lists <- RepositoryLists, Verdicts <- RunVerdicts,
       Claims <- ReportClaims, Artifacts <- Generates,
       list <- a, head <- b, dirty <- c, job <- d, rows <- e, ledger <- f, lint <- g, spent <- h

\* What gate verification and audits call their outcomes, and that a workflow
\* that timed out is blocked; what is None is nothing else.
ASSUME VerdictsAssumption ==
  /\ None \notin RunVerdicts
  /\ None \notin {"passed", "failed", "blocked", "skipped-nonlocal", "clean", "findings", "completed"}
  /\ \A v \in RunVerdicts :
       /\ v.status \in {None, "passed", "failed", "blocked", "skipped-nonlocal"}
       /\ v.audit \in {None, "clean", "findings"}
       /\ v.timeout \in BOOLEAN /\ (v.timeout => v.status = "blocked")

\* The configuration is no source file, and rules report what has violations.
ASSUME TaskAssumption ==
  /\ ConfigName \notin TaskPaths /\ ConfigName \in T!EntrySet
  /\ \A tree \in {CommitOfHead, CommitOfTarget, CommitOfBase} : ConfigName \in DOMAIN tree
  /\ \A rules \in T!Judges : rules.reports \subseteq DOMAIN SpotsOf
  /\ \A x \in DOMAIN SpotsOf : SpotsOf[x] \in Seq(Nat)

\* Finitely many repositories with finitely many observations, each of a day.
ASSUME LearningAssumption ==
  /\ IsFiniteSet(LearningRepos) /\ Promoters \subseteq LearningRepos
  /\ LearningDays \subseteq Int /\ MostDays \in Int /\ LeastPrecision \in Int
  /\ \A r \in LearningRepos : \A reg \in RegistryFiles[r] \ {None} :
       /\ reg.candidates \in Seq({reg.candidates[x] : x \in DOMAIN reg.candidates})
       /\ \A x \in DOMAIN reg.candidates :
            /\ IsFiniteSet(reg.candidates[x].seen)
            /\ \A o \in reg.candidates[x].seen : o.at \in Int

\* Gates have names that are ordered; an evidence file says one of its words, or
\* is of no use.
ASSUME VerificationAssumption ==
  /\ Plain # "advisory" /\ NoReport \notin {"merge-ready", "failed", "blocked", "passed"}
  /\ \A x \in DOMAIN GateCapabilities :
       GateCapabilities[x].cost \in Nat /\ GateCapabilities[x].alpha \in Nat
  /\ \A x, y \in DOMAIN GateCapabilities :
       GateCapabilities[x].alpha = GateCapabilities[y].alpha => x = y
  /\ \A w \in VerifyWorlds : \A x \in DOMAIN RepoInvariants :
       w.proof[x] \in {None, "passed", "failed", "blocked", "unknown", "stale"}

\* A repository is no file that is missing or empty; a rubric is of a gate, or of
\* all gates it is about.
ASSUME AdoptionAssumption ==
  /\ None \notin AdoptedRepos /\ Torn \notin AdoptedRepos
  /\ \A r \in DOMAIN RepoBecomes : RepoBecomes[r] \notin {None, Torn}
  /\ CoreGates \in Seq({CoreGates[n] : n \in DOMAIN CoreGates})
  /\ BroadRubrics \in Seq({BroadRubrics[n] : n \in DOMAIN BroadRubrics})
  /\ \A n \in DOMAIN CoreGates : \A m \in DOMAIN BroadRubrics : CoreGates[n] # BroadRubrics[m]

\* The walk comes to every file once.
ASSUME SecurityAssumption ==
  /\ WalkedFiles \in Seq({WalkedFiles[n] : n \in DOMAIN WalkedFiles})
  /\ \A n, m \in DOMAIN WalkedFiles : WalkedFiles[n] = WalkedFiles[m] => n = m

\* A directory is in itself, and in whatever its own are in.
ASSUME ScopeAssumption ==
  /\ ScopeWalk \in Seq({ScopeWalk[n] : n \in DOMAIN ScopeWalk})
  /\ MaxFilesRead \in Nat
  /\ \A n \in DOMAIN ScopeWalk :
       /\ ScopeWalk[n] \in DirsAbove[ScopeWalk[n]]
       /\ \A x \in DirsAbove[ScopeWalk[n]] :
            x \in E!Dirs /\ DirsAbove[x] \subseteq DirsAbove[ScopeWalk[n]]

\* What a scan reports has an id of one kind.
ASSUME LedgerAssumption ==
  /\ ScanRows \cap ScanCandidates = {}
  /\ ScanRows \cap L!AuditFindings(L!Reportable) = {}

ASSUME LoopAssumption == IsFiniteSet(LoopFiles) /\ PackageFiles \subseteq LoopFiles

ASSUME FleetAssumption ==
  /\ FleetRepos \subseteq Nat /\ None # Torn
  /\ \A there \in SUBSET FleetRepos :
       LET targets == [there -> {F!Target(w) : w \in FleetWorlds \ {None}}]
       IN  None \notin targets /\ Torn \notin targets

\* The variables a part does not use keep one value.
UnusedFromI == i = 0 /\ j = 0

UnusedFromH == h = 0 /\ UnusedFromI

UnusedFromG == g = 0 /\ UnusedFromH

UnusedFromF == f = 0 /\ UnusedFromG

UnusedFromE == e = 0 /\ UnusedFromF

NoBaseline ==
  /\ repo = None /\ cache = None /\ refresh = None /\ started = 0 /\ whole = {}

PartsInit ==
  /\ part \in Chosen
  /\ \/ part = "baseline" /\ Init /\ a = 0 /\ b = 0 /\ c = 0 /\ d = 0 /\ UnusedFromE
     \/ /\ NoBaseline
        /\ \/ part = "waves" /\ W!Init /\ UnusedFromE
           \/ part = "ledger" /\ L!Init /\ DOMAIN b \subseteq FirstAccepted /\ UnusedFromH
           \/ part = "exclusions" /\ E!Init /\ UnusedFromG
           \/ part = "adoption" /\ C!Init /\ UnusedFromF
           \/ part = "evidence" /\ S!Init /\ d = 0 /\ UnusedFromE
           \/ part = "skills" /\ Q!Init /\ UnusedFromI
           \/ part = "security" /\ U!Init /\ UnusedFromI
           \/ part = "learning" /\ B!Init /\ UnusedFromI
           \/ part = "loop" /\ Y!Init /\ UnusedFromI
           \/ part = "delivery" /\ J!Init /\ UnusedFromI
           \/ part = "closure" /\ P!Init /\ UnusedFromH
           \/ part = "rollout" /\ R!Init /\ UnusedFromI
           \/ part = "verification" /\ V!Init /\ UnusedFromI
           \/ part = "issues" /\ K!Init /\ UnusedFromE
           \/ part = "inventory" /\ I!Init /\ UnusedFromG
           \/ part = "cache" /\ A!Init /\ j = 0
           \/ part = "similarity" /\ N!Init /\ j = 0
           \/ part = "gates" /\ G!Init /\ UnusedFromI
           \/ part = "task" /\ T!Init /\ b = "v1"
           \/ part = "fleet" /\ F!Init /\ j = 0
           \/ part = "detector" /\ D!Init /\ UnusedFromI

PartsNext ==
  /\ UNCHANGED part
  /\ \/ part = "baseline" /\ Next /\ UNCHANGED shared
     \/ /\ UNCHANGED vars
        /\ \/ part = "waves" /\ W!Plan /\ UNCHANGED <<e, f, g, h, i, j>>
           \/ part = "ledger" /\ L!Next /\ UNCHANGED <<h, i, j>>
           \/ part = "exclusions" /\ E!Next /\ UNCHANGED <<g, h, i, j>>
           \/ part = "adoption" /\ C!Next /\ UNCHANGED <<f, g, h, i, j>>
           \/ part = "evidence" /\ S!Next /\ UNCHANGED <<d, e, f, g, h, i, j>>
           \/ part = "skills" /\ Q!Next /\ UNCHANGED <<i, j>>
           \/ part = "security" /\ U!Next /\ UNCHANGED <<i, j>>
           \/ part = "learning" /\ B!Next /\ UNCHANGED <<i, j>>
           \/ part = "loop" /\ Y!Next /\ UNCHANGED <<i, j>>
           \/ part = "delivery" /\ J!Next /\ UNCHANGED <<i, j>>
           \/ part = "closure" /\ P!Next /\ UNCHANGED <<h, i, j>>
           \/ part = "rollout" /\ R!Next /\ UNCHANGED <<i, j>>
           \/ part = "verification" /\ V!Next /\ UNCHANGED <<i, j>>
           \/ part = "issues" /\ K!Next /\ UNCHANGED <<e, f, g, h, i, j>>
           \/ part = "inventory" /\ I!Next /\ UNCHANGED <<g, h, i, j>>
           \/ part = "cache" /\ A!Next /\ UNCHANGED j
           \/ part = "similarity" /\ N!Next /\ UNCHANGED j
           \/ part = "gates" /\ G!Next /\ UNCHANGED <<i, j>>
           \/ part = "task" /\ T!Next
           \/ part = "fleet" /\ F!Next /\ UNCHANGED j
           \/ part = "detector" /\ D!Next /\ UNCHANGED <<i, j>>

Parts == PartsInit /\ [][PartsNext]_parts

Symmetry == Permutations({r1, r2}) \cup Permutations({p1, p2}) \cup Permutations({f1, f2})

-----------------------------------------------------------------------------
(* SliceWaves: waves are the lowest there can be, and missing for a cycle.   *)
WavesAreLeast == part = "waves" => W!WavesAreLeast

(* FindingLedger: planning loses no open finding and plans none twice.       *)
OpenFindingsPlannedOnce == part = "ledger" => L!OpenFindingsPlannedOnce

(* FindingLedger: what leaves the plan was accepted by somebody.             *)
ResolvedOnlyByDecision == part = "ledger" => L!ResolvedOnlyByDecision

(* FindingLedger: the next audit keeps what the latest one settled.          *)
AcceptanceIsKept == [][part = "ledger" => L!KeepsAcceptance]_parts

(* Verification: a pass is earned by every gate and invariant it rests on.   *)
VerdictIsEarned == part = "verification" => V!VerdictIsEarned

(* Verification: what the plan of a run announces, what was executed, the    *)
(* outcome and the handoff do not contradict each other.                     *)
ReportsAgree == part = "verification" => V!AnnouncedIsRun /\ V!ProjectionsAgree

(* ExclusionPreflight: apply takes out what the reviewer approved, and what  *)
(* a scan leaves out it says.                                                *)
ExclusionsAreHonest == part = "exclusions" => E!AppliedAsApproved /\ E!LeftOutIsReported

(* TaskWorkflow: a pass is earned against the baseline it names, and the     *)
(* record's baseline ends a lineage of whole baselines.                      *)
TaskPassIsEarned == part = "task" => T!PassIsEarned /\ T!LineageIsWhole

(* GateAdoption: documents that are called ready were whole.                 *)
ReadyDocumentsAreWhole == part = "adoption" => C!ReadyDocumentsAreWhole

(* GateAdoption: matrix, rubrics and plan agree about every gate.            *)
ProjectionsOfGatesAgree == part = "adoption" => C!ProjectionsOfGatesAgree

(* CodexEvidence: what is called resolved is gone, clean leaves nothing known. *)
ResolvedIsGone == part = "evidence" => S!ResolvedIsGone

(* QualitySkills: ingesting and synchronizing only add to what is checked. *)
CommandsAreAdditive == [][part = "skills" => Q!KeepsCoverage]_parts

(* QualitySkills: a release without open reviews was reviewed.             *)
ReleaseIsReviewed == part = "skills" => Q!ReleaseIsReviewed

(* SecurityScan: what an audit reports is what it would find, and is asked for. *)
CandidatesAreAnswered == part = "security" => U!CandidatesAreAnswered

(* BugLearning: a required gate was earned by evidence that was approved.  *)
PromotionIsEarned == part = "learning" => B!PromotionIsEarned

(* ReviewLoop: a delta that says to stop, or that nothing changed, is right. *)
DeltasAreEarned == part = "loop" => Y!DeltasAreEarned

(* Delivery: what is ready or reconciled answers every flaw owed.          *)
DeliveriesAreWhole == part = "delivery" => J!DeliveriesAreWhole

(* PhaseClosure: a passed phase is clean where it was scanned.             *)
ClosuresAreEarned == part = "closure" => P!ClosuresAreEarned

(* Rollout: an accepted report is of a sound run and a clean tree.         *)
ReportsAreEarned == part = "rollout" => R!ReportsAreEarned

(* GateRun: a closed gate run stays closed, and no decision gives way to an  *)
(* older one while all runs are whole.                                       *)
DecisionsStand == [][part = "gates" => G!StaysClosed /\ G!KeepsReadableDecisions]_parts

(* FleetAudit: the feed is of one audit, and what it calls passed did pass.  *)
FeedIsEarned == part = "fleet" => F!FeedIsEarned

(* DetectorRefresh: the runs of a refresh are published all or not at all.   *)
PublishedIsWhole == part = "detector" => D!PublishedIsWhole

(* KnownIssues: no fingerprint twice, and no id twice before a removal.      *)
IssuesStayApart == part = "issues" => K!IssuesStayApart

(* InventoryCache, SimilarityCache: what is cached shows what its key names, *)
(* and an index names what is there.                                         *)
HitShowsWhatIsKeyed ==
  /\ part = "inventory" => I!HitShowsWhatIsKeyed
  /\ part = "similarity" => N!ReportIsOfItsKey /\ N!MissIsExplained

(* AnalysisCache: a result is of these rules and of a content of this scan.  *)
ServedIsOfThisScan == part = "cache" => A!ServedIsOfThisScan
==============================================================================
