# Quality Runner in TLA+

Formal models of Quality Runner, the local tool under `src/quality_runner` that
audits a repository, plans remediation and leaves reviewable evidence under
`.quality-runner/` and `.planning/quality-runner/`, and of the gate certifier
beside it (`src/repo_quality_certifier`). Neither edits the audited sources. What
can go wrong is therefore rarely a computed value: it is the state on disk after
several short-lived processes (CLI commands, MCP calls, an agent, a reviewer)
have read and rewritten the same files, with hardly any locks, while somebody
edits and commits and some of the processes have died or timed out half-way. The
models are about that state, and about the decisions that are taken from it.

Conventions used throughout:

- A process is a `pc` and a `job` (what it has read so far). One action reads or
  writes one file, because that is the unit in which commands interleave. Where
  only one process is modelled the job still takes several steps, between which
  the repository changes or the process dies.
- Files hold model values or small records, never text. A file that is rewritten
  in place is torn while it is written; one that is replaced by `os.replace` is
  not.
- A source file is what the properties tell apart of it: the flaws in it, the
  patterns its lines match, a version. A hash is the content it is a hash of.
- A death drops the process's memory and its `flock` and keeps the files.
- Operators whose comment starts with "Mutant:" are deliberate faults. Nothing in
  a specification refers to them. Each is the form a plausible bug would give to
  the definition that follows it, and `PROJECT.json` says which property notices.
- Variables that only remember something for a property (what was approved, who
  settled a finding, what the tree really was) are called history variables where
  they are declared or set, and no guard reads them.

## 1. Inventory

| Part | State it keeps | Operations | What is hard |
|---|---|---|---|
| Fresh Review (`review_execution_artifacts.py`, `application/fresh_review.py`, `cli_review.py`) | fourteen files of one run directory, an advisory lock | prepare, complete, record a failure | several processes, deaths between writes, answers that are stale, replaced or malformed |
| Gate controller (`gate_controller.py`, `gate_resolution_bridge.py`) | `gate-run.json`, `gate-responses.jsonl`, dispositions in `resolution-ledger.json` | gate, gate-respond, the replay of dispositions on an audit | the same decision stored twice, in-place rewrites, replay order |
| Phase planning (`phase_*.py`) | `ROADMAP.md`, `STATE.md`, plan and verification files | plan auto, phase add, plan, record-batch, update, verify, close | derived state in four kinds of file, rewritten one after another |
| Phase contract and closure (`phase_contract.py`, `phase_closure.py`) | a contract, scans scoped by it | audit, close | which audit, of which scope, of which source a closure rests on |
| Refresh (`refresh_workflow.py`, `refresh_timeout.py`, `worktree_verify.py`) | one SIGALRM, a disposable checkout, `gate-verification.json` | inspect, run, verify, summary, timeout finalization | an exception that may strike anywhere, nested deadlines, cleanup |
| Timeout baseline (`timeout_baseline*.py`) | the learned budgets and their samples | resolve, record | feedback from a refresh to the next one |
| Verification (`gate_execution*.py`, `gate_verification.py`, `invariants.py`, `readiness*.py`, `outcome_projection*.py`, `handoff_*.py`) | results of the gates so far, plan, outcome, handoff | run, skip, cover, block, conclude | precedence of reasons, agreement of what is written in different places |
| Findings (`code_quality_ledger.py`, `security/ledger.py`, `remediation_*.py`, `planning*.py`) | `resolution-ledger.json` from run to run, slices | build, carry, supersede, accept, plan | identity of a finding across runs, which run is the previous one |
| Review loop (`review_delta.py`, `remediation_delta.py`) | deltas of two runs | refresh, compare | commits and edits while a baseline is compared |
| Known issues (`review_state.py`) | `known-issues.json` | accept, edit, remove | reused ids, unlocked rewrites |
| Artifact store (`artifacts.py`) | the run directories | write, preserve, prune | what must not be pruned |
| Caches (`inventory_cache.py`, `incremental_analysis_cache*.py`, `semantic_similarity_cache.py`) | an inventory, scanner results and similarity reports with an index each | look up, store | staleness, edits during a read |
| Task workflow (`task_*.py`) | a record, baselines, checks | start, check, rebaseline | three copies of the configuration, drift, lineage |
| Fleet (`fleet/`) | audit directories, worktrees, a feed, detector runs | audit, publish, refresh of detectors | freshness over many repositories, partial publication |
| Exclusions (`exclusion_preflight*.py`, `scan_exclusions*.py`, `scan_scope*.py`) | a section of the configuration, a packet | preflight, validate, apply; audit with an overlay | approvals that outlive what they approved |
| Security (`security/`) | candidates, a cache of them, outside evidence | scan, import, compare, export | a file's result depends on other files; tables that must agree |
| Skills (`skill_*.py`, `workflow_skills.py`) | packs, the section of a repository, a corpus | ingest, sync, select, review | commands that rewrite what others rely on |
| Bug learning (`bug_learning*.py`) | registries, fleet evidence, decisions, receipts | aggregate, decide, check | evidence that changes after it was approved |
| Delivery (`delivery_contract*.py`) | a contract and a receipt per run | prepare, preflight, reconcile, refresh | a contract of an unfinished or older run |
| Rollout (`rollout.py`, `controller_report*.py`) | reports, a ledger | roll out, report, lint | git read around a refresh |
| Certifier (`repo_quality_certifier/`) | one run directory of documents | scan, matrix, rubrics, plan, validate | unnamed runs share a directory |
| The rest: discovery, text scans, configuration parsing, CLI and MCP | none | derive and render | data, not behaviour |

How they interact: all of them share files. An audit writes a source run; `gate`
opens a gate run over it and an audit of the same run id replays the gate run's
decisions into the ledger; the next audit carries the ledger of the run directory
modified last; `plan auto` reads a source run and writes phases; a phase contract
scopes an audit and a closure reads it; a delivery contract is made of the plan a
run left; `refresh` is an audit, a second one and a verification in one process
under deadlines, learned from earlier refreshes, and ends in a review delta;
`rollout` is a refresh per repository with git calls around it; fleet audits
verify checkouts and reuse each other's evidence; `review` prepares a packet in a
run directory into which a reviewer writes an answer. The only lock is the
`flock` of the Fresh Review finalization, the only thread the progress heartbeat,
the only asynchronous event the deadline's signal.

`PROJECT.json` lists every part under `components` with its files, and under
`hazards` each place where this code can go wrong in a way a test would hardly
reach, with the properties that are about it.

## 2. Modules

| Module | Models | Checked by |
|---|---|---|
| `FreshReview` | one review run directory and the processes that share it | `fresh_review` |
| `ReviewOutcome` | what a Fresh Review promises a reader (abstract) | refined by `FreshReview` |
| `FreshReviewProofs` | theorems about `FreshReview` | |
| `GateRun` | gate runs over one source run and its ledger | `shared_files`, `gate_run_named` |
| `PhasePlanning` | every phase command, file by file | `phase_planning`, `phase_planning_stuck` |
| `PhasePlanningProofs` | theorems about `PhasePlanning` | |
| `SliceWaves` | numbering and waves of plans (pure algorithm) | `conclusions` |
| `Refresh` | phases, deadlines, checkout, gate results | `refresh`, `refresh_inspect` |
| `RefreshProofs` | theorems about `Refresh` | |
| `TimeoutBudgets`, `TimeoutBaseline` | what budgets are learned, used and recorded | `conclusions` |
| `TimeoutBaselineProofs` | theorems about `TimeoutBaseline` | |
| `GateResults`, `Readiness`, `Verification` | which gates run, what they and the release evidence add up to, what is written of it | `conclusions` |
| `RemediationPlan`, `FindingLedger` | findings to slices, and ledgers from run to run | `conclusions`, `finding_ledger_security` |
| `ReviewLoop` | review delta and remediation delta of a moving repository | `conclusions` |
| `KnownIssues` | commands over `known-issues.json` | `shared_files` |
| `InventoryCache`, `AnalysisCache`, `SimilarityCache` | the three caches whose entries may be stale | `shared_files`, `inventory_stale` |
| `TaskWorkflow` | one task from start to check | `shared_files`, `task_policy` |
| `FleetTargets`, `FleetAudit`, `DetectorRefresh` | targets, audits and their feed, detector runs | `shared_files`, `fleet_evidence` |
| `ScanScope`, `ExclusionPreflight` | what a scan reads; how exclusions come about | `shared_files` |
| `SecurityScan`, `CodexEvidence` | candidates and review obligations; imported evidence | `shared_files`, `conclusions` |
| `QualitySkills` | packs, their selection, the agent's report | `conclusions` |
| `BugLearning` | from observed bug to required gate | `shared_files` |
| `Delivery`, `PhaseClosure`, `Rollout` | contracts, closures, controller reports | `conclusions` |
| `GateAdoption` | the certifier's documents | `shared_files` |
| `MCParts` | one small instance of each part that is checked by itself | `shared_files`, `conclusions` |
| `CachesProofs` | theorems about the three caches, `TaskWorkflow`, `ExclusionPreflight` and `SecurityScan` | |
| `RecordsProofs` | theorems about `KnownIssues`, `GateRun`, `Verification`, `RemediationPlan` and `FindingLedger` | |
| `DetectorProofs` | theorems about `DetectorRefresh`, `BugLearning`, `QualitySkills` and `GateAdoption` | |
| `ReportsProofs` | theorems about `PhaseClosure`, `Delivery`, `FleetAudit`, `Rollout` and `ReviewLoop` | |
| `MCDivergences` | the instances of four counterexamples | `finding_ledger_security`, `inventory_stale`, `task_policy`, `fleet_evidence` |
| `MCPhasePlanning`, `MCRefresh` | constants of those runs | |
| `SharedValues`, `PartsValues` | small repositories, worlds, reports and texts for the instances | |

`MCParts` holds twenty-two specifications in one: the variable `part` chooses one
of the run's `Chosen` parts in the initial state and never changes, and the parts
share the variables `a` to `j`, so that a behaviour is one of one part and the
parts do not multiply. A part that does not use a variable keeps it at 0.
`TimeoutBaseline` keeps its own variables, because its theorems are about them. A
part that theorems are about otherwise takes its parameters from the constants of
`MCParts`, with the named assumptions that stand beside its instance; the two
configurations give the constants the small values of the table below, and the
theorems hold for all others.

The modules of the parts take no operators from `SequencesExt`: a proof module
extends all of them, and the provers work through everything in scope at every
leaf. What they need of it (`Without`, `With`, `Listed`) they define in a line.

What follows says of each module how its state and actions correspond to the
code; the line ranges are in `PROJECT.json` under `map`.

### FreshReview

`files` maps the fourteen files to what they say: the packet they were rendered
from and the answer they report (`NotRun` before an answer, `Malformed` after a
rejected one). `BeginPrepare` is the check for existing evidence, after which
`Write` writes the packet files in the order of `Rank`, the lifecycle record
`review-execution.json` last. `BeginComplete` is `load_prepared_review`,
`ReadAnswer` the reviewer's file and its validation, `TryLock` the non-blocking
lock and the re-validation under it (`StillValid`), and `Write` again the evidence
of the closed review. `RefuseOptions`, `ReloadRejected` and `Revalidate` are the
other ends a command can come to. `Submit` is the reviewer, who may answer
another packet than the prepared one or write something malformed.

`ReviewOutcome` says what a reader who looks at the lifecycle record first may
rely on: the packet appears whole, never changes, is closed at most once, and all
evidence of the closed review comes from one answer. `ImplementsReviewOutcome` is
the refinement: the abstract packet is visible when the record is, the abstract
evidence when the record says review-complete.

### GateRun

`gate[g]` is the status in `gate-run.json`, `history[g]` the appended lines,
`ledger` the decisions as last stored. Answering is `ReadRun` (load, refuse a
terminal one), `Append1` (the history line), `Apply`, `TearLedger`, `StoreLedger`
(only for a disposition) and `TearRun`, `SaveRun` (the status). `Replay` is the
merge of all histories, in name order of the gate runs, over a ledger; `Reaudit`
replays over an empty one, which is what an audit of the same run id does. A
decision is identified by the time it was taken, so that "older" means something.
The properties hold for one command at a time. The code has no lock and does not
claim more; with two processes TLC reopens a closed gate run and opens two within
a few steps.

### PhasePlanning and SliceWaves

`roadmap` is the machine block of `ROADMAP.md`, `plans` and `verification` the
status in the files of each phase directory, `planning` what `STATE.md` says. A
command is a chain of steps (`AddRead`, `AddSave`, `AddState`; `PlanRead`,
`PlanWrite`, `PlanSave`, `PlanState`; `Rewrite`, `Note`; `TrackRead`, `TrackSave`,
`TrackState`; `Verified`, `CloseRead`), each of which reads or rewrites one file,
with what it read in `job`. The guards are the code's early returns, such as
"already-planned" when any plan file exists. Plan files are written in place, so a
death inside a write (`TearWrite`, `TearRewrite`) leaves one that is torn, and
every command that loads the plans of its phase ends there (`Loadable`). Of the
other files in `.planning`, `ROADMAP.md`, `STATE.md` and the verification files, a
death leaves what was there or what was to be written; `phase plan --candidate`
given by hand, which takes the slices of a candidate into any phase, is left out.
`SliceWaves` chooses in its initial
state any remediation plan of three slices, with any dependencies, dangling ones
and cycles too, and any priorities, and compares the code's resolution with
reference definitions: the least solution of the wave equations, and failure
exactly on cycles.

### Refresh and TimeoutBaseline

One process under `workflow_deadline`: `Enter` computes what a phase is allowed
and whom a timeout will be blamed on, `Alarm` raises, `Swallow` is an
`except OSError` that catches it (`TimeoutError` is an `OSError`), `Prepare`,
`Add`, `Added`, `AddFails` open the disposable checkout, `GateEnds` and `Written`
run a gate and rewrite the partial results, `Shield` and `Unshield` close the
checkout with the signal ignored, `Report` and `Save` write the final results,
`Finalize` merges the timeout into what is on disk. `Kill` ends the process
anywhere, and the next refresh uses the same run id prefix.

`TimeoutBudgets` has the arithmetic: floors, margins, the percentile of the
samples, candidate and active budgets, the contract of one refresh.
`TimeoutBaseline` is the feedback: `Start` resolves the budgets from the file,
`TimeOut` and `Finish` end the refresh, `Finish` reads the samples and `Record`
writes them back, so that two refreshes overlap between the two; `Die` may leave
a torn file, which counts as none; `ChangeRepository` changes the identity.

### Verification

`GateResults` decides gate by gate, in the code's order: consent, read-only
policy, coverage of an aggregate by its leaves, a dependency setup that failed
before, the result. `Readiness` has the gates of the release profile.
`Verification` writes `gate-verification.json` after each gate (`partial`), the
semantic invariants, the final results, the handoff; a death leaves what was
written, and readers conclude from it. The worlds it starts in (a repository with
or without findings, CI checks of this HEAD or another, a release file that is
right or wrong in one respect, proofs of invariants that passed, failed or are
stale) are the kinds of input the precedence rules tell apart; a caller may
select gates, also an advisory invariant alone.

### Findings: RemediationPlan, FindingLedger, ReviewLoop

`FindingLedger` has the run directories in the order of their modification, newest
first (`store`). `Audit` builds the ledger from the scan, the configuration, the
newest other ledger that can be read and the decisions of gate runs, has the plan
checked (`ContextIsValid`), and writes; `AuditFails`, `Inspect`, `Verify`, `Touch`
and `Prune` (one directory at a time, as retention deletes them) are what else
happens to run directories. `RemediationPlan` divides
findings into clusters, wiring decisions and single slices, with the ids that
slugs give them. `ReviewLoop` puts the changed files of a task together from a
baseline's commit, HEAD and the working tree, and derives the recommendation to
stop and the fate of every finding; commits and edits come between any two of its
steps, and the git call for the range may fail. The names in a scope are those git
prints: a file whose name git quotes is in it under that other name (`Printed`),
an untracked file git ignores is not listed at all (`Ignored`), and a finding in
either falls out of scope. What a delta promises is about the files whose names
git shows (`Shown`).

### Caches

`InventoryCache` has the key (HEAD, `git status` with its stripped first line,
digests) apart from the inventory that is built between reading the key and storing
it. The key is of what git says, if it says anything: `_git` returns `None` for a
command that fails or is not done in five seconds, and the key is then that of no
commit or of a clean tree (`said` is what had answered). `AnalysisCache` has look,
read, compute and the index with its eviction, two scanners, and an mtime that may
be too coarse to show an edit. `SimilarityCache` has the key that is settled when
the files are read, the report that Quality Runner makes of those files or that
outside tools, run one by one, make of the repository, and the entry and the index
written after it; the repository is edited and tools are installed in between.

### Tasks

`TaskWorkflow`: `start`, `check` and `rebaseline` each read the record, copy the
workspace (a file at a time), a revision or their merge, analyse, compare hashes
and write. Equal violations of a file are told apart by ordinal (`Occurrences`) and
matched against the baseline. Configuration, sources and tools may be edited
between any two steps, and a death may tear the record.

### Fleet

`FleetTargets` chooses the commit of a repository. `FleetAudit` is the audit of
one repository after another, the reuse of earlier dynamic evidence, the files of
the audit in their order, replay and publication. `DetectorRefresh` makes three
runs in a worktree, copies them into the repository and undoes the copies when one
fails.

### Exclusions

`ScanScope` is the walk: which directories a scan enters, what it counts, when it
calls itself partial. `ExclusionPreflight` is packet, report, validation, apply
(the configuration is truncated and written in place) and the audits that use it,
with or without an overlay of one audit.

### Security

`SecurityScan`: a text is a sequence of lines, each the set of patterns it
matches; candidates, dispositions, surfaces, gates and obligations are computed
as the code does, file by file with the cache between, while sources and settings
change. `CodexEvidence` imports reports as snapshots with aliases and coverage,
compares two of them and exports a handoff. Each report numbers and words its
findings in an edition of its own, and the alias of last resort hashes wording,
rule and path (`TextOf`); between the reports flaws are mended, come back, or move
with a file that is renamed.

### QualitySkills and BugLearning

`QualitySkills` has the writes of `ingest`, `append` and `sync` one by one, the
rewriting of a repository's section, the selection of local packs and of packs of
the corpus under `max_active`, the evaluation of rules and what an agent's report
does to the handoff. `BugLearning` has registries that are edited at any time,
their aggregation on top of the earlier evidence, decision, check and receipt, and
the required invariant that rests on them. The precision is compared after it was
rounded to four places (`Precise`), and a decision is bound to the evidence and the
candidate's id, not to its contract.

### Delivery, PhaseClosure, Rollout

`Delivery`: a run is an audit's files on disk; `Prepare` and `Refresh` make a
contract of whatever is there, `Preflight` compares a native plan, `Reconcile` a
result. A fingerprint has the run id, the audit that captured the inventory, which
on a hit is an earlier one (`Capture`), and what the analysis caches counted, so
that two audits of one run id may have equal ones; a file is covered when the plan
names it or anything its name is a part of (`Within`). `PhaseClosure`: a contract
scopes the scan of an audit, and a closure compares two runs under the contract as
it is then. What a scan reports of a flaw may depend on the other files it reads
(`Seen`); a security candidate is a finding with file and fingerprint, structural
flaws are grouped by rule without either (`Groups`) and are in no scope. `Rollout`:
`Begin`, `Refresh`, `ReadStatus` and `WriteReport` per entry of the list, the ledger
at the end, and `Worker`, which reports on its own work and is normalized and
linted.

### GateAdoption

A command of the certifier scans, and writes its documents one by one into a run
directory that it shares with any other command that names no run; another
command judges the documents it finds, one after another, while the first goes on
writing. The text of a document and its JSON are one file.

## 3. What the runs check

| Run | Bounds | Distinct states | Shows |
|---|---|---|---|
| `fresh_review` | 2 processes, 1 of which prepares, 2 packets (one combined, one cyclic), 2 answers, 1 death, 2 submissions | 60k | Finalized at most once, from one answer to the prepared packet; implements `ReviewOutcome`; an open review is completed in the end |
| `phase_planning` | 1 operator, 2 candidates, 1 phase by hand, 2 plans, 2 commands, 2 deaths, also inside the writing of a plan file | 1.4M | One phase per candidate, roadmap and plans agree, results are kept, work that is left can be dispatched, every candidate is planned in the end, unless a plan of a candidate is torn |
| `refresh` | total 5, inspect and run 2, verify 3 seconds, 2 gates, 2 refreshes, 1 swallowed alarm, clock to 10 | 13k | Armed deadlines hold, timeouts are honest, no stray alarm; own checkout, whole and kept gate results; a refresh ends |
| `shared_files` | parts whose commands share files, see below | 1.7M | One property of each part, two of the certifier's |
| `conclusions` | parts that conclude from what is there, see below | 843k | One property or several of each part |
| `gate_run_named`, `phase_planning_stuck`, `refresh_inspect`, `finding_ledger_security`, `inventory_stale`, `task_policy`, `fleet_evidence` | just what the counterexample needs | 33 to 288k | What the documents say and the code does not do |

| Part | Bounds | Distinct states | Properties |
|---|---|---|---|
| waves | 3 slices, all dependencies and priorities | 66k | `WavesAreLeast` |
| baseline | 2 gate timeouts, a focus, a total of one's own; a fast and a slow refresh; 3 identities; 3 refreshes by 2 processes; active from 2 samples | 78k | `SamplesAreSound` |
| gates | 1 command at a time, 3 gate runs, 3 answers about 2 findings, 2 deaths, 1 further audit | 324k | `DecisionsStand` |
| verification | the repositories, release files and proofs of invariants of `PartsValues`, 3 selections of gates, a death | 104k | `VerdictIsEarned`, `ReportsAgree` |
| ledger | 3 structural findings in 2 files of one slug, of both planning families; a candidate, a capability, a review gate; 2 run ids, retention of 1, an edit | 63k | `OpenFindingsPlannedOnce`, `ResolvedOnlyByDecision`, `AcceptanceIsKept` |
| loop | a source, a manifest, a file with a name git quotes and one it ignores; 1 edit, 2 commits, 2 runs, a death, a git call for the range that may fail | 63k | `DeltasAreEarned` |
| issues | 2 commands at once, 3 fingerprints, 4 commands | 6k | `IssuesStayApart` |
| inventory | 2 processes, a tracked file, an untracked one and one in an untracked directory, 2 branches, 2 changes or keys for which git does not answer in full | 86k | `HitShowsWhatIsKeyed` |
| similarity | 2 scans, perhaps at once, native and outside tools; no language, one and two, 0 to 2 tools installed; an edit or an installation | 168k | `HitShowsWhatIsKeyed` |
| cache | 2 scanners, 1 file, 2 configurations, 1 entry kept, 2 scans, a coarse clock, an edit | 99k | `ServedIsOfThisScan` |
| task | 2 commands at once, 3 commands, an edit, a death; HEAD, target and base differ | 212k | `TaskPassIsEarned` |
| fleet | 2 audits at once of 1 repository, 2 days, evidence valid for 1, a move of the repository, a death | 297k | `FeedIsEarned` |
| detector | 2 refreshes in 2 output directories, a move, a death | 118k | `PublishedIsWhole` |
| exclusions | a walk of 5 directories, 1 command at a time, an edit, a commit | 36k | `ExclusionsAreHonest` |
| adoption | 2 commands at once, 5 repositories of 2 gates, a change, a death | 230k | `ReadyDocumentsAreWhole`, `ProjectionsOfGatesAgree` |
| evidence | 2 flaws of one rule in 2 files that may be renamed, SARIF and plain reports, the second perhaps worded anew; a change | 181k | `ResolvedIsGone` |
| skills | 1 repository of 2 configurations, a corpus of 2 packs of which 1 is active, a limit of 1, 2 commands, 2 audits, a death | 66k | `CommandsAreAdditive`, `ReleaseIsReviewed` |
| security | a route that may be absent, a file of examples with webhooks, a manifest; 3 policies; 2 audits, an edit | 5k | `CandidatesAreAnswered` |
| learning | 2 repositories of which 1 holds the invariant, 1 candidate, 2 edits, 2 aggregations, a decision, a check, a death | 80k | `PromotionIsEarned` |
| delivery | 2 run ids, 3 sources (two of one key, one which git may be silent about), a plan that names a file and one with a longer name; 2 audits, an edit, a death | 165k | `DeliveriesAreWhole` |
| closure | 2 files, candidates of which one shows beside the other file only, structural flaws; 2 runs, 4 contracts (one invalid), 2 audits, 2 edits, a death | 22k | `ClosuresAreEarned` |
| rollout | a list with and without a path that is gone, 2 files, an edit, a commit, a death, 5 verdicts, 7 claims of a worker | 35k | `ReportsAreEarned` |

Why the bounds are enough: a lock needs a holder, a contender and an observer; a
lost update two writers; a death matters once in an operation and once in its
recovery, and where no recovery writes what the first attempt wrote, once; two
gate runs can be out of order and a third can be opened after both; a dependency
needs two plans, a wave that depends on waves three; carrying, comparing and
replacing need an earlier run, a later one and a change between; the total
deadline of 5 is longer than two phases and shorter than three, so that every
comparison of what is left with a budget (more, equal, less, nothing) occurs.
The second refresh cannot be killed, so that something is always left to observe.
Thresholds that the code has as constants (three repositories, a hundred
classified cases, five thousand files) are scaled down with what they count. Each
property has at least one "Mutant:" that its run finds, which is what shows that
the interesting case occurs within the bounds.

Symmetry is used in the two runs of parts only, over what no definition tells
apart: the two run ids of the ledger, the two commands of a part, the two findings
of gate runs. Neither of the two runs checks liveness.

What the instances leave out on purpose: gate, phase, exclusion, learning and
rollout commands run one at a time, because two of them at once do lose updates
(section 5). In `TaskWorkflow` one promoted rule stands for any, git merges file by
file, and only waivers in force are modelled. In `CodexEvidence` every file is
written once, but for edits by hand. In `QualitySkills` a torn file reads as empty.
In `BugLearning` the reads of a check are one step, since the decision binds them by
their hashes. In `ReviewLoop` there is no index. In `InventoryCache` a file that git
lists can be read. In `Delivery` a file is a slice, and the analysis caches of all
audits count the same, so that nothing but the capture tells fingerprints of a run
id apart. In `Rollout` the git calls before the refresh are one step. In
`FleetAudit` every audit is dynamic and fleet-wide, and the day names its directory.

Fairness. `FreshReview`: a command that started runs on unless it dies; the
operator submits again as long as the review is open and does not always give
options that are refused; a lock that is free again and again is got in the end
(`flock` is released by the kernel when its holder dies). `PhasePlanning`: a
command runs on unless it dies, and an operator whose `plan auto` died runs it
again. `Refresh`: the clock, the alarm and the workflow's own writes go on, and so
does the judging of the results, whose `git` calls have timeouts of their own.
Nothing is assumed of the callbacks of a phase, of the gates and of the git
commands of the checkout: they may run for ever, and then it
is the alarm that ends the phase. The git commands that remove the checkout have
neither: `_cleanup_signal_shield` ignores the alarm and `subprocess.run` gets no
timeout (`worktree_verify.py`), so a refresh may stay there, and `RefreshEnds`
says that it is the only place. The parts state no fairness: what they promise
is safety, and nothing in the code runs a command again.

Deadlock is not checked: every system here may simply have nothing left to do.

### What the code does not do

Seven runs end in a counterexample to something the repository says:

- `gate_run_named`: decisions are replayed in name order of the gate runs. When
  the caller names them, recording a decision about one finding brings back an
  older decision about another.
- `phase_planning_stuck`: `phase plan` that dies between two plan files is
  "already-planned" ever after. A plan that depends on the missing one never
  becomes ready.
- `refresh_inspect`: an `except OSError` in the audit, such as the one in
  `iter_allowed_paths`, swallows the deadline's one `TimeoutError`, drops the
  directory it was in and goes on without a deadline.
- `finding_ledger_security`: from the second audit on, a security candidate that
  is still there is marked superseded, because the code quality ledger supersedes
  every entry it does not report itself. The plan is then clean.
- `inventory_stale`: the output of `git status` is stripped before it is cut, so
  the first path loses a character, its digest is missing from the cache key, and
  a second edit of the file is served from the inventory of the first.
- `task_policy`: a baseline of a target revision is scanned with the workspace's
  configuration, the merge of a check with the target's. When the target's is
  laxer, a new violation passes.
- `fleet_evidence`: dynamic evidence is as old as the audit it is found in, even
  when that audit reused it. A chain of audits keeps a pass alive for ever.

The passing runs state the same properties under the condition that avoids this
(every file parses and ids are generated; nothing died; the alarm is armed; the
finding is not a security candidate; only what the key contains, and only if git
answered; the baseline's
configuration; evidence of the audit itself).

### What the models show besides

Behaviour that no run is spent on, found while modelling. Where a property would
be broken by it, the property's comment or the bounds above name the condition
that sets it apart.

Commands that overlap or die. Two processes that prepare one explicit review run
id rewrite a published packet; a preparation that died can be neither repeated nor
completed. Two concurrent gate or phase commands lose each other's updates, and so
do two users of `known-issues.json`. An alarm during `git worktree add` leaves the
checkout registered; one that comes due while the checkout is removed is
forgotten; one inside the rewrite of `gate-verification.json` loses the gates in
it. A verification that dies after its first passing gate is summarised as
gates-clean. A plan file that a death inside `plan_phase` left torn ends every later
`plan auto` at its phase (`load_phase_plans` raises, `phase_store.py:219`), so that
the candidates behind it get none, although `auto_plan` is to "Materialize every QR
domain candidate". Retention deletes a task's baseline and leaves the task stuck, as
does a torn task record; an overlapping check reverts a rebaseline and its
lineage. A fleet audit that died leaves a worktree that blocks its audit id; a
failed copy leaves a partial run directory, although "Incomplete run sets are
never partially published." (`docs/cli.md`). `apply` of exclusions empties the
configuration in place. A rollout that dies before its end leaves reports without
a ledger.

Verification. A required failure known from an evidence file alone concludes
`awaiting-evidence`; a blocked readiness outranks a failure; where the only
gates run are advisory and failed, the handoff of green CI says `merge-ready`
(`docs/artifacts.md:278`: "local gates passed") beside an outcome that awaits
evidence, because `_status` calls a verification without gates that count passed
(`gate_verification.py:235`); blocked handoffs come
without blockers (`README.md:356-358`); a failed advisory gate stands next to "all
executed gates passed"; results of CI alone give gates-clean though no local gate
ran; an advisory invariant whose setup is blocked loses its enforcement and blocks
(`docs/semantic-invariants.md:40`). Gates run at the first HEAD, provenance
compares the one at the end; the plan's `cwd` is not where commands run.

Timeout baseline. A gate timeout that is raised makes the learned total less than
its phases together; `--timeout-seconds` is not part of the timeout identity;
alternating profiles reset the samples; a baseline learned from fast refreshes can
lock out later ones, and nothing recovers from it but another identity.

Findings and review. Two cluster slices of one slug refuse every audit
(`remediation_clusters.py`, `remediation_context.py:177`). The id of a removed
known issue is used again. With the previous verify run as baseline, as
`docs/cli.md` recommends, a change committed between the passes falls out of
scope, a finding left in it becomes `out_of_scope`, and the loop stops; a failing
git call or an unreadable baseline manifest narrows the scope silently. Without
`--execute-gates` verification is always blocked, so the loop never says stop,
though the documented example has none.

The scope of a review loop lacks a file whose name git quotes, and an ignored one
(`review_delta.py:181-184,331`).

Caches. A git command that fails or takes longer than five seconds reads as no
commit or as a clean tree (`inventory_cache.py:115-122`): the inventory of another
tree is then a hit, and the inventory of an edited tree is kept for the clean one,
although "Cache keys include the relative source path, source-content digest"
(`docs/artifacts.md`). A repository without git always hits the inventory cache; the
branch is not in its key; files of untracked directories have no digest; an edit
between key and build is stored under the old key. The key of the source analysis
cache lacks version and redactor. A similarity report of outside tools is kept as
soon as one of them ran: its hit calls a tool that was missing `cached`, so that the
summary turns from `unavailable` to `enabled` (`code_quality_summary.py:46-49`), and
a tool installed since is not run; an edit between the reading of the files and the
tools is stored under the key of the older files.

Fleet. The reuse check precedes readiness, so a dirty target gets "reused"
evidence although such checkouts "receive static findings only"
(`README.md:145-147`). The same `--as-of` rewrites an "immutable" snapshot in
place; a death between inventory and summary mixes two. A finding of a repository
that is gone makes replay fail for its audit id; an older audit may replace the
published feed. The static scan is of the primary checkout while the target's head
may be another's. `maturity certified` and `healthy` are never reached, and
`--changed-only` never leaves anything out.

Exclusions. Without an overlay an audit walks once for all scans, with the
exclusions of all modules, so that one for a single module takes nothing out
(`docs/cli.md:242` says it adds to that scanner only). A configuration without the
`[quality_runner]` section drops exclusions of one module while the status says
applied. Excluding the parent of a protected directory takes the protected one out,
though "Protected source, security, and config roots cannot be excluded". Dirtiness
is one bit, and untracked files are not in the fingerprint. An overlay for one
module makes the module lists of the configuration apply to the others.

Tasks. A merge that is ambiguous in a pinned target revision blocks every check
for good. Adding a disposition changes `configuration_hash`, so that a waiver
always needs a rebaseline.

Security and outside evidence. An audit looks for publication surfaces in
manifests, API routes and webhook paths only, so that content never asks for the
publication review, although `tests/test_release_gate_contracts.py:257-282` asserts
the surface. Candidates of `env-exposure` require a review that no gate names.
`agent_review_gates = false` leaves audit readiness blocked on a review that
verification no longer requires. Ids of candidate findings are positional. In
imported evidence, a shared SARIF rule id swaps resolved and present findings, and
a later coverage file changes the hash of the current evidence. A report that
words and numbers a finding anew, or finds it in a renamed file, makes it resolved
and new at once, although comparison is by "stable aliases"
(`_codex_evidence.py:286-296`).

Skills. The first activation in a repository without an `active` list takes every
other local pack out of force, although synchronizing is "additive"
(`docs/quality-skills.md`). Registering without `--activate` there puts the pack in
force. Every rewrite of the section drops `agent_review_mode` and sets `enabled`. A
text of several lines with a backslash is written unreadable. Reports are validated
by review ids alone; with mode `parallel` or off any report marks all reviews as
done; `review_blocks_readiness` (`agent_review_policy.py:52`) is never called.

Bug learning. `promotion-check` never compares the candidate's contract with
`candidate_contract_hashes`, so that a receipt binds a contract nobody reviewed,
although it "binds the reviewed candidate contract" (`docs/bug-learning.md:102`).
The precision is rounded before it is compared: 968 right of 1019 (0.949951)
promote, less than the 95% of `docs/bug-learning.md:92`.
Observations retracted from a registry stay counted; prior evidence is merged
whatever its status. A receipt never expires, and one that is blocked is written
over the good one, which at required-gate cannot be repaired by another check.

Delivery, closure, rollout. A run whose inspection died before the plan is reused
and gives a contract without obligations, ready and reconciled. Fingerprints cover
what git said and the time of capture and never the source: an edit which the
inventory cache does not see reconciles with what was delivered before it, while
without a cache a second audit of the same source is stale. Coverage looks for
substrings, so that a plan which names `src/a.tsx` alone covers `src/a.ts`
(`delivery_contract_support.py:79-86`). `prepare` with the same run id overwrites
the "immutable" contract (`docs/planning-contracts.md:37`). Security review slices
never become obligations. The audit groups structural findings by category and rule,
without file or fingerprint (`audit.py:242-303`), and a finding without a path is
out of every scope (`phase_contract.py:104-107`): a phase passes with all structural
findings in its files, although "Closure is blocked by actionable or unmapped
findings" (`docs/phase-contract.md`). A closure compares neither the scope that was
scanned with the contract's nor the audit's source with the current one. In a
rollout a git call that fails reads as a clean tree; a generated report whose HEAD
moved announces an accepted strict lint that refuses it; two entries of one name
share a prefix of run ids although `docs/cli.md:626` gives each its own; plain
`validate-report` accepts "complete" with a failed verification. `lint --strict`
accepts a claim of "complete" without commit or push, with a dirty tree too if it
names a blocker, although "`complete` requires a clean final QR result plus
commit/push evidence" (`docs/cli.md:716`): the claim is normalized before the commit
is asked for.

Certifier. Plan and rubrics cite `gate-<id>.audit.md`, the files are
`gate_<id>.audit.md`. A gate that only the contract declares counts as present and
hard without a command. A text cut off after its last heading passes. Documents of
two scans may mix and be called ready.

## 4. What is proved

### FreshReviewProofs

For every set of processes, packets and answers and any bounds, provided that at
most one process prepares a run id (`OnePreparer`; generated ids ensure it):
type correctness (`TypeCorrect`), `FinalizerSafety`, `CompletionSafety`,
`PacketSafety`, `FinalitySafety`, and that `FreshReview` implements
`ReviewOutcome` (`Refinement`).

The properties are not inductive: that a finalizer's packet is still the one on
disk depends on what preparation may still write, and what it may still write on
how far it got. `IInv` therefore describes each phase of a process. A process
that prepares has written exactly the packet files not in its `todo`, and the
record is still absent (`PrepareInv`); a loaded or locked process works with the
packet in `review-context.json` (`PhaseInv`); a finalizer holds the lock and has
written, in the order of `Rank`, what is not in its `todo` (`FinalizeInv`); a
published packet is whole (`PublishedInv`), its children and loop state are those
of its mode (`ChildInv`, `LoopInv`). There is one lemma per action. The
refinement follows from `IInv`: the write of the record in a preparation is
`Open`, in a completion `Close`, and every other step stutters.

### PhasePlanningProofs

For all candidates, slices and bounds, of commands that do not overlap
(`OneCommand`; two that overlap lose each other's updates, section 5):
`RoadmapSound`, `SomePlanReady` (as long as no command died, work that is left can
be dispatched) and `PlansPreserved` (no command takes the result of a plan away by
planning it again). The slices are any that `wave_by_slice` accepts, that is,
without a cycle: `PhasePlanningAssumption` says that some slice of every set needs
none of the set. The inductive invariant `PlanningInv` relates what the one
command has read to the files (`JobInv`), the status of a phase to those of its
plans as far as no step is outstanding (`AgreeInv`, `Behind`), and says that as
long as nothing died a phase directory has all plans or none (`WholeInv`) and no
plan file is torn (`UntornInv`).

### RefreshProofs

For every assignment of budgets, any total deadline, number of gates and bounds.
Deadlines: `PhasesInTime` (while the alarm is armed no phase is over its deadline
nor the refresh over the total one), `TimeoutsHonest` (a refresh that reports a
timeout had used up the deadline it names), `NoStrayAlarms`, and the three together
as the property of the run (`DeadlinesKept`). The inductive invariant `DeadlineInv`
says that an armed timer stands exactly at the deadline that would be blamed
(`ArmedInv`), and that a `TimeoutError` on its way, in a cleanup too, was raised no
earlier (`RaisedInv`). `EnterBounds` is the arithmetic of entering a phase: the
timer is set to the lesser of budget and remainder, and the scope says which.

Gates: `GatesWhole` (they run in the checkout of the refresh that runs them, and a
refresh that says it completed ran all and left their results) and
`TimeoutKeepsGates` (a timeout loses no gate result that is on disk). `GatesInv`,
inductive beside `DeadlineInv`, ties the place a refresh has reached to the gates it
has run, the results on disk and the checkout that is registered.

### TimeoutBaselineProofs

For every number of overlapping refreshes and repositories, any durations and any
number of samples kept below twenty: `SamplesFit` (an active baseline never gives
a phase, or the whole refresh, less than any of the samples it rests on took),
`SamplesComparable` (the samples are of one static identity, all completed), and
both as the property of the run (`SamplesSound`). The arithmetic is in `Margins`,
`LastRank`, `PercentileIsGreatest` and `LearnedFits`: below twenty samples the 95th
percentile is the greatest, and margins only add. The inductive invariant says that
the file's samples were learned, that what a recording process has read was
learned before, and that the id of a refresh which has not recorded is in no
sample, so that overlapping writes may lose a sample and never repeat one.

### CachesProofs

For any number of processes, files, contents and bounds. About the caches, under
`CachesAssumption` (the names that stand for "no content" and for the kinds of
files are apart):

- `HitsAreKeyed`: what the inventory cache and the similarity cache show is of the
  repository their key speaks of, as far as git had answered, both now and when the
  inventory was built, unless an edit raced the build or, for a report of
  outside tools, came during its scan. `KeyedInv` carries this from the key a
  process holds to the entries and to what is shown; `CacheInv` says of each entry
  and each line of the index which files, policy and tools they are of. In the
  proof the bare statement about reports turned out not to be preserved: an entry
  may be replaced between its reading and its showing. The model therefore records
  with a report whether the tree was edited during its own scan (`edited`), and the
  property speaks of that.
- `ResultsServed`: a scan that is served a cached result gets what it would have
  computed from a content the file had during that scan, for any files, rules,
  number of scanners and resolution of the clock. `ResultsInv` bounds every stamp by
  the clock and ties each index entry and each result in hand to a version the file
  had.

About what is judged of a working tree:

- `TaskPassEarned`: whatever start, check and rebaseline commands overlap, are
  edited under or die, a check passes only under the policy and tools of its
  baseline and with the required gate, and no changed file has more unwaived
  violations than the baseline has there; the record ends a whole lineage of
  baselines. `TaskInv` (`TasksKept`) says that a stored baseline is of its tree as
  it was judged, and of each command that it holds a whole lineage and what its
  phase has made of it (`InHand`, by `CommandFits`, `CopyFits`, `ScanFits`,
  `GateFits`). The heart is `NothingNewIsNotWorse`: occurrences are numbered by
  position, and where none of them is new there are no more than the baseline has.
  `TaskAssumption`: the configuration is no source file, every commit has one, and
  rules report what sources have.
- `ExclusionsHonest`: an apply that nobody disturbed takes out of each scan just
  what the reviewer took out of it, and out of the security scan only with the
  acknowledgement; an audit covers what it did not read by the exclusions it states
  or calls itself partial. `ExclusionsInv` ties an apply in progress to the
  configuration its packet was made of. `ScopeAssumption`: the walk is a tree (a
  directory is inside itself and whatever its own are inside).
- `CandidatesAnswered`: whatever came from the cache, a security audit reports what
  a scan of the texts it read would find, and with review gates on a candidate that
  weighs enough is named by an obligation. `SecurityInv` says that each cached
  result is one of the text and the context of its key, and that an audit has found
  what there is in the files it has come to. That tables of triggers, weights and
  references agree is `CandidatesAreNamed`. `SecurityAssumption`: the walk
  comes to each file once.

### RecordsProofs

`IssuesApart`, for all users, overlapping commands, issues and bounds: the file
never lists a fingerprint twice, nor an id before a removal. `IssuesInv` says the
same of what every command in progress is about to write: commands may lose each
other's issues, and never double one.

`DecisionsDoStand`, for any number of gate runs, answers, deaths and audits: a
closed gate run stays closed, and while all of them can be read no decision gives
way to an older one. The hypotheses are those of the run: one command at a time
(`OneProcess`) and generated ids (`Generated`), without which TLC refutes it
(`gate_run_named`). `GatesAssumption` only keeps names apart. The inductive
invariant `DecisionsInv` says that histories are in the order of the answers
(`HistoryInOrder`), that only the latest gate run is open (`OnlyLatestIsOpen`),
that the ledger's times are those of answers (`Given`), and what an answer in
progress has done so far (`InHand`); a merge in name order over such histories is
never older than the ledger.

`VerdictEarned` and `ReportsAgreed`, for all repositories, gates, selections and
deaths: a verification that passes has run every local gate that is not advisory
or seen a leaf of it pass, and has each required invariant proved; the plan of the
run, its results, its outcome and the handoff do not contradict each other.
`VerificationInv` (`VerificationKept`) lists the results that a gate may have given
the others (`ResultFits`), and says that conclusion, report and handoff are those
of the results. `VerificationAssumption`: gate names are ordered, and an evidence
file says one of five words or nothing. The proof would not close for a run whose
only gates are advisory; the code does say `merge-ready` there (section 3), the
property excepts it in so many words, and the runs now include such a selection.

`FindingsPlannedOnce`: for any scan and any ledger, reachable or not, every open
row and finding is in one slice and in one phase candidate. It is a fact about
`RemediationPlan` alone: clusters, wiring decisions and single slices divide what
is open by properties of a finding that exclude each other.

`ResolvedByDecision` and `AcceptanceStays`, for any number of runs, audits,
failures, touches, edits and deletions: a row that a plan leaves out was accepted
by the configuration or a decision, and while the newest directory is that of the
latest audit, the next audit accepts what it accepted. `LedgerInv` (`LedgerKept`)
says that whatever a stored ledger accepts was accepted, that decisions are about
candidates, and that the stored ledger of the latest result settles every row of
its scan as the result does. `LedgerAssumption`: rows, candidates and the ids of an
audit report's findings are apart.

### DetectorProofs

`PublishedStaysWhole`, for any fleet and any number of refreshes, output
directories, days and deaths: unless a copy was cut off, the published runs of a day
are all there, of one commit and rewritten, or none is, and what a ledger calls
published is there at its commit. The difficulty is that any process may undo. The
inductive invariant `PublishingInv` says what each process has put where it works
(`Owned`, `InHand`), that no two of them have put runs at one place (`Exclusive`:
the check of all three names and the first `copytree` are apart, but `copytree`
refuses a directory that exists, so that only one of two gets past the first run),
that a place which no copy was cut off at is empty, whole, or what one process has
put (`Clean`), and that the rows of ledgers, stored or in hand, are of runs that
nobody will undo (`RowsHold`, `Settled`). `FleetAssumption` has repositories
numbered, as the code sorts them.

`PromotionEarned`, for all repositories, registries, edits, aggregations, decisions
and checks: a required gate in force rests on evidence that somebody approved for
the candidate's id, its receipt has the contract the registry has, and the
observations in the evidence, each once recorded by a registry, are fresh, enough,
right enough once their precision is rounded to four places, and cheap enough. That
the evidence is about that contract is neither so nor claimed (section 3).
`LearningInv` (`LearningKept`) says of the fleet's evidence, of every decision and
receipt, and of what a command has in hand that the observations were recorded and
the unmet criteria are those of the observations. `LearningAssumption`: repositories
and observations are finitely many, and days are integers.

`ReleaseReviewed`: a release handoff that asks for no review was made with a
report that named every review. The invariant says that the audit a handoff is
made from requires its reviews.

`ReadyIsWhole` and `ProjectionsAgree`, for all gates, rubrics and repositories and
any commands that share the directory: documents that are called ready for phase
planning were all there and whole when they were read; and what a command that
nobody disturbed leaves behind agrees in matrix, rubrics and plan about every gate.
`AdoptionInv` follows a writer document by document in the order of `WriteOrder` and
a reader through the documents it has judged (`DocumentsInOrder`).
`AdoptionAssumption`: broad rubrics are of no gate, and a repository is no missing
or empty file.

### ReportsProofs

For all run names, findings, contracts, fleets, lists and bounds:

- `ClosuresEarned`: a passed closure speaks for the candidates in the source, where
  its audit is of the source as it is and scanned the contract's scope; of the
  structural flaws there it says that they are listed as out of scope. `RunsInv`: a
  run records the candidates and the groups that its scan saw, a ledger only
  decisions that were taken.
- `DeliveriesWhole`: a plan that is ready names every flaw owed, if only in a longer
  name, and a reconciled delivery worked on every flaw of the slices its contract
  had, where the inventory keys of the two audits tell their sources apart and no
  death left the plan of another scan. `CapturesInv` (`CapturesSayTheKey`): whatever
  has a fingerprint (runs, contracts, deliveries) got an inventory of the key of the
  audit that captured it (`PrintFits`), although contracts are rewritten, runs
  audited again and results delivered for any of them.
- `FeedEarned`: the rows of the feed are the findings its totals come from unless
  the directory was rewritten meanwhile, and a row with dynamic evidence is of a
  commit at which just its commands did pass. `FeedInv` says for each place an
  audit has reached which findings it has in hand and what is on disk, and of each
  artifact directory that was written once that inventory, summary and findings fit
  (`AuditsFit`).
- `ReportsEarned`: accepted controller reports come of a sound run and a tree seen
  clean; what strict lint hands on as complete was committed and pushed as well.
  `VerdictsAssumption` lists the statuses verification and audit have, and that a
  workflow that timed out is blocked. The first form of this property, "complete
  passes strict lint only with a commit and a clean tree", resisted the proof,
  and rightly: normalization turns a claim of "complete" that was not pushed into
  "ready-for-review" or "blocked", and the commit is then not asked for (section 3).
  The workers' claims that TLC tries now include two such, and the property is
  about the normalized report.
- `DeltasEarned`: a delta has each finding of its run just once; a clean one that
  nothing disturbed and for which git answered leaves findings only in files that
  are as at the baseline's commit, or whose names git does not show as they are; and
  a remediation delta that says nothing changed is about two runs with the same
  findings, between which no manifest or lockfile changed. `LoopInv` says that a run
  records what its audit saw (`RunFits`) and that a refresh which was not disturbed
  audited the tree and commit that are there now (`InHand`). `LoopAssumption`: there
  are finitely many files, manifests among them.

### Only model-checked

- Liveness (`OpenReviewCompletes`, `EveryCandidateIsPlanned`, `RefreshEnds`): the
  prover does not handle fairness.
- `WavesAreLeast`: `wave_by_slice` is recursive, and what a recursive function
  computes for every input is induction over data.
- `ResolvedIsGone` of `CodexEvidence`: the findings of two reports are paired by a
  fold over one of them (`Pairs`), and what a fold computes is induction over data
  too.
- `CommandsAreAdditive` of `QualitySkills`: which packs are in force depends on a
  ranking whose order is that of a recursively listed set (`InOrder`), and on how
  many packs rank before one.

Everything else that a passing run checks is proved.

## 5. Not modelled

- Discovery, text scans, finding quality, configuration parsing, the validation of
  reviewer answers, the stages of adoption and the documents of a fleet are pure
  functions whose value is text or data; the models take their results as input.
- Fix proposals, statuses and rendered handoffs are made from artifacts and read by
  no part; that writing one touches an old run is in `FindingLedger`.
- The command line, the MCP server and the progress heartbeat keep no state.
- `Readiness` and `Verification` do not have the process groups a gate is ended
  with: whether a child survives its parent is up to the operating system.
- Two gate commands or two phase commands at once. Neither has a lock, nothing in
  the repository claims they are safe, and TLC refutes every property of theirs
  within a few steps.
- Recovery from a learned baseline that locks every refresh out: there is none.

`PROJECT.json` has the reason component by component, and for a component that is
"partly" modelled what was left out.

## 6. Plan

Built, in this order: the Fresh Review lifecycle, gate controller, phase planning
and refresh with their proofs; timeout baseline; verification; findings, ledger and
review loop; known issues and caches; tasks; fleet; exclusions; certifier; outside
evidence; skills; security; bug learning; delivery, closure and rollout.

Every safety property of the passing runs is proved except the three of section 4
whose definitions recurse or fold. What would come next: `CommandsAreAdditive`, by a
lemma about ranks in a set that a total order ranks; a composition of
`FindingLedger` and `GateRun`, which share the ledger; and the scanners' text rules
as operators over small texts.
