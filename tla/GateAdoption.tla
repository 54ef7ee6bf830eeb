----------------------------- MODULE GateAdoption -----------------------------
(***************************************************************************)
(* The compatibility command repo-quality-certifier: it scans a repository *)
(* for the evidence of its quality gates, makes a matrix of them, a rubric *)
(* for every gate and every broad standard, documents for every rubric and *)
(* a rollout plan, writes them file by file into the directory of a run,   *)
(* and judges the documents it finds there.  Commands of one run share the *)
(* directory: the MCP server gives them all the same run id.               *)
(***************************************************************************)
EXTENDS Naturals, Sequences, Functions

CONSTANTS
  Gates,         \* the core gates, in their order
  Commanded,     \* gates, such as lint, that only a command makes whole
  Strict,        \* gates whose inherited failures count
  Mobile, Hook,  \* the gates a repository may do without
  Guided,        \* gates with setup guidance
  Broad,         \* broad rubrics, in their order
  About,         \* broad rubric -> the gates its evidence is taken from
  EvidenceNames, \* gate -> names in the contract that are evidence of it
  ContractNames, \* gate -> names in the contract that enforce it
  ProfileNames,  \* gate -> names its command may have in the profile
  Repos,         \* [scripts, config, contract, commands, required, mobile]
  Becomes,       \* repository -> what it is after some work on it
  Processes, MaxCommands, MaxDeaths,
  None, Torn

VARIABLES
  repo,      \* the scanned repository
  disk,      \* file of the run directory -> None, Torn or the repository it tells of
  job,       \* process -> what its command works with, or None
  report,    \* the report of the command that ended just now, or None
  spent      \* commands and deaths so far

vars == <<repo, disk, job, report, spent>>

-----------------------------------------------------------------------------
(* The scan.                                                               *)

\* The profile's command of a gate, unless it is a placeholder.
HasCommand(r, g) ==
  \E n \in ProfileNames[g] \cap DOMAIN r.commands : r.commands[n] = "real"

LocalEvidence(r, g) ==
  {e \in {"script", "config"} : g \in (IF e = "script" THEN r.scripts ELSE r.config)}

ContractEvidence(r, g) == {e \in {"contract"} : EvidenceNames[g] \cap r.contract # {}}

PipelineEvidence(r, g) == {e \in {"pipeline"} : HasCommand(r, g)}

Evidence(r, g) == LocalEvidence(r, g) \cup ContractEvidence(r, g) \cup PipelineEvidence(r, g)

-----------------------------------------------------------------------------
(* The matrix.                                                             *)

MayBeSkipped(r, g) == g = Hook \/ (g = Mobile /\ ~r.mobile)

FoundStatus(r, g) ==
  IF Evidence(r, g) = {} THEN "absent"
  ELSE IF g \in Commanded /\ Evidence(r, g) \cap {"pipeline", "script"} = {} THEN "partial"
  ELSE "present"

\* A hook and remote CI enforce themselves once there is evidence of them; the
\* hook is the one of the model.
FoundEnforcement(r, g) ==
  IF ContractNames[g] \cap r.contract # {} THEN "hard"
  ELSE IF HasCommand(r, g) \/ (g = Hook /\ Evidence(r, g) # {}) THEN "soft"
  ELSE "not_enforced"

IsSkipped(r, g) == FoundStatus(r, g) = "absent" /\ MayBeSkipped(r, g)

Status(r, g) == IF IsSkipped(r, g) THEN "skipped" ELSE FoundStatus(r, g)

Enforcement(r, g) == IF IsSkipped(r, g) THEN "accepted_exception" ELSE FoundEnforcement(r, g)

Maturity(status, enforcement) ==
  CASE status = "skipped" -> "not_applicable"
    [] status = "present" /\ enforcement \in {"hard", "soft"} -> "enforceable"
    [] status = "partial" -> "risky_to_enforce_now"
    [] OTHER -> "baseline_first"

AdoptionAction(status, enforcement) ==
  CASE status = "skipped" -> "keep skipped"
    [] status = "absent" -> "add baseline"
    [] status = "partial" -> "make a command"
    [] OTHER -> IF enforcement = "not_enforced" THEN "enforce" ELSE "keep enforced"

Row(r, g) ==
  [status      |-> Status(r, g),
   enforcement |-> Enforcement(r, g),
   maturity    |-> Maturity(Status(r, g), Enforcement(r, g)),
   evidence    |-> Evidence(r, g),
   required    |-> ProfileNames[g] \cap r.required # {},
   action      |-> AdoptionAction(Status(r, g), Enforcement(r, g))]

Matrix(r) == [g \in Range(Gates) |-> Row(r, g)]

-----------------------------------------------------------------------------
(* The rubrics and their documents.                                        *)

\* A broad rubric knows of its gates what they are and how they are enforced.
BroadEvidence(matrix, b) ==
  {matrix[g].status : g \in About[b]} \cup {matrix[g].enforcement : g \in About[b]}

BroadBlockers(matrix, b) == BroadEvidence(matrix, b) \cap {"absent", "not_enforced"}

BroadMissing(matrix, b) ==
  LET lacking == BroadBlockers(matrix, b)
  IN  IF lacking = {} THEN {"latest run"} ELSE lacking

\* Mutant: only what is absent stands in the way.
BlockedByAbsence(row) == {row.status} \cap {"absent"}

GateBlockers(row) ==
  {s \in {row.status} : s \notin {"present", "skipped"}}
  \cup {e \in {row.enforcement} : e \notin {"hard", "soft", "accepted_exception"}}

GateMissing(g, row) ==
  LET lacking == {s \in {row.status} : s # "present"}
                 \cup {e \in {row.enforcement} : e \notin {"hard", "soft"}}
                 \cup {x \in {"pipeline result"} : "pipeline" \notin row.evidence}
                 \cup {x \in {"inherited failures"} : g \in Strict}
  IN  IF row.status = "skipped" THEN {"nothing"}
      ELSE IF lacking = {} THEN {"latest output"} ELSE lacking

SetupActions(g, row) ==
  IF row.status = "skipped" THEN {"keep skip"}
  ELSE IF g \notin Guided THEN {}
  ELSE {"guidance"} \cup {x \in {"candidate commands"} : row.status # "present"}

ValidationCommands(g, row) ==
  IF row.status = "skipped" THEN "confirm skip"
  ELSE IF g \in Strict THEN "full command" ELSE "configured command"

IsBroad(rubric) == rubric \in Range(Broad)

Rubric(matrix, rubric) ==
  IF IsBroad(rubric)
  THEN [blockers |-> BroadBlockers(matrix, rubric), missing |-> BroadMissing(matrix, rubric),
        commands |-> "complete audit", setup |-> {}]
  ELSE LET row == matrix[rubric]
       IN  [blockers |-> GateBlockers(row), missing |-> GateMissing(rubric, row),
            commands |-> ValidationCommands(rubric, row), setup |-> SetupActions(rubric, row)]

Rubrics == Broad \o Gates

RubricPack(matrix) == [rubric \in Range(Rubrics) |-> Rubric(matrix, rubric)]

\* An audit says what stands in the way and what proof is missing.
AuditDocument(pack, rubric) ==
  [rubric |-> rubric, kind |-> "audit", blockers |-> pack[rubric].blockers,
   missing |-> pack[rubric].missing, commands |-> pack[rubric].commands]

\* An implementation document says what to do, in a phase of which type.
ImplementationDocument(pack, rubric) ==
  [rubric |-> rubric, kind |-> "implementation", steps |-> pack[rubric].setup,
   phase |-> IF IsBroad(rubric) THEN "cross-cutting" ELSE "gate-specific",
   commands |-> pack[rubric].commands]

-----------------------------------------------------------------------------
(* The rollout plan.                                                       *)

Phase(g, row) ==
  [type    |-> IF row.status = "skipped" THEN "accepted_skip_record"
               ELSE "gate_specific_remediation",
   strict  |-> g \in Strict,
   actions |-> {row.action},
   blocked |-> row.status \in {"absent", "partial"},
   cites   |-> {g} \cup Range(Broad)]

Certification ==
  [type |-> "final_certification", strict |-> FALSE, actions |-> {}, blocked |-> FALSE, cites |-> {}]

RolloutPlan(matrix) ==
  Append([n \in DOMAIN Gates |-> Phase(Gates[n], matrix[Gates[n]])], Certification)

-----------------------------------------------------------------------------
(* Writing.                                                                *)

\* A document is a JSON file and a text, which are written and read together.
Documents(rubric) == << <<rubric, "audit">>, <<rubric, "implementation">> >>

Whole(name) == <<name, "all">>

\* The other files, such as the rubric pack, are written too, and read by nobody.
\* The matrix, the two documents of every rubric, the manifest and the plan.
WriteOrder ==
  [n \in 1..(2 * Len(Rubrics) + 3) |->
     IF n = 1 THEN Whole("matrix")
     ELSE IF n <= 2 * Len(Rubrics) + 1 THEN Documents(Rubrics[n \div 2])[(n % 2) + 1]
     ELSE IF n = 2 * Len(Rubrics) + 2 THEN Whole("manifest") ELSE Whole("plan")]

\* What a file says of a repository.
Content(r, file) ==
  LET matrix == Matrix(r)
      pack == RubricPack(matrix)
  IN  CASE file = Whole("matrix") -> matrix
        [] file = Whole("manifest") -> Range(Rubrics)
        [] file = Whole("plan") -> RolloutPlan(matrix)
        [] file[2] = "audit" -> AuditDocument(pack, file[1])
        [] OTHER -> ImplementationDocument(pack, file[1])

Init ==
  /\ repo \in Repos
  /\ disk = [f \in Range(WriteOrder) |-> None]
  /\ job = [p \in Processes |-> None]
  /\ report = None
  /\ spent = [commands |-> 0, deaths |-> 0]

Scan(p) ==
  /\ job[p] = None
  /\ spent.commands < MaxCommands
  /\ spent' = [spent EXCEPT !.commands = @ + 1]
  /\ job' = [job EXCEPT ![p] = [repo |-> repo, n |-> 1, open |-> FALSE,
                                seen |-> {}, faults |-> {}, disturbed |-> FALSE]]
  /\ report' = None
  /\ UNCHANGED <<repo, disk>>

Writing(p) == job[p] # None /\ job[p].n <= Len(WriteOrder)

\* Whoever writes into the directory disturbs the other commands at work in it.
Disturb(jobs, p) ==
  [q \in Processes |-> IF q = p \/ jobs[q] = None THEN jobs[q]
                       ELSE [jobs[q] EXCEPT !.disturbed = TRUE]]

\* Opening a file for writing empties it.
OpenFile(p) ==
  /\ Writing(p)
  /\ ~job[p].open
  /\ disk' = [disk EXCEPT ![WriteOrder[job[p].n]] = Torn]
  /\ job' = [Disturb(job, p) EXCEPT ![p].open = TRUE]
  /\ report' = None
  /\ UNCHANGED <<repo, spent>>

FillFile(p) ==
  /\ Writing(p)
  /\ job[p].open
  /\ disk' = [disk EXCEPT ![WriteOrder[job[p].n]] = job[p].repo]
  /\ job' = [Disturb(job, p) EXCEPT ![p].n = @ + 1, ![p].open = FALSE]
  /\ report' = None
  /\ UNCHANGED <<repo, spent>>

-----------------------------------------------------------------------------
(* Judging the documents of the run: the manifest, then one by one.        *)

\* Mutant: of the documents only the audits are looked at.
FaultsOfAudits(file) == {f \in {file} : f[2] = "audit" /\ disk[f] \in {None, Torn}}

\* A document that is missing or empty lacks sections, and is no JSON.  (A text
\* cut off after its last heading would pass; Torn is a file as opened.)
Faults(file) == {f \in {file} : disk[f] \in {None, Torn}}

Judging(p) == job[p] # None /\ job[p].n > Len(WriteOrder)

ManifestIsNext(p) == Judging(p) /\ job[p].n = Len(WriteOrder) + 1

Documented == 1..(2 * Len(Rubrics))

AllJudged == Len(WriteOrder) + 2 + 2 * Len(Rubrics)

\* `plan` ends where `doc-quality` goes on.
EndPlan(p) ==
  /\ ManifestIsNext(p)
  /\ job' = [job EXCEPT ![p] = None]
  /\ report' = None
  /\ UNCHANGED <<repo, disk, spent>>

ReadManifest(p) ==
  /\ ManifestIsNext(p)
  /\ job' = IF disk[Whole("manifest")] \in {None, Torn}
            THEN [job EXCEPT ![p].n = AllJudged, ![p].faults = {Whole("manifest")}]
            ELSE [job EXCEPT ![p].n = @ + 1]
  /\ report' = None
  /\ UNCHANGED <<repo, disk, spent>>

\* The audit of a rubric, then its implementation, while others may write.
ReadDocument(p) ==
  /\ Judging(p)
  /\ LET k == job[p].n - Len(WriteOrder) - 1
         file == WriteOrder[k + 1]
     IN  /\ k \in Documented
         /\ job' = [job EXCEPT ![p].n = @ + 1,
                               ![p].faults = @ \cup Faults(file),
                               ![p].seen = @ \cup {<<file, disk[file] \notin {None, Torn}>>}]
  /\ report' = None
  /\ UNCHANGED <<repo, disk, spent>>

\* What has no fault is ready for phase planning: no generated document has an
\* empty section or a generic cause.
Report(p) ==
  /\ Judging(p)
  /\ job[p].n = AllJudged
  /\ report' = [ready |-> job[p].faults = {}, seen |-> job[p].seen,
                disturbed |-> job[p].disturbed, disk |-> disk]
  /\ job' = [job EXCEPT ![p] = None]
  /\ UNCHANGED <<repo, disk, spent>>

Die(p) ==
  /\ job[p] # None
  /\ spent.deaths < MaxDeaths
  /\ spent' = [spent EXCEPT !.deaths = @ + 1]
  /\ job' = [job EXCEPT ![p] = None]
  /\ report' = None
  /\ UNCHANGED <<repo, disk>>

Change ==
  /\ spent.commands = 1
  /\ repo \in DOMAIN Becomes /\ repo' = Becomes[repo]
  /\ report' = None
  /\ UNCHANGED <<disk, job, spent>>

Next ==
  \/ Change
  \/ \E p \in Processes :
       \/ Scan(p) \/ OpenFile(p) \/ FillFile(p)
       \/ EndPlan(p) \/ ReadManifest(p) \/ ReadDocument(p) \/ Report(p) \/ Die(p)

Spec == Init /\ [][Next]_vars

-----------------------------------------------------------------------------
\* However many commands share the directory of a run, and wherever one dies,
\* documents that are called ready for phase planning were all there and whole
\* when they were read.
ReadyDocumentsAreWhole ==
  report # None /\ report.ready =>
    /\ {x[1] : x \in report.seen} = UNION {Range(Documents(r)) : r \in Range(Rubrics)}
    /\ \A x \in report.seen : x[2]

\* Matrix, rubrics and plan are derived apart.  What a command that nobody
\* disturbed leaves behind agrees about every gate: the audit names a blocker
\* exactly when there is something to do; a phase is blocked for nothing that
\* its audit does not name, and a gate of which there is no evidence blocks its
\* phase, its audit and every broad audit about it, unless it is skipped.
ProjectionsOfGatesAgree ==
  report # None /\ ~report.disturbed =>
    LET says(file) == Content(report.disk[file], file)
        matrix == says(Whole("matrix"))
        plan == says(Whole("plan"))
        audit(rubric) == says(<<rubric, "audit">>)
    IN  /\ report.ready
        /\ \A n \in DOMAIN Gates :
             LET g == Gates[n]
                 row == matrix[g]
             IN  /\ (audit(g).blockers = {}) <=> (row.action \in {"keep enforced", "keep skipped"})
                 /\ (audit(g).blockers = {}) <=>
                      (row.maturity \in {"enforceable", "not_applicable"})
                 /\ plan[n].blocked => row.status \in audit(g).blockers
                 /\ row.evidence = {} /\ plan[n].type # "accepted_skip_record" =>
                      /\ plan[n].blocked
                      /\ \A b \in Range(Broad) : g \in About[b] => "absent" \in audit(b).blockers
                 /\ plan[n].type = "accepted_skip_record" => ~plan[n].blocked /\ row.evidence = {}
-----------------------------------------------------------------------------
(* The invariant of the proof: as long as nobody disturbs a command, what it *)
(* has written is there, and it finds no fault.                             *)
Judged(k) == {WriteOrder[n + 1] : n \in {m \in Documented : m < k}}

JobFits(x) ==
  /\ x.repo \notin {None, Torn} /\ x.n \in Nat \ {0}
  /\ x.open => x.n <= Len(WriteOrder)
  /\ x.faults = {} =>
       /\ {y[1] : y \in x.seen} = Judged(x.n - Len(WriteOrder) - 1)
       /\ \A y \in x.seen : y[2]
  /\ ~x.disturbed =>
       /\ x.faults = {}
       /\ \A k \in DOMAIN WriteOrder :
            k < x.n => \/ disk[WriteOrder[k]] = x.repo
                       \/ x.open /\ WriteOrder[k] = WriteOrder[x.n]

IsOfOne(files) == \A f \in Range(WriteOrder) : files[f] = files[Whole("matrix")]

AdoptionInv ==
  /\ repo \notin {None, Torn}
  /\ DOMAIN disk = Range(WriteOrder) /\ DOMAIN job = Processes
  /\ \A p \in Processes : job[p] # None =>
       /\ DOMAIN job[p] = {"repo", "n", "open", "seen", "faults", "disturbed"}
       /\ JobFits(job[p])
  /\ ReadyDocumentsAreWhole
  /\ report # None /\ ~report.disturbed => report.ready /\ IsOfOne(report.disk)
===============================================================================
