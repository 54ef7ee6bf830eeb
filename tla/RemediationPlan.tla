--------------------------- MODULE RemediationPlan ---------------------------
(***************************************************************************)
(* From the findings of one scan to the plan of an audit: the findings of  *)
(* the report, which of them the resolution ledger settles, the slices     *)
(* that remain to be done, the phase candidates made of them and the       *)
(* validation of the context record of every slice.  All of it is a        *)
(* function of the scan and of the ledger.                                 *)
(***************************************************************************)
EXTENDS Naturals, FiniteSets

CONSTANTS
    Structural,     \* fingerprints of the findings of the code quality scan
    Candidate,      \* fingerprints of the candidates of the security scan
    Capability,     \* quality capabilities the profile requires
    ReviewGate,     \* agent-review gates the security scan can ask for
    FileOf,         \* Structural -> file
    CategoryOf,     \* Structural -> category of its rule
    SlugOf          \* file -> its path with every other character run as "-"

\* What one scan of the repository can report.
Reportable == Structural \cup Candidate \cup Capability \cup ReviewGate

Accepting == {"accepted-intentional", "blocked-with-prerequisite"}
Resolved == {"accepted-intentional", "superseded-by-current-scan"}

-----------------------------------------------------------------------------
(* The findings of the audit report.  Structural findings are grouped by   *)
(* category and rule: the model has one rule in each category.             *)

GroupOf(s) == <<"structural", CategoryOf[s]>>

AuditFindings(scan) ==
       {GroupOf(s) : s \in scan \cap Structural}
  \cup {<<"security-candidate", c>> : c \in scan \cap Candidate}
  \cup {<<"missing", m>> : m \in scan \cap Capability}
  \cup {<<"security-review", g>> : g \in scan \cap ReviewGate}

\* The category of a report finding.  A rule of a quality skill keeps its own
\* category, so its finding is not a structural one for the planner.
IsStructural(a) == a[1] = "structural" /\ a[2] # "skill"
IsIntegrate(a)  == a = <<"structural", "integrate">>
IsAgentReview(a) == a[1] = "security-review"

Fingerprints(a, scan) ==
       {s \in scan \cap Structural : GroupOf(s) = a}
  \cup {c \in scan \cap Candidate : a = <<"security-candidate", c>>}

\* A decision on a finding applies when it names no fingerprint, or one that
\* the finding still has; otherwise the entries of the ledger settle it.
Applies(decision, a, scan) ==
    decision.fingerprints = {} \/ decision.fingerprints \cap Fingerprints(a, scan) # {}

MatchedEntries(a, scan, ledger) == Fingerprints(a, scan) \cap DOMAIN ledger.entries

IsResolved(a, scan, ledger) ==
    IF a \in DOMAIN ledger.decisions /\ Applies(ledger.decisions[a], a, scan)
    THEN ledger.decisions[a].status \in Resolved
    ELSE /\ MatchedEntries(a, scan, ledger) # {}
         /\ \A f \in MatchedEntries(a, scan, ledger) : ledger.entries[f] \in Resolved

OpenAuditFindings(scan, ledger) ==
    {a \in AuditFindings(scan) : ~IsResolved(a, scan, ledger)}

\* The scan rows the planner is given: those whose entry is not resolved.
OpenRows(scan, ledger) ==
    {s \in scan \cap Structural :
        ~(s \in DOMAIN ledger.entries /\ ledger.entries[s] \in Resolved)}

-----------------------------------------------------------------------------
(* Slices.  Two slices may carry the same id and differ in their findings. *)

Slice(id, findings, review) == [id |-> id, findings |-> findings, review |-> review]

RowsByFile(rows) == {{s \in rows : FileOf[s] = FileOf[r]} : r \in rows}
FileOfGroup(group) == FileOf[CHOOSE s \in group : TRUE]
SlugOfGroup(group) == SlugOf[FileOfGroup(group)]

IntegrateRows(rows) == {s \in rows : CategoryOf[s] = "integrate"}

\* A wiring slice of a file takes a digest of the path into its id when the
\* slug alone would name the slices of two files.
WiringSliceId(group, groups) ==
    IF Cardinality({g \in groups : SlugOfGroup(g) = SlugOfGroup(group)}) = 1
    THEN <<"decide-wiring", SlugOfGroup(group)>>
    ELSE <<"decide-wiring", SlugOfGroup(group), FileOfGroup(group)>>

WiringSlices(rows) ==
    LET groups == RowsByFile(IntegrateRows(rows))
    IN  {Slice(WiringSliceId(g, groups), g, TRUE) : g \in groups}

\* Mutant: rows with a wiring slice stay in their file's cluster.
MutantClusterSlices(rows) ==
    {Slice(<<"remediate-structural", SlugOfGroup(g)>>, g, FALSE) : g \in RowsByFile(rows)}

ClusterSlices(rows) ==
    {Slice(<<"remediate-structural", SlugOfGroup(g)>>, g, FALSE) :
        g \in RowsByFile(rows \ IntegrateRows(rows))}

\* A structural finding of the report gets a slice of its own only when no
\* cluster and no wiring slice speaks for it.
IncludeFinding(a, clusters, wiring) ==
    \/ ~IsStructural(a)
    \/ ~(IsIntegrate(a) /\ wiring # {}) /\ clusters = {}

FindingSlice(a) ==
    Slice(<<"remediate", a>>, {a}, IsIntegrate(a) \/ IsAgentReview(a))

RemediationSlices(open, rows) ==
    LET clusters == ClusterSlices(rows)
        wiring == WiringSlices(rows)
        alone == {a \in open : ~IsAgentReview(a) /\ IncludeFinding(a, clusters, wiring)}
    IN  {FindingSlice(a) : a \in alone} \cup clusters \cup wiring

SecurityReviewSlices(open) == {FindingSlice(a) : a \in {b \in open : IsAgentReview(b)}}

-----------------------------------------------------------------------------
(* The domain of a slice, by the first of its categories in the order of   *)
(* the classifier, and the phase candidates: one for each domain.          *)

Categories(slice) == {IF f \in Structural THEN <<"structural", CategoryOf[f]>> ELSE f :
                        f \in slice.findings}

Domain(slice) ==
    LET Some(kind) == \E c \in Categories(slice) : c[1] = kind
        Structured(category) == <<"structural", category>> \in Categories(slice)
    IN  IF Some("security-candidate") \/ Some("security-review") THEN "security"
        ELSE IF Structured("skill")     THEN "developer-experience"
        ELSE IF Structured("integrate") THEN "integration-decisions"
        ELSE IF Structured("harden")    THEN "security"
        ELSE IF Structured("simplify")  THEN "architecture-maintainability"
        ELSE IF Some("missing")         THEN "quality-gates"
        ELSE "general-quality"

PhaseCandidates(slices) ==
    LET domain == [s \in slices |-> Domain(s)]
        CandidateOf(d, group) ==
            [domain |-> d,
             slice_ids |-> {s.id : s \in group},
             findings |-> UNION {s.findings : s \in group},
             requires_review |-> \E s \in group : s.review]
    IN  {CandidateOf(d, {s \in slices : domain[s] = d}) : d \in {domain[s] : s \in slices}}

-----------------------------------------------------------------------------
(* The plan, and the validation every audit ends with: the context holds   *)
(* one record for each slice, and no slice id twice.                       *)

PlannedSlices(scan, ledger) ==
    LET open == OpenAuditFindings(scan, ledger)
    IN  RemediationSlices(open, OpenRows(scan, ledger)) \cup SecurityReviewSlices(open)

Plan(scan, ledger) ==
    LET open == OpenAuditFindings(scan, ledger)
        rows == OpenRows(scan, ledger)
        slices == RemediationSlices(open, rows)
        review == SecurityReviewSlices(open)
    IN  [open |-> open,
         slices |-> slices,
         review |-> review,
         candidates |-> PhaseCandidates(slices \cup review),
         status |-> IF slices = {} THEN "clean" ELSE "planned"]

DistinctIds(slices) == \A s, t \in slices : s.id = t.id => s = t

ContextIsValid(scan, ledger) == DistinctIds(PlannedSlices(scan, ledger))
==============================================================================
