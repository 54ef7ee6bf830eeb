---------------------------- MODULE FindingLedger ----------------------------
(***************************************************************************)
(* The life of a finding across the runs of one repository.  Every audit   *)
(* writes a resolution ledger into its run directory; the next audit reads *)
(* the ledger of the newest other run, newest by the modification time of  *)
(* its directory.  Runs that only inspect or verify hold no ledger, later  *)
(* commands write new files into old run directories, retention deletes    *)
(* whole directories, and decisions come from the configuration and from   *)
(* gate runs, which outlive the run they are about.                        *)
(***************************************************************************)
EXTENDS RemediationPlan, Sequences, Functions

CONSTANTS
    RunId,          \* run ids
    KeptCounts,     \* how many of the newest runs a retention policy may keep
    MaxEdits        \* bound on changes of code, configuration and decisions

VARIABLES
    scan,       \* what a scan of the repository reports now
    config,     \* accepted dispositions of the configuration: fingerprint -> status
    store,      \* the run directories, newest modification first
    gates,      \* RunId -> decisions recorded by gate runs: finding -> decision
    result,     \* what the latest audit or verification that finished planned from
    accepted,   \* history: fingerprints some configuration or decision accepted
    edits       \* number of edits so far

vars == <<scan, config, store, gates, result, accepted, edits>>

Unwritten == [none |-> TRUE]
Empty == <<>>
NoLedger == [entries |-> Empty, decisions |-> Empty]
Statuses == Accepting \cup {"unresolved", "review-required", "superseded-by-current-scan"}

\* One run directory.  `held`: a status in its files exempts it from retention.
Run(id, ledger, report, held) ==
    [id |-> id, ledger |-> ledger, report |-> report, held |-> held]

Stored == {store[i].id : i \in DOMAIN store}
Position(id) == CHOOSE i \in DOMAIN store : store[i].id = id
Lookup(id) == store[Position(id)]

\* A table with one row set.
With(table, key, value) ==
    [x \in DOMAIN table \cup {key} |-> IF x = key THEN value ELSE table[x]]

\* The directories but for one.
Without(n) == [i \in 1 .. (Len(store) - 1) |-> store[IF i < n THEN i ELSE i + 1]]

Others(id) == IF id \in Stored THEN Without(Position(id)) ELSE store

Init ==
    /\ scan \in {Reportable, {}}
    /\ config \in {Empty} \cup UNION {[{f} -> Accepting] : f \in Structural \cup Candidate}
    /\ store = <<>>
    /\ gates = [id \in RunId |-> Empty]
    /\ result = Unwritten
    /\ accepted = {}
    /\ edits = 0

-----------------------------------------------------------------------------
(* The ledger an audit builds.                                             *)

\* The entries of the newest other run whose ledger can be read.
PreviousEntries(id) ==
    LET others == Others(id)
        readable == {i \in DOMAIN others : others[i].ledger # Unwritten}
        newest == CHOOSE i \in readable : \A k \in readable : i <= k
    IN  IF readable = {} THEN Empty ELSE others[newest].ledger.entries

\* Mutant: what earlier runs accepted is forgotten.
MutantCarriedStatus(f, previous, fresh) ==
    IF f \in DOMAIN config THEN config[f] ELSE fresh

\* The status of a finding the scan reports now.
CarriedStatus(f, previous, fresh) ==
    IF f \in DOMAIN config THEN config[f]
    ELSE IF f \in DOMAIN previous /\ previous[f] \in Accepting THEN previous[f]
    ELSE fresh

\* Mutant: every previous entry is superseded, also one that is present.
MutantStructuralEntries(now, previous) ==
    LET present == now \cap Structural
    IN  [f \in present \cup DOMAIN previous |->
            IF f \notin DOMAIN previous THEN CarriedStatus(f, previous, "unresolved")
            ELSE "superseded-by-current-scan"]

\* The code quality ledger: what is present, and every previous entry that the
\* code quality scan does not report as superseded.
StructuralEntries(now, previous) ==
    LET present == now \cap Structural
    IN  [f \in present \cup DOMAIN previous |->
            IF f \in present THEN CarriedStatus(f, previous, "unresolved")
            ELSE "superseded-by-current-scan"]

\* Security candidates are added unless their fingerprint has an entry.
WithCandidates(entries, now, previous) ==
    LET new == (now \cap Candidate) \ DOMAIN entries
    IN  [f \in DOMAIN entries \cup new |->
            IF f \in new THEN CarriedStatus(f, previous, "review-required")
            ELSE entries[f]]

\* Decisions of gate runs replace the status of the entries they name.
WithDecisions(entries, decisions) ==
    [f \in DOMAIN entries |->
        LET about == {a \in DOMAIN decisions : f \in decisions[a].fingerprints}
        IN  IF about = {} THEN entries[f] ELSE decisions[CHOOSE a \in about : TRUE].status]

BuiltLedger(id) ==
    LET previous == PreviousEntries(id)
        entries == WithCandidates(StructuralEntries(scan, previous), scan, previous)
    IN  [entries |-> WithDecisions(entries, gates[id]), decisions |-> gates[id]]

-----------------------------------------------------------------------------
(* Commands.  Creating a file in a run directory makes it the newest one;  *)
(* writing a file that is there in place does not.                         *)

ToFront(run) == store' = <<run>> \o Others(run.id)

Put(run) ==
    IF run.id \in Stored /\ Lookup(run.id).ledger # Unwritten
    THEN store' = [store EXCEPT ![Position(run.id)] = run]
    ELSE ToFront(run)

\* `run`: the ledger is read and built, the plan made from it and validated,
\* and only then are report and ledger written.
Audit(id) ==
    LET ledger == BuiltLedger(id)
    IN  /\ ContextIsValid(scan, ledger)
        /\ \E held \in BOOLEAN : Put(Run(id, ledger, AuditFindings(scan), held))
        /\ result' = [id |-> id, scan |-> scan, ledger |-> ledger]
        /\ accepted' = accepted \cup (DOMAIN config \cap scan)
        /\ UNCHANGED <<scan, config, gates, edits>>

\* An audit whose plan is refused, or that dies before the ledger is complete.
\* The run directory is there; a ledger it held may be torn.
AuditFails(id) ==
    /\ id \in Stored => Lookup(id).ledger # Unwritten
    /\ IF id \in Stored
       THEN /\ ContextIsValid(scan, BuiltLedger(id))
            /\ store' = [store EXCEPT ![Position(id)].ledger = Unwritten]
       ELSE ToFront(Run(id, Unwritten, {}, FALSE))
    /\ UNCHANGED <<scan, config, gates, result, accepted, edits>>

\* `inspect`: a new run with neither report nor ledger.
Inspect(id) ==
    /\ id \notin Stored
    /\ ToFront(Run(id, Unwritten, {}, FALSE))
    /\ UNCHANGED <<scan, config, gates, result, accepted, edits>>

\* `verify-gates`: a new run with a report and a plan that no ledger filters.
Verify(id) ==
    /\ id \notin Stored
    /\ ContextIsValid(scan, NoLedger)
    /\ \E held \in BOOLEAN : ToFront(Run(id, Unwritten, AuditFindings(scan), held))
    /\ result' = [id |-> id, scan |-> scan, ledger |-> NoLedger]
    /\ UNCHANGED <<scan, config, gates, accepted, edits>>

\* A delta, a summary or fix proposals written into an old run directory.
Touch(id) ==
    /\ id \in Stored /\ Position(id) # 1
    /\ ToFront(Lookup(id))
    /\ UNCHANGED <<scan, config, gates, result, accepted, edits>>

\* `gate-respond record-disposition` on a finding of the run's report.  Only
\* a candidate's finding carries a fingerprint: scan rows have other ids.
RecordDisposition(id, finding, status) ==
    LET named == IF finding[1] = "security-candidate" THEN {finding[2]} ELSE {}
        decision == [status |-> status, fingerprints |-> named]
        recorded == With(gates[id], finding, decision)
    IN  /\ edits < MaxEdits
        /\ id \in Stored
        /\ finding \in Lookup(id).report
        /\ gates' = [gates EXCEPT ![id] = recorded]
        /\ store' = IF Lookup(id).ledger = Unwritten THEN store
                    ELSE [store EXCEPT ![Position(id)].ledger =
                            [entries |-> WithDecisions(@.entries, recorded),
                             decisions |-> recorded]]
        /\ accepted' = accepted \cup named
        /\ edits' = edits + 1
        /\ UNCHANGED <<scan, config, result>>

\* Retention keeps the newest runs, the preserved and the held ones, and deletes
\* the others one directory after another.
Prune(kept, preserved) ==
    /\ \E i \in DOMAIN store :
         /\ i > kept /\ store[i].id \notin preserved /\ ~store[i].held
         /\ store' = Without(i)
    /\ UNCHANGED <<scan, config, gates, result, accepted, edits>>

-----------------------------------------------------------------------------
(* The repository around the runner.                                       *)

ChangeCode(f) ==
    /\ edits < MaxEdits
    /\ scan' = IF f \in scan THEN scan \ {f} ELSE scan \cup {f}
    /\ edits' = edits + 1
    /\ UNCHANGED <<config, store, gates, result, accepted>>

Accept(f, status) ==
    /\ edits < MaxEdits
    /\ f \notin DOMAIN config
    /\ config' = With(config, f, status)
    /\ edits' = edits + 1
    /\ UNCHANGED <<scan, store, gates, result, accepted>>

Withdraw(f) ==
    /\ edits < MaxEdits
    /\ f \in DOMAIN config
    /\ config' = Restrict(config, DOMAIN config \ {f})
    /\ edits' = edits + 1
    /\ UNCHANGED <<scan, store, gates, result, accepted>>

Next ==
    \/ \E id \in RunId :
        \/ Audit(id) \/ AuditFails(id) \/ Inspect(id) \/ Verify(id) \/ Touch(id)
        \/ \E finding \in AuditFindings(Reportable), status \in Accepting :
                RecordDisposition(id, finding, status)
    \/ \E kept \in KeptCounts, preserved \in SUBSET Stored : Prune(kept, preserved)
    \/ \E f \in Reportable : ChangeCode(f)
    \/ \E f \in Structural \cup Candidate :
        Withdraw(f) \/ \E status \in Accepting : Accept(f, status)

Spec == Init /\ [][Next]_vars

-----------------------------------------------------------------------------

IsLedger(ledger) ==
    /\ DOMAIN ledger.entries \subseteq Structural \cup Candidate
    /\ \A f \in DOMAIN ledger.entries : ledger.entries[f] \in Statuses
    /\ \A a \in DOMAIN ledger.decisions : ledger.decisions[a].status \in Accepting

\* In the plan of the latest audit every open scan row is in exactly one slice,
\* of its file's cluster or of its file's wiring decision, and so is every other
\* open finding of the report; one phase candidate covers it.  Planning loses
\* nothing and plans nothing twice.
OpenFindingsPlannedOnce ==
    result # Unwritten =>
        LET plan == Plan(result.scan, result.ledger)
            slices == plan.slices \cup plan.review
            work == OpenRows(result.scan, result.ledger)
                        \cup {a \in plan.open : ~IsStructural(a)}
        IN  \A f \in work :
                /\ Cardinality({s \in slices : f \in s.findings}) = 1
                /\ Cardinality({c \in plan.candidates : f \in c.findings}) = 1

\* A structural finding that an audit still sees and leaves out of the plan was
\* once accepted, by the configuration or by a decision: no ordering of runs,
\* of touched, torn or pruned directories settles one by itself.
ResolvedOnlyByDecision ==
    result # Unwritten =>
        \A s \in result.scan \cap Structural :
            s \notin OpenRows(result.scan, result.ledger) => s \in accepted

KeepsAcceptance ==
    \A s \in Structural :
      ( /\ result # Unwritten /\ result' # result /\ result'.id # result.id
        /\ store # <<>> /\ store[1].id = result.id /\ store[1].ledger # Unwritten
        /\ s \in result.scan \cap result'.scan
        /\ result'.ledger # NoLedger
        /\ s \notin DOMAIN config
        /\ result.ledger.entries[s] \in Accepting )
      => result'.ledger.entries[s] = result.ledger.entries[s]

\* While the newest directory is that of the latest audit, the next audit under
\* another id keeps what it settled: an accepted finding that is still there
\* stays accepted, even when the configuration no longer names it.
AcceptanceIsKept == [][KeepsAcceptance]_vars

-----------------------------------------------------------------------------
(* What the documentation and the code's own assertions say.               *)

\* The ledger marks disappeared findings as superseded by the current scan
\* (docs/artifacts.md): what it marks superseded is not in the scan.
SupersededIsAbsent ==
    result # Unwritten =>
        \A f \in DOMAIN result.ledger.entries :
            result.ledger.entries[f] = "superseded-by-current-scan" => f \notin result.scan
-----------------------------------------------------------------------------
(* The invariant of the proof: an entry or a decision that accepts is one    *)
(* that somebody has accepted, decisions name candidates only, and the       *)
(* ledger under the id of the latest result settles structural findings as   *)
(* the result does.                                                         *)
Earned(entries) == \A f \in DOMAIN entries : entries[f] \in Accepting => f \in accepted

\* What one ledger says of structural findings, the other says.
SameRows(one, other) ==
  \A s \in Structural :
    /\ s \in DOMAIN one.entries <=> s \in DOMAIN other.entries
    /\ s \in DOMAIN one.entries => one.entries[s] = other.entries[s]

ResultFits(r) ==
  /\ ResolvedOnlyByDecision
  /\ \A i \in DOMAIN store :
       store[i].id = r.id /\ store[i].ledger # Unwritten =>
         /\ r.scan \cap Structural \subseteq DOMAIN r.ledger.entries
         /\ SameRows(store[i].ledger, r.ledger)

LedgerInv ==
  /\ store \in Seq({store[i] : i \in DOMAIN store})
  /\ \A i, k \in DOMAIN store : store[i].id = store[k].id => i = k
  /\ \A i \in DOMAIN store :
       /\ DOMAIN store[i] = {"id", "ledger", "report", "held"}
       /\ store[i].report \subseteq AuditFindings(Reportable)
       /\ store[i].ledger # Unwritten => Earned(store[i].ledger.entries)
  /\ DOMAIN gates = RunId
  /\ \A id \in RunId : \A x \in DOMAIN gates[id] :
       /\ gates[id][x].fingerprints \subseteq accepted \cap Candidate
       /\ gates[id][x].status \in Accepting
  /\ \A x \in DOMAIN config : config[x] \in Accepting
  /\ result # Unwritten => ResultFits(result)
==============================================================================
