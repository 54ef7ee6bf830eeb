---------------------------- MODULE Verification ----------------------------
(***************************************************************************)
(* A verification of a repository: the gates one after another, each       *)
(* followed by a rewrite of gate-verification.json, then the invariants,   *)
(* the readiness, the handoff, and what a reader of the run directory      *)
(* makes of it, also when the verification died on the way.                *)
(***************************************************************************)
EXTENDS Readiness

CONSTANTS
  Worlds,    \* what may be found in the repository; see Readiness
  Policies,  \* [execute, readOnly, allowMutating, only]
  Invariant, \* configured invariant -> [enforcement, command]
  NoReport

VARIABLES
  world,   \* fields of Readiness, and about the invariants:
           \*   unpromoted, bare  those without their receipt, or whose surfaces are gone
           \*   proof             invariant -> what its evidence file says, or None
           \*   ci        capability -> what the CI check of its name says
           \*   findings          the audit has slices to offer
  policy,
  pc,      \* "gates", "report", "writing", "done" or "dead"
  done,    \* gate -> its result, so far
  scan,    \* repo-scan.json is written
  partial, \* gate-verification.json: [status, gates], or NoReport
  final,   \* what the verification reports in the end, or NoReport
  handoff  \* lifecycle_status in agent-handoff.json, or NoReport

vars == <<world, policy, pc, done, scan, partial, final, handoff>>

-----------------------------------------------------------------------------
(* Invariants of the repository *)

\* An invariant becomes a gate when its surfaces exist and its promotion holds.
Discovered(w) ==
  {c \in Executable \cap w.found : c \in DOMAIN Invariant => c \notin w.unpromoted \cup w.bare}

Fresh(i, w) == IF w.proof[i] = None THEN "unknown" ELSE w.proof[i]

\* _invariant_result: the run decides, and without one the evidence file.
InvariantStatus(i, w, results) ==
  IF i \in w.unpromoted THEN "blocked"
  ELSE IF i \in w.bare THEN "unknown"
  ELSE IF i \in DOMAIN results /\ results[i].status = "passed" THEN "passed"
  ELSE IF i \in DOMAIN results /\ results[i].status = "failed"
       THEN IF results[i].why \in BlockingFailures THEN "blocked" ELSE "failed"
  ELSE Fresh(i, w)

Required == {i \in DOMAIN Invariant : Invariant[i].enforcement = "required"}

\* apply_invariant_status
WithInvariants(status, w, results) ==
  LET said == {InvariantStatus(i, w, results) : i \in Required}
  IN  IF "failed" \in said THEN "failed"
      ELSE IF said \cap {"blocked", "unknown", "stale"} # {} THEN "blocked"
      ELSE status

\* Readiness that is blocked blocks, whatever else was found.
FinalStatus(w, results) ==
  IF ReadinessStatus(w, results) = "blocked" THEN "blocked"
  ELSE WithInvariants(GateStatus(results), w, results)

\* verify_payload_status
PayloadStatus(status, w) ==
  IF status = "passed" /\ w.findings THEN "passed-with-findings" ELSE status

-----------------------------------------------------------------------------
(* What readers make of it *)

Executed(results) == {c \in DOMAIN results : results[c].status # "skipped"}

\* Required invariants that cannot be run are missing too.
MissingGates(w) ==
  w.missing \cup w.unpromoted \cup {i \in w.bare : Invariant[i].enforcement = "required"}

\* gate_handoff_status, and handoff_status when the gates say nothing.
HandoffStatus(status, w, results) ==
  LET ran  == Executed(results)
      said == {results[c].status : c \in ran}
              \cup {w.ci[c] : c \in (DOMAIN w.ci \cap Discovered(w)) \ ran}
  IN  IF status = "blocked" THEN "gates-blocked"
      ELSE IF status = "failed" THEN "gates-failed"
      ELSE IF said = {"passed"} /\ ~w.findings THEN "gates-clean"
      ELSE IF said # {} THEN "gates-executed"
      ELSE IF MissingGates(w) = {} THEN "gates-discovered"
      ELSE IF ~w.findings THEN "clean" ELSE "planned"

AllChecksSucceed(w) == w.checks # {} /\ \A k \in w.checks : k.ok

CiProvenanceBlocked(w) ==
  \/ w.checks = {} \/ w.head = None
  \/ \E k \in w.checks : ~k.ok \/ k.head # w.head \/ k.ref # w.branch

\* compute_lifecycle_status, given what is on disk. Without repo-scan.json no
\* check is known; a report that is not the final one has no readiness.
Lifecycle(status, handoffStatus, readiness, scanned, w) ==
  LET release == readiness \notin {NoReport, "not-applicable"}
      passed == status = "passed"
      checksHold == scanned /\ (IF release THEN ~CiProvenanceBlocked(w) ELSE AllChecksSucceed(w))
  IN  IF handoffStatus = "gates-failed" \/ status = "failed" THEN "failed"
      ELSE IF readiness = "blocked" THEN "blocked"
      ELSE IF handoffStatus = "gates-blocked" \/ status = "blocked" THEN "blocked"
      ELSE IF passed /\ checksHold THEN "merge-ready"
      ELSE IF passed /\ release THEN "blocked"
      ELSE IF handoffStatus = "gates-clean" \/ passed THEN "gates-clean"
      ELSE "needs-triage"

\* What a run summary says of the run directory.
SummaryLifecycle ==
  IF handoff # NoReport THEN handoff
  ELSE IF partial = NoReport THEN "needs-triage"
  ELSE Lifecycle(partial.status, NoReport, partial.readiness, scan, world)

\* Mutant: a report is used whatever its gates say.
UsableAlways(report) == report.status \in {"passed", "failed", "blocked", "skipped-nonlocal"}

\* _usable_verification: the status has to agree with the gates.
Usable(report) ==
  LET said == {report.gates[c].status : c \in DOMAIN report.gates}
  IN  /\ report.status = "passed" => "passed" \in said
      /\ report.status = "failed" => "failed" \in said
      /\ report.status = "skipped-nonlocal" => said = {"skipped"}

\* _verify_confidence
Confirmed(report) ==
  /\ Executed(report.gates) = DOMAIN report.gates
  /\ DOMAIN report.gates # {}
  /\ policy.only = {}

\* project_verify_outcome
Outcome(report) ==
  IF ~Usable(report) THEN "awaiting-evidence"
  ELSE IF report.payload = "passed"
       THEN IF Confirmed(report) THEN "complete" ELSE "awaiting-evidence"
  ELSE IF report.payload = "passed-with-findings" THEN "action-required"
  ELSE IF report.payload \in {"failed", "blocked"} THEN report.payload
  ELSE "awaiting-evidence"

-----------------------------------------------------------------------------
\* Commands are executed only in a disposable checkout; a request for a gate
\* that was not discovered is refused before anything is written.
Init ==
  /\ world \in Worlds
  /\ policy \in {p \in Policies : SelectionIsKnown(p.only) /\ p.only \subseteq Discovered(world)}
  /\ pc = "gates"
  /\ done = <<>>
  /\ scan = FALSE
  /\ partial = NoReport /\ final = NoReport /\ handoff = NoReport

Left == (Selected(policy.only) \cap Discovered(world)) \ DOMAIN done

\* One gate, and the report so far.
RunGate ==
  /\ pc = "gates" /\ Left # {}
  /\ \E r \in GateResultsOf(NextGate(Left), policy, done) :
       /\ done' = [c \in DOMAIN done \cup {NextGate(Left)} |->
                     IF c = NextGate(Left) THEN r ELSE done[c]]
       /\ partial' = [status |-> GateStatus(done'), readiness |-> NoReport, gates |-> done']
  /\ UNCHANGED <<world, policy, pc, scan, final, handoff>>

\* The invariants, the readiness and the plan are made in memory.
Conclude ==
  /\ pc = "gates" /\ Left = {}
  /\ pc' = "report"
  /\ LET status == FinalStatus(world, done)
     IN  final' = [status |-> status, readiness |-> ReadinessStatus(world, done),
                   gates |-> done, payload |-> PayloadStatus(status, world)]
  /\ UNCHANGED <<world, policy, done, scan, partial, handoff>>

WriteScan ==
  /\ pc = "report"
  /\ pc' = "writing"
  /\ scan' = TRUE
  /\ UNCHANGED <<world, policy, done, partial, final, handoff>>

WriteReport ==
  /\ pc = "writing"
  /\ partial = NoReport \/ partial.readiness = NoReport
  /\ partial' = [status |-> final.status, readiness |-> final.readiness, gates |-> done]
  /\ UNCHANGED <<world, policy, pc, done, scan, final, handoff>>

WriteHandoff ==
  /\ pc = "writing" /\ partial # NoReport /\ partial.readiness # NoReport
  /\ pc' = "done"
  /\ handoff' = Lifecycle(final.status, HandoffStatus(final.status, world, done),
                          final.readiness, TRUE, world)
  /\ UNCHANGED <<world, policy, done, scan, partial, final>>

\* The process ends before the report is complete.
Die ==
  /\ pc \notin {"done", "dead"}
  /\ pc' = "dead"
  /\ final' = NoReport
  /\ UNCHANGED <<world, policy, done, scan, partial, handoff>>

Next == RunGate \/ Conclude \/ WriteScan \/ WriteReport \/ WriteHandoff \/ Die

Spec == Init /\ [][Next]_vars

-----------------------------------------------------------------------------
Concluded == final # NoReport

\* What has to have been run for a pass to mean anything.
Owed ==
  {c \in Selected(policy.only) \cap Discovered(world) :
     /\ Capability[c].command /\ ~Capability[c].ciOnly /\ Capability[c].kind # "file"
     /\ Capability[c].enforcement # "advisory"}

(* A verification that passes has run every local gate that is not          *)
(* advisory, or has seen a leaf of it pass; no such gate failed; and every  *)
(* required invariant was proved, by its gate or, if that was not run, by   *)
(* its evidence file, with all of its surfaces there.                       *)
VerdictIsEarned ==
  (Concluded /\ final.status = "passed") =>
    /\ \A c \in Owed : done[c].status = "passed" \/ (c \in Aggregates /\ PassedLeaves(done) # {})
    /\ \A c \in DOMAIN done : done[c].status = "failed" => Capability[c].enforcement = "advisory"
    /\ \A i \in Required :
         /\ i \notin world.bare \cup world.unpromoted
         /\ i \in DOMAIN done /\ Executed(done) # {} => done[i].status # "failed"
         /\ i \notin Executed(done) => world.proof[i] = "passed"
    /\ IsRelease(world) => \A k \in world.checks : k.head = world.head

(* The plan of the run, which knows of no results, announces what is done:  *)
(* a gate is executed only if it will-execute was said of it, and what was  *)
(* announced is executed unless an earlier result covers it or shows that   *)
(* its dependencies are not installed. Two gates that need one installation *)
(* do not both fail for want of it, and whatever fails is a blocker.        *)
AnnouncedIsRun ==
  /\ \A c \in DOMAIN done :
       c \in Executed(done) <=>
         /\ LocalExecutionStatus(c, policy) = "will-execute"
         /\ done[c].why = "covered" => PassedLeaves(done) = {}
         /\ done[c].why = "dependency-setup-blocker" => done[c].status = "failed"
  /\ \A c, d \in DOMAIN done :
       /\ c # d /\ Capability[c].setup = Capability[d].setup
       /\ done[c].status = "failed" /\ done[c].why = "dependency-setup-blocker"
       => done[d].status # "failed" \/ done[d].why # "dependency-setup-blocker"
  /\ GateStatus(done) \in {"failed", "blocked"} /\ done # <<>> => Blockers(done) # {}

(* The outcome shown to the user, the lifecycle in the handoff and the      *)
(* gates agree: complete means that no gate was left out and nothing is     *)
(* left to do, failed means that a gate failed, merge-ready is never said   *)
(* of what is blocked or failed, and only of checks that succeeded, in CI   *)
(* and, unless all gates that were run are advisory, here.                  *)
ProjectionsAgree ==
  Concluded =>
    /\ Outcome(final) = "complete" =>
         /\ Executed(done) = Discovered(world) /\ done # <<>>
         /\ ~world.findings
         /\ handoff \in {NoReport, "gates-clean", "merge-ready"}
    /\ Outcome(final) = "failed" => \E c \in DOMAIN done : done[c].status = "failed"
    /\ handoff = "merge-ready" =>
         /\ Outcome(final) \notin {"failed", "blocked"}
         /\ AllChecksSucceed(world) /\ done # <<>>
         /\ Counting(done) # {} => \E c \in DOMAIN done : done[c].status = "passed"
    /\ handoff \in {"failed", "blocked"} => Outcome(final) \notin {"complete", "action-required"}

-----------------------------------------------------------------------------
(* The invariant of the proof: the result of a gate is one the gate may have *)
(* with all the results there are, and what was concluded follows of them.   *)
ResultFits(c, r, results) ==
  \/ r = Result("skipped", "dependency-setup-blocker", Plain)
  \/ /\ r.enforcement = Capability[c].enforcement /\ r.status = "skipped"
     /\ \/ r.why = "covered" /\ Covered(c, results)
        \/ /\ LocalExecutionStatus(c, policy) # "will-execute"
           /\ \/ r.why = "ci-only" /\ Capability[c].ciOnly
              \/ r.why = "file" /\ Capability[c].kind = "file"
              \/ r.why = "no-command" /\ ~Capability[c].command
              \/ r.why \in {"execution-consent-required", "mutating-gate-not-run"}
  \/ /\ r.enforcement = Capability[c].enforcement
     /\ LocalExecutionStatus(c, policy) = "will-execute"
     /\ \/ r.status = "passed" /\ r.why = "none"
        \/ r.status = "failed" /\ r.why \in FailureTypes

ResultsFit ==
  /\ DOMAIN done \subseteq Selected(policy.only) \cap Discovered(world)
  /\ done = <<>> \/ DOMAIN done # {}
  /\ \A c \in DOMAIN done : ResultFits(c, done[c], done)
  /\ \A c, d \in DOMAIN done :
       /\ c # d /\ Capability[c].setup = Capability[d].setup
       /\ done[c].status = "failed" /\ done[c].why = "dependency-setup-blocker"
       => done[d].status # "failed" \/ done[d].why # "dependency-setup-blocker"

ConclusionFits ==
  /\ Selected(policy.only) \cap Discovered(world) \subseteq DOMAIN done
  /\ final = [status |-> FinalStatus(world, done), readiness |-> ReadinessStatus(world, done),
              gates |-> done, payload |-> PayloadStatus(FinalStatus(world, done), world)]

VerificationInv ==
  /\ world \in Worlds /\ ResultsFit
  /\ pc \in {"report", "writing", "done"} => ConclusionFits
  /\ Concluded => pc \in {"report", "writing", "done"}
  /\ handoff # NoReport =>
       /\ pc = "done"
       /\ handoff = Lifecycle(final.status, HandoffStatus(final.status, world, done),
                              final.readiness, TRUE, world)
=============================================================================
