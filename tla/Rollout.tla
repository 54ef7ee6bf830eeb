------------------------------- MODULE Rollout ------------------------------
(* A rollout: one refresh per repository of a list, what git says before and *)
(* after it, the controller report of each and its validation, the ledger at *)
(* the end; and the reports that workers make of a run and have linted.      *)
(*                                                                           *)
(* Somebody edits, commits and switches branches meanwhile. A git call that  *)
(* fails, or takes too long, reads as empty.                                 *)
EXTENDS Naturals, Sequences, FiniteSets

CONSTANTS
  Files,        \* files of a repository
  Lists,        \* lists of repositories; "gone" is no directory
  Verdicts,     \* what the verify run of a refresh can have found
  Claims,       \* what a worker says of its own work
  Artifacts,    \* the entry of .quality-runner/ in git status
  None,
  MaxEdits, MaxCommits, MaxDeaths   \* bounds

VARIABLES
  list,         \* the repositories rolled out to
  head,         \* the commit checked out
  dirty,        \* the lines of git status
  job,          \* the entry that is worked on
  rows,         \* one for each entry done
  ledger,       \* rollout-ledger.json, or None
  lint,         \* the report of a worker and its strict lint, or None
  spent

vars == <<list, head, dirty, job, rows, ledger, lint, spent>>

Idle == [step |-> "idle"]

Init ==
  /\ list \in Lists
  /\ head = 1
  /\ dirty \in SUBSET Files
  /\ job = Idle
  /\ rows = <<>>
  /\ ledger = None
  /\ lint = None
  /\ spent = [edits |-> 0, commits |-> 0, deaths |-> 0]

Spend(what) == spent' = [spent EXCEPT ![what] = @ + 1]

(* The summary of a verify run.                                              *)

SummaryStatus(v) ==
  IF v.status = "passed" /\ v.audit = "findings" THEN "passed-with-findings"
  ELSE IF v.status # None THEN v.status
  ELSE IF v.audit # None THEN v.audit ELSE "unknown"

GateClass ==
  [environment |-> "environment-or-runner", setup |-> "dependency-setup",
   mutation |-> "read-only-policy", mutating |-> "read-only-policy",
   consent |-> "execution-consent", failed |-> "command-failure"]

BlockerClasses(v) ==
  {GateClass[k] : k \in v.gates \cap DOMAIN GateClass}
  \cup (IF v.timeout THEN {"workflow-timeout"} ELSE {})
  \cup (IF v.missing THEN {"missing-capabilities"} ELSE {})
  \cup (IF v.audit = "findings" THEN {"structural-findings"} ELSE {})

Mixed(v) ==
  /\ Cardinality(BlockerClasses(v)) > 1
  /\ BlockerClasses(v) \cap {"command-failure", "environment-or-runner", "dependency-setup"} # {}

Classification(v) ==
  CASE v.timeout -> "workflow-timeout-blocker"
    [] ~v.timeout /\ Mixed(v) -> "mixed-gate-blocker"
    [] ~v.timeout /\ ~Mixed(v) /\ "environment" \in v.gates -> "environment-or-runner-blocker"
    [] OTHER ->
         IF "setup" \in v.gates THEN "environment-or-dependency-blocker"
         ELSE IF v.gates \cap {"mutating", "mutation"} # {} THEN "read-only-gate-blocker"
         ELSE IF "consent" \in v.gates THEN "execution-consent-required"
         ELSE IF SummaryStatus(v) = "failed" THEN "failing-executable-gates"
         ELSE IF v.missing THEN "missing-capabilities"
         ELSE IF v.audit = "findings" THEN "broad-repo-debt"
         ELSE IF SummaryStatus(v) \in {"passed", "clean"} THEN "clean" ELSE "needs-triage"

RunSummary(v) ==
  [status |-> SummaryStatus(v), class |-> Classification(v), classes |-> BlockerClasses(v)]

(* The report.                                                               *)

FinalQrClean(qr) == qr.status \in {"clean", "passed"} \/ qr.class = "clean"

InferredBlockers(qr) ==
  IF FinalQrClean(qr) THEN {} ELSE {qr.status, qr.class} \cup qr.classes

Recommended(qr, claim) ==
  IF ~FinalQrClean(qr) THEN "blocked"
  ELSE IF claim.commit /\ claim.pushed THEN "complete" ELSE "ready-for-review"

Changed(before, after) == (after \ before) \ {Artifacts}

\* What a rollout claims for a repository.
NoClaim ==
  [status |-> None, commit |-> FALSE, pushed |-> FALSE, note |-> FALSE, scope |-> None,
   files |-> {}, blockers |-> {}]

BuildReport(qr, claim, seen) ==
  LET status == IF claim.status = None THEN Recommended(qr, claim) ELSE claim.status
      found == IF claim.blockers = {} THEN InferredBlockers(qr) ELSE claim.blockers
  IN  [status |-> status, qr |-> qr, files |-> claim.files, commit |-> claim.commit,
       pushed |-> claim.pushed, shown |-> seen.after, from |-> seen.pre, to |-> seen.head,
       note |-> claim.note, scope |-> claim.scope, outside |-> FALSE,
       blockers |-> IF status = "blocked" THEN found ELSE claim.blockers]

\* Mutant: a tree counts as clean when nothing was added to what it was.
NothingAdded(report) == report.files = {}

OnlyGenerated(report) == report.shown \subseteq {Artifacts}

\* A report of a terminal status is refused for these reasons.
Errors(report) ==
  {e \in {"dirty", "no-commit", "not-pushed", "no-blocker", "scope"} :
     \/ e = "dirty" /\ report.status \in {"complete", "ready-for-review"} /\ ~OnlyGenerated(report)
     \/ e = "no-commit" /\ report.status = "complete" /\ ~report.commit
     \/ e = "not-pushed" /\ report.status = "complete" /\ ~report.pushed
     \/ e = "no-blocker" /\ report.status = "blocked" /\ report.blockers = {}
     \/ e = "scope" /\ report.outside}

OutsideScope(report) == report.scope # None /\ ~(report.files \subseteq report.scope)

NormalizedStatus(report) ==
  IF report.status # "complete" THEN report.status
  ELSE IF FinalQrClean(report.qr) /\ report.pushed THEN "complete"
  ELSE IF report.blockers # {} \/ report.qr.status \in {"blocked", "failed"} THEN "blocked"
  ELSE "ready-for-review"

Normalized(report) ==
  [report EXCEPT !.status = NormalizedStatus(report), !.outside = OutsideScope(report),
                 !.blockers = IF @ = {} THEN InferredBlockers(report.qr) ELSE @]

\* HEAD moved while the report was made, and nobody says why.
MovedSilently(report) ==
  report.from # None /\ report.to # None /\ report.from # report.to /\ ~report.note

StrictErrors(raw, report) ==
  (IF raw.status = "complete" /\ ~FinalQrClean(report.qr) THEN {"not-clean"} ELSE {})
  \cup (IF report.status = "complete" /\ ~report.commit THEN {"no-task-commit"} ELSE {})
  \cup (IF MovedSilently(report) THEN {"moved"} ELSE {})
  \cup (IF OutsideScope(report) THEN {"scope"} ELSE {})

LintErrors(raw) == Errors(Normalized(raw)) \cup StrictErrors(raw, Normalized(raw))

(* The rollout.                                                              *)

\* The entry of the list that comes next.
Entry == list[Len(rows) + 1]

\* git status, HEAD and branch before the refresh.
Begin(failing) ==
  /\ job = Idle /\ ledger = None /\ Len(rows) < Len(list) /\ Entry # "gone"
  /\ job' = [step |-> "refresh", before |-> IF "status" \in failing THEN {} ELSE dirty,
             pre |-> IF "head" \in failing THEN None ELSE head, failed |-> failing # {}]
  /\ lint' = None
  /\ UNCHANGED <<list, head, dirty, rows, ledger, spent>>

SkipMissing ==
  /\ job = Idle /\ ledger = None /\ Len(rows) < Len(list) /\ Entry = "gone"
  /\ rows' = Append(rows, [status |-> "invalid-repo", report |-> None, accepted |-> FALSE])
  /\ lint' = None
  /\ UNCHANGED <<list, head, dirty, job, ledger, spent>>

\* A verdict, or None: the refresh raised. Its artifacts show up in git.
Refresh(verdict) ==
  /\ job.step = "refresh"
  /\ job' = [step |-> "status", before |-> job.before, pre |-> job.pre, failed |-> job.failed,
             verdict |-> verdict]
  /\ dirty' = dirty \cup {Artifacts}
  /\ lint' = None
  /\ UNCHANGED <<list, head, rows, ledger, spent>>

ReadStatus(failing) ==
  /\ job.step = "status"
  /\ job' = [step |-> "report", before |-> job.before, pre |-> job.pre, verdict |-> job.verdict,
             failed |-> job.failed \/ failing, after |-> IF failing THEN {} ELSE dirty,
             truth |-> dirty]
  /\ lint' = None
  /\ UNCHANGED <<list, head, dirty, rows, ledger, spent>>

\* A pre-read that failed takes the value of the one after it.
Seen(before, after, failing) ==
  LET now == IF failing THEN None ELSE head
  IN  [pre |-> IF before = None THEN now ELSE before, head |-> now, after |-> after]

\* "truth" and "verdict" of a row are history variables.
WriteReport(failing) ==
  /\ job.step = "report"
  /\ LET raised == job.verdict = None
         qr == IF raised
               THEN [status |-> "blocked", class |-> "controller-refresh-error", classes |-> {}]
               ELSE RunSummary(job.verdict)
         claim == [NoClaim EXCEPT !.files = Changed(job.before, job.after),
                                  !.blockers = IF raised THEN {"refresh failed"} ELSE {}]
         report == BuildReport(qr, claim, Seen(job.pre, job.after, failing))
     IN  rows' = Append(rows, [status |-> IF raised THEN "error" ELSE qr.status,
                               report |-> report, accepted |-> Errors(report) = {},
                               verdict |-> job.verdict, truth |-> job.truth,
                               failed |-> job.failed])
  /\ job' = Idle
  /\ lint' = None
  /\ UNCHANGED <<list, head, dirty, ledger, spent>>

RolloutStatus ==
  LET all == {rows[k] : k \in DOMAIN rows}
  IN  IF \E r \in all : r.status \in {"error", "invalid-repo"} THEN "completed-with-errors"
      ELSE IF \E r \in all : ~r.accepted THEN "completed-with-rejected-reports"
      ELSE "completed"

WriteLedger ==
  /\ job = Idle /\ ledger = None /\ Len(rows) = Len(list)
  /\ ledger' = RolloutStatus
  /\ lint' = None
  /\ UNCHANGED <<list, head, dirty, job, rows, spent>>

\* A worker reports on a run itself; with a batch scope its report is
\* normalized first. Nobody can lint while a rollout owns the repository here.
Worker(verdict, claim, pre) ==
  /\ job = Idle /\ rows = <<>>
  /\ LET seen == [pre |-> pre, head |-> head, after |-> dirty]
         built == BuildReport(RunSummary(verdict), claim, seen)
         report == IF claim.scope = None THEN built ELSE Normalized(built)
     IN  lint' = [claim |-> claim, report |-> report, verdict |-> verdict, pre |-> pre,
                  accepted |-> LintErrors(report) = {}]
  /\ UNCHANGED <<list, head, dirty, job, rows, ledger, spent>>

(* The repository, meanwhile.                                                *)

Edit ==
  /\ spent.edits < MaxEdits
  /\ \E f \in Files \ dirty : dirty' = dirty \cup {f}
  /\ Spend("edits")
  /\ lint' = None
  /\ UNCHANGED <<list, head, job, rows, ledger>>

Commit ==
  /\ spent.commits < MaxCommits /\ dirty \cap Files # {}
  /\ dirty' = dirty \ Files
  /\ head' = head + 1
  /\ Spend("commits")
  /\ lint' = None
  /\ UNCHANGED <<list, job, rows, ledger>>

\* The reports stay, the ledger is never written; a rollout starts over.
Die ==
  /\ spent.deaths < MaxDeaths /\ ledger = None /\ (job # Idle \/ rows # <<>>)
  /\ job' = Idle /\ rows' = <<>> /\ lint' = None
  /\ Spend("deaths")
  /\ UNCHANGED <<list, head, dirty, ledger>>

Next ==
  \/ \E failing \in SUBSET {"status", "head"} : Begin(failing)
  \/ SkipMissing
  \/ \E verdict \in Verdicts \cup {None} : Refresh(verdict)
  \/ \E failing \in BOOLEAN : ReadStatus(failing) \/ WriteReport(failing)
  \/ WriteLedger
  \/ \E verdict \in Verdicts, claim \in Claims, pre \in 1..head : Worker(verdict, claim, pre)
  \/ Edit \/ Commit \/ Die

Spec == Init /\ [][Next]_vars

\* The gates passed or, where none was run, the audit is clean; no finding.
Sound(verdict) ==
  /\ verdict # None
  /\ verdict.audit # "findings" /\ ~verdict.timeout
  /\ \/ verdict.status = "passed"
     \/ verdict.status = None /\ verdict.audit = "clean"

(* A report that is accepted as ready for review comes of a sound run and,   *)
(* unless a call of git failed, of a tree that was clean when it was looked  *)
(* at; a report Quality Runner made itself is refused only for a dirty tree; *)
(* "completed" means that every repository has an accepted report; a worker  *)
(* whose claim to be complete passes strict lint had a sound run, what lint  *)
(* hands on as complete has a clean tree, a commit and a push as well, and   *)
(* nothing is accepted outside its scope or after HEAD moved without a note. *)
ReportsAreEarned ==
  /\ \A k \in DOMAIN rows : rows[k].report # None =>
       /\ rows[k].accepted /\ rows[k].report.status # "blocked" =>
            Sound(rows[k].verdict) /\ (rows[k].failed \/ rows[k].truth \subseteq {Artifacts})
       /\ ~rows[k].accepted =>
            rows[k].report.status = "ready-for-review" /\ rows[k].report.shown # {}
  /\ ledger = "completed" => Len(rows) = Len(list) /\ \A k \in DOMAIN rows : rows[k].accepted
  /\ lint # None /\ lint.accepted =>
       /\ lint.report.status = "complete" => Sound(lint.verdict)
       /\ NormalizedStatus(lint.report) = "complete" =>
            dirty \subseteq {Artifacts} /\ lint.claim.commit /\ lint.claim.pushed
       /\ lint.claim.scope # None => lint.claim.files \subseteq lint.claim.scope
       /\ lint.pre # head => lint.claim.note
-----------------------------------------------------------------------------
(* The invariant of the proof: what is in hand of a repository, and that a  *)
(* ledger ends a rollout.                                                   *)
InHand ==
  /\ job.step \in {"idle", "refresh", "status", "report"}
  /\ job.step \in {"status", "report"} => job.verdict \in Verdicts \cup {None}
  /\ job.step # "idle" => job.failed \in BOOLEAN /\ ledger = None
  /\ job.step = "report" /\ ~job.failed => job.after = job.truth

RolloutInv ==
  /\ rows \in Seq({rows[k] : k \in DOMAIN rows}) /\ Len(rows) \in Nat
  /\ head \in Nat
  /\ InHand
  /\ ReportsAreEarned
=============================================================================
