---------------------------- MODULE GateResults ----------------------------
(***************************************************************************)
(* Which of the discovered capabilities of a repository are run as gates,  *)
(* in which order, why the others are skipped, and what the results say    *)
(* together. A capability is a name with a row in Capability; `done` is    *)
(* the result of every gate so far.                                        *)
(***************************************************************************)
EXTENDS Integers, FiniteSets

CONSTANTS
  Capability, \* name -> [kind, cost, alpha, command, ciOnly, risk, setup, enforcement]
  Plain       \* the enforcement of a gate that is no semantic invariant

Leaves == {"formatter", "lint", "typecheck", "tests", "build", "dead_code", "runtime_smoke"}
Aggregates == {"pre_cr", "pre_pr"}

\* Review obligations and evidence signals are no gates.
Executable == {c \in DOMAIN Capability : Capability[c].kind # "review"}

\* Without a request all gates, otherwise the requested ones.
Selected(only) == IF only = {} THEN Executable ELSE Executable \cap only

\* A request for what was not discovered as a gate is an error.
SelectionIsKnown(only) == only \subseteq Executable

Cost(c) == IF Capability[c].kind = "file" \/ Capability[c].ciOnly THEN 95 ELSE Capability[c].cost

Earlier(c, d) ==
  Cost(c) < Cost(d) \/ (Cost(c) = Cost(d) /\ Capability[c].alpha < Capability[d].alpha)

\* The cheapest of the gates that are left.
NextGate(left) == CHOOSE c \in left : \A d \in left \ {c} : Earlier(c, d)

PassedLeaves(done) == {c \in DOMAIN done \cap Leaves : done[c].status = "passed"}

\* An aggregate gate is covered as soon as one leaf passed.
Covered(c, done) == c \in Aggregates /\ Capability[c].command /\ PassedLeaves(done) # {}

\* An earlier gate of the same package manager and directory failed for want
\* of installed dependencies.
SetupBlocked(c, done) ==
  \E d \in DOMAIN done :
    /\ done[d].status = "failed" /\ done[d].why = "dependency-setup-blocker"
    /\ Capability[d].setup = Capability[c].setup

MayMutate(c, policy) ==
  policy.readOnly /\ ~policy.allowMutating /\ Capability[c].risk \in {"mutating", "unknown"}

\* _skipped_gate: the first reason there is.
SkipReason(c, policy, done) ==
  IF Capability[c].ciOnly THEN "ci-only"
  ELSE IF Capability[c].kind = "file" THEN "file"
  ELSE IF Covered(c, done) THEN "covered"
  ELSE IF ~Capability[c].command THEN "no-command"
  ELSE IF ~policy.execute THEN "execution-consent-required"
  ELSE IF MayMutate(c, policy) THEN "mutating-gate-not-run"
  ELSE "none"

\* What the plan of the run announces; it knows of no results.
LocalExecutionStatus(c, policy) ==
  IF Capability[c].ciOnly THEN "ci-only-skipped"
  ELSE IF Capability[c].kind = "file" THEN "evidence-only-skipped"
  ELSE IF ~Capability[c].command THEN "no-command-skipped"
  ELSE IF ~policy.execute THEN "consent-required"
  ELSE IF MayMutate(c, policy) THEN "mutating-skipped"
  ELSE "will-execute"

\* A failed command is told apart by what it printed. Every execution is in a
\* disposable checkout, where no mutation of the sources is looked for.
FailureTypes == {"command-failed", "environment-restricted", "dependency-setup-blocker"}
BlockingFailures == {"environment-restricted", "dependency-setup-blocker", "read-only-mutation"}

Result(status, why, enforcement) == [status |-> status, why |-> why, enforcement |-> enforcement]

\* Mutant: gates of one package manager are never blocked together.
GateResultsOfEach(c, policy, done) ==
  LET reason == SkipReason(c, policy, done)
  IN  IF reason # "none" THEN {Result("skipped", reason, Capability[c].enforcement)}
      ELSE {Result("passed", "none", Capability[c].enforcement)}
           \cup {Result("failed", f, Capability[c].enforcement) : f \in FailureTypes}

\* The results a gate may end with. A gate blocked by its setup is not given
\* the enforcement of its invariant.
GateResultsOf(c, policy, done) ==
  IF SetupBlocked(c, done)
  THEN {Result("skipped", "dependency-setup-blocker", Plain)}
  ELSE LET reason == SkipReason(c, policy, done)
       IN  IF reason # "none"
           THEN {Result("skipped", reason, Capability[c].enforcement)}
           ELSE {Result("passed", "none", Capability[c].enforcement)}
                \cup {Result("failed", f, Capability[c].enforcement) : f \in FailureTypes}

\* Advisory invariants have no say.
Counting(done) == {c \in DOMAIN done : done[c].enforcement # "advisory"}

\* Mutant: skipped for want of consent is as good as passed.
GateStatusLenient(done) ==
  LET all == {done[c] : c \in Counting(done)}
  IN  IF \E r \in all : r.why \in BlockingFailures THEN "blocked"
      ELSE IF \E r \in all : r.status = "failed" THEN "failed"
      ELSE IF \E r \in all : r.status = "passed" THEN "passed"
      ELSE IF all # {} THEN "skipped-nonlocal"
      ELSE IF DOMAIN done # {} THEN "passed" ELSE "blocked"

\* What keeps a verification from being more than blocked.
Blocking == BlockingFailures \cup {"mutating-gate-not-run", "execution-consent-required"}

\* _status
GateStatus(done) ==
  LET all == {done[c] : c \in Counting(done)}
  IN  IF \E r \in all : r.why \in Blocking THEN "blocked"
      ELSE IF \E r \in all : r.status = "failed" THEN "failed"
      ELSE IF \E r \in all : r.status = "passed" THEN "passed"
      ELSE IF all # {} THEN "skipped-nonlocal"
      ELSE IF DOMAIN done # {} THEN "passed" ELSE "blocked"

\* The gates the handoff names as what has to be resolved.
Blockers(done) ==
  {c \in DOMAIN done : done[c].status = "failed" \/ done[c].why \in Blocking}
=============================================================================
