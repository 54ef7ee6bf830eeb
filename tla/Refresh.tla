------------------------------ MODULE Refresh ------------------------------
(***************************************************************************)
(* The refresh workflow: the inspect, run and verify phases under their    *)
(* own deadlines and under the total one, the disposable checkout in which *)
(* the verify phase runs the gates, and the gate results that survive a    *)
(* timeout.  A deadline is one SIGALRM whose handler raises TimeoutError,  *)
(* which is an OSError.  Refreshes of one run id prefix follow one another *)
(* and any of them may be killed.                                          *)
(***************************************************************************)
EXTENDS Integers

CONSTANTS
  Budget,       \* seconds allowed to each phase
  Total,        \* seconds allowed to the whole refresh, 0 if unset
  Gates,        \* discovered gates, all executed
  MaxTime,      \* bound on the clock of a refresh
  MaxRefreshes, \* bound on the refreshes; the last one is not killed
  MaxSwallows   \* bound on the alarms that an OSError handler swallows

Phases == {"inspect", "run", "verify"}

ASSUME RefreshAssumption ==
  /\ Budget \in [Phases -> Nat \ {0}]
  /\ Total \in Nat /\ Gates \in Nat \ {0}
  /\ MaxTime \in Nat /\ MaxRefreshes \in Nat /\ MaxSwallows \in Nat

VARIABLES
  refresh,      \* refreshes started
  at,           \* where the current one is
  clock,        \* seconds since it started
  phase,        \* [name, start, scope] of its current phase
  timer,        \* when SIGALRM is due, Off if it is not armed
  raising,      \* a TimeoutError is on its way through the cleanup
  finished,     \* gates it has run
  recorded,     \* gates in the last whole result it wrote
  verification, \* gate-verification.json
  checkout,     \* the refresh whose checkout is registered, 0 if none is
  outcome,      \* what it returned
  swallows

vars == <<refresh, at, clock, phase, timer, raising, finished, recorded,
          verification, checkout, outcome, swallows>>

Off == -1

InPhase == {"inspect", "run", "prepare", "adding", "gates", "writing", "close", "shielded",
            "report", "saving"}

\* Code that catches OSError runs here.
Careless == {"inspect", "run", "prepare", "gates", "report"}

NoOutcome == [status |-> "none", phase |-> "inspect", scope |-> "phase", elapsed |-> 0]

Init ==
  /\ refresh = 0 /\ at = "idle" /\ clock = 0
  /\ phase = [name |-> "inspect", start |-> 0, scope |-> "phase"]
  /\ timer = Off /\ raising = FALSE
  /\ finished = 0 /\ recorded = 0
  /\ verification = [file |-> "absent", gates |-> 0, status |-> "none"]
  /\ checkout = 0
  /\ outcome = NoOutcome
  /\ swallows = 0

results == <<finished, recorded, verification>>

fate == <<outcome, swallows>>

-----------------------------------------------------------------------------
(* Deadlines.                                                               *)

BaseScope(p) == IF p = "verify" THEN "verify-phase" ELSE "phase"

\* Mutant: a refresh with a total deadline blames it for every timeout.
EnterBlaming(p, place, t) ==
  LET left == Total - t IN
  /\ phase' = [name |-> p, start |-> t,
               scope |-> IF Total # 0 THEN "total-refresh" ELSE BaseScope(p)]
  /\ IF Total # 0 /\ left <= 0
     THEN at' = "timeout" /\ timer' = Off
     ELSE at' = place /\ timer' = t + (IF Total # 0 /\ left < Budget[p] THEN left ELSE Budget[p])

\* Mutant: each phase gets its whole budget whatever is left of the total.
EnterInFull(p, place, t) ==
  /\ phase' = [name |-> p, start |-> t, scope |-> BaseScope(p)]
  /\ at' = place
  /\ timer' = t + Budget[p]

\* Mutant: a total deadline replaces the phase's own, which is not armed.
EnterUnarmed(p, place, t) ==
  /\ phase' = [name |-> p, start |-> t, scope |-> BaseScope(p)]
  /\ at' = place
  /\ timer' = IF Total # 0 THEN Off ELSE t + Budget[p]

\* run_total_bounded_phase, _run_verify_phase: phase p starts at time t, with
\* what is left of the total deadline if that is less than its budget.
Enter(p, place, t) ==
  LET left  == Total - t
      short == Total # 0 /\ left < Budget[p]
  IN  /\ phase' = [name |-> p, start |-> t,
                   scope |-> IF short THEN "total-refresh" ELSE BaseScope(p)]
      /\ IF short /\ left <= 0
         THEN at' = "timeout" /\ timer' = Off
         ELSE at' = place /\ timer' = t + (IF short THEN left ELSE Budget[p])

Start ==
  /\ at \in {"idle", "done", "failed"}
  /\ refresh < MaxRefreshes
  /\ refresh' = refresh + 1
  /\ clock' = 0
  /\ Enter("inspect", "inspect", 0)
  /\ raising' = FALSE /\ finished' = 0 /\ recorded' = 0
  /\ outcome' = NoOutcome
  /\ UNCHANGED <<verification, checkout, swallows>>

Due == timer # Off /\ clock >= timer

\* Time passes in subprocesses and in the audit, not past a pending alarm.
Tick ==
  /\ at \in InPhase \cup {"summary"}
  /\ clock < MaxTime
  /\ ~ Due \/ at = "shielded"
  /\ clock' = clock + 1
  /\ UNCHANGED <<refresh, at, phase, timer, raising, results, checkout, fate>>

\* The handler raises TimeoutError; inside the session it first closes the
\* checkout, and a write it interrupts has emptied the file.
Alarm ==
  /\ at \in InPhase \ {"shielded"}
  /\ Due
  /\ timer' = Off
  /\ IF at \in {"gates", "writing"}
     THEN at' = "close" /\ raising' = TRUE
     ELSE at' = "timeout" /\ raising' = FALSE
  /\ UNCHANGED <<refresh, clock, phase, results, checkout, fate>>

\* The interrupted code takes the TimeoutError for an unreadable file.
Swallow ==
  /\ at \in Careless
  /\ Due
  /\ swallows < MaxSwallows
  /\ timer' = Off
  /\ swallows' = swallows + 1
  /\ UNCHANGED <<refresh, at, clock, phase, raising, results, checkout, outcome>>

-----------------------------------------------------------------------------
(* The phases.                                                              *)

\* The inspect or the run callback returns.
Return ==
  /\ at \in {"inspect", "run"}
  /\ IF at = "inspect" THEN Enter("run", "run", clock) ELSE Enter("verify", "prepare", clock)
  /\ UNCHANGED <<refresh, clock, raising, results, checkout, fate>>

\* Mutant: a registered checkout is taken as it is.
PrepareReuse ==
  /\ at = "prepare"
  /\ at' = IF checkout # 0 THEN "gates" ELSE "adding"
  /\ UNCHANGED <<refresh, clock, phase, timer, raising, results, checkout, fate>>

\* A checkout left at the same path is removed first.
Prepare ==
  /\ at = "prepare"
  /\ checkout' = 0
  /\ at' = "adding"
  /\ UNCHANGED <<refresh, clock, phase, timer, raising, results, fate>>

\* git worktree add registers the checkout before it has filled it.
Add ==
  /\ at = "adding" /\ checkout = 0
  /\ checkout' = refresh
  /\ UNCHANGED <<refresh, at, clock, phase, timer, raising, results, fate>>

Added ==
  /\ at = "adding" /\ checkout # 0
  /\ at' = "gates"
  /\ UNCHANGED <<refresh, clock, phase, timer, raising, results, checkout, fate>>

\* git worktree add fails: what it left is removed and the refresh ends.
AddFails ==
  /\ at = "adding"
  /\ checkout' = 0
  /\ at' = "failed"
  /\ timer' = Off
  /\ UNCHANGED <<refresh, clock, phase, raising, results, fate>>

\* A gate ends and the write of the results so far begins.
GateEnds ==
  /\ at = "gates"
  /\ finished' = finished + 1
  /\ at' = "writing"
  /\ verification' = [verification EXCEPT !.file = "torn"]
  /\ UNCHANGED <<refresh, clock, phase, timer, raising, recorded, checkout, fate>>

Judged(n) == [file |-> "whole", gates |-> n, status |-> "judged"]

Written ==
  /\ at = "writing"
  /\ verification' = Judged(finished)
  /\ recorded' = finished
  /\ at' = IF finished = Gates THEN "close" ELSE "gates"
  /\ UNCHANGED <<refresh, clock, phase, timer, raising, finished, checkout, fate>>

\* _cleanup_signal_shield ignores SIGALRM and notes what was left of it.
Shield ==
  /\ at = "close"
  /\ at' = "shielded"
  /\ UNCHANGED <<refresh, clock, phase, timer, raising, results, checkout, fate>>

\* Mutant: the cleanup ends a TimeoutError that is on its way.
UnshieldForgets ==
  /\ at = "shielded"
  /\ checkout' = 0
  /\ timer' = IF Due THEN Off ELSE timer
  /\ at' = "report"
  /\ raising' = FALSE
  /\ UNCHANGED <<refresh, clock, phase, results, fate>>

\* The checkout is removed; an alarm that came due meanwhile is not rearmed.
Unshield ==
  /\ at = "shielded"
  /\ checkout' = 0
  /\ timer' = IF Due THEN Off ELSE timer
  /\ at' = IF raising THEN "timeout" ELSE "report"
  /\ raising' = FALSE
  /\ UNCHANGED <<refresh, clock, phase, results, fate>>

\* The results are judged and planned from, and their final write begins.
Report ==
  /\ at = "report"
  /\ at' = "saving"
  /\ verification' = [verification EXCEPT !.file = "torn"]
  /\ UNCHANGED <<refresh, clock, phase, timer, raising, finished, recorded, checkout, fate>>

\* Mutant: workflow_deadline leaves the timer armed.
SaveArmed ==
  /\ at = "saving"
  /\ verification' = Judged(finished)
  /\ recorded' = finished
  /\ at' = "summary"
  /\ UNCHANGED <<refresh, clock, phase, timer, raising, finished, checkout, fate>>

\* The verify phase ends and its deadline with it.
Save ==
  /\ at = "saving"
  /\ verification' = Judged(finished)
  /\ recorded' = finished
  /\ at' = "summary"
  /\ timer' = Off
  /\ UNCHANGED <<refresh, clock, phase, raising, finished, checkout, fate>>

Summarize ==
  /\ at = "summary"
  /\ outcome' = [NoOutcome EXCEPT !.status = "completed", !.elapsed = clock]
  /\ at' = "done"
  /\ UNCHANGED <<refresh, clock, phase, timer, raising, results, checkout, swallows>>

TimedOut == [status |-> "timed-out", phase |-> phase.name, scope |-> phase.scope,
             elapsed |-> IF phase.scope = "total-refresh" THEN clock ELSE clock - phase.start]

\* Mutant: the results so far are replaced by the timeout alone.
FinalizeEmpty ==
  /\ at = "timeout"
  /\ outcome' = TimedOut
  /\ verification' = [file |-> "whole", status |-> "blocked", gates |-> 0]
  /\ at' = "done"
  /\ UNCHANGED <<refresh, clock, phase, timer, raising, finished, recorded, checkout, swallows>>

\* build_timeout_verify_artifacts keeps the gates of a file it can parse.
Finalize ==
  /\ at = "timeout"
  /\ outcome' = TimedOut
  /\ verification' = [file |-> "whole", status |-> "blocked",
                      gates |-> IF verification.file = "whole" THEN verification.gates ELSE 0]
  /\ at' = "done"
  /\ UNCHANGED <<refresh, clock, phase, timer, raising, finished, recorded, checkout, swallows>>

\* The process is killed.
Kill ==
  /\ at \in InPhase \cup {"summary", "timeout"}
  /\ refresh < MaxRefreshes
  /\ at' = "idle"
  /\ timer' = Off
  /\ raising' = FALSE
  /\ UNCHANGED <<refresh, clock, phase, results, checkout, fate>>

-----------------------------------------------------------------------------
Next ==
  \/ Start \/ Tick \/ Alarm \/ Swallow \/ Return \/ Prepare \/ Add \/ Added \/ AddFails
  \/ GateEnds \/ Written \/ Shield \/ Unshield \/ Report \/ Save \/ Summarize
  \/ Finalize \/ Kill

Spec == Init /\ [][Next]_vars

\* What goes on by itself: the clock, the alarm and the writes.  The callbacks,
\* the gates and every git command may hang, also the git commands that remove
\* the checkout, which have no timeout of their own and ignore the alarm.
FairSpec ==
  /\ Spec
  /\ WF_vars(Tick) /\ WF_vars(Alarm) /\ WF_vars(Written) /\ WF_vars(Shield)
  /\ WF_vars(Report) /\ WF_vars(Save) /\ WF_vars(Summarize) /\ WF_vars(Finalize)

-----------------------------------------------------------------------------
(* Every variable stays in the set the code draws it from.                  *)
TypeOK ==
  /\ refresh \in 0 .. MaxRefreshes /\ clock \in 0 .. MaxTime
  /\ at \in InPhase \cup {"idle", "timeout", "summary", "done", "failed"}
  /\ phase \in [name : Phases, start : 0 .. MaxTime,
                scope : {"phase", "verify-phase", "total-refresh"}]
  /\ timer \in Nat \cup {Off} /\ raising \in BOOLEAN
  /\ finished \in 0 .. Gates /\ recorded \in 0 .. Gates
  /\ verification \in [file : {"absent", "torn", "whole"}, gates : 0 .. Gates,
                       status : {"none", "judged", "blocked"}]
  /\ checkout \in 0 .. refresh

(* A refresh that says a deadline passed had used it up.                    *)
TimeoutIsHonest ==
  outcome.status = "timed-out" =>
    outcome.elapsed >= (IF outcome.scope = "total-refresh" THEN Total ELSE Budget[outcome.phase])

(* No alarm can strike the summary, the finalization or what comes after.   *)
NoStrayAlarm == at \notin InPhase => timer = Off

(* Gates run in a checkout this refresh made, whatever an earlier one that  *)
(* timed out or was killed left behind, and a refresh that says it          *)
(* completed ran all of them and left their results.                        *)
GatesAreWhole ==
  /\ at \in {"gates", "writing", "close"} => checkout = refresh
  /\ outcome.status = "completed" => finished = Gates /\ verification = Judged(Gates)

(* A timeout keeps the gate results on disk, if it did not strike while     *)
(* they were written.                                                       *)
KeepsGates ==
  [][(at = "timeout" /\ at' = "done" /\ verification.file = "whole") =>
       verification'.gates >= recorded /\ verification'.status = "blocked"]_vars

(* As long as its alarm is armed no phase is over its deadline, nor the     *)
(* refresh over the total one, the removal of the checkout aside.           *)
InTimeWhileArmed ==
  (at \in InPhase \ {"shielded"} /\ timer # Off) =>
    /\ clock - phase.start <= Budget[phase.name]
    /\ Total # 0 => clock <= Total

(* Deadlines are kept and told as they are: no phase outlives its own while *)
(* the alarm is armed, no alarm outlives its phase, and no timeout is blamed *)
(* on a deadline that was not used up.                                      *)
DeadlinesAreKept == InTimeWhileArmed /\ NoStrayAlarm /\ TimeoutIsHonest

(* As long as no alarm is swallowed a refresh ends, though its audit, its   *)
(* git command or a gate hangs, unless the git command that hangs is one of *)
(* those that remove the checkout, which run with the alarm ignored.  An    *)
(* alarm that comes due in a removal that does end is lost, and the refresh *)
(* still ends.                                                              *)
RefreshEnds ==
  [](at = "inspect" /\ swallows = 0 =>
       <>(at \in {"idle", "done", "failed"} \/ swallows > 0) \/ <>[](at = "shielded"))

-----------------------------------------------------------------------------
(* What the documentation says and the code does not do: the inspect phase  *)
(* never takes longer than its deadline.                                    *)
InspectIsCapped == (at = "inspect" /\ refresh = 1) => clock <= Budget["inspect"]
=============================================================================
