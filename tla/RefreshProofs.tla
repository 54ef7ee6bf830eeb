--------------------------- MODULE RefreshProofs ---------------------------
(***************************************************************************)
(* Proofs about Refresh, for every budget, number of gates and bound.      *)
(* DeadlineInv ties the armed timer to the deadline it stands for, and a   *)
(* TimeoutError on its way to a deadline that is over; with type           *)
(* correctness it is inductive.  GatesInv ties the place the refresh has   *)
(* reached to the gates it has run, to what it has left on disk and to     *)
(* the checkout that is registered; it is inductive beside DeadlineInv.    *)
(***************************************************************************)
EXTENDS Refresh, TLAPS

\* What is left to a phase when it is entered.
Deadline == IF phase.scope = "total-refresh" THEN Total ELSE phase.start + Budget[phase.name]

\* The types the deadlines are about.
ClockInv ==
  /\ clock \in Nat
  /\ phase \in [name : Phases, start : Nat, scope : {"phase", "verify-phase", "total-refresh"}]
  /\ timer \in Nat \cup {Off}
  /\ raising \in BOOLEAN
  /\ outcome \in [status : {"none", "completed", "timed-out"}, phase : Phases,
                  scope : {"phase", "verify-phase", "total-refresh"}, elapsed : Nat]

\* An armed timer stands at the deadline of the phase, which is no later than
\* either bound, and no time has passed since, but for the cleanup.
ArmedInv ==
  (at \in InPhase /\ timer # Off) =>
    /\ timer = Deadline
    /\ timer <= phase.start + Budget[phase.name]
    /\ Total # 0 => timer <= Total
    /\ at # "shielded" => clock <= timer

\* A TimeoutError is only ever raised at or after the deadline.
RaisedInv ==
  /\ (at = "timeout" \/ raising) => clock >= Deadline
  /\ raising => at \in {"close", "shielded"} /\ timer = Off

DeadlineInv == ClockInv /\ ArmedInv /\ RaisedInv /\ NoStrayAlarm /\ TimeoutIsHonest

-----------------------------------------------------------------------------
(* Entering a phase, at any time, keeps the timer within both bounds.       *)
LEMMA EnterBounds ==
  ASSUME NEW p \in Phases, NEW place \in InPhase, NEW t \in Nat, Enter(p, place, t)
  PROVE  /\ phase' \in [name : Phases, start : Nat,
                        scope : {"phase", "verify-phase", "total-refresh"}]
         /\ phase'.start = t /\ phase'.name = p
         /\ \/ /\ at' = "timeout" /\ timer' = Off /\ t >= Deadline'
            \/ /\ at' = place /\ timer' = Deadline' /\ timer' \in Nat /\ t <= timer'
               /\ timer' <= t + Budget[p] /\ (Total # 0 => timer' <= Total)
<1> DEFINE left  == Total - t
           short == Total # 0 /\ left < Budget[p]
<1>1. Total \in Nat /\ Budget[p] \in Nat \ {0} /\ left \in Int
  BY RefreshAssumption
<1>2. phase' = [name |-> p, start |-> t,
                scope |-> IF short THEN "total-refresh" ELSE BaseScope(p)]
  BY DEF Enter
<1>3. BaseScope(p) \in {"phase", "verify-phase"}
  BY DEF BaseScope
<1>4. CASE short /\ left <= 0
  <2>1. at' = "timeout" /\ timer' = Off
    BY <1>4 DEF Enter
  <2>2. Deadline' = Total
    BY <1>2, <1>4 DEF Deadline
  <2> QED BY <1>1, <1>2, <1>3, <1>4, <2>1, <2>2
<1>5. CASE short /\ ~ (left <= 0)
  <2>1. at' = place /\ timer' = t + left
    BY <1>5 DEF Enter
  <2>2. Deadline' = Total
    BY <1>2, <1>5 DEF Deadline
  <2> QED BY <1>1, <1>2, <1>3, <1>5, <2>1, <2>2
<1>6. CASE ~ short
  <2>1. at' = place /\ timer' = t + Budget[p]
    BY <1>6 DEF Enter
  <2>2. Deadline' = t + Budget[p]
    BY <1>2, <1>3, <1>6 DEF Deadline
  <2> QED BY <1>1, <1>2, <1>3, <1>6, <2>1, <2>2
<1> QED BY <1>4, <1>5, <1>6

(* The first state satisfies the invariant.                                 *)
LEMMA InitDeadline == Init => DeadlineInv
<1> SUFFICES ASSUME Init PROVE DeadlineInv
  OBVIOUS
<1>1. /\ at = "idle" /\ clock = 0 /\ timer = Off /\ raising = FALSE /\ outcome = NoOutcome
      /\ phase = [name |-> "inspect", start |-> 0, scope |-> "phase"]
  BY DEF Init
<1>2. ClockInv
  BY <1>1 DEF ClockInv, NoOutcome, Phases
<1>3. ArmedInv /\ NoStrayAlarm
  BY <1>1 DEF ArmedInv, NoStrayAlarm
<1>4. RaisedInv
  BY <1>1 DEF RaisedInv
<1>5. TimeoutIsHonest
  BY <1>1 DEF TimeoutIsHonest, NoOutcome
<1> QED BY <1>2, <1>3, <1>4, <1>5 DEF DeadlineInv

(* Every step keeps the invariant.                                          *)
LEMMA StepDeadline == DeadlineInv /\ [Next]_vars => DeadlineInv'
<1> SUFFICES ASSUME DeadlineInv, [Next]_vars PROVE DeadlineInv'
  OBVIOUS
<1> USE DEF DeadlineInv
<1>0. Total \in Nat /\ Budget \in [Phases -> Nat \ {0}] /\ MaxTime \in Nat
  BY RefreshAssumption
<1>1. CASE Start
  <2>1. Enter("inspect", "inspect", 0) /\ clock' = 0 /\ raising' = FALSE /\ outcome' = NoOutcome
    BY <1>1 DEF Start
  <2>2. "inspect" \in Phases /\ "inspect" \in InPhase
    BY DEF Phases, InPhase
  <2> QED BY <1>0, <2>1, <2>2, EnterBounds
          DEF ClockInv, ArmedInv, RaisedInv, NoStrayAlarm, TimeoutIsHonest, NoOutcome,
              Phases, InPhase, Off
<1>2. CASE Return
  <2>1. PICK p \in {"run", "verify"}, place \in {"run", "prepare"} : Enter(p, place, clock)
    BY <1>2 DEF Return
  <2>2. p \in Phases /\ place \in InPhase /\ clock \in Nat /\ ~ raising
    BY <1>2, <2>1 DEF Phases, InPhase, ClockInv, Return, RaisedInv
  <2>3. clock' = clock /\ raising' = raising /\ outcome' = outcome
    BY <1>2 DEF Return, fate
  <2> QED BY <1>0, <2>1, <2>2, <2>3, EnterBounds
          DEF ClockInv, ArmedInv, RaisedInv, NoStrayAlarm, TimeoutIsHonest, InPhase, Off
<1>3. CASE Tick
  <2> QED BY <1>0, <1>3 DEF Tick, ClockInv, ArmedInv, RaisedInv, NoStrayAlarm, TimeoutIsHonest,
             Due, fate, Deadline, Off, Phases
<1>4. CASE Alarm
  <2>1. timer' = Off /\ UNCHANGED <<clock, phase, outcome>>
    BY <1>4 DEF Alarm, fate
  <2>2. at \in InPhase /\ timer # Off /\ clock >= timer
    BY <1>4 DEF Alarm, Due
  <2>3. clock >= Deadline /\ Deadline' = Deadline
    BY <2>1, <2>2 DEF ArmedInv, Deadline
  <2>4. (at' = "close" /\ raising' = TRUE) \/ (at' = "timeout" /\ raising' = FALSE)
    BY <1>4 DEF Alarm
  <2>5. ClockInv'
    BY <2>1, <2>4 DEF ClockInv
  <2>6. RaisedInv'
    BY <2>1, <2>3, <2>4 DEF RaisedInv
  <2> QED BY <2>1, <2>5, <2>6 DEF ArmedInv, NoStrayAlarm, TimeoutIsHonest
<1>5. CASE Swallow
  <2>1. timer' = Off /\ UNCHANGED <<at, clock, phase, raising, outcome>>
    BY <1>5 DEF Swallow
  <2>2. Deadline' = Deadline
    BY <2>1 DEF Deadline
  <2>3. ClockInv'
    BY <2>1 DEF ClockInv
  <2>4. RaisedInv'
    BY <2>1, <2>2 DEF RaisedInv
  <2> QED BY <2>1, <2>3, <2>4 DEF ArmedInv, NoStrayAlarm, TimeoutIsHonest
<1>6. CASE Unshield
  <2>1. /\ UNCHANGED <<clock, phase, outcome>> /\ at = "shielded" /\ raising' = FALSE
        /\ timer' = IF Due THEN Off ELSE timer
        /\ at' = IF raising THEN "timeout" ELSE "report"
    BY <1>6 DEF Unshield, fate
  <2>2. Deadline' = Deadline /\ timer' \in {timer, Off}
    BY <2>1 DEF Deadline
  <2>3. ClockInv'
    BY <2>1, <2>2 DEF ClockInv
  <2>4. RaisedInv'
    BY <2>1, <2>2 DEF RaisedInv
  <2>5. timer' # Off => clock <= timer /\ timer' = timer
    BY <2>1 DEF Due, ClockInv, Off
  <2>6. ArmedInv'
    BY <2>1, <2>2, <2>5 DEF ArmedInv, InPhase
  <2>7. NoStrayAlarm'
    BY <2>1, <2>2 DEF NoStrayAlarm, RaisedInv, InPhase
  <2> QED BY <2>1, <2>3, <2>4, <2>6, <2>7 DEF TimeoutIsHonest
<1>7. CASE Save \/ AddFails \/ Kill
  <2>1. /\ UNCHANGED <<clock, phase, outcome>> /\ timer' = Off
        /\ at' \in {"summary", "failed", "idle"}
    BY <1>7 DEF Save, AddFails, Kill, fate
  <2>2. raising' = FALSE
    BY <1>7 DEF Save, AddFails, Kill, RaisedInv, ClockInv
  <2>3. ClockInv'
    BY <2>1, <2>2 DEF ClockInv
  <2>4. RaisedInv'
    BY <2>1, <2>2 DEF RaisedInv
  <2> QED BY <2>1, <2>3, <2>4 DEF ArmedInv, NoStrayAlarm, TimeoutIsHonest
<1>8. CASE Summarize
  <2> QED BY <1>8 DEF Summarize, ClockInv, ArmedInv, RaisedInv, NoStrayAlarm, TimeoutIsHonest,
             NoOutcome, Deadline, Off, InPhase, Phases
<1>9. CASE Finalize
  <2>1. outcome' = TimedOut /\ at' = "done" /\ UNCHANGED <<clock, phase, timer, raising>>
    BY <1>9 DEF Finalize
  <2>2. clock >= Deadline /\ timer = Off /\ ~ raising
    BY <1>9 DEF Finalize, RaisedInv, NoStrayAlarm, InPhase
  <2>3. Budget[phase.name] \in Nat \ {0} /\ phase.start \in Nat /\ clock \in Nat
    BY <1>0 DEF ClockInv
  <2>4. CASE phase.scope = "total-refresh"
    BY <1>0, <2>1, <2>2, <2>3, <2>4 DEF ClockInv, ArmedInv, RaisedInv, NoStrayAlarm,
       TimeoutIsHonest, TimedOut, Deadline, Off, InPhase
  <2>5. CASE phase.scope # "total-refresh"
    BY <1>0, <2>1, <2>2, <2>3, <2>5 DEF ClockInv, ArmedInv, RaisedInv, NoStrayAlarm,
       TimeoutIsHonest, TimedOut, Deadline, Off, InPhase
  <2> QED BY <2>4, <2>5
<1>10. CASE Prepare \/ Add \/ Added \/ GateEnds \/ Written \/ Shield \/ Report
  <2>1. at \in InPhase /\ at' \in InPhase /\ at # "shielded"
    BY <1>10 DEF Prepare, Add, Added, GateEnds, Written, Shield, Report, InPhase
  <2>2. UNCHANGED <<clock, phase, timer, raising, outcome>>
    BY <1>10 DEF Prepare, Add, Added, GateEnds, Written, Shield, Report, fate
  <2>3. raising => at' \in {"close", "shielded"}
    BY <1>10 DEF Prepare, Add, Added, GateEnds, Written, Shield, Report, RaisedInv
  <2>4. at' # "timeout"
    BY <2>1 DEF InPhase
  <2> QED BY <2>1, <2>2, <2>3, <2>4 DEF ClockInv, ArmedInv, RaisedInv, NoStrayAlarm,
             TimeoutIsHonest, Deadline
<1>11. CASE UNCHANGED vars
  BY <1>11 DEF vars, ClockInv, ArmedInv, RaisedInv, NoStrayAlarm, TimeoutIsHonest, Deadline
<1> QED BY <1>1, <1>2, <1>3, <1>4, <1>5, <1>6, <1>7, <1>8, <1>9, <1>10, <1>11 DEF Next

(* The timer, the clock and the phase stay related throughout.              *)
THEOREM DeadlinesHold == Spec => []DeadlineInv
<1>1. DeadlineInv /\ [Next]_vars => DeadlineInv'
  BY StepDeadline
<1> QED BY InitDeadline, <1>1, PTL DEF Spec

(* Whatever the budgets, an armed alarm comes before a phase is over its    *)
(* deadline or the refresh over the total one.                              *)
THEOREM PhasesInTime == Spec => []InTimeWhileArmed
<1>1. DeadlineInv => InTimeWhileArmed
  <2> SUFFICES ASSUME DeadlineInv, at \in InPhase \ {"shielded"}, timer # Off
               PROVE  /\ clock - phase.start <= Budget[phase.name]
                      /\ Total # 0 => clock <= Total
    BY DEF InTimeWhileArmed
  <2>1. /\ timer <= phase.start + Budget[phase.name] /\ clock <= timer
        /\ Total # 0 => timer <= Total
    BY DEF DeadlineInv, ArmedInv
  <2>2. clock \in Nat /\ phase.start \in Nat /\ timer \in Nat /\ Total \in Nat
        /\ Budget[phase.name] \in Nat
    BY RefreshAssumption DEF DeadlineInv, ClockInv
  <2> QED BY <2>1, <2>2
<1> QED BY DeadlinesHold, <1>1, PTL

(* Whatever the budgets, a refresh that reports a timeout had used up the   *)
(* deadline it names.                                                       *)
THEOREM TimeoutsHonest == Spec => []TimeoutIsHonest
<1>1. DeadlineInv => TimeoutIsHonest
  BY DEF DeadlineInv
<1> QED BY DeadlinesHold, <1>1, PTL

(* No alarm is armed outside the phases.                                    *)
THEOREM NoStrayAlarms == Spec => []NoStrayAlarm
<1>1. DeadlineInv => NoStrayAlarm
  BY DEF DeadlineInv
<1> QED BY DeadlinesHold, <1>1, PTL

(* All three: deadlines are kept and told as they are, whatever the budgets. *)
THEOREM DeadlinesKept == Spec => []DeadlinesAreKept
<1>1. InTimeWhileArmed /\ NoStrayAlarm /\ TimeoutIsHonest => DeadlinesAreKept
  BY DEF DeadlinesAreKept
<1> QED BY <1>1, PhasesInTime, NoStrayAlarms, TimeoutsHonest, PTL
-----------------------------------------------------------------------------
(* The gates of the disposable checkout.                                    *)

\* The checkout in which gates run is this refresh's own.
CheckoutInv ==
  /\ at \in {"gates", "writing", "close"} => checkout = refresh
  /\ at = "adding" => checkout \in {0, refresh}

\* How many gates have run, where the refresh is.
FinishedInv ==
  /\ at \in {"inspect", "run", "prepare", "adding"} => finished = 0
  /\ at = "gates" => finished < Gates
  /\ at \in {"close", "shielded"} /\ ~ raising => finished = Gates
  /\ at \in {"report", "saving", "summary"} => finished = Gates

\* What is on disk when the refresh can still say that it completed.
CompletedInv ==
  /\ at = "summary" => verification = Judged(finished)
  /\ outcome.status = "completed" => at = "done" /\ finished = Gates /\ verification = Judged(Gates)

\* A whole file holds at least the gates last written by this refresh.
RecordedInv == (at # "done" /\ verification.file = "whole") => verification.gates >= recorded

GatesInv == TypeOK /\ CheckoutInv /\ FinishedInv /\ CompletedInv /\ RecordedInv

(* The first state satisfies the invariant.                                 *)
LEMMA InitGates == Init => GatesInv
<1> SUFFICES ASSUME Init PROVE GatesInv
  OBVIOUS
<1>1. /\ refresh = 0 /\ at = "idle" /\ clock = 0 /\ timer = Off /\ raising = FALSE
      /\ phase = [name |-> "inspect", start |-> 0, scope |-> "phase"]
      /\ finished = 0 /\ recorded = 0 /\ checkout = 0 /\ outcome = NoOutcome
      /\ verification = [file |-> "absent", gates |-> 0, status |-> "none"]
  BY DEF Init
<1>2. TypeOK
  <2>1. 0 \in 0 .. MaxTime /\ 0 \in 0 .. MaxRefreshes /\ 0 \in 0 .. Gates /\ 0 \in 0 .. 0
    BY RefreshAssumption
  <2>2. phase \in [name : Phases, start : 0 .. MaxTime,
                   scope : {"phase", "verify-phase", "total-refresh"}]
    BY <1>1, <2>1 DEF Phases
  <2>3. verification \in [file : {"absent", "torn", "whole"}, gates : 0 .. Gates,
                          status : {"none", "judged", "blocked"}]
    BY <1>1, <2>1
  <2> QED BY <1>1, <2>1, <2>2, <2>3 DEF TypeOK
<1>3. CheckoutInv /\ FinishedInv /\ CompletedInv /\ RecordedInv
  BY <1>1 DEF CheckoutInv, FinishedInv, CompletedInv, RecordedInv, NoOutcome
<1> QED BY <1>2, <1>3 DEF GatesInv

(* Every step keeps the variables in their sets.                            *)
LEMMA StepType == DeadlineInv /\ GatesInv /\ [Next]_vars => TypeOK'
<1> SUFFICES ASSUME DeadlineInv, GatesInv, [Next]_vars PROVE TypeOK'
  OBVIOUS
<1> USE DEF GatesInv, TypeOK
<1>0. /\ Total \in Nat /\ Budget \in [Phases -> Nat \ {0}] /\ Gates \in Nat \ {0}
      /\ MaxTime \in Nat /\ MaxRefreshes \in Nat
  BY RefreshAssumption
<1>1. CASE Start
  <2>1. "inspect" \in Phases /\ "inspect" \in InPhase /\ 0 \in Nat
    BY DEF Phases, InPhase
  <2>2. Enter("inspect", "inspect", 0)
    BY <1>1 DEF Start
  <2>3. /\ phase' \in [name : Phases, start : Nat, scope : {"phase", "verify-phase", "total-refresh"}]
        /\ phase'.start = 0 /\ at' \in {"timeout", "inspect"} /\ timer' \in Nat \cup {Off}
    BY <2>1, <2>2, EnterBounds
  <2>4. /\ refresh' = refresh + 1 /\ refresh < MaxRefreshes /\ clock' = 0 /\ raising' = FALSE
        /\ finished' = 0 /\ recorded' = 0 /\ UNCHANGED <<verification, checkout>>
    BY <1>1 DEF Start
  <2>5. phase' \in [name : Phases, start : 0 .. MaxTime,
                    scope : {"phase", "verify-phase", "total-refresh"}]
    BY <1>0, <2>3
  <2>6. refresh' \in 0 .. MaxRefreshes /\ clock' \in 0 .. MaxTime /\ checkout' \in 0 .. refresh'
    BY <1>0, <2>4
  <2>7. at' \in InPhase \cup {"idle", "timeout", "summary", "done", "failed"}
    BY <2>3 DEF InPhase
  <2>8. finished' \in 0 .. Gates /\ recorded' \in 0 .. Gates
    BY <1>0, <2>4
  <2> QED BY <2>3, <2>4, <2>5, <2>6, <2>7, <2>8
<1>2. CASE Return
  <2>1. PICK p \in {"run", "verify"}, place \in {"run", "prepare"} : Enter(p, place, clock)
    BY <1>2 DEF Return
  <2>2. p \in Phases /\ place \in InPhase /\ clock \in Nat /\ clock \in 0 .. MaxTime
    BY <1>0, <2>1 DEF Phases, InPhase
  <2>3. /\ phase' \in [name : Phases, start : Nat, scope : {"phase", "verify-phase", "total-refresh"}]
        /\ phase'.start = clock /\ at' \in {"timeout", place} /\ timer' \in Nat \cup {Off}
    BY <2>1, <2>2, EnterBounds
  <2>4. UNCHANGED <<refresh, clock, raising, results, checkout>>
    BY <1>2 DEF Return
  <2>5. phase' \in [name : Phases, start : 0 .. MaxTime,
                    scope : {"phase", "verify-phase", "total-refresh"}]
    BY <2>2, <2>3
  <2> QED BY <1>0, <2>2, <2>3, <2>4, <2>5 DEF InPhase, results
<1>3. CASE Tick
  BY <1>0, <1>3 DEF Tick, results
<1>4. CASE Alarm \/ Swallow \/ Prepare \/ Added \/ Shield \/ Unshield \/ AddFails \/ Kill
  <2>1. /\ UNCHANGED <<refresh, clock, phase, results>> /\ timer' \in {timer, Off}
        /\ raising' \in BOOLEAN /\ checkout' \in {checkout, 0}
    BY <1>4 DEF Alarm, Swallow, Prepare, Added, Shield, Unshield, AddFails, Kill, results
  <2>2. at' \in InPhase \cup {"idle", "timeout", "summary", "done", "failed"}
    BY <1>4 DEF Alarm, Swallow, Prepare, Added, Shield, Unshield, AddFails, Kill, InPhase
  <2> QED BY <1>0, <2>1, <2>2 DEF results
<1>5. CASE Add
  BY <1>0, <1>5 DEF Add, results
<1>6. CASE GateEnds
  <2>1. finished < Gates
    BY <1>6 DEF GateEnds, FinishedInv
  <2> QED BY <1>0, <1>6, <2>1 DEF GateEnds, InPhase
<1>7. CASE Written \/ Report \/ Save
  <2>1. UNCHANGED <<refresh, clock, phase, raising, finished, checkout>> /\ timer' \in {timer, Off}
    BY <1>7 DEF Written, Report, Save
  <2>2. recorded' \in {recorded, finished}
    BY <1>7 DEF Written, Report, Save
  <2>3. verification' = Judged(finished) \/ verification' = [verification EXCEPT !.file = "torn"]
    BY <1>7 DEF Written, Report, Save
  <2>4. at' \in InPhase \cup {"idle", "timeout", "summary", "done", "failed"}
    BY <1>7 DEF Written, Report, Save, InPhase
  <2> QED BY <1>0, <2>1, <2>2, <2>3, <2>4 DEF Judged
<1>8. CASE Summarize
  BY <1>0, <1>8 DEF Summarize, results
<1>9. CASE Finalize
  BY <1>0, <1>9 DEF Finalize
<1>10. CASE UNCHANGED vars
  BY <1>10 DEF vars
<1> QED BY <1>1, <1>2, <1>3, <1>4, <1>5, <1>6, <1>7, <1>8, <1>9, <1>10 DEF Next

(* Every step keeps the rest of the invariant.                              *)
LEMMA StepGates == DeadlineInv /\ GatesInv /\ [Next]_vars => GatesInv'
<1> SUFFICES ASSUME DeadlineInv, GatesInv, [Next]_vars PROVE GatesInv'
  OBVIOUS
<1> USE DEF GatesInv
<1>0. Gates \in Nat \ {0} /\ refresh \in Nat /\ finished \in 0 .. Gates /\ recorded \in 0 .. Gates
  BY RefreshAssumption DEF TypeOK
<1>1. TypeOK'
  BY StepType
<1>2. CheckoutInv'
  <2>1. CASE Start \/ Return
    <3>1. at' \in {"inspect", "run", "prepare", "timeout"}
      BY <2>1 DEF Start, Return, Enter
    <3> QED BY <3>1 DEF CheckoutInv
  <2>2. CASE Tick \/ Alarm \/ Swallow
    BY <2>2 DEF Tick, Alarm, Swallow, CheckoutInv, results
  <2>3. CASE Prepare \/ Add \/ Added \/ AddFails
    BY <1>0, <2>3 DEF Prepare, Add, Added, AddFails, CheckoutInv
  <2>4. CASE GateEnds \/ Written \/ Shield \/ Unshield \/ Report \/ Save \/ Summarize \/ Finalize \/ Kill
    BY <2>4 DEF GateEnds, Written, Shield, Unshield, Report, Save, Summarize, Finalize, Kill,
       CheckoutInv
  <2>5. CASE UNCHANGED vars
    BY <2>5 DEF vars, CheckoutInv
  <2> QED BY <2>1, <2>2, <2>3, <2>4, <2>5 DEF Next
<1>3. FinishedInv'
  <2>1. CASE Start
    <3>1. at' \in {"inspect", "timeout"} /\ finished' = 0
      BY <2>1 DEF Start, Enter
    <3> QED BY <3>1 DEF FinishedInv
  <2>2. CASE Return
    <3>1. at' \in {"run", "prepare", "timeout"} /\ finished' = finished /\ at \in {"inspect", "run"}
      BY <2>2 DEF Return, Enter, results
    <3> QED BY <3>1 DEF FinishedInv
  <2>3. CASE Tick \/ Alarm \/ Swallow
    BY <2>3 DEF Tick, Alarm, Swallow, FinishedInv, results
  <2>4. CASE Prepare \/ Add \/ Added \/ AddFails
    BY <1>0, <2>4 DEF Prepare, Add, Added, AddFails, FinishedInv, results
  <2>5. CASE GateEnds \/ Written
    BY <1>0, <2>5 DEF GateEnds, Written, FinishedInv
  <2>6. CASE Shield \/ Unshield \/ Report \/ Save \/ Summarize \/ Finalize \/ Kill
    BY <2>6 DEF Shield, Unshield, Report, Save, Summarize, Finalize, Kill, FinishedInv, results
  <2>7. CASE UNCHANGED vars
    BY <2>7 DEF vars, FinishedInv
  <2> QED BY <2>1, <2>2, <2>3, <2>4, <2>5, <2>6, <2>7 DEF Next
<1>4. CompletedInv'
  <2>1. CASE Start
    <3>1. at' \in {"inspect", "timeout"} /\ outcome' = NoOutcome
      BY <2>1 DEF Start, Enter
    <3> QED BY <3>1 DEF CompletedInv, NoOutcome
  <2>2. CASE Return
    <3>1. at' \in {"run", "prepare", "timeout"} /\ outcome' = outcome /\ at \in {"inspect", "run"}
      BY <2>2 DEF Return, Enter, fate
    <3> QED BY <3>1 DEF CompletedInv
  <2>3. CASE Save
    <3>1. /\ at' = "summary" /\ verification' = Judged(finished) /\ finished' = finished
          /\ outcome' = outcome /\ at = "saving"
      BY <2>3 DEF Save, fate
    <3> QED BY <3>1 DEF CompletedInv, Judged
  <2>4. CASE Summarize
    <3>1. /\ at = "summary" /\ at' = "done" /\ finished' = finished /\ verification' = verification
      BY <2>4 DEF Summarize, results
    <3> QED BY <3>1 DEF CompletedInv, FinishedInv, Judged
  <2>5. CASE Finalize
    <3>1. at' = "done" /\ outcome'.status = "timed-out"
      BY <2>5 DEF Finalize, TimedOut
    <3> QED BY <3>1 DEF CompletedInv
  <2>6. CASE Tick \/ Alarm \/ Swallow
    <3>1. UNCHANGED <<results, outcome>> /\ (at' = at \/ at' \in {"close", "timeout"}) /\ at # "done"
      BY <2>6 DEF Tick, Alarm, Swallow, fate, InPhase, Careless
    <3> QED BY <3>1 DEF CompletedInv, results, Judged
  <2>7. CASE Prepare \/ Add \/ Added \/ AddFails \/ GateEnds \/ Written \/ Shield \/ Unshield
             \/ Report \/ Kill
    <3>1. outcome' = outcome /\ at' # "summary" /\ at # "done"
      BY <2>7 DEF Prepare, Add, Added, AddFails, GateEnds, Written, Shield, Unshield, Report,
         Kill, fate, InPhase
    <3> QED BY <3>1 DEF CompletedInv
  <2>8. CASE UNCHANGED vars
    BY <2>8 DEF vars, CompletedInv, Judged
  <2> QED BY <2>1, <2>2, <2>3, <2>4, <2>5, <2>6, <2>7, <2>8 DEF Next
<1>5. RecordedInv'
  <2>1. CASE Start
    BY <2>1 DEF Start, RecordedInv, TypeOK
  <2>2. CASE GateEnds \/ Report
    BY <2>2 DEF GateEnds, Report, RecordedInv, TypeOK
  <2>3. CASE Written \/ Save
    BY <1>0, <2>3 DEF Written, Save, RecordedInv, Judged
  <2>4. CASE Finalize \/ Summarize
    BY <2>4 DEF Finalize, Summarize, RecordedInv
  <2>5. CASE Tick \/ Alarm \/ Swallow \/ Return \/ Prepare \/ Add \/ Added \/ AddFails \/ Shield
             \/ Unshield \/ Kill
    <3>1. results' = results /\ at # "done"
      BY <2>5 DEF Tick, Alarm, Swallow, Return, Prepare, Add, Added, AddFails, Shield, Unshield,
         Kill, InPhase, Careless
    <3> QED BY <3>1 DEF RecordedInv, results
  <2>6. CASE UNCHANGED vars
    BY <2>6 DEF vars, RecordedInv
  <2> QED BY <2>1, <2>2, <2>3, <2>4, <2>5, <2>6 DEF Next
<1> QED BY <1>1, <1>2, <1>3, <1>4, <1>5

(* What a refresh has run, what it has written and whose checkout it runs   *)
(* it in stay related throughout.                                           *)
THEOREM GatesHold == Spec => []GatesInv
<1>1. DeadlineInv /\ GatesInv /\ [Next]_vars => GatesInv'
  BY StepGates
<1> QED BY InitGates, <1>1, DeadlinesHold, PTL DEF Spec

(* For every number of gates: they run in the checkout of the refresh that  *)
(* runs them, and a refresh that says it completed ran them all and left    *)
(* their results.                                                           *)
THEOREM GatesWhole == Spec => []GatesAreWhole
<1>1. GatesInv => GatesAreWhole
  BY DEF GatesInv, CheckoutInv, CompletedInv, GatesAreWhole
<1> QED BY <1>1, GatesHold, PTL

(* For every number of gates: a timeout does not lose a gate result that is *)
(* on disk.                                                                 *)
THEOREM TimeoutKeepsGates == Spec => KeepsGates
<1>1. ASSUME GatesInv, [Next]_vars, at = "timeout", at' = "done", verification.file = "whole"
      PROVE  verification'.gates >= recorded /\ verification'.status = "blocked"
  <2>1. Finalize
    BY <1>1 DEF Next, vars, Start, Tick, Alarm, Swallow, Return, Prepare, Add, Added, AddFails,
       GateEnds, Written, Shield, Unshield, Report, Save, Summarize, Kill, InPhase, Careless
  <2> QED BY <1>1, <2>1 DEF Finalize, GatesInv, RecordedInv
<1>2. GatesInv /\ [Next]_vars =>
        [(at = "timeout" /\ at' = "done" /\ verification.file = "whole") =>
           verification'.gates >= recorded /\ verification'.status = "blocked"]_vars
  BY <1>1
<1> QED BY <1>2, GatesHold, PTL DEF Spec, KeepsGates
=============================================================================
