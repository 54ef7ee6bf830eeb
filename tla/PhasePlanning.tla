--------------------------- MODULE PhasePlanning ---------------------------
(***************************************************************************)
(* Native phase planning: the commands plan auto, phase add, phase plan,   *)
(* phase record-batch, phase update, phase verify and phase close over     *)
(* ROADMAP.md, STATE.md, the plan files and the verification files of      *)
(* .planning/quality-runner.  Each step of a process reads, or rewrites,   *)
(* one file; a command may die between two steps, or inside the writing of *)
(* a plan file, which is then torn: no command can load it.                *)
(***************************************************************************)
EXTENDS Integers, FiniteSets, Sequences

CONSTANTS
  Procs,
  Candidates,   \* domain candidates of the source run, security first
  ByHand,       \* the title of a phase added by phase add
  Slices,       \* what each slice of a handoff without candidates needs, in
                \* the order phase plan numbers them
  NoPlan,       \* no plan file, no verification file
  Nothing,      \* an idle process has no job
  MaxPhases,    \* bound on the phases of the roadmap
  MaxCommands,  \* bound on record-batch, update, verify and close commands
  MaxCrashes

ASSUME PhasePlanningAssumption ==
  /\ Candidates \in Seq(STRING) /\ ByHand \notin {Candidates[i] : i \in DOMAIN Candidates}
  \* build_phase_candidates makes one candidate of a domain.
  /\ \A i, k \in DOMAIN Candidates : Candidates[i] = Candidates[k] => i = k
  /\ Slices \in Seq(SUBSET (1 .. Len(Slices))) /\ Slices # <<>>
  \* wave_by_slice refuses a cycle: some slice of any set needs none of them.
  /\ \A some \in SUBSET DOMAIN Slices :
       some # {} => \E k \in some : Slices[k] \cap some = {}
  /\ NoPlan \notin {"planned", "in_progress", "complete", "blocked", "skipped", "verified", "torn"}
  /\ MaxPhases \in Nat /\ MaxCommands \in Nat /\ MaxCrashes \in Nat

VARIABLES
  roadmap,       \* ROADMAP.md: the phases, numbered by position
  plans,         \* the status in each plan file of each phase directory
  verification,  \* the status in each verification file
  planning,      \* STATE.md
  pc, job, commands, crashes

vars == <<roadmap, plans, verification, planning, pc, job, commands, crashes>>

Titles == {Candidates[i] : i \in DOMAIN Candidates} \cup {ByHand}

\* phase_directory: a directory is named after the number and the title.
Directories == (1 .. MaxPhases) \X Titles

PlanNumbers == 1 .. Len(Slices)

\* result_plan_status maps failed to blocked.
BatchStatuses == {"complete", "blocked", "skipped", "in_progress"}

DoneStatuses == {"verified", "complete", "skipped"}

PlanStatuses == BatchStatuses \cup {"planned", "verified"}

\* The plans a planning source yields for a phase: a candidate is its own
\* only slice, a phase added by hand takes the slices of a handoff.
PlanCount(title) == IF title = ByHand THEN Len(Slices) ELSE 1

Directory(road, n) == <<n, road[n].title>>

\* load_phase_plans, which fails on a torn plan.
Present(d) == {k \in PlanNumbers : plans[d][k] # NoPlan}

Loadable(d) == \A k \in PlanNumbers : plans[d][k] # "torn"

\* Mutant: only evidence, and no batch result, releases the dependents.
ReadyWhenVerified(d, k) ==
  /\ plans[d][k] \in {"planned", "in_progress"}
  /\ d[2] = ByHand => \A dep \in Slices[k] : plans[d][dep] = "verified"

\* plan_ready, over the plans of the phase.
Ready(d, k) ==
  /\ plans[d][k] \in {"planned", "in_progress"}
  /\ d[2] = ByHand => \A dep \in Slices[k] : plans[d][dep] \in DoneStatuses

Init ==
  /\ roadmap = <<>>
  /\ plans = [d \in Directories |-> [k \in PlanNumbers |-> NoPlan]]
  /\ verification = [d \in Directories |-> NoPlan]
  /\ planning = [status |-> "ready", phase |-> 0]
  /\ pc = [p \in Procs |-> "idle"]
  /\ job = [p \in Procs |-> Nothing]
  /\ commands = 0
  /\ crashes = 0

Go(p, phase, j) ==
  /\ pc' = [pc EXCEPT ![p] = phase]
  /\ job' = [job EXCEPT ![p] = j]

Done(p) == Go(p, "idle", Nothing)

files == <<roadmap, plans, verification, planning>>

bounds == <<commands, crashes>>

Update(r, part) == [f \in DOMAIN r \cup DOMAIN part |->
                      IF f \in DOMAIN part THEN part[f] ELSE r[f]]

\* One phase or one candidate is finished: the next candidate, if any.
Continue(p, j) == IF j.left = <<>> THEN Done(p) ELSE Go(p, "candidate", j)

-----------------------------------------------------------------------------
(* Adding and planning phases.                                              *)

\* auto_plan takes the candidates and the phases that came from one.
AutoPlan(p) ==
  /\ pc[p] = "idle"
  /\ Candidates # <<>>
  /\ Go(p, "candidate", [left |-> Candidates, known |-> roadmap])
  /\ UNCHANGED <<files, bounds>>

\* Mutant: phases are found by number, so that a candidate is added again.
CandidateUnknown(p) ==
  /\ pc[p] = "candidate"
  /\ LET j == job[p] IN
       Go(p, "add", Update([j EXCEPT !.left = Tail(@)], [title |-> Head(j.left)]))
  /\ UNCHANGED <<files, bounds>>

\* Mutant: a candidate that has a phase is taken to have its plan.
CandidateKnown(p) ==
  /\ pc[p] = "candidate"
  /\ LET j     == job[p]
         title == Head(j.left)
         rest  == [j EXCEPT !.left = Tail(@)]
     IN  IF \E n \in DOMAIN j.known : j.known[n].title = title
         THEN Continue(p, rest)
         ELSE Go(p, "add", Update(rest, [title |-> title]))
  /\ UNCHANGED <<files, bounds>>

\* A candidate that already had a phase is not added again.
Candidate(p) ==
  /\ pc[p] = "candidate"
  /\ LET j     == job[p]
         title == Head(j.left)
         had   == {n \in DOMAIN j.known : j.known[n].title = title}
         rest  == [j EXCEPT !.left = Tail(@)]
     IN  \/ /\ had = {}
            /\ Go(p, "add", Update(rest, [title |-> title]))
         \/ /\ had # {}
            /\ Go(p, "plan", Update(rest, [n |-> CHOOSE n \in had : \A m \in had : m <= n]))
  /\ UNCHANGED <<files, bounds>>

\* phase add
AddByHand(p) ==
  /\ pc[p] = "idle"
  /\ Cardinality({n \in DOMAIN roadmap : roadmap[n].title = ByHand})
       < MaxPhases - Len(Candidates)
  /\ Go(p, "add", [left |-> <<>>, known |-> <<>>, title |-> ByHand])
  /\ UNCHANGED <<files, bounds>>

\* add_phase reads the roadmap.
AddRead(p) ==
  /\ pc[p] = "add"
  /\ Len(roadmap) < MaxPhases
  /\ Go(p, "append", Update(job[p], [road |-> roadmap]))
  /\ UNCHANGED <<files, bounds>>

AddSave(p) ==
  /\ pc[p] = "append"
  /\ LET j == job[p] IN
       /\ roadmap' = Append(j.road, [title |-> j.title, status |-> "planned", listed |-> {}])
       /\ Go(p, "added", Update(j, [n |-> Len(j.road) + 1]))
  /\ UNCHANGED <<plans, verification, planning, bounds>>

AddState(p) ==
  /\ pc[p] = "added"
  /\ LET j == job[p] IN
       /\ planning' = [status |-> "in_progress", phase |-> j.n]
       /\ IF j.title = ByHand THEN Done(p) ELSE Go(p, "plan", j)
  /\ UNCHANGED <<roadmap, plans, verification, bounds>>

\* phase plan without a candidate, on a phase added by hand.
PlanByHand(p) ==
  /\ pc[p] = "idle"
  /\ \E n \in DOMAIN roadmap :
       /\ roadmap[n].title = ByHand
       /\ Go(p, "plan", [left |-> <<>>, known |-> <<>>, n |-> n])
  /\ UNCHANGED <<files, bounds>>

\* Mutant: plan_phase plans a phase that has plans again.
PlanAgain(p) ==
  /\ pc[p] = "plan"
  /\ LET j == job[p] IN
       /\ j.n \in DOMAIN roadmap
       /\ Go(p, "write", Update(j, [road |-> roadmap, k |-> 1]))
  /\ UNCHANGED <<files, bounds>>

\* plan_phase reads the roadmap and leaves a phase that has plans alone; a
\* phase that is gone from the roadmap, or a torn plan, ends the command.
PlanRead(p) ==
  /\ pc[p] = "plan"
  /\ LET j == job[p] IN
       \/ /\ j.n \notin DOMAIN roadmap
          /\ Done(p)
       \/ /\ j.n \in DOMAIN roadmap
          /\ ~ Loadable(Directory(roadmap, j.n))
          /\ Done(p)
       \/ /\ j.n \in DOMAIN roadmap
          /\ Present(Directory(roadmap, j.n)) # {} /\ Loadable(Directory(roadmap, j.n))
          /\ Continue(p, j)
       \/ /\ j.n \in DOMAIN roadmap
          /\ Present(Directory(roadmap, j.n)) = {}
          /\ Go(p, "write", Update(j, [road |-> roadmap, k |-> 1]))
  /\ UNCHANGED <<files, bounds>>

\* The plan files are written one after another, each in the directory the
\* roadmap names at that time.
PlanWrite(p) ==
  /\ pc[p] = "write"
  /\ LET j == job[p] IN
       \/ /\ j.n \notin DOMAIN roadmap
          /\ Done(p)
          /\ UNCHANGED plans
       \/ /\ j.n \in DOMAIN roadmap
          /\ plans' = [plans EXCEPT ![Directory(roadmap, j.n)][j.k] = "planned"]
          /\ IF j.k < PlanCount(j.road[j.n].title)
             THEN Go(p, "write", [j EXCEPT !.k = @ + 1])
             ELSE Go(p, "planned", j)
  /\ UNCHANGED <<roadmap, verification, planning, bounds>>

PlanSave(p) ==
  /\ pc[p] = "planned"
  /\ LET j == job[p] IN
       /\ roadmap' = [j.road EXCEPT ![j.n] =
                        [title |-> @.title, status |-> "planned", listed |-> 1 .. j.k]]
       /\ Go(p, "state", j)
  /\ UNCHANGED <<plans, verification, planning, bounds>>

PlanState(p) ==
  /\ pc[p] = "state"
  /\ planning' = [status |-> "in_progress", phase |-> job[p].n]
  /\ Continue(p, job[p])
  /\ UNCHANGED <<roadmap, plans, verification, bounds>>

-----------------------------------------------------------------------------
(* Recording what came of the plans.                                        *)

Command == commands < MaxCommands /\ commands' = commands + 1

\* record_batch loads the plan.
RecordBatch(p) ==
  /\ pc[p] = "idle"
  /\ Command
  /\ \E n \in DOMAIN roadmap, s \in BatchStatuses :
       LET d == Directory(roadmap, n) IN
       \E k \in Present(d) :
         /\ plans[d][k] # "torn"
         /\ Go(p, "rewrite", [n |-> n, d |-> d, next |-> "track", new |-> [i \in {k} |-> s]])
  /\ UNCHANGED <<files, crashes>>

\* What the delta of two runs says of a plan; every plan here has findings.
Evidence(old, seen, blocked) ==
  CASE blocked -> "blocked"
    [] ~blocked /\ seen = "resolved" -> "verified"
    [] ~blocked /\ seen = "persisted" -> "in_progress"
    [] OTHER -> old

\* update_phase loads the plans and judges each by the delta.
UpdatePhase(p) ==
  /\ pc[p] = "idle"
  /\ Command
  /\ \E n \in DOMAIN roadmap, blocked \in BOOLEAN :
       LET d == Directory(roadmap, n) IN
       \E seen \in [Present(d) -> {"resolved", "persisted", "neither"}] :
         /\ Loadable(d)
         /\ Go(p, IF Present(d) = {} THEN "note" ELSE "rewrite",
               [n |-> n, d |-> d, next |-> "note",
                new |-> [i \in Present(d) |-> Evidence(plans[d][i], seen[i], blocked)]])
  /\ UNCHANGED <<files, crashes>>

\* update_plan_file, in the order of the plan numbers; what is torn meanwhile
\* is whole again.
Rewrite(p) ==
  /\ pc[p] = "rewrite"
  /\ LET j == job[p]
         k == CHOOSE i \in DOMAIN j.new : \A l \in DOMAIN j.new : i <= l
         rest == DOMAIN j.new \ {k}
     IN  /\ plans' = [plans EXCEPT ![j.d][k] = j.new[k]]
         /\ IF rest = {} THEN Go(p, j.next, [n |-> j.n])
            ELSE Go(p, "rewrite", [j EXCEPT !.new = [i \in rest |-> j.new[i]]])
  /\ UNCHANGED <<roadmap, verification, planning, bounds>>

\* update_phase notes the findings no plan has.
Note(p) ==
  /\ pc[p] = "note"
  /\ planning' = [planning EXCEPT !.phase = job[p].n]
  /\ Go(p, "track", [n |-> job[p].n])
  /\ UNCHANGED <<roadmap, plans, verification, bounds>>

Track(d) ==
  LET statuses == {plans[d][k] : k \in Present(d)} IN
  CASE "blocked" \in statuses -> "blocked"
    [] statuses # {} /\ statuses \subseteq DoneStatuses -> "complete"
    [] OTHER -> "in_progress"

\* update_phase_tracking reads the roadmap and the plans.
TrackRead(p) ==
  /\ pc[p] = "track"
  /\ LET j == job[p] IN
       \/ /\ j.n \in DOMAIN roadmap => ~ Loadable(Directory(roadmap, j.n))
          /\ Done(p)
       \/ /\ j.n \in DOMAIN roadmap /\ Loadable(Directory(roadmap, j.n))
          /\ Go(p, "tracked", [n |-> j.n, road |-> roadmap,
                               status |-> Track(Directory(roadmap, j.n)),
                               listed |-> Present(Directory(roadmap, j.n))])
  /\ UNCHANGED <<files, bounds>>

TrackSave(p) ==
  /\ pc[p] = "tracked"
  /\ LET j == job[p] IN
       /\ roadmap' = [j.road EXCEPT ![j.n] =
                        [title |-> @.title, status |-> j.status, listed |-> j.listed]]
       /\ Go(p, "summarize", j)
  /\ UNCHANGED <<plans, verification, planning, bounds>>

TrackState(p) ==
  /\ pc[p] = "summarize"
  /\ planning' = [status |-> job[p].status, phase |-> job[p].n]
  /\ Done(p)
  /\ UNCHANGED <<roadmap, plans, verification, bounds>>

-----------------------------------------------------------------------------
(* Verifying and closing.                                                   *)

\* Mutant: a plan in progress is no obstacle.
PassedUnfinished(d, clean) == clean /\ \A k \in Present(d) : plans[d][k] # "blocked"

\* verify_phase: every plan is done, and neither the delta nor the gate
\* evidence of the run is blocked.
Passed(d, clean) == clean /\ \A k \in Present(d) : plans[d][k] \in DoneStatuses

VerifyPhase(p) ==
  /\ pc[p] = "idle"
  /\ Command
  /\ \E n \in DOMAIN roadmap, clean \in BOOLEAN, closing \in BOOLEAN :
       /\ Loadable(Directory(roadmap, n))
       /\ Go(p, "verify", [n |-> n, closing |-> closing,
                           passed |-> Passed(Directory(roadmap, n), clean)])
  /\ UNCHANGED <<files, crashes>>

\* The verification file; close_phase goes on when it passed.
Verified(p) ==
  /\ pc[p] = "verify"
  /\ LET j == job[p] IN
       \/ /\ j.n \notin DOMAIN roadmap
          /\ Done(p)
          /\ UNCHANGED verification
       \/ /\ j.n \in DOMAIN roadmap
          /\ verification' = [verification EXCEPT ![Directory(roadmap, j.n)] =
                                IF j.passed THEN "passed" ELSE "failed"]
          /\ IF j.closing /\ j.passed THEN Go(p, "close", j) ELSE Done(p)
  /\ UNCHANGED <<roadmap, plans, planning, bounds>>

CloseRead(p) ==
  /\ pc[p] = "close"
  /\ LET j == job[p] IN
       \/ /\ j.n \notin DOMAIN roadmap
          /\ Done(p)
       \/ /\ j.n \in DOMAIN roadmap
          /\ Go(p, "tracked", [n |-> j.n, road |-> roadmap, status |-> "complete",
                               listed |-> roadmap[j.n].listed])
  /\ UNCHANGED <<files, bounds>>

Die(p) ==
  /\ crashes < MaxCrashes
  /\ crashes' = crashes + 1
  /\ Done(p)
  /\ UNCHANGED <<roadmap, verification, planning, commands>>

Crash(p) == pc[p] # "idle" /\ Die(p) /\ UNCHANGED plans

Tear(p, d, k) == Die(p) /\ plans' = [plans EXCEPT ![d][k] = "torn"]

\* A plan file is written in place: a death inside leaves less than its
\* machine block.
TearWrite(p) ==
  /\ pc[p] = "write" /\ job[p].n \in DOMAIN roadmap
  /\ Tear(p, Directory(roadmap, job[p].n), job[p].k)

TearRewrite(p) ==
  /\ pc[p] = "rewrite"
  /\ Tear(p, job[p].d, CHOOSE i \in DOMAIN job[p].new : \A l \in DOMAIN job[p].new : i <= l)

-----------------------------------------------------------------------------
Step(p) ==
  \/ Candidate(p) \/ AddRead(p) \/ AddSave(p) \/ AddState(p)
  \/ PlanRead(p) \/ PlanWrite(p) \/ PlanSave(p) \/ PlanState(p)
  \/ Rewrite(p) \/ Note(p) \/ TrackRead(p) \/ TrackSave(p) \/ TrackState(p)
  \/ Verified(p) \/ CloseRead(p)

Begin(p) ==
  \/ AutoPlan(p) \/ AddByHand(p) \/ PlanByHand(p)
  \/ RecordBatch(p) \/ UpdatePhase(p) \/ VerifyPhase(p)

Next == \E p \in Procs : Begin(p) \/ Step(p) \/ Crash(p) \/ TearWrite(p) \/ TearRewrite(p)

Spec == Init /\ [][Next]_vars

(* A command that started runs on unless it dies, and an operator whose     *)
(* plan auto died runs it again.                                            *)
FairSpec ==
  /\ Spec
  /\ \A p \in Procs : WF_vars(Step(p)) /\ SF_vars(AutoPlan(p))

-----------------------------------------------------------------------------
Quiet == \A p \in Procs : pc[p] = "idle"

(* plan auto gives a candidate one phase, however often it is run and       *)
(* wherever it died.                                                        *)
OnePhasePerCandidate ==
  \A m, n \in DOMAIN roadmap :
    (roadmap[m].title = roadmap[n].title /\ roadmap[m].title # ByHand) => m = n

(* Planning again never takes the result of a plan away; only a death       *)
(* inside the rewriting of its file does.                                   *)
PlansArePreserved ==
  [][\A d \in Directories, k \in PlanNumbers :
       (plans[d][k] # NoPlan /\ plans'[d][k] # plans[d][k]) =>
         plans'[d][k] \notin {"planned", NoPlan}]_vars

(* Between commands, as long as none has died, a phase the roadmap calls    *)
(* complete has no unfinished plan, and one it calls blocked has a blocked  *)
(* one.                                                                     *)
RoadmapAgreesWithPlans ==
  (Quiet /\ crashes = 0) =>
    \A n \in DOMAIN roadmap :
      LET d == Directory(roadmap, n) IN
      /\ roadmap[n].status = "complete" =>
           \A k \in Present(d) : plans[d][k] \in DoneStatuses
      /\ roadmap[n].status = "blocked" =>
           \E k \in Present(d) : plans[d][k] = "blocked"

(* The roadmap is what was planned: once each, and at the status of the     *)
(* plans.                                                                   *)
RoadmapIsSound == OnePhasePerCandidate /\ RoadmapAgreesWithPlans

\* The plans of the phase are done, or one is blocked or can be dispatched.
GoesOn(d) ==
  \/ \A k \in Present(d) : plans[d][k] \in DoneStatuses
  \/ \E k \in Present(d) : plans[d][k] = "blocked" \/ Ready(d, k)

(* A phase with unfinished plans, none of them blocked or torn, has one     *)
(* that can be dispatched next.                                             *)
SomePlanIsReady ==
  Quiet =>
    \A n \in DOMAIN roadmap : LET d == Directory(roadmap, n) IN Loadable(d) => GoesOn(d)

(* While no command has died, work that is left and not blocked can be      *)
(* dispatched: plan files, statuses and dependencies stay in step.          *)
SomePlanIsReadyUndisturbed ==
  Quiet /\ crashes = 0 => \A n \in DOMAIN roadmap : GoesOn(Directory(roadmap, n))

\* The candidate has a phase with a plan that can be loaded.
Planned(title) ==
  \E n \in DOMAIN roadmap :
    /\ roadmap[n].title = title
    /\ Present(Directory(roadmap, n)) # {} /\ Loadable(Directory(roadmap, n))

(* A candidate ends up with a phase that has its plan, wherever plan auto   *)
(* died, unless the plan of a candidate is torn.                            *)
EveryCandidateIsPlanned ==
  \A i \in DOMAIN Candidates :
    <>(Planned(Candidates[i]) \/ \E d \in Directories : d[2] # ByHand /\ ~ Loadable(d))
=============================================================================
