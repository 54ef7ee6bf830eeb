---------------------------- MODULE TaskWorkflow ----------------------------
(***************************************************************************)
(* One task: qr task start takes a baseline of the workspace or of a       *)
(* target revision, task check compares a copy of the workspace (merged    *)
(* with that revision) with it, task rebaseline replaces it.  Commands of  *)
(* several processes overlap, each reads the record once, at its start,    *)
(* and rewrites it in place at its end; the repository is edited meanwhile.*)
(***************************************************************************)
EXTENDS Naturals, Sequences, Functions

CONSTANTS
  Procs,
  Paths,         \* the source files
  Entries,       \* the files of the repository, in the order they are copied:
                 \* ConfigFile and the Paths
  ConfigFile,
  Contents, Absent,   \* what a path can contain; Absent when it is not there
  Spots,         \* the lines a content violates the rule at
  Configs,       \* contents of ConfigFile, see below
  Tools,         \* versions of the gate's tool; Missing when it is not found
  Missing,
  HeadTree, TargetTree, BaseTree,  \* of HEAD, of the target revision and of their merge base
  Nothing, Torn,
  MaxCommands, MaxEdits, MaxCrashes

\* A configuration: the contents a scan by it reports, the promotion of the
\* rule, the occurrences waived, whether the rule's module must be covered, and
\* the gate (none, optional or required) with the state it is declared in.
Prevention(config) == <<config.rule, config.covered, config.gate, config.declared>>

-----------------------------------------------------------------------------
(* The findings of a baseline or a check, and what a check makes of the two. *)
(* The detectors report one promoted rule: in every file, the lines it is    *)
(* violated at, in order, a line twice when two violations cannot be told    *)
(* apart.                                                                    *)

Repeated(lines, i) == \E j \in DOMAIN lines : j # i /\ lines[j] = lines[i]

\* Mutant: all violations of a file have the fingerprint the detector gives.
OccurrencesByFile(spots) == {<<p, 1>> : p \in {q \in Paths : spots[q] # <<>>}}

\* _assign_occurrence_fingerprints and _unique_occurrences: a violation is
\* told from the others of its file by its place in their order.
Occurrences(spots) ==
  UNION {{<<p, i>> : i \in {j \in DOMAIN spots[p] : ~Repeated(spots[p], j)}} : p \in Paths}

\* _ambiguities
Ambiguous(spots) == \E p \in Paths : \E i \in DOMAIN spots[p] : Repeated(spots[p], i)

\* normalize_findings, with the coverage the scan reports: complete, or that
\* it skipped files.
Normalized(spots, complete) ==
  [found |-> Occurrences(spots), ambiguous |-> Ambiguous(spots), complete |-> complete]

\* _eligible: behavior-verified, with all the evidence a promotion takes.
Eligible(config) == config.rule = "verified"

\* _active_waiver: an exact, unexpired disposition of that very occurrence.
Waived(o, config) == o \in config.waived

\* The bucket new_enforced: in a changed path, not waived, of an enforced rule.
NewEnforced(before, now, changed, config) ==
  {o \in now.found \ before.found :
     o[1] \in changed /\ ~Waived(o, config) /\ Eligible(config)}

\* The blockers of compare_findings: findings that cannot be matched, that are
\* gone from a scan that did not see everything, or a module that has to be
\* covered and is not.
Incomparable(before, now, config) ==
  \/ before.ambiguous \/ now.ambiguous
  \/ ~now.complete /\ (before.found \ now.found # {} \/ config.covered)

\* promotion_issues: a rule called behavior-verified without the evidence.
Unproven(config) == config.rule = "unproven"

-----------------------------------------------------------------------------
VARIABLES
  work,          \* the workspace: the content of every entry
  tools,         \* the version of the tool that is found
  record,        \* the task's record: Nothing, Torn or what it holds
  baselines,     \* the baselines written, in that order; retention may have deleted some
  checks,        \* the checks written
  pc, job,
  commands, edits, crashes

vars == <<work, tools, record, baselines, checks, pc, job, commands, edits, crashes>>

Go(p, phase, j) == pc' = [pc EXCEPT ![p] = phase] /\ job' = [job EXCEPT ![p] = j]

Done(p) == Go(p, "idle", Nothing)

Init ==
  /\ work = HeadTree /\ tools \in Tools
  /\ record = Nothing /\ baselines = <<>> /\ checks = <<>>
  /\ pc = [p \in Procs |-> "idle"] /\ job = [p \in Procs |-> Nothing]
  /\ commands = 0 /\ edits = 0 /\ crashes = 0

-----------------------------------------------------------------------------
(* The three commands read the record, and a check its baseline.            *)

\* A record that parses, with a baseline that is still on disk.
Usable(r) == r \notin {Nothing, Torn} /\ ~baselines[r.baseline].pruned

\* What a command works with, and what it has not yet.
Begin(p, command, from, source, follows) ==
  /\ pc[p] = "idle" /\ commands < MaxCommands
  /\ commands' = commands + 1
  /\ Go(p, "config", [command |-> command, record |-> from, source |-> source,
                      follows |-> follows, config |-> Nothing, tree |-> Nothing,
                      entries |-> <<>>, scanned |-> Nothing, findings |-> Nothing,
                      toolchain |-> Nothing, gate |-> Nothing])
  /\ UNCHANGED <<work, tools, record, baselines, checks, edits, crashes>>

\* start_task; a reference is resolved to the revision it names.
Start(p) ==
  /\ record = Nothing /\ ~work[ConfigFile].warned
  /\ \E source \in {"workspace", "revision"} : Begin(p, "start", Nothing, source, 0)

\* Mutant: a rebaseline is always of the workspace.
RebaselineWorkspace(p) ==
  /\ Usable(record) /\ ~work[ConfigFile].warned
  /\ Begin(p, "rebaseline", record, "workspace", record.baseline)

\* rebaseline_task scans the revision of the baseline it replaces again.
Rebaseline(p) ==
  /\ Usable(record) /\ ~work[ConfigFile].warned
  /\ Begin(p, "rebaseline", record, baselines[record.baseline].source, record.baseline)

Check(p) ==
  /\ Usable(record)
  /\ Begin(p, "check", record, baselines[record.baseline].source, record.baseline)

\* load_repo_config, for the policy; a check is refused when it has warnings.
ReadConfig(p) ==
  /\ pc[p] = "config"
  /\ IF job[p].command = "check" /\ work[ConfigFile].warned
     THEN Done(p)
     ELSE Go(p, "snapshot", [job[p] EXCEPT !.config = work[ConfigFile]])
  /\ UNCHANGED <<work, tools, record, baselines, checks, commands, edits, crashes>>

-----------------------------------------------------------------------------
(* workspace_snapshot                                                       *)

EntrySet == Range(Entries)

Conflict == \E e \in EntrySet : HeadTree[e] # BaseTree[e] /\ TargetTree[e] # BaseTree[e] /\ HeadTree[e] # TargetTree[e]

\* git merge-tree
Merged == [e \in EntrySet |-> IF HeadTree[e] = BaseTree[e] THEN TargetTree[e] ELSE HeadTree[e]]

\* An untracked file where the merge puts one.
Overwritten ==
  \E p \in Paths : HeadTree[p] = Absent /\ work[p] # Absent /\ Merged[p] # Absent

Dirty(e) == work[e] # HeadTree[e]

\* Where the copy begins: the revision alone, the merge without the dirty
\* entries, or nothing of the workspace yet.
Snapshot(p) ==
  /\ pc[p] = "snapshot"
  /\ LET j == job[p]
         Copy(tree, entries) == Go(p, "copy", [j EXCEPT !.tree = tree, !.entries = entries])
     IN  \/ j.source = "workspace" /\ Copy(work, Entries)
         \/ j.source = "revision" /\ j.command # "check" /\ Copy(TargetTree, <<>>)
         \/ /\ j.source = "revision" /\ j.command = "check"
            /\ IF Conflict \/ Overwritten THEN Done(p)
               ELSE Copy(Merged, SelectSeq(Entries, Dirty))
  /\ UNCHANGED <<work, tools, record, baselines, checks, commands, edits, crashes>>

\* _copy_entry: each file as it is when its turn comes.
CopyEntry(p) ==
  /\ pc[p] = "copy" /\ job[p].entries # <<>>
  /\ LET e == job[p].entries[1]
     IN  Go(p, "copy", [job[p] EXCEPT !.tree[e] = work[e], !.entries = Tail(@)])
  /\ UNCHANGED <<work, tools, record, baselines, checks, commands, edits, crashes>>

Violations(tree, config) ==
  [p \in Paths |-> IF tree[p] \in config.reports THEN Spots[tree[p]] ELSE <<>>]

\* What is found in the files the scan did not skip.
Scanned(tree, config, seen) ==
  [p \in Paths |-> IF p \in seen THEN Violations(tree, config)[p] ELSE <<>>]

\* _analyze: the scan takes its configuration from the copy, where a baseline
\* of a revision has the workspace's put over its own.  It may skip files; in a
\* baseline that only makes more findings new, and is left out.
Analyze(p) ==
  /\ pc[p] = "copy" /\ job[p].entries = <<>>
  /\ LET j == job[p]
         scanned == IF j.source = "revision" /\ j.command # "check"
                    THEN work[ConfigFile] ELSE j.tree[ConfigFile]
     IN  \E seen \in IF j.command = "check" THEN SUBSET Paths ELSE {Paths} :
           Go(p, "readiness",
              [j EXCEPT !.scanned = scanned,
                        !.findings = Normalized(Scanned(j.tree, scanned, seen), seen = Paths)])
  /\ UNCHANGED <<work, tools, record, baselines, checks, commands, edits, crashes>>

-----------------------------------------------------------------------------
(* evaluate_readiness and run_certified_gates                               *)

GateState(config) ==
  CASE config.gate = "none" -> "none"
    [] config.gate # "none" /\ tools = Missing -> "unavailable"
    [] OTHER -> config.declared

\* The tool of no gate is not looked at.
Toolchain(config) ==
  IF config.gate = "none" THEN <<"none", "none">> ELSE <<tools, GateState(config)>>

\* Its command or its bootstrap may end in any way; unknown are a time-out, a
\* tool that is gone, a bootstrap that fails and an error that is not the check's.
GateEnds == {"passed", "failed", "unknown"}

Readiness(p) ==
  /\ pc[p] = "readiness"
  /\ LET j == job[p]
     IN  \E gate \in IF GateState(j.config) = "certified" /\ j.command = "check"
                     THEN GateEnds ELSE {"not run"} :
           Go(p, "evidence", [j EXCEPT !.toolchain = Toolchain(j.config), !.gate = gate])
  /\ UNCHANGED <<work, tools, record, baselines, checks, commands, edits, crashes>>

\* contract_hashes, and the toolchain.
Evidence(j) ==
  [file |-> work[ConfigFile], policy |-> Prevention(j.config), toolchain |-> j.toolchain]

\* _capture_baseline writes its files, the one that is read last.
StoreBaseline(p) ==
  /\ pc[p] = "evidence" /\ job[p].command # "check"
  /\ LET j == job[p]
         lineage == IF j.command = "start" THEN <<>> ELSE j.record.lineage
         run == Len(baselines) + 1
     IN  /\ baselines' = Append(baselines,
              [source |-> j.source, supersedes |-> j.follows, pruned |-> FALSE, tree |-> j.tree,
               scanned |-> j.scanned, findings |-> j.findings, evidence |-> Evidence(j)])
         /\ Go(p, "record",
               [command |-> j.command,
                record |-> [baseline |-> run, lineage |-> Append(lineage, run),
                            checks |-> IF j.command = "start" THEN <<>> ELSE j.record.checks]])
  /\ UNCHANGED <<work, tools, record, checks, commands, edits, crashes>>

ChangedPaths(before, after) == {q \in Paths : before[q] # after[q]}

\* What check_task decides: blocked by drift_blockers, promotion_issues, the
\* comparison, a gate without a result or a required one that is not certified.
Decision(j, evidence) ==
  LET b == baselines[j.follows]
  IN  IF \/ b.evidence # evidence
         \/ Unproven(j.config)
         \/ Incomparable(b.findings, j.findings, j.config)
         \/ j.gate = "unknown"
         \/ j.config.gate = "required" /\ j.toolchain[2] # "certified"
      THEN "blocked"
      ELSE IF \/ NewEnforced(b.findings, j.findings, ChangedPaths(b.tree, j.tree), j.config) # {}
              \/ j.config.gate = "required" /\ j.gate = "failed"
           THEN "violation" ELSE "pass"

StoreCheck(p) ==
  /\ pc[p] = "evidence" /\ job[p].command = "check"
  /\ LET j == job[p]
     IN  /\ checks' = Append(checks,
              [baseline |-> j.follows, status |-> Decision(j, Evidence(j)), config |-> j.config,
               tree |-> j.tree, scanned |-> j.scanned, findings |-> j.findings,
               toolchain |-> j.toolchain, gate |-> j.gate])
         /\ Go(p, "record",
               [command |-> "check",
                record |-> [j.record EXCEPT !.checks = Append(@, Len(checks) + 1)]])
  /\ UNCHANGED <<work, tools, record, baselines, commands, edits, crashes>>

\* _write_task_record: the file is truncated, then written.
TearRecord(p) ==
  /\ pc[p] = "record"
  /\ record' = Torn
  /\ Go(p, "saving", job[p])
  /\ UNCHANGED <<work, tools, baselines, checks, commands, edits, crashes>>

SaveRecord(p) ==
  /\ pc[p] = "saving"
  /\ record' = job[p].record
  /\ Done(p)
  /\ UNCHANGED <<work, tools, baselines, checks, commands, edits, crashes>>

-----------------------------------------------------------------------------
Crash(p) ==
  /\ pc[p] # "idle" /\ crashes < MaxCrashes
  /\ crashes' = crashes + 1
  /\ Done(p)
  /\ UNCHANGED <<work, tools, record, baselines, checks, commands, edits>>

Edit ==
  /\ edits < MaxEdits
  /\ edits' = edits + 1
  /\ \/ /\ \E p \in Paths, c \in Contents : work' = [work EXCEPT ![p] = c]
        /\ UNCHANGED tools
     \/ /\ \E c \in Configs : work' = [work EXCEPT ![ConfigFile] = c]
        /\ UNCHANGED tools
     \/ tools' \in Tools /\ UNCHANGED work
  /\ <<work, tools>>' # <<work, tools>>
  /\ UNCHANGED <<record, baselines, checks, pc, job, commands, crashes>>

\* cleanup_artifacts, of a refresh or of prune-artifacts, deletes the oldest run
\* directories; that of a task's baseline is one like any other.
Prune(n) ==
  /\ edits < MaxEdits
  /\ n \in DOMAIN baselines /\ ~baselines[n].pruned
  /\ edits' = edits + 1
  /\ baselines' = [k \in DOMAIN baselines |->
                    IF k <= n THEN [baselines[k] EXCEPT !.pruned = TRUE] ELSE baselines[k]]
  /\ UNCHANGED <<work, tools, record, checks, pc, job, commands, crashes>>

Command(p) == Start(p) \/ Rebaseline(p) \/ Check(p)

Step(p) ==
  \/ ReadConfig(p) \/ Snapshot(p) \/ CopyEntry(p) \/ Analyze(p) \/ Readiness(p)
  \/ StoreBaseline(p) \/ StoreCheck(p) \/ TearRecord(p) \/ SaveRecord(p)

Next ==
  \/ Edit
  \/ \E n \in 1 .. MaxCommands : Prune(n)
  \/ \E p \in Procs : Command(p) \/ Step(p) \/ Crash(p)

Spec == Init /\ [][Next]_vars

-----------------------------------------------------------------------------
(* No path violates the rule oftener in tree than in the baseline b, when    *)
(* each is judged by its own configuration, except where it is waived.       *)
NotWorse(tree, judged, b, base, waived) ==
  \A q \in Paths :
    tree[q] # b.tree[q] =>
      \A i \in DOMAIN Violations(tree, judged)[q] :
        i <= Len(Violations(b.tree, base)[q]) \/ <<q, i>> \in waived

(* A pass is earned: the baseline it names was judged by the same policy and *)
(* the same tools, the required gate passed, and no changed file has more    *)
(* unwaived violations of the promoted rule than it had there.  A scan that  *)
(* skipped files earns it only if none had to be seen and nothing is gone.   *)
PassIsEarned ==
  \A n \in DOMAIN checks : checks[n].status = "pass" =>
    LET c == checks[n]
        b == baselines[c.baseline]
    IN  /\ b.evidence.policy = Prevention(c.config) /\ b.evidence.toolchain = c.toolchain
        /\ c.config.gate = "required" => c.gate = "passed"
        /\ Eligible(c.config) /\ c.findings.complete =>
             NotWorse(c.tree, c.scanned, b, b.scanned, c.config.waived)
        /\ c.findings.complete \/ (~c.config.covered /\ b.findings.found \subseteq c.findings.found)

(* "pass: no new enforced findings": judged by the configuration the         *)
(* baseline attests, the passing tree is not worse than the baseline's.      *)
PassHasNoNewFinding ==
  \A n \in DOMAIN checks : checks[n].status = "pass" =>
    LET c == checks[n]
        b == baselines[c.baseline]
    IN  Eligible(c.config) /\ c.findings.complete =>
          NotWorse(c.tree, b.evidence.file, b, b.evidence.file, c.config.waived)

(* A lineage of baselines that were completed, each to replace the one       *)
(* before and all of one target, of which the last is the record's, and the  *)
(* checks it lists were made against members of it.                          *)
Whole(r) ==
  LET l == r.lineage
  IN  /\ r.baseline = l[Len(l)]
      /\ \A k \in DOMAIN l :
           /\ l[k] \in DOMAIN baselines
           /\ baselines[l[k]].source = baselines[l[1]].source
           /\ baselines[l[k]].supersedes = (IF k = 1 THEN 0 ELSE l[k - 1])
      /\ \A k \in DOMAIN r.checks : checks[r.checks[k]].baseline \in Range(l)

(* What the record calls the task's baseline ends such a lineage, whatever   *)
(* overlapped.                                                               *)
LineageIsWhole == record \notin {Nothing, Torn} => Whole(record)

-----------------------------------------------------------------------------
(* The invariant of the proof: a baseline is of its tree as it was judged,   *)
(* and a command holds a whole lineage and what its phase has made of it.    *)
Judges == Configs \cup {HeadTree[ConfigFile], TargetTree[ConfigFile], BaseTree[ConfigFile]}

ScannedAs(x, seen) ==
  x.scanned \in Judges /\ x.findings = Normalized(Scanned(x.tree, x.scanned, seen), seen = Paths)

BaselineFits(b) ==
  /\ DOMAIN b = {"source", "supersedes", "pruned", "tree", "scanned", "findings", "evidence"}
  /\ ScannedAs(b, Paths)

RecordFits(r) ==
  /\ DOMAIN r = {"baseline", "lineage", "checks"}
  /\ r.lineage \in Seq(DOMAIN baselines) /\ r.lineage # <<>>
  /\ r.checks \in Seq(DOMAIN checks)
  /\ Whole(r)

Phases == {"config", "snapshot", "copy", "readiness", "evidence"}

CommandFits(j) ==
  /\ DOMAIN j = {"command", "record", "source", "follows", "config", "tree", "entries", "scanned",
                 "findings", "toolchain", "gate"}
  /\ j.command \in {"start", "rebaseline", "check"}
  /\ j.command = "start" => j.follows = 0
  /\ j.command # "start" =>
       RecordFits(j.record) /\ j.follows = j.record.baseline
       /\ j.source = baselines[j.follows].source

CopyFits(j) == ConfigFile \in DOMAIN j.tree /\ j.tree[ConfigFile] \in Judges

ScanFits(j) == \E seen \in SUBSET Paths : (j.command # "check" => seen = Paths) /\ ScannedAs(j, seen)

GateFits(j) ==
  j.command = "check" /\ j.config.gate = "required" /\ j.toolchain[2] = "certified" =>
    j.gate \in GateEnds

InHand(phase, j) ==
  /\ phase \in {"idle", "record", "saving"} \cup Phases
  /\ phase \in Phases => CommandFits(j)
  /\ phase = "copy" => CopyFits(j)
  /\ phase \in {"readiness", "evidence"} => ScanFits(j)
  /\ phase = "evidence" => GateFits(j)
  /\ phase \in {"record", "saving"} => RecordFits(j.record)

TaskInv ==
  /\ ConfigFile \in DOMAIN work /\ work[ConfigFile] \in Judges
  /\ DOMAIN pc = Procs /\ DOMAIN job = Procs
  /\ baselines \in Seq({baselines[k] : k \in DOMAIN baselines})
  /\ checks \in Seq({checks[k] : k \in DOMAIN checks})
  /\ \A k \in DOMAIN baselines : BaselineFits(baselines[k])
  /\ \A k \in DOMAIN checks : checks[k].baseline \in DOMAIN baselines
  /\ record \notin {Nothing, Torn} => RecordFits(record)
  /\ \A p \in Procs : InHand(pc[p], job[p])
  /\ PassIsEarned /\ LineageIsWhole
=============================================================================
