----------------------------- MODULE ReviewLoop -----------------------------
(* The implement-review loop: refreshes whose verify runs are judged by what *)
(* the task changed since a baseline run, the review delta that recommends   *)
(* to stop or to go on, and the remediation delta between two runs.          *)
(*                                                                           *)
(* A commit is a tree; files and commits change while a refresh runs. A      *)
(* finding is the content of the file it is in. Git calls may fail.          *)
EXTENDS Naturals, Sequences, FiniteSets

CONSTANTS
  Files,
  Packages,       \* the files that are manifests or lockfiles
  GitName,        \* how git prints the name of a file: some names in quotes
  Ignored,        \* what git leaves out of the untracked files
  Trees,          \* the trees a commit can have
  Flawed,         \* contents with a finding
  Adrift,         \* contents whose finding names no file
  Failures,       \* the sets of git calls that may fail together
  Absent, None,
  MaxRuns, MaxCommits, MaxEdits, MaxDeaths   \* bounds

VARIABLES
  commits,     \* the trees committed
  head,        \* which of them is checked out
  work,        \* the working tree: file -> content
  runs,        \* the verify runs
  job,         \* the refresh that is running
  delta,       \* the review delta just written, or None
  compared,    \* the remediation delta just written, or None
  spent

vars == <<commits, head, work, runs, job, delta, compared, spent>>

Idle == [step |-> "idle"]

Present(id) == id \in DOMAIN runs /\ runs[id] # None

Differing(left, right) == {f \in Files : left[f] # right[f]}

Printed(files) == {GitName[f] : f \in files}

\* The file of a finding is what the review goes by.
FindingsOf(tree) == {[file |-> IF tree[f] \in Adrift THEN None ELSE f, of |-> f, says |-> tree[f]] :
                       f \in {x \in Files : tree[x] \in Flawed}}

FileOf(finding) == finding.file

\* One slice for the findings of a file.
SlicesOf(findings) == {<<f, {x \in findings : x.of = f}>> : f \in {x.of : x \in findings}}

\* The commit a run was made at, when its manifest says so.
HeadOf(id) == IF Present(id) /\ runs[id].manifest THEN runs[id].head ELSE None

ChangedInCommits(base, failing) ==
  IF base = None \/ "range" \in failing THEN {}
  ELSE Printed(Differing(commits[base], commits[head]))

\* The git calls are "range" of the baseline, "diff" to HEAD and "others",
\* untracked; one that fails shows nothing.
ChangedSince(base, failing) ==
  LET tracked == {f \in Files : commits[head][f] # Absent}
      range == IF base = None \/ "range" \in failing THEN {}
               ELSE Differing(commits[base], commits[head])
      diff == IF "diff" \in failing THEN {} ELSE Differing(commits[head], work) \cap tracked
      others == IF "others" \in failing THEN {} ELSE {f \in Files \ (tracked \cup Ignored) : work[f] # Absent}
  IN  Printed(range \cup diff \cup others)

\* A gate verification that did not pass blocks the delta, so does none.
Blocked(status) == status \notin {"passed", "clean"}

StopReason(clean, blocked, scope) ==
  IF blocked THEN "verification-blocked"
  ELSE IF scope = {} THEN "no-task-scope-evidence"
  ELSE IF clean THEN "no-task-scoped-findings" ELSE "task-scoped-findings-remain"

ReviewDelta(id, base, failing) ==
  LET scope == ChangedSince(HeadOf(base), failing)
      inside(findings) == {x \in findings : FileOf(x) \in scope}
      now == inside(runs[id].findings)
      before == IF base = None THEN {} ELSE inside(runs[base].findings)
      blocked == Blocked(runs[id].status)
      clean == scope # {} /\ now = {} /\ ~blocked
  IN  [run |-> id, base |-> base, scope |-> scope, new |-> now \ before, resolved |-> before \ now,
       persisted |-> now \cap before, outside |-> runs[id].findings \ now, blocked |-> blocked,
       clean |-> clean, reason |-> StopReason(clean, blocked, scope),
       sound |-> failing = {} /\ job.still]

PackagesChanged(base, id, failing) ==
  LET from == HeadOf(base)
      to == HeadOf(id)
      range == IF None \in {from, to} \/ "range" \in failing THEN {}
               ELSE Printed(Differing(commits[from], commits[to]))
  IN  Packages \cap (range \cup ChangedSince(None, failing))

Advice(changed, new, gone, packages) ==
  IF ~changed THEN {"none"}
  ELSE {"keep"} \cup (IF packages THEN {"recheck"} ELSE {}) \cup (IF new THEN {"add"} ELSE {})
         \cup (IF gone THEN {"close"} ELSE {})

RemediationDelta(id, base, failing) ==
  LET now == runs[id].findings
      before == runs[base].findings
      packages == PackagesChanged(base, id, failing)
      new == now \ before # {} \/ {s[1] : s \in SlicesOf(now)} \ {s[1] : s \in SlicesOf(before)} # {}
      gone == before \ now # {} \/ {s[1] : s \in SlicesOf(before)} \ {s[1] : s \in SlicesOf(now)} # {}
      changed == \/ now # before \/ SlicesOf(now) # SlicesOf(before) \/ packages # {}
                 \/ runs[id].status # runs[base].status
  IN  [run |-> id, base |-> base, changed |-> changed, packages |-> packages,
       advice |-> Advice(changed, new, gone, packages # {}),
       sound |-> failing = {} /\ None \notin {HeadOf(id), HeadOf(base)}
                   /\ runs[id].settled /\ HeadOf(id) = head
                   /\ runs[id].audited = work]

-----------------------------------------------------------------------------
Spend(what) == spent' = [spent EXCEPT ![what] = @ + 1]

\* What is written is looked at until anything else happens.
Forget == delta' = None /\ compared' = None

Disturbed == IF job = Idle THEN job ELSE [job EXCEPT !.still = FALSE]

Edit(f, content) ==
  /\ spent.edits < MaxEdits /\ work[f] # content
  /\ work' = [work EXCEPT ![f] = content]
  /\ job' = Disturbed /\ Spend("edits") /\ Forget
  /\ UNCHANGED <<commits, head, runs>>

Commit ==
  /\ Len(commits) < MaxCommits /\ work \in Trees /\ work # commits[head]
  /\ commits' = Append(commits, work) /\ head' = Len(commits) + 1
  /\ job' = Disturbed /\ Forget
  /\ UNCHANGED <<work, runs, spent>>

Checkout(c) ==
  /\ c # head /\ work = commits[head]
  /\ head' = c /\ work' = commits[c]
  /\ job' = Disturbed /\ Forget
  /\ UNCHANGED <<commits, runs, spent>>

\* The verify phase: it writes its manifest and its audit, then runs gates.
Begin ==
  /\ job = Idle /\ Len(runs) < MaxRuns
  /\ \E base \in {None} \cup {id \in DOMAIN runs : Present(id)} :
       job' = [step |-> "audited", id |-> Len(runs) + 1, base |-> base, still |-> TRUE]
  /\ runs' = Append(runs, [head |-> head, manifest |-> TRUE, audited |-> work, settled |-> FALSE,
                           findings |-> FindingsOf(work), status |-> "unavailable"])
  /\ Forget
  /\ UNCHANGED <<commits, head, work, spent>>

Verify ==
  /\ job.step = "audited"
  /\ \E status \in {"passed", "failed"} : runs' = [runs EXCEPT ![job.id].status = status]
  /\ job' = [job EXCEPT !.step = "verified"]
  /\ Forget
  /\ UNCHANGED <<commits, head, work, spent>>

\* The baseline may be gone: then the refresh fails here. The manifest is
\* written anew with where the delta is.
WriteDelta ==
  /\ job.step = "verified"
  /\ IF job.base # None /\ ~Present(job.base)
       THEN /\ job' = Idle /\ delta' = None /\ UNCHANGED runs
       ELSE /\ \E failing \in Failures : delta' = ReviewDelta(job.id, job.base, failing)
            /\ runs' = [runs EXCEPT ![job.id].manifest = FALSE]
            /\ job' = [job EXCEPT !.step = "attached"]
  /\ compared' = None
  /\ UNCHANGED <<commits, head, work, spent>>

\* What pruning may leave of the runs; the refresh's own stays.
Pruned(kept, own) ==
  {[id \in DOMAIN kept |-> IF id \in gone THEN None ELSE kept[id]] :
     gone \in SUBSET (DOMAIN kept \ {own})}

Finish ==
  /\ job.step = "attached"
  /\ LET attached == [runs EXCEPT ![job.id].manifest = TRUE, ![job.id].settled = job.still]
     IN  runs' \in Pruned(attached, job.id)
  /\ job' = Idle /\ Forget
  /\ UNCHANGED <<commits, head, work, spent>>

Die ==
  /\ job # Idle /\ spent.deaths < MaxDeaths
  /\ job' = Idle /\ Spend("deaths") /\ Forget
  /\ UNCHANGED <<commits, head, work, runs>>

Compare(id, base) ==
  /\ Present(id) /\ Present(base)
  /\ \E failing \in Failures : compared' = RemediationDelta(id, base, failing)
  /\ delta' = None
  /\ UNCHANGED <<commits, head, work, runs, job, spent>>

Init ==
  /\ \E tree \in Trees : commits = <<tree>> /\ work = tree
  /\ head = 1 /\ runs = <<>> /\ job = Idle /\ delta = None /\ compared = None
  /\ spent = [edits |-> 0, deaths |-> 0]

Next ==
  \/ \E f \in Files, content \in Flawed \cup {"good", Absent} : Edit(f, content)
  \/ Commit
  \/ \E c \in DOMAIN commits : Checkout(c)
  \/ Begin \/ Verify \/ WriteDelta \/ Finish \/ Die
  \/ \E id, base \in DOMAIN runs : Compare(id, base)

Spec == Init /\ [][Next]_vars

-----------------------------------------------------------------------------
\* What a run audited is what the commit of the baseline run has.
Untouched(f, id, base) ==
  \E c \in DOMAIN commits : HeadOf(base) = c /\ runs[id].audited[f] = commits[c][f]

\* Git shows the file, and under the name the findings of the file have.
Shown(f) == GitName[f] = f /\ f \notin Ignored

\* When nothing moved and git answered, a delta against a baseline that says
\* to stop leaves findings only in files that are as the baseline's commit had
\* them, or that git does not show as they are named, and every finding is in it
\* once; and a remediation delta that says nothing changed is about two runs with
\* the same findings, between which no manifest or lockfile changed.
DeltasAreEarned ==
  /\ delta # None =>
       LET found == runs[delta.run].findings IN
         /\ delta.new \cup delta.persisted \cup delta.outside = found
         /\ Cardinality(delta.new) + Cardinality(delta.persisted) + Cardinality(delta.outside)
              = Cardinality(found)
         /\ delta.clean => runs[delta.run].status = "passed"
         /\ delta.clean /\ delta.sound /\ delta.base # None /\ HeadOf(delta.base) # None =>
              \A x \in found : FileOf(x) = None \/ ~Shown(x.of) \/ Untouched(x.of, delta.run, delta.base)
  /\ compared # None /\ ~compared.changed =>
       /\ runs[compared.run].findings = runs[compared.base].findings
       /\ compared.sound =>
            \A f \in {x \in Packages : Shown(x)} : Untouched(f, compared.run, compared.base)
-----------------------------------------------------------------------------
(* The invariant of the proof: a refresh that nothing disturbed is of the   *)
(* tree and the commit that are there now.                                  *)
RunFits(run) ==
  /\ DOMAIN run = {"head", "manifest", "audited", "settled", "findings", "status"}
  /\ run.head \in DOMAIN commits /\ run.findings = FindingsOf(run.audited)
  /\ run.status \in {"unavailable", "passed", "failed"}

InHand ==
  /\ DOMAIN job = {"step", "id", "base", "still"}
  /\ job.step \in {"audited", "verified", "attached"} /\ job.still \in BOOLEAN
  /\ job.id \in DOMAIN runs /\ RunFits(runs[job.id])
  /\ job.base \in {None} \cup (DOMAIN runs \ {job.id})
  /\ job.still => runs[job.id].audited = work /\ runs[job.id].head = head

LoopInv ==
  /\ commits \in Seq({commits[k] : k \in DOMAIN commits}) /\ head \in DOMAIN commits
  /\ runs \in Seq({runs[k] : k \in DOMAIN runs})
  /\ \A id \in DOMAIN runs : runs[id] # None => RunFits(runs[id])
  /\ job = Idle \/ InHand
  /\ DeltasAreEarned
=============================================================================
