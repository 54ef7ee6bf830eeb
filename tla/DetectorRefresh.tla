--------------------------- MODULE DetectorRefresh ---------------------------
(***************************************************************************)
(* qr fleet detector refresh: every repository is refreshed in a worktree  *)
(* of its target commit, and the three runs of that refresh are copied     *)
(* into the repository, where other tools take them for its own. Runs are  *)
(* named by --as-of, so a command that is repeated, after a death or in    *)
(* another output directory, works towards the same names.                 *)
(***************************************************************************)
EXTENDS FleetTargets, Sequences

CONSTANTS
  Procs,
  Repos, Worlds,   \* as in FleetAudit
  Days,            \* values of --as-of
  Outputs,         \* output directories
  MaxRefreshes, MaxMoves, MaxCrashes

VARIABLES
  world,
  trees,     \* worktrees: <<output directory, day, repository>>
  runs,      \* the runs in a repository: <<repository, day, phase>> -> what is there
  ledgers,   \* detector-refresh.json: <<output directory, day>> -> its rows
  spoiled,   \* history: <<repository, day>> at which a copy was cut off
  pc, job,
  spent

vars == <<world, trees, runs, ledgers, spoiled, pc, job, spent>>

Phases == <<"inspect", "run", "verify">>

Vacant == [head |-> None, state |-> "absent"]

Go(p, phase, j) == pc' = [pc EXCEPT ![p] = phase] /\ job' = [job EXCEPT ![p] = j]

Init ==
  /\ world \in [Repos -> Worlds]
  /\ trees = {} /\ spoiled = {}
  /\ runs = [s \in Repos \X Days \X {Phases[i] : i \in 1 .. 3} |-> Vacant]
  /\ ledgers = [l \in Outputs \X Days |-> None]
  /\ pc = [p \in Procs |-> "idle"] /\ job = [p \in Procs |-> None]
  /\ spent = [refreshes |-> 0, moves |-> 0, crashes |-> 0]

-----------------------------------------------------------------------------
\* _resolve_detector_target: the target that an audit would take or, if that is
\* not ready, the local branch of that name, attached or not, at its commit.
DetectorTarget(w) ==
  LET t == Target(w)
      branch == TargetBranch(w)
      having == {i \in DOMAIN w.clones : branch \in w.clones[i].branches}
  IN  IF t.status = "ready" \/ having = {} THEN t
      ELSE [status |-> "ready", head |-> w.tips[branch], clone |-> Lowest(having)]

Discover(p, output, day) ==
  /\ pc[p] = "idle" /\ spent.refreshes < MaxRefreshes
  /\ spent' = [spent EXCEPT !.refreshes = @ + 1]
  /\ LET there == {r \in Repos : world[r] # None}
     IN  Go(p, "next",
            [output |-> output, day |-> day, left |-> there, rows |-> [r \in {} |-> None],
             found |-> [r \in there |-> world[r]]])
  /\ UNCHANGED <<world, trees, runs, ledgers, spoiled>>

Tree(j) == <<j.output, j.day, Lowest(j.left)>>

Run(j, phase) == <<Lowest(j.left), j.day, phase>>

\* What remains of a job when the row of its repository is written.
Row(j, status, target) ==
  LET r == Lowest(j.left)
  IN  [output |-> j.output, day |-> j.day, left |-> j.left \ {r}, found |-> j.found,
       rows |-> [q \in DOMAIN j.rows \cup {r} |->
                  IF q = r THEN [status |-> status, head |-> target.head] ELSE j.rows[q]]]

\* _refresh_repository up to the worktree.
Open(p) ==
  /\ pc[p] = "next" /\ job[p].left # {}
  /\ LET j == job[p]
         r == Lowest(j.left)
         t == DetectorTarget(j.found[r])
     IN  IF t.status # "ready" \/ Tree(j) \in trees
         THEN Go(p, "next", Row(j, "blocked", t)) /\ UNCHANGED trees
         ELSE \/ Go(p, "next", Row(j, "blocked", t)) /\ UNCHANGED trees   \* git worktree add fails
              \/ /\ trees' = trees \cup {Tree(j)}
                 /\ Go(p, "refresh",
                       [output |-> j.output, day |-> j.day, left |-> j.left, found |-> j.found,
                        rows |-> j.rows, target |-> t, before |-> HeadAt(world[r], t.clone),
                        made |-> {}, published |-> {}, status |-> "blocked"])
  /\ UNCHANGED <<world, runs, ledgers, spoiled, spent>>

\* The refresh may raise, time out in any phase, or find that the repository is
\* one that is kept for the record.
Refresh(p) ==
  /\ pc[p] = "refresh"
  /\ \/ Go(p, "close", [job[p] EXCEPT !.status = "unsupported"])
     \/ Go(p, "close", job[p])
     \/ Go(p, "check", [job[p] EXCEPT !.made = {Phases[i] : i \in 1 .. 3}])
  /\ UNCHANGED <<world, trees, runs, ledgers, spoiled, spent>>

\* _publish_runs: nothing may be there of any of the three.
Check(p) ==
  /\ pc[p] = "check"
  /\ LET j == job[p]
         vacant == \A f \in j.made : runs[Run(j, f)] = Vacant
     IN  Go(p, IF vacant THEN "copy" ELSE "close", j)
  /\ UNCHANGED <<world, trees, runs, ledgers, spoiled, spent>>

NextPhase(j) == Phases[1 + Cardinality(j.published)]

Put(j, phase, state) == [runs EXCEPT ![Run(j, phase)] = [head |-> j.target.head, state |-> state]]

\* shutil.copytree: makes the directory, which must not be there, then fills it.
Copy(p) ==
  /\ pc[p] = "copy" /\ job[p].made # job[p].published
  /\ LET j == job[p]
         f == NextPhase(j)
     IN  IF runs[Run(j, f)] # Vacant
         THEN Go(p, "undo", j) /\ UNCHANGED runs
         ELSE runs' = Put(j, f, "partial") /\ Go(p, "fill", j)
  /\ UNCHANGED <<world, trees, ledgers, spoiled, spent>>

\* A directory is listed for removal when its copy is complete.
Fill(p) ==
  /\ pc[p] = "fill"
  /\ LET j == job[p]
         f == NextPhase(j)
     IN  \/ /\ runs' = Put(j, f, "copied")
            /\ Go(p, "rewrite", [j EXCEPT !.published = @ \cup {f}])
            /\ UNCHANGED spoiled
         \/ /\ spoiled' = spoiled \cup {<<Lowest(j.left), j.day>>}
            /\ Go(p, "undo", j)
            /\ UNCHANGED runs
  /\ UNCHANGED <<world, trees, ledgers, spent>>

\* _rewrite_published_json, and the file that says what was published.
Rewrite(p) ==
  /\ pc[p] = "rewrite"
  /\ LET j == job[p]
         f == Phases[Cardinality(j.published)]
     IN  \/ runs' = Put(j, f, "whole") /\ Go(p, "copy", j)
         \/ Go(p, "undo", j) /\ UNCHANGED runs
  /\ UNCHANGED <<world, trees, ledgers, spoiled, spent>>

\* Mutant: the directory that could not be rewritten stays.
UndoneButLast(j) == {f \in j.published : f # Phases[Cardinality(j.published)]}

Undone(j) == j.published

Undo(p) ==
  /\ pc[p] = "undo"
  /\ LET j == job[p]
     IN  /\ runs' = [s \in DOMAIN runs |->
                      IF \E f \in Undone(j) : s = Run(j, f) THEN Vacant ELSE runs[s]]
         /\ Go(p, "close", j)
  /\ UNCHANGED <<world, trees, ledgers, spoiled, spent>>

\* All three are there; counting their findings may still fail.
Published(p) ==
  /\ pc[p] = "copy" /\ job[p].made = job[p].published
  /\ \E status \in {"published", "blocked"} : Go(p, "close", [job[p] EXCEPT !.status = status])
  /\ UNCHANGED <<world, trees, runs, ledgers, spoiled, spent>>

\* The worktree is removed, whatever happened; if it cannot be, or the HEAD of
\* the source moved, the row says blocked, whatever was published.
Close(p) ==
  /\ pc[p] = "close"
  /\ LET j == job[p]
         r == Lowest(j.left)
         moved == HeadAt(world[r], j.target.clone) # j.before
     IN  \E clean \in BOOLEAN :
           /\ trees' = IF clean THEN trees \ {Tree(j)} ELSE trees
           /\ Go(p, "next",
                 Row(j, IF clean /\ ~moved THEN j.status ELSE "blocked", j.target))
  /\ UNCHANGED <<world, runs, ledgers, spoiled, spent>>

StoreLedger(p) ==
  /\ pc[p] = "next" /\ job[p].left = {}
  /\ ledgers' = [ledgers EXCEPT ![<<job[p].output, job[p].day>>] = job[p].rows]
  /\ Go(p, "idle", None)
  /\ UNCHANGED <<world, trees, runs, spoiled, spent>>

-----------------------------------------------------------------------------
Crash(p) ==
  /\ pc[p] # "idle" /\ spent.crashes < MaxCrashes
  /\ spent' = [spent EXCEPT !.crashes = @ + 1]
  /\ spoiled' = IF pc[p] \in {"copy", "fill", "rewrite", "undo"}
                THEN spoiled \cup {<<Lowest(job[p].left), job[p].day>>} ELSE spoiled
  /\ Go(p, "idle", None)
  /\ UNCHANGED <<world, trees, runs, ledgers>>

Move(r) ==
  /\ spent.moves < MaxMoves
  /\ spent' = [spent EXCEPT !.moves = @ + 1]
  /\ \E w \in Worlds \ {world[r]} : world' = [world EXCEPT ![r] = w]
  /\ UNCHANGED <<trees, runs, ledgers, spoiled, pc, job>>

Step(p) ==
  \/ Open(p) \/ Refresh(p) \/ Check(p) \/ Copy(p) \/ Fill(p) \/ Rewrite(p) \/ Undo(p)
  \/ Published(p) \/ Close(p) \/ StoreLedger(p)

Next ==
  \/ \E p \in Procs :
       \/ Step(p) \/ Crash(p)
       \/ \E o \in Outputs, d \in Days : Discover(p, o, d)
  \/ \E r \in Repos : Move(r)

Spec == Init /\ [][Next]_vars

-----------------------------------------------------------------------------
SetOf(r, d) == {runs[<<r, d, Phases[i]>>] : i \in 1 .. 3}

Publishing(r, d) ==
  \E p \in Procs :
    /\ pc[p] \in {"copy", "fill", "rewrite", "undo"}
    /\ Lowest(job[p].left) = r /\ job[p].day = d

(* "Incomplete run sets are never partially published", whoever else works   *)
(* towards the same names: unless a copy was cut off, the runs of a day are  *)
(* all there, of one commit and rewritten, or none of them is; and what a    *)
(* ledger calls published is there, at the commit the row names.             *)
PublishedIsWhole ==
  /\ \A r \in Repos, d \in Days :
       ~Publishing(r, d) /\ <<r, d>> \notin spoiled =>
         \E head \in {s.head : s \in SetOf(r, d)} :
           SetOf(r, d) \in {{Vacant}, {[head |-> head, state |-> "whole"]}}
  /\ \A l \in DOMAIN ledgers : ledgers[l] # None =>
       \A r \in DOMAIN ledgers[l] : ledgers[l][r].status = "published" =>
         SetOf(r, l[2]) = {[head |-> ledgers[l][r].head, state |-> "whole"]}
-----------------------------------------------------------------------------
(* The invariant of the proof.                                              *)

PhaseNames == {"inspect", "run", "verify"}

Busy(p) == pc[p] \in {"copy", "fill", "rewrite", "undo"}

At(p) == <<Lowest(job[p].left), job[p].day>>

\* The runs that a process has put where it is at, in the order of the phases.
Owned(p) ==
  IF ~Busy(p) THEN {}
  ELSE job[p].published \cup (IF pc[p] = "fill" THEN {NextPhase(job[p])} ELSE {})

\* One process at most puts runs at one place.
Exclusive ==
  \A p, q \in Procs : p # q /\ Busy(p) /\ Busy(q) /\ At(p) = At(q) => Owned(p) = {} \/ Owned(q) = {}

Whole(r, d, head) == \A n \in PhaseNames : runs[<<r, d, n>>] = [head |-> head, state |-> "whole"]

Unowned(r, d) == \A p \in Procs : Busy(p) /\ At(p) = <<r, d>> => Owned(p) = {}

Settled(r, d, head) == Whole(r, d, head) /\ Unowned(r, d)

\* Where no copy was cut off there is what one process put, or a whole set, or nothing.
Clean(r, d) ==
  \/ \A n \in PhaseNames : runs[<<r, d, n>>] = Vacant
  \/ \E head \in {runs[<<r, d, "inspect">>].head} : Settled(r, d, head)
  \/ \E p \in Procs : Busy(p) /\ At(p) = <<r, d>> /\ Owned(p) # {}
       /\ \A n \in PhaseNames \ Owned(p) : runs[<<r, d, n>>] = Vacant

RowsHold(rows, d) ==
  /\ DOMAIN rows \subseteq Repos
  /\ \A r \in DOMAIN rows : rows[r].status = "published" => Settled(r, d, rows[r].head)

InHand(p) ==
  LET j == job[p]
      there(n, state) == runs[Run(j, n)] = [head |-> j.target.head, state |-> state]
  IN  /\ pc[p] \in {"idle", "next", "refresh", "check", "copy", "fill", "rewrite", "undo", "close"}
      /\ pc[p] # "idle" =>
           /\ j.left \subseteq Repos /\ j.day \in Days /\ j.output \in Outputs
           /\ RowsHold(j.rows, j.day)
      /\ pc[p] \notin {"idle", "next"} =>
           /\ j.left # {} /\ DOMAIN j = {"output", "day", "left", "found", "rows", "target",
                                         "before", "made", "published", "status"}
      /\ pc[p] = "refresh" => j.published = {} /\ j.status = "blocked"
      /\ pc[p] = "check" \/ Busy(p) => j.made = PhaseNames /\ j.status = "blocked"
      /\ pc[p] = "check" => j.published = {}
      /\ Busy(p) => j.published \in {{}, {"inspect"}, {"inspect", "run"}, PhaseNames}
      /\ pc[p] = "copy" => \A n \in j.published : there(n, "whole")
      /\ pc[p] = "fill" => j.published # PhaseNames /\ there(NextPhase(j), "partial")
                           /\ \A n \in j.published : there(n, "whole")
      /\ pc[p] = "rewrite" =>
           /\ j.published # {} /\ there(Phases[Cardinality(j.published)], "copied")
           /\ \A n \in j.published : n # Phases[Cardinality(j.published)] => there(n, "whole")
      /\ pc[p] = "undo" => \A n \in j.published : runs[Run(j, n)] # Vacant
      /\ pc[p] = "close" /\ j.status = "published" =>
           Settled(Lowest(j.left), j.day, j.target.head)

PublishingInv ==
  /\ DOMAIN runs = Repos \X Days \X PhaseNames
  /\ DOMAIN pc = Procs /\ DOMAIN job = Procs /\ DOMAIN ledgers = Outputs \X Days
  /\ \A p \in Procs : InHand(p)
  /\ Exclusive
  /\ \A r \in Repos, d \in Days : <<r, d>> \notin spoiled => Clean(r, d)
  /\ \A l \in DOMAIN ledgers : ledgers[l] # None => RowsHold(ledgers[l], l[2])
=============================================================================
