----------------------------- MODULE FleetAudit -----------------------------
(***************************************************************************)
(* qr fleet audit: run examines every repository under a root, takes or    *)
(* makes dynamic evidence that its quality commands pass, and writes a     *)
(* directory of files named by a hash of the arguments; feed replays such  *)
(* a directory and publishes it as the feed other tools read. All audits   *)
(* here ask for dynamic evidence and differ in nothing but --as-of, so the *)
(* day names the directory. Audits and feeds overlap and die.              *)
(***************************************************************************)
EXTENDS FleetTargets

CONSTANTS
  Procs,
  Repos,      \* numbers, in the order of the repositories' identities
  Worlds,     \* what a repository can be, see FleetTargets; None when it is gone
  Days,       \* values of --as-of: numbers
  MaxAge,     \* days that evidence may be reused
  Torn,       \* a file that does not parse
  MaxAudits, MaxMoves, MaxCrashes

VARIABLES
  world,      \* repository -> what it is now
  audits,     \* day -> the files of its directory
  trees,      \* worktrees below the directories: <<day, repository>>
  feed,       \* the published feed, or None
  passes,     \* history: executions in which every command passed
  repeated,   \* history: days whose directory was written a second time
  pc, job,
  spent       \* how many audits, moves and crashes there were

vars == <<world, audits, trees, feed, passes, repeated, pc, job, spent>>

Unreadable == {None, Torn}

Unwritten == [inventory |-> None, summary |-> None, findings |-> [r \in Repos |-> None]]

Go(p, phase, j) == pc' = [pc EXCEPT ![p] = phase] /\ job' = [job EXCEPT ![p] = j]

Done(p) == Go(p, "idle", None)

Init ==
  /\ world \in [Repos -> Worlds]
  /\ audits = [d \in Days |-> Unwritten]
  /\ trees = {} /\ feed = None /\ passes = {} /\ repeated = {}
  /\ pc = [p \in Procs |-> "idle"] /\ job = [p \in Procs |-> None]
  /\ spent = [audits |-> 0, moves |-> 0, crashes |-> 0]

-----------------------------------------------------------------------------
(* fleet_audit_payload: the repositories and their targets are found first, *)
(* then examined one after another.                                         *)

Discover(p, day) ==
  /\ pc[p] = "idle" /\ spent.audits < MaxAudits
  /\ spent' = [spent EXCEPT !.audits = @ + 1]
  /\ LET there == {r \in Repos : world[r] # None}
     IN  Go(p, "examine",
            [day |-> day, left |-> there, done |-> [r \in {} |-> None],
             targets |-> [r \in there |-> Target(world[r])]])
  /\ UNCHANGED <<world, audits, trees, feed, passes, repeated>>

\* The scan is one of the primary checkout as it is now, whatever the target is.
Commands(r) == IF world[r] = None THEN {} ELSE world[r].commands

Good == {"passed", "reused"}

\* Mutant: evidence of the same commands will do.
SameCommands(f, head, commands) == f.commands = commands

\* The head and the signature, which is of head and commands.
SameEvidence(f, head, commands) == f.target.head = head /\ f.commands = commands

\* _find_previous_dynamic: evidence in another directory that is not too old,
\* reused evidence too; its age is that of the audit that reused it.
Reusable(day, r, head, commands) ==
  \E d \in Days \ {day} :
    /\ audits[d].inventory \notin Unreadable
    /\ day - d <= MaxAge
    /\ LET f == audits[d].findings[r]
       IN  f \notin Unreadable /\ f.dynamic \in Good /\ SameEvidence(f, head, commands)

Note(j, r, commands, status) ==
  [day |-> j.day, left |-> j.left \ {r}, targets |-> j.targets,
   done |-> [q \in DOMAIN j.done \cup {r} |->
              IF q = r THEN [target |-> j.targets[r], commands |-> commands, dynamic |-> status]
              ELSE j.done[q]]]

\* dynamic_result up to the worktree. A target that is not ready is no reason
\* not to reuse what was found when it was.
Examine(p) ==
  /\ pc[p] = "examine" /\ job[p].left # {}
  /\ LET j == job[p]
         r == Lowest(j.left)
         t == j.targets[r]
         commands == Commands(r)
         Ends(status) == Go(p, "examine", Note(j, r, commands, status)) /\ UNCHANGED trees
     IN  IF Reusable(j.day, r, t.head, commands) THEN Ends("reused")
         ELSE IF t.status # "ready" THEN Ends("blocked")
         ELSE IF commands = {} THEN Ends("unknown")
         ELSE IF <<j.day, r>> \in trees THEN Ends("blocked")
         ELSE \/ Ends("blocked")             \* git worktree add fails
              \/ /\ trees' = trees \cup {<<j.day, r>>}
                 /\ Go(p, "execute",
                       [day |-> j.day, left |-> j.left \ {r}, targets |-> j.targets,
                        done |-> j.done, repo |-> r, commands |-> commands,
                        before |-> Fingerprint(world[r], t.clone)])
  /\ UNCHANGED <<world, audits, feed, passes, repeated, spent>>

\* _execute_dynamic: dependencies, then the commands, in a worktree of the
\* target; "failed" is also a timeout, a command that is not allowed, and what
\* is not available. A source that changed meanwhile makes a pass worthless.
Execute(p) ==
  /\ pc[p] = "execute"
  /\ LET j == job[p]
         r == j.repo
         same == Fingerprint(world[r], j.targets[r].clone) = j.before
     IN  \E outcome \in {"passed", "failed"} :
           /\ passes' = IF outcome = "failed" THEN passes
                        ELSE passes \cup {[repo |-> r, head |-> j.targets[r].head,
                                           commands |-> j.commands, day |-> j.day]}
           /\ trees' = trees \ {<<j.day, r>>}
           /\ Go(p, "examine", Note(j, r, j.commands, IF same THEN outcome ELSE "blocked"))
  /\ UNCHANGED <<world, audits, feed, repeated, spent>>

-----------------------------------------------------------------------------
(* _write_audit_artifacts: inventory, summary, findings, each in place.     *)

Write(p, day, field, value) ==
  /\ audits' = [audits EXCEPT ![day][field] = value]
  /\ UNCHANGED <<world, trees, feed, passes, spent>>

WriteInventory(p) ==
  /\ pc[p] = "examine" /\ job[p].left = {}
  /\ LET j == job[p]
     IN  /\ Write(p, j.day, "inventory", j.targets)
         /\ repeated' = IF audits[j.day].inventory = None THEN repeated
                        ELSE repeated \cup {j.day}
         /\ Go(p, "summary", j)

WriteSummary(p) ==
  /\ pc[p] = "summary"
  /\ LET j == job[p]
     IN  /\ Write(p, j.day, "summary", j.done)
         /\ Go(p, "findings", [j EXCEPT !.left = DOMAIN j.done])
  /\ UNCHANGED repeated

WriteFinding(p) ==
  /\ pc[p] = "findings" /\ job[p].left # {}
  /\ LET j == job[p]
         r == Lowest(j.left)
     IN  /\ Write(p, j.day, "findings", [audits[j.day].findings EXCEPT ![r] = j.done[r]])
         /\ Go(p, "findings", [j EXCEPT !.left = @ \ {r}])
  /\ UNCHANGED repeated

EndAudit(p) ==
  /\ pc[p] = "findings" /\ job[p].left = {}
  /\ Done(p)
  /\ UNCHANGED <<world, audits, trees, feed, passes, repeated, spent>>

-----------------------------------------------------------------------------
(* fleet_feed_payload                                                       *)

\* fleet_replay_payload: all findings in the directory, whether the inventory
\* names them or not, must add up to the summary.
Findings(a) == [r \in {q \in Repos : a.findings[q] # None} |-> a.findings[r]]

Readable(a) ==
  a.inventory \notin Unreadable /\ a.summary \notin Unreadable /\ \A r \in Repos : a.findings[r] # Torn

\* Mutant: a summary that parses is one that replays.
ReplaysUnread(a) == Readable(a)

Replays(a) == Readable(a) /\ Findings(a) = a.summary

Replay(p, day) ==
  /\ pc[p] = "idle"
  /\ Replays(audits[day])
  /\ Go(p, "build", [day |-> day, read |-> audits[day]])
  /\ UNCHANGED <<world, audits, trees, feed, passes, repeated, spent>>

\* build_maturity_feed reads the files again; the summary has the hash that
\* was replayed, and every repository of the inventory a finding.
Buildable(a, summary) ==
  /\ a.inventory \notin Unreadable
  /\ a.summary = summary
  /\ DOMAIN a.inventory # {}
  /\ Cardinality(DOMAIN a.inventory) = Cardinality(DOMAIN summary)
  /\ \A r \in DOMAIN a.inventory : a.findings[r] \notin Unreadable

Build(p) ==
  /\ pc[p] = "build"
  /\ LET j == job[p]
         a == audits[j.day]
     IN  IF Buildable(a, j.read.summary)
         THEN Go(p, "publish",
                 [day |-> j.day, settled |-> a = j.read, summary |-> a.summary,
                  rows |-> [r \in DOMAIN a.inventory |->
                             [target |-> a.inventory[r], finding |-> a.findings[r]]]])
         ELSE Done(p)
  /\ UNCHANGED <<world, audits, trees, feed, passes, repeated, spent>>

\* publish_maturity_feed replaces the file, whichever day the old one is of.
Publish(p) ==
  /\ pc[p] = "publish"
  /\ feed' = job[p]
  /\ Done(p)
  /\ UNCHANGED <<world, audits, trees, passes, repeated, spent>>

-----------------------------------------------------------------------------
\* The file that a process is about to write, if it is about to write one.
Victim(p) ==
  CASE pc[p] = "examine" /\ job[p].left = {} -> {"inventory"}
    [] pc[p] = "summary" -> {"summary"}
    [] pc[p] = "findings" /\ job[p].left # {} -> {"findings"}
    [] OTHER -> {}

Tear(day, field, left) ==
  [audits EXCEPT ![day][field] =
    IF field = "findings" THEN [@ EXCEPT ![Lowest(left)] = Torn] ELSE Torn]

\* A death leaves the worktree, and perhaps a file half-written.
Crash(p) ==
  /\ pc[p] # "idle" /\ spent.crashes < MaxCrashes
  /\ spent' = [spent EXCEPT !.crashes = @ + 1]
  /\ \/ UNCHANGED <<audits, repeated>>
     \/ \E field \in Victim(p) :
          /\ audits' = Tear(job[p].day, field, job[p].left)
          /\ repeated' = IF audits[job[p].day].inventory = None THEN repeated
                         ELSE repeated \cup {job[p].day}
  /\ Done(p)
  /\ UNCHANGED <<world, trees, feed, passes>>

Move(r) ==
  /\ spent.moves < MaxMoves
  /\ spent' = [spent EXCEPT !.moves = @ + 1]
  /\ \E w \in Worlds \ {world[r]} : world' = [world EXCEPT ![r] = w]
  /\ UNCHANGED <<audits, trees, feed, passes, repeated, pc, job>>

Step(p) ==
  \/ Examine(p) \/ Execute(p) \/ WriteInventory(p) \/ WriteSummary(p) \/ WriteFinding(p)
  \/ EndAudit(p) \/ Build(p) \/ Publish(p)

Next ==
  \/ \E p \in Procs :
       \/ Step(p) \/ Crash(p)
       \/ \E d \in Days : Discover(p, d) \/ Replay(p, d)
  \/ \E r \in Repos : Move(r)

Spec == Init /\ [][Next]_vars

-----------------------------------------------------------------------------
Earned(f, r, head) ==
  f.dynamic \in Good =>
    \E e \in passes : e.repo = r /\ e.head = head /\ e.commands = f.commands

(* What the feed shows is earned: unless the directory was rewritten while   *)
(* it was read, its rows are the findings its totals were computed from; and *)
(* when the directory was written once, a row with dynamic evidence is of a  *)
(* commit at which exactly these commands did pass, whoever ran them.        *)
FeedIsEarned ==
  feed # None =>
    /\ feed.settled => \A r \in DOMAIN feed.rows : feed.rows[r].finding = feed.summary[r]
    /\ feed.day \notin repeated =>
         \A r \in DOMAIN feed.rows : Earned(feed.rows[r].finding, r, feed.rows[r].target.head)

(* "passing dynamic evidence is within its configured expiry": what an audit *)
(* reuses passed no longer ago than MaxAge.                                  *)
ReusedEvidenceIsFresh ==
  \A d \in Days, r \in Repos :
    LET f == audits[d].findings[r]
    IN  f \notin Unreadable /\ f.dynamic = "reused" =>
          \E e \in passes : e.repo = r /\ e.head = f.target.head /\ d - e.day <= MaxAge
-----------------------------------------------------------------------------
(* The invariant of the proof.                                              *)

\* A finding of a repository was earned; its target is its own.
FindingHolds(f, r) == f \notin Unreadable => Earned(f, r, f.target.head)

TargetsFit(targets) == DOMAIN targets \subseteq Repos /\ targets \notin Unreadable

DoneFits(j) ==
  /\ DOMAIN j.done \subseteq DOMAIN j.targets
  /\ \A r \in DOMAIN j.done : j.done[r].target = j.targets[r] /\ FindingHolds(j.done[r], r)

\* Only one process has written to a directory that is not repeated, and all it
\* wrote is of its own targets.
OfInventory(d) ==
  audits[d].inventory # None /\ d \notin repeated =>
    \A r \in Repos : audits[d].findings[r] \notin Unreadable =>
      /\ audits[d].inventory \notin Unreadable /\ r \in DOMAIN audits[d].inventory
      /\ audits[d].findings[r].target = audits[d].inventory[r]

RowsEarned(j) ==
  /\ j.settled => \A r \in DOMAIN j.rows : j.rows[r].finding = j.summary[r]
  /\ j.day \notin repeated =>
       \A r \in DOMAIN j.rows : Earned(j.rows[r].finding, r, j.rows[r].target.head)

InHand(p) ==
  LET j == job[p]
  IN  /\ pc[p] \in {"idle", "examine", "execute", "summary", "findings", "build", "publish"}
      /\ pc[p] # "idle" => j.day \in Days
      /\ pc[p] \in {"examine", "execute", "summary", "findings"} =>
           TargetsFit(j.targets) /\ DoneFits(j) /\ j.left \subseteq DOMAIN j.targets
      /\ pc[p] \in {"examine", "summary", "findings"} =>
           DOMAIN j = {"day", "left", "targets", "done"}
      /\ pc[p] = "examine" => DOMAIN j.done = DOMAIN j.targets \ j.left
      /\ pc[p] = "execute" =>
           /\ j.repo \in DOMAIN j.targets \ j.left
           /\ DOMAIN j.done = DOMAIN j.targets \ (j.left \cup {j.repo})
      /\ pc[p] \in {"summary", "findings"} =>
           /\ DOMAIN j.done = DOMAIN j.targets
           /\ audits[j.day].inventory # None
           /\ j.day \notin repeated => audits[j.day].inventory = j.targets
      /\ pc[p] = "build" => Replays(j.read)
      /\ pc[p] = "publish" => RowsEarned(j)

AuditsFit ==
  /\ DOMAIN audits = Days
  /\ \A d \in Days :
       /\ DOMAIN audits[d] = {"inventory", "summary", "findings"}
       /\ DOMAIN audits[d].findings = Repos
       /\ \A r \in Repos : FindingHolds(audits[d].findings[r], r)
       /\ audits[d].inventory = None => \A r \in Repos : audits[d].findings[r] = None
       /\ audits[d].inventory \in Unreadable \/ DOMAIN audits[d].inventory \subseteq Repos
       /\ OfInventory(d)

FeedInv ==
  /\ world \in [Repos -> Worlds]
  /\ AuditsFit
  /\ DOMAIN pc = Procs /\ DOMAIN job = Procs
  /\ \A p \in Procs : InHand(p)
  /\ feed # None => RowsEarned(feed)
=============================================================================
