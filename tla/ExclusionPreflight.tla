-------------------------- MODULE ExclusionPreflight --------------------------
(***************************************************************************)
(* Scan exclusions: `exclusions suggest` packs the directories worth       *)
(* leaving out, a reviewer decides about each, `validate` and `apply`      *)
(* check the report against the packet and the repository as it is, and    *)
(* apply rewrites .quality-runner.toml, which anyone may edit meanwhile.   *)
(* Audits then read what the configuration and their own overlay leave.    *)
(***************************************************************************)
EXTENDS ScanScope

CONSTANTS
  Processes,
  Marked,       \* directories whose name suggests generated or tool output
  Heavy,        \* directories with many text files, or without a tracked one
  Protected,    \* names such as src, security or config
  Reports,      \* [decisions, scope, acknowledged] a reviewer may write
  UserConfigs,  \* configurations a user may write
  Requests,     \* [all, by, included] an audit may be asked for
  MaxEdits, MaxCommits,
  None

VARIABLES
  config,   \* .quality-runner.toml: [kind, all, by]
  commit,   \* HEAD, branch and whether tracked files are changed
  packet,   \* the packet under review, or None
  job,      \* process -> what its apply works with, or None
  latest,   \* what the latest apply or audit did, or None
  edits     \* edits of the configuration by hand so far

vars == <<config, commit, packet, job, latest, edits>>

Nowhere == [m \in Modules |-> {}]

\* "section" has the section and says what all and by name; "absent" and "empty"
\* are no file and one without content; "other" has content but no [quality_runner] section, "multiline" a list of
\* exclusions over several lines, "invalid" is no TOML.
NoSection(kind) == [kind |-> kind, all |-> {}, by |-> Nowhere]

Init ==
  /\ config = NoSection("absent")
  /\ commit = 0
  /\ packet = None
  /\ job = [p \in Processes |-> None]
  /\ latest = None
  /\ edits = 0

-----------------------------------------------------------------------------
(* The packet.                                                             *)

ProtectedPath(d) == Above[d] \cap Protected # {}

\* Worth a decision: a telling name, or weight without protection; nothing
\* that structural scans leave out already, and nothing inside another one.
Candidates ==
  LET excluded == Effective(config, "structural")
      potential == {d \in Marked \cup {e \in Heavy : ~ProtectedPath(e)} :
                      ~Matches(d, excluded \cup Always)}
  IN  {d \in potential : Above[d] \cap potential = {d}}

Fingerprint == [commit |-> commit, config |-> config]

Suggest ==
  /\ packet' = [candidates |-> Candidates, fingerprint |-> Fingerprint]
  /\ UNCHANGED <<config, commit, job, latest, edits>>

-----------------------------------------------------------------------------
(* The report.                                                             *)

Excluded(report) == {d \in DOMAIN report.decisions : report.decisions[d].decision = "exclude"}

\* What a report takes out of the scans of a module, or of all modules.
Approved(report, scope) == {d \in Excluded(report) : report.decisions[d].module = scope}

ReducesSecurity(report) == Approved(report, All) \cup Approved(report, "security") # {}

UsesModules(report) == \E m \in Modules : Approved(report, m) # {}

\* Mutant: the repository may have changed since the packet.
AcceptsStale(report) ==
  /\ DOMAIN report.decisions = packet.candidates
  /\ \A d \in Excluded(report) : ~ProtectedPath(d) /\ report.decisions[d].confidence # "low"
  /\ report.scope = IF UsesModules(report) THEN "module-scoped" ELSE All
  /\ ReducesSecurity(report) => report.acknowledged

\* Every candidate of a packet that still describes the repository is decided,
\* and nothing protected or doubtful is taken out.
Accepts(report) ==
  /\ packet.fingerprint = Fingerprint
  /\ DOMAIN report.decisions = packet.candidates
  /\ \A d \in Excluded(report) : ~ProtectedPath(d) /\ report.decisions[d].confidence # "low"
  /\ report.scope = IF UsesModules(report) THEN "module-scoped" ELSE All
  /\ ReducesSecurity(report) => report.acknowledged

-----------------------------------------------------------------------------
(* Applying it: the configuration is read again, and written in place.     *)

Merged(before, report) ==
  [kind |-> "section",
   all  |-> before.all \cup Approved(report, All),
   by   |-> [m \in Modules |-> before.by[m] \cup Approved(report, m)]]

\* A file without the section is appended to, for all modules only; one that
\* stays empty is not written.
Rewritten(before, report) ==
  LET merged == Merged(before, report)
  IN  IF before.kind = "other" THEN [merged EXCEPT !.by = before.by]
      ELSE IF before.kind \in {"absent", "empty"} /\ Excluded(report) = {} THEN before
      ELSE merged

Check(p) ==
  /\ job[p] = None
  /\ packet # None
  /\ \E report \in Reports :
       /\ Accepts(report)
       /\ job' = [job EXCEPT ![p] = [step |-> "checked", packet |-> packet, report |-> report,
                                     before |-> None, disturbed |-> FALSE]]
  /\ UNCHANGED <<config, commit, packet, latest, edits>>

ReadConfig(p) ==
  /\ job[p] # None /\ job[p].step = "checked"
  /\ job' = [job EXCEPT ![p] = IF config.kind \in {"multiline", "invalid"} THEN None
                               ELSE [@ EXCEPT !.step = "read", !.before = config]]
  /\ UNCHANGED <<config, commit, packet, latest, edits>>

\* Whoever writes the file disturbs the applies that rest on its content.
Disturb(jobs) == [p \in Processes |-> IF jobs[p] = None THEN None
                                      ELSE [jobs[p] EXCEPT !.disturbed = TRUE]]

Finished(p) == [kind |-> "apply", report |-> job[p].report, packet |-> job[p].packet, before |-> job[p].before,
                after |-> Rewritten(job[p].before, job[p].report), disturbed |-> job[p].disturbed]

\* Opening the file for writing empties it.
Empty(p) ==
  /\ job[p] # None /\ job[p].step = "read"
  /\ IF Rewritten(job[p].before, job[p].report) = job[p].before
     THEN /\ latest' = Finished(p)
          /\ job' = [job EXCEPT ![p] = None]
          /\ UNCHANGED config
     ELSE /\ config' = NoSection("empty")
          /\ job' = [Disturb(job) EXCEPT ![p] = [job[p] EXCEPT !.step = "emptied"]]
          /\ UNCHANGED latest
  /\ UNCHANGED <<commit, packet, edits>>

Write(p) ==
  /\ job[p] # None /\ job[p].step = "emptied"
  /\ config' = Rewritten(job[p].before, job[p].report)
  /\ latest' = Finished(p)
  /\ job' = [Disturb(job) EXCEPT ![p] = None]
  /\ UNCHANGED <<commit, packet, edits>>

Die(p) ==
  /\ job[p] # None
  /\ job' = [job EXCEPT ![p] = None]
  /\ UNCHANGED <<config, commit, packet, latest, edits>>

-----------------------------------------------------------------------------
(* An audit.                                                               *)

WithOverlay(request) ==
  [config EXCEPT !.all = @ \cup request.all,
                 !.by = [m \in Modules |-> @[m] \cup request.by[m]]]

AcceptsOverlay(request) ==
  \A d \in request.all \cup UNION {request.by[m] : m \in Modules} : ~ProtectedPath(d)

HasOverlay(request) == request.all # {} \/ request.by # Nowhere

\* Mutant: both scans read the files of the code quality scan.
OneScope(effective, request) ==
  [m \in {"code_quality", "security"} |->
     TextScope(Effective(effective, "code_quality"), request.included)]

\* Only an overlay gives the two scans a scope of their own; an audit without
\* one walks once, by the exclusions for all modules.
Scopes(effective, request) ==
  [m \in {"code_quality", "security"} |->
     TextScope(Effective(effective, IF HasOverlay(request) THEN m ELSE All), request.included)]

\* What each scan of an audit read, and what it says it left out.
Audited(request) ==
  LET effective == WithOverlay(request)
      scopes == Scopes(effective, request)
  IN  [kind |-> "audit",
       request |-> request,
       effective |-> effective,
       read |-> [m \in Modules |-> IF m = "structural" THEN Discovered(Effective(effective, m))
                                   ELSE scopes[m].read],
       coverage |-> [m \in Modules |-> IF m = "structural" THEN "complete"
                                       ELSE scopes[m].coverage],
       scan_exclusions |-> [m \in Modules |-> IF m = "code_quality" THEN scopes[m].patterns
                                              ELSE Effective(effective, m)]]

Audit ==
  /\ \E request \in Requests : AcceptsOverlay(request) /\ latest' = Audited(request)
  /\ UNCHANGED <<config, commit, packet, job, edits>>

-----------------------------------------------------------------------------
(* The repository.                                                         *)

Edit ==
  /\ edits < MaxEdits
  /\ \E c \in UserConfigs : c # config /\ config' = c
  /\ edits' = edits + 1
  /\ job' = Disturb(job)
  /\ UNCHANGED <<commit, packet, latest>>

Commit ==
  /\ commit < MaxCommits
  /\ commit' = commit + 1
  /\ UNCHANGED <<config, packet, job, latest, edits>>

Next ==
  \/ Suggest \/ Audit \/ Edit \/ Commit
  \/ \E p \in Processes : Check(p) \/ ReadConfig(p) \/ Empty(p) \/ Write(p) \/ Die(p)

Spec == Init /\ [][Next]_vars

-----------------------------------------------------------------------------
LeftOut(c, module) == {d \in Dirs : Matches(d, Effective(c, module))}

\* An apply takes out of the scans of a module exactly what the reviewer of the
\* packet took out of them, whatever happened between packet and validation,
\* and from the security scan only with the reviewer's acknowledgement; what
\* was left out when the packet was made stays so.  It does not hold of an
\* apply whose configuration others wrote after the validation, nor where the
\* file has no section (`Rewritten`).
AppliedAsApproved ==
  latest # None /\ latest.kind = "apply" /\ ~latest.disturbed /\ latest.before.kind # "other" =>
    \A m \in Modules :
      LET approved == Approved(latest.report, All) \cup Approved(latest.report, m)
          was == latest.packet.fingerprint.config
      IN  /\ LeftOut(latest.after, m) =
               LeftOut(was, m) \cup {d \in Dirs : Matches(d, approved)}
          /\ m = "security" /\ approved # {} => latest.report.acknowledged

\* What a scan does not read is covered by the exclusions it states, or by the
\* names no scan enters, or the scan calls itself partial: two scans that walk
\* by different exclusions do not speak for each other.
LeftOutIsReported ==
  latest # None /\ latest.kind = "audit" =>
    \A m \in Modules : \A d \in Dirs \ latest.read[m] :
      \/ Matches(d, latest.scan_exclusions[m] \cup Always \cup Ignored \cup Generated)
      \/ latest.coverage[m] = "partial"
-----------------------------------------------------------------------------
(* The invariant of the proof: an apply that nobody has disturbed works on   *)
(* the configuration its packet was made of.                                *)
ApplyFits(x) ==
  /\ DOMAIN x = {"step", "packet", "report", "before", "disturbed"}
  /\ x.step \in {"checked", "read", "emptied"}
  /\ ReducesSecurity(x.report) => x.report.acknowledged
  /\ ~x.disturbed =>
       x.packet.fingerprint.config = (IF x.step = "checked" THEN config ELSE x.before)

ExclusionsInv ==
  /\ DOMAIN job = Processes
  /\ \A p \in Processes : job[p] # None => ApplyFits(job[p])
  /\ AppliedAsApproved /\ LeftOutIsReported
===============================================================================
