---------------------------- MODULE CodexEvidence ----------------------------
(***************************************************************************)
(* Evidence of an outside security review: reports are imported as         *)
(* snapshots, two snapshots are compared by the aliases of their findings, *)
(* and a comparison is exported as a handoff.  Every command reads files,  *)
(* which others may have edited, and writes one in place.                  *)
(***************************************************************************)
EXTENDS Naturals, FiniteSets

CONSTANTS
  Flaws,        \* what may be wrong in the reviewed code
  Paths,
  PathOf,       \* flaw -> the file it is in at first
  RuleOf,       \* flaw -> the rule that reports it
  Editions,     \* slot -> ways its reviewer may word summaries and number findings
  TextOf,       \* <<flaw, edition, file>> -> what rule, summary and file hash to
  Styles,       \* how a report names findings: "sarif", "ids", "bare"
  MaxChanges,
  None, Torn

VARIABLES
  code,         \* flaw -> the file it is in, or None
  disk,         \* file -> None, Torn or a document
  changes       \* changes of the code and of documents so far

vars == <<code, disk, changes>>

Slots == {"baseline", "current"}

-----------------------------------------------------------------------------
(* Import: what is found, under which aliases, and what was covered.       *)

\* Aliases in the order of their texts; a SARIF result has its rule for an id.
Fingerprint(f) == <<1, f>>
Provider(id) == <<2, id>>
Semantic(f, edition, path) == <<3, TextOf[<<f, edition, path>>]>>

Before(a, b) == a[1] < b[1] \/ (a[1] = b[1] /\ a[2] < b[2])

\* Of what a report says of a flaw only a fingerprint and the rule are the same
\* in every report; an id is given anew, a summary is worded anew.
Aliases(f, path, style, edition) ==
  CASE style = "sarif" -> {Fingerprint(f), Provider(RuleOf[f]), Semantic(f, edition, path)}
    [] style = "ids" -> {Provider(100 * edition + f), Semantic(f, edition, path)}
    [] OTHER -> {Semantic(f, edition, path)}

\* The match key is the first alias; the flaw itself no finding tells.
Finding(f, path, style, edition) ==
  LET aliases == Aliases(f, path, style, edition)
  IN  [flaw |-> f, aliases |-> aliases, path |-> path,
       key |-> CHOOSE a \in aliases : \A b \in aliases \ {a} : Before(a, b)]

\* What a report finds in some files.
Findings(paths, style, edition) ==
  {Finding(f, code[f], style, edition) : f \in {g \in Flaws : code[g] \in paths}}

Duplicated(findings) == \E x, y \in findings : x # y /\ x.key = y.key

Claim(status, scope, scanned, expected, of) ==
  [status |-> status, scope |-> scope, scanned |-> scanned, expected |-> expected, of |-> of]

\* What a truthful report may say of a scan of some paths, as a follow-up of
\* some evidence or not.
Claims(paths, of) ==
  {Claim("partial", "repository", paths, Paths, of), Claim("unknown", "changed", paths, paths, of)}
  \cup (IF paths # Paths THEN {}
        ELSE {Claim("complete", "repository", {}, {}, of), Claim("complete", "unknown", {}, {}, of)})

Coverage(claim) ==
  [complete |-> claim.status = "complete"
                \/ (claim.scanned # {} /\ claim.scanned = claim.expected),
   scope |-> claim.scope, scanned |-> claim.scanned, of |-> claim.of]

Evidence(id, findings, coverage, seen) ==
  [id |-> id, findings |-> findings, coverage |-> coverage, seen |-> seen]

-----------------------------------------------------------------------------
(* Compare.                                                                *)

First(findings) == CHOOSE x \in findings : \A y \in findings \ {x} : Before(x.key, y.key)

Last(findings) == CHOOSE x \in findings : \A y \in findings \ {x} : Before(y.key, x.key)

Shares(x, y) == x.aliases \cap y.aliases # {}

\* Each finding of the baseline takes the first that is left and shares an alias.
Pairs(baseline, current) ==
  LET take(taken, x) ==
        LET left == {y \in current : Shares(x, y) /\ \A p \in taken : p[2] # y}
        IN  IF left = {} THEN taken ELSE taken \cup {<<x, First(left)>>}
      pairs[some \in SUBSET baseline] ==
        IF some = {} THEN {} ELSE take(pairs[some \ {Last(some)}], Last(some))
  IN  pairs[baseline]

\* Mutant: what the scan reached does not matter.
CoversByStatus(baseline, current, gone) == current.coverage.complete

\* Whether what disappeared was looked for: in the whole repository, or in its
\* file, and as a follow-up of nothing else than this baseline.
Covers(baseline, current, gone) ==
  LET cover == current.coverage
  IN  /\ cover.complete
      /\ gone # {} =>
           /\ cover.of \in {None, baseline.id}
           /\ \/ cover.scope = "repository"
              \/ cover.scanned = {} /\ cover.scope = "unknown"
              \/ cover.scanned # {} /\ \A x \in gone : x.path \in cover.scanned

Comparison(baseline, current) ==
  LET pairs == Pairs(baseline.findings, current.findings)
      gone == baseline.findings \ {p[1] : p \in pairs}
      new == current.findings \ {p[2] : p \in pairs}
      covered == Covers(baseline, current, gone)
      lost == IF covered THEN "resolved" ELSE "unknown"
  IN  [matches |-> {[status |-> "present", finding |-> p[1]] : p \in pairs}
                   \cup {[status |-> "new", finding |-> x] : x \in new}
                   \cup {[status |-> lost, finding |-> x] : x \in gone},
       covered |-> covered]

\* A comparison holds both snapshots and a hash of everything else in it.
Compared(baseline, current) ==
  LET result == Comparison(baseline, current)
  IN  [baseline |-> baseline, current |-> current, result |-> result, hashed |-> result]

ValidComparison(c) == c.hashed = c.result /\ c.result = Comparison(c.baseline, c.current)

-----------------------------------------------------------------------------
(* Export.                                                                 *)

Statuses(matches) == {x.status : x \in matches}

HandoffStatus(result) ==
  IF ~result.covered \/ "unknown" \in Statuses(result.matches) THEN "unknown"
  ELSE IF Statuses(result.matches) \cap {"new", "present"} # {} THEN "review-required"
  ELSE "clean"

Handoff(c) == [status |-> HandoffStatus(c.result), comparison |-> c]

-----------------------------------------------------------------------------
(* The commands.                                                           *)

Init ==
  /\ code = PathOf
  /\ disk = [s \in Slots \cup {"comparison", "handoff"} |-> None]
  /\ changes = 0

\* A command that dies while it writes leaves a file that is no document.  The
\* bound: every file is written once.
Command(file, document) ==
  /\ disk[file] = None
  /\ \E written \in {document, Torn} : disk' = [disk EXCEPT ![file] = written]
  /\ UNCHANGED <<code, changes>>

Readable(file) == disk[file] \notin {None, Torn}

\* A report on some paths of the code as it is, written by the reviewer.
Import(slot) ==
  \E paths \in SUBSET Paths \ {{}}, style \in Styles, edition \in Editions[slot] :
    LET findings == Findings(paths, style, edition)
        known == IF slot = "current" THEN {None, "baseline", "another"} ELSE {None}
    IN  /\ ~Duplicated(findings)
        /\ \E of \in known : \E claim \in Claims(paths, of) :
             Command(slot, Evidence(slot, findings, Coverage(claim),
                                    [paths |-> paths, code |-> code]))

\* A coverage handed in beside the report replaces the report's; it is handed
\* in where the report's is not complete.
WithFollowUp(evidence, claim) == [evidence EXCEPT !.coverage = Coverage(claim)]

Compare ==
  /\ Readable("baseline") /\ Readable("current")
  /\ LET baseline == disk["baseline"]
         current == disk["current"]
         followUps == UNION {Claims(current.seen.paths, of) : of \in {None, baseline.id}}
     IN  \/ Command("comparison", Compared(baseline, current))
         \/ /\ ~current.coverage.complete
            /\ \E claim \in followUps :
                 Command("comparison", Compared(baseline, WithFollowUp(current, claim)))

Export ==
  /\ Readable("comparison")
  /\ ValidComparison(disk["comparison"])
  /\ Command("handoff", Handoff(disk["comparison"]))

\* Somebody turns what is open in a comparison into something resolved, and
\* may know how to seal it.
Edit ==
  /\ Readable("comparison")
  /\ changes < MaxChanges
  /\ changes' = changes + 1
  /\ LET c == disk["comparison"]
         edited == [matches |-> {[x EXCEPT !.status = "resolved"] : x \in c.result.matches},
                    covered |-> TRUE]
     IN  \E hash \in {edited, c.hashed} :
           disk' = [disk EXCEPT !["comparison"] = [c EXCEPT !.result = edited, !.hashed = hash]]
  /\ UNCHANGED code

\* A flaw is mended, comes back, or moves with its file.
Change ==
  /\ changes < MaxChanges
  /\ changes' = changes + 1
  /\ \E f \in Flaws, place \in Paths \cup {None} :
       place # code[f] /\ code' = [code EXCEPT ![f] = place]
  /\ UNCHANGED disk

Next == (\E s \in Slots : Import(s)) \/ Compare \/ Export \/ Edit \/ Change

Spec == Init /\ [][Next]_vars

-----------------------------------------------------------------------------
\* No two flaws go by one alias, as two results of one SARIF rule do.
Distinct(findings) == \A x, y \in findings : x.flaw # y.flaw => ~Shares(x, y)

\* Each flaw that both reports name in one file they name by a common alias.
Recognized(baseline, current) ==
  \A x \in baseline.findings, y \in current.findings :
    x.flaw = y.flaw /\ x.path = y.path => Shares(x, y)

\* A coverage that says the whole repository was scanned.
Everywhere(coverage) ==
  coverage.complete /\ (coverage.scope = "repository" \/ coverage.scanned = {})

(* A handoff that calls a finding resolved is about code without that flaw  *)
(* in that file, and a clean one about code without any known flaw where it *)
(* was known, as long as every alias stands for one flaw and no flaw that   *)
(* stayed where it was goes by other aliases; if the coverage says that     *)
(* everything was scanned, a clean one is about code without any flaw,      *)
(* whatever the reports call them.                                          *)
ResolvedIsGone ==
  Readable("handoff") =>
    LET c == disk["handoff"].comparison
        known == c.baseline.findings \cup c.current.findings
        now == c.current.seen.code
        clean == disk["handoff"].status = "clean"
    IN  /\ Distinct(known) /\ Recognized(c.baseline, c.current) =>
             /\ \A x \in c.result.matches :
                  x.status = "resolved" => now[x.finding.flaw] # x.finding.path
             /\ clean => \A x \in known : now[x.flaw] # x.path
        /\ clean /\ Everywhere(c.current.coverage) => \A f \in Flaws : now[f] = None
===============================================================================
