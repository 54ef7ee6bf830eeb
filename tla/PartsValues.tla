----------------------------- MODULE PartsValues -----------------------------
(* Values of the parts that have no values module of their own.              *)
EXTENDS Naturals, Sequences, TLC

CONSTANTS None, Plain

\* QualitySkills: two packs of the corpus, one of a repository's own, and two
\* candidates, of which one comes out unreadable.
Rule(id, kind, bad, unless, broken, paths) ==
  [id |-> <<id>>, kind |-> kind, bad |-> bad, unless |-> unless, broken |-> broken, paths |-> paths]

Pack(rules, reviews, garbled) ==
  [rules |-> rules, reviews |-> {[id |-> <<x>>] : x \in reviews}, sources |-> {},
   garbled |-> garbled]

SkillText == ("f" :> {"x", "y"}) @@ ("g" :> {"x"})

SkillCandidates ==
  "c" :> Pack({Rule("r", "unless", {"x"}, {"y"}, {}, {"f", "g"})}, {"v"}, FALSE)
  @@ "u" :> Pack({}, {"w"}, TRUE)
  @@ "d" :> Pack({Rule("r", "pattern", {"x"}, {}, {"x"}, {"f"})}, {}, FALSE)

SkillOwn ==
  "o" :> Pack({Rule("i", "import", {"x", "y"}, {"y"}, {}, {"f"}),
               Rule("j", "pattern", {"x", "y"}, {}, {"x"}, {"g"})}, {}, FALSE)

SkillCorpus ==
  [active |-> {"u"},
   packs |-> "u" :> Pack({Rule("p", "pattern", {"y"}, {}, {}, {"f", "g"})}, {"q"}, FALSE)
             @@ "k" :> Pack({Rule("p", "pattern", {"x"}, {}, {}, {"g"})}, {}, FALSE)]

SkillSections ==
  {[enabled |-> "on", global |-> TRUE, active |-> {"o"}, local |-> "o" :> {"f"}, mode |-> "off",
    exclude |-> {}, always |-> {"k"}],
   [enabled |-> None, global |-> TRUE, active |-> None, local |-> <<>>, mode |-> None,
    exclude |-> {}, always |-> {}]}

\* One pack at most is taken from the corpus.
SkillGlobals ==
  {[active |-> {}, minimum |-> 15, limit |-> 1, exclude |-> {}, always |-> {},
    mode |-> "relevant"]}

SkillScore == "u" :> 20 @@ "k" :> 10

\* SecurityScan: a route that comes and goes, a file of examples that handles
\* webhooks, a manifest.
SecurityText(lines, assignments, fallbacks) ==
  [lines |-> lines, assignments |-> assignments, fallbacks |-> fallbacks]

SecurityFiles == <<"route", "hook", "manifest">>

SecurityTraits ==
  "route" :> {"api", "auth", "markup"} @@ "hook" :> {"example"}
  @@ "manifest" :> {"manifest", "root-manifest"}

SecurityTexts ==
  "route" :> {None, SecurityText(<<{"raw", "costly"}>>, {}, {}),
              SecurityText(<<{"redirect", "costly"}, {"auth"}>>, {}, {})}
  @@ "hook" :> {SecurityText(<<{"costly", "log", "credential", "secret"}, {"assignment", "key"},
                               {"webhook"}>>, {<<2, 3>>}, {}),
                SecurityText(<<{"assignment", "public-env"}, {"sink", "weak-sink"}, {"fallback"},
                               {"webhook", "signature"}>>, {<<2, 3>>}, {<<3, 3>>, <<4, 4>>})}
  @@ "manifest" :> {SecurityText(<<{"weak-sink"}>>, {}, {})}

SecurityPolicy(enabled, baseline, required, disabled, minimum, release) ==
  [enabled |-> enabled, gates |-> TRUE, baseline |-> baseline, required |-> required,
   disabled |-> disabled, minimum |-> minimum, release |-> release]

SecurityPolicies ==
  {SecurityPolicy(TRUE, TRUE, {}, {}, "medium", TRUE),
   SecurityPolicy(TRUE, FALSE, {"static_analysis"}, {"secrets"}, "high", FALSE),
   SecurityPolicy(FALSE, TRUE, {}, {}, "medium", FALSE)}

SecurityOffers ==
  {[commands |-> {"secrets_scan"}, scripts |-> {}, configured |-> {}, ciOnly |-> {"secrets_scan"},
    manifest |-> TRUE, client |-> TRUE]}

\* BugLearning: one candidate, seen right or wrong, at two stages.
Step(to, at) == [to |-> to, at |-> at]

BugTrail == <<Step("repository-regression", 1), Step("reusable-candidate", 1),
              Step("quality-runner-advisory", 2), Step("fleet-observation", 2),
              Step("required-gate", 3)>>

Sighting(id, at, class, result) ==
  [id |-> id, at |-> at, class |-> class, result |-> result, cost |-> 1, reference |-> "run"]

RightSighting == Sighting("o", 1, "true-positive", "detected")

BugRegistry(stage, says, seen) ==
  [regressions |-> {"bug"}, tested |-> {"bug"},
   candidates |-> <<[id |-> "c", says |-> says, whole |-> TRUE, status |-> BugTrail[stage].to,
                     trail |-> SubSeq(BugTrail, 1, stage), disposed |-> None,
                     linked |-> stage = 5, origins |-> {"bug"}, seen |-> seen]>>]

\* The second repository's sighting is reclassified, comes and goes.
BugRegistries ==
  <<{BugRegistry(4, 1, {RightSighting}), BugRegistry(5, 1, {}), BugRegistry(5, 2, {})},
    {None, BugRegistry(4, 1, {RightSighting}),
     BugRegistry(4, 1, {Sighting("o", 1, "true-negative", "not-detected")}),
     BugRegistry(4, 1, {RightSighting, Sighting("p", 1, "false-positive", "detected")}),
     BugRegistry(4, 1, {[RightSighting EXCEPT !.result = "blocked"]})}>>

\* ReviewLoop: a source with or without a flaw; the manifest, a file with a
\* name that git quotes and an ignored one are never committed.
LoopTrees(absent) ==
  {"a" :> content @@ "p" :> absent @@ "q" :> absent @@ "i" :> absent : content \in {"good", "bad"}}

LoopNames == "a" :> "a" @@ "p" :> "p" @@ "i" :> "i" @@ "q" :> "q, quoted"

\* CodexEvidence: every wording of a flaw in a file is a text of its own.
EvidenceTexts ==
  [x \in {1, 2} \X {1, 2} \X {"a", "b"} |-> 4 * x[1] + 2 * x[2] + (IF x[3] = "a" THEN 0 ELSE 1)]

\* Delivery: a file with another flaw keeps the id of its slice; a file that
\* git does not show, or its failure, leaves the key of the clean tree. A is a
\* part of AA.
DeliverySources == {{<<"A", "x">>, <<"B", "x">>}, {<<"A", "y">>}, {<<"A", "x">>}}

DeliveryKeys == [s \in DeliverySources |-> IF s = {<<"A", "y">>} THEN {1, 2} ELSE {1}]

NamesWithin == "A" :> {"AA"} @@ "B" :> {}

NativePlans == {[ids |-> {}, paths |-> {"A"}], [ids |-> {"AA"}, paths |-> {"B"}]}

\* PhaseClosure: a scoped phase, one over everything, one that is refused and
\* one with an excluded path, a rule and a trigger. Candidates of a file, one
\* that shows beside another file only, and structural flaws, one of which does not.
Showing(file, others) == {scan \in SUBSET {"A", "B"} : file \in scan /\ others \subseteq scan}

ClosureFlaw(kind, file, rule, text, scans) ==
  [kind |-> kind, file |-> file, rule |-> rule, text |-> text, scans |-> scans]

InA(text) == ClosureFlaw("candidate", "A", "x", text, Showing("A", {}))

InB == ClosureFlaw("candidate", "B", "y", 1, Showing("B", {"A"}))

Unwired == ClosureFlaw("structural", "A", "x", 1, {{"A"}})

Complex == ClosureFlaw("structural", "A", "x", 2, Showing("A", {}))

ClosureSources == {{InA(1), InB, Unwired, Complex}, {InA(2)}}

Phase(tier, include, exclude, rules, accepted, owned, triggers) ==
  [tier |-> tier, include |-> include, exclude |-> exclude, rules |-> rules,
   accepted |-> accepted, owned |-> owned, triggers |-> triggers]

ClosurePhases ==
  {Phase("phase", {"A"}, {}, {}, {InA(1)}, {InA(1), InA(2)}, FALSE),
   Phase("repo", {}, {}, {}, {InB}, {InA(1), InB}, FALSE),
   Phase("phase", {}, {}, {}, {}, {}, TRUE),
   Phase("repo", {"A", "B"}, {"B"}, {"x"}, {}, {InA(1), InA(2)}, TRUE)}

\* Rollout: sound runs with gates and without, an advisory failure with
\* findings, a failure, a timeout.
Verdict(gates, status, timeout, audit, missing) ==
  [gates |-> gates, status |-> status, timeout |-> timeout, audit |-> audit, missing |-> missing]

Verdicts(none) ==
  {Verdict({"passed"}, "passed", FALSE, "clean", FALSE),
   Verdict({"passed", "failed"}, "passed", FALSE, "findings", TRUE),
   Verdict({"failed", "setup"}, "failed", FALSE, "clean", FALSE),
   Verdict({}, "blocked", TRUE, none, FALSE), Verdict({}, none, FALSE, "clean", FALSE)}

WorkerClaim(status, commit, pushed, note, scope, files) ==
  [status |-> status, commit |-> commit, pushed |-> pushed, note |-> note, scope |-> scope,
   files |-> files, blockers |-> {}]

WorkerClaims(none) ==
  {WorkerClaim("complete", TRUE, TRUE, FALSE, none, {"a"}),
   WorkerClaim(none, TRUE, TRUE, TRUE, {"a"}, {"a"}),
   WorkerClaim("complete", TRUE, FALSE, FALSE, {"a"}, {"b"}),
   WorkerClaim("complete", FALSE, FALSE, FALSE, none, {"a"}),
   [WorkerClaim("complete", FALSE, FALSE, FALSE, none, {"a"}) EXCEPT !.blockers = {"waits"}],
   WorkerClaim("ready-for-review", FALSE, FALSE, FALSE, none, {}),
   WorkerClaim("blocked", FALSE, FALSE, TRUE, none, {})}

\* SimilarityCache: Python and TypeScript, and nothing to compare.
SimilarityTrees ==
  {[t \in {} |-> 0], [t \in {"py"} |-> 1], [t \in {"py", "ts"} |-> 2]}

-----------------------------------------------------------------------------
(* A small repository for Verification: a leaf gate, its aggregate, a        *)
(* formatter that may write, the smoke test a release needs, a gate that CI  *)
(* runs, and two semantic invariants.                                        *)

Row(kind, cost, alpha, risk, setup, enforcement) ==
  [kind |-> kind, cost |-> cost, alpha |-> alpha, command |-> kind \in {"command", "invariant"},
   ciOnly |-> FALSE, risk |-> risk, setup |-> setup, enforcement |-> enforcement]

SmallCapability ==
  [lint    |-> Row("command", 20, 3, "safe", "npm", Plain),
   pre_pr  |-> Row("command", 90, 5, "unknown", "npm", Plain),
   package_consumer_smoke |-> Row("command", 45, 4, "safe", "none", Plain),
   deploy  |-> [Row("command", 45, 2, "safe", "none", Plain) EXCEPT !.ciOnly = TRUE],
   advised |-> Row("invariant", 45, 1, "safe", "npm", "advisory"),
   owed    |-> Row("invariant", 45, 6, "mutating", "none", "required"),
   policy  |-> Row("file", 45, 7, "safe", "none", Plain),
   security_publication_visibility_review |-> Row("review", 45, 8, "safe", "none", Plain)]

SmallInvariant == [advised |-> [enforcement |-> "advisory"], owed |-> [enforcement |-> "required"]]

Policy(execute, readOnly, only) ==
  [execute |-> execute, readOnly |-> readOnly, allowMutating |-> FALSE, only |-> only]

SmallPolicies ==
  {Policy(FALSE, FALSE, {}), Policy(TRUE, FALSE, {}), Policy(TRUE, TRUE, {}),
   Policy(TRUE, FALSE, {"lint"}), Policy(TRUE, FALSE, {"advised"}),
   [Policy(TRUE, TRUE, {"owed"}) EXCEPT !.allowMutating = TRUE]}

Check(head, ok) == [head |-> head, ref |-> "main", ok |-> ok, digest |-> None]

ReleaseFile(head) ==
  [head |-> head, ref |-> "main", version |-> 1, source |-> head, digest |-> "d1",
   accepted |-> TRUE, external |-> TRUE, migration |-> TRUE, publication |-> TRUE]

Daily ==
  [found |-> DOMAIN SmallCapability \ {"deploy", "policy"}, release |-> FALSE, head |-> "h1", branch |-> "main", checks |-> {}, evidence |-> None,
   versions |-> {1}, stateful |-> FALSE, publication |-> TRUE, reviewed |-> FALSE,
   coverage |-> {}, prints |-> <<>>, missing |-> {}, unpromoted |-> {}, bare |-> {},
   proof |-> [i \in DOMAIN SmallInvariant |-> None], ci |-> <<>>, findings |-> FALSE]

Released == [Daily EXCEPT !.release = TRUE, !.checks = {Check("h1", TRUE)}, !.evidence = ReleaseFile("h1")]

ProvedBy(w, proof) == [w EXCEPT !.proof = [advised |-> None, owed |-> proof]]

SmallWorlds ==
  {ProvedBy([Daily EXCEPT !.findings = f], p) : f \in BOOLEAN, p \in {None, "passed", "failed", "stale"}}
  \cup {[Daily EXCEPT !.checks = {Check("h1", TRUE), Check("h2", ok)}, !.ci = [deploy |-> "passed"],
                            !.found = DOMAIN SmallCapability] : ok \in BOOLEAN}
  \cup {ProvedBy([Daily EXCEPT !.found = {"deploy", "policy"}, !.ci = [deploy |-> "passed"], !.findings = f], "passed") : f \in BOOLEAN}
  \cup {[Daily EXCEPT !.found = {"lint", "advised", "owed"}]}
  \cup {ProvedBy([Daily EXCEPT !.checks = {Check("h1", TRUE)}], "passed")}
  \cup {[Daily EXCEPT !.bare = {i}] : i \in DOMAIN SmallInvariant}
  \cup {[Daily EXCEPT !.unpromoted = {"owed"}]}
  \cup {Released, [Released EXCEPT !.coverage = {[covered |-> {"lint"}, uncovered |-> {}, opaque |-> FALSE]}],
        [Released EXCEPT !.checks = {Check("h2", TRUE)}],
        [Released EXCEPT !.evidence = None],
        [Released EXCEPT !.evidence = ReleaseFile("h2")],
        [Released EXCEPT !.prints = [lint |-> "d2", package_consumer_smoke |-> "d1"]],
        [Released EXCEPT !.stateful = TRUE],
        [Released EXCEPT !.missing = {"tests"}],
        [Released EXCEPT !.coverage = {[covered |-> {"lint"}, uncovered |-> {}, opaque |-> TRUE]}],
        [Released EXCEPT !.versions = {1, 2}]
       }
=============================================================================
