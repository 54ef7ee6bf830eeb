---------------------------- MODULE SecurityScan ----------------------------
(***************************************************************************)
(* The security part of an audit: heuristic candidates found file by file, *)
(* through a cache of what was found before, the review gates that the     *)
(* candidates and the surfaces of the repository ask for, the obligations  *)
(* that name the candidates to be reviewed, and what the audit, the        *)
(* capability map and the handoff make of them. Sources and settings are   *)
(* changed between audits and during one.                                  *)
(*                                                                         *)
(* A line is the set of what its text matches. Several marks stand for one *)
(* category when the code has several patterns for it.                     *)
(***************************************************************************)
EXTENDS Naturals, Sequences, FiniteSets

CONSTANTS
  Files,       \* in the order of the walk: a sequence of paths
  Traits,      \* path -> what its name says
  Texts,       \* path -> texts it may have, None when there is no such file:
               \* [lines, assignments, fallbacks], the last two the spans of values
  Policies,    \* [enabled, gates, baseline, required, disabled, minimum, release]
  Offers,      \* what of security commands a repository has
  MaxAudits, MaxEdits,
  None

VARIABLES
  source,  \* path -> text
  policy,
  offer,
  cache,   \* path -> the latest result and what it is the result of
  job,     \* the audit that runs
  report,  \* the result of the latest audit, None when one runs
  audits, edits

vars == <<source, policy, offer, cache, job, report, audits, edits>>

Paths == {Files[i] : i \in DOMAIN Files}

-----------------------------------------------------------------------------
\* The patterns, each group under the name by which it is switched off.
Patterns(group) ==
  CASE group = "secrets" -> {"assignment", "fallback", "log"}
    [] group = "dangerous-sink" -> {"sink", "weak-sink"}
    [] group = "redirect" -> {"redirect", "bare-redirect"}
    [] group = "env-exposure" -> {"public-env", "secret-env"}

Groups == {"secrets", "dangerous-sink", "redirect", "env-exposure"}

Category(mark) ==
  CASE mark = "assignment" -> "secrets-exposure"
    [] mark = "fallback" -> "secret-in-fallback"
    [] mark = "log" -> "secret-in-log"
    [] mark \in {"sink", "weak-sink"} -> "dangerous-sink"
    [] mark = "redirect" -> "unsafe-redirect"
    [] mark = "bare-redirect" -> "open-redirect"
    [] mark = "public-env" -> "env-exposure"
    [] mark = "secret-env" -> "secret-env-var"
    [] mark = "costly" -> "expensive-api-abuse"
    [] mark = "webhook" -> "webhook-handler"

Severity(mark) == IF mark \in {"assignment", "sink", "public-env"} THEN "high" ELSE "medium"

\* _confidence_for_match: of the line as it is, not as it is shown.
Confidence(mark, marks) ==
  IF mark = "assignment" /\ "key" \in marks THEN "high"
  ELSE IF mark \in {"sink", "weak-sink", "costly", "webhook"} THEN "medium" ELSE "low"

Reviewed(category) ==
  category \in {"unsafe-redirect", "open-redirect", "webhook-handler", "expensive-api-abuse", "env-exposure"}

\* classify_security_candidate
Disposition(category, confidence, file, evidence) ==
  LET safe == "example" \in Traits[file] \/ "example" \in evidence
  IN  CASE \/ category \in {"env-exposure", "dangerous-sink", "unsafe-redirect", "open-redirect"}
           \/ confidence = "high"
           \/ category = "secret-in-log" /\ ~safe /\ "credential" \in evidence -> "human-review"
        [] OTHER -> IF safe THEN "bulk-review-eligible" ELSE "triage"

\* A value is redacted before it is shown, so that what kind of key it is
\* does not show, and neither does it in the fingerprint.
Candidate(mark, file, line, marks) ==
  LET evidence == marks \ {"key"}
      category == Category(mark)
      confidence == Confidence(mark, marks)
  IN  [fingerprint |-> <<category, file, line, evidence>>, category |-> category,
       severity |-> Severity(mark), confidence |-> confidence, file |-> file,
       class |-> Disposition(category, confidence, file, evidence),
       agent |-> Reviewed(category)]

\* The lines where a span begins and the one-line pattern matches.
SpanLines(text, spans, mark) == {s[1] : s \in {t \in spans : mark \in text.lines[t[1]]}}

OnLine(text, mark, n) ==
  CASE mark = "assignment" -> n \in SpanLines(text, text.assignments, mark)
    [] mark = "fallback" -> n \in SpanLines(text, text.fallbacks, mark)
    [] OTHER -> mark \in text.lines[n]

\* With secrets switched off, a line that speaks of a secret is not looked at;
\* a sink with two patterns on a line is one candidate, by the stronger.
OfLines(file, text, disabled) ==
  LET marked == {p \in (UNION {Patterns(g) : g \in Groups \ disabled}) \X DOMAIN text.lines :
                   /\ OnLine(text, p[1], p[2])
                   /\ ~("secrets" \in disabled /\ "secret" \in text.lines[p[2]])
                   /\ ~(p[1] = "weak-sink" /\ "sink" \in text.lines[p[2]])}
  IN  {Candidate(p[1], file, p[2], text.lines[p[2]]) : p \in marked}

\* _additional_span_candidates: a span none of whose lines has a candidate.
OfSpans(file, text, mark, spans) ==
  {Candidate(mark, file, s[1], UNION {text.lines[n] : n \in s[1]..s[2]}) :
     s \in {t \in spans : t[1]..t[2] \cap SpanLines(text, spans, mark) = {}}}

\* Eight lines around a call of a paid service.
Guarded(text, n) ==
  \E k \in DOMAIN text.lines : k > n - 8 /\ k <= n + 8 /\ "auth" \in text.lines[k]

HandlesWebhook(file, text) ==
  /\ \/ "webhook" \in Traits[file]
     \/ \E n \in DOMAIN text.lines : n <= 200 /\ "webhook" \in text.lines[n]
  /\ ~\E n \in DOMAIN text.lines : n <= 120 /\ "signature" \in text.lines[n]

\* scan_security_candidates of one file.
Candidates(file, text, disabled, surfaces) ==
  OfLines(file, text, disabled)
  \cup (IF "secrets" \in disabled THEN {}
        ELSE OfSpans(file, text, "assignment", text.assignments)
             \cup OfSpans(file, text, "fallback", text.fallbacks))
  \cup (IF "api" \notin surfaces \/ "expensive-api" \in disabled THEN {}
        ELSE {Candidate("costly", file, n, text.lines[n]) :
                n \in {k \in DOMAIN text.lines : "costly" \in text.lines[k] /\ ~Guarded(text, k)}})
  \cup (IF "webhook" \in disabled \/ ~HandlesWebhook(file, text) THEN {}
        ELSE {Candidate("webhook", file, 1, {})})

-----------------------------------------------------------------------------
\* detect_security_surfaces, in the scope of an audit: only manifests, routes
\* and webhooks are looked at, also for the publication of content.
Surfaces(texts) ==
  LET looked == {f \in Paths : texts[f] # None /\ Traits[f] \cap {"manifest", "api", "webhook"} # {}}
      raw == {f \in looked : "markup" \in Traits[f]
                             /\ \E n \in DOMAIN texts[f].lines : "raw" \in texts[f].lines[n]}
      named == UNION {Traits[f] \cap {"manifest", "api", "webhook", "publication"} : f \in looked}
  IN  named \cup (IF raw # {} THEN {"publication"} ELSE {})

\* AGENT_REVIEW_GATE_DEFINITIONS: what asks for a gate.
Trigger ==
  [api_route_auth |-> "api", auth_surface |-> "api", cross_tenant_access |-> "api",
   webhook_signature |-> "webhooks", dangerous_sink |-> "sinks", redirect |-> "redirects",
   secret_exposure |-> "secrets", dependency_risk |-> "manifest", rate_limit |-> "costly",
   publication_visibility |-> "publication"]

SecretCategories == {"secrets-exposure", "secret-in-fallback", "secret-in-log", "secret-env-var"}

Triggers(surfaces, candidates) ==
  LET categories == {c.category : c \in candidates}
  IN  (surfaces \cap {"api", "manifest", "publication"})
      \cup (IF "webhook-handler" \in categories \/ "webhook" \in surfaces THEN {"webhooks"} ELSE {})
      \cup (IF "dangerous-sink" \in categories THEN {"sinks"} ELSE {})
      \cup (IF {"unsafe-redirect", "open-redirect"} \cap categories # {} THEN {"redirects"} ELSE {})
      \cup (IF SecretCategories \cap categories # {} THEN {"secrets"} ELSE {})
      \cup (IF "expensive-api-abuse" \in categories THEN {"costly"} ELSE {})

\* _gate_matches_candidate
Weighs(gate) ==
  CASE gate = "dangerous_sink" -> {"dangerous-sink", "rce"}
    [] gate = "redirect" -> {"unsafe-redirect", "open-redirect"}
    [] gate = "secret_exposure" -> SecretCategories
    [] gate = "webhook_signature" -> {"webhook-handler"}
    [] gate = "rate_limit" -> {"expensive-api-abuse", "rate-limit-bypass"}
    [] gate = "cross_tenant_access" -> {"cross-tenant-id", "acl-check"}
    [] OTHER -> {}

Rank(severity) ==
  CASE severity = "critical" -> 0 [] severity = "high" -> 1 [] severity = "medium" -> 2
    [] severity = "low" -> 3 [] severity = "info" -> 4 [] OTHER -> 2

HeavyEnough(gate, candidates, minimum) ==
  \/ gate \in {"dependency_risk", "auth_surface", "api_route_auth", "publication_visibility"}
  \/ \E c \in candidates : Rank(c.severity) <= Rank(minimum) /\ c.category \in Weighs(gate)

\* build_agent_review_gates
Gates(surfaces, candidates, p) ==
  IF ~p.gates THEN {}
  ELSE {g \in DOMAIN Trigger : Trigger[g] \in Triggers(surfaces, candidates)
                               /\ HeavyEnough(g, candidates, p.minimum)}

\* _CATEGORY_MATCHES
Named(gate) ==
  CASE gate = "api_route_auth" -> {"missing-auth", "acl-check", "cross-tenant-id"}
    [] gate = "auth_surface" -> {"missing-auth", "auth-bypass", "jwt-handling"}
    [] gate = "webhook_signature" -> {"webhook-handler", "service-entry-point"}
    [] gate = "dangerous_sink" -> {"dangerous-sink", "rce", "dangerous-html"}
    [] gate = "redirect" -> {"unsafe-redirect", "open-redirect"}
    [] gate = "secret_exposure" -> SecretCategories
    [] gate = "rate_limit" -> {"rate-limit-bypass", "expensive-api-abuse"}
    [] OTHER -> {}

\* _candidate_matches: by category, or by where the file is.
Refers(gate, c) ==
  \/ c.category \in Named(gate)
  \/ gate = "dependency_risk" /\ "root-manifest" \in Traits[c.file]
  \/ gate = "auth_surface" /\ "auth" \in Traits[c.file]
  \/ gate = "webhook_signature" /\ "webhook" \in Traits[c.file]

Obligations(gates, candidates) ==
  {[gate |-> g, refs |-> {c.fingerprint : c \in {d \in candidates : Refers(g, d)}}] : g \in gates}

-----------------------------------------------------------------------------
Commands == {"secrets_scan", "dependency_audit", "static_analysis"}

\* detect_security_capabilities: a command of the repository, of its scripts or
\* of its configured gates; without a baseline no gap is seen in the evidence.
Available(o) == o.commands \cup o.scripts \cup o.configured

Gaps(o) ==
  (IF o.manifest THEN {"dependency_audit"} ELSE {}) \cup (IF o.client THEN {"secrets_scan"} ELSE {})

Required(p) == p.required \cap Commands

Lacking(o, p) ==
  ((IF p.baseline THEN Gaps(o) ELSE {}) \cup Required(p)) \ Available(o)

\* security_audit_findings: gaps count once the configuration requires any.
Findings(candidates, missing, gates, p) ==
  {[of |-> "candidate", id |-> c.fingerprint] : c \in candidates}
  \cup (IF p.required = {} THEN {} ELSE {[of |-> "capability", id |-> <<m>>] : m \in missing})
  \cup {[of |-> "review", id |-> <<g>>] : g \in gates}

\* security_review_handoff
Executable(o) ==
  (o.commands \ o.ciOnly) \cup ((o.scripts \cup o.configured) \ o.commands)

-----------------------------------------------------------------------------
Idle == [pc |-> "idle"]

Init ==
  /\ source \in [Paths -> UNION {Texts[f] : f \in Paths}] /\ \A f \in Paths : source[f] \in Texts[f]
  /\ policy \in Policies /\ offer \in Offers
  /\ cache = [f \in Paths |-> None]
  /\ job = Idle /\ report = None
  /\ audits = 0 /\ edits = 0

Edit ==
  /\ edits < MaxEdits /\ edits' = edits + 1
  /\ \/ \E f \in Paths : \E t \in Texts[f] : source' = [source EXCEPT ![f] = t] /\ UNCHANGED <<policy, offer>>
     \/ policy' \in Policies /\ UNCHANGED <<source, offer>>
     \/ offer' \in Offers /\ UNCHANGED <<source, policy>>
  /\ report' = None
  /\ UNCHANGED <<cache, job, audits>>

\* The scope and the surfaces; a full audit reads every source now.
Begin ==
  /\ job.pc = "idle" /\ audits < MaxAudits
  /\ \E full \in BOOLEAN :
       job' = [pc |-> "files", policy |-> policy, surfaces |-> Surfaces(source), full |-> full,
               scope |-> {f \in Paths : source[f] # None}, read |-> source, next |-> 1, found |-> {},
               cache |-> cache]
  /\ audits' = audits + 1 /\ report' = None
  /\ UNCHANGED <<source, policy, offer, cache, edits>>

\* Mutant: the surfaces are not part of what a result depends on.
ContextOfRules(p, surfaces) == p.disabled

\* What a cached result is the result of: with the content of the file.
Context(p, surfaces) == <<p.disabled, surfaces>>

GetOrCompute(entry, key, computed) ==
  IF entry # None /\ entry.key = key THEN entry.result ELSE computed

\* A file of the scope that is gone ends a balanced audit.
ScanFile ==
  LET f == Files[job.next]
      text == IF job.full THEN job.read[f] ELSE source[f]
      key == [text |-> text, full |-> job.full, context |-> Context(job.policy, job.surfaces)]
      result == GetOrCompute(cache[f], key, Candidates(f, text, job.policy.disabled, job.surfaces))
  IN  /\ job.pc = "files" /\ job.policy.enabled /\ job.next <= Len(Files)
      /\ IF f \notin job.scope THEN job' = [job EXCEPT !.next = @ + 1]
         ELSE IF text = None THEN job' = Idle
         ELSE job' = [job EXCEPT !.next = @ + 1, !.read[f] = text, !.found = @ \cup result,
                        !.cache[f] = [key |-> key, result |-> result]]
      /\ UNCHANGED <<source, policy, offer, cache, report, audits, edits>>

\* merge_security_into_capability_map: published content holds a release back.
Held(surfaces, p) == p.release /\ "publication" \in surfaces

\* The gates, the capabilities and all that is written of them; the index of the
\* cache.
Finish ==
  LET p == job.policy
      gates == Gates(job.surfaces, job.found, p)
      missing == Lacking(offer, p)
  IN  /\ job.pc = "files" /\ p.enabled /\ job.next > Len(Files)
      /\ report' = [candidates |-> job.found, gates |-> gates, policy |-> p, read |-> job.read,
                    scope |-> job.scope, surfaces |-> job.surfaces, missing |-> missing,
                    obligations |-> Obligations(gates, job.found),
                    findings |-> Findings(job.found, missing, gates, p),
                    executable |-> Executable(offer),
                    held |-> Held(job.surfaces, p)]
      /\ cache' = job.cache /\ job' = Idle
      /\ UNCHANGED <<source, policy, offer, audits, edits>>

\* Nothing is looked at and nothing is found.
Skip ==
  /\ job.pc = "files" /\ ~job.policy.enabled
  /\ report' = [candidates |-> {}, gates |-> {}, policy |-> job.policy, read |-> <<>>,
                surfaces |-> {}, missing |-> {}, obligations |-> {}, findings |-> {},
                executable |-> {}, held |-> FALSE]
  /\ job' = Idle
  /\ UNCHANGED <<source, policy, offer, cache, audits, edits>>

\* What an audit that dies has found is not in the index.
Die ==
  /\ job.pc = "files"
  /\ job' = Idle
  /\ UNCHANGED <<source, policy, offer, cache, report, audits, edits>>

Next == Edit \/ Begin \/ ScanFile \/ Finish \/ Skip \/ Die

Spec == Init /\ [][Next]_vars

-----------------------------------------------------------------------------
\* Whatever of it came from the cache, an audit reports what a scan of the texts
\* it read, under its own rules and surfaces, would find; each candidate is a
\* finding, each gate a finding and an obligation; and with review gates on, a
\* candidate at or above the minimum severity is named by an obligation. Public
\* environment names are the exception: no gate is about them.
CandidatesAreAnswered ==
  report # None /\ report.policy.enabled =>
    /\ report.candidates = UNION {Candidates(f, report.read[f], report.policy.disabled, report.surfaces) : f \in report.scope}
    /\ \A c \in report.candidates :
         /\ [of |-> "candidate", id |-> c.fingerprint] \in report.findings
         /\ report.policy.gates /\ Rank(c.severity) <= Rank(report.policy.minimum)
            /\ c.category # "env-exposure"
              => \E o \in report.obligations : c.fingerprint \in o.refs
    /\ \A o \in report.obligations :
         o.gate \in report.gates /\ [of |-> "review", id |-> <<o.gate>>] \in report.findings
-----------------------------------------------------------------------------
(* The invariant of the proof: every result in the cache is one of the text  *)
(* and the context of its key, and an audit has found what there is to find  *)
(* in the files it has come to.                                             *)
EntryFits(f, entry) ==
  entry # None =>
    entry.result = Candidates(f, entry.key.text, entry.key.context[1], entry.key.context[2])

Found(scope, texts, p, surfaces) ==
  UNION {Candidates(f, texts[f], p.disabled, surfaces) : f \in scope}

JobFits(x) ==
  /\ DOMAIN x.read = Paths /\ DOMAIN x.cache = Paths /\ x.scope \subseteq Paths
  /\ \A f \in Paths : EntryFits(f, x.cache[f])
  /\ x.next \in Nat \ {0}
  /\ x.found = Found(x.scope \cap {Files[k] : k \in {n \in DOMAIN Files : n < x.next}},
                     x.read, x.policy, x.surfaces)

ReportFits(x) ==
  /\ x.candidates = Found(x.scope, x.read, x.policy, x.surfaces)
  /\ x.gates = Gates(x.surfaces, x.candidates, x.policy)
  /\ x.obligations = Obligations(x.gates, x.candidates)
  /\ x.findings = Findings(x.candidates, x.missing, x.gates, x.policy)

SecurityInv ==
  /\ DOMAIN source = Paths /\ DOMAIN cache = Paths
  /\ \A f \in Paths : EntryFits(f, cache[f])
  /\ job.pc = "files" =>
       /\ DOMAIN job = {"pc", "policy", "surfaces", "full", "scope", "read", "next", "found", "cache"}
       /\ JobFits(job)
  /\ report # None /\ report.policy.enabled => ReportFits(report)
=============================================================================
