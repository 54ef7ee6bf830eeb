----------------------------- MODULE BugLearning -----------------------------
(* From a confirmed regression to a required gate: the candidate registries  *)
(* that repositories keep, the observations aggregated from them into one    *)
(* file of fleet evidence, the decision somebody takes on that evidence, the *)
(* receipt of the promotion check, and the candidate-linked invariant that   *)
(* is in force while registry and receipt bear it.                           *)
(*                                                                           *)
(* Registries are edited by hand at any time, into anything; so are they     *)
(* read. The hash of a file is the file's content. A file that a death left  *)
(* half written does not parse.                                              *)
EXTENDS Integers, Sequences, FiniteSets, Functions

CONSTANTS
  Procs, Repos,
  Promoting,        \* the repositories that have a candidate-linked required invariant
  Registries,       \* repository -> what its registry can be
  Days,
  MinRepositories, MinClassified, MinPrecision, MaxCost, MaxAge,
  None, Torn,
  MaxEdits, MaxAggregates, MaxDecisions, MaxChecks, MaxDeaths   \* bounds

VARIABLES
  registry,    \* repository -> its quality-runner-candidates.json
  fleet,       \* the fleet evidence: None, Torn or what it holds
  decision,    \* repository -> the promotion decision, or None
  receipt,     \* repository -> the promotion receipt: None, Torn or what it holds
  job,         \* what each process does
  recorded,    \* history: observations an aggregate found in a registry that passed
  approved,    \* history: candidates approved, each with its evidence
  spent        \* edits, aggregates, decisions, checks and deaths so far

vars == <<registry, fleet, decision, receipt, job, recorded, approved, spent>>

Dispositions == {"repository-only", "duplicate", "not-detectable"}

Stages == <<"repository-regression", "reusable-candidate", "quality-runner-advisory",
            "fleet-observation", "required-gate">>

Allowed(source) ==
  UNION {{Stages[i + 1]} \cup Dispositions : i \in {k \in 1 .. 3 : Stages[k] = source}}
    \cup (IF source = Stages[4] THEN {Stages[5]} \cup Dispositions ELSE {})

\* A candidate's contract is what it detects, why, and what mends it; it is
\* whole when every other field is there and every file it names.
Contract(c) == [id |-> c.id, says |-> c.says]

Criteria ==
  {"independent_repository_occurrences", "classified_observation_history", "precision",
   "evaluation_cost", "freshness", "candidate_contract_consistency"}

-----------------------------------------------------------------------------
(* What a registry says holds together.                                      *)

ResultOf ==
  [c \in {"true-positive", "false-positive", "true-negative", "false-negative", "unclassified"} |->
     CASE c \in {"true-positive", "false-positive"} -> "detected"
       [] c = "unclassified" -> "blocked"
       [] OTHER -> "not-detected"]

ObservationsFit(seen) ==
  /\ \A o \in seen : o.class \in DOMAIN ResultOf /\ o.result = ResultOf[o.class] /\ o.cost >= 0
  /\ \A o1, o2 \in seen : o1.id = o2.id => o1 = o2

\* A trail leads from the regression to the status, one allowed transition
\* after another, never back in time.
TrailLeads(trail, status) ==
  /\ trail # <<>> /\ trail[1].to = Stages[1] /\ trail[Len(trail)].to = status
  /\ \A i \in 1 .. Len(trail) - 1 :
       trail[i + 1].to \in Allowed(trail[i].to) /\ trail[i].at <= trail[i + 1].at

Supported(file, c) ==
  /\ file \notin {None, Torn}
  /\ file.contract = Contract(c) /\ file.id = c.id
  /\ file.status = "supported" /\ file.verdict = "approved"
  /\ file.unmet = {} /\ file.evidence # None

CandidateFits(c, file) ==
  /\ c.whole
  /\ TrailLeads(c.trail, c.status)
  /\ c.status \in Dispositions => c.disposed = c.status
  /\ c.status = "required-gate" => c.linked /\ Supported(file, c)
  /\ ObservationsFit(c.seen)

\* Every confirmed regression has a test, and a candidate that came of it.
Passes(reg, file) ==
  /\ reg # None
  /\ reg.regressions = reg.tested
  /\ \A i, k \in DOMAIN reg.candidates : reg.candidates[i].id = reg.candidates[k].id => i = k
  /\ \A c \in Range(reg.candidates) : CandidateFits(c, file)
  /\ UNION {c.origins : c \in Range(reg.candidates)} = reg.regressions

\* The candidate of that id, the first one there is.
CandidateIn(reg, id) ==
  IF reg # None /\ \E c \in Range(reg.candidates) : c.id = id
    THEN LET i == CHOOSE k \in DOMAIN reg.candidates :
                    /\ reg.candidates[k].id = id
                    /\ \A l \in DOMAIN reg.candidates : reg.candidates[l].id = id => k <= l
         IN  reg.candidates[i]
    ELSE None

-----------------------------------------------------------------------------
(* Fleet evidence.                                                           *)

Classified == {"true-positive", "true-negative", "false-positive", "false-negative"}

\* Two observations are one when they agree about where, which, when and on
\* what evidence.
KeyOf(o) == <<o.repo, o.id, o.at, o.reference>>

MergedBeside(prior, current) == current \cup prior

\* What registries say now takes the place of what they said before.
Merged(prior, current) ==
  current \cup {o \in prior : \A n \in current : KeyOf(n) # KeyOf(o)}

Fresh(seen, day) == {o \in seen : day - MaxAge <= o.at /\ o.at <= day}

Count(seen, classes) == Cardinality({o \in seen : o.class \in classes})

\* The precision is rounded to four places before it is compared: half a unit
\* of the last place below MinPrecision is rounded down, what is above it up.
Precise(sure, wrong) ==
  sure + wrong > 0 /\ 20000 * sure > (200 * MinPrecision - 1) * (sure + wrong)

\* Remediation and fixtures a registry that passes has.
Met(seen, contracts, day) ==
  LET fresh == Fresh(seen, day)
      sure  == Count(fresh, {"true-positive"})
      wrong == Count(fresh, {"false-positive"})
      repos == {o.repo : o \in {x \in fresh : x.class = "true-positive"}}
      if(criterion, holds) == IF holds THEN {criterion} ELSE {}
  IN  if("independent_repository_occurrences", Cardinality(repos) >= MinRepositories)
        \cup if("classified_observation_history", Count(fresh, Classified) >= MinClassified)
        \cup if("precision", Precise(sure, wrong))
        \cup if("evaluation_cost", fresh # {} /\ \A o \in fresh : o.cost <= MaxCost)
        \cup if("freshness", Count(fresh, Classified) > 0)
        \cup if("candidate_contract_consistency", Cardinality(contracts) = 1)

\* The observations that the candidate of that id has in one repository.
Found(r, c) ==
  {[repo |-> r, id |-> o.id, at |-> o.at, class |-> o.class, cost |-> o.cost,
    reference |-> o.reference] : o \in c.seen}

Occurrences(read) ==
  UNION {{<<r, c>> : c \in Range(read[r].candidates)} : r \in {x \in DOMAIN read : read[x] # Torn}}

PriorOf(file, id) ==
  IF file \notin {None, Torn} /\ id \in DOMAIN file.groups THEN file.groups[id].seen ELSE {}

Group(id, read, file, day) ==
  LET here == {p \in Occurrences(read) : p[2].id = id}
      seen == Merged(PriorOf(file, id), UNION {Found(p[1], p[2]) : p \in here})
      contracts == {Contract(p[2]) : p \in here}
  IN  [seen |-> seen, contracts |-> contracts,
       unmet |-> Criteria \ Met(seen, contracts, day)]

Evidence(read, file, day) ==
  [status |-> IF \E r \in DOMAIN read : read[r] = Torn THEN "blocked" ELSE "completed",
   day |-> day,
   groups |-> [id \in {p[2].id : p \in Occurrences(read)} |-> Group(id, read, file, day)]]

-----------------------------------------------------------------------------
Idle == [step |-> "idle"]

Spend(what) == spent' = [spent EXCEPT ![what] = @ + 1]

Edit(r) ==
  /\ spent.edits < MaxEdits
  /\ \E reg \in Registries[r] \ {registry[r]} : registry' = [registry EXCEPT ![r] = reg]
  /\ Spend("edits")
  /\ UNCHANGED <<fleet, decision, receipt, job, recorded, approved>>

StartAggregate(p) ==
  /\ job[p] = Idle /\ spent.aggregates < MaxAggregates
  /\ \E day \in Days : job' = [job EXCEPT ![p] = [step |-> "reading", day |-> day, read |-> <<>>,
                                                  left |-> Repos]]
  /\ Spend("aggregates")
  /\ UNCHANGED <<registry, fleet, decision, receipt, recorded, approved>>

\* A repository without a registry is passed over, a registry that is rejected
\* blocks the evidence.
ReadRegistry(p) ==
  /\ job[p].step = "reading"
  /\ \E r \in job[p].left :
       LET reg == registry[r]
           read == IF reg = None THEN <<>>
                   ELSE [x \in {r} |-> IF Passes(reg, receipt[r]) THEN reg ELSE Torn]
           all == [x \in DOMAIN job[p].read \cup DOMAIN read |->
                     IF x \in DOMAIN read THEN read[x] ELSE job[p].read[x]]
       IN  /\ \A x \in job[p].left : r <= x
           /\ job' = [job EXCEPT ![p].read = all, ![p].left = @ \ {r}]
           /\ recorded' = recorded \cup
                UNION {{<<x[2].id, o>> : o \in Found(r, x[2])} : x \in Occurrences(read)}
  /\ UNCHANGED <<registry, fleet, decision, receipt, approved, spent>>

\* The earlier evidence is read when the registries are, and replaced in place.
WriteFleet(p) ==
  /\ job[p].step = "reading" /\ job[p].left = {}
  /\ job' = [job EXCEPT ![p] = [step |-> "fleet",
                                holds |-> Evidence(job[p].read, fleet, job[p].day)]]
  /\ fleet' = Torn
  /\ UNCHANGED <<registry, decision, receipt, recorded, approved, spent>>

FinishFleet(p) ==
  /\ job[p].step = "fleet"
  /\ fleet' = job[p].holds /\ job' = [job EXCEPT ![p] = Idle]
  /\ UNCHANGED <<registry, decision, receipt, recorded, approved, spent>>

\* Somebody decides about a candidate on the evidence there is.
Decide(r) ==
  /\ fleet \notin {None, Torn} /\ spent.decisions < MaxDecisions
  /\ \E id \in DOMAIN fleet.groups, verdict \in {"approved", "rejected"} :
       /\ decision' = [decision EXCEPT ![r] = [id |-> id, verdict |-> verdict, evidence |-> fleet]]
       /\ approved' = IF verdict = "approved" THEN approved \cup {<<id, fleet>>} ELSE approved
  /\ Spend("decisions")
  /\ UNCHANGED <<registry, fleet, receipt, job, recorded>>

\* The promotion check of candidate `id`: every reason against it is an error,
\* and the receipt is written all the same.
Receipt(r, id) ==
  LET c     == CandidateIn(registry[r], id)
      read  == fleet \notin {None, Torn}
      group == IF read /\ id \in DOMAIN fleet.groups THEN fleet.groups[id] ELSE None
      d     == decision[r]
      good  == /\ Passes(registry[r], receipt[r]) /\ c # None
               /\ read /\ fleet.status = "completed" /\ group # None
               /\ d # None /\ d.id = id /\ d.verdict = "approved" /\ d.evidence = fleet
               /\ group.unmet = {}
               /\ c.status \in {"fleet-observation", "required-gate"}
  IN  [status |-> IF good THEN "supported" ELSE "blocked", id |-> id,
       contract |-> IF c = None THEN None ELSE Contract(c),
       verdict |-> IF d = None THEN None ELSE d.verdict,
       evidence |-> IF read THEN fleet ELSE None,
       unmet |-> IF group = None THEN Criteria ELSE group.unmet]

Ids == {c.id : c \in UNION {Range(reg.candidates) : reg \in UNION Range(Registries) \ {None}}}

Check(p, r) ==
  /\ job[p] = Idle /\ spent.checks < MaxChecks
  /\ \E id \in Ids : job' = [job EXCEPT ![p] = [step |-> "receipt", repo |-> r,
                                                holds |-> Receipt(r, id)]]
  /\ receipt' = [receipt EXCEPT ![r] = Torn]
  /\ Spend("checks")
  /\ UNCHANGED <<registry, fleet, decision, recorded, approved>>

FinishCheck(p) ==
  /\ job[p].step = "receipt"
  /\ receipt' = [receipt EXCEPT ![job[p].repo] = job[p].holds] /\ job' = [job EXCEPT ![p] = Idle]
  /\ UNCHANGED <<registry, fleet, decision, recorded, approved, spent>>

Die(p) ==
  /\ job[p] # Idle /\ spent.deaths < MaxDeaths
  /\ job' = [job EXCEPT ![p] = Idle] /\ Spend("deaths")
  /\ UNCHANGED <<registry, fleet, decision, receipt, recorded, approved>>

Init ==
  /\ registry \in {reg \in [Repos -> UNION Range(Registries)] : \A r \in Repos : reg[r] \in Registries[r]}
  /\ fleet = None
  /\ decision = [r \in Promoting |-> None] /\ receipt = [r \in Repos |-> None]
  /\ job = [p \in Procs |-> Idle] /\ recorded = {} /\ approved = {}
  /\ spent = [edits |-> 0, aggregates |-> 0, decisions |-> 0, checks |-> 0, deaths |-> 0]

Next ==
  \/ \E r \in Repos : Edit(r)
  \/ \E r \in Promoting : Decide(r)
  \/ \E p \in Procs : \/ StartAggregate(p) \/ ReadRegistry(p) \/ WriteFleet(p) \/ FinishFleet(p)
                      \/ \E r \in Promoting : Check(p, r)
                      \/ FinishCheck(p) \/ Die(p)

Spec == Init /\ [][Next]_vars

-----------------------------------------------------------------------------
\* A required invariant that names candidate `id` and the receipt is in force.
InForce(r, id) ==
  LET c == CandidateIn(registry[r], id) IN
    /\ Passes(registry[r], receipt[r])
    /\ c # None /\ c.status = "required-gate" /\ c.linked /\ Supported(receipt[r], c)

\* No more is wrong than the rounded precision allows.
RightEnough(hits, false) ==
  20000 * Cardinality(false) < (20001 - 200 * MinPrecision) * Cardinality(hits \cup false)

\* A required gate was earned: somebody approved complete evidence for the
\* candidate's id, in which observations that registries once had, of two
\* repositories, fresh when it was made, were enough, right enough when their
\* precision is rounded to four places, and every one of them of no more than
\* the cost allowed; and the receipt of it has the contract the registry has.
\* That the approved evidence is about that contract it does not say.
PromotionIsEarned ==
  \A r \in Promoting, id \in Ids : InForce(r, id) =>
    LET e     == receipt[r].evidence
        seen  == e.groups[id].seen
        fresh == {o \in seen : o.at \in (e.day - MaxAge) .. e.day}
        hits  == {o \in fresh : o.class = "true-positive"}
        false == {o \in fresh : o.class = "false-positive"}
    IN  /\ <<id, e>> \in approved /\ e.status = "completed"
        /\ receipt[r].contract = Contract(CandidateIn(registry[r], id))
        /\ \A o \in seen : <<id, o>> \in recorded
        /\ \A o1, o2 \in seen : KeyOf(o1) = KeyOf(o2) => o1 = o2
        /\ Cardinality({o.repo : o \in hits}) >= MinRepositories
        /\ Cardinality({o \in fresh : o.class # "unclassified"}) >= MinClassified
        /\ RightEnough(hits, false)
        /\ \A o \in fresh : o.cost <= MaxCost

-----------------------------------------------------------------------------
(* The invariant of the proof: what an aggregate has read, the evidence made *)
(* of it and what was decided on that evidence bear each other out.          *)
Recorded(id, seen) ==
  /\ IsFiniteSet(seen)
  /\ \A o \in seen : <<id, o>> \in recorded /\ o.at \in Int /\ o.class \in DOMAIN ResultOf
  /\ \A o1, o2 \in seen : KeyOf(o1) = KeyOf(o2) => o1 = o2

RegistryRead(r, reg) ==
  /\ \A i, k \in DOMAIN reg.candidates : reg.candidates[i].id = reg.candidates[k].id => i = k
  /\ IsFiniteSet(Range(reg.candidates))
  /\ \A c \in Range(reg.candidates) : Recorded(c.id, Found(r, c))

EvidenceFits(file) ==
  /\ file.day \in Int
  /\ \A id \in DOMAIN file.groups :
       /\ Recorded(id, file.groups[id].seen)
       /\ file.groups[id].unmet =
            Criteria \ Met(file.groups[id].seen, file.groups[id].contracts, file.day)

ReceiptFits(file) ==
  LET e == file.evidence
  IN  file \notin {None, Torn} /\ file.status = "supported" =>
        /\ EvidenceFits(e) /\ e.status = "completed"
        /\ file.id \in DOMAIN e.groups /\ e.groups[file.id].unmet = {}
        /\ <<file.id, e>> \in approved

JobFits(j) ==
  \/ j = Idle
  \/ /\ j.step = "reading" /\ DOMAIN j = {"step", "day", "read", "left"}
     /\ j.day \in Int /\ j.left \subseteq Repos /\ DOMAIN j.read \subseteq Repos
     /\ \A r \in DOMAIN j.read : j.read[r] # Torn => RegistryRead(r, j.read[r])
  \/ j.step = "fleet" /\ EvidenceFits(j.holds)
  \/ j.step = "receipt" /\ ReceiptFits(j.holds)

RegistriesFit == DOMAIN registry = Repos /\ \A r \in Repos : registry[r] \in Registries[r]

FleetFits == fleet \notin {None, Torn} => EvidenceFits(fleet)

DecisionsFit ==
  /\ DOMAIN decision = Promoting
  /\ \A r \in Promoting :
       decision[r] # None /\ decision[r].verdict = "approved" =>
         <<decision[r].id, decision[r].evidence>> \in approved

ReceiptsFit == DOMAIN receipt = Repos /\ \A r \in Repos : ReceiptFits(receipt[r])

JobsFit == DOMAIN job = Procs /\ \A p \in Procs : JobFits(job[p])

LearningInv == RegistriesFit /\ FleetFits /\ DecisionsFit /\ ReceiptsFit /\ JobsFit
==============================================================================
