---------------------------- MODULE PhaseClosure ----------------------------
(* The closure of a phase: the findings of two audits in the scope a phase   *)
(* contract declares, the dispositions of its contract and of the ledger of  *)
(* the current run, who owns them, and what the caller says was changed.     *)
(* The contract is edited between the scan it scopes and the closure.        *)
(*                                                                           *)
(* A flaw has a kind, a file, a rule, a text and the scans that report it:   *)
(* sets of files, as what is found in one file may take others to be seen,   *)
(* or others not to be. A security candidate is a finding of its own, with   *)
(* file and fingerprint; structural flaws are grouped by rule, without.      *)
EXTENDS Naturals, FiniteSets

CONSTANTS
  Files,
  RunIds,
  Sources,      \* the states of the source: sets of flaws
  Phases,       \* the phase contracts an agent may write
  Decisions,    \* the sets of candidates a configuration accepts
  Sensitive,    \* files under auth, security, webhook or api
  None,
  MaxAudits, MaxEdits, MaxDeaths   \* bounds

VARIABLES
  source,       \* the flaws the source has now
  config,       \* the candidates the configuration accepts
  phase,        \* the phase contract
  runs,         \* RunId -> audit and ledger of the run, or None
  closure,      \* the closure just made, or None
  decided,      \* history: candidates some configuration accepted
  spent

vars == <<source, config, phase, runs, closure, decided, spent>>

\* What a phase contract is refused for; "repo" alone may scan everything.
Valid(contract) == contract.tier = "repo" \/ contract.include # {}

Init ==
  /\ source \in Sources
  /\ config \in Decisions
  /\ phase \in Phases
  /\ runs = [id \in RunIds |-> None]
  /\ closure = None
  /\ decided = config
  /\ spent = [audits |-> 0, edits |-> 0, deaths |-> 0]

Spend(what) == spent' = [spent EXCEPT ![what] = @ + 1]

\* No include path takes in everything that is not excluded.
PathInScope(file, contract) ==
  file \notin contract.exclude /\ (contract.include = {} \/ file \in contract.include)

InScope(flaw, contract) ==
  /\ PathInScope(flaw.file, contract)
  /\ contract.rules = {} \/ flaw.rule \in contract.rules

\* A group of structural flaws has no file and is in no scope.
Scoped(found, contract) == {p \in found : InScope(p, contract)}

Candidates(flaws) == {p \in flaws : p.kind = "candidate"}

Groups(flaws) ==
  LET structural == flaws \ Candidates(flaws)
  IN  {{p \in structural : p.rule = q.rule} : q \in structural}

Seen(flaws, scanned) == {p \in flaws : scanned \in p.scans}

\* A targeted or phase scan reads the include paths, a repo scan everything.
ScanPaths(contract) ==
  IF contract.tier = "repo" \/ contract.include = {} THEN Files ELSE Files \cap contract.include

\* What the ledger before this one accepted: that of another run, when there is one.
Kept(id) ==
  LET others == {other \in RunIds \ {id} : runs[other] # None}
  IN  IF others = {} THEN {{}} ELSE {runs[other].ledger : other \in others}

\* "scanned" and "of" are history variables.
Record(id, scanned, ledger) ==
  runs' = [runs EXCEPT ![id] = [found |-> Candidates(Seen(source, scanned)),
                                groups |-> Groups(Seen(source, scanned)),
                                scanned |-> scanned, of |-> source, ledger |-> ledger]]

\* With the phase contract the scan is scoped, without it is not.
Scan(scoped) == IF scoped THEN ScanPaths(phase) ELSE Files

Audit(id, scoped) ==
  /\ spent.audits < MaxAudits /\ (scoped => Valid(phase))
  /\ \E kept \in Kept(id) :
       Record(id, Scan(scoped), Candidates(Seen(source, Scan(scoped))) \cap (config \cup kept))
  /\ Spend("audits")
  /\ closure' = None
  /\ UNCHANGED <<source, config, phase, decided>>

\* A death between the audit and its ledger leaves the ledger of before.
AuditDies(id, scoped) ==
  /\ spent.audits < MaxAudits /\ spent.deaths < MaxDeaths /\ (scoped => Valid(phase))
  /\ Record(id, Scan(scoped), IF runs[id] = None THEN {} ELSE runs[id].ledger)
  /\ spent' = [spent EXCEPT !.audits = @ + 1, !.deaths = @ + 1]
  /\ closure' = None
  /\ UNCHANGED <<source, config, phase, decided>>

\* The dispositions of the contract go before the statuses of the ledger, and
\* both only ever accept.
Accepted(ledger, contract) == ledger \cup contract.accepted

\* The finding map of the contract names a plan or a task for it.
Mapped(findings, contract) == findings \subseteq contract.owned

EarlyRefresh(contract, changed) ==
  \/ \E f \in changed : ~PathInScope(f, contract) \/ f \in Sensitive
  \/ changed # {} /\ contract.triggers

\* Mutant: findings the baseline had are not looked at again.
ClosureOfNew(current, baseline, contract, changed) ==
  LET now == Scoped(current.found, contract)
      before == Scoped(baseline.found, contract)
      blocked == \/ ~((now \ before) \subseteq Accepted(current.ledger, contract))
                 \/ ~Mapped(now, contract)
                 \/ EarlyRefresh(contract, changed)
  IN  [status |-> IF blocked THEN "blocked" ELSE "passed", new |-> now \ before,
       persisted |-> now \cap before, resolved |-> before \ now, outside |-> current.found \ now,
       groups |-> current.groups]

BuildClosure(current, baseline, contract, changed) ==
  LET now == Scoped(current.found, contract)
      before == Scoped(baseline.found, contract)
      blocked == \/ ~(now \subseteq Accepted(current.ledger, contract))
                 \/ ~Mapped(now, contract)
                 \/ EarlyRefresh(contract, changed)
  IN  [status |-> IF blocked THEN "blocked" ELSE "passed", new |-> now \ before,
       persisted |-> now \cap before, resolved |-> before \ now, outside |-> current.found \ now,
       groups |-> current.groups]

Check(current, baseline, changed) ==
  /\ Valid(phase) /\ runs[current] # None /\ runs[baseline] # None
  /\ closure' = [run |-> current, changed |-> changed,
                 says |-> BuildClosure(runs[current], runs[baseline], phase, changed)]
  /\ UNCHANGED <<source, config, phase, runs, decided, spent>>

Edit ==
  /\ spent.edits < MaxEdits
  /\ \/ source' \in Sources \ {source} /\ UNCHANGED <<config, phase>>
     \/ config' \in Decisions \ {config} /\ UNCHANGED <<source, phase>>
     \/ phase' \in Phases \ {phase} /\ UNCHANGED <<source, config>>
  /\ decided' = decided \cup config'
  /\ Spend("edits")
  /\ closure' = None
  /\ UNCHANGED runs

Next ==
  \/ \E id \in RunIds, scoped \in BOOLEAN : Audit(id, scoped) \/ AuditDies(id, scoped)
  \/ \E current, baseline \in RunIds, changed \in SUBSET Files : Check(current, baseline, changed)
  \/ Edit

Spec == Init /\ [][Next]_vars

-----------------------------------------------------------------------------
\* Every scan that takes in these files reports the flaw.
ShowsIn(flaw, files) == \A scanned \in SUBSET Files : files \subseteq scanned => scanned \in flaw.scans

(* A closure speaks for the source: when the audit it reads is of the source *)
(* as it is and scanned the scope the contract has by now, no flaw that      *)
(* shows there is passed over: a candidate is not called resolved and, when  *)
(* the closure passed, was accepted by an agent or a configuration and has   *)
(* an owner; what is structural is in a group that is listed as out of       *)
(* scope; and nothing outside the scope was changed.                         *)
ClosuresAreEarned ==
  closure # None =>
    LET run == runs[closure.run]
        scope == {f \in Files : PathInScope(f, phase)}
        shown == {p \in source : InScope(p, phase) /\ ShowsIn(p, scope)}
    IN  run.of = source /\ scope \subseteq run.scanned =>
          /\ closure.says.resolved \cap shown = {}
          /\ shown \ Candidates(shown) \subseteq UNION closure.says.groups
          /\ closure.says.status = "passed" =>
               /\ Candidates(shown) \subseteq phase.accepted \cup decided
               /\ Candidates(shown) \subseteq phase.owned
               /\ closure.changed \subseteq scope

-----------------------------------------------------------------------------
(* The invariant of the proof.                                              *)
RunsInv ==
  /\ config \subseteq decided
  /\ DOMAIN runs = RunIds
  /\ \A id \in RunIds : runs[id] # None =>
       /\ runs[id].scanned \subseteq Files
       /\ runs[id].found = Candidates(Seen(runs[id].of, runs[id].scanned))
       /\ runs[id].groups = Groups(Seen(runs[id].of, runs[id].scanned))
       /\ runs[id].ledger \subseteq decided
  /\ ClosuresAreEarned
=============================================================================
