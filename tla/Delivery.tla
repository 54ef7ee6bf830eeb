------------------------------ MODULE Delivery ------------------------------
(* Delivery contracts: what the plan of a run obliges a delivery to, the     *)
(* preflight of a native plan, and the reconciliation of what an agent says  *)
(* it did. Audits and commands die, runs are audited again in place.         *)
(*                                                                           *)
(* A flaw is <<file, what>>; a slice is a file with its flaws. Fingerprints  *)
(* hash the id of the run, the git state with the time it was captured at,   *)
(* and what the analysis caches counted, never a source file. The git state  *)
(* comes with the inventory, which an audit may find in a cache: its time is *)
(* then that of the audit that captured it.                                  *)
EXTENDS Naturals, Sequences

CONSTANTS
  RunIds,
  Sources,      \* the states of the source: sets of flaws
  KeysOf,       \* source -> the keys its inventory can get, as git answers or not
  CacheCounts,  \* what the analysis caches can count of a scan
  Plans,        \* native plans: the slice ids and the paths each names
  PartOf,       \* name -> the other names that it is a part of
  Deferred,     \* the severities of the checks an audit defers
  None, Torn,
  MaxAudits, MaxEdits, MaxDeaths   \* bounds

VARIABLES
  source,      \* the flaws of the source now
  inventory,   \* key -> the audit whose inventory is cached, or None
  captured,    \* history: the key of each audit's source
  runs,        \* RunId -> the artifacts of the run, or None
  contracts,   \* RunId -> its delivery-contract.json
  receipt,     \* the delivery result an agent wrote, or None
  result,      \* the preflight or reconciliation just made, or None
  spent

vars == <<source, inventory, captured, runs, contracts, receipt, result, spent>>

Keys == UNION {KeysOf[s] : s \in Sources}

Init ==
  /\ source \in Sources
  /\ inventory = [k \in Keys |-> None] /\ captured = <<>>
  /\ runs = [id \in RunIds |-> None]
  /\ contracts = [id \in RunIds |-> None]
  /\ receipt = None
  /\ result = None
  /\ spent = [edits |-> 0, deaths |-> 0]

Spend(what) == spent' = [spent EXCEPT ![what] = @ + 1]

FilesOf(flaws) == {p[1] : p \in flaws}

Earlier(id) == IF runs[id] = None THEN [manifest |-> FALSE, plan |-> None] ELSE runs[id]

\* How an audit comes by its inventory: whether it uses a cache, and the key.
Ways == [cached : BOOLEAN, key : KeysOf[source]]

\* The audit that captured the inventory: an earlier one when the cache that is
\* used has the key.
Capture(way) ==
  IF way.cached /\ inventory[way.key] # None THEN inventory[way.key] ELSE Len(captured) + 1

\* The run's id, the capture, and the hash of both analysis caches' evidence.
SourceFingerprints(id, way, counts) == <<id, Capture(way), counts>>

\* A death leaves the scan of this audit beside the manifest and the plan of
\* an earlier one; "manifest" is the one the inspection writes before the plan.
\* "scan" and "key" are history variables: the source that was read, and the
\* key it got.
Audited(id, reached, way, counts) ==
  [print |-> SourceFingerprints(id, way, counts), scan |-> source, key |-> way.key,
   manifest |-> reached # "scan" \/ Earlier(id).manifest,
   plan |-> IF reached = "plan" THEN source ELSE Earlier(id).plan]

\* What every audit does, however far it gets.
Inspect(way) ==
  /\ Len(captured) < MaxAudits
  /\ captured' = Append(captured, way.key)
  /\ inventory' = IF way.cached THEN [inventory EXCEPT ![way.key] = Capture(way)]
                                ELSE inventory

Reusable(id) == runs[id] # None /\ runs[id].manifest

PlanOf(run) == IF run.plan = None THEN {} ELSE run.plan

\* The plan of the run as it is on disk; without one there is no obligation.
Obligations(run) == FilesOf(PlanOf(run))

\* "plan", "scan" and "key" are history variables: the flaws of the slices
\* obliged to, the source of the scan and its key. What nothing reads is left
\* out, as the id of the parent is that a refreshed contract has.
BuildContract(run) ==
  [print |-> run.print, hard |-> Obligations(run), deferred |-> Deferred,
   plan |-> PlanOf(run), scan |-> run.scan, key |-> run.key]

Readable(id) == contracts[id] \notin {None, Torn}

Write(id, run) ==
  /\ runs' = [runs EXCEPT ![id] = run]
  /\ contracts' = [contracts EXCEPT ![id] = BuildContract(run)]
  /\ result' = None
  /\ UNCHANGED <<source, receipt, spent>>

\* A run whose manifest is there is taken as it is, another one is audited.
Ensured(id) ==
  \/ Reusable(id) /\ Write(id, runs[id]) /\ UNCHANGED <<inventory, captured>>
  \/ \E way \in Ways, counts \in CacheCounts :
       /\ ~Reusable(id) /\ Inspect(way)
       /\ Write(id, Audited(id, "plan", way, counts))

Prepare(id) == Ensured(id)

\* A contract with a parent, which must be readable; with the parent's own run
\* id it replaces it.
Refresh(id, old) == Readable(old) /\ Ensured(id)

Audit(id) ==
  /\ \E way \in Ways, counts \in CacheCounts :
       Inspect(way) /\ runs' = [runs EXCEPT ![id] = Audited(id, "plan", way, counts)]
  /\ result' = None
  /\ UNCHANGED <<source, contracts, receipt, spent>>

\* A name is found in the plan's text also as a part of another name.
Within(x, names) == \E n \in names : n = x \/ n \in PartOf[x]

\* The id of the slice, or all the paths of its scope, appears in the plan.
Covered(file, plan) == Within(file, plan.ids) \/ Within(file, plan.paths)

\* "met" are the flaws whose files the plan names, "alike" those found in other
\* names only.
Preflight(id, plan) ==
  /\ Readable(id)
  /\ LET c == contracts[id]
         named == plan.ids \cup plan.paths
         blocked == (\E x \in c.hard : ~Covered(x, plan)) \/ "hard" \in c.deferred
     IN  result' = [operation |-> "preflight", status |-> IF blocked THEN "blocked" ELSE "ready",
                    owed |-> c.plan, met |-> {p \in c.plan : p[1] \in named},
                    alike |-> {p \in c.plan : p[1] \notin named /\ Within(p[1], named)},
                    of |-> {}]
  /\ UNCHANGED <<source, inventory, captured, runs, contracts, receipt, spent>>

\* The agent works off some slices of a contract, and may lose the fingerprints.
\* "met", "plan", "scan" and "key" are history variables: the flaws worked on, with
\* evidence, and what the contract was of.
Deliver(id, done, print) ==
  /\ Readable(id)
  /\ receipt' = [print |-> print, passed |-> done,
                 met |-> {p \in contracts[id].plan : p[1] \in done},
                 plan |-> contracts[id].plan, scan |-> contracts[id].scan,
                 key |-> contracts[id].key]
  /\ result' = None
  /\ UNCHANGED <<source, inventory, captured, runs, contracts, spent>>

\* Mutant: only missing fingerprints are stale, not those of another source.
BlockersOfAny(c, r) ==
  (IF r.print = <<>> THEN {"stale"} ELSE {})
  \cup {"missing_evidence" : x \in c.hard \ r.passed} \cup (c.deferred \cap {"hard"})

Blockers(c, r) ==
  (IF r.print # c.print THEN {"stale"} ELSE {})
  \cup {"missing_evidence" : x \in c.hard \ r.passed} \cup (c.deferred \cap {"hard"})

Origin(x) == [plan |-> x.plan, scan |-> x.scan, key |-> x.key]

Reconcile(id) ==
  /\ Readable(id) /\ receipt # None
  /\ LET c == contracts[id]
     IN  result' = [operation |-> "reconcile",
                    status |-> IF Blockers(c, receipt) = {} THEN "reconciled" ELSE "blocked",
                    owed |-> c.plan, met |-> receipt.met, alike |-> {},
                    of |-> {Origin(c), Origin(receipt)}]
  /\ UNCHANGED <<source, inventory, captured, runs, contracts, receipt, spent>>

Edit ==
  /\ spent.edits < MaxEdits
  /\ source' \in Sources \ {source}
  /\ Spend("edits")
  /\ result' = None
  /\ UNCHANGED <<inventory, captured, runs, contracts, receipt>>

\* The three files of the scan are written one by one: one left over of an
\* earlier audit counts what that audit counted.
AuditDies(id) ==
  /\ spent.deaths < MaxDeaths
  /\ \E reached \in {"scan", "manifest"}, way \in Ways, counts \in CacheCounts :
       Inspect(way) /\ runs' = [runs EXCEPT ![id] = Audited(id, reached, way, counts)]
  /\ Spend("deaths")
  /\ result' = None
  /\ UNCHANGED <<source, contracts, receipt>>

\* The contract is written in place; until it is whole it cannot be loaded.
WriteDies(id) ==
  /\ spent.deaths < MaxDeaths /\ Reusable(id)
  /\ contracts' = [contracts EXCEPT ![id] = Torn]
  /\ Spend("deaths")
  /\ result' = None
  /\ UNCHANGED <<source, inventory, captured, runs, receipt>>

Next ==
  \/ \E id \in RunIds : Prepare(id) \/ Audit(id) \/ Reconcile(id) \/ AuditDies(id) \/ WriteDies(id)
  \/ \E id, old \in RunIds : Refresh(id, old)
  \/ \E id \in RunIds, plan \in Plans : Preflight(id, plan)
  \/ \E id \in RunIds :
       /\ Readable(id)
       /\ \E done \in SUBSET contracts[id].hard, print \in {contracts[id].print, <<>>} :
            Deliver(id, done, print)
  \/ Edit

Spec == Init /\ [][Next]_vars

-----------------------------------------------------------------------------
\* Every plan is of the source that its audit scanned, and sources that differ
\* got inventories of different keys.
ToldApart(those) ==
  /\ \A x \in those : x.plan = x.scan
  /\ \A x, y \in those : x.key = y.key => x.scan = y.scan

(* A plan that is ready names every flaw of the slices its contract had, if  *)
(* only as a part of another name; and a delivery that is reconciled worked  *)
(* on every one of them, whichever run and source its contract and its       *)
(* result are of, when the keys their inventories got tell these sources     *)
(* apart and no death left the plan of another scan.                         *)
DeliveriesAreWhole ==
  result # None /\ result.status # "blocked" /\ ToldApart(result.of) =>
    result.owed \subseteq result.met \cup result.alike

-----------------------------------------------------------------------------
(* The invariant of the proof: the capture in a fingerprint says which key   *)
(* the inventory of the scan got.                                            *)
PrintFits(print, key) ==
  /\ Len(print) = 3 /\ print[2] \in 1 .. Len(captured)
  /\ captured[print[2]] = key

CapturesFit ==
  /\ captured \in Seq(Keys) /\ source \in Sources
  /\ inventory = [k \in Keys |-> inventory[k]]
  /\ \A k \in Keys : inventory[k] # None =>
       inventory[k] \in 1 .. Len(captured) /\ captured[inventory[k]] = k

RunsFit ==
  /\ DOMAIN runs = RunIds
  /\ \A id \in RunIds : runs[id] # None => PrintFits(runs[id].print, runs[id].key)

ContractsFit ==
  /\ DOMAIN contracts = RunIds
  /\ \A id \in RunIds : Readable(id) =>
       /\ PrintFits(contracts[id].print, contracts[id].key)
       /\ contracts[id].hard = FilesOf(contracts[id].plan)

ReceiptFits ==
  receipt # None =>
    /\ receipt.met = {p \in receipt.plan : p[1] \in receipt.passed}
    /\ receipt.print # <<>> => PrintFits(receipt.print, receipt.key)

CapturesInv == CapturesFit /\ RunsFit /\ ContractsFit /\ ReceiptFits /\ DeliveriesAreWhole
=============================================================================
