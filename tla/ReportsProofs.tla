---------------------------- MODULE ReportsProofs ----------------------------
(***************************************************************************)
(* Proofs about what Quality Runner tells people: phase closures, delivery *)
(* contracts, the feed of a fleet's audits, the reports of a rollout, and  *)
(* the deltas of a review loop.  They hold for all findings, plans,        *)
(* fleets, repositories, trees and bounds.  The parts share the variables  *)
(* a, ..., j; MCParts says what each stands for.                           *)
(***************************************************************************)
EXTENDS MCParts, FiniteSetTheorems, NaturalsInduction, WellFoundedInduction, TLAPS

-----------------------------------------------------------------------------
(* PhaseClosure.                                                            *)

(* A scan of the scope reports what shows there.                            *)
LEMMA ShownIsSeen ==
  ASSUME NEW flaws, NEW scanned \in SUBSET PhaseFiles, NEW scope, scope \subseteq scanned,
         NEW x \in flaws, P!ShowsIn(x, scope)
  PROVE  x \in P!Seen(flaws, scanned)
BY DEF P!ShowsIn, P!Seen

(* Nothing that shows in the scanned scope of a phase escapes its closure.  *)
LEMMA ClosureSees ==
  ASSUME P!RunsInv, NEW current \in RunNames, NEW baseline \in RunNames,
         NEW changed \in SUBSET PhaseFiles, P!Check(current, baseline, changed)
  PROVE  P!ClosuresAreEarned'
<1>1. PICK run : run = d[current]
  OBVIOUS
<1>2. PICK earlier : earlier = d[baseline]
  OBVIOUS
<1>3. PICK says : says = P!BuildClosure(run, earlier, c, changed)
  OBVIOUS
<1>4. /\ e' = [run |-> current, changed |-> changed, says |-> says]
      /\ UNCHANGED <<a, b, c, d, f>>
  BY <1>1, <1>2, <1>3 DEF P!Check
<1>5. PICK seen : seen = P!Seen(run.of, run.scanned)
  OBVIOUS
<1>6. /\ run.scanned \subseteq PhaseFiles /\ run.ledger \subseteq f
      /\ run.found = P!Candidates(seen) /\ run.groups = P!Groups(seen)
  BY <1>1, <1>5 DEF P!RunsInv, P!Check
<1>7. PICK scope : scope = {x \in PhaseFiles : P!PathInScope(x, c)}
  OBVIOUS
<1>8. PICK shown : shown = {x \in a : P!InScope(x, c) /\ P!ShowsIn(x, scope)}
  OBVIOUS
<1>9. ASSUME run.of = a, scope \subseteq run.scanned
      PROVE  /\ says.resolved \cap shown = {}
             /\ shown \ P!Candidates(shown) \subseteq UNION says.groups
             /\ says.status = "passed" =>
                  /\ P!Candidates(shown) \subseteq c.accepted \cup f
                  /\ P!Candidates(shown) \subseteq c.owned
                  /\ changed \subseteq scope
  <2>1. PICK now : now = P!Scoped(run.found, c)
    OBVIOUS
  <2>2. PICK before : before = P!Scoped(earlier.found, c)
    OBVIOUS
  <2>3. /\ says.resolved = before \ now /\ says.groups = run.groups
        /\ says.status = "passed" =>
             now \subseteq P!Accepted(run.ledger, c) /\ P!Mapped(now, c) /\ ~P!EarlyRefresh(c, changed)
    BY <1>3, <2>1, <2>2 DEF P!BuildClosure
  <2>4. shown \subseteq seen
    <3> SUFFICES ASSUME NEW x \in shown PROVE x \in seen
      OBVIOUS
    <3>1. x \in run.of /\ P!ShowsIn(x, scope)
      BY <1>8, <1>9
    <3> QED BY <1>5, <1>6, <1>9, <3>1, ShownIsSeen
  <2>5. P!Candidates(shown) \subseteq now
    BY <1>6, <1>8, <2>1, <2>4 DEF P!Candidates, P!Scoped
  <2>6. before \cap shown \subseteq now
    <3>1. ASSUME NEW x \in before, x \in shown PROVE x \in P!Candidates(shown)
      <4>1. d[baseline] # None /\ earlier.found = P!Candidates(P!Seen(earlier.of, earlier.scanned))
        BY <1>2 DEF P!RunsInv, P!Check
      <4>2. x \in earlier.found
        BY <2>2, <3>1 DEF P!Scoped
      <4> QED BY <3>1, <4>1, <4>2 DEF P!Candidates
    <3> QED BY <2>5, <3>1
  <2>7. shown \ P!Candidates(shown) \subseteq UNION says.groups
    <3> SUFFICES ASSUME NEW x \in shown, x \notin P!Candidates(shown)
                 PROVE  x \in UNION says.groups
      OBVIOUS
    <3>1. x \in seen \ P!Candidates(seen)
      BY <2>4 DEF P!Candidates
    <3>2. PICK group : group = {y \in seen \ P!Candidates(seen) : y.rule = x.rule}
      OBVIOUS
    <3>3. group \in P!Groups(seen) /\ x \in group
      BY <3>1, <3>2 DEF P!Groups
    <3> QED BY <1>6, <2>3, <3>3
  <2>8. says.status = "passed" => changed \subseteq scope
    BY <1>7, <2>3 DEF P!EarlyRefresh
  <2> QED BY <1>6, <2>3, <2>5, <2>6, <2>7, <2>8 DEF P!Accepted, P!Mapped
<1>10. /\ e'.run = current /\ e'.changed = changed /\ e'.says = says
  BY <1>4
<1>11. /\ {x \in PhaseFiles : P!PathInScope(x, c)}' = scope
       /\ {x \in a : P!InScope(x, c) /\ P!ShowsIn(x, scope)}' = shown
       /\ d'[current] = run /\ c' = c /\ a' = a /\ f' = f
  BY <1>1, <1>4, <1>7, <1>8 DEF P!InScope, P!PathInScope, P!ShowsIn
<1> QED BY <1>9, <1>10, <1>11 DEF P!ClosuresAreEarned, P!Candidates

LEMMA ClosureInit == PartsInit /\ part = "closure" => P!RunsInv
<1> SUFFICES ASSUME P!Init PROVE P!RunsInv
  BY DEF PartsInit
<1> QED BY DEF P!Init, P!RunsInv, P!ClosuresAreEarned

(* An audit, or what it came to, replaces the record of its run.            *)
LEMMA AuditRecorded ==
  ASSUME P!RunsInv, NEW id \in RunNames, NEW scanned \in SUBSET PhaseFiles, NEW ledger,
         P!Record(id, scanned, ledger), UNCHANGED <<a, b, f>>, e' = None, ledger \subseteq f
  PROVE  P!RunsInv'
<1>1. PICK run : run = [found |-> P!Candidates(P!Seen(a, scanned)),
                        groups |-> P!Groups(P!Seen(a, scanned)),
                        scanned |-> scanned, of |-> a, ledger |-> ledger]
  OBVIOUS
<1>2. d' = [d EXCEPT ![id] = run]
  BY <1>1 DEF P!Record
<1>3. /\ run.scanned \subseteq PhaseFiles /\ run.ledger \subseteq f
      /\ run.found = P!Candidates(P!Seen(run.of, run.scanned))
      /\ run.groups = P!Groups(P!Seen(run.of, run.scanned))
  BY <1>1
<1>4. DOMAIN d' = RunNames /\ d'[id] = run /\ \A x \in RunNames : x # id => d'[x] = d[x]
  BY <1>2 DEF P!RunsInv
<1>5. ASSUME NEW x \in RunNames, d'[x] # None
      PROVE  /\ d'[x].scanned \subseteq PhaseFiles /\ d'[x].ledger \subseteq f
             /\ d'[x].found = P!Candidates(P!Seen(d'[x].of, d'[x].scanned))
             /\ d'[x].groups = P!Groups(P!Seen(d'[x].of, d'[x].scanned))
  <2>1. CASE x = id
    BY <1>3, <1>4, <2>1
  <2>2. CASE x # id
    BY <1>4, <1>5, <2>2 DEF P!RunsInv
  <2> QED BY <2>1, <2>2
<1>6. (\A x \in RunNames : d[x] # None =>
         /\ d[x].scanned \subseteq PhaseFiles
         /\ d[x].found = P!Candidates(P!Seen(d[x].of, d[x].scanned))
         /\ d[x].groups = P!Groups(P!Seen(d[x].of, d[x].scanned))
         /\ d[x].ledger \subseteq f)'
  BY <1>5 DEF P!Candidates, P!Groups, P!Seen
<1> QED BY <1>4, <1>6 DEF P!RunsInv, P!ClosuresAreEarned, P!Candidates, P!Groups, P!Seen

(* A scan takes in files of the repository, and ledgers hold decisions.     *)
LEMMA ScanOfFiles == ASSUME NEW scoped PROVE P!Scan(scoped) \in SUBSET PhaseFiles
BY DEF P!Scan, P!ScanPaths

LEMMA KeptDecided ==
  ASSUME P!RunsInv, NEW id \in RunNames, NEW kept \in P!Kept(id) PROVE kept \subseteq f
BY DEF P!RunsInv, P!Kept

LEMMA ClosureStep ==
  ASSUME P!RunsInv, P!Next PROVE P!RunsInv'
<1>1. ASSUME NEW id \in RunNames, NEW scoped \in BOOLEAN, P!Audit(id, scoped)
      PROVE  P!RunsInv'
  <2>1. PICK scanned : scanned = P!Scan(scoped)
    OBVIOUS
  <2>2. PICK kept \in P!Kept(id) :
          P!Record(id, scanned, P!Candidates(P!Seen(a, scanned)) \cap (b \cup kept))
    BY <1>1, <2>1 DEF P!Audit
  <2>3. UNCHANGED <<a, b, f>> /\ e' = None
    BY <1>1 DEF P!Audit
  <2>4. kept \subseteq f /\ b \subseteq f
    BY KeptDecided DEF P!RunsInv
  <2>5. P!Candidates(P!Seen(a, scanned)) \cap (b \cup kept) \subseteq f
    BY <2>4
  <2> QED BY <2>1, <2>2, <2>3, <2>5, AuditRecorded, ScanOfFiles
<1>2. ASSUME NEW id \in RunNames, NEW scoped \in BOOLEAN, P!AuditDies(id, scoped)
      PROVE  P!RunsInv'
  <2>1. PICK scanned, ledger :
          scanned = P!Scan(scoped) /\ ledger = IF d[id] = None THEN {} ELSE d[id].ledger
    OBVIOUS
  <2>2. P!Record(id, scanned, ledger) /\ UNCHANGED <<a, b, f>> /\ e' = None
    BY <1>2, <2>1 DEF P!AuditDies
  <2>3. ledger \subseteq f
    BY <2>1 DEF P!RunsInv
  <2> QED BY <2>1, <2>2, <2>3, AuditRecorded, ScanOfFiles
<1>3. ASSUME NEW current \in RunNames, NEW baseline \in RunNames,
             NEW changed \in SUBSET PhaseFiles, P!Check(current, baseline, changed)
      PROVE  P!RunsInv'
  <2>1. P!ClosuresAreEarned'
    BY <1>3, ClosureSees
  <2>2. UNCHANGED <<a, b, d, f>>
    BY <1>3 DEF P!Check
  <2> QED BY <2>1, <2>2 DEF P!RunsInv, P!Candidates, P!Groups, P!Seen
<1>4. ASSUME P!Edit PROVE P!RunsInv'
  <2>1. /\ f' = f \cup b' /\ e' = None /\ d' = d
    BY <1>4 DEF P!RunsInv, P!Edit
  <2> QED BY <2>1 DEF P!RunsInv, P!ClosuresAreEarned, P!Candidates, P!Groups, P!Seen
<1> QED BY <1>1, <1>2, <1>3, <1>4 DEF P!Next

(* Runs say what their scans reported, and ledgers what was accepted,       *)
(* however audits, their deaths and edits of the contract overlap.          *)
THEOREM RunsRecorded == Parts => [](part = "closure" => P!RunsInv)
<1>1. PartsInit => (part = "closure" => P!RunsInv)
  BY ClosureInit
<1>2. (part = "closure" => P!RunsInv) /\ [PartsNext]_parts
        => (part = "closure" => P!RunsInv)'
  <2> SUFFICES ASSUME part = "closure" => P!RunsInv, [PartsNext]_parts,
                      part' = "closure"
               PROVE  P!RunsInv'
    OBVIOUS
  <2>1. CASE PartsNext
    <3>1. P!RunsInv /\ P!Next
      BY <2>1 DEF PartsNext
    <3> QED BY <3>1, ClosureStep
  <2>2. CASE UNCHANGED parts
    BY <2>2 DEF parts, P!RunsInv, P!ClosuresAreEarned, P!InScope, P!PathInScope, P!ShowsIn,
                P!Candidates, P!Groups, P!Seen
  <2> QED BY <2>1, <2>2
<1> QED BY <1>1, <1>2, PTL DEF Parts

(* A closure speaks for the source: where its audit is of the source as it  *)
(* is and scanned the scope, a candidate that shows there is not called     *)
(* resolved, and was accepted and has an owner when the closure passed;     *)
(* structural flaws are listed, and nothing outside the scope was changed.  *)
THEOREM ClosuresEarned == Parts => []ClosuresAreEarned
<1>1. (part = "closure" => P!RunsInv) => ClosuresAreEarned
  BY DEF ClosuresAreEarned, P!RunsInv
<1> QED BY <1>1, RunsRecorded, PTL

-----------------------------------------------------------------------------
(* Delivery.                                                                *)

LEMMA CapturesInit == PartsInit /\ part = "delivery" => J!CapturesInv
<1> SUFFICES ASSUME J!Init PROVE J!CapturesInv
  BY DEF PartsInit
<1>1. J!CapturesFit
  <2>1. g = [k \in J!Keys |-> None] /\ h = <<>> /\ a \in OwedFlaws
    BY DEF J!Init
  <2>2. h \in Seq(J!Keys) /\ \A k \in J!Keys : g[k] = None
    BY <2>1
  <2> QED BY <2>1, <2>2 DEF J!CapturesFit
<1>2. J!RunsFit /\ J!ContractsFit /\ J!ReceiptFits /\ J!DeliveriesAreWhole
  BY DEF J!Init, J!RunsFit, J!ContractsFit, J!Readable, J!ReceiptFits, J!DeliveriesAreWhole
<1> QED BY <1>1, <1>2 DEF J!CapturesInv

(* What audits were of stays what it was.                                   *)
LEMMA PrintKept ==
  ASSUME J!CapturesFit, h' = h \/ \E k \in J!Keys : h' = Append(h, k),
         NEW print, NEW key, J!PrintFits(print, key)
  PROVE  J!PrintFits(print, key)'
<1>1. PICK n : n = print[2]
  OBVIOUS
<1>2. n \in 1 .. Len(h) /\ h[n] = key /\ Len(print) = 3
  BY <1>1 DEF J!PrintFits
<1>3. CASE h' = h
  BY <1>1, <1>2, <1>3 DEF J!PrintFits
<1>4. ASSUME NEW k \in J!Keys, h' = Append(h, k) PROVE J!PrintFits(print, key)'
  <2>1. h \in Seq(J!Keys)
    BY DEF J!CapturesFit
  <2>2. n \in 1 .. Len(h') /\ h'[n] = h[n]
    BY <1>2, <1>4, <2>1
  <2> QED BY <1>1, <1>2, <2>2 DEF J!PrintFits
<1> QED BY <1>3, <1>4

(* An audit takes the inventory of its key, or captures it itself.          *)
LEMMA Inspected ==
  ASSUME J!CapturesFit, NEW way \in J!Ways, NEW counts, NEW id, J!Inspect(way), a' = a,
         NEW print, print = J!SourceFingerprints(id, way, counts),
         NEW key, key = way.key
  PROVE  /\ J!CapturesFit'
         /\ \E k \in J!Keys : h' = Append(h, k)
         /\ J!PrintFits(print, key)'
<1>1. PICK cached, n : cached = way.cached /\ n = J!Capture(way)
  OBVIOUS
<1>2. key \in J!Keys /\ h \in Seq(J!Keys) /\ DOMAIN g = J!Keys
  BY DEF J!CapturesFit, J!Keys, J!Ways
<1>3. h' = Append(h, key) /\ g' = IF cached THEN [g EXCEPT ![key] = n] ELSE g
  BY <1>1 DEF J!Inspect
<1>4. /\ h' \in Seq(J!Keys) /\ Len(h') = Len(h) + 1 /\ h'[Len(h) + 1] = key
      /\ \A m \in 1 .. Len(h) : m \in 1 .. Len(h') /\ h'[m] = h[m]
  BY <1>2, <1>3
<1>5. n \in 1 .. Len(h') /\ h'[n] = key
  <2>1. CASE cached /\ g[key] # None
    <3>1. n = g[key]
      BY <1>1, <2>1 DEF J!Capture
    <3>2. n \in 1 .. Len(h) /\ h[n] = key
      BY <1>2, <2>1, <3>1 DEF J!CapturesFit
    <3> QED BY <1>4, <3>2
  <2>2. CASE ~(cached /\ g[key] # None)
    <3>1. n = Len(h) + 1
      BY <1>1, <2>2 DEF J!Capture
    <3>2. n \in 1 .. Len(h')
      BY <1>2, <1>4, <3>1
    <3> QED BY <1>4, <3>1, <3>2
  <2> QED BY <2>1, <2>2
<1>6. \A k \in J!Keys : g'[k] # None => g'[k] \in 1 .. Len(h') /\ h'[g'[k]] = k
  <2> SUFFICES ASSUME NEW k \in J!Keys, g'[k] # None PROVE g'[k] \in 1 .. Len(h') /\ h'[g'[k]] = k
    OBVIOUS
  <2>1. CASE k = key /\ cached
    BY <1>2, <1>3, <1>5, <2>1
  <2>2. CASE ~(k = key /\ cached)
    <3>1. g'[k] = g[k]
      BY <1>2, <1>3, <2>2
    <3>2. g[k] \in 1 .. Len(h) /\ h[g[k]] = k
      BY <3>1 DEF J!CapturesFit
    <3> QED BY <1>4, <3>1, <3>2
  <2> QED BY <2>1, <2>2
<1>7. g' = [k \in J!Keys |-> g'[k]]
  BY <1>2, <1>3 DEF J!CapturesFit
<1>8. J!CapturesFit'
  BY <1>4, <1>6, <1>7 DEF J!CapturesFit, J!Keys
<1>9. J!PrintFits(print, key)'
  <2>1. print = <<id, n, counts>>
    BY <1>1 DEF J!SourceFingerprints
  <2>2. print[2] = n /\ Len(print) = 3
    BY <2>1
  <2> QED BY <1>1, <1>5, <2>2 DEF J!PrintFits
<1> QED BY <1>2, <1>3, <1>8, <1>9

(* What follows leaves the rest of the invariant as it is.                  *)
LEMMA CapturesKept ==
  ASSUME J!CapturesInv, UNCHANGED <<a, g, h>> PROVE J!CapturesFit'
BY DEF J!CapturesInv, J!CapturesFit, J!Keys

LEMMA RunsKept ==
  ASSUME J!CapturesInv, h' = h \/ \E k \in J!Keys : h' = Append(h, k), UNCHANGED b
  PROVE  J!RunsFit'
<1>1. ASSUME NEW x \in RunNames, NEW run, run = b[x], run # None PROVE J!PrintFits(run.print, run.key)'
  <2>1. J!PrintFits(run.print, run.key) /\ J!CapturesFit
    BY <1>1 DEF J!CapturesInv, J!RunsFit
  <2> QED BY <2>1, PrintKept
<1>2. (\A x \in RunNames : b[x] # None => J!PrintFits(b[x].print, b[x].key))'
  BY <1>1 DEF J!PrintFits
<1> QED BY <1>2 DEF J!CapturesInv, J!RunsFit, J!PrintFits

LEMMA ContractsKept ==
  ASSUME J!CapturesInv, h' = h \/ \E k \in J!Keys : h' = Append(h, k), UNCHANGED c
  PROVE  J!ContractsFit'
<1>1. ASSUME NEW x \in RunNames, NEW contract, contract = c[x], J!Readable(x)
      PROVE  J!PrintFits(contract.print, contract.key)' /\ contract.hard = J!FilesOf(contract.plan)
  <2>1. /\ J!PrintFits(contract.print, contract.key) /\ J!CapturesFit
        /\ contract.hard = J!FilesOf(contract.plan)
    BY <1>1 DEF J!CapturesInv, J!ContractsFit
  <2> QED BY <2>1, PrintKept
<1>2. (\A x \in RunNames : J!Readable(x) =>
        J!PrintFits(c[x].print, c[x].key) /\ c[x].hard = J!FilesOf(c[x].plan))'
  BY <1>1 DEF J!PrintFits, J!Readable
<1> QED BY <1>2 DEF J!CapturesInv, J!ContractsFit, J!PrintFits, J!Readable, J!FilesOf

LEMMA ReceiptKept ==
  ASSUME J!CapturesInv, h' = h \/ \E k \in J!Keys : h' = Append(h, k), UNCHANGED d
  PROVE  J!ReceiptFits'
<1>1. ASSUME NEW given, given = d, given # None, given.print # <<>>
      PROVE  J!PrintFits(given.print, given.key)'
  <2>1. J!PrintFits(given.print, given.key) /\ J!CapturesFit
    BY <1>1 DEF J!CapturesInv, J!ReceiptFits
  <2> QED BY <2>1, PrintKept
<1>2. (d # None /\ d.print # <<>> => J!PrintFits(d.print, d.key))'
  BY <1>1 DEF J!PrintFits
<1> QED BY <1>2 DEF J!CapturesInv, J!ReceiptFits, J!PrintFits

LEMMA NothingReported == ASSUME e' = None PROVE J!DeliveriesAreWhole'
BY DEF J!DeliveriesAreWhole

(* A run and a contract of it take the place of others.                     *)
LEMMA RunReplacedBy ==
  ASSUME J!CapturesInv, h' = h \/ \E k \in J!Keys : h' = Append(h, k),
         NEW id \in RunNames, NEW run, J!PrintFits(run.print, run.key)',
         b' = [b EXCEPT ![id] = run]
  PROVE  J!RunsFit'
<1>1. DOMAIN b' = RunNames /\ b'[id] = run /\ \A x \in RunNames : x # id => b'[x] = b[x]
  BY DEF J!CapturesInv, J!RunsFit
<1>2. ASSUME NEW x \in RunNames, NEW other, other = b'[x], other # None
      PROVE  J!PrintFits(other.print, other.key)'
  <2>1. CASE x = id
    BY <1>1, <1>2, <2>1
  <2>2. CASE x # id
    <3>1. other = b[x]
      BY <1>1, <1>2, <2>2
    <3>2. J!PrintFits(other.print, other.key) /\ J!CapturesFit
      BY <1>2, <3>1 DEF J!CapturesInv, J!RunsFit
    <3> QED BY <3>2, PrintKept
  <2> QED BY <2>1, <2>2
<1>3. (\A x \in RunNames : b[x] # None => J!PrintFits(b[x].print, b[x].key))'
  BY <1>2 DEF J!PrintFits
<1> QED BY <1>1, <1>3 DEF J!RunsFit, J!PrintFits

LEMMA ContractReplacedBy ==
  ASSUME J!CapturesInv, h' = h \/ \E k \in J!Keys : h' = Append(h, k),
         NEW id \in RunNames, NEW contract,
         contract \notin {None, Torn} =>
           /\ J!PrintFits(contract.print, contract.key)'
           /\ contract.hard = J!FilesOf(contract.plan),
         c' = [c EXCEPT ![id] = contract]
  PROVE  J!ContractsFit'
<1>1. DOMAIN c' = RunNames /\ c'[id] = contract /\ \A x \in RunNames : x # id => c'[x] = c[x]
  BY DEF J!CapturesInv, J!ContractsFit
<1>2. ASSUME NEW x \in RunNames, NEW other, other = c'[x], other \notin {None, Torn}
      PROVE  J!PrintFits(other.print, other.key)' /\ other.hard = J!FilesOf(other.plan)
  <2>1. CASE x = id
    BY <1>1, <1>2, <2>1
  <2>2. CASE x # id
    <3>1. other = c[x] /\ J!Readable(x)
      BY <1>1, <1>2, <2>2 DEF J!Readable
    <3>2. /\ J!PrintFits(other.print, other.key) /\ J!CapturesFit
          /\ other.hard = J!FilesOf(other.plan)
      BY <3>1 DEF J!CapturesInv, J!ContractsFit
    <3> QED BY <3>2, PrintKept
  <2> QED BY <2>1, <2>2
<1>3. (\A x \in RunNames : J!Readable(x) =>
        J!PrintFits(c[x].print, c[x].key) /\ c[x].hard = J!FilesOf(c[x].plan))'
  BY <1>2 DEF J!PrintFits, J!Readable
<1> QED BY <1>1, <1>3 DEF J!ContractsFit, J!PrintFits, J!Readable, J!FilesOf

(* A contract has the fingerprints, the plan and the scan of its run.       *)
LEMMA ContractIsOfRun ==
  ASSUME NEW run, NEW contract, contract = J!BuildContract(run)
  PROVE  /\ contract.print = run.print /\ contract.key = run.key
         /\ contract.hard = J!FilesOf(contract.plan)
BY DEF J!BuildContract, J!Obligations

(* An audit replaces a run, whatever it reached.                            *)
LEMMA AuditReplaces ==
  ASSUME J!CapturesInv, NEW id \in RunNames, NEW reached, NEW way \in J!Ways, NEW counts,
         J!Inspect(way), a' = a, NEW run, run = J!Audited(id, reached, way, counts)
  PROVE  /\ J!CapturesFit' /\ \E k \in J!Keys : h' = Append(h, k)
         /\ J!PrintFits(run.print, run.key)'
<1>1. PICK print, key : print = J!SourceFingerprints(id, way, counts) /\ key = way.key
  OBVIOUS
<1>2. /\ J!CapturesFit' /\ \E k \in J!Keys : h' = Append(h, k) /\ J!PrintFits(print, key)'
  BY <1>1, Inspected DEF J!CapturesInv
<1>3. run.print = print /\ run.key = key
  BY <1>1 DEF J!Audited
<1> QED BY <1>2, <1>3 DEF J!PrintFits

(* prepare and refresh: an audit when there is none to go by, and then the  *)
(* contract of the run.                                                     *)
LEMMA ContractWritten ==
  ASSUME J!CapturesInv, NEW id \in RunNames, J!Ensured(id) PROVE J!CapturesInv'
<1>1. CASE J!Reusable(id) /\ J!Write(id, b[id]) /\ UNCHANGED <<g, h>>
  <2>1. PICK run, contract : run = b[id] /\ contract = J!BuildContract(run)
    OBVIOUS
  <2>2. /\ run # None /\ b' = [b EXCEPT ![id] = run] /\ c' = [c EXCEPT ![id] = contract]
        /\ UNCHANGED <<a, d, g, h>> /\ e' = None
    BY <1>1, <2>1 DEF J!Reusable, J!Write
  <2>3. J!PrintFits(run.print, run.key)
    BY <2>1, <2>2 DEF J!CapturesInv, J!RunsFit
  <2>4. J!PrintFits(run.print, run.key)'
    BY <2>2, <2>3 DEF J!PrintFits
  <2>5. J!PrintFits(contract.print, contract.key)' /\ contract.hard = J!FilesOf(contract.plan)
    BY <2>1, <2>4, ContractIsOfRun DEF J!PrintFits
  <2> QED BY <2>2, <2>4, <2>5, CapturesKept, RunReplacedBy, ContractReplacedBy, ReceiptKept,
             NothingReported DEF J!CapturesInv
<1>2. ASSUME NEW way \in J!Ways, NEW counts \in ScanCounts, J!Inspect(way),
             J!Write(id, J!Audited(id, "plan", way, counts))
      PROVE  J!CapturesInv'
  <2>1. PICK run, contract : /\ run = J!Audited(id, "plan", way, counts)
                             /\ contract = J!BuildContract(run)
    OBVIOUS
  <2>2. /\ b' = [b EXCEPT ![id] = run] /\ c' = [c EXCEPT ![id] = contract]
        /\ UNCHANGED <<a, d>> /\ e' = None
    BY <1>2, <2>1 DEF J!Write
  <2>3. /\ J!CapturesFit' /\ \E k \in J!Keys : h' = Append(h, k)
        /\ J!PrintFits(run.print, run.key)'
    BY <1>2, <2>1, <2>2, AuditReplaces
  <2>4. J!PrintFits(contract.print, contract.key)' /\ contract.hard = J!FilesOf(contract.plan)
    BY <2>1, <2>3, ContractIsOfRun DEF J!PrintFits
  <2> QED BY <2>2, <2>3, <2>4, RunReplacedBy, ContractReplacedBy, ReceiptKept, NothingReported
             DEF J!CapturesInv
<1> QED BY <1>1, <1>2 DEF J!Ensured

(* An audit ends or dies.                                                   *)
LEMMA AuditEnds ==
  ASSUME J!CapturesInv, NEW id \in RunNames, J!Audit(id) \/ J!AuditDies(id) PROVE J!CapturesInv'
<1>1. PICK reached \in {"scan", "manifest", "plan"}, way \in J!Ways, counts \in ScanCounts :
        J!Inspect(way) /\ b' = [b EXCEPT ![id] = J!Audited(id, reached, way, counts)]
  <2>1. CASE J!Audit(id)
    BY <2>1 DEF J!Audit
  <2>2. CASE J!AuditDies(id)
    BY <2>2 DEF J!AuditDies
  <2> QED BY <2>1, <2>2
<1>2. UNCHANGED <<a, c, d>> /\ e' = None
  BY DEF J!Audit, J!AuditDies
<1>3. PICK run : run = J!Audited(id, reached, way, counts)
  OBVIOUS
<1>4. /\ J!CapturesFit' /\ \E k \in J!Keys : h' = Append(h, k)
      /\ J!PrintFits(run.print, run.key)'
  BY <1>1, <1>2, <1>3, AuditReplaces
<1>5. J!RunsFit'
  BY <1>1, <1>3, <1>4, RunReplacedBy
<1>6. J!ContractsFit' /\ J!ReceiptFits'
  BY <1>2, <1>4, ContractsKept, ReceiptKept
<1> QED BY <1>2, <1>4, <1>5, <1>6, NothingReported DEF J!CapturesInv

(* A contract becomes unreadable.                                           *)
LEMMA ContractTorn ==
  ASSUME J!CapturesInv, NEW id \in RunNames, J!WriteDies(id) PROVE J!CapturesInv'
<1>1. UNCHANGED <<a, b, d, g, h>> /\ c' = [c EXCEPT ![id] = Torn] /\ e' = None
  BY DEF J!WriteDies
<1>2. J!ContractsFit'
  BY <1>1, ContractReplacedBy
<1> QED BY <1>1, <1>2, CapturesKept, RunsKept, ReceiptKept, NothingReported DEF J!CapturesInv

(* An agent delivers on a contract that can be read.                        *)
LEMMA Delivered ==
  ASSUME J!CapturesInv, NEW id \in RunNames, J!Readable(id), NEW done,
         NEW print \in {c[id].print, <<>>}, J!Deliver(id, done, print)
  PROVE  J!CapturesInv'
<1>1. PICK contract, given :
        /\ contract = c[id]
        /\ given = [print |-> print, passed |-> done, met |-> {p \in contract.plan : p[1] \in done},
                    plan |-> contract.plan, scan |-> contract.scan, key |-> contract.key]
  OBVIOUS
<1>2. d' = given /\ UNCHANGED <<a, b, c, g, h>> /\ e' = None
  BY <1>1 DEF J!Deliver
<1>3. J!PrintFits(contract.print, contract.key)
  BY <1>1 DEF J!CapturesInv, J!ContractsFit
<1>4. given.met = {p \in given.plan : p[1] \in given.passed}
  BY <1>1
<1>5. given.print # <<>> => J!PrintFits(given.print, given.key)
  BY <1>1, <1>3
<1>6. J!ReceiptFits'
  BY <1>2, <1>4, <1>5 DEF J!ReceiptFits, J!PrintFits
<1> QED BY <1>2, <1>6, CapturesKept, RunsKept, ContractsKept, NothingReported DEF J!CapturesInv

(* A result that has the fingerprints of a contract is of the same capture, *)
(* and the source it was delivered on has the same key.                     *)
LEMMA SameKey ==
  ASSUME J!CapturesInv, NEW id \in RunNames, J!Readable(id), d # None, d.print = c[id].print
  PROVE  d.key = c[id].key
<1>1. J!PrintFits(c[id].print, c[id].key)
  BY DEF J!CapturesInv, J!ContractsFit
<1>2. d.print # <<>>
  <2>1. Len(d.print) = 3
    BY <1>1 DEF J!PrintFits
  <2>2. Len(<<>>) = 0
    OBVIOUS
  <2>3. d.print = <<>> => Len(d.print) = Len(<<>>)
    OBVIOUS
  <2> QED BY <2>1, <2>2, <2>3
<1>3. J!PrintFits(d.print, d.key)
  BY <1>2 DEF J!CapturesInv, J!ReceiptFits
<1> QED BY <1>1, <1>3 DEF J!PrintFits

(* What is ready or reconciled answers for all that was owed.               *)
LEMMA ReconciledIsWhole ==
  ASSUME J!CapturesInv, NEW id \in RunNames, J!Reconcile(id) PROVE J!DeliveriesAreWhole'
<1>1. PICK contract, given, of :
        /\ contract = c[id] /\ given = d
        /\ of = {J!Origin(contract), J!Origin(given)}
  OBVIOUS
<1>2. /\ J!Readable(id) /\ given # None
      /\ e'.owed = contract.plan /\ e'.met = given.met /\ e'.of = of
      /\ e'.status # "blocked" => J!Blockers(contract, given) = {}
  BY <1>1 DEF J!Reconcile
<1>3. contract.hard = J!FilesOf(contract.plan)
  BY <1>1, <1>2 DEF J!CapturesInv, J!ContractsFit
<1>4. given.met = {p \in given.plan : p[1] \in given.passed}
  BY <1>1, <1>2 DEF J!CapturesInv, J!ReceiptFits
<1>5. ASSUME J!Blockers(contract, given) = {}, J!ToldApart(of) PROVE contract.plan \subseteq given.met
  <2>1. given.print = contract.print /\ contract.hard \subseteq given.passed
    BY <1>5 DEF J!Blockers
  <2>2. given.key = contract.key
    BY <1>1, <1>2, <2>1, SameKey
  <2>3. PICK x, y : x = J!Origin(contract) /\ y = J!Origin(given)
    OBVIOUS
  <2>4. x.plan = x.scan /\ y.plan = y.scan /\ (x.key = y.key => x.scan = y.scan)
    BY <1>1, <1>5, <2>3 DEF J!ToldApart
  <2>5. /\ x.plan = contract.plan /\ x.key = contract.key
        /\ y.plan = given.plan /\ y.key = given.key
    BY <2>3 DEF J!Origin
  <2>6. given.plan = contract.plan
    BY <2>2, <2>4, <2>5
  <2>7. \A p \in contract.plan : p[1] \in contract.hard
    BY <1>3 DEF J!FilesOf
  <2> QED BY <1>4, <2>1, <2>6, <2>7
<1>6. (J!ToldApart(e.of))' <=> J!ToldApart(of)
  BY <1>2 DEF J!ToldApart
<1> QED BY <1>2, <1>5, <1>6 DEF J!DeliveriesAreWhole

LEMMA ReadyIsWhole ==
  ASSUME J!CapturesInv, NEW id \in RunNames, NEW plan, J!Preflight(id, plan)
  PROVE  J!DeliveriesAreWhole'
<1>1. PICK contract, named : contract = c[id] /\ named = plan.ids \cup plan.paths
  OBVIOUS
<1>2. /\ J!Readable(id) /\ e'.owed = contract.plan
      /\ e'.met = {p \in contract.plan : p[1] \in named}
      /\ e'.alike = {p \in contract.plan : p[1] \notin named /\ J!Within(p[1], named)}
      /\ e'.status # "blocked" => \A x \in contract.hard : J!Covered(x, plan)
  BY <1>1 DEF J!Preflight
<1>3. \A p \in contract.plan : p[1] \in contract.hard
  BY <1>1, <1>2 DEF J!CapturesInv, J!ContractsFit, J!FilesOf
<1>4. \A x : J!Covered(x, plan) => J!Within(x, named)
  BY <1>1 DEF J!Covered, J!Within
<1>5. e'.status # "blocked" => e'.owed \subseteq e'.met \cup e'.alike
  BY <1>2, <1>3, <1>4
<1> QED BY <1>5 DEF J!DeliveriesAreWhole

LEMMA CapturesStep == ASSUME J!CapturesInv, J!Next PROVE J!CapturesInv'
<1>1. ASSUME NEW id \in RunNames, NEW old \in RunNames, J!Prepare(id) \/ J!Refresh(id, old)
      PROVE  J!CapturesInv'
  BY <1>1, ContractWritten DEF J!Prepare, J!Refresh
<1>2. ASSUME NEW id \in RunNames, J!Audit(id) \/ J!AuditDies(id) PROVE J!CapturesInv'
  BY <1>2, AuditEnds
<1>3. ASSUME NEW id \in RunNames, J!WriteDies(id) PROVE J!CapturesInv'
  BY <1>3, ContractTorn
<1>4. ASSUME NEW id \in RunNames, J!Readable(id), NEW done \in SUBSET c[id].hard,
             NEW print \in {c[id].print, <<>>}, J!Deliver(id, done, print)
      PROVE  J!CapturesInv'
  BY <1>4, Delivered
<1>5. ASSUME NEW id \in RunNames, J!Reconcile(id) PROVE J!CapturesInv'
  <2>1. UNCHANGED <<a, b, c, d, g, h>>
    BY <1>5 DEF J!Reconcile
  <2> QED BY <1>5, <2>1, CapturesKept, RunsKept, ContractsKept, ReceiptKept, ReconciledIsWhole
             DEF J!CapturesInv
<1>6. ASSUME NEW id \in RunNames, NEW plan \in AgentPlans, J!Preflight(id, plan)
      PROVE  J!CapturesInv'
  <2>1. UNCHANGED <<a, b, c, d, g, h>>
    BY <1>6 DEF J!Preflight
  <2> QED BY <1>6, <2>1, CapturesKept, RunsKept, ContractsKept, ReceiptKept, ReadyIsWhole
             DEF J!CapturesInv
<1>7. ASSUME J!Edit PROVE J!CapturesInv'
  <2>1. UNCHANGED <<b, c, d, g, h>> /\ a' \in OwedFlaws /\ e' = None
    BY <1>7 DEF J!Edit
  <2>2. J!CapturesFit'
    BY <2>1 DEF J!CapturesInv, J!CapturesFit, J!Keys
  <2> QED BY <2>1, <2>2, RunsKept, ContractsKept, ReceiptKept, NothingReported DEF J!CapturesInv
<1> QED BY <1>1, <1>2, <1>3, <1>4, <1>5, <1>6, <1>7 DEF J!Next

(* The capture in a fingerprint says which inventory key the source had that *)
(* was scanned, whatever is audited again, found in a cache, or dies.        *)
THEOREM CapturesSayTheKey == Parts => [](part = "delivery" => J!CapturesInv)
<1>1. PartsInit => (part = "delivery" => J!CapturesInv)
  BY CapturesInit
<1>2. (part = "delivery" => J!CapturesInv) /\ [PartsNext]_parts => (part = "delivery" => J!CapturesInv)'
  <2> SUFFICES ASSUME part = "delivery" => J!CapturesInv, [PartsNext]_parts, part' = "delivery"
               PROVE  J!CapturesInv'
    OBVIOUS
  <2>1. CASE PartsNext
    <3>1. J!CapturesInv /\ J!Next
      BY <2>1 DEF PartsNext
    <3> QED BY <3>1, CapturesStep
  <2>2. CASE UNCHANGED parts
    <3>1. J!CapturesInv /\ UNCHANGED <<a, b, c, d, e, g, h>>
      BY <2>2 DEF parts
    <3>2. J!DeliveriesAreWhole'
      BY <3>1 DEF J!CapturesInv, J!DeliveriesAreWhole, J!ToldApart
    <3> QED BY <3>1, <3>2, CapturesKept, RunsKept, ContractsKept, ReceiptKept DEF J!CapturesInv
  <2> QED BY <2>1, <2>2
<1> QED BY <1>1, <1>2, PTL DEF Parts

(* A plan that is ready names every flaw that its contract owes, if only in  *)
(* a longer name, and a reconciled delivery worked on each, when the keys of *)
(* inventories tell the sources apart and no death left another's plan.      *)
THEOREM DeliveriesWhole == Parts => []DeliveriesAreWhole
<1>1. (part = "delivery" => J!CapturesInv) => DeliveriesAreWhole
  BY DEF DeliveriesAreWhole, J!CapturesInv
<1> QED BY <1>1, CapturesSayTheKey, PTL

-----------------------------------------------------------------------------
(* FleetAudit.                                                              *)

(* What was earned stays earned.                                            *)
LEMMA EarnedStays ==
  ASSUME e \subseteq e', f \subseteq f'
  PROVE  /\ \A m, r, head : F!Earned(m, r, head) => F!Earned(m, r, head)'
         /\ \A m, r : F!FindingHolds(m, r) => F!FindingHolds(m, r)'
         /\ \A job : F!DoneFits(job) => F!DoneFits(job)'
         /\ \A job : F!RowsEarned(job) => F!RowsEarned(job)'
<1>1. ASSUME NEW m, NEW r, NEW head, F!Earned(m, r, head) PROVE F!Earned(m, r, head)'
  BY <1>1 DEF F!Earned
<1>2. ASSUME NEW m, NEW r, F!FindingHolds(m, r) PROVE F!FindingHolds(m, r)'
  BY <1>1, <1>2 DEF F!FindingHolds
<1>3. ASSUME NEW job, F!DoneFits(job) PROVE F!DoneFits(job)'
  BY <1>2, <1>3 DEF F!DoneFits
<1>4. ASSUME NEW job, F!RowsEarned(job) PROVE F!RowsEarned(job)'
  BY <1>1, <1>4 DEF F!RowsEarned
<1> QED BY <1>1, <1>2, <1>3, <1>4

LEMMA AuditsStand ==
  ASSUME F!AuditsFit, b' = b, e \subseteq e', f \subseteq f'
  PROVE  F!AuditsFit'
<1>1. ASSUME NEW day \in AuditDays, NEW r \in FleetRepos
      PROVE  F!FindingHolds(b[day].findings[r], r)'
  <2>1. PICK m : m = b[day].findings[r]
    OBVIOUS
  <2>2. F!FindingHolds(m, r)'
    BY <2>1, EarnedStays DEF F!AuditsFit
  <2> QED BY <2>1, <2>2
<1>2. ASSUME NEW day \in AuditDays PROVE F!OfInventory(day)'
  BY DEF F!AuditsFit, F!OfInventory
<1> QED BY <1>1, <1>2 DEF F!AuditsFit, F!Unreadable

(* What is left to show of a step of an audit or a feed.                    *)
LEMMA FleetStepOf ==
  ASSUME F!FeedInv, NEW p \in Workers, NEW phase, NEW job, F!Go(p, phase, job),
         a' = a, e \subseteq e', f \subseteq f', F!AuditsFit', F!InHand(p)',
         \A day \in AuditDays : b[day].inventory # None =>
           /\ b'[day].inventory # None
           /\ day \notin f' => b'[day].inventory = b[day].inventory,
         \/ d' = d
         \/ \E rows : d' = rows /\ F!RowsEarned(rows)
  PROVE  F!FeedInv'
<1>1. ASSUME NEW q \in Workers, q # p PROVE F!InHand(q)'
  <2>1. PICK own : own = h[q]
    OBVIOUS
  <2>2. h'[q] = own /\ g'[q] = g[q] /\ F!InHand(q)
    BY <1>1, <2>1 DEF F!Go, F!FeedInv
  <2>3. F!DoneFits(own) => F!DoneFits(own)'
    BY EarnedStays
  <2>4. F!RowsEarned(own) => F!RowsEarned(own)'
    BY EarnedStays
  <2>5. g[q] \in {"summary", "findings"} =>
          /\ b'[own.day].inventory # None
          /\ own.day \notin f' => b'[own.day].inventory = own.targets
    BY <2>1, <2>2 DEF F!InHand
  <2>6. F!Replays(own.read)' = F!Replays(own.read)
    BY DEF F!Replays, F!Readable, F!Findings, F!Unreadable
  <2>7. F!TargetsFit(own.targets)' = F!TargetsFit(own.targets)
    BY DEF F!TargetsFit, F!Unreadable
  <2> QED BY <2>1, <2>2, <2>3, <2>4, <2>5, <2>6, <2>7 DEF F!InHand
<1>2. d' # None => F!RowsEarned(d)'
  <2>1. CASE d' = d
    <3>1. PICK rows : rows = d
      OBVIOUS
    <3>2. d # None => F!RowsEarned(rows)'
      BY <3>1, EarnedStays DEF F!FeedInv
    <3> QED BY <2>1, <3>1, <3>2
  <2>2. ASSUME NEW rows, d' = rows, F!RowsEarned(rows) PROVE F!RowsEarned(d)'
    BY <2>2, EarnedStays
  <2> QED BY <2>1, <2>2
<1>3. DOMAIN g' = Workers /\ DOMAIN h' = Workers /\ a' \in [FleetRepos -> FleetWorlds]
  BY DEF F!FeedInv, F!Go
<1> QED BY <1>1, <1>2, <1>3 DEF F!FeedInv

LEMMA DiscoverAuditStep ==
  ASSUME F!FeedInv, NEW p \in Workers, NEW day \in AuditDays, F!Discover(p, day)
  PROVE  F!FeedInv'
<1>1. PICK there \in SUBSET FleetRepos : there = {r \in FleetRepos : a[r] # None}
  OBVIOUS
<1>2. PICK targets : targets = [r \in there |-> F!Target(a[r])]
  OBVIOUS
<1>3. PICK job : job = [day |-> day, left |-> there, done |-> [r \in {} |-> None],
                        targets |-> targets]
  OBVIOUS
<1>4. F!Go(p, "examine", job) /\ UNCHANGED <<a, b, c, d, e, f>>
  BY <1>1, <1>2, <1>3 DEF F!Discover
<1>5. targets \in [there -> {F!Target(w) : w \in FleetWorlds \ {None}}]
  BY <1>1, <1>2 DEF F!FeedInv
<1>6. F!TargetsFit(targets)
  <2>1. None # targets /\ Torn # targets
    BY <1>5, FleetAssumption
  <2> QED BY <1>5, <2>1 DEF F!TargetsFit, F!Unreadable
<1>7. /\ job.day = day /\ job.left = there /\ job.targets = targets
      /\ job.done = [r \in {} |-> None] /\ DOMAIN job = {"day", "left", "targets", "done"}
  BY <1>3
<1>8. g'[p] = "examine" /\ h'[p] = job
  BY <1>4 DEF F!Go, F!FeedInv
<1>9. F!DoneFits(job)'
  BY <1>7 DEF F!DoneFits
<1>10. F!InHand(p)'
  BY <1>5, <1>6, <1>7, <1>8, <1>9 DEF F!InHand, F!TargetsFit, F!Unreadable
<1>11. F!AuditsFit'
  BY <1>4, AuditsStand DEF F!FeedInv
<1> QED BY <1>4, <1>10, <1>11, FleetStepOf

(* The lowest of some repositories is one of them.                          *)
LEMMA LowestIsThere ==
  ASSUME NEW X \in SUBSET FleetRepos, X # {}
  PROVE  F!Lowest(X) \in X
<1> DEFINE Z == {ss \in Nat \X Nat : ss[1] < ss[2]}
<1>1. IsWellFoundedOn(Z, Nat)
  BY NatLessThanWellFounded DEF OpToRel
<1>2. X \subseteq Nat
  BY FleetAssumption
<1>3. PICK m \in X : \A n \in X : ~ (<<n, m>> \in Z)
  <2> HIDE DEF Z
  <2> QED BY <1>1, <1>2, WFMin
<1>4. ASSUME NEW n \in X PROVE m <= n
  <2>1. n \in Nat /\ m \in Nat
    BY <1>2
  <2>2. n < m => <<n, m>> \in Z
    BY <2>1
  <2> QED BY <1>3, <2>1, <2>2
<1> QED BY <1>4 DEF F!Lowest

(* A note that was earned fits with those that were made before.            *)
LEMMA NoteFits ==
  ASSUME NEW job, F!TargetsFit(job.targets), F!DoneFits(job)', NEW r \in DOMAIN job.targets,
         job.left \subseteq DOMAIN job.targets,
         NEW commands, NEW status, NEW own, own = F!Note(job, r, commands, status),
         status \in F!Good =>
           \E x \in e' : x.repo = r /\ x.head = job.targets[r].head /\ x.commands = commands
  PROVE  /\ own.day = job.day /\ own.left = job.left \ {r} /\ own.targets = job.targets
         /\ own.left \subseteq DOMAIN own.targets
         /\ DOMAIN own.done = DOMAIN job.done \cup {r}
         /\ DOMAIN own = {"day", "left", "targets", "done"} /\ F!DoneFits(own)'
<1>1. PICK note : note = [target |-> job.targets[r], commands |-> commands, dynamic |-> status]
  OBVIOUS
<1>2. note.target = job.targets[r] /\ note.commands = commands /\ note.dynamic = status
  BY <1>1
<1>3. PICK done : done = [q \in DOMAIN job.done \cup {r} |-> IF q = r THEN note ELSE job.done[q]]
  OBVIOUS
<1>4. own = [day |-> job.day, left |-> job.left \ {r}, targets |-> job.targets, done |-> done]
  BY <1>1, <1>3 DEF F!Note
<1>5. /\ own.day = job.day /\ own.left = job.left \ {r} /\ own.targets = job.targets
      /\ own.done = done /\ DOMAIN own = {"day", "left", "targets", "done"}
  BY <1>4
<1>6. F!FindingHolds(note, r)'
  BY <1>2 DEF F!FindingHolds, F!Earned
<1>7. ASSUME NEW q \in DOMAIN done PROVE done[q].target = job.targets[q] /\ F!FindingHolds(done[q], q)'
  <2>1. CASE q = r
    BY <1>2, <1>3, <1>6, <2>1
  <2>2. CASE q # r
    <3>1. q \in DOMAIN job.done /\ done[q] = job.done[q]
      BY <1>3, <1>7, <2>2
    <3> QED BY <3>1 DEF F!DoneFits
  <2> QED BY <2>1, <2>2
<1>8. DOMAIN done = DOMAIN job.done \cup {r} /\ DOMAIN job.done \subseteq DOMAIN job.targets
  BY <1>3 DEF F!DoneFits
<1>9. F!DoneFits(own)'
  BY <1>5, <1>7, <1>8 DEF F!DoneFits
<1> QED BY <1>5, <1>8, <1>9

LEMMA ExamineStep ==
  ASSUME F!FeedInv, NEW p \in Workers, F!Examine(p)
  PROVE  F!FeedInv'
<1>1. PICK job : job = h[p]
  OBVIOUS
<1>2. PICK r : r = F!Lowest(job.left)
  OBVIOUS
<1>3. PICK commands : commands = F!Commands(r)
  OBVIOUS
<1>4. g[p] = "examine" /\ job.left # {} /\ a' = a /\ b' = b /\ d' = d /\ e' = e /\ f' = f
  BY <1>1 DEF F!Examine
<1>5. /\ job.day \in AuditDays /\ F!TargetsFit(job.targets) /\ F!DoneFits(job)
      /\ job.left \subseteq DOMAIN job.targets /\ DOMAIN job.done = DOMAIN job.targets \ job.left
  BY <1>1, <1>4 DEF F!FeedInv, F!InHand
<1>6. r \in job.left /\ r \in FleetRepos /\ r \in DOMAIN job.targets
  <2>1. job.left \subseteq FleetRepos
    BY <1>5 DEF F!TargetsFit
  <2> QED BY <1>2, <1>4, <1>5, <2>1, LowestIsThere
<1>7. F!AuditsFit' /\ F!DoneFits(job)'
  BY <1>4, <1>5, AuditsStand, EarnedStays DEF F!FeedInv
<1>8. ASSUME NEW status, F!Go(p, "examine", F!Note(job, r, commands, status)),
             status \in F!Good => F!Reusable(job.day, r, job.targets[r].head, commands)
      PROVE  F!FeedInv'
  <2>1. PICK own : own = F!Note(job, r, commands, status)
    OBVIOUS
  <2>2. g'[p] = "examine" /\ h'[p] = own
    BY <1>8, <2>1 DEF F!Go, F!FeedInv
  <2>3. status \in F!Good =>
          \E x \in e' : x.repo = r /\ x.head = job.targets[r].head /\ x.commands = commands
    <3> SUFFICES ASSUME status \in F!Good
                 PROVE  \E x \in e : x.repo = r /\ x.head = job.targets[r].head
                                       /\ x.commands = commands
      BY <1>4
    <3>1. PICK day \in AuditDays \ {job.day} :
            LET m == b[day].findings[r]
            IN  m \notin F!Unreadable /\ m.dynamic \in F!Good
                  /\ F!SameEvidence(m, job.targets[r].head, commands)
      BY <1>8 DEF F!Reusable
    <3>2. PICK m : m = b[day].findings[r]
      OBVIOUS
    <3>3. m \notin F!Unreadable /\ m.dynamic \in F!Good
          /\ m.target.head = job.targets[r].head /\ m.commands = commands
      BY <3>1, <3>2 DEF F!SameEvidence
    <3>4. F!FindingHolds(m, r)
      BY <1>6, <3>2 DEF F!FeedInv, F!AuditsFit
    <3> QED BY <3>3, <3>4 DEF F!FindingHolds, F!Earned
  <2>4. /\ own.day = job.day /\ own.left = job.left \ {r} /\ own.targets = job.targets
        /\ own.left \subseteq DOMAIN own.targets /\ DOMAIN own.done = DOMAIN job.done \cup {r}
        /\ DOMAIN own = {"day", "left", "targets", "done"} /\ F!DoneFits(own)'
    BY <1>5, <1>6, <1>7, <2>1, <2>3, NoteFits
  <2>5. F!InHand(p)'
    BY <1>5, <1>6, <2>2, <2>4 DEF F!InHand, F!TargetsFit, F!Unreadable
  <2> QED BY <1>4, <1>7, <1>8, <2>5, FleetStepOf
<1>9. ASSUME NEW before,
             F!Go(p, "execute",
                  [day |-> job.day, left |-> job.left \ {r}, targets |-> job.targets,
                   done |-> job.done, repo |-> r, commands |-> commands, before |-> before])
      PROVE  F!FeedInv'
  <2>1. PICK own : own = [day |-> job.day, left |-> job.left \ {r}, targets |-> job.targets,
                          done |-> job.done, repo |-> r, commands |-> commands, before |-> before]
    OBVIOUS
  <2>2. g'[p] = "execute" /\ h'[p] = own
    BY <1>9, <2>1 DEF F!Go, F!FeedInv
  <2>3. /\ own.day = job.day /\ own.left = job.left \ {r} /\ own.targets = job.targets
        /\ own.done = job.done /\ own.repo = r
    BY <2>1
  <2>4. F!DoneFits(own)'
    BY <1>7, <2>3 DEF F!DoneFits
  <2>5. F!InHand(p)'
    BY <1>5, <1>6, <2>2, <2>3, <2>4 DEF F!InHand, F!TargetsFit, F!Unreadable
  <2> QED BY <1>4, <1>7, <1>9, <2>5, FleetStepOf
<1>10. \/ F!Reusable(job.day, r, job.targets[r].head, commands)
            /\ F!Go(p, "examine", F!Note(job, r, commands, "reused"))
       \/ \E status \in {"blocked", "unknown"} : F!Go(p, "examine", F!Note(job, r, commands, status))
       \/ \E before : F!Go(p, "execute",
                  [day |-> job.day, left |-> job.left \ {r}, targets |-> job.targets,
                   done |-> job.done, repo |-> r, commands |-> commands, before |-> before])
  BY <1>1, <1>2, <1>3 DEF F!Examine
<1> QED BY <1>8, <1>9, <1>10 DEF F!Good

LEMMA ExecuteStep ==
  ASSUME F!FeedInv, NEW p \in Workers, F!Execute(p)
  PROVE  F!FeedInv'
<1>1. PICK job : job = h[p]
  OBVIOUS
<1>2. PICK r : r = job.repo
  OBVIOUS
<1>3. PICK pass : pass = [repo |-> r, head |-> job.targets[r].head, commands |-> job.commands,
                          day |-> job.day]
  OBVIOUS
<1>4. PICK status \in {"passed", "failed", "blocked"} :
        /\ e' \in {e, e \cup {pass}} /\ (status = "passed" => e' = e \cup {pass})
        /\ F!Go(p, "examine", F!Note(job, r, job.commands, status))
  <2>1. PICK outcome \in {"passed", "failed"} :
          /\ e' = (IF outcome = "failed" THEN e ELSE e \cup {pass})
          /\ \E status \in {outcome, "blocked"} :
               F!Go(p, "examine", F!Note(job, r, job.commands, status))
    BY <1>1, <1>2, <1>3 DEF F!Execute
  <2> QED BY <2>1
<1>5. g[p] = "execute" /\ a' = a /\ b' = b /\ d' = d /\ e \subseteq e' /\ f' = f
  BY <1>4 DEF F!Execute
<1>6. /\ job.day \in AuditDays /\ F!TargetsFit(job.targets) /\ F!DoneFits(job)
      /\ r \in DOMAIN job.targets \ job.left
      /\ DOMAIN job.done = DOMAIN job.targets \ (job.left \cup {r})
      /\ job.left \subseteq DOMAIN job.targets
  BY <1>1, <1>2, <1>5 DEF F!FeedInv, F!InHand
<1>7. F!AuditsFit' /\ F!DoneFits(job)'
  BY <1>5, <1>6, AuditsStand, EarnedStays DEF F!FeedInv
<1>8. PICK own : own = F!Note(job, r, job.commands, status)
  OBVIOUS
<1>9. g'[p] = "examine" /\ h'[p] = own
  BY <1>4, <1>8 DEF F!Go, F!FeedInv
<1>10. status \in F!Good =>
         \E x \in e' : x.repo = r /\ x.head = job.targets[r].head /\ x.commands = job.commands
  <2> SUFFICES ASSUME status \in F!Good
               PROVE  \E x \in e' : x.repo = r /\ x.head = job.targets[r].head
                                      /\ x.commands = job.commands
    OBVIOUS
  <2>1. status = "passed"
    BY <1>4 DEF F!Good
  <2>2. pass \in e'
    BY <1>4, <2>1
  <2>3. pass.repo = r /\ pass.head = job.targets[r].head /\ pass.commands = job.commands
    BY <1>3
  <2> QED BY <2>2, <2>3
<1>11. /\ own.day = job.day /\ own.left = job.left \ {r} /\ own.targets = job.targets
       /\ own.left \subseteq DOMAIN own.targets /\ DOMAIN own.done = DOMAIN job.done \cup {r}
       /\ DOMAIN own = {"day", "left", "targets", "done"} /\ F!DoneFits(own)'
  BY <1>6, <1>7, <1>8, <1>10, NoteFits
<1>12. DOMAIN own.done = DOMAIN own.targets \ own.left
  BY <1>6, <1>11
<1>13. F!InHand(p)'
  BY <1>6, <1>9, <1>11, <1>12 DEF F!InHand, F!TargetsFit, F!Unreadable
<1> QED BY <1>4, <1>5, <1>7, <1>13, FleetStepOf

(* Only the directory of one day is written to.                             *)
LEMMA DayWritten ==
  ASSUME F!AuditsFit, NEW day \in AuditDays, e \subseteq e', f \subseteq f',
         NEW files, b' = [b EXCEPT ![day] = files],
         DOMAIN files = {"inventory", "summary", "findings"}, DOMAIN files.findings = FleetRepos,
         \A r \in FleetRepos : F!FindingHolds(files.findings[r], r)',
         files.inventory = None => \A r \in FleetRepos : files.findings[r] = None,
         files.inventory \in {None, Torn} \/ DOMAIN files.inventory \subseteq FleetRepos,
         files.inventory # None /\ day \notin f' =>
           \A r \in FleetRepos : files.findings[r] \notin {None, Torn} =>
             /\ files.inventory # Torn /\ r \in DOMAIN files.inventory
             /\ files.findings[r].target = files.inventory[r]
  PROVE  F!AuditsFit'
<1>1. b'[day] = files /\ DOMAIN b' = AuditDays
      /\ \A then \in AuditDays : then # day => b'[then] = b[then]
  BY DEF F!AuditsFit
<1>2. ASSUME NEW then \in AuditDays, NEW r \in FleetRepos
      PROVE  F!FindingHolds(b[then].findings[r], r)'
  <2>1. PICK m : m = b'[then].findings[r]
    OBVIOUS
  <2>2. F!FindingHolds(m, r)'
    <3>1. CASE then = day
      BY <1>1, <2>1, <3>1
    <3>2. CASE then # day
      BY <1>1, <2>1, <3>2, EarnedStays DEF F!AuditsFit
    <3> QED BY <3>1, <3>2
  <2> QED BY <2>1, <2>2
<1>3. ASSUME NEW then \in AuditDays PROVE F!OfInventory(then)'
  <2>1. CASE then = day
    BY <1>1, <2>1 DEF F!OfInventory, F!Unreadable
  <2>2. CASE then # day
    BY <1>1, <2>2 DEF F!AuditsFit, F!OfInventory, F!Unreadable
  <2> QED BY <2>1, <2>2
<1>4. ASSUME NEW then \in AuditDays
      PROVE  /\ DOMAIN b'[then] = {"inventory", "summary", "findings"}
             /\ DOMAIN b'[then].findings = FleetRepos
             /\ b'[then].inventory = None => \A r \in FleetRepos : b'[then].findings[r] = None
             /\ b'[then].inventory \in {None, Torn} \/ DOMAIN b'[then].inventory \subseteq FleetRepos
  <2>1. CASE then = day
    BY <1>1, <2>1
  <2>2. CASE then # day
    BY <1>1, <2>2 DEF F!AuditsFit, F!Unreadable
  <2> QED BY <2>1, <2>2
<1> QED BY <1>1, <1>2, <1>3, <1>4 DEF F!AuditsFit, F!Unreadable

(* The files of a directory as they were.                                   *)
LEMMA FilesOfDay ==
  ASSUME F!AuditsFit, NEW day \in AuditDays, NEW old, old = b[day], e \subseteq e', f \subseteq f'
  PROVE  /\ DOMAIN old = {"inventory", "summary", "findings"} /\ DOMAIN old.findings = FleetRepos
         /\ \A r \in FleetRepos : F!FindingHolds(old.findings[r], r)'
         /\ old.inventory = None => \A r \in FleetRepos : old.findings[r] = None
         /\ old.inventory \in {None, Torn} \/ DOMAIN old.inventory \subseteq FleetRepos
         /\ old.inventory # None /\ day \notin f' =>
              \A r \in FleetRepos : old.findings[r] \notin {None, Torn} =>
                /\ old.inventory # Torn /\ r \in DOMAIN old.inventory
                /\ old.findings[r].target = old.inventory[r]
<1>1. \A r \in FleetRepos : F!FindingHolds(old.findings[r], r)
  BY DEF F!AuditsFit
<1>2. \A r \in FleetRepos : F!FindingHolds(old.findings[r], r)'
  BY <1>1, EarnedStays
<1> QED BY <1>2 DEF F!AuditsFit, F!OfInventory, F!Unreadable

(* A process that is to write its findings, or has begun to.                *)
LEMMA AuditInHand ==
  ASSUME F!FeedInv, NEW p \in Workers, NEW job, job = h[p],
         g[p] \in {"examine", "summary", "findings"}
  PROVE  /\ job.day \in AuditDays /\ F!TargetsFit(job.targets) /\ F!DoneFits(job)
         /\ job.left \subseteq DOMAIN job.targets
         /\ DOMAIN job = {"day", "left", "targets", "done"}
         /\ g[p] = "examine" => DOMAIN job.done = DOMAIN job.targets \ job.left
         /\ g[p] \in {"summary", "findings"} =>
              /\ DOMAIN job.done = DOMAIN job.targets /\ b[job.day].inventory # None
              /\ job.day \notin f => b[job.day].inventory = job.targets
BY DEF F!FeedInv, F!InHand

LEMMA WriteInventoryStep ==
  ASSUME F!FeedInv, NEW p \in Workers, F!WriteInventory(p)
  PROVE  F!FeedInv'
<1>1. PICK job : job = h[p]
  OBVIOUS
<1>2. PICK old : old = b[job.day]
  OBVIOUS
<1>3. PICK files : files = [old EXCEPT !.inventory = job.targets]
  OBVIOUS
<1>4. /\ g[p] = "examine" /\ job.left = {} /\ F!Go(p, "summary", job)
      /\ a' = a /\ b' = [b EXCEPT ![job.day] = files] /\ d' = d /\ e' = e
      /\ f' = IF old.inventory = None THEN f ELSE f \cup {job.day}
  BY <1>1, <1>2, <1>3 DEF F!WriteInventory, F!Write
<1>5. /\ job.day \in AuditDays /\ F!TargetsFit(job.targets) /\ F!DoneFits(job)
      /\ DOMAIN job.done = DOMAIN job.targets /\ DOMAIN job = {"day", "left", "targets", "done"}
  BY <1>1, <1>4, AuditInHand
<1>6. f \subseteq f' /\ (old.inventory # None => job.day \in f') /\ (old.inventory = None => f' = f)
  BY <1>4
<1>7. /\ DOMAIN old = {"inventory", "summary", "findings"} /\ DOMAIN old.findings = FleetRepos
      /\ \A r \in FleetRepos : F!FindingHolds(old.findings[r], r)'
      /\ old.inventory = None => \A r \in FleetRepos : old.findings[r] = None
  BY <1>2, <1>4, <1>5, <1>6, FilesOfDay DEF F!FeedInv
<1>8. /\ DOMAIN files = DOMAIN old /\ files.inventory = job.targets /\ files.findings = old.findings
  BY <1>3, <1>7
<1>9. job.targets \notin {None, Torn} /\ DOMAIN job.targets \subseteq FleetRepos
  BY <1>5 DEF F!TargetsFit, F!Unreadable
<1>10. F!AuditsFit'
  <2>1. \A r \in FleetRepos : F!FindingHolds(files.findings[r], r)'
    BY <1>7, <1>8
  <2>2. files.inventory # None /\ job.day \notin f' =>
          \A r \in FleetRepos : files.findings[r] \notin {None, Torn} =>
            /\ files.inventory # Torn /\ r \in DOMAIN files.inventory
            /\ files.findings[r].target = files.inventory[r]
    BY <1>6, <1>7, <1>8
  <2>3. /\ DOMAIN files = {"inventory", "summary", "findings"}
        /\ DOMAIN files.findings = FleetRepos /\ files.inventory # None
        /\ DOMAIN files.inventory \subseteq FleetRepos
    BY <1>7, <1>8, <1>9
  <2>4. F!AuditsFit /\ b' = [b EXCEPT ![job.day] = files] /\ e \subseteq e'
    BY <1>4 DEF F!FeedInv
  <2> QED BY <1>5, <1>6, <2>1, <2>2, <2>3, <2>4, DayWritten
<1>11. DOMAIN b = AuditDays
  BY DEF F!FeedInv, F!AuditsFit
<1>12. \A day \in AuditDays : b[day].inventory # None =>
         /\ b'[day].inventory # None
         /\ day \notin f' => b'[day].inventory = b[day].inventory
  BY <1>2, <1>4, <1>6, <1>8, <1>9, <1>11
<1>13. g'[p] = "summary" /\ h'[p] = job /\ F!DoneFits(job)'
  BY <1>4, <1>5, <1>6, EarnedStays DEF F!Go, F!FeedInv
<1>14. b'[job.day].inventory = job.targets
  BY <1>4, <1>5, <1>8, <1>11
<1>15. F!InHand(p)'
  BY <1>4, <1>5, <1>9, <1>13, <1>14 DEF F!InHand, F!TargetsFit, F!Unreadable
<1> QED BY <1>4, <1>6, <1>10, <1>12, <1>15, FleetStepOf

LEMMA WriteSummaryStep ==
  ASSUME F!FeedInv, NEW p \in Workers, F!WriteSummary(p)
  PROVE  F!FeedInv'
<1>1. PICK job : job = h[p]
  OBVIOUS
<1>2. PICK old : old = b[job.day]
  OBVIOUS
<1>3. PICK files : files = [old EXCEPT !.summary = job.done]
  OBVIOUS
<1>4. PICK own : own = [job EXCEPT !.left = DOMAIN job.done]
  OBVIOUS
<1>5. /\ g[p] = "summary" /\ F!Go(p, "findings", own)
      /\ a' = a /\ b' = [b EXCEPT ![job.day] = files] /\ d' = d /\ e' = e /\ f' = f
  BY <1>1, <1>2, <1>3, <1>4 DEF F!WriteSummary, F!Write
<1>6. /\ job.day \in AuditDays /\ F!TargetsFit(job.targets) /\ F!DoneFits(job)
      /\ DOMAIN job = {"day", "left", "targets", "done"}
      /\ DOMAIN job.done = DOMAIN job.targets /\ old.inventory # None
      /\ job.day \notin f => old.inventory = job.targets
  BY <1>1, <1>2, <1>5, AuditInHand
<1>7. /\ DOMAIN old = {"inventory", "summary", "findings"} /\ DOMAIN old.findings = FleetRepos
      /\ \A r \in FleetRepos : F!FindingHolds(old.findings[r], r)'
      /\ old.inventory \in {None, Torn} \/ DOMAIN old.inventory \subseteq FleetRepos
      /\ old.inventory # None /\ job.day \notin f' =>
           \A r \in FleetRepos : old.findings[r] \notin {None, Torn} =>
             /\ old.inventory # Torn /\ r \in DOMAIN old.inventory
             /\ old.findings[r].target = old.inventory[r]
  BY <1>2, <1>5, <1>6, FilesOfDay DEF F!FeedInv
<1>8. /\ DOMAIN files = DOMAIN old /\ files.inventory = old.inventory
      /\ files.findings = old.findings
  BY <1>3, <1>7
<1>9. F!AuditsFit'
  <2>1. \A r \in FleetRepos : F!FindingHolds(files.findings[r], r)'
    BY <1>7, <1>8
  <2>2. files.inventory # None /\ job.day \notin f' =>
          \A r \in FleetRepos : files.findings[r] \notin {None, Torn} =>
            /\ files.inventory # Torn /\ r \in DOMAIN files.inventory
            /\ files.findings[r].target = files.inventory[r]
    BY <1>7, <1>8
  <2>3. /\ DOMAIN files = {"inventory", "summary", "findings"}
        /\ DOMAIN files.findings = FleetRepos /\ files.inventory # None
        /\ files.inventory \in {None, Torn} \/ DOMAIN files.inventory \subseteq FleetRepos
    BY <1>6, <1>7, <1>8
  <2>4. F!AuditsFit /\ b' = [b EXCEPT ![job.day] = files] /\ e \subseteq e' /\ f \subseteq f'
    BY <1>5 DEF F!FeedInv
  <2> QED BY <1>6, <2>1, <2>2, <2>3, <2>4, DayWritten
<1>10. DOMAIN b = AuditDays
  BY DEF F!FeedInv, F!AuditsFit
<1>11. \A day \in AuditDays : b'[day].inventory = b[day].inventory
  BY <1>2, <1>5, <1>8, <1>10
<1>12. /\ own.day = job.day /\ own.targets = job.targets /\ own.done = job.done
       /\ own.left = DOMAIN job.done /\ DOMAIN own = DOMAIN job
  BY <1>4, <1>6
<1>14. g'[p] = "findings" /\ h'[p] = own /\ F!DoneFits(job)'
  BY <1>5, <1>6, EarnedStays DEF F!Go, F!FeedInv
<1>15. F!DoneFits(own)'
  BY <1>12, <1>14 DEF F!DoneFits
<1>16. F!InHand(p)'
  BY <1>2, <1>5, <1>6, <1>11, <1>12, <1>14, <1>15 DEF F!InHand, F!TargetsFit, F!Unreadable
<1> QED BY <1>5, <1>9, <1>11, <1>16, FleetStepOf

LEMMA WriteFindingStep ==
  ASSUME F!FeedInv, NEW p \in Workers, F!WriteFinding(p)
  PROVE  F!FeedInv'
<1>1. PICK job : job = h[p]
  OBVIOUS
<1>2. PICK old : old = b[job.day]
  OBVIOUS
<1>3. PICK r : r = F!Lowest(job.left)
  OBVIOUS
<1>4. PICK findings : findings = [old.findings EXCEPT ![r] = job.done[r]]
  OBVIOUS
<1>5. PICK files : files = [old EXCEPT !.findings = findings]
  OBVIOUS
<1>6. PICK own : own = [job EXCEPT !.left = job.left \ {r}]
  OBVIOUS
<1>7. /\ g[p] = "findings" /\ job.left # {} /\ F!Go(p, "findings", own)
      /\ a' = a /\ b' = [b EXCEPT ![job.day] = files] /\ d' = d /\ e' = e /\ f' = f
  BY <1>1, <1>2, <1>3, <1>4, <1>5, <1>6 DEF F!WriteFinding, F!Write
<1>8. /\ job.day \in AuditDays /\ F!TargetsFit(job.targets) /\ F!DoneFits(job)
      /\ DOMAIN job = {"day", "left", "targets", "done"}
      /\ DOMAIN job.done = DOMAIN job.targets /\ old.inventory # None
      /\ job.left \subseteq DOMAIN job.targets
      /\ job.day \notin f => old.inventory = job.targets
  BY <1>1, <1>2, <1>7, AuditInHand
<1>9. r \in job.left /\ r \in FleetRepos /\ r \in DOMAIN job.done
  <2>1. job.left \subseteq FleetRepos
    BY <1>8 DEF F!TargetsFit
  <2> QED BY <1>3, <1>7, <1>8, <2>1, LowestIsThere
<1>10. /\ DOMAIN old = {"inventory", "summary", "findings"} /\ DOMAIN old.findings = FleetRepos
       /\ \A q \in FleetRepos : F!FindingHolds(old.findings[q], q)'
       /\ old.inventory \in {None, Torn} \/ DOMAIN old.inventory \subseteq FleetRepos
       /\ old.inventory # None /\ job.day \notin f' =>
            \A q \in FleetRepos : old.findings[q] \notin {None, Torn} =>
              /\ old.inventory # Torn /\ q \in DOMAIN old.inventory
              /\ old.findings[q].target = old.inventory[q]
  BY <1>2, <1>7, <1>8, FilesOfDay DEF F!FeedInv
<1>11. /\ DOMAIN files = DOMAIN old /\ files.inventory = old.inventory /\ files.findings = findings
       /\ DOMAIN findings = FleetRepos
       /\ \A q \in FleetRepos : findings[q] = IF q = r THEN job.done[r] ELSE old.findings[q]
  BY <1>4, <1>5, <1>9, <1>10
<1>12. g'[p] = "findings" /\ h'[p] = own /\ F!DoneFits(job)'
  BY <1>7, <1>8, EarnedStays DEF F!Go, F!FeedInv
<1>13. F!FindingHolds(job.done[r], r)' /\ job.done[r].target = job.targets[r]
  BY <1>8, <1>9, <1>12 DEF F!DoneFits
<1>14. \A q \in FleetRepos : F!FindingHolds(findings[q], q)'
  <2> TAKE q \in FleetRepos
  <2>1. CASE q = r
    BY <1>11, <1>13, <2>1
  <2>2. CASE q # r
    BY <1>10, <1>11, <2>2
  <2> QED BY <2>1, <2>2
<1>15. job.day \notin f' =>
         \A q \in FleetRepos : findings[q] \notin {None, Torn} =>
           /\ old.inventory # Torn /\ q \in DOMAIN old.inventory
           /\ findings[q].target = old.inventory[q]
  <2> SUFFICES ASSUME job.day \notin f', NEW q \in FleetRepos, findings[q] \notin {None, Torn}
               PROVE  /\ old.inventory # Torn /\ q \in DOMAIN old.inventory
                      /\ findings[q].target = old.inventory[q]
    OBVIOUS
  <2>1. CASE q = r
    BY <1>7, <1>8, <1>9, <1>11, <1>13, <2>1 DEF F!TargetsFit, F!Unreadable
  <2>2. CASE q # r
    BY <1>8, <1>10, <1>11, <2>2
  <2> QED BY <2>1, <2>2
<1>16. F!AuditsFit'
  <2>1. \A q \in FleetRepos : F!FindingHolds(files.findings[q], q)'
    BY <1>11, <1>14
  <2>2. files.inventory # None /\ job.day \notin f' =>
          \A q \in FleetRepos : files.findings[q] \notin {None, Torn} =>
            /\ files.inventory # Torn /\ q \in DOMAIN files.inventory
            /\ files.findings[q].target = files.inventory[q]
    BY <1>11, <1>15
  <2>3. /\ DOMAIN files = {"inventory", "summary", "findings"}
        /\ DOMAIN files.findings = FleetRepos /\ files.inventory # None
        /\ files.inventory \in {None, Torn} \/ DOMAIN files.inventory \subseteq FleetRepos
    BY <1>8, <1>10, <1>11
  <2>4. F!AuditsFit /\ b' = [b EXCEPT ![job.day] = files] /\ e \subseteq e' /\ f \subseteq f'
    BY <1>7 DEF F!FeedInv
  <2> QED BY <1>8, <2>1, <2>2, <2>3, <2>4, DayWritten
<1>17. DOMAIN b = AuditDays
  BY DEF F!FeedInv, F!AuditsFit
<1>18. \A day \in AuditDays : b'[day].inventory = b[day].inventory
  BY <1>2, <1>7, <1>11, <1>17
<1>19. /\ own.day = job.day /\ own.targets = job.targets /\ own.done = job.done
       /\ own.left = job.left \ {r} /\ DOMAIN own = DOMAIN job
  BY <1>6, <1>8
<1>20. F!DoneFits(own)'
  BY <1>12, <1>19 DEF F!DoneFits
<1>21. F!InHand(p)'
  BY <1>2, <1>7, <1>8, <1>12, <1>18, <1>19, <1>20 DEF F!InHand, F!TargetsFit, F!Unreadable
<1> QED BY <1>7, <1>16, <1>18, <1>21, FleetStepOf

(* A process that has nothing in hand any more.                             *)
LEMMA IdleInHand == ASSUME F!FeedInv, NEW p \in Workers, F!Done(p) PROVE F!InHand(p)'
<1>1. g'[p] = "idle"
  BY DEF F!Done, F!Go, F!FeedInv
<1> QED BY <1>1 DEF F!InHand

LEMMA EndAuditStep ==
  ASSUME F!FeedInv, NEW p \in Workers, F!EndAudit(p)
  PROVE  F!FeedInv'
<1>1. F!Done(p) /\ F!Go(p, "idle", None) /\ UNCHANGED <<a, b, d, e, f>>
  BY DEF F!EndAudit, F!Done
<1>2. F!AuditsFit' /\ F!InHand(p)'
  BY <1>1, AuditsStand, IdleInHand DEF F!FeedInv
<1> QED BY <1>1, <1>2, FleetStepOf

LEMMA ReplayStep ==
  ASSUME F!FeedInv, NEW p \in Workers, NEW day \in AuditDays, F!Replay(p, day)
  PROVE  F!FeedInv'
<1>1. PICK files : files = b[day]
  OBVIOUS
<1>2. PICK job : job = [day |-> day, read |-> files]
  OBVIOUS
<1>3. F!Go(p, "build", job) /\ F!Replays(files) /\ UNCHANGED <<a, b, d, e, f>>
  BY <1>1, <1>2 DEF F!Replay
<1>4. job.day = day /\ job.read = files /\ g'[p] = "build" /\ h'[p] = job
  BY <1>2, <1>3 DEF F!Go, F!FeedInv
<1>5. F!Replays(files)'
  BY <1>3 DEF F!Replays, F!Readable, F!Findings, F!Unreadable
<1>6. F!InHand(p)'
  BY <1>4, <1>5 DEF F!InHand
<1>7. F!AuditsFit'
  BY <1>3, AuditsStand DEF F!FeedInv
<1> QED BY <1>3, <1>6, <1>7, FleetStepOf

(* Rows that are built from a directory are earned, and what was replayed   *)
(* when nothing changed meanwhile.                                          *)
LEMMA BuiltIsEarned ==
  ASSUME F!FeedInv, NEW day \in AuditDays, NEW files, files = b[day], NEW read, F!Replays(read),
         F!Buildable(files, read.summary), NEW job,
         job = [day |-> day, settled |-> files = read, summary |-> files.summary,
                rows |-> [r \in DOMAIN files.inventory |->
                           [target |-> files.inventory[r], finding |-> files.findings[r]]]]
  PROVE  F!RowsEarned(job)
<1>1. DOMAIN files.inventory \subseteq FleetRepos
      /\ files.inventory \notin F!Unreadable
      /\ \A r \in DOMAIN files.inventory : files.findings[r] \notin F!Unreadable
  BY DEF F!Buildable, F!FeedInv, F!AuditsFit
<1>2. PICK rows : rows = [r \in DOMAIN files.inventory |->
                           [target |-> files.inventory[r], finding |-> files.findings[r]]]
  OBVIOUS
<1>3. job = [day |-> day, settled |-> files = read, summary |-> files.summary, rows |-> rows]
  BY <1>2
<1>4. /\ job.day = day /\ job.settled = (files = read) /\ job.summary = files.summary
      /\ job.rows = rows
  BY ONLY <1>3
<1>5. DOMAIN rows = DOMAIN files.inventory
      /\ \A r \in DOMAIN rows : rows[r].target = files.inventory[r] /\ rows[r].finding = files.findings[r]
  BY <1>2
<1>6. ASSUME job.settled, NEW r \in DOMAIN rows PROVE rows[r].finding = job.summary[r]
  <2>1. F!Findings(files) = files.summary
    BY <1>4, <1>6 DEF F!Replays
  <2>2. r \in FleetRepos /\ files.findings[r] # None
    BY <1>1, <1>5, <1>6 DEF F!Unreadable
  <2>3. F!Findings(files)[r] = files.findings[r]
    BY <2>2 DEF F!Findings
  <2> QED BY <1>4, <1>5, <2>1, <2>3
<1>7. ASSUME day \notin f, NEW r \in DOMAIN rows
      PROVE  F!Earned(rows[r].finding, r, rows[r].target.head)
  <2>1. r \in FleetRepos /\ files.findings[r] \notin F!Unreadable
        /\ files.inventory # None
    BY <1>1, <1>5, <1>7 DEF F!Unreadable
  <2>2. F!OfInventory(day) /\ F!FindingHolds(files.findings[r], r)
    BY <2>1 DEF F!FeedInv, F!AuditsFit
  <2>3. files.findings[r].target = files.inventory[r]
    BY <1>7, <2>1, <2>2 DEF F!OfInventory
  <2>4. F!Earned(files.findings[r], r, files.inventory[r].head)
    BY <2>1, <2>2, <2>3 DEF F!FindingHolds
  <2> QED BY <1>5, <1>7, <2>4
<1> QED BY <1>4, <1>6, <1>7 DEF F!RowsEarned

LEMMA BuildStep ==
  ASSUME F!FeedInv, NEW p \in Workers, F!Build(p)
  PROVE  F!FeedInv'
<1>1. PICK own : own = h[p]
  OBVIOUS
<1>2. PICK files : files = b[own.day]
  OBVIOUS
<1>3. PICK job : job = [day |-> own.day, settled |-> files = own.read, summary |-> files.summary,
                        rows |-> [r \in DOMAIN files.inventory |->
                                   [target |-> files.inventory[r], finding |-> files.findings[r]]]]
  OBVIOUS
<1>4. /\ g[p] = "build" /\ UNCHANGED <<a, b, d, e, f>>
      /\ \/ F!Buildable(files, own.read.summary) /\ F!Go(p, "publish", job)
         \/ F!Done(p) /\ F!Go(p, "idle", None)
  BY <1>1, <1>2, <1>3 DEF F!Build, F!Done
<1>5. own.day \in AuditDays /\ F!Replays(own.read)
  BY <1>1, <1>4 DEF F!FeedInv, F!InHand
<1>6. F!AuditsFit'
  BY <1>4, AuditsStand DEF F!FeedInv
<1>7. CASE F!Buildable(files, own.read.summary) /\ F!Go(p, "publish", job)
  <2>1. F!RowsEarned(job)
    BY <1>2, <1>3, <1>5, <1>7, BuiltIsEarned
  <2>2. F!RowsEarned(job)'
    BY <1>4, <2>1, EarnedStays
  <2>3. g'[p] = "publish" /\ h'[p] = job /\ job.day = own.day
    BY <1>3, <1>7 DEF F!Go, F!FeedInv
  <2>4. F!InHand(p)'
    BY <1>5, <2>2, <2>3 DEF F!InHand
  <2> QED BY <1>4, <1>6, <1>7, <2>4, FleetStepOf
<1>8. CASE F!Done(p) /\ F!Go(p, "idle", None)
  BY <1>4, <1>6, <1>8, IdleInHand, FleetStepOf
<1> QED BY <1>4, <1>7, <1>8

LEMMA PublishStep ==
  ASSUME F!FeedInv, NEW p \in Workers, F!Publish(p)
  PROVE  F!FeedInv'
<1>1. PICK rows : rows = h[p]
  OBVIOUS
<1>2. g[p] = "publish" /\ d' = rows /\ F!Done(p) /\ F!Go(p, "idle", None)
      /\ UNCHANGED <<a, b, e, f>>
  BY <1>1 DEF F!Publish, F!Done
<1>3. F!RowsEarned(rows)
  BY <1>1, <1>2 DEF F!FeedInv, F!InHand
<1>4. F!AuditsFit' /\ F!InHand(p)'
  BY <1>2, AuditsStand, IdleInHand DEF F!FeedInv
<1> QED BY <1>2, <1>3, <1>4, FleetStepOf

(* A death tears the file that was about to be written.                     *)
LEMMA FleetCrashStep ==
  ASSUME F!FeedInv, NEW p \in Workers, F!Crash(p)
  PROVE  F!FeedInv'
<1>1. PICK job : job = h[p]
  OBVIOUS
<1>2. PICK old : old = b[job.day]
  OBVIOUS
<1>3. F!Done(p) /\ F!Go(p, "idle", None) /\ UNCHANGED <<a, d, e>> /\ F!InHand(p)'
  BY IdleInHand DEF F!Crash, F!Done
<1>4. CASE UNCHANGED <<b, f>>
  <2>1. F!AuditsFit'
    BY <1>3, <1>4, AuditsStand DEF F!FeedInv
  <2> QED BY <1>3, <1>4, <2>1, FleetStepOf
<1>5. ASSUME NEW field \in F!Victim(p), b' = F!Tear(job.day, field, job.left),
             f' = IF old.inventory = None THEN f ELSE f \cup {job.day}
      PROVE  F!FeedInv'
  <2>1. /\ g[p] \in {"examine", "summary", "findings"}
        /\ field \in {"inventory", "summary", "findings"}
        /\ field = "inventory" => g[p] = "examine"
        /\ field # "inventory" => g[p] \in {"summary", "findings"}
        /\ field = "findings" => job.left # {}
    BY <1>1, <1>5 DEF F!Victim
  <2>2. /\ job.day \in AuditDays /\ job.left \subseteq FleetRepos
        /\ g[p] \in {"summary", "findings"} => old.inventory # None
    BY <1>1, <1>2, <2>1, AuditInHand DEF F!TargetsFit
  <2>3. f \subseteq f' /\ (old.inventory # None => job.day \in f') /\ (old.inventory = None => f' = f)
    BY <1>5
  <2>4. /\ DOMAIN old = {"inventory", "summary", "findings"} /\ DOMAIN old.findings = FleetRepos
        /\ \A r \in FleetRepos : F!FindingHolds(old.findings[r], r)'
        /\ old.inventory = None => \A r \in FleetRepos : old.findings[r] = None
        /\ old.inventory \in {None, Torn} \/ DOMAIN old.inventory \subseteq FleetRepos
    BY <1>2, <1>3, <2>2, <2>3, FilesOfDay DEF F!FeedInv
  <2>5. PICK r : r = F!Lowest(job.left)
    OBVIOUS
  <2>6. PICK files : files = [old EXCEPT ![field] = IF field = "findings"
                                                    THEN [old.findings EXCEPT ![r] = Torn] ELSE Torn]
    OBVIOUS
  <2>7. b' = [b EXCEPT ![job.day] = files]
    BY <1>2, <1>5, <2>1, <2>5, <2>6 DEF F!Tear
  <2>8. /\ DOMAIN files = {"inventory", "summary", "findings"}
        /\ files.inventory = IF field = "inventory" THEN Torn ELSE old.inventory
        /\ field # "findings" => files.findings = old.findings
        /\ field = "findings" => files.findings = [old.findings EXCEPT ![r] = Torn]
    BY <2>1, <2>4, <2>6
  <2>9. /\ DOMAIN files.findings = FleetRepos
        /\ \A q \in FleetRepos : files.findings[q] \in {Torn, old.findings[q]}
        /\ field # "findings" => files.findings = old.findings
    BY <2>4, <2>8
  <2>10. \A q \in FleetRepos : F!FindingHolds(files.findings[q], q)'
    <3> TAKE q \in FleetRepos
    <3>1. F!FindingHolds(Torn, q)'
      BY DEF F!FindingHolds, F!Unreadable
    <3>2. CASE files.findings[q] = Torn
      BY <3>1, <3>2
    <3>3. CASE files.findings[q] = old.findings[q]
      BY <2>4, <3>3
    <3> QED BY <2>9, <3>2, <3>3
  <2>11. files.inventory = None => \A q \in FleetRepos : files.findings[q] = None
    BY <2>1, <2>2, <2>4, <2>8, FleetAssumption
  <2>12. files.inventory \in {None, Torn} \/ DOMAIN files.inventory \subseteq FleetRepos
    BY <2>4, <2>8
  <2>13. files.inventory # None /\ job.day \notin f' =>
           \A q \in FleetRepos : files.findings[q] \notin {None, Torn} =>
             /\ files.inventory # Torn /\ q \in DOMAIN files.inventory
             /\ files.findings[q].target = files.inventory[q]
    <3> SUFFICES ASSUME job.day \notin f', NEW q \in FleetRepos, files.findings[q] \notin {None, Torn}
                 PROVE  FALSE
      OBVIOUS
    <3>1. old.inventory = None
      BY <2>3
    <3>2. old.findings[q] = None
      BY <2>4, <3>1
    <3> QED BY <2>9, <3>2
  <2>14. F!AuditsFit /\ e \subseteq e' /\ f \subseteq f'
    BY <1>3, <2>3 DEF F!FeedInv
  <2>15. F!AuditsFit'
    BY <2>2, <2>7, <2>8, <2>9, <2>10, <2>11, <2>12, <2>13, <2>14, DayWritten
  <2>16. DOMAIN b = AuditDays
    BY DEF F!FeedInv, F!AuditsFit
  <2>17. \A day \in AuditDays : b[day].inventory # None =>
           /\ b'[day].inventory # None
           /\ day \notin f' => b'[day].inventory = b[day].inventory
    <3> TAKE day \in AuditDays
    <3>1. CASE day = job.day
      BY <1>2, <2>3, <2>7, <2>8, <2>16, <3>1, FleetAssumption
    <3>2. CASE day # job.day
      BY <2>7, <2>16, <3>2
    <3> QED BY <3>1, <3>2
  <2> QED BY <1>3, <2>14, <2>15, <2>17, FleetStepOf
<1> QED BY <1>1, <1>2, <1>4, <1>5 DEF F!Crash

(* Nothing but repositories moves, or nothing at all.                       *)
LEMMA FleetStands ==
  ASSUME F!FeedInv, UNCHANGED <<b, d, e, f, g, h>>, a' \in [FleetRepos -> FleetWorlds]
  PROVE  F!FeedInv'
<1>1. F!AuditsFit'
  BY AuditsStand DEF F!FeedInv
<1>2. ASSUME NEW q \in Workers PROVE F!InHand(q)'
  <2>1. PICK own : own = h[q]
    OBVIOUS
  <2>2. h'[q] = own /\ g'[q] = g[q] /\ F!InHand(q)
    BY <2>1 DEF F!FeedInv
  <2>3. F!DoneFits(own) => F!DoneFits(own)'
    BY EarnedStays
  <2>4. F!RowsEarned(own) => F!RowsEarned(own)'
    BY EarnedStays
  <2>5. F!Replays(own.read)' = F!Replays(own.read)
    BY DEF F!Replays, F!Readable, F!Findings, F!Unreadable
  <2>6. F!TargetsFit(own.targets)' = F!TargetsFit(own.targets)
    BY DEF F!TargetsFit, F!Unreadable
  <2> QED BY <2>1, <2>2, <2>3, <2>4, <2>5, <2>6 DEF F!InHand
<1>3. d' # None => F!RowsEarned(d)'
  <2>1. PICK rows : rows = d
    OBVIOUS
  <2>2. d # None => F!RowsEarned(rows)'
    BY <2>1, EarnedStays DEF F!FeedInv
  <2> QED BY <2>1, <2>2
<1> QED BY <1>1, <1>2, <1>3 DEF F!FeedInv

LEMMA FleetInit == ASSUME F!Init PROVE F!FeedInv
<1>1. /\ a \in [FleetRepos -> FleetWorlds] /\ b = [day \in AuditDays |-> F!Unwritten] /\ d = None
      /\ g = [p \in Workers |-> "idle"] /\ h = [p \in Workers |-> None]
  BY DEF F!Init
<1>2. /\ F!Unwritten.inventory = None /\ F!Unwritten.findings = [r \in FleetRepos |-> None]
      /\ DOMAIN F!Unwritten = {"inventory", "summary", "findings"}
  BY DEF F!Unwritten
<1>3. F!AuditsFit
  BY <1>1, <1>2 DEF F!AuditsFit, F!FindingHolds, F!Unreadable, F!OfInventory
<1>4. \A p \in Workers : F!InHand(p)
  BY <1>1 DEF F!InHand
<1> QED BY <1>1, <1>3, <1>4 DEF F!FeedInv

LEMMA FleetStep == ASSUME F!FeedInv, F!Next PROVE F!FeedInv'
<1>1. ASSUME NEW r \in FleetRepos, F!Move(r) PROVE F!FeedInv'
  <2>1. a' \in [FleetRepos -> FleetWorlds] /\ UNCHANGED <<b, d, e, f, g, h>>
    BY <1>1 DEF F!Move, F!FeedInv
  <2> QED BY <2>1, FleetStands
<1>2. ASSUME NEW p \in Workers, F!Step(p) PROVE F!FeedInv'
  BY <1>2, ExamineStep, ExecuteStep, WriteInventoryStep, WriteSummaryStep, WriteFindingStep,
     EndAuditStep, BuildStep, PublishStep DEF F!Step
<1> QED BY <1>1, <1>2, FleetCrashStep, DiscoverAuditStep, ReplayStep DEF F!Next

(* What audits note and feeds show was earned, and the totals are those of  *)
(* the findings, wherever audits and feeds stop or meet each other.         *)
THEOREM FeedSound == Parts => [](part = "fleet" => F!FeedInv)
<1>1. PartsInit => (part = "fleet" => F!FeedInv)
  BY FleetInit DEF PartsInit
<1>2. (part = "fleet" => F!FeedInv) /\ [PartsNext]_parts => (part = "fleet" => F!FeedInv)'
  <2> SUFFICES ASSUME part = "fleet" => F!FeedInv, [PartsNext]_parts, part' = "fleet"
               PROVE  F!FeedInv'
    OBVIOUS
  <2>1. CASE PartsNext
    BY <2>1, FleetStep DEF PartsNext
  <2>2. CASE UNCHANGED parts
    <3>1. UNCHANGED <<a, b, d, e, f, g, h, part>>
      BY <2>2 DEF parts
    <3>2. F!FeedInv /\ a' \in [FleetRepos -> FleetWorlds]
      BY <3>1 DEF F!FeedInv
    <3> QED BY <3>1, <3>2, FleetStands
  <2> QED BY <2>1, <2>2
<1> QED BY <1>1, <1>2, PTL DEF Parts

(* Unless the directory was rewritten while it was read, the rows of the    *)
(* published feed are the findings its totals are of; and when it was       *)
(* written once, dynamic evidence is of a commit at which exactly these     *)
(* commands passed.                                                         *)
THEOREM FeedEarned == Parts => []FeedIsEarned
<1>1. (part = "fleet" => F!FeedInv) => FeedIsEarned
  BY DEF FeedIsEarned, F!FeedInv, F!FeedIsEarned, F!RowsEarned
<1> QED BY <1>1, FeedSound, PTL

-----------------------------------------------------------------------------
(* Rollout.                                                                 *)

(* Only a run that is sound has a summary that counts as clean.             *)
LEMMA CleanIsSound ==
  ASSUME NEW v \in RunVerdicts, R!FinalQrClean(R!RunSummary(v))
  PROVE  R!Sound(v)
<1>1. /\ v.status \in {None, "passed", "failed", "blocked", "skipped-nonlocal"}
      /\ v.audit \in {None, "clean", "findings"}
      /\ v.timeout \in BOOLEAN /\ (v.timeout => v.status = "blocked")
      /\ None \notin {"passed", "failed", "blocked", "skipped-nonlocal", "clean", "findings"}
      /\ v # None
  BY VerdictsAssumption
<1>2. R!RunSummary(v).status = R!SummaryStatus(v) /\ R!RunSummary(v).class = R!Classification(v)
  BY DEF R!RunSummary
<1>3. R!Classification(v) = "clean" => R!SummaryStatus(v) \in {"clean", "passed"}
  BY DEF R!Classification
<1>4. R!SummaryStatus(v) \in {"clean", "passed"}
  BY <1>2, <1>3 DEF R!FinalQrClean
<1>5. CASE v.status = None
  <2>1. v.audit = "clean"
    BY <1>1, <1>4, <1>5 DEF R!SummaryStatus
  <2> QED BY <1>1, <1>5, <2>1 DEF R!Sound
<1>6. CASE v.status # None
  <2>1. v.status = "passed" /\ v.audit # "findings"
    BY <1>1, <1>4, <1>6 DEF R!SummaryStatus
  <2> QED BY <1>1, <2>1 DEF R!Sound
<1> QED BY <1>5, <1>6

(* What Quality Runner reports of a refresh.                                *)
LEMMA OwnReport ==
  ASSUME NEW qr, NEW claim, claim.status = None, claim.commit = FALSE, claim.scope = None,
         NEW seen, NEW report, report = R!BuildReport(qr, claim, seen),
         claim.blockers = {} \/ claim.blockers = {"refresh failed"}
  PROVE  /\ R!Errors(report) = {} /\ report.status # "blocked" =>
              R!FinalQrClean(qr) /\ seen.after \subseteq {Generates}
         /\ R!Errors(report) # {} => report.status = "ready-for-review" /\ report.shown # {}
<1>1. /\ report.status = R!Recommended(qr, claim) /\ report.shown = seen.after
      /\ report.commit = FALSE /\ report.pushed = claim.pushed /\ report.outside = FALSE
      /\ report.status = "blocked" =>
           report.blockers = IF claim.blockers = {} THEN R!InferredBlockers(qr) ELSE claim.blockers
  BY DEF R!BuildReport
<1>2. CASE R!FinalQrClean(qr)
  <2>1. report.status = "ready-for-review"
    BY <1>1, <1>2 DEF R!Recommended
  <2>2. R!Errors(report) = {} <=> report.shown \subseteq {Generates}
    BY <1>1, <2>1 DEF R!Errors, R!OnlyGenerated
  <2> QED BY <1>1, <1>2, <2>1, <2>2
<1>3. CASE ~R!FinalQrClean(qr)
  <2>1. report.status = "blocked"
    BY <1>1, <1>3 DEF R!Recommended
  <2>2. report.blockers # {}
    BY <1>1, <1>3, <2>1 DEF R!InferredBlockers
  <2>3. R!Errors(report) = {}
    BY <1>1, <2>1, <2>2 DEF R!Errors
  <2> QED BY <2>1, <2>3
<1> QED BY <1>2, <1>3

(* What strict lint lets pass of a report, whoever made it.                 *)
LEMMA LintedReport ==
  ASSUME NEW raw, {"status", "outside", "blockers"} \subseteq DOMAIN raw,
         {"qr", "shown", "commit", "pushed", "scope", "files", "from", "to", "note"}
           \subseteq DOMAIN raw,
         R!LintErrors(raw) = {}
  PROVE  /\ raw.status = "complete" => R!FinalQrClean(raw.qr)
         /\ R!NormalizedStatus(raw) = "complete" =>
              raw.shown \subseteq {Generates} /\ raw.commit /\ raw.pushed
         /\ raw.scope # None => raw.files \subseteq raw.scope
         /\ raw.from # None /\ raw.to # None /\ raw.from # raw.to => raw.note
<1>1. PICK report : report = R!Normalized(raw)
  OBVIOUS
<1>2. /\ report.status = R!NormalizedStatus(raw) /\ report.qr = raw.qr
      /\ report.shown = raw.shown /\ report.commit = raw.commit /\ report.pushed = raw.pushed
      /\ report.scope = raw.scope /\ report.files = raw.files /\ report.from = raw.from
      /\ report.to = raw.to /\ report.note = raw.note
  BY <1>1 DEF R!Normalized
<1>3. R!Errors(report) = {} /\ R!StrictErrors(raw, report) = {}
  BY <1>1 DEF R!LintErrors
<1>4. raw.status = "complete" => R!FinalQrClean(raw.qr)
  BY <1>2, <1>3 DEF R!StrictErrors
<1>5. R!NormalizedStatus(raw) = "complete" =>
        raw.shown \subseteq {Generates} /\ raw.commit /\ raw.pushed
  BY <1>2, <1>3 DEF R!Errors, R!OnlyGenerated
<1>6. ~R!OutsideScope(report) /\ ~R!MovedSilently(report)
  BY <1>3 DEF R!StrictErrors
<1> QED BY <1>2, <1>4, <1>5, <1>6 DEF R!OutsideScope, R!MovedSilently

(* A worker reports on the tree as it is.                                   *)
LEMMA WorkerReports ==
  ASSUME R!RolloutInv, NEW v \in RunVerdicts, NEW claim \in ReportClaims, NEW pre \in 1 .. b,
         R!Worker(v, claim, pre)
  PROVE  R!RolloutInv'
<1>1. PICK seen : seen = [pre |-> pre, head |-> b, after |-> c]
  OBVIOUS
<1>2. PICK built : built = R!BuildReport(R!RunSummary(v), claim, seen)
  OBVIOUS
<1>3. PICK raw : raw = IF claim.scope = None THEN built ELSE R!Normalized(built)
  OBVIOUS
<1>4. /\ g' = [claim |-> claim, report |-> raw, verdict |-> v, pre |-> pre,
               accepted |-> R!LintErrors(raw) = {}]
      /\ UNCHANGED <<a, b, c, d, e, f>>
  BY <1>1, <1>2, <1>3 DEF R!Worker
<1>5. /\ g'.claim = claim /\ g'.report = raw /\ g'.verdict = v /\ g'.pre = pre
      /\ g'.accepted = (R!LintErrors(raw) = {})
  BY <1>4
<1>6. /\ built.qr = R!RunSummary(v) /\ built.shown = c /\ built.commit = claim.commit
      /\ built.pushed = claim.pushed /\ built.scope = claim.scope /\ built.files = claim.files
      /\ built.from = pre /\ built.to = b /\ built.note = claim.note
      /\ DOMAIN built = {"status", "qr", "files", "commit", "pushed", "shown", "from", "to",
                         "note", "scope", "outside", "blockers"}
  BY <1>1, <1>2 DEF R!BuildReport
<1>7. /\ raw.qr = R!RunSummary(v) /\ raw.shown = c /\ raw.commit = claim.commit
      /\ raw.pushed = claim.pushed /\ raw.scope = claim.scope /\ raw.files = claim.files
      /\ raw.from = pre /\ raw.to = b /\ raw.note = claim.note /\ DOMAIN raw = DOMAIN built
  BY <1>3, <1>6 DEF R!Normalized
<1>8. pre # None /\ b # None
  BY CachesAssumption DEF R!RolloutInv
<1>9. ASSUME R!LintErrors(raw) = {}
      PROVE  /\ raw.status = "complete" => R!Sound(v)
             /\ R!NormalizedStatus(raw) = "complete" =>
                  c \subseteq {Generates} /\ claim.commit /\ claim.pushed
             /\ claim.scope # None => claim.files \subseteq claim.scope
             /\ pre # b => claim.note
  <2>1. /\ {"status", "outside", "blockers"} \subseteq DOMAIN raw
        /\ {"qr", "shown", "commit", "pushed", "scope", "files", "from", "to", "note"}
             \subseteq DOMAIN raw
    BY <1>6, <1>7
  <2>2. /\ raw.status = "complete" => R!FinalQrClean(raw.qr)
        /\ R!NormalizedStatus(raw) = "complete" =>
             raw.shown \subseteq {Generates} /\ raw.commit /\ raw.pushed
        /\ raw.scope # None => raw.files \subseteq raw.scope
        /\ raw.from # None /\ raw.to # None /\ raw.from # raw.to => raw.note
    BY <1>9, <2>1, LintedReport
  <2> QED BY <1>7, <1>8, <2>2, CleanIsSound
<1>10. (g # None /\ g.accepted =>
          /\ g.report.status = "complete" => R!Sound(g.verdict)
          /\ R!NormalizedStatus(g.report) = "complete" =>
               c \subseteq {Generates} /\ g.claim.commit /\ g.claim.pushed
          /\ g.claim.scope # None => g.claim.files \subseteq g.claim.scope
          /\ g.pre # b => g.claim.note)'
  BY <1>4, <1>5, <1>9 DEF R!Sound, R!NormalizedStatus
<1>11. (/\ \A k \in DOMAIN e : e[k].report # None =>
             /\ e[k].accepted /\ e[k].report.status # "blocked" =>
                  R!Sound(e[k].verdict) /\ (e[k].failed \/ e[k].truth \subseteq {Generates})
             /\ ~e[k].accepted => e[k].report.status = "ready-for-review" /\ e[k].report.shown # {}
        /\ f = "completed" => Len(e) = Len(a) /\ \A k \in DOMAIN e : e[k].accepted)'
  BY <1>4 DEF R!RolloutInv, R!ReportsAreEarned, R!Sound
<1>12. R!ReportsAreEarned'
  BY <1>10, <1>11 DEF R!ReportsAreEarned
<1> QED BY <1>4, <1>12 DEF R!RolloutInv, R!InHand

(* A step that leaves the rows and the ledger alone, and no report linted.  *)
LEMMA RowsStand ==
  ASSUME R!RolloutInv, UNCHANGED <<a, e, f>>, g' = None, b' \in Nat, R!InHand'
  PROVE  R!RolloutInv'
BY DEF R!RolloutInv, R!ReportsAreEarned, R!Sound

(* A row that is as it must be joins the rows of a rollout without ledger.  *)
LEMMA RowJoins ==
  ASSUME R!RolloutInv, NEW row, e' = Append(e, row), UNCHANGED <<a, b, f>>, f = None,
         g' = None, R!InHand',
         row.report # None =>
           /\ row.accepted /\ row.report.status # "blocked" =>
                R!Sound(row.verdict) /\ (row.failed \/ row.truth \subseteq {Generates})
           /\ ~row.accepted => row.report.status = "ready-for-review" /\ row.report.shown # {}
  PROVE  R!RolloutInv'
<1>1. PICK all : all = {e[k] : k \in DOMAIN e}
  OBVIOUS
<1>2. e \in Seq(all)
  BY <1>1 DEF R!RolloutInv
<1>3. PICK n : n = Len(e)
  OBVIOUS
<1>4. /\ n \in Nat /\ DOMAIN e = 1 .. n /\ DOMAIN e' = 1 .. (n + 1) /\ Len(e') = n + 1
      /\ e'[n + 1] = row /\ \A k \in 1 .. n : e'[k] = e[k]
      /\ e' \in Seq(all \cup {row})
  BY <1>2, <1>3
<1>5. \A k \in 1 .. (n + 1) : k \in 1 .. n \/ k = n + 1
  BY <1>4
<1>6. e' \in Seq({e'[k] : k \in DOMAIN e'})
  <2>1. \A k \in 1 .. (n + 1) : e'[k] \in {e'[x] : x \in DOMAIN e'}
    BY <1>4
  <2> QED BY <1>4, <2>1
<1>7. f # "completed"
  BY VerdictsAssumption DEF R!RolloutInv
<1>8. (\A k \in DOMAIN e : e[k].report # None =>
         /\ e[k].accepted /\ e[k].report.status # "blocked" =>
              R!Sound(e[k].verdict) /\ (e[k].failed \/ e[k].truth \subseteq {Generates})
         /\ ~e[k].accepted => e[k].report.status = "ready-for-review" /\ e[k].report.shown # {})'
  BY <1>4, <1>5 DEF R!RolloutInv, R!ReportsAreEarned, R!Sound
<1>9. R!ReportsAreEarned'
  BY <1>7, <1>8 DEF R!ReportsAreEarned
<1> QED BY <1>4, <1>6, <1>9 DEF R!RolloutInv

LEMMA RolloutInit == PartsInit /\ part = "rollout" => R!RolloutInv
<1> SUFFICES ASSUME R!Init PROVE R!RolloutInv
  BY DEF PartsInit
<1>1. e = <<>> /\ b = 1 /\ d = [step |-> "idle"] /\ f = None /\ g = None
  BY DEF R!Init, R!Idle
<1>2. d.step = "idle"
  BY <1>1
<1>3. R!InHand
  BY <1>1, <1>2 DEF R!InHand
<1>4. None # "completed"
  BY VerdictsAssumption
<1> QED BY <1>1, <1>3, <1>4 DEF R!RolloutInv, R!ReportsAreEarned

(* The report of a refresh joins the rows.                                  *)
LEMMA ReportJoins ==
  ASSUME R!RolloutInv, NEW failing \in BOOLEAN, R!WriteReport(failing)
  PROVE  R!RolloutInv'
<1>1. /\ d.step = "report" /\ f = None /\ d.verdict \in RunVerdicts \cup {None}
      /\ ~d.failed => d.after = d.truth
  BY DEF R!RolloutInv, R!InHand, R!WriteReport
<1>2. PICK raised : raised = (d.verdict = None)
  OBVIOUS
<1>3. PICK qr : qr = IF raised
                     THEN [status |-> "blocked", class |-> "controller-refresh-error", classes |-> {}]
                     ELSE R!RunSummary(d.verdict)
  OBVIOUS
<1>4. PICK claim : claim = [R!NoClaim EXCEPT !.files = R!Changed(d.before, d.after),
                                             !.blockers = IF raised THEN {"refresh failed"} ELSE {}]
  OBVIOUS
<1>5. PICK seen : seen = R!Seen(d.pre, d.after, failing)
  OBVIOUS
<1>6. PICK report : report = R!BuildReport(qr, claim, seen)
  OBVIOUS
<1>7. PICK row : row = [status |-> IF raised THEN "error" ELSE qr.status, report |-> report,
                        accepted |-> R!Errors(report) = {}, verdict |-> d.verdict,
                        truth |-> d.truth, failed |-> d.failed]
  OBVIOUS
<1>8. /\ e' = Append(e, row) /\ d' = [step |-> "idle"] /\ UNCHANGED <<a, b, c, f>> /\ g' = None
  BY <1>2, <1>3, <1>4, <1>5, <1>6, <1>7 DEF R!WriteReport, R!Idle
<1>9. /\ claim.status = None /\ claim.commit = FALSE /\ claim.scope = None
      /\ claim.blockers = {} \/ claim.blockers = {"refresh failed"}
  BY <1>4 DEF R!NoClaim
<1>10. seen.after = d.after
  BY <1>5 DEF R!Seen
<1>11. /\ R!Errors(report) = {} /\ report.status # "blocked" =>
            R!FinalQrClean(qr) /\ d.after \subseteq {Generates}
       /\ R!Errors(report) # {} => report.status = "ready-for-review" /\ report.shown # {}
  BY <1>6, <1>9, <1>10, OwnReport
<1>12. R!FinalQrClean(qr) => R!Sound(d.verdict)
  <2>1. CASE raised
    <3>1. qr.status = "blocked" /\ qr.class = "controller-refresh-error"
      BY <1>3, <2>1
    <3> QED BY <3>1 DEF R!FinalQrClean
  <2>2. CASE ~raised
    BY <1>1, <1>2, <1>3, <2>2, CleanIsSound
  <2> QED BY <1>2, <2>1, <2>2
<1>13. /\ row.report = report /\ row.accepted = (R!Errors(report) = {}) /\ row.verdict = d.verdict
       /\ row.truth = d.truth /\ row.failed = d.failed
  BY <1>7
<1>14. row.report # None =>
         /\ row.accepted /\ row.report.status # "blocked" =>
              R!Sound(row.verdict) /\ (row.failed \/ row.truth \subseteq {Generates})
         /\ ~row.accepted => row.report.status = "ready-for-review" /\ row.report.shown # {}
  BY <1>1, <1>11, <1>12, <1>13
<1>15. R!InHand'
  <2>1. d'.step = "idle"
    BY <1>8
  <2> QED BY <2>1 DEF R!InHand
<1> QED BY <1>1, <1>8, <1>14, <1>15, RowJoins

LEMMA RolloutStep ==
  ASSUME R!RolloutInv, R!Next PROVE R!RolloutInv'
<1>1. ASSUME NEW failing \in SUBSET {"status", "head"}, R!Begin(failing) PROVE R!RolloutInv'
  <2>1. /\ d'.step = "refresh" /\ d'.failed \in BOOLEAN /\ f = None /\ g' = None
        /\ UNCHANGED <<a, b, e, f>>
    BY <1>1 DEF R!Begin
  <2>2. R!InHand' /\ b' \in Nat
    BY <2>1 DEF R!InHand, R!RolloutInv
  <2> QED BY <2>1, <2>2, RowsStand
<1>2. ASSUME R!SkipMissing PROVE R!RolloutInv'
  <2>1. PICK row : row = [status |-> "invalid-repo", report |-> None, accepted |-> FALSE]
    OBVIOUS
  <2>2. /\ e' = Append(e, row) /\ UNCHANGED <<a, b, d, f>> /\ f = None /\ g' = None
    BY <1>2, <2>1 DEF R!SkipMissing
  <2>3. R!InHand' /\ row.report = None
    BY <2>1, <2>2 DEF R!InHand, R!RolloutInv
  <2> QED BY <2>2, <2>3, RowJoins
<1>3. ASSUME NEW verdict \in RunVerdicts \cup {None}, R!Refresh(verdict) PROVE R!RolloutInv'
  <2>1. /\ d'.step = "status" /\ d'.failed = d.failed /\ d'.verdict = verdict
        /\ d.step = "refresh" /\ g' = None /\ UNCHANGED <<a, b, e, f>>
    BY <1>3 DEF R!Refresh
  <2>2. R!InHand' /\ b' \in Nat
    BY <2>1 DEF R!InHand, R!RolloutInv
  <2> QED BY <2>1, <2>2, RowsStand
<1>4. ASSUME NEW failing \in BOOLEAN, R!ReadStatus(failing) PROVE R!RolloutInv'
  <2>1. /\ d'.step = "report" /\ d'.failed = (d.failed \/ failing) /\ d'.verdict = d.verdict
        /\ d'.after = (IF failing THEN {} ELSE c) /\ d'.truth = c
        /\ d.step = "status" /\ g' = None /\ UNCHANGED <<a, b, e, f>>
    BY <1>4 DEF R!ReadStatus
  <2>2. R!InHand' /\ b' \in Nat
    BY <2>1 DEF R!InHand, R!RolloutInv
  <2> QED BY <2>1, <2>2, RowsStand
<1>5. ASSUME NEW failing \in BOOLEAN, R!WriteReport(failing) PROVE R!RolloutInv'
  BY <1>5, ReportJoins
<1>6. ASSUME R!WriteLedger PROVE R!RolloutInv'
  <2>1. /\ d = [step |-> "idle"] /\ Len(e) = Len(a) /\ f' = R!RolloutStatus /\ g' = None
        /\ UNCHANGED <<a, b, d, e>>
    BY <1>6 DEF R!WriteLedger, R!Idle
  <2>2. d.step = "idle"
    BY <2>1
  <2>3. R!RolloutStatus = "completed" => \A k \in DOMAIN e : e[k].accepted
    BY DEF R!RolloutStatus
  <2> QED BY <2>1, <2>2, <2>3 DEF R!RolloutInv, R!InHand, R!ReportsAreEarned, R!Sound
<1>7. ASSUME NEW v \in RunVerdicts, NEW claim \in ReportClaims, NEW pre \in 1 .. b,
             R!Worker(v, claim, pre)
      PROVE  R!RolloutInv'
  BY <1>7, WorkerReports
<1>8. ASSUME R!Edit PROVE R!RolloutInv'
  <2>1. UNCHANGED <<a, b, d, e, f>> /\ g' = None
    BY <1>8 DEF R!Edit
  <2>2. R!InHand' /\ b' \in Nat
    BY <2>1 DEF R!InHand, R!RolloutInv
  <2> QED BY <2>1, <2>2, RowsStand
<1>9. ASSUME R!Commit PROVE R!RolloutInv'
  <2>1. UNCHANGED <<a, d, e, f>> /\ g' = None /\ b' = b + 1
    BY <1>9 DEF R!Commit
  <2>2. R!InHand' /\ b' \in Nat
    BY <2>1 DEF R!InHand, R!RolloutInv
  <2> QED BY <2>1, <2>2, RowsStand
<1>10. ASSUME R!Die PROVE R!RolloutInv'
  <2>1. /\ d' = [step |-> "idle"] /\ e' = <<>> /\ g' = None /\ f = None
        /\ UNCHANGED <<a, b, c, f>>
    BY <1>10 DEF R!Die, R!Idle
  <2>2. d'.step = "idle" /\ None # "completed"
    BY <2>1, VerdictsAssumption
  <2> QED BY <2>1, <2>2 DEF R!RolloutInv, R!InHand, R!ReportsAreEarned
<1> QED BY <1>1, <1>2, <1>3, <1>4, <1>5, <1>6, <1>7, <1>8, <1>9, <1>10 DEF R!Next

LEMMA RolloutStands ==
  ASSUME R!RolloutInv, UNCHANGED <<a, b, c, d, e, f, g, h>> PROVE R!RolloutInv'
BY DEF R!RolloutInv, R!InHand, R!ReportsAreEarned, R!Sound, R!NormalizedStatus

(* What a rollout has in hand is what git and the refresh answered.         *)
THEOREM ReportsRecorded == Parts => [](part = "rollout" => R!RolloutInv)
<1>1. PartsInit => (part = "rollout" => R!RolloutInv)
  BY RolloutInit
<1>2. (part = "rollout" => R!RolloutInv) /\ [PartsNext]_parts
        => (part = "rollout" => R!RolloutInv)'
  <2> SUFFICES ASSUME part = "rollout" => R!RolloutInv, [PartsNext]_parts, part' = "rollout"
               PROVE  R!RolloutInv'
    OBVIOUS
  <2>1. R!Next \/ UNCHANGED <<a, b, c, d, e, f, g, h>>
    BY DEF PartsNext, parts, shared
  <2>2. part = "rollout"
    BY DEF PartsNext, parts
  <2> QED BY <2>1, <2>2, RolloutStep, RolloutStands
<1> QED BY <1>1, <1>2, PTL DEF Parts

(* Accepted reports are earned: by a sound run and a clean tree, and, where *)
(* strict lint hands a report on as complete, by a commit and a push.       *)
THEOREM ReportsEarned == Parts => []ReportsAreEarned
<1>1. (part = "rollout" => R!RolloutInv) => ReportsAreEarned
  BY DEF R!RolloutInv, ReportsAreEarned
<1> QED BY <1>1, ReportsRecorded, PTL

-----------------------------------------------------------------------------
(* ReviewLoop.                                                              *)

(* The instance's Cardinality is that of FiniteSets.                        *)
LEMMA CardinalityInLoop == ASSUME NEW M PROVE Y!Cardinality(M) = Cardinality(M)
BY DEF Y!Cardinality, Cardinality

(* A tree has finitely many findings.                                       *)
LEMMA FindingsAreFinite == ASSUME NEW tree PROVE IsFiniteSet(Y!FindingsOf(tree))
<1> DEFINE flawed == {x \in LoopFiles : tree[x] \in FlawedContents}
           finding == [x \in flawed |-> [file |-> IF tree[x] \in FilelessContents THEN None ELSE x,
                                         of |-> x, says |-> tree[x]]]
<1>1. IsFiniteSet(flawed)
  BY LoopAssumption, FS_Subset
<1>2. Y!FindingsOf(tree) = {finding[x] : x \in flawed}
  BY DEF Y!FindingsOf
<1>3. finding \in Surjection(flawed, Y!FindingsOf(tree))
  <2>1. finding \in [flawed -> Y!FindingsOf(tree)]
    BY <1>2
  <2>2. \A y \in Y!FindingsOf(tree) : \E x \in flawed : finding[x] = y
    BY <1>2
  <2> HIDE DEF finding, flawed
  <2> QED BY <2>1, <2>2 DEF Surjection
<1> HIDE DEF finding, flawed
<1> QED BY <1>1, <1>3, FS_Surjection

(* A finding with a file is in that file, one of the repository.            *)
LEMMA FindingOf ==
  ASSUME NEW tree, NEW x \in Y!FindingsOf(tree)
  PROVE  x.of \in LoopFiles /\ (Y!FileOf(x) = None \/ Y!FileOf(x) = x.of)
BY DEF Y!FindingsOf, Y!FileOf

(* A file outside a scope that git could tell is as the baseline had it.    *)
LEMMA OutsideIsUntouched ==
  ASSUME NEW x \in LoopFiles, NEW base, base # None, Y!Shown(x),
         x \notin Y!ChangedSince(base, {})
  PROVE  c[x] = a[base][x]
<1>0. PrintedNames[x] = x /\ x \notin UnlistedFiles
  BY DEF Y!Shown
<1>1. a[base][x] = a[b][x]
  BY <1>0 DEF Y!ChangedSince, Y!Differing, Y!Printed
<1>2. CASE a[b][x] = Absent
  <2>1. c[x] = Absent
    BY <1>0, <1>2 DEF Y!ChangedSince, Y!Printed
  <2> QED BY <1>1, <1>2, <2>1
<1>3. CASE a[b][x] # Absent
  <2>1. c[x] = a[b][x]
    BY <1>0, <1>3 DEF Y!ChangedSince, Y!Differing, Y!Printed
  <2> QED BY <1>1, <2>1
<1> QED BY <1>2, <1>3

(* The three parts of the findings are all of them, each once.              *)
LEMMA EachFindingOnce ==
  ASSUME NEW found, IsFiniteSet(found), NEW now \in SUBSET found, NEW before
  PROVE  /\ (now \ before) \cup (now \cap before) \cup (found \ now) = found
         /\ Y!Cardinality(now \ before) + Y!Cardinality(now \cap before) + Y!Cardinality(found \ now)
              = Y!Cardinality(found)
<1>1. IsFiniteSet(now) /\ IsFiniteSet(now \cap before)
  BY FS_Subset
<1>2. /\ Cardinality(found) \in Nat /\ Cardinality(now) \in Nat
      /\ Cardinality(now \cap before) \in Nat
  BY <1>1, FS_CardinalityType
<1>3. found \cap now = now
  OBVIOUS
<1>4. Cardinality(found \ now) = Cardinality(found) - Cardinality(now)
  BY <1>3, FS_Difference
<1>5. Cardinality(now \ before) = Cardinality(now) - Cardinality(now \cap before)
  BY <1>1, FS_Difference
<1> QED BY <1>2, <1>4, <1>5, CardinalityInLoop

LEMMA LoopInit == PartsInit /\ part = "loop" => Y!LoopInv
<1> SUFFICES ASSUME Y!Init PROVE Y!LoopInv
  BY DEF PartsInit
<1>1. PICK tree \in CommittedTrees : a = <<tree>>
  BY DEF Y!Init
<1>2. a \in Seq({a[k] : k \in DOMAIN a}) /\ b \in DOMAIN a
  BY <1>1 DEF Y!Init
<1>3. d = <<>> /\ e = Y!Idle /\ f = None /\ g = None
  BY DEF Y!Init
<1> QED BY <1>2, <1>3 DEF Y!LoopInv, Y!DeltasAreEarned

(* What the repository does while nothing is shown.                         *)
LEMMA RepositoryMoves ==
  ASSUME Y!LoopInv, UNCHANGED d, Y!Forget,
         a' \in Seq({a'[k] : k \in DOMAIN a'}), b' \in DOMAIN a',
         DOMAIN a \subseteq DOMAIN a', \A k \in DOMAIN a : a'[k] = a[k],
         e' = Y!Disturbed \/ e' = Y!Idle
  PROVE  Y!LoopInv'
<1>1. ASSUME e # Y!Idle, e' = Y!Disturbed PROVE Y!InHand'
  <2>1. Y!InHand
    BY <1>1 DEF Y!LoopInv
  <2>2. e' = [e EXCEPT !.still = FALSE]
    BY <1>1 DEF Y!Disturbed
  <2>3. /\ DOMAIN e' = DOMAIN e /\ e'.step = e.step /\ e'.id = e.id /\ e'.base = e.base
        /\ e'.still = FALSE
    BY <2>1, <2>2 DEF Y!InHand
  <2>4. Y!RunFits(d[e.id])'
    BY <2>1, <2>3 DEF Y!InHand, Y!RunFits, Y!FindingsOf
  <2> QED BY <2>1, <2>3, <2>4 DEF Y!InHand
<1>2. e' = Y!Idle \/ Y!InHand'
  BY <1>1 DEF Y!Disturbed
<1>3. (\A id \in DOMAIN d : d[id] # None => Y!RunFits(d[id]))'
  <2>1. \A id \in DOMAIN d : d[id] # None => Y!RunFits(d[id])
    BY DEF Y!LoopInv
  <2>2. \A run : Y!RunFits(run) => Y!RunFits(run)'
    BY DEF Y!RunFits, Y!FindingsOf
  <2> QED BY <2>1, <2>2 DEF Y!RunFits, Y!FindingsOf
<1>4. Y!DeltasAreEarned'
  BY DEF Y!DeltasAreEarned, Y!Forget
<1> QED BY <1>2, <1>3, <1>4 DEF Y!LoopInv, Y!Idle

(* A refresh writes the record of its run and goes on, or ends.             *)
LEMMA RunMoves ==
  ASSUME Y!LoopInv, UNCHANGED <<a, b, c>>, d' \in Seq({d'[k] : k \in DOMAIN d'}),
         (\A id \in DOMAIN d : d[id] # None => Y!RunFits(d[id]))',
         e' = Y!Idle \/ Y!InHand', Y!DeltasAreEarned'
  PROVE  Y!LoopInv'
BY DEF Y!LoopInv, Y!Idle

(* A function of 1 .. n is a sequence of its values.                        *)
LEMMA SequenceOfItsValues ==
  ASSUME NEW n \in Nat, NEW row, row = [x \in 1 .. n |-> row[x]]
  PROVE  row \in Seq({row[k] : k \in DOMAIN row})
<1>1. PICK all : all = {row[k] : k \in DOMAIN row}
  OBVIOUS
<1>2. row \in [1 .. n -> all]
  BY <1>1
<1>3. row \in Seq(all)
  BY <1>2
<1> QED BY <1>1, <1>3

(* A run may be replaced in the sequence of the runs.                       *)
LEMMA RunReplaced ==
  ASSUME NEW id \in DOMAIN d, NEW run, d \in Seq({d[k] : k \in DOMAIN d}),
         d' = [d EXCEPT ![id] = run]
  PROVE  /\ d' \in Seq({d'[k] : k \in DOMAIN d'}) /\ DOMAIN d' = DOMAIN d /\ d'[id] = run
         /\ \A x \in DOMAIN d : x # id => d'[x] = d[x]
<1>1. PICK all : all = {d[k] : k \in DOMAIN d}
  OBVIOUS
<1>2. d \in Seq(all)
  BY <1>1
<1>3. PICK n : n = Len(d)
  OBVIOUS
<1>4. n \in Nat /\ DOMAIN d = 1 .. n /\ d \in [1 .. n -> all]
  BY <1>2, <1>3
<1>5. /\ DOMAIN d' = 1 .. n /\ d'[id] = run /\ \A x \in 1 .. n : x # id => d'[x] = d[x]
      /\ d' = [x \in 1 .. n |-> d'[x]]
  BY <1>4
<1>6. PICK row : row = d'
  OBVIOUS
<1>7. d' \in Seq({d'[k] : k \in DOMAIN d'})
  <2>1. row = [x \in 1 .. n |-> row[x]]
    BY <1>5, <1>6
  <2>2. row \in Seq({row[k] : k \in DOMAIN row})
    BY <1>4, <2>1, SequenceOfItsValues
  <2> QED BY <1>6, <2>2
<1> QED BY <1>4, <1>5, <1>7

LEMMA LoopBegins == ASSUME Y!LoopInv, Y!Begin PROVE Y!LoopInv'
<1>1. PICK run : run = [head |-> b, manifest |-> TRUE, audited |-> c, settled |-> FALSE,
                        findings |-> Y!FindingsOf(c), status |-> "unavailable"]
  OBVIOUS
<1>2. PICK n : n = Len(d)
  OBVIOUS
<1>3. PICK base \in {None} \cup {id \in DOMAIN d : Y!Present(id)} :
        e' = [step |-> "audited", id |-> n + 1, base |-> base, still |-> TRUE]
  BY <1>2 DEF Y!Begin
<1>4. d' = Append(d, run) /\ UNCHANGED <<a, b, c>> /\ f' = None /\ g' = None
  BY <1>1 DEF Y!Begin, Y!Forget
<1>5. PICK all : all = {d[k] : k \in DOMAIN d}
  OBVIOUS
<1>6. d \in Seq(all)
  BY <1>5 DEF Y!LoopInv
<1>7. /\ n \in Nat /\ DOMAIN d = 1 .. n /\ DOMAIN d' = 1 .. (n + 1) /\ d'[n + 1] = run
      /\ \A k \in 1 .. n : d'[k] = d[k]
      /\ d' \in Seq(all \cup {run})
  BY <1>2, <1>4, <1>6
<1>8. d' \in Seq({d'[k] : k \in DOMAIN d'})
  <2>1. \A k \in 1 .. (n + 1) : d'[k] \in {d'[x] : x \in DOMAIN d'}
    BY <1>7
  <2> QED BY <1>7, <2>1
<1>9. /\ DOMAIN run = {"head", "manifest", "audited", "settled", "findings", "status"}
      /\ run.head = b /\ run.audited = c /\ run.findings = Y!FindingsOf(c)
      /\ run.status = "unavailable"
  BY <1>1
<1>11. Y!RunFits(run)'
  BY <1>4, <1>9 DEF Y!RunFits, Y!LoopInv, Y!FindingsOf
<1>12. (\A id \in DOMAIN d : d[id] # None => Y!RunFits(d[id]))'
  <2>1. ASSUME NEW id \in DOMAIN d', NEW other, other = d'[id], other # None PROVE Y!RunFits(other)'
    <3>1. CASE id = n + 1
      BY <1>7, <1>11, <2>1, <3>1
    <3>2. CASE id # n + 1
      <4>1. id \in 1 .. n
        BY <1>7, <3>2
      <4>2. Y!RunFits(other)
        BY <1>7, <2>1, <4>1 DEF Y!LoopInv
      <4> QED BY <1>4, <4>2 DEF Y!RunFits, Y!FindingsOf
    <3> QED BY <3>1, <3>2
  <2> QED BY <2>1 DEF Y!RunFits, Y!FindingsOf
<1>13. /\ DOMAIN e' = {"step", "id", "base", "still"} /\ e'.step = "audited" /\ e'.id = n + 1
       /\ e'.base = base /\ e'.still = TRUE
  BY <1>3
<1>14. Y!InHand'
  <2>1. n + 1 \in DOMAIN d' /\ base \in {None} \cup (DOMAIN d' \ {n + 1})
    BY <1>3, <1>7
  <2>2. Y!RunFits(d[e.id])'
    BY <1>7, <1>11, <1>13 DEF Y!RunFits, Y!FindingsOf
  <2> QED BY <1>4, <1>7, <1>9, <1>13, <2>1, <2>2 DEF Y!InHand
<1>15. Y!DeltasAreEarned'
  BY <1>4 DEF Y!DeltasAreEarned
<1> QED BY <1>4, <1>8, <1>12, <1>14, <1>15, RunMoves

(* The refresh under way rewrites the record of its run.                    *)
LEMMA OwnRunRewritten ==
  ASSUME Y!LoopInv, Y!InHand, NEW run, d' = [d EXCEPT ![e.id] = run],
         UNCHANGED <<a, b, c>>, DOMAIN run = DOMAIN d[e.id], run.head = d[e.id].head,
         run.findings = d[e.id].findings, run.audited = d[e.id].audited,
         run.status \in {"unavailable", "passed", "failed"}
  PROVE  /\ d' \in Seq({d'[k] : k \in DOMAIN d'})
         /\ DOMAIN d' = DOMAIN d /\ d'[e.id] = run /\ \A x \in DOMAIN d : x # e.id => d'[x] = d[x]
         /\ Y!RunFits(run)' /\ (\A id \in DOMAIN d : d[id] # None => Y!RunFits(d[id]))'
<1>1. PICK own : own = e.id
  OBVIOUS
<1>2. own \in DOMAIN d /\ Y!RunFits(d[own])
  BY <1>1 DEF Y!InHand, Y!LoopInv
<1>3. /\ d' \in Seq({d'[k] : k \in DOMAIN d'}) /\ DOMAIN d' = DOMAIN d /\ d'[own] = run
      /\ \A x \in DOMAIN d : x # own => d'[x] = d[x]
  BY <1>1, <1>2, RunReplaced DEF Y!LoopInv
<1>4. Y!RunFits(run)'
  BY <1>1, <1>2 DEF Y!RunFits, Y!FindingsOf
<1>5. ASSUME NEW id \in DOMAIN d, NEW other, other = d'[id], other # None PROVE Y!RunFits(other)'
  <2>1. CASE id = own
    BY <1>3, <1>4, <1>5, <2>1
  <2>2. CASE id # own
    <3>1. Y!RunFits(other)
      BY <1>3, <1>5, <2>2 DEF Y!LoopInv
    <3> QED BY <3>1 DEF Y!RunFits, Y!FindingsOf
  <2> QED BY <2>1, <2>2
<1>6. (\A id \in DOMAIN d : d[id] # None => Y!RunFits(d[id]))'
  BY <1>3, <1>5 DEF Y!RunFits, Y!FindingsOf
<1> QED BY <1>1, <1>3, <1>4, <1>6

LEMMA LoopVerifies == ASSUME Y!LoopInv, Y!Verify PROVE Y!LoopInv'
<1>1. Y!InHand
  BY DEF Y!LoopInv, Y!Verify, Y!Idle
<1>2. PICK status \in {"passed", "failed"} : d' = [d EXCEPT ![e.id].status = status]
  BY DEF Y!Verify
<1>3. PICK old : old = d[e.id]
  OBVIOUS
<1>4. PICK run : run = [old EXCEPT !.status = status]
  OBVIOUS
<1>5. e.id \in DOMAIN d /\ Y!RunFits(old)
  BY <1>1, <1>3 DEF Y!InHand, Y!LoopInv
<1>6. /\ DOMAIN run = DOMAIN old /\ run.head = old.head /\ run.findings = old.findings
      /\ run.audited = old.audited /\ run.status = status
  BY <1>4, <1>5 DEF Y!RunFits
<1>8. d' = [d EXCEPT ![e.id] = run] /\ UNCHANGED <<a, b, c>> /\ f' = None /\ g' = None
  BY <1>2, <1>3, <1>4 DEF Y!Verify, Y!Forget
<1>9. /\ d' \in Seq({d'[k] : k \in DOMAIN d'})
      /\ DOMAIN d' = DOMAIN d /\ d'[e.id] = run /\ \A x \in DOMAIN d : x # e.id => d'[x] = d[x]
      /\ Y!RunFits(run)' /\ (\A id \in DOMAIN d : d[id] # None => Y!RunFits(d[id]))'
  <2>1. /\ DOMAIN run = DOMAIN d[e.id] /\ run.head = d[e.id].head
        /\ run.findings = d[e.id].findings /\ run.audited = d[e.id].audited
        /\ run.status \in {"unavailable", "passed", "failed"}
    BY <1>3, <1>6
  <2> QED BY <1>1, <1>8, <2>1, OwnRunRewritten
<1>10. e' = [e EXCEPT !.step = "verified"]
  BY DEF Y!Verify
<1>11. /\ DOMAIN e' = DOMAIN e /\ e'.step = "verified" /\ e'.id = e.id /\ e'.base = e.base
       /\ e'.still = e.still
  BY <1>1, <1>10 DEF Y!InHand
<1>12. Y!InHand'
  <2>1. Y!RunFits(d[e.id])'
    BY <1>9, <1>11 DEF Y!RunFits, Y!FindingsOf
  <2> QED BY <1>1, <1>3, <1>6, <1>8, <1>9, <1>11, <2>1 DEF Y!InHand
<1>13. Y!DeltasAreEarned'
  BY <1>8 DEF Y!DeltasAreEarned
<1> QED BY <1>8, <1>9, <1>12, <1>13, RunMoves

(* A delta of a refresh that nothing disturbed is of the tree as it is.     *)
LEMMA DeltaIsEarned ==
  ASSUME Y!LoopInv, Y!InHand, NEW failing, NEW run,
         f' = Y!ReviewDelta(e.id, e.base, failing), g' = None, UNCHANGED <<a, b, c>>,
         d' = [d EXCEPT ![e.id] = run],
         DOMAIN d' = DOMAIN d, d'[e.id] = run, \A x \in DOMAIN d : x # e.id => d'[x] = d[x],
         run.findings = d[e.id].findings, run.audited = d[e.id].audited,
         run.status = d[e.id].status
  PROVE  Y!DeltasAreEarned'
<1>1. PICK id, base, old : id = e.id /\ base = e.base /\ old = d[id]
  OBVIOUS
<1>2. /\ id \in DOMAIN d /\ Y!RunFits(old) /\ base # id
      /\ base \in {None} \cup DOMAIN d /\ (e.still => old.audited = c /\ old.head = b)
  <2>1. DOMAIN d \subseteq Nat
    BY DEF Y!LoopInv
  <2> QED BY <1>1, <2>1, CachesAssumption DEF Y!InHand
<1>3. PICK from : from = Y!HeadOf(base)
  OBVIOUS
<1>4. PICK scope : scope = Y!ChangedSince(from, failing)
  OBVIOUS
<1>5. PICK found : found = old.findings
  OBVIOUS
<1>6. PICK now : now = {x \in found : Y!FileOf(x) \in scope}
  OBVIOUS
<1>7. PICK before : before = IF base = None THEN {} ELSE {x \in d[base].findings : Y!FileOf(x) \in scope}
  OBVIOUS
<1>8. /\ f'.run = id /\ f'.base = base /\ f'.new = now \ before
      /\ f'.persisted = now \cap before /\ f'.outside = found \ now
      /\ f'.clean = (scope # {} /\ now = {} /\ ~Y!Blocked(old.status))
      /\ f'.sound = (failing = {} /\ e.still)
  BY <1>1, <1>3, <1>4, <1>5, <1>6, <1>7 DEF Y!ReviewDelta
<1>9. IsFiniteSet(found) /\ now \in SUBSET found
  BY <1>2, <1>5, <1>6, FindingsAreFinite DEF Y!RunFits
<1>10. /\ f'.new \cup f'.persisted \cup f'.outside = found
       /\ Y!Cardinality(f'.new) + Y!Cardinality(f'.persisted) + Y!Cardinality(f'.outside)
            = Y!Cardinality(found)
  BY <1>8, <1>9, EachFindingOnce
<1>11. f'.clean => old.status = "passed"
  BY <1>2, <1>8 DEF Y!RunFits, Y!Blocked
<1>12. ASSUME f'.clean, f'.sound, base # None, from # None, NEW x \in found
       PROVE  Y!FileOf(x) = None \/ ~Y!Shown(x.of) \/
                \E k \in DOMAIN a : from = k /\ old.audited[x.of] = a[k][x.of]
  <2>1. x \in Y!FindingsOf(old.audited)
    BY <1>2, <1>5, <1>12 DEF Y!RunFits
  <2>2. x.of \in LoopFiles /\ (Y!FileOf(x) = None \/ Y!FileOf(x) = x.of)
    BY <2>1, FindingOf
  <2>3. Y!FileOf(x) \notin scope
    BY <1>6, <1>8, <1>12
  <2>4. failing = {} /\ old.audited = c
    BY <1>2, <1>8, <1>12
  <2>5. Y!FileOf(x) # None /\ Y!Shown(x.of) => c[x.of] = a[from][x.of]
    BY <1>4, <1>12, <2>2, <2>3, <2>4, OutsideIsUntouched
  <2>6. from \in DOMAIN a
    BY <1>3, <1>12 DEF Y!HeadOf, Y!Present, Y!LoopInv, Y!RunFits
  <2> QED BY <2>4, <2>5, <2>6
<1>13. base # None => Y!HeadOf(base)' = from
  BY <1>1, <1>2, <1>3 DEF Y!HeadOf, Y!Present
<1>14. d'[id] = run /\ run.findings = found /\ run.audited = old.audited /\ run.status = old.status
  BY <1>1, <1>5
<1>15. (f.clean /\ f.sound /\ f.base # None /\ Y!HeadOf(f.base) # None =>
          \A x \in d[f.run].findings :
            Y!FileOf(x) = None \/ ~Y!Shown(x.of) \/ Y!Untouched(x.of, f.run, f.base))'
  <2> SUFFICES ASSUME f'.clean, f'.sound, base # None, from # None, NEW x \in found
               PROVE  Y!FileOf(x) = None \/ ~Y!Shown(x.of) \/ Y!Untouched(x.of, f.run, f.base)'
    BY <1>8, <1>13, <1>14 DEF Y!FileOf, Y!Shown
  <2>1. CASE Y!FileOf(x) = None \/ ~Y!Shown(x.of)
    BY <2>1
  <2>2. CASE Y!FileOf(x) # None /\ Y!Shown(x.of)
    <3>1. PICK k \in DOMAIN a : from = k /\ old.audited[x.of] = a[k][x.of]
      BY <1>12, <2>2
    <3> QED BY <1>8, <1>13, <1>14, <3>1 DEF Y!Untouched
  <2> QED BY <2>1, <2>2
<1> QED BY <1>8, <1>10, <1>11, <1>14, <1>15 DEF Y!DeltasAreEarned, Y!FileOf, Y!Shown

LEMMA LoopWritesDelta == ASSUME Y!LoopInv, Y!WriteDelta PROVE Y!LoopInv'
<1>1. Y!InHand
  BY DEF Y!LoopInv, Y!WriteDelta, Y!Idle
<1>2. CASE e.base # None /\ ~Y!Present(e.base)
  <2>1. e' = Y!Idle /\ f' = None /\ g' = None /\ UNCHANGED <<a, b, c, d>>
    BY <1>2 DEF Y!WriteDelta
  <2>2. Y!DeltasAreEarned'
    BY <2>1 DEF Y!DeltasAreEarned
  <2>3. (\A id \in DOMAIN d : d[id] # None => Y!RunFits(d[id]))'
    BY <2>1 DEF Y!LoopInv, Y!RunFits, Y!FindingsOf
  <2>4. d' \in Seq({d'[k] : k \in DOMAIN d'})
    BY <2>1 DEF Y!LoopInv
  <2> QED BY <2>1, <2>2, <2>3, <2>4, RunMoves
<1>3. CASE ~(e.base # None /\ ~Y!Present(e.base))
  <2>1. PICK failing \in GitFailures : f' = Y!ReviewDelta(e.id, e.base, failing)
    BY <1>3 DEF Y!WriteDelta
  <2>2. PICK old : old = d[e.id]
    OBVIOUS
  <2>3. PICK run : run = [old EXCEPT !.manifest = FALSE]
    OBVIOUS
  <2>4. /\ d' = [d EXCEPT ![e.id] = run] /\ e' = [e EXCEPT !.step = "attached"]
        /\ g' = None /\ UNCHANGED <<a, b, c>>
    BY <1>3, <2>2, <2>3 DEF Y!WriteDelta
  <2>5. e.id \in DOMAIN d /\ Y!RunFits(old)
    BY <1>1, <2>2 DEF Y!InHand, Y!LoopInv
  <2>6. /\ DOMAIN run = DOMAIN old /\ run.head = old.head /\ run.findings = old.findings
        /\ run.audited = old.audited /\ run.status = old.status
    BY <2>3, <2>5 DEF Y!RunFits
  <2>8. /\ d' \in Seq({d'[k] : k \in DOMAIN d'})
        /\ DOMAIN d' = DOMAIN d /\ d'[e.id] = run /\ \A x \in DOMAIN d : x # e.id => d'[x] = d[x]
        /\ Y!RunFits(run)' /\ (\A id \in DOMAIN d : d[id] # None => Y!RunFits(d[id]))'
    <3>1. /\ DOMAIN run = DOMAIN d[e.id] /\ run.head = d[e.id].head
          /\ run.findings = d[e.id].findings /\ run.audited = d[e.id].audited
          /\ run.status \in {"unavailable", "passed", "failed"}
      BY <2>2, <2>5, <2>6 DEF Y!RunFits
    <3> QED BY <1>1, <2>4, <3>1, OwnRunRewritten
  <2>9. /\ DOMAIN e' = DOMAIN e /\ e'.step = "attached" /\ e'.id = e.id /\ e'.base = e.base
        /\ e'.still = e.still
    BY <1>1, <2>4 DEF Y!InHand
  <2>10. Y!InHand'
    <3>1. Y!RunFits(d[e.id])'
      BY <2>8, <2>9 DEF Y!RunFits, Y!FindingsOf
    <3> QED BY <1>1, <2>2, <2>4, <2>6, <2>8, <2>9, <3>1 DEF Y!InHand
  <2>11. Y!DeltasAreEarned'
    BY <1>1, <2>1, <2>2, <2>4, <2>6, <2>8, DeltaIsEarned
  <2> QED BY <2>4, <2>8, <2>10, <2>11, RunMoves
<1> QED BY <1>2, <1>3

LEMMA LoopFinishes == ASSUME Y!LoopInv, Y!Finish PROVE Y!LoopInv'
<1>1. Y!InHand
  BY DEF Y!LoopInv, Y!Finish, Y!Idle
<1>2. PICK old : old = d[e.id]
  OBVIOUS
<1>3. PICK run : run = [old EXCEPT !.manifest = TRUE, !.settled = e.still]
  OBVIOUS
<1>4. PICK kept : kept = [d EXCEPT ![e.id] = run]
  OBVIOUS
<1>5. d' \in Y!Pruned(kept, e.id) /\ e' = Y!Idle /\ f' = None /\ g' = None /\ UNCHANGED <<a, b, c>>
  <2>1. kept = [d EXCEPT ![e.id].manifest = TRUE, ![e.id].settled = e.still]
    BY <1>2, <1>3, <1>4
  <2> QED BY <2>1 DEF Y!Finish, Y!Forget
<1>6. PICK gone \in SUBSET (DOMAIN kept \ {e.id}) :
        d' = [id \in DOMAIN kept |-> IF id \in gone THEN None ELSE kept[id]]
  BY <1>5 DEF Y!Pruned
<1>7. e.id \in DOMAIN d /\ Y!RunFits(old)
  BY <1>1, <1>2 DEF Y!InHand, Y!LoopInv
<1>8. /\ DOMAIN run = DOMAIN old /\ run.head = old.head /\ run.findings = old.findings
      /\ run.audited = old.audited /\ run.status = old.status
  BY <1>3, <1>7 DEF Y!RunFits
<1>9. PICK n : n = Len(d)
  OBVIOUS
<1>10. n \in Nat /\ DOMAIN d = 1 .. n
  <2>1. PICK all : all = {d[k] : k \in DOMAIN d}
    OBVIOUS
  <2>2. d \in Seq(all)
    BY <2>1 DEF Y!LoopInv
  <2> QED BY <1>9, <2>2
<1>11. DOMAIN kept = 1 .. n /\ kept[e.id] = run /\ \A x \in DOMAIN d : x # e.id => kept[x] = d[x]
  BY <1>4, <1>7, <1>10
<1>12. /\ DOMAIN d' = 1 .. n
       /\ \A id \in 1 .. n : d'[id] \in {None, kept[id]}
  BY <1>6, <1>11
<1>13. d' \in Seq({d'[k] : k \in DOMAIN d'})
  <2>1. d' = [id \in 1 .. n |-> d'[id]]
    BY <1>6, <1>11
  <2>2. d' \in [1 .. n -> {d'[k] : k \in DOMAIN d'}]
    BY <1>12, <2>1
  <2> QED BY <1>10, <2>2
<1>14. ASSUME NEW id \in DOMAIN d', NEW other, other = d'[id], other # None PROVE Y!RunFits(other)'
  <2>1. other = kept[id] /\ id \in DOMAIN d
    BY <1>10, <1>12, <1>14
  <2>2. CASE id = e.id
    <3>1. other = run
      BY <1>11, <2>1, <2>2
    <3> QED BY <1>5, <1>7, <1>8, <3>1 DEF Y!RunFits, Y!FindingsOf
  <2>3. CASE id # e.id
    <3>1. other = d[id]
      BY <1>11, <2>1, <2>3
    <3>2. Y!RunFits(other)
      BY <1>14, <2>1, <3>1 DEF Y!LoopInv
    <3> QED BY <1>5, <3>2 DEF Y!RunFits, Y!FindingsOf
  <2> QED BY <2>2, <2>3
<1>15. Y!DeltasAreEarned'
  BY <1>5 DEF Y!DeltasAreEarned
<1>16. (\A id \in DOMAIN d : d[id] # None => Y!RunFits(d[id]))'
  BY <1>14 DEF Y!RunFits, Y!FindingsOf
<1> QED BY <1>5, <1>13, <1>15, <1>16, RunMoves

LEMMA LoopCompares ==
  ASSUME Y!LoopInv, NEW id \in DOMAIN d, NEW base \in DOMAIN d, Y!Compare(id, base)
  PROVE  Y!LoopInv'
<1>1. PICK failing \in GitFailures : g' = Y!RemediationDelta(id, base, failing)
  BY DEF Y!Compare
<1>2. f' = None /\ UNCHANGED <<a, b, c, d, e>> /\ d[id] # None /\ d[base] # None
  BY DEF Y!Compare, Y!Present
<1>3. PICK changed : changed = Y!PackagesChanged(base, id, failing)
  OBVIOUS
<1>4. /\ g'.run = id /\ g'.base = base
      /\ ~g'.changed => d[id].findings = d[base].findings /\ changed = {}
      /\ g'.sound => failing = {} /\ None \notin {Y!HeadOf(id), Y!HeadOf(base)}
                     /\ Y!HeadOf(id) = b /\ d[id].audited = c
  BY <1>1, <1>3 DEF Y!RemediationDelta
<1>5. ASSUME ~g'.changed, g'.sound, NEW x \in PackageFiles, Y!Shown(x)
      PROVE  Y!Untouched(x, id, base)
  <2>1. PICK from, to : from = Y!HeadOf(base) /\ to = Y!HeadOf(id)
    OBVIOUS
  <2>2. from # None /\ to = b /\ to # None /\ failing = {} /\ d[id].audited = c /\ x \in LoopFiles
    BY <1>4, <1>5, <2>1, LoopAssumption
  <2>0. PrintedNames[x] = x /\ x \notin UnlistedFiles
    BY <1>5 DEF Y!Shown
  <2>3. a[from][x] = a[b][x] /\ x \notin Y!ChangedSince(None, {})
    BY <1>3, <1>4, <1>5, <2>0, <2>1, <2>2 DEF Y!PackagesChanged, Y!Differing, Y!Printed
  <2>4. c[x] = a[b][x]
    <3>1. CASE a[b][x] = Absent
      BY <2>0, <2>2, <2>3, <3>1 DEF Y!ChangedSince, Y!Printed
    <3>2. CASE a[b][x] # Absent
      BY <2>0, <2>2, <2>3, <3>2 DEF Y!ChangedSince, Y!Differing, Y!Printed
    <3> QED BY <3>1, <3>2
  <2>5. from \in DOMAIN a
    BY <2>1, <2>2 DEF Y!HeadOf, Y!Present, Y!LoopInv, Y!RunFits
  <2> QED BY <2>1, <2>2, <2>3, <2>4, <2>5 DEF Y!Untouched
<1>6. \A x \in PackageFiles : Y!Untouched(x, id, base) => Y!Untouched(x, id, base)'
  BY <1>2 DEF Y!Untouched, Y!HeadOf, Y!Present
<1>7. (\A x \in PackageFiles : Y!Untouched(x, g.run, g.base))' <=>
        \A x \in PackageFiles : Y!Untouched(x, id, base)'
  BY <1>4 DEF Y!Untouched, Y!HeadOf, Y!Present
<1>8. Y!DeltasAreEarned'
  BY <1>2, <1>4, <1>5, <1>6, <1>7 DEF Y!DeltasAreEarned
<1>9. (\A which \in DOMAIN d : d[which] # None => Y!RunFits(d[which]))'
  BY <1>2 DEF Y!LoopInv, Y!RunFits, Y!FindingsOf
<1>10. e' = Y!Idle \/ Y!InHand'
  <2>1. CASE e = Y!Idle
    BY <1>2, <2>1 DEF Y!Idle
  <2>2. CASE Y!InHand
    <3>1. Y!RunFits(d[e.id]) => Y!RunFits(d[e.id])'
      BY <1>2 DEF Y!RunFits, Y!FindingsOf
    <3> QED BY <1>2, <2>2, <3>1 DEF Y!InHand
  <2> QED BY <2>1, <2>2 DEF Y!LoopInv
<1>11. d' \in Seq({d'[k] : k \in DOMAIN d'})
  BY <1>2 DEF Y!LoopInv
<1> QED BY <1>2, <1>8, <1>9, <1>10, <1>11, RunMoves

LEMMA LoopStep == ASSUME Y!LoopInv, Y!Next PROVE Y!LoopInv'
<1>1. ASSUME NEW x \in LoopFiles, NEW content, Y!Edit(x, content) PROVE Y!LoopInv'
  <2>1. UNCHANGED <<a, b, d>> /\ e' = Y!Disturbed /\ Y!Forget
    BY <1>1 DEF Y!Edit
  <2>2. a' \in Seq({a'[k] : k \in DOMAIN a'}) /\ b' \in DOMAIN a'
    BY <2>1 DEF Y!LoopInv
  <2> QED BY <2>1, <2>2, RepositoryMoves
<1>2. ASSUME Y!Commit PROVE Y!LoopInv'
  <2>1. PICK n : n = Len(a)
    OBVIOUS
  <2>2. PICK all : all = {a[k] : k \in DOMAIN a}
    OBVIOUS
  <2>3. a \in Seq(all)
    BY <2>2 DEF Y!LoopInv
  <2>4. a' = Append(a, c) /\ b' = n + 1 /\ UNCHANGED d /\ e' = Y!Disturbed /\ Y!Forget
    BY <1>2, <2>1 DEF Y!Commit
  <2>5. /\ n \in Nat /\ DOMAIN a = 1 .. n /\ DOMAIN a' = 1 .. (n + 1)
        /\ \A k \in 1 .. n : a'[k] = a[k]
        /\ a' \in Seq(all \cup {c})
    BY <2>1, <2>3, <2>4
  <2>6. \A k \in 1 .. (n + 1) : a'[k] \in {a'[x] : x \in DOMAIN a'}
    BY <2>5
  <2>7. a' \in Seq({a'[k] : k \in DOMAIN a'}) /\ b' \in DOMAIN a' /\ DOMAIN a \subseteq DOMAIN a'
    BY <2>4, <2>5, <2>6
  <2> QED BY <2>4, <2>5, <2>7, RepositoryMoves
<1>3. ASSUME NEW k \in DOMAIN a, Y!Checkout(k) PROVE Y!LoopInv'
  <2>1. UNCHANGED <<a, d>> /\ b' = k /\ e' = Y!Disturbed /\ Y!Forget
    BY <1>3 DEF Y!Checkout
  <2>2. a' \in Seq({a'[x] : x \in DOMAIN a'}) /\ b' \in DOMAIN a'
    BY <1>3, <2>1 DEF Y!LoopInv
  <2> QED BY <2>1, <2>2, RepositoryMoves
<1>4. ASSUME Y!Die PROVE Y!LoopInv'
  <2>1. UNCHANGED <<a, b, d>> /\ e' = Y!Idle /\ Y!Forget
    BY <1>4 DEF Y!Die
  <2>2. a' \in Seq({a'[k] : k \in DOMAIN a'}) /\ b' \in DOMAIN a'
    BY <2>1 DEF Y!LoopInv
  <2> QED BY <2>1, <2>2, RepositoryMoves
<1> QED BY <1>1, <1>2, <1>3, <1>4, LoopBegins, LoopVerifies, LoopWritesDelta, LoopFinishes,
          LoopCompares DEF Y!Next

LEMMA LoopStands ==
  ASSUME Y!LoopInv, UNCHANGED <<a, b, c, d, e, f, g>> PROVE Y!LoopInv'
<1>1. (\A id \in DOMAIN d : d[id] # None => Y!RunFits(d[id]))'
  BY DEF Y!LoopInv, Y!RunFits, Y!FindingsOf
<1>2. e' = Y!Idle \/ Y!InHand'
  BY DEF Y!LoopInv, Y!InHand, Y!RunFits, Y!FindingsOf, Y!Idle
<1>3. Y!DeltasAreEarned'
  BY DEF Y!LoopInv, Y!DeltasAreEarned, Y!Untouched, Y!HeadOf, Y!Present, Y!FileOf
<1>4. d' \in Seq({d'[k] : k \in DOMAIN d'})
  BY DEF Y!LoopInv
<1> QED BY <1>1, <1>2, <1>3, <1>4, RunMoves

(* A refresh that nothing disturbed is of the tree and commit that are      *)
(* there, whatever else happens to runs and repository.                     *)
THEOREM RunsFit == Parts => [](part = "loop" => Y!LoopInv)
<1>1. PartsInit => (part = "loop" => Y!LoopInv)
  BY LoopInit
<1>2. (part = "loop" => Y!LoopInv) /\ [PartsNext]_parts => (part = "loop" => Y!LoopInv)'
  <2> SUFFICES ASSUME part = "loop" => Y!LoopInv, [PartsNext]_parts, part' = "loop"
               PROVE  Y!LoopInv'
    OBVIOUS
  <2>1. Y!Next \/ UNCHANGED <<a, b, c, d, e, f, g>>
    BY DEF PartsNext, parts, shared
  <2>2. part = "loop"
    BY DEF PartsNext, parts
  <2> QED BY <2>1, <2>2, LoopStep, LoopStands
<1> QED BY <1>1, <1>2, PTL DEF Parts

(* A delta that says to stop, of a refresh that nothing disturbed, leaves   *)
(* findings only where nothing changed since the baseline's commit, and     *)
(* deltas count every finding once.                                         *)
THEOREM DeltasEarned == Parts => []DeltasAreEarned
<1>1. (part = "loop" => Y!LoopInv) => DeltasAreEarned
  BY DEF Y!LoopInv, DeltasAreEarned
<1> QED BY <1>1, RunsFit, PTL
==============================================================================
