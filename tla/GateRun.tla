------------------------------ MODULE GateRun ------------------------------
(***************************************************************************)
(* The gate controller: gate runs opened over one source run, the answers  *)
(* a controller gives to them, and the source run's resolution ledger into *)
(* which record-disposition answers are replayed.  gate-run.json and       *)
(* resolution-ledger.json are rewritten in place, so a process that dies   *)
(* inside the write leaves a torn file; gate-responses.jsonl is only       *)
(* appended to.  Commands of different processes interleave freely.        *)
(***************************************************************************)
EXTENDS Integers, FiniteSets, Sequences

CONSTANTS
  Procs,        \* the processes that run gate and gate-respond
  MaxGates,     \* gate run ids are 1 .. MaxGates, in the order of their names
  Generated,    \* TRUE when ids are generated (each later in name order),
                \* FALSE when the caller names them
  Findings,     \* the findings that can be dispositioned
  NoFinding,    \* what an answer that dispositions nothing is about
  Nothing,      \* no file, no record, no job
  Torn,         \* a file that a dead process left half-written
  MaxAnswers,   \* bound on the answers given
  MaxCrashes,   \* bound on process deaths
  MaxReaudits   \* bound on the audits that rebuild the ledger

VARIABLES
  gate,      \* status in each gate-run.json, Nothing or Torn
  history,   \* the lines of each gate-responses.jsonl
  ledger,    \* finding_dispositions of resolution-ledger.json as last stored,
             \* and whether the file is torn
  pc, job,   \* what each process does, and with what
  answers, crashes, reaudits

vars == <<gate, history, ledger, pc, job, answers, crashes, reaudits>>

GateIds == 1 .. MaxGates

Terminal == {"completed", "aborted"}

Driveable == {"awaiting-response", "ready-to-proceed"}

\* fix stands for fix and route-next-slice, which the code treats alike.
Actions == {"approve", "abort", "skip", "fix", "record-disposition"}

\* A line of the history; `at` is its timestamp.
Answers == [action : Actions, finding : Findings \cup {NoFinding}, at : 1 .. MaxAnswers]

\* _status_after_response
StatusAfter(status, action) ==
  CASE action = "abort" -> "aborted"
    [] action = "approve" -> "completed"
    [] action = "skip" /\ status = "ready-to-proceed" -> "completed"
    [] OTHER -> status

\* find_active_gate_run_id: the gate runs that can still be answered; a file
\* that does not parse is passed over.
ActiveGates == {g \in GateIds : gate[g] \in Driveable}

-----------------------------------------------------------------------------
(* Replaying the dispositions.                                              *)

\* Positions of the record-disposition answers about f, in readable gate runs.
Recorded(f) ==
  {p \in GateIds \X (1 .. MaxAnswers) :
     /\ gate[p[1]] \notin {Nothing, Torn}
     /\ p[2] \in DOMAIN history[p[1]]
     /\ history[p[1]][p[2]].action = "record-disposition"
     /\ history[p[1]][p[2]].finding = f}

\* Name order of the gate runs, then order of the lines.
Before(a, b) == a[1] < b[1] \/ (a[1] = b[1] /\ a[2] <= b[2])

\* Mutant: the gate runs are replayed from the newest to the oldest.
ReplayBackwards(l) ==
  [f \in Findings |->
     IF Recorded(f) = {} THEN l[f]
     ELSE LET first == CHOOSE r \in Recorded(f) : \A s \in Recorded(f) : Before(r, s)
          IN  history[first[1]][first[2]].at]

\* _merge_finding_dispositions of the ledger with load_finding_dispositions:
\* per finding the last replayed record wins.
Replay(l) ==
  [f \in Findings |->
     IF Recorded(f) = {} THEN l[f]
     ELSE LET last == CHOOSE r \in Recorded(f) : \A s \in Recorded(f) : Before(s, r)
          IN  history[last[1]][last[2]].at]

Empty == [f \in Findings |-> 0]

-----------------------------------------------------------------------------
Init ==
  /\ gate = [g \in GateIds |-> Nothing]
  /\ history = [g \in GateIds |-> <<>>]
  /\ ledger = [at |-> Empty, torn |-> FALSE]
  /\ pc = [p \in Procs |-> "idle"]
  /\ job = [p \in Procs |-> Nothing]
  /\ answers = 0
  /\ crashes = 0
  /\ reaudits = 0

Go(p, phase, j) ==
  /\ pc' = [pc EXCEPT ![p] = phase]
  /\ job' = [job EXCEPT ![p] = j]

Done(p) == Go(p, "idle", Nothing)

\* create_gate_run up to its write: another active gate run of this source run
\* is refused; a generated id is new.
CheckCreate(p, g, status) ==
  /\ pc[p] = "idle"
  /\ ActiveGates \subseteq {g}
  /\ Generated => \A h \in GateIds : h >= g => gate[h] = Nothing /\ history[h] = <<>>
  /\ Go(p, "writing", [gate |-> g, status |-> status, answer |-> Nothing])
  /\ UNCHANGED <<gate, history, ledger, answers, crashes, reaudits>>

\* Mutant: a closed gate run is answered again.
ReadClosedRun(p, g, action, f) ==
  /\ pc[p] = "idle"
  /\ gate[g] \notin {Nothing, Torn}
  /\ answers < MaxAnswers
  /\ answers' = answers + 1
  /\ (action = "record-disposition") <=> (f # NoFinding)
  /\ Go(p, "read", [gate |-> g, status |-> gate[g],
                    answer |-> [action |-> action, finding |-> f, at |-> answers + 1]])
  /\ UNCHANGED <<gate, history, ledger, crashes, reaudits>>

\* record_gate_response loads the gate run and refuses a terminal one.
ReadRun(p, g, action, f) ==
  /\ pc[p] = "idle"
  /\ gate[g] \in Driveable
  /\ answers < MaxAnswers
  /\ answers' = answers + 1
  /\ (action = "record-disposition") <=> (f # NoFinding)
  /\ Go(p, "read", [gate |-> g, status |-> gate[g],
                    answer |-> [action |-> action, finding |-> f, at |-> answers + 1]])
  /\ UNCHANGED <<gate, history, ledger, crashes, reaudits>>

\* _append_gate_response
Append1(p) ==
  /\ pc[p] = "read"
  /\ LET j == job[p] IN
       /\ history' = [history EXCEPT ![j.gate] = Append(@, j.answer)]
       /\ IF j.answer.action = "record-disposition"
          THEN Go(p, "applying", j)
          ELSE Go(p, "writing", [j EXCEPT !.status = StatusAfter(j.status, j.answer.action)])
  /\ UNCHANGED <<gate, ledger, answers, crashes, reaudits>>

\* apply_record_disposition reads the ledger and every history and merges the
\* answer last; a ledger that does not parse ends the command with an error.
Apply(p) ==
  /\ pc[p] = "applying"
  /\ LET j == job[p] IN
       \/ /\ ledger.torn
          /\ Done(p)
       \/ /\ ~ledger.torn
          /\ Go(p, "merged",
                [gate |-> j.gate, status |-> j.status, answer |-> j.answer,
                 merged |-> [Replay(ledger.at) EXCEPT ![j.answer.finding] = j.answer.at]])
  /\ UNCHANGED <<gate, history, ledger, answers, crashes, reaudits>>

\* The merged ledger replaces the file: truncated first, then written.
TearLedger(p) ==
  /\ pc[p] = "merged"
  /\ ledger' = [ledger EXCEPT !.torn = TRUE]
  /\ Go(p, "storing", job[p])
  /\ UNCHANGED <<gate, history, answers, crashes, reaudits>>

StoreLedger(p) ==
  /\ pc[p] = "storing"
  /\ ledger' = [at |-> job[p].merged, torn |-> FALSE]
  /\ LET j == job[p] IN
       IF j.answer = Nothing THEN Done(p)
       ELSE Go(p, "writing", [gate |-> j.gate, answer |-> j.answer,
                              status |-> StatusAfter(j.status, j.answer.action)])
  /\ UNCHANGED <<gate, history, answers, crashes, reaudits>>

\* gate-run.json is replaced the same way.
TearRun(p) ==
  /\ pc[p] = "writing"
  /\ gate' = [gate EXCEPT ![job[p].gate] = Torn]
  /\ Go(p, "saving", job[p])
  /\ UNCHANGED <<history, ledger, answers, crashes, reaudits>>

SaveRun(p) ==
  /\ pc[p] = "saving"
  /\ gate' = [gate EXCEPT ![job[p].gate] = job[p].status]
  /\ Done(p)
  /\ UNCHANGED <<history, ledger, answers, crashes, reaudits>>

\* The process dies; the files stay as they are.
Crash(p) ==
  /\ pc[p] # "idle"
  /\ crashes < MaxCrashes
  /\ crashes' = crashes + 1
  /\ Done(p)
  /\ UNCHANGED <<gate, history, ledger, answers, reaudits>>

\* plan_read_only_audit runs again under the same run id: it builds a new
\* ledger, whose dispositions are those of the histories alone, and stores it.
Reaudit(p) ==
  /\ pc[p] = "idle"
  /\ reaudits < MaxReaudits
  /\ reaudits' = reaudits + 1
  /\ Go(p, "merged", [gate |-> Nothing, status |-> Nothing, answer |-> Nothing,
                      merged |-> Replay(Empty)])
  /\ UNCHANGED <<gate, history, ledger, answers, crashes>>

Respond(p) == \E g \in GateIds, a \in Actions, f \in Findings \cup {NoFinding} :
                ReadRun(p, g, a, f)

Create(p) == \E g \in GateIds, s \in Driveable : CheckCreate(p, g, s)

Step(p) == Append1(p) \/ Apply(p) \/ TearLedger(p) \/ StoreLedger(p) \/ TearRun(p) \/ SaveRun(p)

Next == \E p \in Procs : Create(p) \/ Respond(p) \/ Reaudit(p) \/ Step(p) \/ Crash(p)

Spec == Init /\ [][Next]_vars

-----------------------------------------------------------------------------
\* A closed gate run stays closed.
StaysClosed == \A g \in GateIds : gate[g] \in Terminal => gate'[g] = gate[g]

(* The ledger never goes back to an older decision about a finding, however *)
(* often the histories are replayed into it.                                *)
DecisionsNeverRevert ==
  [][\A f \in Findings : ledger'.at[f] >= ledger.at[f]]_vars

KeepsReadableDecisions ==
  (\A g \in GateIds : gate[g] # Torn) => \A f \in Findings : ledger'.at[f] >= ledger.at[f]

(* As long as no gate-run.json is torn, the ledger never goes back, whatever *)
(* else died in the middle of an answer or of an audit.                     *)
ReadableDecisionsStand == [][KeepsReadableDecisions]_vars

-----------------------------------------------------------------------------
(* The invariant of the proof: of one process, and generated ids.           *)

OneProcess == \A p, q \in Procs : p = q

Statuses == Driveable \cup Terminal

GateTypes ==
  /\ gate \in [GateIds -> Statuses \cup {Nothing, Torn}]
  /\ history \in [GateIds -> Seq(Answers)]
  /\ DOMAIN ledger = {"at", "torn"} /\ ledger.at \in [Findings -> Nat]
  /\ answers \in 0 .. MaxAnswers
  /\ DOMAIN pc = Procs /\ DOMAIN job = Procs

\* Answers are recorded in the order they are given, over all gate runs.
HistoryInOrder ==
  /\ \A g \in GateIds : Len(history[g]) <= answers
  /\ \A g, h \in GateIds : \A i \in DOMAIN history[g], k \in DOMAIN history[h] :
       /\ history[g][i].at <= answers
       /\ g < h \/ (g = h /\ i < k) => history[g][i].at < history[h][k].at

\* After the latest gate run there is nothing, and a recorded answer has a run.
NothingAfter(g) == \A h \in GateIds : h > g => gate[h] = Nothing /\ history[h] = <<>>

OnlyLatestIsOpen ==
  \A g \in GateIds :
    /\ gate[g] \in Driveable => NothingAfter(g)
    /\ gate[g] = Nothing => history[g] = <<>>

\* The decisions `at` were all given as answers.
Given(at) ==
  \A f \in Findings : at[f] # 0 =>
    \E g \in GateIds : \E i \in DOMAIN history[g] :
      /\ history[g][i].action = "record-disposition" /\ history[g][i].finding = f
      /\ history[g][i].at = at[f]

\* The gate run a process is at is the latest, and the only one that is open.
AtLatest(g) ==
  /\ g \in GateIds /\ NothingAfter(g)
  /\ \A h \in GateIds : gate[h] \in Driveable => h = g

InHand(phase, s) ==
  /\ phase \in {"idle", "read", "applying", "merged", "storing", "writing", "saving"}
  /\ phase \in {"read", "applying", "writing", "saving"}
     \/ (phase \in {"merged", "storing"} /\ s.answer # Nothing) =>
       AtLatest(s.gate) /\ s.status \in Statuses
  /\ phase \in {"read", "applying"} \/ (phase \in {"merged", "storing"} /\ s.answer # Nothing) =>
       s.answer \in Answers /\ gate[s.gate] \in Driveable
  /\ phase = "read" =>
       /\ s.answer.action = "record-disposition" => s.answer.finding \in Findings
       /\ s.answer.at <= answers /\ \A g \in GateIds : Len(history[g]) < answers
       /\ \A g \in GateIds : \A i \in DOMAIN history[g] : history[g][i].at < s.answer.at
  /\ phase = "applying" =>
       /\ s.answer.action = "record-disposition" /\ s.answer.finding \in Findings
       /\ \A g \in GateIds : \A i \in DOMAIN history[g] : history[g][i].at <= s.answer.at
       /\ \E i \in DOMAIN history[s.gate] : history[s.gate][i] = s.answer
  /\ phase \in {"merged", "storing"} =>
       /\ s.merged \in [Findings -> Nat] /\ Given(s.merged)
       /\ (\A g \in GateIds : gate[g] # Torn) => \A f \in Findings : s.merged[f] >= ledger.at[f]
  /\ phase = "writing" => gate[s.gate] \notin Terminal
  /\ phase = "saving" => gate[s.gate] = Torn

DecisionsInv ==
  /\ GateTypes /\ HistoryInOrder /\ OnlyLatestIsOpen /\ Given(ledger.at)
  /\ \A p \in Procs : InHand(pc[p], job[p])
=============================================================================
