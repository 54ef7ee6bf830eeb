-------------------------- MODULE SimilarityCache --------------------------
(***************************************************************************)
(* The cache of whole similarity reports. A report's key is a digest of    *)
(* the files the scan has read and of the policy; a report is one entry    *)
(* file, and an index says which entries there are and whose the latest    *)
(* is. Quality Runner's own comparison works on the files as they were     *)
(* read; an outside tool, one for each language, is started in the         *)
(* repository and reads it again. Each process reads the index once and    *)
(* writes it whole after its entry; the repository is edited and tools     *)
(* are installed meanwhile.                                                *)
(*                                                                         *)
(* The files are those of the languages there are tools for, each with     *)
(* functions to compare. Left out: the cut of a report at a number of      *)
(* clusters, and the version and the code of Quality Runner, which belong  *)
(* to the key and do not change here.                                      *)
(***************************************************************************)
EXTENDS Integers, FiniteSets

CONSTANTS
  Processes, Tools,
  Trees,     \* the repository: functions from the tools of its languages to contents
  MaxScans, MaxEdits,
  None

VARIABLES
  tree, installed,
  index,    \* index.json: [rows, latest]
  entries,  \* entry file -> report, by identity
  job,      \* process -> its scan
  shown,    \* the latest scan's result
  raced,    \* identities whose entry is of a scan during which the tree was edited
  scans, edits

vars == <<tree, installed, index, entries, job, shown, raced, scans, edits>>

-----------------------------------------------------------------------------
Policies == {"native", "external", "off"}

cache_identity(files, policy) == [files |-> files, policy |-> policy]

\* What tells a prior identity from that of now.
Reasons(prior, identity) ==
  IF prior = None THEN {"missing-entry"}
  ELSE {r \in {"source-content-changed"} : prior.files # identity.files}
         \cup {r \in {"scanner-configuration-changed"} : prior.policy # identity.policy}

\* `of`: the states of the repository that the report was made from.
Report(rows, status, of) == [rows |-> rows, status |-> status, of |-> of]

\* Mutant: the comparison loads the files itself.
SeenLate(s) == tree

\* The files a comparison is handed: those the scan has read.
Seen(s) == s.files

Native(s) ==
  LET status == IF DOMAIN s.files = {} THEN "not_applicable" ELSE "executed"
  IN  Report([t \in {"native"} |-> status], status, {Seen(s)})

Skipped(selected) == Report([t \in selected |-> "skipped"], "skipped", {})

\* One tool that ran is enough for a report that counts as executed.
Overall(rows) ==
  LET statuses == {rows[t] : t \in DOMAIN rows}
  IN  CASE "executed" \in statuses -> "executed"
        [] "executed" \notin statuses /\ "failed" \in statuses -> "failed"
        [] statuses = {"missing"} -> "missing"
        [] OTHER -> "not_applicable"

\* A hit keeps the report, and calls all of its tools cached.
AsCached(report) == [report EXCEPT !.rows = [t \in DOMAIN report.rows |-> "cached"]]

\* The word a scan has for its tools.
ModuleStatus(policy, report) ==
  LET statuses == {report.rows[t] : t \in DOMAIN report.rows}
  IN  CASE policy = "off" -> "disabled"
        [] policy # "off" /\ statuses \cap {"failed", "missing"} # {} -> "unavailable"
        [] policy # "off" /\ statuses \cap {"failed", "missing"} = {}
             /\ statuses \cap {"executed", "cached"} # {} -> "enabled"
        [] OTHER -> IF statuses = {} THEN "not_run" ELSE "not_applicable"

\* The state of the cache that a scan reports.
CacheStatus(s) ==
  CASE ~s.persist \/ s.policy = "off" -> "disabled"
    [] OTHER -> IF s.failures > 0 THEN "degraded"
                ELSE IF DOMAIN s.files = {} THEN "not-needed"
                ELSE IF ~s.missed THEN "warm"
                ELSE IF s.reasons \subseteq {"missing-entry"} THEN "cold" ELSE "invalidated"

-----------------------------------------------------------------------------
Idle == [pc |-> "idle"]

Init ==
  /\ tree \in Trees
  /\ installed \in SUBSET Tools
  /\ index = [rows |-> {}, latest |-> None]
  /\ entries = [i \in {} |-> None]
  /\ job = [p \in Processes |-> Idle]
  /\ shown = None
  /\ raced = {}
  /\ scans = 0 /\ edits = 0

\* The files are read, and with them the key is settled. `edited`: the tree has
\* changed since.
Begin(p) ==
  /\ job[p].pc = "idle" /\ scans < MaxScans
  /\ \E policy \in Policies, persist \in BOOLEAN :
       job' = [job EXCEPT ![p] =
                 [pc |-> IF persist /\ policy # "off" THEN "get" ELSE "scan",
                  policy |-> policy, persist |-> persist, files |-> tree, edited |-> FALSE,
                  index |-> None, selected |-> {}, rows |-> [t \in {} |-> None], of |-> {},
                  report |-> None, missed |-> FALSE, reasons |-> {}, failures |-> 0]]
  /\ scans' = scans + 1
  /\ UNCHANGED <<tree, installed, index, entries, shown, raced, edits>>

\* `edited`: the tree was edited during the scan the report is of.
Shown(s, report, hit) ==
  shown' = [identity |-> cache_identity(s.files, s.policy), report |-> report, hit |-> hit,
            edited |-> IF hit THEN cache_identity(s.files, s.policy) \in raced ELSE s.edited,
            tools |-> ModuleStatus(s.policy, report), cache |-> CacheStatus(s),
            missed |-> s.missed, reasons |-> s.reasons]

\* The index is loaded, and an entry it names is read.
Get(p) ==
  LET s == job[p]
      identity == cache_identity(s.files, s.policy)
      listed == identity \in index.rows
      reasons == IF listed THEN {"missing-entry"} ELSE Reasons(index.latest, identity)
  IN  /\ s.pc = "get"
      /\ IF listed /\ identity \in DOMAIN entries
         THEN /\ Shown(s, AsCached(entries[identity]), TRUE)
              /\ job' = [job EXCEPT ![p] = Idle]
         ELSE /\ job' = [job EXCEPT ![p] = [s EXCEPT !.pc = "scan", !.index = index,
                                              !.missed = TRUE, !.reasons = reasons]]
              /\ UNCHANGED shown
      /\ UNCHANGED <<tree, installed, index, entries, raced, scans, edits>>

Compare(p) ==
  LET s == job[p]
  IN  /\ s.pc = "scan" /\ s.policy # "external"
      /\ job' = [job EXCEPT ![p].pc = "put",
                   ![p].report = IF s.policy = "off" THEN Skipped(DOMAIN tree) ELSE Native(s)]
      /\ UNCHANGED <<tree, installed, index, entries, shown, raced, scans, edits>>

\* The tools for the languages that the repository has now.
Select(p) ==
  /\ job[p].pc = "scan" /\ job[p].policy = "external"
  /\ job' = [job EXCEPT ![p].pc = "tools", ![p].selected = DOMAIN tree]
  /\ UNCHANGED <<tree, installed, index, entries, shown, raced, scans, edits>>

\* One tool over the repository: its exit code and a timeout are the tool's.
RunTool(p) ==
  LET s == job[p]
  IN  /\ s.pc = "tools"
      /\ \E t \in s.selected \ DOMAIN s.rows, outcome \in {"executed", "failed"} :
           LET status == IF t \in installed THEN outcome ELSE "missing"
           IN  job' = [job EXCEPT
                         ![p].rows = [u \in DOMAIN s.rows \cup {t} |-> IF u = t THEN status ELSE s.rows[u]],
                         ![p].of = IF status = "executed" THEN @ \cup {tree} ELSE @]
      /\ UNCHANGED <<tree, installed, index, entries, shown, raced, scans, edits>>

Collect(p) ==
  LET s == job[p]
  IN  /\ s.pc = "tools" /\ DOMAIN s.rows = s.selected
      /\ job' = [job EXCEPT ![p].pc = "put", ![p].report = Report(s.rows, Overall(s.rows), s.of)]
      /\ UNCHANGED <<tree, installed, index, entries, shown, raced, scans, edits>>

Kept(s) ==
  /\ s.persist /\ s.policy # "off"
  /\ s.report.status \in {"executed", "not_applicable"}

\* Nothing to keep: the scan ends with its report.
Show(p) ==
  /\ job[p].pc = "put" /\ ~Kept(job[p])
  /\ Shown(job[p], job[p].report, FALSE)
  /\ job' = [job EXCEPT ![p] = Idle]
  /\ UNCHANGED <<tree, installed, index, entries, raced, scans, edits>>

\* Mutant: the index is written although the entry was not.
GoesOnAnyway(s, written) == TRUE

GoesOn(s, written) == written

PutEntry(p) ==
  LET s == job[p]
      identity == cache_identity(s.files, s.policy)
  IN  /\ s.pc = "put" /\ Kept(s)
      /\ \E written \in BOOLEAN :
           /\ IF written
              THEN /\ entries' = [i \in DOMAIN entries \cup {identity} |->
                                    IF i = identity THEN s.report ELSE entries[i]]
                   /\ raced' = IF s.edited THEN raced \cup {identity} ELSE raced \ {identity}
              ELSE UNCHANGED <<entries, raced>>
           /\ IF GoesOn(s, written)
              THEN job' = [job EXCEPT ![p].pc = "index"] /\ UNCHANGED shown
              ELSE /\ Shown([s EXCEPT !.failures = 1], s.report, FALSE)
                   /\ job' = [job EXCEPT ![p] = Idle]
      /\ UNCHANGED <<tree, installed, index, scans, edits>>

\* The rows that others wrote since the index was read are lost.
PutIndex(p) ==
  LET s == job[p]
      identity == cache_identity(s.files, s.policy)
  IN  /\ s.pc = "index"
      /\ \E written \in BOOLEAN :
           /\ index' = IF written THEN [rows |-> s.index.rows \cup {identity}, latest |-> identity]
                       ELSE index
           /\ Shown([s EXCEPT !.failures = IF written THEN 0 ELSE 1], s.report, FALSE)
      /\ job' = [job EXCEPT ![p] = Idle]
      /\ UNCHANGED <<tree, installed, entries, raced, scans, edits>>

\* Both files are replaced whole: a process that dies has written them or not.
Die(p) ==
  /\ job[p].pc # "idle"
  /\ job' = [job EXCEPT ![p] = Idle]
  /\ UNCHANGED <<tree, installed, index, entries, shown, raced, scans, edits>>

Edit ==
  /\ edits < MaxEdits
  /\ \E t \in Trees \ {tree} : tree' = t
  /\ job' = [p \in Processes |-> IF job[p].pc = "idle" THEN Idle ELSE [job[p] EXCEPT !.edited = TRUE]]
  /\ edits' = edits + 1
  /\ UNCHANGED <<installed, index, entries, shown, raced, scans>>

Install ==
  /\ edits < MaxEdits
  /\ \E t \in Tools \ installed : installed' = installed \cup {t}
  /\ edits' = edits + 1
  /\ UNCHANGED <<tree, index, entries, job, shown, raced, scans>>

Next ==
  \/ \E p \in Processes :
       \/ Begin(p) \/ Get(p) \/ Compare(p) \/ Select(p) \/ RunTool(p) \/ Collect(p)
       \/ Show(p) \/ PutEntry(p) \/ PutIndex(p) \/ Die(p)
  \/ Edit \/ Install

Spec == Init /\ [][Next]_vars

-----------------------------------------------------------------------------
(* A report is of the files its key names: that of Quality Runner's own     *)
(* comparison always, that of outside tools unless the repository was       *)
(* edited between the reading for the key and the tools.                    *)
ReportIsOfItsKey ==
  (shown # None /\ shown.identity.policy # "off"
     /\ (shown.identity.policy = "external" => ~shown.edited))
  => shown.report.of \subseteq {shown.identity.files}

(* However the writers of the index overlap or die, each of its rows has    *)
(* its entry, and a scan that found nothing can say why.                    *)
MissIsExplained ==
  /\ index.rows \subseteq DOMAIN entries
  /\ shown # None /\ shown.missed => shown.reasons # {}

-----------------------------------------------------------------------------
(* Invariants of the proof.                                                 *)

\* An entry is of its key, unless the repository was edited while an outside
\* tool read it.
EntriesInv ==
  \A i \in DOMAIN entries :
    /\ i = cache_identity(i.files, i.policy) /\ i.policy # "off"
    /\ DOMAIN entries[i] = {"rows", "status", "of"}
    /\ (i.policy = "external" => i \notin raced) => entries[i].of \subseteq {i.files}

IndexInv ==
  /\ index.rows \subseteq DOMAIN entries
  /\ index.latest # None => index.latest \in index.rows

\* What a scan has in hand: of the files it read if nobody edited them, and an
\* index whose rows still have their entries.
InHand(s) ==
  s.pc # "idle" =>
    LET calm == s.policy = "external" => ~s.edited
    IN  /\ DOMAIN s = {"pc", "policy", "persist", "files", "edited", "index", "selected", "rows",
                       "of", "report", "missed", "reasons", "failures"}
        /\ s.policy \in Policies /\ s.persist \in BOOLEAN /\ s.edited \in BOOLEAN
        /\ ~s.edited => s.files = tree
        /\ s.pc = "tools" => s.policy = "external"
        /\ s.pc \in {"get", "scan", "tools"} /\ calm => s.of \subseteq {s.files}
        /\ s.pc \in {"put", "index"} =>
             /\ DOMAIN s.report = {"rows", "status", "of"}
             /\ s.policy # "off" /\ calm => s.report.of \subseteq {s.files}
        /\ s.missed => s.reasons # {}
        /\ s.persist /\ s.policy # "off" /\ s.pc # "get" => s.index.rows \subseteq DOMAIN entries
        /\ s.pc = "index" =>
             s.persist /\ s.policy # "off" /\ cache_identity(s.files, s.policy) \in DOMAIN entries

CacheInv ==
  /\ EntriesInv /\ IndexInv /\ ReportIsOfItsKey /\ MissIsExplained
  /\ DOMAIN job = Processes /\ \A p \in Processes : InHand(job[p])
=============================================================================
