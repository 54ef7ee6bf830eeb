---------------------------- MODULE FreshReview ----------------------------
(***************************************************************************)
(* One Fresh Review run directory and the `quality-runner review`          *)
(* processes that share it.  A review is prepared once: its files are      *)
(* written one by one, each atomically, with review-execution.json last.   *)
(* A later process loads the prepared packet, reads the reviewer's answer  *)
(* from the run directory, and either finalizes the review or records the  *)
(* rejected answer, holding a non-blocking advisory lock.  Preparation     *)
(* takes no lock.  Any process may die between two steps; the kernel then  *)
(* drops its lock and the files written so far stay.                       *)
(***************************************************************************)
EXTENDS Naturals, FiniteSets

CONSTANTS
  Procs,          \* the CLI or MCP processes
  Preparers,      \* the processes that prepare a packet under this run id
  Packets,        \* the packets a preparation can build
  Combined,       \* the packets of combined mode, which have two child packets
  Cyclic,         \* the packets prepared with --loop (freshness.active_cycle)
  Answers,        \* the well-formed answers a reviewer can give
  NotRun,         \* the answer of a packet nobody has answered yet
  Malformed,      \* an answer that does not validate
  NoFile,         \* content of a file that does not exist
  NoOne,          \* the lock when nobody holds it
  MaxCrashes,     \* bound on process deaths
  MaxSubmissions  \* bound on the answers reviewers drop into the run directory

ASSUME FreshReviewAssumption ==
  /\ Preparers \subseteq Procs
  /\ Combined \subseteq Packets
  /\ Cyclic \subseteq Packets
  /\ NoOne \notin Procs
  /\ NotRun \notin Answers
  /\ Malformed \notin Answers
  /\ NotRun # Malformed
  /\ NoFile \notin [packet : Packets, answer : Answers \cup {NotRun, Malformed}]
  /\ MaxCrashes \in Nat
  /\ MaxSubmissions \in Nat

VARIABLES
  files,       \* content of every file of the run directory
  pc,          \* what each process is doing
  doc,         \* the packet and answer each process works with
  todo,        \* the files each process still has to write
  lock,        \* holder of .review-execution.lock
  crashes,
  submissions

vars == <<files, pc, doc, todo, lock, crashes, submissions>>

-----------------------------------------------------------------------------
(* A file is described by the packet it was rendered from and the answer it *)
(* reports: NotRun before any answer, Malformed after a rejected one.       *)

Docs == [packet : Packets, answer : Answers \cup {NotRun, Malformed}]

PacketFiles == {"manifest", "context", "agent", "agentTask", "agentBlind", "template"}

EvidenceFiles == {"report", "reportMd", "fixPrompts", "fixHandoff"}

Files == PacketFiles \cup EvidenceFiles
           \cup {"adapterResponse", "loopState", "attempt", "execution"}

\* The files whose presence makes a second preparation fail.
PrimaryFiles ==
  {"manifest", "context", "report", "reportMd", "agent", "fixPrompts",
   "template", "execution"}

\* Mutant: the lifecycle record is written before the handoff and the prompts.
RankRecordEarly ==
  [manifest |-> 1, context |-> 2, agent |-> 3, agentTask |-> 4, agentBlind |-> 5,
   template |-> 6, adapterResponse |-> 7, report |-> 8, execution |-> 9,
   reportMd |-> 10, fixPrompts |-> 11, fixHandoff |-> 12, loopState |-> 13,
   attempt |-> 14]

\* The order of the writes inside one operation; every operation that writes
\* review-execution.json writes it last.
Rank ==
  [manifest |-> 1, context |-> 2, agent |-> 3, agentTask |-> 4, agentBlind |-> 5,
   template |-> 6, adapterResponse |-> 7, report |-> 8, reportMd |-> 9,
   fixPrompts |-> 10, fixHandoff |-> 11, loopState |-> 12, attempt |-> 13,
   execution |-> 14]

PrepareFiles(k) ==
  PrimaryFiles \cup (IF k \in Combined THEN {"agentTask", "agentBlind"} ELSE {})

FailureFiles == {"report", "reportMd", "fixPrompts", "attempt"}

CompleteFiles(k) ==
  {"adapterResponse", "execution"} \cup EvidenceFiles
    \cup (IF k \in Cyclic THEN {"loopState"} ELSE {})

\* load_prepared_review succeeds: context, manifest and lifecycle record agree
\* and the record still says packet-ready.
Prepared ==
  /\ \A f \in {"context", "manifest", "execution"} : files[f] # NoFile
  /\ files["manifest"].packet = files["context"].packet
  /\ files["execution"].packet = files["context"].packet
  /\ files["execution"].answer = NotRun

\* The lifecycle record says review-complete.
Complete == files["execution"] # NoFile /\ files["execution"].answer \in Answers

\* validate_review_response: the answer is bound to the prepared packet.
BoundAnswer(d, k) == d # NoFile /\ d.packet = k /\ d.answer \in Answers

-----------------------------------------------------------------------------
Init ==
  /\ files = [f \in Files |-> NoFile]
  /\ pc = [p \in Procs |-> "idle"]
  /\ doc = [p \in Procs |-> NoFile]
  /\ todo = [p \in Procs |-> {}]
  /\ lock = NoOne
  /\ crashes = 0
  /\ submissions = 0

\* Mutant: the lock is a file that outlives the process that made it.
UnlockedNever(p) == lock

\* The flock goes with the process that holds it, however that ends.
Unlocked(p) == IF lock = p THEN NoOne ELSE lock

\* The command ends, normally or with an error: the lock is released.
Exit(p) ==
  /\ pc' = [pc EXCEPT ![p] = "idle"]
  /\ doc' = [doc EXCEPT ![p] = NoFile]
  /\ todo' = [todo EXCEPT ![p] = {}]
  /\ lock' = Unlocked(p)

\* Mutant: preparation overwrites what an earlier one left.
BeginPrepareAgain(p, k) ==
  /\ pc[p] = "idle"
  /\ p \in Preparers
  /\ pc' = [pc EXCEPT ![p] = "writing"]
  /\ doc' = [doc EXCEPT ![p] = [packet |-> k, answer |-> NotRun]]
  /\ todo' = [todo EXCEPT ![p] = PrepareFiles(k)]
  /\ UNCHANGED <<files, lock, crashes, submissions>>

\* prepare_review_execution_artifacts: refuse a run directory that holds any
\* primary file, otherwise start writing.  No lock is taken.
BeginPrepare(p, k) ==
  /\ pc[p] = "idle"
  /\ p \in Preparers
  /\ \A f \in PrimaryFiles : files[f] = NoFile
  /\ pc' = [pc EXCEPT ![p] = "writing"]
  /\ doc' = [doc EXCEPT ![p] = [packet |-> k, answer |-> NotRun]]
  /\ todo' = [todo EXCEPT ![p] = PrepareFiles(k)]
  /\ UNCHANGED <<files, lock, crashes, submissions>>

\* complete_fresh_review loads the packet; a run that is not packet-ready is
\* an error that changes nothing.
BeginComplete(p) ==
  /\ pc[p] = "idle"
  /\ Prepared
  /\ pc' = [pc EXCEPT ![p] = "loaded"]
  /\ doc' = [doc EXCEPT ![p] = [packet |-> files["context"].packet, answer |-> NotRun]]
  /\ UNCHANGED <<files, todo, lock, crashes, submissions>>

\* Mutant: a missing answer file is taken for an answer.
ReadAnswerMissing(p) ==
  /\ pc[p] = "loaded"
  /\ pc' = [pc EXCEPT ![p] = "decided"]
  /\ LET d == files["adapterResponse"] IN
       doc' = [doc EXCEPT ![p] =
                 [packet |-> doc[p].packet, answer |-> IF d = NoFile THEN NoFile ELSE d.answer]]
  /\ UNCHANGED <<files, todo, lock, crashes, submissions>>

\* Read the answer file and validate it against the packet loaded before.
ReadAnswer(p) ==
  /\ pc[p] = "loaded"
  /\ LET d == files["adapterResponse"] IN
       \/ /\ BoundAnswer(d, doc[p].packet)
          /\ pc' = [pc EXCEPT ![p] = "decided"]
          /\ doc' = [doc EXCEPT ![p] = d]
       \/ /\ ~BoundAnswer(d, doc[p].packet)
          /\ pc' = [pc EXCEPT ![p] = "rejected"]
          /\ doc' = [doc EXCEPT ![p] = [packet |-> doc[p].packet, answer |-> Malformed]]
  /\ UNCHANGED <<files, todo, lock, crashes, submissions>>

\* The operator's flags do not fit the packet or name an unknown finding: the
\* command fails before it takes the lock.
RefuseOptions(p) ==
  /\ \/ pc[p] = "loaded"
     \/ pc[p] = "decided" /\ doc[p].answer \in Answers
  /\ Exit(p)
  /\ UNCHANGED <<files, crashes, submissions>>

\* incomplete_fresh_review loads the packet again before recording the failure.
ReloadRejected(p) ==
  /\ pc[p] = "rejected"
  /\ \/ /\ Prepared
        /\ pc' = [pc EXCEPT ![p] = "decided"]
        /\ doc' = [doc EXCEPT ![p] = [packet |-> files["context"].packet,
                                    answer |-> Malformed]]
        /\ UNCHANGED <<todo, lock>>
     \/ ~Prepared /\ Exit(p)
  /\ UNCHANGED <<files, crashes, submissions>>

\* _finalization_lock: take the lock or fail at once.
TryLock(p) ==
  /\ pc[p] = "decided"
  /\ \/ /\ lock = NoOne
        /\ lock' = p
        /\ pc' = [pc EXCEPT ![p] = "locked"]
        /\ UNCHANGED <<doc, todo>>
     \/ lock # NoOne /\ Exit(p)
  /\ UNCHANGED <<files, crashes, submissions>>

\* Mutant: the lifecycle record is not read again under the lock.
StillValidUnread(p) == files["context"].packet = doc[p].packet

\* Under the lock the run must still be packet-ready and, for a finalization,
\* still hold the packet the answer was validated against.
StillValid(p) ==
  /\ Prepared
  /\ doc[p].answer \in Answers => files["context"].packet = doc[p].packet

Revalidate(p) ==
  /\ pc[p] = "locked"
  /\ \/ /\ StillValid(p)
        /\ pc' = [pc EXCEPT ![p] = "writing"]
        /\ todo' = [todo EXCEPT ![p] = IF doc[p].answer = Malformed
                                       THEN FailureFiles
                                       ELSE CompleteFiles(doc[p].packet)]
        /\ UNCHANGED <<doc, lock>>
     \/ ~StillValid(p) /\ Exit(p)
  /\ UNCHANGED <<files, crashes, submissions>>

\* The files of an operation are replaced one at a time, in order; the command
\* ends with the last one.
Write(p) ==
  /\ pc[p] = "writing"
  /\ \E f \in todo[p] :
       /\ \A g \in todo[p] : Rank[f] <= Rank[g]
       /\ files' = [files EXCEPT ![f] = doc[p]]
       /\ \/ todo[p] = {f} /\ Exit(p)
          \/ /\ todo[p] # {f}
             /\ todo' = [todo EXCEPT ![p] = @ \ {f}]
             /\ UNCHANGED <<pc, doc, lock>>
  /\ UNCHANGED <<crashes, submissions>>

\* A process dies between two steps; nothing it wrote is undone.
Crash(p) ==
  /\ pc[p] # "idle"
  /\ crashes < MaxCrashes
  /\ crashes' = crashes + 1
  /\ Exit(p)
  /\ UNCHANGED <<files, submissions>>

\* A reviewer, having seen the template, drops an answer at the documented
\* path; it may be malformed or belong to another packet, and nothing stops a
\* reviewer from replacing it later.
Submit(k, a) ==
  /\ files["template"] # NoFile
  /\ submissions < MaxSubmissions
  /\ submissions' = submissions + 1
  /\ files' = [files EXCEPT !["adapterResponse"] = [packet |-> k, answer |-> a]]
  /\ UNCHANGED <<pc, doc, todo, lock, crashes>>

Prepare(p) == \E k \in Packets : BeginPrepare(p, k)

\* The steps a started command takes until it ends.
Step(p) ==
  ReadAnswer(p) \/ ReloadRejected(p) \/ TryLock(p) \/ Revalidate(p) \/ Write(p)

Reviewer == \E k \in Packets, a \in Answers \cup {Malformed} : Submit(k, a)

Next ==
  \/ \E p \in Procs :
       Prepare(p) \/ BeginComplete(p) \/ Step(p) \/ RefuseOptions(p) \/ Crash(p)
  \/ Reviewer

Spec == Init /\ [][Next]_vars

-----------------------------------------------------------------------------
TypeOK ==
  /\ files \in [Files -> Docs \cup {NoFile}]
  /\ pc \in [Procs -> {"idle", "loaded", "rejected", "decided", "locked", "writing"}]
  /\ doc \in [Procs -> Docs \cup {NoFile}]
  /\ todo \in [Procs -> SUBSET Files]
  /\ lock \in Procs \cup {NoOne}
  /\ crashes \in 0 .. MaxCrashes
  /\ submissions \in 0 .. MaxSubmissions

\* A process writes the outcome of an answer, as opposed to preparing.
Finalizing(p) == pc[p] = "writing" /\ doc[p].answer # NotRun

(* What Revalidate established under the lock stays true until the last     *)
(* write: the review is still open, on the packet the answer was validated  *)
(* against, and only one process writes an outcome.                         *)
FinalizerStaysValid ==
  \A p \in Procs : Finalizing(p) =>
    /\ lock = p
    /\ Prepared
    /\ doc[p].answer \in Answers => files["context"].packet = doc[p].packet

(* A completed review is made of one answer: report, prompts, fixing        *)
(* handoff, and loop state all come from the answer its lifecycle record    *)
(* names, on the packet that was prepared.                                  *)
CompletionIsCoherent ==
  Complete =>
    /\ \A f \in EvidenceFiles : files[f] = files["execution"]
    /\ files["context"].packet = files["execution"].packet
    /\ IF files["execution"].packet \in Cyclic
       THEN files["loopState"] = files["execution"]
       ELSE files["loopState"] = NoFile

(* A review is finalized at most once, and nothing a later command does     *)
(* touches its outcome.                                                     *)
FinalOnce ==
  [][Complete => \A f \in EvidenceFiles \cup {"execution", "loopState"} :
                   files'[f] = files[f]]_vars

(* Once the lifecycle record exists the packet never changes: what the      *)
(* reviewer reads is what the answer is validated against.                  *)
PacketImmutable ==
  [][files["execution"] # NoFile =>
       \A f \in PacketFiles : files'[f] = files[f]]_vars

\* The abstract review a reader of the lifecycle record sees.
Outcome == INSTANCE ReviewOutcome WITH
  Absent <- NoFile,
  record <- files["execution"],
  packet <- IF files["execution"] = NoFile THEN NoFile
            ELSE [f \in PacketFiles |-> files[f]],
  evidence <- IF Complete THEN [f \in EvidenceFiles |-> files[f]] ELSE NoFile

(* Whatever the interleaving of the writes and the crashes, a reader who    *)
(* looks at the lifecycle record first sees a review opened whole, never    *)
(* altered, and closed at most once with the evidence of one answer.        *)
ImplementsReviewOutcome == Outcome!Spec

-----------------------------------------------------------------------------
(* Started commands run to their end.  The operator keeps submitting the    *)
(* answer while the review is open, does not refuse it for ever with        *)
(* options that do not fit, and finds the lock free infinitely often.       *)
Fairness ==
  \A p \in Procs :
    /\ WF_vars(Step(p))
    /\ SF_vars(BeginComplete(p))
    /\ SF_vars(ReadAnswer(p))
    /\ SF_vars(TryLock(p) /\ lock = NoOne)

FairSpec == Spec /\ Fairness

(* Crashes do not block a review: while a bound answer is in place, an open *)
(* review is eventually completed, whoever died holding the lock.           *)
OpenReviewCompletes ==
  (Prepared /\ BoundAnswer(files["adapterResponse"], files["context"].packet))
    ~> (Complete \/ ~BoundAnswer(files["adapterResponse"], files["context"].packet))
=============================================================================
