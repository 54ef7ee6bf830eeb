------------------------- MODULE FreshReviewProofs -------------------------
(***************************************************************************)
(* Proofs about FreshReview for every set of processes, packets and        *)
(* answers and every number of crashes and submissions, provided that      *)
(* preparations of one run id do not overlap.                              *)
(***************************************************************************)
EXTENDS FreshReview, TLAPS

\* Generated run ids are unique, so a run has one preparer.
OnePreparer == \A p, q \in Preparers : p = q

Preparing(p) == pc[p] = "writing" /\ doc[p].answer = NotRun

\* The packet a command works with is the one in review-context.json.
HoldsContext(p) ==
  /\ files["execution"] # NoFile
  /\ files["context"] # NoFile
  /\ doc[p].packet = files["context"].packet

PhaseInv(p) ==
  /\ pc[p] = "loaded" => doc[p] \in Docs /\ doc[p].answer = NotRun /\ HoldsContext(p)
  /\ pc[p] = "rejected" => doc[p] \in Docs /\ doc[p].answer = Malformed /\ HoldsContext(p)
  /\ pc[p] \in {"decided", "locked"} =>
       doc[p] \in Docs /\ doc[p].answer # NotRun /\ HoldsContext(p)
  /\ pc[p] = "locked" => lock = p

PrepareInv(p) ==
  Preparing(p) =>
    /\ p \in Preparers
    /\ doc[p] \in Docs
    /\ files["execution"] = NoFile
    /\ "execution" \in todo[p]
    /\ todo[p] \subseteq PrepareFiles(doc[p].packet)
    /\ \A f \in PacketFiles :
         files[f] = IF f \in PrepareFiles(doc[p].packet) \ todo[p] THEN doc[p] ELSE NoFile

FinalizeInv(p) ==
  Finalizing(p) =>
    /\ lock = p
    /\ doc[p] \in Docs
    /\ HoldsContext(p)
    /\ files["execution"].answer = NotRun
    /\ doc[p].answer = Malformed => todo[p] \subseteq FailureFiles
    /\ doc[p].answer \in Answers =>
         /\ "execution" \in todo[p]
         /\ todo[p] \subseteq CompleteFiles(doc[p].packet)
         /\ \A f \in CompleteFiles(doc[p].packet) \ {"adapterResponse"} :
              f \notin todo[p] => files[f] = doc[p]

PublishedInv ==
  files["execution"] # NoFile =>
    /\ \A p \in Procs : ~Preparing(p)
    /\ files["manifest"] # NoFile /\ files["context"] # NoFile
    /\ files["manifest"].packet = files["context"].packet
    /\ files["execution"].packet = files["context"].packet
    /\ files["execution"].answer # Malformed

\* The child packets of combined mode never exist without the manifest.
ChildInv ==
  \A f \in PacketFiles : files[f] # NoFile => files["manifest"] # NoFile

LoopInv ==
  files["loopState"] # NoFile =>
    /\ files["execution"] # NoFile
    /\ files["context"].packet \in Cyclic

IInv ==
  /\ TypeOK
  /\ \A p \in Procs : PhaseInv(p) /\ PrepareInv(p) /\ FinalizeInv(p)
  /\ PublishedInv
  /\ ChildInv
  /\ LoopInv
  /\ CompletionIsCoherent
-----------------------------------------------------------------------------
\* Operations write the manifest first and the lifecycle record last.
LEMMA ManifestFirstRecordLast ==
  \A f \in Files : /\ Rank["execution"] <= Rank[f] => f = "execution"
                   /\ Rank[f] <= Rank["manifest"] => f = "manifest"
BY DEF Files, PacketFiles, EvidenceFiles, Rank

\* What the operations write are files of the run directory.
LEMMA WrittenFiles ==
  ASSUME NEW k \in Packets
  PROVE  /\ PrepareFiles(k) \subseteq Files /\ "execution" \in PrepareFiles(k)
         /\ CompleteFiles(k) \subseteq Files /\ "execution" \in CompleteFiles(k)
         /\ FailureFiles \subseteq Files
         /\ CompleteFiles(k) \cap PacketFiles = {}
         /\ FailureFiles \cap (PacketFiles \cup {"execution", "loopState", "fixHandoff"}) = {}
         /\ PrepareFiles(k) \cap {"loopState", "adapterResponse"} = {}
         /\ {"execution"} \cup EvidenceFiles \subseteq CompleteFiles(k)
         /\ "loopState" \in CompleteFiles(k) <=> k \in Cyclic
BY DEF PrepareFiles, CompleteFiles, FailureFiles, Files, PacketFiles, EvidenceFiles,
       PrimaryFiles

\* The documents of the model are records and differ from the absent file.
LEMMA DocShape ==
  /\ NoFile \notin Docs
  /\ \A k \in Packets, a \in Answers \cup {NotRun, Malformed} :
       LET d == [packet |-> k, answer |-> a] IN
         d \in Docs /\ d.packet = k /\ d.answer = a
  /\ \A d \in Docs : d.packet \in Packets /\ d.answer \in Answers \cup {NotRun, Malformed}
  /\ NotRun \notin Answers /\ Malformed \notin Answers /\ NotRun # Malformed
BY FreshReviewAssumption DEF Docs

\* The typing invariant is inductive.
LEMMA TypeStep ==
  ASSUME TypeOK, \A p \in Procs : PhaseInv(p) /\ PrepareInv(p) /\ FinalizeInv(p), [Next]_vars
  PROVE  TypeOK'
<1> USE FreshReviewAssumption, DocShape DEF TypeOK
<1>0. \A p \in Procs : pc[p] # "idle" => doc[p] \in Docs
  BY DEF PhaseInv, PrepareInv, FinalizeInv, Preparing, Finalizing
<1>1. ASSUME NEW p \in Procs, NEW k \in Packets, BeginPrepare(p, k) PROVE TypeOK'
  BY <1>1, WrittenFiles DEF BeginPrepare
<1>2. ASSUME NEW p \in Procs, BeginComplete(p) PROVE TypeOK'
  <2>1. files["context"] \in Docs
    BY <1>2 DEF BeginComplete, Prepared, Files, PacketFiles
  <2> QED BY <1>2, <2>1 DEF BeginComplete
<1>3. ASSUME NEW p \in Procs, ReadAnswer(p) PROVE TypeOK'
  BY <1>0, <1>3 DEF ReadAnswer, BoundAnswer, Docs, Files
<1>4. ASSUME NEW p \in Procs, RefuseOptions(p) PROVE TypeOK'
  BY <1>4 DEF RefuseOptions, Exit, Unlocked
<1>5. ASSUME NEW p \in Procs, ReloadRejected(p) PROVE TypeOK'
  <2>1. CASE Prepared
    <3>1. files["context"] \in Docs
      BY <2>1 DEF Prepared, Files, PacketFiles
    <3> QED BY <1>0, <1>5, <2>1, <3>1 DEF ReloadRejected, Docs, Exit, Unlocked
  <2>2. CASE ~Prepared
    BY <1>5, <2>2 DEF ReloadRejected, Exit, Unlocked
  <2> QED BY <2>1, <2>2
<1>6. ASSUME NEW p \in Procs, TryLock(p) PROVE TypeOK'
  BY <1>6 DEF TryLock, Exit, Unlocked
<1>7. ASSUME NEW p \in Procs, Revalidate(p) PROVE TypeOK'
  BY <1>0, <1>7, WrittenFiles DEF Revalidate, Exit, Unlocked
<1>8. ASSUME NEW p \in Procs, Write(p) PROVE TypeOK'
  BY <1>0, <1>8 DEF Write, Exit, Unlocked
<1>9. ASSUME NEW p \in Procs, Crash(p) PROVE TypeOK'
  BY <1>9 DEF Crash, Exit, Unlocked
<1>10. ASSUME NEW k \in Packets, NEW a \in Answers \cup {Malformed}, Submit(k, a)
       PROVE TypeOK'
  <2>1. [packet |-> k, answer |-> a] \in Docs
    BY DEF Docs
  <2>2. files' \in [Files -> Docs \cup {NoFile}]
    BY <1>10, <2>1 DEF Submit
  <2>3. submissions' \in 0 .. MaxSubmissions
    BY <1>10 DEF Submit
  <2> QED BY <1>10, <2>2, <2>3 DEF Submit
<1>11. CASE UNCHANGED vars
  BY <1>11 DEF vars
<1> QED
  BY <1>1, <1>2, <1>3, <1>4, <1>5, <1>6, <1>7, <1>8, <1>9, <1>10, <1>11
     DEF Next, Prepare, Step, Reviewer
\* A step of one process that leaves the files and the lock alone, or only
\* releases its own lock, does not disturb the other processes.
LEMMA OthersKept ==
  ASSUME NEW p \in Procs, NEW q \in Procs, p # q,
         PhaseInv(q), PrepareInv(q), FinalizeInv(q), TypeOK,
         files' = files,
         pc'[q] = pc[q], doc'[q] = doc[q], todo'[q] = todo[q],
         lock = q => lock' = q
  PROVE  PhaseInv(q)' /\ PrepareInv(q)' /\ FinalizeInv(q)'
BY DEF PhaseInv, PrepareInv, FinalizeInv, Preparing, Finalizing, HoldsContext, TypeOK

\* A command that ends is held to nothing.
LEMMA Ended ==
  ASSUME NEW p \in Procs, TypeOK, Exit(p)
  PROVE  /\ PhaseInv(p)' /\ PrepareInv(p)' /\ FinalizeInv(p)'
         /\ \A q \in Procs : q # p =>
              /\ pc'[q] = pc[q] /\ doc'[q] = doc[q] /\ todo'[q] = todo[q]
              /\ lock = q => lock' = q
BY DEF Exit, Unlocked, PhaseInv, PrepareInv, FinalizeInv, Preparing, Finalizing, TypeOK

\* A command that ends without writing keeps the invariant.
LEMMA QuietExit ==
  ASSUME IInv, NEW p \in Procs, Exit(p), files' = files
  PROVE  /\ \A q \in Procs : PhaseInv(q)' /\ PrepareInv(q)' /\ FinalizeInv(q)'
         /\ PublishedInv' /\ ChildInv' /\ LoopInv' /\ CompletionIsCoherent'
<1>1. \A q \in Procs : PhaseInv(q)' /\ PrepareInv(q)' /\ FinalizeInv(q)'
  <2> TAKE q \in Procs
  <2>1. CASE q = p
    BY <2>1, Ended DEF IInv
  <2>2. CASE q # p
    BY <2>2, Ended, OthersKept DEF IInv
  <2> QED BY <2>1, <2>2
<1>2. PublishedInv'
  BY DEF IInv, TypeOK, PublishedInv, Preparing, Exit
<1>3. ChildInv' /\ LoopInv' /\ CompletionIsCoherent'
  BY DEF IInv, ChildInv, LoopInv, CompletionIsCoherent, Complete
<1> QED BY <1>1, <1>2, <1>3
\* A step that writes no file keeps the invariant when it keeps the part of
\* the process that takes it and starts no preparation of a published run.
LEMMA QuietStep ==
  ASSUME IInv, NEW p \in Procs, files' = files,
         \A q \in Procs : q # p =>
           /\ pc'[q] = pc[q] /\ doc'[q] = doc[q] /\ todo'[q] = todo[q]
           /\ lock = q => lock' = q,
         PhaseInv(p)', PrepareInv(p)', FinalizeInv(p)',
         files["execution"] # NoFile => ~Preparing(p)'
  PROVE  /\ \A q \in Procs : PhaseInv(q)' /\ PrepareInv(q)' /\ FinalizeInv(q)'
         /\ PublishedInv' /\ ChildInv' /\ LoopInv' /\ CompletionIsCoherent'
<1>1. \A q \in Procs : PhaseInv(q)' /\ PrepareInv(q)' /\ FinalizeInv(q)'
  <2> TAKE q \in Procs
  <2>1. CASE q # p
    BY <2>1, OthersKept DEF IInv
  <2> QED BY <2>1
<1>2. PublishedInv'
  BY DEF IInv, TypeOK, PublishedInv, Preparing
<1>3. ChildInv' /\ LoopInv' /\ CompletionIsCoherent'
  BY DEF IInv, ChildInv, LoopInv, CompletionIsCoherent, Complete
<1> QED BY <1>1, <1>2, <1>3

-----------------------------------------------------------------------------
\* The invariant is inductive, action by action.

Kept == /\ \A q \in Procs : PhaseInv(q)' /\ PrepareInv(q)' /\ FinalizeInv(q)'
        /\ PublishedInv' /\ ChildInv' /\ LoopInv' /\ CompletionIsCoherent'

\* With every primary file absent nobody holds the packet.
LEMMA BeginPrepareStep ==
  ASSUME IInv, NEW p \in Procs, NEW k \in Packets, BeginPrepare(p, k)
  PROVE  Kept
<1>1. files["execution"] = NoFile
  BY DEF BeginPrepare, PrimaryFiles
<1>0. \A f \in PacketFiles : files[f] = NoFile
  BY DEF BeginPrepare, PrimaryFiles, IInv, ChildInv
<1>2. PhaseInv(p)' /\ PrepareInv(p)' /\ FinalizeInv(p)'
  BY <1>0, <1>1, WrittenFiles, DocShape
     DEF IInv, TypeOK, BeginPrepare, PhaseInv, PrepareInv, FinalizeInv, Preparing,
         Finalizing, HoldsContext, PrepareFiles, PrimaryFiles
<1> QED
  BY <1>1, <1>2, QuietStep DEF Kept, BeginPrepare, IInv, TypeOK

LEMMA BeginCompleteStep ==
  ASSUME IInv, NEW p \in Procs, BeginComplete(p)
  PROVE  Kept
<1>1. files["context"] \in Docs
  BY DEF BeginComplete, Prepared, Files, PacketFiles, IInv, TypeOK
<1>2. PhaseInv(p)' /\ PrepareInv(p)' /\ FinalizeInv(p)' /\ ~Preparing(p)'
  BY <1>1, DocShape
     DEF IInv, TypeOK, BeginComplete, Prepared, PhaseInv, PrepareInv, FinalizeInv,
         Preparing, Finalizing, HoldsContext
<1> QED
  BY <1>2, QuietStep DEF Kept, BeginComplete, IInv, TypeOK

LEMMA ReadAnswerStep ==
  ASSUME IInv, NEW p \in Procs, ReadAnswer(p)
  PROVE  Kept
<1>1. PhaseInv(p)' /\ PrepareInv(p)' /\ FinalizeInv(p)' /\ ~Preparing(p)'
  <2>1. doc[p] \in Docs /\ HoldsContext(p)
    BY DEF IInv, PhaseInv, ReadAnswer
  <2>2. doc'[p] \in Docs /\ doc'[p].answer # NotRun /\ doc'[p].packet = doc[p].packet
        /\ (pc'[p] = "rejected" => doc'[p].answer = Malformed)
    BY <2>1, DocShape DEF ReadAnswer, BoundAnswer, IInv, TypeOK, Files
  <2> QED
    BY <2>1, <2>2 DEF IInv, TypeOK, ReadAnswer, PhaseInv, PrepareInv, FinalizeInv,
         Preparing, Finalizing, HoldsContext
<1> QED
  BY <1>1, QuietStep DEF Kept, ReadAnswer, IInv, TypeOK

LEMMA ReloadRejectedStep ==
  ASSUME IInv, NEW p \in Procs, ReloadRejected(p)
  PROVE  Kept
<1>1. CASE Prepared
  <2>1. files["context"] \in Docs
    BY <1>1 DEF Prepared, Files, PacketFiles, IInv, TypeOK
  <2>2. PhaseInv(p)' /\ PrepareInv(p)' /\ FinalizeInv(p)' /\ ~Preparing(p)'
    BY <1>1, <2>1, DocShape
       DEF IInv, TypeOK, ReloadRejected, Prepared, PhaseInv, PrepareInv, FinalizeInv,
           Preparing, Finalizing, HoldsContext
  <2> QED
    BY <1>1, <2>2, QuietStep DEF Kept, ReloadRejected, IInv, TypeOK
<1>2. CASE ~Prepared
  BY <1>2, QuietExit DEF ReloadRejected, Kept
<1> QED BY <1>1, <1>2

LEMMA TryLockStep ==
  ASSUME IInv, NEW p \in Procs, TryLock(p)
  PROVE  Kept
<1>1. CASE lock = NoOne
  <2>1. PhaseInv(p)' /\ PrepareInv(p)' /\ FinalizeInv(p)' /\ ~Preparing(p)'
    BY <1>1 DEF IInv, TypeOK, TryLock, PhaseInv, PrepareInv, FinalizeInv, Preparing,
         Finalizing, HoldsContext
  <2> QED
    BY <1>1, <2>1, QuietStep, FreshReviewAssumption DEF Kept, TryLock, IInv, TypeOK
<1>2. CASE lock # NoOne
  BY <1>2, QuietExit DEF TryLock, Kept
<1> QED BY <1>1, <1>2

LEMMA RevalidateStep ==
  ASSUME IInv, NEW p \in Procs, Revalidate(p)
  PROVE  Kept
<1>1. CASE StillValid(p)
  <2>1. doc[p] \in Docs /\ doc[p].answer # NotRun /\ HoldsContext(p) /\ lock = p
    BY DEF IInv, PhaseInv, Revalidate
  <2>2. pc'[p] = "writing" /\ doc'[p] = doc[p] /\ lock' = lock /\ files' = files
    BY <1>1 DEF Revalidate, IInv, TypeOK
  <2>3. /\ doc[p].answer = Malformed => todo'[p] = FailureFiles
        /\ doc[p].answer # Malformed => todo'[p] = CompleteFiles(doc[p].packet)
    BY <1>1 DEF Revalidate, IInv, TypeOK
  <2>4. FinalizeInv(p)'
    <3>1. files["execution"].answer = NotRun
      BY <1>1 DEF StillValid, Prepared
    <3> QED
      BY <2>1, <2>2, <2>3, <3>1, DocShape, WrittenFiles
         DEF FinalizeInv, Finalizing, HoldsContext
  <2>5. PhaseInv(p)' /\ PrepareInv(p)' /\ ~Preparing(p)'
    BY <2>1, <2>2 DEF PhaseInv, PrepareInv, Preparing
  <2> QED
    BY <1>1, <2>4, <2>5, QuietStep DEF Kept, Revalidate, IInv, TypeOK
<1>2. CASE ~StillValid(p)
  BY <1>2, QuietExit DEF Revalidate, Kept
<1> QED BY <1>1, <1>2
\* The next file of a command is the lifecycle record only as its last write.
LEMMA NextWrite ==
  ASSUME IInv, NEW p \in Procs, Write(p)
  PROVE  \E f \in todo[p] :
           /\ files' = [files EXCEPT ![f] = doc[p]]
           /\ f \in Files
           /\ f = "execution" => todo[p] = {"execution"}
           /\ "manifest" \in todo[p] => f = "manifest"
           /\ \/ todo[p] = {f} /\ Exit(p)
              \/ /\ todo[p] # {f}
                 /\ todo' = [todo EXCEPT ![p] = @ \ {f}]
                 /\ UNCHANGED <<pc, doc, lock>>
<1>1. PICK f \in todo[p] :
        /\ \A g \in todo[p] : Rank[f] <= Rank[g]
        /\ files' = [files EXCEPT ![f] = doc[p]]
        /\ \/ todo[p] = {f} /\ Exit(p)
           \/ /\ todo[p] # {f}
              /\ todo' = [todo EXCEPT ![p] = @ \ {f}]
              /\ UNCHANGED <<pc, doc, lock>>
  BY DEF Write
<1>2. todo[p] \subseteq Files
  BY DEF IInv, TypeOK
<1>3. (f = "execution" => todo[p] = {"execution"})
      /\ ("manifest" \in todo[p] => f = "manifest")
  BY <1>1, <1>2, ManifestFirstRecordLast
<1> QED BY <1>1, <1>2, <1>3

\* The preparer writes a file.
LEMMA PrepareWriteStep ==
  ASSUME IInv, OnePreparer, NEW p \in Procs, Write(p), Preparing(p)
  PROVE  Kept
<1> DEFINE d == doc[p]
<1>1. PICK f \in todo[p] :
           /\ files' = [files EXCEPT ![f] = d]
           /\ f \in Files
           /\ f = "execution" => todo[p] = {"execution"}
           /\ "manifest" \in todo[p] => f = "manifest"
           /\ \/ todo[p] = {f} /\ Exit(p)
              \/ /\ todo[p] # {f}
                 /\ todo' = [todo EXCEPT ![p] = @ \ {f}]
                 /\ UNCHANGED <<pc, doc, lock>>
  BY NextWrite
<1>2. /\ p \in Preparers /\ d \in Docs /\ d.answer = NotRun /\ d.packet \in Packets
      /\ files["execution"] = NoFile /\ "execution" \in todo[p]
      /\ todo[p] \subseteq PrepareFiles(d.packet)
      /\ \A g \in PacketFiles :
           files[g] = IF g \in PrepareFiles(d.packet) \ todo[p] THEN d ELSE NoFile
  BY DocShape DEF IInv, PrepareInv, Preparing
<1>3. \A q \in Procs : q # p => ~Preparing(q) /\ pc[q] \in {"idle", "writing"}
                                /\ ~Finalizing(q)
  BY <1>2 DEF IInv, TypeOK, PrepareInv, PhaseInv, FinalizeInv, HoldsContext, OnePreparer
<1>4. \A g \in Files : files'[g] = IF g = f THEN d ELSE files[g]
  BY <1>1 DEF IInv, TypeOK
<1>5. f \notin {"loopState", "adapterResponse"}
  BY <1>1, <1>2, WrittenFiles
<1>6. \A q \in Procs : q # p =>
        /\ pc'[q] = pc[q] /\ doc'[q] = doc[q]
        /\ PhaseInv(q)' /\ PrepareInv(q)' /\ FinalizeInv(q)'
  BY <1>1, <1>3, Ended DEF IInv, TypeOK, PhaseInv, PrepareInv, FinalizeInv, Preparing, Finalizing
<1>7. /\ PacketFiles \cup {"execution", "loopState"} \subseteq Files
      /\ {"manifest", "context"} \subseteq PacketFiles
      /\ {"manifest", "context"} \subseteq PrepareFiles(d.packet)
      /\ "execution" \notin PacketFiles
  BY DEF Files, PacketFiles, PrepareFiles, PrimaryFiles
<1>10. \A g \in PacketFiles :
         files'[g] = IF g \in PrepareFiles(d.packet) \ (todo[p] \ {f}) THEN d ELSE NoFile
  BY <1>1, <1>2, <1>4, <1>7
<1>11. ChildInv'
  BY <1>1, <1>2, <1>4, <1>7, DocShape DEF IInv, ChildInv
<1>8. CASE todo[p] = {f}
  <2>1. f = "execution" /\ Exit(p)
    BY <1>1, <1>2, <1>8
  <2>2. PhaseInv(p)' /\ PrepareInv(p)' /\ FinalizeInv(p)' /\ ~Preparing(p)'
    BY <2>1 DEF Exit, PhaseInv, PrepareInv, FinalizeInv, Preparing, Finalizing, IInv, TypeOK
  <2>3. files'["manifest"] = d /\ files'["context"] = d /\ files'["execution"] = d
    BY <1>2, <1>4, <1>7, <1>8, <1>10, <2>1
  <2>4. PublishedInv'
    BY <1>2, <1>3, <1>6, <2>2, <2>3, DocShape DEF PublishedInv, Preparing
  <2>5. LoopInv'
    BY <1>2, <1>4, <1>5, <1>7 DEF LoopInv, IInv
  <2>6. CompletionIsCoherent'
    BY <1>2, <2>3, DocShape DEF CompletionIsCoherent, Complete
  <2> QED BY <1>6, <1>11, <2>2, <2>4, <2>5, <2>6 DEF Kept
<1>9. CASE todo[p] # {f}
  <2>1. /\ f # "execution" /\ UNCHANGED <<pc, doc, lock>>
        /\ todo'[p] = todo[p] \ {f}
    BY <1>1, <1>9 DEF IInv, TypeOK
  <2>2. files'["execution"] = NoFile
    BY <1>2, <1>4, <1>7, <2>1
  <2>3. PrepareInv(p)'
    BY <1>2, <1>10, <2>1, <2>2 DEF PrepareInv, Preparing
  <2>4. PhaseInv(p)' /\ FinalizeInv(p)'
    BY <2>1, <1>2 DEF PhaseInv, FinalizeInv, Finalizing, Preparing
  <2>5. PublishedInv' /\ CompletionIsCoherent'
    BY <2>2 DEF PublishedInv, CompletionIsCoherent, Complete
  <2>6. LoopInv'
    BY <1>2, <1>4, <1>5, <1>7 DEF LoopInv, IInv
  <2> QED BY <1>6, <1>11, <2>3, <2>4, <2>5, <2>6 DEF Kept
<1> QED BY <1>8, <1>9
\* The holder of the lock writes a file of an outcome.
LEMMA FinalizeWriteStep ==
  ASSUME IInv, NEW p \in Procs, Write(p), Finalizing(p)
  PROVE  Kept
<1> DEFINE d == doc[p]
<1>1. PICK f \in todo[p] :
           /\ files' = [files EXCEPT ![f] = d]
           /\ f \in Files
           /\ f = "execution" => todo[p] = {"execution"}
           /\ "manifest" \in todo[p] => f = "manifest"
           /\ \/ todo[p] = {f} /\ Exit(p)
              \/ /\ todo[p] # {f}
                 /\ todo' = [todo EXCEPT ![p] = @ \ {f}]
                 /\ UNCHANGED <<pc, doc, lock>>
  BY NextWrite
<1>2. FinalizeInv(p) /\ lock = p /\ d \in Docs /\ HoldsContext(p)
      /\ d.packet \in Packets /\ d.answer \in Answers \cup {Malformed}
      /\ files["execution"].answer = NotRun
  BY DocShape DEF IInv, FinalizeInv, Finalizing
<1>3. \A q \in Procs : q # p => ~Preparing(q) /\ ~Finalizing(q) /\ pc[q] # "locked"
                                /\ pc[q] # "writing"
  BY <1>2 DEF IInv, PublishedInv, FinalizeInv, PhaseInv, HoldsContext, Preparing, Finalizing
<1>4. \A g \in Files : files'[g] = IF g = f THEN d ELSE files[g]
  BY <1>1 DEF IInv, TypeOK
<1>5. f \notin PacketFiles
  BY <1>1, <1>2, WrittenFiles DEF FinalizeInv, Finalizing
<1>6. PacketFiles \cup {"execution", "loopState"} \cup EvidenceFiles \subseteq Files
      /\ {"manifest", "context"} \subseteq PacketFiles
  BY DEF Files, PacketFiles
<1>7. files'["manifest"] = files["manifest"] /\ files'["context"] = files["context"]
  BY <1>4, <1>5, <1>6
<1>13. ChildInv'
  BY <1>4, <1>5, <1>6, <1>7 DEF IInv, ChildInv
<1>8. files'["execution"] # NoFile
  BY <1>2, <1>4, <1>6, DocShape DEF HoldsContext
<1>9. \A q \in Procs : q # p => PhaseInv(q)' /\ PrepareInv(q)' /\ FinalizeInv(q)'
  <2> SUFFICES ASSUME NEW q \in Procs, q # p
               PROVE  PhaseInv(q)' /\ PrepareInv(q)' /\ FinalizeInv(q)'
    OBVIOUS
  <2>1. pc'[q] = pc[q] /\ doc'[q] = doc[q]
    BY <1>1, Ended DEF IInv, TypeOK
  <2> QED
    BY <1>3, <1>7, <1>8, <2>1
       DEF IInv, PhaseInv, PrepareInv, FinalizeInv, HoldsContext, Preparing, Finalizing
<1>10. LoopInv'
  <2>1. CASE f = "loopState"
    <3>1. d.packet \in Cyclic
      BY <1>1, <1>2, <2>1, WrittenFiles, DocShape DEF FinalizeInv, Finalizing
    <3> QED BY <1>2, <1>7, <1>8, <3>1 DEF LoopInv, HoldsContext
  <2>2. CASE f # "loopState"
    BY <1>4, <1>6, <1>7, <1>8, <2>2 DEF LoopInv, IInv
  <2> QED BY <2>1, <2>2
<1>11. CASE f = "execution"
  <2>1. Exit(p) /\ files'["execution"] = d
    BY <1>1, <1>4, <1>6, <1>11
  <2>2. d.answer \in Answers
    BY <1>1, <1>2, <1>11, WrittenFiles DEF FinalizeInv, Finalizing
  <2>3. \A g \in EvidenceFiles : files'[g] = d
    BY <1>1, <1>2, <1>4, <1>6, <1>11, <2>2, WrittenFiles
       DEF FinalizeInv, Finalizing, EvidenceFiles
  <2>4. files'["loopState"] = IF d.packet \in Cyclic THEN d ELSE NoFile
    <3>1. d.packet \in Cyclic => files["loopState"] = d
      BY <1>1, <1>2, <1>11, <2>2, WrittenFiles DEF FinalizeInv, Finalizing
    <3>2. d.packet \notin Cyclic => files["loopState"] = NoFile
      BY <1>2 DEF IInv, LoopInv, HoldsContext
    <3> QED BY <1>4, <1>6, <1>11, <3>1, <3>2
  <2>5. CompletionIsCoherent'
    BY <1>2, <1>7, <2>1, <2>3, <2>4 DEF CompletionIsCoherent, HoldsContext
  <2>6. PhaseInv(p)' /\ PrepareInv(p)' /\ FinalizeInv(p)' /\ ~Preparing(p)'
        /\ \A q \in Procs : q # p => pc'[q] = pc[q] /\ doc'[q] = doc[q]
    BY <2>1, Ended DEF IInv, Exit, TypeOK, Preparing
  <2>7. PublishedInv'
    BY <1>2, <1>3, <1>7, <2>1, <2>2, <2>6, DocShape
       DEF IInv, PublishedInv, HoldsContext, Preparing
  <2> QED BY <1>9, <1>10, <1>13, <2>5, <2>6, <2>7 DEF Kept
<1>12. CASE f # "execution"
  <2>1. files'["execution"] = files["execution"]
    BY <1>4, <1>6, <1>12
  <2>2. CompletionIsCoherent'
    BY <1>2, <2>1, DocShape DEF CompletionIsCoherent, Complete
  <2>3. \A q \in Procs : ~Preparing(q)'
    BY <1>1, <1>2, <1>3, Ended, DocShape DEF IInv, TypeOK, Preparing, Exit
  <2>4. PublishedInv'
    BY <1>7, <2>1, <2>3 DEF IInv, PublishedInv
  <2>5. PhaseInv(p)' /\ PrepareInv(p)' /\ FinalizeInv(p)'
    <3>1. CASE todo[p] = {f}
      BY <1>1, <3>1, Ended DEF IInv
    <3>2. CASE todo[p] # {f}
      <4>1. UNCHANGED <<pc, doc, lock>> /\ todo'[p] = todo[p] \ {f}
        BY <1>1, <3>2 DEF IInv, TypeOK
      <4>2. HoldsContext(p)'
        BY <1>2, <1>7, <2>1, <4>1 DEF HoldsContext
      <4>3. FinalizeInv(p)'
        BY <1>2, <1>4, <1>12, <2>1, <4>1, <4>2, WrittenFiles DEF FinalizeInv, Finalizing
      <4> QED BY <2>3, <4>1, <4>3 DEF PhaseInv, PrepareInv, Finalizing
    <3> QED BY <3>1, <3>2
  <2> QED BY <1>9, <1>10, <1>13, <2>2, <2>4, <2>5 DEF Kept
<1> QED BY <1>11, <1>12

\* A reviewer touches only the answer file.
LEMMA SubmitStep ==
  ASSUME IInv, NEW k \in Packets, NEW a \in Answers \cup {Malformed}, Submit(k, a)
  PROVE  Kept
<1>1. \A f \in Files \ {"adapterResponse"} : files'[f] = files[f]
  BY DEF Submit, IInv, TypeOK
<1>2. PacketFiles \cup {"execution", "loopState"} \cup EvidenceFiles
        \subseteq Files \ {"adapterResponse"}
  BY DEF Files, PacketFiles, EvidenceFiles
<1>7. {"manifest", "context"} \subseteq PacketFiles
  BY DEF PacketFiles
<1>3. \A q \in Procs : PhaseInv(q)' /\ PrepareInv(q)' /\ HoldsContext(q)' = HoldsContext(q)
  BY <1>1, <1>2, <1>7
     DEF Submit, IInv, PhaseInv, PrepareInv, HoldsContext, Preparing
<1>4. \A q \in Procs : FinalizeInv(q)'
  <2> SUFFICES ASSUME NEW q \in Procs, Finalizing(q) PROVE FinalizeInv(q)'
    BY DEF Submit, Finalizing, FinalizeInv
  <2>1. doc[q] \in Docs /\ doc[q].packet \in Packets
    BY DocShape DEF IInv, FinalizeInv
  <2> QED
    BY <1>1, <1>2, <1>3, <1>7, <2>1, WrittenFiles
       DEF Submit, IInv, FinalizeInv, Finalizing
<1>5. PublishedInv' /\ ChildInv' /\ LoopInv'
  BY <1>1, <1>2, <1>7 DEF Submit, IInv, PublishedInv, ChildInv, LoopInv, Preparing
<1>6. CompletionIsCoherent'
  BY <1>1, <1>2, <1>7 DEF Submit, IInv, CompletionIsCoherent, Complete
<1> QED BY <1>3, <1>4, <1>5, <1>6 DEF Kept
(* The inductive invariant holds before the first command.                  *)
LEMMA InitInv == Init => IInv
<1> SUFFICES ASSUME Init PROVE IInv
  OBVIOUS
<1>1. TypeOK
  BY FreshReviewAssumption DEF Init, TypeOK
<1>2. \A p \in Procs : PhaseInv(p) /\ PrepareInv(p) /\ FinalizeInv(p)
  BY DEF Init, PhaseInv, PrepareInv, FinalizeInv, Preparing, Finalizing
<1>3. files["execution"] = NoFile /\ files["loopState"] = NoFile
  BY DEF Init, Files
<1>4. ChildInv
  BY DEF Init, Files, ChildInv
<1> QED
  BY <1>1, <1>2, <1>3, <1>4 DEF IInv, PublishedInv, LoopInv, CompletionIsCoherent, Complete

(* Every step of every process, and every submission, preserves it.         *)
LEMMA InvStep ==
  ASSUME OnePreparer, IInv, [Next]_vars
  PROVE  IInv'
<1>1. TypeOK'
  BY TypeStep DEF IInv
<1>2. ASSUME NEW p \in Procs, Prepare(p) PROVE Kept
  BY <1>2, BeginPrepareStep DEF Prepare
<1>3. ASSUME NEW p \in Procs, Step(p) PROVE Kept
  <2>1. CASE Write(p)
    <3>1. Preparing(p) \/ Finalizing(p)
      BY <2>1 DEF Write, Preparing, Finalizing
    <3> QED BY <2>1, <3>1, PrepareWriteStep, FinalizeWriteStep
  <2> QED
    BY <1>3, <2>1, ReadAnswerStep, ReloadRejectedStep, TryLockStep, RevalidateStep DEF Step
<1>4. ASSUME NEW p \in Procs, RefuseOptions(p) \/ Crash(p) PROVE Kept
  BY <1>4, QuietExit DEF RefuseOptions, Crash, Kept
<1>5. ASSUME Reviewer PROVE Kept
  BY <1>5, SubmitStep DEF Reviewer
<1>6. CASE UNCHANGED vars
  <2>1. files' = files /\ pc' = pc /\ doc' = doc /\ todo' = todo /\ lock' = lock
    BY <1>6 DEF vars
  <2>2. \A q \in Procs : PhaseInv(q)' /\ PrepareInv(q)' /\ FinalizeInv(q)'
    BY <2>1 DEF IInv, PhaseInv, PrepareInv, FinalizeInv, HoldsContext, Preparing, Finalizing
  <2> QED
    BY <1>1, <2>1, <2>2
       DEF IInv, PublishedInv, Preparing, ChildInv, LoopInv, CompletionIsCoherent, Complete
<1>7. Kept => IInv'
  BY <1>1 DEF Kept, IInv
<1> QED
  BY <1>2, <1>3, <1>4, <1>5, <1>6, <1>7, BeginCompleteStep DEF Next

-----------------------------------------------------------------------------
(* The inductive invariant holds in every reachable state.                  *)
THEOREM Invariance ==
  ASSUME OnePreparer
  PROVE  Spec => []IInv
<1>1. IInv /\ [Next]_vars => IInv'
  BY InvStep
<1> QED BY <1>1, InitInv, PTL DEF Spec

(* Every variable keeps its type, for any number of processes.              *)
THEOREM TypeCorrect ==
  ASSUME OnePreparer
  PROVE  Spec => []TypeOK
<1>1. IInv => TypeOK
  BY DEF IInv
<1> QED BY <1>1, Invariance, PTL

(* What a process checked under the finalization lock stays true until its  *)
(* last write, so the check need not be repeated file by file.              *)
THEOREM FinalizerSafety ==
  ASSUME OnePreparer
  PROVE  Spec => []FinalizerStaysValid
<1>1. IInv => FinalizerStaysValid
  <2> SUFFICES ASSUME IInv, NEW p \in Procs, Finalizing(p)
               PROVE  /\ lock = p /\ Prepared /\ files["context"].packet = doc[p].packet
    BY DEF FinalizerStaysValid
  <2> QED
    BY DEF IInv, FinalizeInv, HoldsContext, PublishedInv, Prepared
<1> QED BY <1>1, Invariance, PTL

(* A completed review is the work of one answer.                            *)
THEOREM CompletionSafety ==
  ASSUME OnePreparer
  PROVE  Spec => []CompletionIsCoherent
<1>1. IInv => CompletionIsCoherent
  BY DEF IInv
<1> QED BY <1>1, Invariance, PTL
-----------------------------------------------------------------------------
\* Which files a step may change: the next file of a writing command, or the
\* answer file.
LEMMA ChangedFiles ==
  ASSUME IInv, [Next]_vars
  PROVE  \/ files' = files
         \/ \A f \in Files \ {"adapterResponse"} : files'[f] = files[f]
         \/ \E p \in Procs : Write(p) /\ (Preparing(p) \/ Finalizing(p))
<1>1. ASSUME NEW p \in Procs, Write(p) PROVE Preparing(p) \/ Finalizing(p)
  BY <1>1 DEF Write, Preparing, Finalizing
<1>2. ASSUME NEW k \in Packets, NEW a \in Answers \cup {Malformed}, Submit(k, a)
      PROVE  \A f \in Files \ {"adapterResponse"} : files'[f] = files[f]
  BY <1>2 DEF Submit, IInv, TypeOK
<1> QED
  BY <1>1, <1>2
     DEF Next, Prepare, BeginPrepare, BeginComplete, Step, ReadAnswer, ReloadRejected,
         TryLock, Revalidate, RefuseOptions, Crash, Reviewer, vars

\* A step of the preparer changes one file and publishes the record last.
LEMMA PreparerWrites ==
  ASSUME IInv, NEW p \in Procs, Write(p), Preparing(p)
  PROVE  /\ files["execution"] = NoFile
         /\ files'["execution"] \in {NoFile, doc[p]}
         /\ files'["execution"] # NoFile =>
              \A f \in PacketFiles :
                files'[f] = IF f \in PrepareFiles(doc[p].packet) THEN doc[p] ELSE NoFile
<1>1. /\ files["execution"] = NoFile /\ "execution" \in todo[p]
      /\ \A f \in PacketFiles :
           files[f] = IF f \in PrepareFiles(doc[p].packet) \ todo[p] THEN doc[p] ELSE NoFile
  BY DEF IInv, PrepareInv
<1>2. PICK f \in todo[p] : /\ files' = [files EXCEPT ![f] = doc[p]]
                           /\ f = "execution" => todo[p] = {"execution"}
  BY NextWrite
<1>3. PacketFiles \cup {"execution"} \subseteq Files /\ "execution" \notin PacketFiles
  BY DEF Files, PacketFiles
<1> QED BY <1>1, <1>2, <1>3 DEF IInv, TypeOK

\* A step of the lock holder leaves the packet alone and writes the record
\* when the evidence is all there.
LEMMA FinalizerWrites ==
  ASSUME IInv, NEW p \in Procs, Write(p), Finalizing(p)
  PROVE  /\ files["execution"] # NoFile
         /\ files["execution"].answer = NotRun
         /\ files["execution"].packet = doc[p].packet
         /\ \A f \in PacketFiles : files'[f] = files[f]
         /\ \/ files'["execution"] = files["execution"]
            \/ /\ files'["execution"] = doc[p]
               /\ doc[p] \in Docs
               /\ doc[p].answer \in Answers
<1>1. /\ HoldsContext(p) /\ files["execution"].answer = NotRun /\ doc[p] \in Docs
      /\ doc[p].packet \in Packets /\ FinalizeInv(p)
      /\ doc[p].answer \in Answers \cup {Malformed}
  BY DocShape DEF IInv, FinalizeInv, Finalizing
<1>2. PICK f \in todo[p] : files' = [files EXCEPT ![f] = doc[p]] /\ f \in Files
  BY NextWrite
<1>3. f \notin PacketFiles /\ (f = "execution" => doc[p].answer \in Answers)
  BY <1>1, <1>2, WrittenFiles DEF FinalizeInv, Finalizing
<1>4. PacketFiles \cup {"execution"} \subseteq Files
  BY DEF Files, PacketFiles
<1> QED
  BY <1>1, <1>2, <1>3, <1>4 DEF HoldsContext, IInv, TypeOK, PublishedInv

(* The packet of a published review never changes.                          *)
THEOREM PacketSafety ==
  ASSUME OnePreparer
  PROVE  Spec => PacketImmutable
<1>1. IInv /\ [Next]_vars /\ files["execution"] # NoFile
        => \A f \in PacketFiles : files'[f] = files[f]
  <2>1. PacketFiles \subseteq Files \ {"adapterResponse"}
    BY DEF Files, PacketFiles
  <2> QED BY <2>1, ChangedFiles, PreparerWrites, FinalizerWrites
<1>2. IInv /\ [Next]_vars
        => [files["execution"] # NoFile => \A f \in PacketFiles : files'[f] = files[f]]_vars
  BY <1>1
<1> QED BY <1>2, Invariance, PTL DEF Spec, PacketImmutable

(* A completed review is never touched again.                               *)
THEOREM FinalitySafety ==
  ASSUME OnePreparer
  PROVE  Spec => FinalOnce
<1>1. IInv /\ [Next]_vars /\ Complete
        => \A f \in EvidenceFiles \cup {"execution", "loopState"} : files'[f] = files[f]
  <2>1. EvidenceFiles \cup {"execution", "loopState"} \subseteq Files \ {"adapterResponse"}
    BY DEF Files, PacketFiles, EvidenceFiles
  <2> QED BY <2>1, ChangedFiles, PreparerWrites, FinalizerWrites, DocShape DEF Complete
<1>2. IInv /\ [Next]_vars
        => [Complete => \A f \in EvidenceFiles \cup {"execution", "loopState"} :
                          files'[f] = files[f]]_vars
  BY <1>1
<1> QED BY <1>2, Invariance, PTL DEF Spec, FinalOnce
-----------------------------------------------------------------------------
\* Every step is a step of the abstract review or does not change it.
LEMMA OutcomeStep ==
  ASSUME IInv, IInv', [Next]_vars
  PROVE  [Outcome!Next]_(Outcome!vars)
<1> USE DEF Outcome!Next, Outcome!Open, Outcome!Close, Outcome!vars
<1>1. PacketFiles \cup EvidenceFiles \cup {"execution"} \subseteq Files \ {"adapterResponse"}
  BY DEF Files, PacketFiles, EvidenceFiles
<1>2. CASE \A f \in Files \ {"adapterResponse"} : files'[f] = files[f]
  BY <1>1, <1>2 DEF Complete
<1>3. ASSUME NEW p \in Procs, Write(p), Preparing(p)
      PROVE  [Outcome!Next]_(Outcome!vars)
  <2>1. doc[p] \in Docs /\ doc[p].packet \in Packets
        /\ doc[p] = [packet |-> doc[p].packet, answer |-> NotRun]
    BY <1>3, DocShape DEF IInv, PrepareInv, Preparing, Docs
  <2>2. CASE files'["execution"] = NoFile
    BY <1>3, <2>2, PreparerWrites DEF Complete
  <2>3. CASE files'["execution"] = doc[p]
    <3>1. doc[p] # NoFile /\ doc[p].answer \notin Answers
      BY <2>1, <1>3, DocShape DEF Preparing
    <3>2. ~Complete /\ ~Complete'
      BY <1>3, <2>3, <3>1, PreparerWrites DEF Complete
    <3>3. [f \in PacketFiles |-> files'[f]] \in [PacketFiles -> {NoFile, doc[p]}]
      BY <1>3, <2>3, <3>1, PreparerWrites
    <3>4. Outcome!Open
      BY <1>3, <2>1, <2>3, <3>1, <3>2, <3>3, PreparerWrites
    <3> QED BY <3>4
  <2> QED BY <1>3, <2>2, <2>3, PreparerWrites
<1>4. ASSUME NEW p \in Procs, Write(p), Finalizing(p)
      PROVE  [Outcome!Next]_(Outcome!vars)
  <2>1. CASE files'["execution"] = files["execution"]
    BY <1>4, <2>1, FinalizerWrites, DocShape DEF Complete
  <2>2. CASE /\ files'["execution"] = doc[p]
             /\ doc[p] \in Docs
             /\ doc[p].answer \in Answers
    <3>1. ~Complete /\ Complete' /\ files'["execution"] # NoFile
      BY <1>4, <2>2, FinalizerWrites, DocShape DEF Complete
    <3>2. \A f \in EvidenceFiles : files'[f] = doc[p]
      BY <2>2, <3>1 DEF IInv, CompletionIsCoherent
    <3>3. doc[p] = [packet |-> files["execution"].packet, answer |-> doc[p].answer]
      BY <1>4, <2>2, FinalizerWrites DEF Docs
    <3>4. [f \in PacketFiles |-> files'[f]] = [f \in PacketFiles |-> files[f]]
      BY <1>4, FinalizerWrites
    <3>5. [f \in EvidenceFiles |-> files'[f]] = [f \in EvidenceFiles |-> doc[p]]
      BY <3>2
    <3>6. Outcome!Close
      BY <1>4, <2>2, <3>1, <3>3, <3>4, <3>5, FinalizerWrites
    <3> QED BY <3>6
  <2> QED BY <1>4, <2>1, <2>2, FinalizerWrites
<1> QED BY <1>2, <1>3, <1>4, ChangedFiles

(* A reader of the lifecycle record sees the abstract review.               *)
THEOREM Refinement ==
  ASSUME OnePreparer
  PROVE  Spec => ImplementsReviewOutcome
<1>1. Init => Outcome!Init
  BY DEF Init, Outcome!Init, Files, Complete
<1>2. IInv /\ IInv' /\ [Next]_vars => [Outcome!Next]_(Outcome!vars)
  BY OutcomeStep
<1> QED BY <1>1, <1>2, Invariance, PTL DEF Spec, ImplementsReviewOutcome, Outcome!Spec
=============================================================================
