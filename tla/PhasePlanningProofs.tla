------------------------ MODULE PhasePlanningProofs ------------------------
(***************************************************************************)
(* Proofs about PhasePlanning, for all candidates, slices and bounds, of   *)
(* one command at a time: two that overlap lose each other's updates.      *)
(* PlanningInv says what the command under way has read and what it still  *)
(* has to write; it is inductive, and holds wherever commands have died.   *)
(***************************************************************************)
EXTENDS PhasePlanning, SequenceTheorems, WellFoundedInduction, TLAPS

\* Commands do not overlap.
OneCommand == \A p, q \in Procs : p = q

Phase == [title : Titles, status : {"planned", "in_progress", "complete", "blocked"},
          listed : SUBSET PlanNumbers]

FileStatuses == PlanStatuses \cup {NoPlan, "torn"}

\* Plan files are in the directories of phases that are in the roadmap.
FilesInv ==
  /\ roadmap \in Seq(Phase) /\ Len(roadmap) <= MaxPhases
  /\ plans \in [Directories -> [PlanNumbers -> FileStatuses]]
  /\ \A d \in Directories :
       Present(d) # {} => d[1] \in DOMAIN roadmap /\ roadmap[d[1]].title = d[2]

\* The candidates plan auto has still to come to: each of them that has a
\* phase had one when plan auto read the roadmap.
Remaining(j) ==
  /\ {"left", "known"} \subseteq DOMAIN j
  /\ j.left \in Seq(Titles \ {ByHand})
  /\ \A m, n \in DOMAIN j.left : j.left[m] = j.left[n] => m = n
  /\ \A i \in DOMAIN j.left, n \in DOMAIN roadmap :
       roadmap[n].title = j.left[i] =>
         \E m \in DOMAIN j.known : j.known[m].title = j.left[i]

\* A phase is about to be added: no phase is of its candidate.
Adding(j) ==
  /\ Remaining(j) /\ "title" \in DOMAIN j /\ j.title \in Titles
  /\ j.title # ByHand =>
       /\ \A n \in DOMAIN roadmap : roadmap[n].title # j.title
       /\ \A i \in DOMAIN j.left : j.left[i] # j.title

\* The plans of a phase are being written, all from the same roadmap.
Writing(j) ==
  /\ Remaining(j) /\ {"n", "road", "k"} \subseteq DOMAIN j
  /\ j.road = roadmap /\ j.n \in DOMAIN roadmap
  /\ j.k \in 1 .. PlanCount(roadmap[j.n].title)

AllDone(n) ==
  \A k \in Present(Directory(roadmap, n)) : plans[Directory(roadmap, n)][k] \in DoneStatuses

SomeBlocked(n) ==
  \E k \in Present(Directory(roadmap, n)) : plans[Directory(roadmap, n)][k] = "blocked"

\* A status of phase n that its plans bear out.
BornOut(n, status) ==
  (status = "complete" => AllDone(n)) /\ (status = "blocked" => SomeBlocked(n))

\* What a command at a place has read, and what it is going to do.
Fits(place, j) ==
  /\ place = "candidate" => Remaining(j) /\ j.left # <<>>
  /\ place = "add" => Adding(j)
  /\ place = "append" =>
       Adding(j) /\ "road" \in DOMAIN j /\ j.road = roadmap /\ Len(roadmap) < MaxPhases
  /\ place \in {"added", "plan"} => Remaining(j) /\ "n" \in DOMAIN j
  /\ place = "state" => Remaining(j)
  /\ place = "write" => Writing(j) /\ Present(Directory(roadmap, j.n)) = 1 .. j.k - 1
  /\ place = "planned" =>
       /\ Writing(j) /\ Present(Directory(roadmap, j.n)) = 1 .. j.k
       /\ j.k = PlanCount(roadmap[j.n].title)
  /\ place = "rewrite" =>
       /\ {"n", "d", "new", "next"} \subseteq DOMAIN j
       /\ j.n \in DOMAIN roadmap /\ j.d = Directory(roadmap, j.n)
       /\ DOMAIN j.new \subseteq Present(j.d) /\ DOMAIN j.new # {}
       /\ \A k \in DOMAIN j.new :
            j.new[k] = plans[j.d][k] \/ j.new[k] \in PlanStatuses \ {"planned"}
       /\ j.next \in {"track", "note"}
  /\ place \in {"note", "track"} => j.n \in DOMAIN roadmap
  /\ place = "tracked" =>
       /\ j.road = roadmap /\ j.n \in DOMAIN roadmap /\ j.listed \subseteq PlanNumbers
       /\ j.status \in {"in_progress", "complete", "blocked"} /\ BornOut(j.n, j.status)
  /\ place = "verify" => j.n \in DOMAIN roadmap /\ (j.passed => AllDone(j.n))
  /\ place = "close" => j.n \in DOMAIN roadmap /\ AllDone(j.n)

Places == {"idle", "candidate", "add", "append", "added", "plan", "write", "planned", "state",
           "rewrite", "note", "track", "tracked", "summarize", "verify", "close"}

JobInv ==
  /\ pc \in [Procs -> Places] /\ DOMAIN job = Procs
  /\ \A p \in Procs : Fits(pc[p], job[p])

\* The command at this place still has to bring phase n up to its plans.
Behind(n, place, j) ==
  place \in {"write", "planned", "rewrite", "note", "track", "tracked"} /\ j.n = n

\* The roadmap agrees with the plans but where a command is at work.
AgreeInv ==
  crashes = 0 =>
    \A n \in DOMAIN roadmap :
      (\A p \in Procs : ~ Behind(n, pc[p], job[p])) => BornOut(n, roadmap[n].status)

\* A phase has all of its plans or none, but where they are being written.
WholeInv ==
  crashes = 0 =>
    \A n \in DOMAIN roadmap :
      (\A p \in Procs : ~ (pc[p] = "write" /\ job[p].n = n)) =>
        Present(Directory(roadmap, n)) \in {{}, 1 .. PlanCount(roadmap[n].title)}

\* Only a death tears a plan.
UntornInv == crashes = 0 => \A d \in Directories : Loadable(d)

PlanningInv ==
  /\ FilesInv /\ crashes \in Nat /\ OnePhasePerCandidate /\ JobInv
  /\ AgreeInv /\ WholeInv /\ UntornInv
-----------------------------------------------------------------------------
(* The operators of the model.                                              *)

(* An updated job keeps its candidates and has the new fields.              *)
LEMMA UpdateTitle ==
  ASSUME NEW r, NEW v, {"left", "known"} \subseteq DOMAIN r
  PROVE  /\ {"left", "known", "title"} \subseteq DOMAIN Update(r, [title |-> v])
         /\ Update(r, [title |-> v]).left = r.left
         /\ Update(r, [title |-> v]).known = r.known
         /\ Update(r, [title |-> v]).title = v
BY DEF Update

LEMMA UpdateN ==
  ASSUME NEW r, NEW v, {"left", "known"} \subseteq DOMAIN r
  PROVE  /\ {"left", "known", "n"} \subseteq DOMAIN Update(r, [n |-> v])
         /\ Update(r, [n |-> v]).left = r.left
         /\ Update(r, [n |-> v]).known = r.known
         /\ Update(r, [n |-> v]).n = v
         /\ "title" \in DOMAIN r => Update(r, [n |-> v]).title = r.title
BY DEF Update

LEMMA UpdateRoad ==
  ASSUME NEW r, NEW v, {"left", "known", "title"} \subseteq DOMAIN r
  PROVE  /\ {"left", "known", "title", "road"} \subseteq DOMAIN Update(r, [road |-> v])
         /\ Update(r, [road |-> v]).left = r.left
         /\ Update(r, [road |-> v]).known = r.known
         /\ Update(r, [road |-> v]).title = r.title
         /\ Update(r, [road |-> v]).road = v
BY DEF Update

LEMMA UpdatePlan ==
  ASSUME NEW r, NEW v, NEW w, {"left", "known", "n"} \subseteq DOMAIN r
  PROVE  /\ {"left", "known", "n", "road", "k"} \subseteq DOMAIN Update(r, [road |-> v, k |-> w])
         /\ Update(r, [road |-> v, k |-> w]).left = r.left
         /\ Update(r, [road |-> v, k |-> w]).known = r.known
         /\ Update(r, [road |-> v, k |-> w]).n = r.n
         /\ Update(r, [road |-> v, k |-> w]).road = v
         /\ Update(r, [road |-> v, k |-> w]).k = w
BY DEF Update

(* What is left to plan auto depends on two fields of the job.              *)
LEMMA RemainingSame ==
  ASSUME NEW i, NEW j, Remaining(i), {"left", "known"} \subseteq DOMAIN j,
         j.left = i.left, j.known = i.known
  PROVE  Remaining(j)
BY DEF Remaining

(* Every phase has a first plan and no more plans than there are numbers.   *)
LEMMA PlanCountBounds ==
  ASSUME NEW title
  PROVE  /\ Len(Slices) \in Nat \ {0} /\ 1 \in PlanNumbers
         /\ PlanCount(title) \in PlanNumbers /\ PlanCount(title) \in Nat
<1>1. Slices \in Seq(SUBSET (1 .. Len(Slices))) /\ Slices # <<>>
  BY PhasePlanningAssumption
<1>2. Len(Slices) \in Nat \ {0}
  BY <1>1, EmptySeq, LenProperties
<1> QED BY <1>2 DEF PlanNumbers, PlanCount

(* A set of natural numbers has a least one.                                *)
LEMMA LeastOf ==
  ASSUME NEW S \in SUBSET Nat, S # {}
  PROVE  \E m \in S : \A n \in S : m <= n
<1> DEFINE R == {ss \in Nat \X Nat : ss[1] < ss[2]}
<1>1. IsWellFoundedOn(R, Nat)
  BY NatLessThanWellFounded DEF OpToRel
<1>2. PICK m \in S : \A n \in S : ~ (<<n, m>> \in R)
  <2> HIDE DEF R
  <2> QED BY <1>1, WFMin
<1>3. \A n \in S : m <= n
  <2> TAKE n \in S
  <2>1. n \in Nat /\ m \in Nat
    OBVIOUS
  <2>2. n < m => <<n, m>> \in R
    BY <2>1
  <2> QED BY <1>2, <2>1, <2>2
<1> QED BY <1>3

(* The directory of a phase of the roadmap.                                 *)
LEMMA DirectoryOf ==
  ASSUME FilesInv, NEW n \in DOMAIN roadmap
  PROVE  /\ n \in Nat /\ n >= 1 /\ n <= MaxPhases /\ roadmap[n] \in Phase
         /\ Directory(roadmap, n) \in Directories
         /\ Directory(roadmap, n)[1] = n /\ Directory(roadmap, n)[2] = roadmap[n].title
         /\ Present(Directory(roadmap, n)) \subseteq PlanNumbers
<1>1. roadmap \in Seq(Phase) /\ Len(roadmap) <= MaxPhases /\ MaxPhases \in Nat
  BY PhasePlanningAssumption DEF FilesInv
<1>2. n \in 1 .. Len(roadmap) /\ Len(roadmap) \in Nat /\ roadmap[n] \in Phase
  BY <1>1, LenProperties, ElementOfSeq
<1>3. n \in 1 .. MaxPhases /\ roadmap[n].title \in Titles
  BY <1>1, <1>2 DEF Phase
<1> QED BY <1>2, <1>3 DEF Directory, Directories, Present

(* The first state satisfies the invariant.                                 *)
LEMMA InitPlanning == Init => PlanningInv
<1> SUFFICES ASSUME Init PROVE PlanningInv
  OBVIOUS
<1>1. /\ roadmap = <<>> /\ crashes = 0 /\ pc = [p \in Procs |-> "idle"]
      /\ plans = [d \in Directories |-> [k \in PlanNumbers |-> NoPlan]]
      /\ job = [p \in Procs |-> Nothing]
  BY DEF Init
<1>2. roadmap \in Seq(Phase) /\ Len(roadmap) = 0 /\ DOMAIN roadmap = {}
  BY <1>1
<1>3. FilesInv
  <2>1. \A d \in Directories : Present(d) = {}
    BY <1>1 DEF Present
  <2> QED BY <1>1, <1>2, <2>1, PhasePlanningAssumption DEF FilesInv, FileStatuses
<1>4. JobInv
  BY <1>1 DEF JobInv, Places, Fits
<1>5. UntornInv
  BY <1>1, PhasePlanningAssumption DEF UntornInv, Loadable
<1> QED BY <1>1, <1>2, <1>3, <1>4, <1>5 DEF PlanningInv, OnePhasePerCandidate, AgreeInv, WholeInv

-----------------------------------------------------------------------------
(* Steps that write no file.                                                *)

(* What Go does to the only command, and that only its job has to fit.      *)
LEMMA GoesTo ==
  ASSUME JobInv, NEW p \in Procs, NEW place \in Places, NEW j, Go(p, place, j)
  PROVE  /\ pc' = [pc EXCEPT ![p] = pc'[p]] /\ job' = [job EXCEPT ![p] = job'[p]]
         /\ pc'[p] = place /\ job'[p] = j
BY DEF Go, JobInv

LEMMA OnlyOne ==
  ASSUME OneCommand, JobInv, NEW p \in Procs, pc'[p] \in Places,
         pc' = [pc EXCEPT ![p] = pc'[p]], job' = [job EXCEPT ![p] = job'[p]],
         Fits(pc[p], job[p])'
  PROVE  JobInv'
BY DEF OneCommand, JobInv

(* Where no roadmap and no plan is written, only the command's place and    *)
(* job have to fit, and what it leaves behind has to be borne out.          *)
LEMMA SameFiles ==
  ASSUME PlanningInv, OneCommand, NEW p \in Procs, UNCHANGED <<roadmap, plans>>,
         pc'[p] \in Places,
         pc' = [pc EXCEPT ![p] = pc'[p]], job' = [job EXCEPT ![p] = job'[p]],
         Fits(pc'[p], job'[p]),
         crashes' \in Nat /\ (crashes' = 0 => crashes = 0),
         crashes' = 0 =>
           \A n \in DOMAIN roadmap :
             /\ Behind(n, pc[p], job[p]) =>
                  Behind(n, pc'[p], job'[p]) \/ BornOut(n, roadmap[n].status)
             /\ ~ (pc[p] = "write" /\ job[p].n = n)
  PROVE  PlanningInv'
<1> USE DEF PlanningInv
<1>1. FilesInv' /\ OnePhasePerCandidate'
  BY DEF FilesInv, OnePhasePerCandidate, Present
<1>2. Fits(pc[p], job[p])'
  BY DEF Fits, Remaining, Adding, Writing, BornOut, AllDone, SomeBlocked, Present
<1>3. JobInv'
  BY <1>2, OnlyOne
<1>4. AgreeInv'
  <2> SUFFICES ASSUME crashes' = 0, NEW n \in DOMAIN roadmap,
                      ~ Behind(n, pc'[p], job'[p])
               PROVE  BornOut(n, roadmap[n].status)'
    BY DEF AgreeInv, Behind
  <2>1. BornOut(n, roadmap[n].status)
    <3>1. CASE Behind(n, pc[p], job[p])
      BY <3>1
    <3>2. CASE ~ Behind(n, pc[p], job[p])
      BY <3>2 DEF AgreeInv, OneCommand
    <3> QED BY <3>1, <3>2
  <2> QED BY <2>1 DEF BornOut, AllDone, SomeBlocked, Present
<1>5. WholeInv'
  <2> SUFFICES ASSUME crashes' = 0, NEW n \in DOMAIN roadmap
               PROVE  Present(Directory(roadmap, n)) \in {{}, 1 .. PlanCount(roadmap[n].title)}
    BY DEF WholeInv, Present
  <2> QED BY DEF WholeInv, OneCommand
<1>6. UntornInv'
  BY DEF UntornInv, Loadable
<1> QED BY <1>1, <1>3, <1>4, <1>5, <1>6

(* plan auto starts with all candidates, and has read the roadmap.          *)
LEMMA AutoPlanKeeps ==
  ASSUME PlanningInv, OneCommand, NEW p \in Procs, AutoPlan(p)
  PROVE  PlanningInv'
<1> DEFINE start == [left |-> Candidates, known |-> roadmap]
<1>1. pc[p] = "idle" /\ Candidates # <<>> /\ Go(p, "candidate", start)
      /\ UNCHANGED <<roadmap, plans, crashes>>
  BY DEF AutoPlan, files, bounds
<1>2. Remaining(start)
  <2>1. Candidates \in Seq(Titles \ {ByHand})
    BY PhasePlanningAssumption DEF Titles
  <2> QED BY <2>1, PhasePlanningAssumption DEF Remaining
<1>3. Fits("candidate", start)
  BY <1>1, <1>2 DEF Fits
<1>4. pc'[p] = "candidate" /\ job'[p] = start /\ pc' = [pc EXCEPT ![p] = pc'[p]]
      /\ job' = [job EXCEPT ![p] = job'[p]]
  BY <1>1, GoesTo DEF PlanningInv, Places
<1> QED BY <1>1, <1>3, <1>4, SameFiles DEF PlanningInv, Places, Behind

(* A candidate leaves the list: the rest is as it was.                      *)
LEMMA RestRemains ==
  ASSUME NEW j, Remaining(j), j.left # <<>>
  PROVE  /\ Remaining([j EXCEPT !.left = Tail(@)])
         /\ Head(j.left) \in Titles \ {ByHand}
         /\ \A i \in DOMAIN Tail(j.left) : Tail(j.left)[i] # Head(j.left)
<1> DEFINE rest == [j EXCEPT !.left = Tail(@)]
<1>1. j.left \in Seq(Titles \ {ByHand}) /\ {"left", "known"} \subseteq DOMAIN j
  BY DEF Remaining
<1>2. /\ Tail(j.left) \in Seq(Titles \ {ByHand}) /\ Len(Tail(j.left)) = Len(j.left) - 1
      /\ Head(j.left) = j.left[1] /\ Head(j.left) \in Titles \ {ByHand}
      /\ \A i \in 1 .. Len(Tail(j.left)) : Tail(j.left)[i] = j.left[i + 1]
  BY <1>1, HeadTailProperties
<1>3. Len(j.left) \in Nat \ {0} /\ DOMAIN j.left = 1 .. Len(j.left)
      /\ DOMAIN Tail(j.left) = 1 .. Len(Tail(j.left))
  BY <1>1, <1>2, EmptySeq, LenProperties
<1>4. \A i \in DOMAIN Tail(j.left) :
        i \in DOMAIN j.left /\ i + 1 \in DOMAIN j.left /\ i \in Nat /\ i + 1 # 1
        /\ Tail(j.left)[i] = j.left[i + 1]
  BY <1>2, <1>3
<1>5. rest.left = Tail(j.left) /\ rest.known = j.known /\ DOMAIN rest = DOMAIN j
  BY <1>1
<1>6. \A m, n \in DOMAIN Tail(j.left) : Tail(j.left)[m] = Tail(j.left)[n] => m = n
  <2> SUFFICES ASSUME NEW m \in DOMAIN Tail(j.left), NEW n \in DOMAIN Tail(j.left),
                      Tail(j.left)[m] = Tail(j.left)[n]
               PROVE  m = n
    OBVIOUS
  <2>1. m + 1 = n + 1
    BY <1>4 DEF Remaining
  <2> QED BY <1>4, <2>1
<1>7. \A i \in DOMAIN Tail(j.left), n \in DOMAIN roadmap :
        roadmap[n].title = Tail(j.left)[i] =>
          \E m \in DOMAIN j.known : j.known[m].title = Tail(j.left)[i]
  BY <1>4 DEF Remaining
<1>8. \A i \in DOMAIN Tail(j.left) : Tail(j.left)[i] # Head(j.left)
  BY <1>2, <1>3, <1>4 DEF Remaining
<1>9. Remaining(rest)
  BY <1>1, <1>2, <1>5, <1>6, <1>7 DEF Remaining
<1> QED BY <1>2, <1>8, <1>9

(* A candidate without a phase is added, one with a phase is planned.       *)
LEMMA CandidateKeeps ==
  ASSUME PlanningInv, OneCommand, NEW p \in Procs, Candidate(p)
  PROVE  PlanningInv'
<1> DEFINE j     == job[p]
           first == Head(j.left)
           had   == {n \in DOMAIN j.known : j.known[n].title = first}
           rest  == [j EXCEPT !.left = Tail(@)]
           new   == Update(rest, [title |-> first])
           old   == Update(rest, [n |-> CHOOSE n \in had : \A m \in had : m <= n])
<1>1. pc[p] = "candidate" /\ UNCHANGED <<roadmap, plans, crashes>>
  BY DEF Candidate, files, bounds
<1>2. Remaining(j) /\ j.left # <<>>
  BY <1>1 DEF PlanningInv, JobInv, Fits
<1>3. /\ Remaining(rest) /\ first \in Titles \ {ByHand}
      /\ \A i \in DOMAIN Tail(j.left) : Tail(j.left)[i] # first
  BY <1>2, RestRemains
<1>4. rest.left = Tail(j.left) /\ rest.known = j.known /\ {"left", "known"} \subseteq DOMAIN rest
      /\ 1 \in DOMAIN j.left /\ first = j.left[1]
  <2>1. j.left \in Seq(Titles \ {ByHand}) /\ {"left", "known"} \subseteq DOMAIN j
    BY <1>2 DEF Remaining
  <2>2. first = j.left[1] /\ 1 \in DOMAIN j.left
    BY <1>2, <2>1, HeadTailProperties, EmptySeq, LenProperties
  <2> QED BY <2>1, <2>2
<1>5. CASE had = {} /\ Go(p, "add", new)
  <2>1. /\ new.title = first /\ new.left = rest.left /\ new.known = rest.known
        /\ {"left", "known", "title"} \subseteq DOMAIN new
    <3>1. {"left", "known"} \subseteq DOMAIN rest
      BY <1>4
    <3> HIDE DEF first, rest
    <3> QED BY <3>1, UpdateTitle
  <2>2. \A n \in DOMAIN roadmap : roadmap[n].title # first
    BY <1>2, <1>4, <1>5 DEF Remaining
  <2>3. Adding(new)
    <3> HIDE DEF first, rest, new
    <3>1. Remaining(new)
      BY <1>3, <2>1, RemainingSame
    <3> QED BY <1>3, <1>4, <2>1, <2>2, <3>1 DEF Adding
  <2>4. Fits("add", new)
    BY <2>3 DEF Fits
  <2>5. pc'[p] = "add" /\ job'[p] = new /\ pc' = [pc EXCEPT ![p] = pc'[p]]
        /\ job' = [job EXCEPT ![p] = job'[p]]
    BY <1>5, GoesTo DEF PlanningInv, Places
  <2> QED BY <1>1, <2>4, <2>5, SameFiles DEF PlanningInv, Places, Behind
<1>6. CASE had # {} /\ Go(p, "plan", old)
  <2>1. /\ old.left = rest.left /\ old.known = rest.known
        /\ {"left", "known", "n"} \subseteq DOMAIN old
    <3>1. {"left", "known"} \subseteq DOMAIN rest
      BY <1>4
    <3> HIDE DEF rest
    <3> QED BY <3>1, UpdateN
  <2>2. Remaining(old)
    <3> HIDE DEF rest, old
    <3> QED BY <1>3, <2>1, RemainingSame
  <2>3. Fits("plan", old)
    <3> HIDE DEF old
    <3> QED BY <2>1, <2>2 DEF Fits
  <2>4. pc'[p] = "plan" /\ job'[p] = old /\ pc' = [pc EXCEPT ![p] = pc'[p]]
        /\ job' = [job EXCEPT ![p] = job'[p]]
    BY <1>6, GoesTo DEF PlanningInv, Places
  <2> QED BY <1>1, <2>3, <2>4, SameFiles DEF PlanningInv, Places, Behind
<1> QED BY <1>5, <1>6 DEF Candidate

(* phase add has one phase to add, and no candidates.                       *)
LEMMA AddByHandKeeps ==
  ASSUME PlanningInv, OneCommand, NEW p \in Procs, AddByHand(p)
  PROVE  PlanningInv'
<1> DEFINE new == [left |-> <<>>, known |-> <<>>, title |-> ByHand]
<1>1. pc[p] = "idle" /\ Go(p, "add", new) /\ UNCHANGED <<roadmap, plans, crashes>>
  BY DEF AddByHand, files, bounds
<1>2. Adding(new)
  BY DEF Adding, Remaining, Titles
<1>3. pc'[p] = "add" /\ job'[p] = new /\ pc' = [pc EXCEPT ![p] = pc'[p]]
      /\ job' = [job EXCEPT ![p] = job'[p]]
  BY <1>1, GoesTo DEF PlanningInv, Places
<1>4. Fits(pc'[p], job'[p])
  BY <1>2, <1>3 DEF Fits
<1> QED BY <1>1, <1>3, <1>4, SameFiles DEF PlanningInv, Places, Behind

(* add_phase has read the roadmap as it is.                                 *)
LEMMA AddReadKeeps ==
  ASSUME PlanningInv, OneCommand, NEW p \in Procs, AddRead(p)
  PROVE  PlanningInv'
<1> DEFINE new == Update(job[p], [road |-> roadmap])
<1>1. pc[p] = "add" /\ Go(p, "append", new) /\ UNCHANGED <<roadmap, plans, crashes>>
      /\ Len(roadmap) < MaxPhases
  BY DEF AddRead, files, bounds
<1>2. Adding(job[p])
  BY <1>1 DEF PlanningInv, JobInv, Fits
<1>3. {"left", "known", "title"} \subseteq DOMAIN job[p]
  BY <1>2 DEF Adding, Remaining
<1>4. /\ {"left", "known", "title", "road"} \subseteq DOMAIN new
      /\ new.left = job[p].left /\ new.known = job[p].known /\ new.title = job[p].title
      /\ new.road = roadmap
  BY <1>3, UpdateRoad
<1>5. Adding(new)
  <2> HIDE DEF new
  <2>1. Remaining(new)
    BY <1>2, <1>4, RemainingSame DEF Adding
  <2> QED BY <1>2, <1>4, <2>1 DEF Adding
<1>6. Fits("append", new)
  <2> HIDE DEF new
  <2> QED BY <1>1, <1>4, <1>5 DEF Fits
<1>7. pc'[p] = "append" /\ job'[p] = new /\ pc' = [pc EXCEPT ![p] = pc'[p]]
      /\ job' = [job EXCEPT ![p] = job'[p]]
  BY <1>1, GoesTo DEF PlanningInv, Places
<1> QED BY <1>1, <1>6, <1>7, SameFiles DEF PlanningInv, Places, Behind

(* The phase is in the roadmap, and goes on to its plans.                   *)
LEMMA AddStateKeeps ==
  ASSUME PlanningInv, OneCommand, NEW p \in Procs, AddState(p)
  PROVE  PlanningInv'
<1>1. pc[p] = "added" /\ UNCHANGED <<roadmap, plans, crashes>>
      /\ (Go(p, "idle", Nothing) \/ Go(p, "plan", job[p]))
  BY DEF AddState, bounds, Done
<1>2. Fits("idle", Nothing) /\ Fits("plan", job[p])
  BY <1>1 DEF Fits, PlanningInv, JobInv
<1>3. /\ pc'[p] \in {"idle", "plan"} /\ Fits(pc'[p], job'[p]) /\ pc' = [pc EXCEPT ![p] = pc'[p]]
      /\ job' = [job EXCEPT ![p] = job'[p]]
  BY <1>1, <1>2, GoesTo DEF PlanningInv, Places
<1> QED BY <1>1, <1>3, SameFiles DEF PlanningInv, Places, Behind

(* phase plan has one phase to plan, and no candidates.                     *)
LEMMA PlanByHandKeeps ==
  ASSUME PlanningInv, OneCommand, NEW p \in Procs, PlanByHand(p)
  PROVE  PlanningInv'
<1>1. PICK n \in DOMAIN roadmap : Go(p, "plan", [left |-> <<>>, known |-> <<>>, n |-> n])
  BY DEF PlanByHand
<1> DEFINE new == [left |-> <<>>, known |-> <<>>, n |-> n]
<1>2. pc[p] = "idle" /\ UNCHANGED <<roadmap, plans, crashes>>
  BY DEF PlanByHand, files, bounds
<1>3. Remaining(new)
  BY DEF Remaining
<1>4. pc'[p] = "plan" /\ job'[p] = new /\ pc' = [pc EXCEPT ![p] = pc'[p]]
      /\ job' = [job EXCEPT ![p] = job'[p]]
  BY <1>1, GoesTo DEF PlanningInv, Places
<1>5. Fits(pc'[p], job'[p])
  BY <1>3, <1>4 DEF Fits
<1> QED BY <1>2, <1>4, <1>5, SameFiles DEF PlanningInv, Places, Behind

(* plan auto goes on with what is left.                                     *)
LEMMA ContinueFits ==
  ASSUME JobInv, NEW p \in Procs, NEW j, Remaining(j), Continue(p, j)
  PROVE  /\ pc'[p] \in {"idle", "candidate"} /\ Fits(pc'[p], job'[p])
         /\ pc' = [pc EXCEPT ![p] = pc'[p]] /\ job' = [job EXCEPT ![p] = job'[p]]
<1>1. CASE j.left = <<>>
  <2>1. Go(p, "idle", Nothing)
    BY <1>1 DEF Continue, Done
  <2> QED BY <2>1, GoesTo DEF Fits, Places
<1>2. CASE j.left # <<>>
  <2>1. Go(p, "candidate", j)
    BY <1>2 DEF Continue
  <2>2. Fits("candidate", j)
    BY <1>2 DEF Fits
  <2> QED BY <2>1, <2>2, GoesTo DEF Places
<1> QED BY <1>1, <1>2

(* plan_phase leaves a phase with plans alone, and begins with none.        *)
LEMMA PlanReadKeeps ==
  ASSUME PlanningInv, OneCommand, NEW p \in Procs, PlanRead(p)
  PROVE  PlanningInv'
<1> DEFINE j   == job[p]
           new == Update(j, [road |-> roadmap, k |-> 1])
<1>1. pc[p] = "plan" /\ UNCHANGED <<roadmap, plans, crashes>>
  BY DEF PlanRead, files, bounds
<1>2. Remaining(j) /\ "n" \in DOMAIN j
  BY <1>1 DEF PlanningInv, JobInv, Fits
<1>3. CASE Go(p, "idle", Nothing) \/ Continue(p, j)
  <2>1. /\ pc'[p] \in {"idle", "candidate"} /\ Fits(pc'[p], job'[p])
        /\ pc' = [pc EXCEPT ![p] = pc'[p]] /\ job' = [job EXCEPT ![p] = job'[p]]
    <3>1. CASE Go(p, "idle", Nothing)
      BY <3>1, GoesTo DEF PlanningInv, Places, Fits
    <3>2. CASE Continue(p, j)
      BY <1>2, <3>2, ContinueFits DEF PlanningInv
    <3> QED BY <1>3, <3>1, <3>2
  <2> QED BY <1>1, <2>1, SameFiles DEF PlanningInv, Places, Behind
<1>4. CASE /\ j.n \in DOMAIN roadmap /\ Present(Directory(roadmap, j.n)) = {}
           /\ Go(p, "write", new)
  <2>1. /\ {"left", "known", "n", "road", "k"} \subseteq DOMAIN new
        /\ new.left = j.left /\ new.known = j.known /\ new.n = j.n /\ new.road = roadmap
        /\ new.k = 1
    <3>1. {"left", "known", "n"} \subseteq DOMAIN j
      BY <1>2 DEF Remaining
    <3> QED BY <3>1, UpdatePlan
  <2>2. Remaining(new)
    <3> HIDE DEF new, j
    <3> QED BY <1>2, <2>1, RemainingSame
  <2>3. Fits("write", new)
    <3>1. 1 \in 1 .. PlanCount(roadmap[j.n].title) /\ 1 .. 1 - 1 = {}
      BY PlanCountBounds DEF PlanNumbers
    <3> HIDE DEF new, j
    <3> QED BY <1>4, <2>1, <2>2, <3>1 DEF Fits, Writing
  <2>4. pc'[p] = "write" /\ job'[p] = new /\ pc' = [pc EXCEPT ![p] = pc'[p]]
        /\ job' = [job EXCEPT ![p] = job'[p]]
    BY <1>4, GoesTo DEF PlanningInv, Places
  <2> QED BY <1>1, <2>3, <2>4, SameFiles DEF PlanningInv, Places, Behind
<1> QED BY <1>3, <1>4 DEF PlanRead, Done

(* The phase has its plans, and plan auto goes on.                          *)
LEMMA PlanStateKeeps ==
  ASSUME PlanningInv, OneCommand, NEW p \in Procs, PlanState(p)
  PROVE  PlanningInv'
<1>1. pc[p] = "state" /\ UNCHANGED <<roadmap, plans, crashes>> /\ Continue(p, job[p])
  BY DEF PlanState, bounds
<1>2. Remaining(job[p])
  BY <1>1 DEF PlanningInv, JobInv, Fits
<1>3. /\ pc'[p] \in {"idle", "candidate"} /\ Fits(pc'[p], job'[p])
      /\ pc' = [pc EXCEPT ![p] = pc'[p]] /\ job' = [job EXCEPT ![p] = job'[p]]
  BY <1>1, <1>2, ContinueFits DEF PlanningInv
<1> QED BY <1>1, <1>3, SameFiles DEF PlanningInv, Places, Behind

(* record_batch rewrites a plan that is there, by a result.                 *)
LEMMA RecordBatchKeeps ==
  ASSUME PlanningInv, OneCommand, NEW p \in Procs, RecordBatch(p)
  PROVE  PlanningInv'
<1>1. PICK n \in DOMAIN roadmap, s \in BatchStatuses :
        \E k \in Present(Directory(roadmap, n)) :
          Go(p, "rewrite", [n |-> n, d |-> Directory(roadmap, n), next |-> "track",
                            new |-> [i \in {k} |-> s]])
  BY DEF RecordBatch
<1>2. PICK k \in Present(Directory(roadmap, n)) :
        Go(p, "rewrite", [n |-> n, d |-> Directory(roadmap, n), next |-> "track",
                          new |-> [i \in {k} |-> s]])
  BY <1>1
<1> DEFINE j == [n |-> n, d |-> Directory(roadmap, n), next |-> "track", new |-> [i \in {k} |-> s]]
<1>3. pc[p] = "idle" /\ UNCHANGED <<roadmap, plans, crashes>>
  BY DEF RecordBatch, files
<1>4. Fits("rewrite", j)
  BY DEF Fits, BatchStatuses, PlanStatuses
<1>5. pc'[p] = "rewrite" /\ job'[p] = j /\ pc' = [pc EXCEPT ![p] = pc'[p]]
      /\ job' = [job EXCEPT ![p] = job'[p]]
  BY <1>2, GoesTo DEF PlanningInv, Places
<1> QED BY <1>3, <1>4, <1>5, SameFiles DEF PlanningInv, Places, Behind

(* update_phase keeps the status of a plan, or has evidence for another.    *)
LEMMA UpdatePhaseKeeps ==
  ASSUME PlanningInv, OneCommand, NEW p \in Procs, UpdatePhase(p)
  PROVE  PlanningInv'
<1>1. PICK n \in DOMAIN roadmap, blocked \in BOOLEAN :
        \E seen \in [Present(Directory(roadmap, n)) -> {"resolved", "persisted", "neither"}] :
          Go(p, IF Present(Directory(roadmap, n)) = {} THEN "note" ELSE "rewrite",
             [n |-> n, d |-> Directory(roadmap, n), next |-> "note",
              new |-> [i \in Present(Directory(roadmap, n)) |->
                         Evidence(plans[Directory(roadmap, n)][i], seen[i], blocked)]])
  BY DEF UpdatePhase
<1> DEFINE d == Directory(roadmap, n)
<1>2. PICK seen : seen \in [Present(d) -> {"resolved", "persisted", "neither"}] /\
        Go(p, IF Present(d) = {} THEN "note" ELSE "rewrite",
           [n |-> n, d |-> d, next |-> "note",
            new |-> [i \in Present(d) |-> Evidence(plans[d][i], seen[i], blocked)]])
  BY <1>1
<1> DEFINE j == [n |-> n, d |-> d, next |-> "note",
                 new |-> [i \in Present(d) |-> Evidence(plans[d][i], seen[i], blocked)]]
<1>3. pc[p] = "idle" /\ UNCHANGED <<roadmap, plans, crashes>>
  BY DEF UpdatePhase, files
<1>4. \A k \in Present(d) : j.new[k] = plans[d][k] \/ j.new[k] \in PlanStatuses \ {"planned"}
  BY DEF Evidence, PlanStatuses, BatchStatuses
<1>5. Present(d) # {} => Fits("rewrite", j)
  BY <1>4 DEF Fits
<1>6. Fits("note", j)
  BY DEF Fits
<1>7. /\ pc'[p] = (IF Present(d) = {} THEN "note" ELSE "rewrite") /\ job'[p] = j
      /\ pc' = [pc EXCEPT ![p] = pc'[p]] /\ job' = [job EXCEPT ![p] = job'[p]]
  <2>1. (IF Present(d) = {} THEN "note" ELSE "rewrite") \in Places
    BY DEF Places
  <2> HIDE DEF j, d
  <2> QED BY <1>2, <2>1, GoesTo DEF PlanningInv, j
<1>8. Fits(pc'[p], job'[p])
  <2> HIDE DEF j, d
  <2> QED BY <1>5, <1>6, <1>7
<1> QED BY <1>3, <1>7, <1>8, SameFiles DEF PlanningInv, Places, Behind

(* The findings no plan has are noted; the tracking is still to come.       *)
LEMMA NoteKeeps ==
  ASSUME PlanningInv, OneCommand, NEW p \in Procs, Note(p)
  PROVE  PlanningInv'
<1> DEFINE new == [n |-> job[p].n]
<1>1. pc[p] = "note" /\ UNCHANGED <<roadmap, plans, crashes>> /\ Go(p, "track", new)
  BY DEF Note, bounds
<1>2. Fits("track", new)
  BY <1>1 DEF Fits, PlanningInv, JobInv
<1>3. pc'[p] = "track" /\ job'[p] = new /\ pc' = [pc EXCEPT ![p] = pc'[p]]
      /\ job' = [job EXCEPT ![p] = job'[p]]
  BY <1>1, GoesTo DEF PlanningInv, Places
<1> QED BY <1>1, <1>2, <1>3, SameFiles DEF PlanningInv, Places, Behind

(* The status to be tracked is the one the plans bear out.                  *)
LEMMA TrackReadKeeps ==
  ASSUME PlanningInv, OneCommand, NEW p \in Procs, TrackRead(p)
  PROVE  PlanningInv'
<1> DEFINE n   == job[p].n
           new == [n |-> n, road |-> roadmap, status |-> Track(Directory(roadmap, n)),
                   listed |-> Present(Directory(roadmap, n))]
<1>1. pc[p] = "track" /\ UNCHANGED <<roadmap, plans, crashes>>
  BY DEF TrackRead, files, bounds
<1>2. n \in DOMAIN roadmap
  BY <1>1 DEF Fits, PlanningInv, JobInv
<1>3. \/ Go(p, "idle", Nothing) /\ ~ Loadable(Directory(roadmap, n))
      \/ Go(p, "tracked", new)
  BY <1>2 DEF TrackRead, Done
<1>4. /\ Track(Directory(roadmap, n)) \in {"in_progress", "complete", "blocked"}
      /\ BornOut(n, Track(Directory(roadmap, n)))
  BY DEF Track, BornOut, AllDone, SomeBlocked
<1>5. Fits("tracked", new)
  <2>1. Present(Directory(roadmap, n)) \subseteq PlanNumbers
    BY DEF Present
  <2> QED BY <1>2, <1>4, <2>1 DEF Fits
<1>6. CASE Go(p, "tracked", new)
  <2>1. pc'[p] = "tracked" /\ job'[p] = new /\ pc' = [pc EXCEPT ![p] = pc'[p]]
        /\ job' = [job EXCEPT ![p] = job'[p]]
    BY <1>6, GoesTo DEF PlanningInv, Places
  <2>2. \A m : Behind(m, pc[p], job[p]) => Behind(m, pc'[p], job'[p])
    BY <1>1, <2>1 DEF Behind
  <2> QED BY <1>1, <1>5, <2>1, <2>2, SameFiles DEF PlanningInv, Places
<1>7. CASE Go(p, "idle", Nothing) /\ ~ Loadable(Directory(roadmap, n))
  <2>1. crashes # 0
    <3>1. Directory(roadmap, n) \in Directories
      BY <1>2, DirectoryOf DEF PlanningInv
    <3> QED BY <1>7, <3>1 DEF PlanningInv, UntornInv
  <2>2. pc'[p] = "idle" /\ pc' = [pc EXCEPT ![p] = pc'[p]] /\ job' = [job EXCEPT ![p] = job'[p]]
    BY <1>7, GoesTo DEF PlanningInv, Places
  <2>3. Fits(pc'[p], job'[p])
    BY <2>2 DEF Fits
  <2>4. crashes' \in Nat /\ crashes' # 0
    BY <1>1, <2>1 DEF PlanningInv
  <2> QED BY <1>1, <2>2, <2>3, <2>4, SameFiles DEF Places
<1> QED BY <1>3, <1>6, <1>7

(* The roadmap has been brought up to the plans.                            *)
LEMMA TrackStateKeeps ==
  ASSUME PlanningInv, OneCommand, NEW p \in Procs, TrackState(p)
  PROVE  PlanningInv'
<1>1. pc[p] = "summarize" /\ UNCHANGED <<roadmap, plans, crashes>> /\ Go(p, "idle", Nothing)
  BY DEF TrackState, bounds, Done
<1>2. pc'[p] = "idle" /\ pc' = [pc EXCEPT ![p] = pc'[p]] /\ job' = [job EXCEPT ![p] = job'[p]]
  BY <1>1, GoesTo DEF PlanningInv, Places
<1>3. Fits(pc'[p], job'[p])
  BY <1>2 DEF Fits
<1> QED BY <1>1, <1>2, <1>3, SameFiles DEF PlanningInv, Places, Behind

(* A verification passes when every plan is done.                           *)
LEMMA VerifyPhaseKeeps ==
  ASSUME PlanningInv, OneCommand, NEW p \in Procs, VerifyPhase(p)
  PROVE  PlanningInv'
<1>1. PICK n \in DOMAIN roadmap, clean \in BOOLEAN, closing \in BOOLEAN :
        Go(p, "verify", [n |-> n, closing |-> closing,
                         passed |-> Passed(Directory(roadmap, n), clean)])
  BY DEF VerifyPhase
<1> DEFINE new == [n |-> n, closing |-> closing, passed |-> Passed(Directory(roadmap, n), clean)]
<1>2. pc[p] = "idle" /\ UNCHANGED <<roadmap, plans, crashes>>
  BY DEF VerifyPhase, files
<1>3. Fits("verify", new)
  BY DEF Fits, Passed, AllDone
<1>4. pc'[p] = "verify" /\ job'[p] = new /\ pc' = [pc EXCEPT ![p] = pc'[p]]
      /\ job' = [job EXCEPT ![p] = job'[p]]
  BY <1>1, GoesTo DEF PlanningInv, Places
<1> QED BY <1>2, <1>3, <1>4, SameFiles DEF PlanningInv, Places, Behind

(* close_phase goes on only from a verification that passed.                *)
LEMMA VerifiedKeeps ==
  ASSUME PlanningInv, OneCommand, NEW p \in Procs, Verified(p)
  PROVE  PlanningInv'
<1>1. pc[p] = "verify" /\ UNCHANGED <<roadmap, plans, crashes>>
  BY DEF Verified, bounds
<1>2. job[p].n \in DOMAIN roadmap /\ (job[p].passed => AllDone(job[p].n))
  BY <1>1 DEF Fits, PlanningInv, JobInv
<1>3. Go(p, "idle", Nothing) \/ (job[p].passed /\ Go(p, "close", job[p]))
  BY DEF Verified, Done
<1>4. /\ pc'[p] \in {"idle", "close"} /\ Fits(pc'[p], job'[p])
      /\ pc' = [pc EXCEPT ![p] = pc'[p]] /\ job' = [job EXCEPT ![p] = job'[p]]
  <2>1. CASE Go(p, "idle", Nothing)
    BY <2>1, GoesTo DEF PlanningInv, Places, Fits
  <2>2. CASE job[p].passed /\ Go(p, "close", job[p])
    <3>1. Fits("close", job[p])
      BY <1>2, <2>2 DEF Fits
    <3> QED BY <2>2, <3>1, GoesTo DEF PlanningInv, Places
  <2> QED BY <1>3, <2>1, <2>2
<1> QED BY <1>1, <1>4, SameFiles DEF PlanningInv, Places, Behind

(* A phase that is closed is complete by its plans.                         *)
LEMMA CloseReadKeeps ==
  ASSUME PlanningInv, OneCommand, NEW p \in Procs, CloseRead(p)
  PROVE  PlanningInv'
<1> DEFINE n   == job[p].n
           new == [n |-> n, road |-> roadmap, status |-> "complete", listed |-> roadmap[n].listed]
<1>1. pc[p] = "close" /\ UNCHANGED <<roadmap, plans, crashes>>
  BY DEF CloseRead, files, bounds
<1>2. n \in DOMAIN roadmap /\ AllDone(n)
  BY <1>1 DEF Fits, PlanningInv, JobInv
<1>3. Go(p, "tracked", new)
  BY <1>2 DEF CloseRead
<1>4. roadmap[n].listed \subseteq PlanNumbers
  <2>1. roadmap[n] \in Phase
    BY <1>2, DirectoryOf DEF PlanningInv
  <2> QED BY <2>1 DEF Phase
<1>5. Fits("tracked", new)
  BY <1>2, <1>4 DEF Fits, BornOut
<1>6. pc'[p] = "tracked" /\ job'[p] = new /\ pc' = [pc EXCEPT ![p] = pc'[p]]
      /\ job' = [job EXCEPT ![p] = job'[p]]
  BY <1>3, GoesTo DEF PlanningInv, Places
<1> QED BY <1>1, <1>5, <1>6, SameFiles DEF PlanningInv, Places, Behind

(* A command that dies leaves the files as they are.                        *)
LEMMA CrashKeeps ==
  ASSUME PlanningInv, OneCommand, NEW p \in Procs, Crash(p)
  PROVE  PlanningInv'
<1>1. UNCHANGED <<roadmap, plans>> /\ crashes' = crashes + 1 /\ Go(p, "idle", Nothing)
      /\ crashes' # 0 /\ crashes' \in Nat
  BY DEF Crash, Die, Done, PlanningInv
<1>2. pc'[p] = "idle" /\ pc' = [pc EXCEPT ![p] = pc'[p]] /\ job' = [job EXCEPT ![p] = job'[p]]
  BY <1>1, GoesTo DEF PlanningInv, Places
<1>3. Fits(pc'[p], job'[p])
  BY <1>2 DEF Fits
<1> QED BY <1>1, <1>2, <1>3, SameFiles DEF Places

-----------------------------------------------------------------------------
(* Steps that write the roadmap.                                            *)

(* Rewriting the entry of a phase the command is behind on, by a status the *)
(* plans bear out, brings the roadmap up to the plans.                      *)
LEMMA SavePhase ==
  ASSUME PlanningInv, OneCommand, NEW p \in Procs, job[p].n \in DOMAIN roadmap,
         roadmap' = [roadmap EXCEPT ![job[p].n] = roadmap'[job[p].n]],
         roadmap'[job[p].n] \in Phase, roadmap'[job[p].n].title = roadmap[job[p].n].title,
         BornOut(job[p].n, roadmap'[job[p].n].status),
         plans' = plans, crashes' = crashes, pc[p] \in {"planned", "tracked"},
         pc'[p] \in {"state", "summarize"},
         pc' = [pc EXCEPT ![p] = pc'[p]], job' = [job EXCEPT ![p] = job'[p]],
         pc'[p] = "state" => Remaining(job'[p])
  PROVE  PlanningInv'
<1> USE DEF PlanningInv
<1> DEFINE n == job[p].n
<1>1. /\ roadmap \in Seq(Phase) /\ DOMAIN roadmap' = DOMAIN roadmap /\ Len(roadmap') = Len(roadmap)
      /\ roadmap' \in Seq(Phase)
      /\ \A m \in DOMAIN roadmap : roadmap'[m].title = roadmap[m].title
      /\ \A m \in DOMAIN roadmap : m # n => roadmap'[m] = roadmap[m]
  <2>1. roadmap \in Seq(Phase)
    BY DEF FilesInv
  <2>2. roadmap' \in Seq(Phase) /\ Len(roadmap') = Len(roadmap)
    BY <2>1, ExceptSeq
  <2> QED BY <2>1, <2>2
<1>2. \A d : Present(d)' = Present(d)
  BY DEF Present
<1>3. FilesInv'
  BY <1>1, <1>2 DEF FilesInv
<1>4. OnePhasePerCandidate'
  BY <1>1 DEF OnePhasePerCandidate
<1>5. JobInv'
  <2>1. pc'[p] = "state" => Remaining(job[p])'
    BY <1>1 DEF Remaining, JobInv
  <2>2. Fits(pc[p], job[p])'
    BY <2>1 DEF Fits, JobInv
  <2> QED BY <2>2, OnlyOne DEF Places
<1>6. \A m \in DOMAIN roadmap : Directory(roadmap', m) = Directory(roadmap, m)
  BY <1>1 DEF Directory
<1>7. AgreeInv'
  <2> SUFFICES ASSUME crashes = 0, NEW m \in DOMAIN roadmap
               PROVE  BornOut(m, roadmap[m].status)'
    BY <1>1 DEF AgreeInv
  <2>1. BornOut(m, roadmap'[m].status)
    <3>1. CASE m = n
      BY <1>1, <3>1
    <3>2. CASE m # n
      <4>1. \A q \in Procs : ~ Behind(m, pc[q], job[q])
        BY <3>2 DEF OneCommand, Behind
      <4> QED BY <1>1, <3>2, <4>1 DEF AgreeInv
    <3> QED BY <3>1, <3>2
  <2> QED BY <1>2, <1>6, <2>1 DEF BornOut, AllDone, SomeBlocked
<1>8. WholeInv'
  <2> SUFFICES ASSUME crashes = 0, NEW m \in DOMAIN roadmap
               PROVE  Present(Directory(roadmap, m))' \in {{}, 1 .. PlanCount(roadmap[m].title)'}
    BY <1>1 DEF WholeInv
  <2>1. Present(Directory(roadmap, m)) \in {{}, 1 .. PlanCount(roadmap[m].title)}
    BY DEF WholeInv, OneCommand
  <2> QED BY <1>1, <1>2, <1>6, <2>1 DEF PlanCount
<1>9. UntornInv'
  BY DEF UntornInv, Loadable
<1> QED BY <1>3, <1>4, <1>5, <1>7, <1>8, <1>9

(* The phase has been given its plans, and is planned.                      *)
LEMMA PlanSaveKeeps ==
  ASSUME PlanningInv, OneCommand, NEW p \in Procs, PlanSave(p)
  PROVE  PlanningInv'
<1> DEFINE j == job[p]
<1>1. pc[p] = "planned" /\ UNCHANGED <<plans, crashes>> /\ Go(p, "state", j)
      /\ roadmap' = [j.road EXCEPT ![j.n] =
                       [title |-> @.title, status |-> "planned", listed |-> 1 .. j.k]]
  BY DEF PlanSave, bounds
<1>2. Writing(j)
  BY <1>1 DEF Fits, PlanningInv, JobInv
<1>3. Remaining(j) /\ j.road = roadmap /\ j.n \in DOMAIN roadmap
      /\ j.k \in 1 .. PlanCount(roadmap[j.n].title)
  BY <1>2 DEF Writing
<1>4. 1 .. j.k \subseteq PlanNumbers
  BY <1>3, PlanCountBounds DEF PlanNumbers
<1>5. pc'[p] = "state" /\ job'[p] = j /\ pc' = [pc EXCEPT ![p] = pc'[p]]
      /\ job' = [job EXCEPT ![p] = job'[p]]
  BY <1>1, GoesTo DEF PlanningInv, Places
<1>6. BornOut(j.n, "planned")
  BY DEF BornOut
<1>7. /\ roadmap' = [roadmap EXCEPT ![j.n] = roadmap'[j.n]] /\ roadmap'[j.n] \in Phase
      /\ roadmap'[j.n].title = roadmap[j.n].title /\ roadmap'[j.n].status = "planned"
  <2>1. roadmap[j.n].title \in Titles
    BY <1>3, DirectoryOf DEF PlanningInv, Phase
  <2> QED BY <1>1, <1>3, <1>4, <2>1 DEF Phase
<1> QED BY <1>1, <1>3, <1>5, <1>6, <1>7, SavePhase

(* The phase is at the status the plans bear out.                           *)
LEMMA TrackSaveKeeps ==
  ASSUME PlanningInv, OneCommand, NEW p \in Procs, TrackSave(p)
  PROVE  PlanningInv'
<1> DEFINE j == job[p]
<1>1. pc[p] = "tracked" /\ UNCHANGED <<plans, crashes>> /\ Go(p, "summarize", j)
      /\ roadmap' = [j.road EXCEPT ![j.n] =
                       [title |-> @.title, status |-> j.status, listed |-> j.listed]]
  BY DEF TrackSave, bounds
<1>2. /\ j.road = roadmap /\ j.n \in DOMAIN roadmap /\ j.listed \subseteq PlanNumbers
      /\ j.status \in {"in_progress", "complete", "blocked"} /\ BornOut(j.n, j.status)
  BY <1>1 DEF Fits, PlanningInv, JobInv
<1>3. pc'[p] = "summarize" /\ pc' = [pc EXCEPT ![p] = pc'[p]]
      /\ job' = [job EXCEPT ![p] = job'[p]]
  BY <1>1, GoesTo DEF PlanningInv, Places
<1>4. /\ roadmap' = [roadmap EXCEPT ![j.n] = roadmap'[j.n]] /\ roadmap'[j.n] \in Phase
      /\ roadmap'[j.n].title = roadmap[j.n].title /\ roadmap'[j.n].status = j.status
  <2>1. roadmap[j.n].title \in Titles
    BY <1>2, DirectoryOf DEF PlanningInv, Phase
  <2> QED BY <1>1, <1>2, <2>1 DEF Phase
<1> QED BY <1>1, <1>2, <1>3, <1>4, SavePhase

(* The new phase is the last, has a directory of its own and no plans.      *)
LEMMA AddSaveKeeps ==
  ASSUME PlanningInv, OneCommand, NEW p \in Procs, AddSave(p)
  PROVE  PlanningInv'
<1> USE DEF PlanningInv
<1> DEFINE j    == job[p]
           last == Len(roadmap) + 1
           new  == Update(j, [n |-> last])
           item == [title |-> j.title, status |-> "planned", listed |-> {}]
<1>1. pc[p] = "append"
  BY DEF AddSave
<1>2. Adding(j) /\ "road" \in DOMAIN j /\ j.road = roadmap /\ Len(roadmap) < MaxPhases
  BY <1>1 DEF Fits, JobInv
<1>3. Remaining(j) /\ j.title \in Titles
  BY <1>2 DEF Adding
<1>4. UNCHANGED <<plans, crashes>> /\ roadmap' = Append(roadmap, item) /\ Go(p, "added", new)
  BY <1>2 DEF AddSave, bounds
<1>5. roadmap \in Seq(Phase) /\ item \in Phase
  BY <1>3 DEF FilesInv, Phase
<1>6. /\ roadmap' \in Seq(Phase) /\ Len(roadmap') = last /\ Len(roadmap) \in Nat
      /\ DOMAIN roadmap' = DOMAIN roadmap \cup {last} /\ last \notin DOMAIN roadmap
      /\ roadmap'[last] = item /\ \A m \in DOMAIN roadmap : roadmap'[m] = roadmap[m]
  <2>1. DOMAIN roadmap = 1 .. Len(roadmap) /\ Len(roadmap) \in Nat
    BY <1>5, LenProperties
  <2> QED BY <1>4, <1>5, <2>1, AppendProperties
<1>7. \A d : Present(d)' = Present(d)
  BY <1>4 DEF Present
<1>8. FilesInv'
  <2>1. Len(roadmap') <= MaxPhases
    BY <1>2, <1>6, PhasePlanningAssumption
  <2> QED BY <1>4, <1>6, <1>7, <2>1 DEF FilesInv
<1>9. OnePhasePerCandidate'
  <2>1. j.title # ByHand => \A m \in DOMAIN roadmap : roadmap[m].title # j.title
    BY <1>2 DEF Adding
  <2> QED BY <1>6, <2>1 DEF OnePhasePerCandidate
<1>10. /\ new.left = j.left /\ new.known = j.known /\ {"left", "known", "n"} \subseteq DOMAIN new
  <2>1. {"left", "known"} \subseteq DOMAIN j
    BY <1>3 DEF Remaining
  <2> HIDE DEF j, last
  <2> QED BY <2>1, UpdateN
<1>11. JobInv'
  <2>1. \A i \in DOMAIN j.left : j.left[i] # j.title
    <3>1. CASE j.title = ByHand
      BY <1>3, <3>1, ElementOfSeq, LenProperties DEF Remaining
    <3>2. CASE j.title # ByHand
      BY <1>2, <3>2 DEF Adding
    <3> QED BY <3>1, <3>2
  <2>2. \A i \in DOMAIN j.left, m \in DOMAIN roadmap' :
          roadmap'[m].title = j.left[i] => \E l \in DOMAIN j.known : j.known[l].title = j.left[i]
    BY <1>3, <1>6, <2>1 DEF Remaining
  <2>3. pc'[p] = "added" /\ job'[p] = new /\ pc' = [pc EXCEPT ![p] = pc'[p]]
        /\ job' = [job EXCEPT ![p] = job'[p]]
    BY <1>4, GoesTo DEF Places
  <2>4. Remaining(job[p])'
    <3> HIDE DEF new
    <3> QED BY <1>3, <1>10, <2>2, <2>3 DEF Remaining
  <2>5. "n" \in DOMAIN job'[p]
    <3> HIDE DEF new
    <3> QED BY <1>10, <2>3
  <2>6. Fits(pc[p], job[p])'
    BY <2>3, <2>4, <2>5 DEF Fits
  <2> QED BY <2>3, <2>6, OnlyOne DEF Places
<1>12. \A m \in DOMAIN roadmap : Directory(roadmap', m) = Directory(roadmap, m)
  BY <1>6 DEF Directory
<1>13. AgreeInv'
  <2> SUFFICES ASSUME crashes = 0, NEW m \in DOMAIN roadmap'
               PROVE  BornOut(m, roadmap[m].status)'
    BY <1>4 DEF AgreeInv
  <2>1. CASE m = last
    BY <1>6, <2>1 DEF BornOut
  <2>2. CASE m \in DOMAIN roadmap
    <3>1. \A q \in Procs : ~ Behind(m, pc[q], job[q])
      BY <1>1 DEF OneCommand, Behind
    <3>2. BornOut(m, roadmap[m].status)
      BY <2>2, <3>1 DEF AgreeInv
    <3> QED BY <1>4, <1>6, <1>7, <1>12, <2>2, <3>2 DEF BornOut, AllDone, SomeBlocked
  <2> QED BY <1>6, <2>1, <2>2
<1>14. WholeInv'
  <2> SUFFICES ASSUME crashes = 0, NEW m \in DOMAIN roadmap'
               PROVE  Present(Directory(roadmap, m))' \in {{}, 1 .. PlanCount(roadmap[m].title)'}
    BY <1>4 DEF WholeInv
  <2>1. CASE m = last
    <3>1. Directory(roadmap', last)[1] = last
      BY <1>6 DEF Directory
    <3>2. Directory(roadmap', last) \in Directories
      BY <1>6, <1>8, <2>1, DirectoryOf, PhasePlanningAssumption, <1>2, <1>3
         DEF Directory, Directories
    <3>3. Present(Directory(roadmap', last)) = {}
      BY <1>6, <3>1, <3>2 DEF FilesInv
    <3> QED BY <1>7, <2>1, <3>3
  <2>2. CASE m \in DOMAIN roadmap
    <3>1. Present(Directory(roadmap, m)) \in {{}, 1 .. PlanCount(roadmap[m].title)}
      BY <1>1, <2>2 DEF WholeInv, OneCommand
    <3> QED BY <1>6, <1>7, <1>12, <2>2, <3>1 DEF PlanCount
  <2> QED BY <1>6, <2>1, <2>2
<1>15. UntornInv'
  BY <1>4 DEF UntornInv, Loadable
<1> QED BY <1>4, <1>8, <1>9, <1>11, <1>13, <1>14, <1>15

-----------------------------------------------------------------------------
(* Steps that write a plan file.                                            *)

(* A plan file that is written disturbs no other plan and no other phase.   *)
LEMMA WritePlan ==
  ASSUME FilesInv, NEW n \in DOMAIN roadmap, NEW k \in PlanNumbers, NEW d,
         d = Directory(roadmap, n), roadmap' = roadmap,
         plans' = [plans EXCEPT ![d][k] = plans'[d][k]], plans'[d][k] \in FileStatuses \ {NoPlan}
  PROVE  /\ FilesInv'
         /\ Present(d)' = Present(d) \cup {k}
         /\ \A i \in PlanNumbers : i # k => plans'[d][i] = plans[d][i]
         /\ \A m \in DOMAIN roadmap : m # n =>
              /\ Present(Directory(roadmap, m))' = Present(Directory(roadmap, m))
              /\ \A status : BornOut(m, status) => BornOut(m, status)'
<1>1. d \in Directories /\ d[1] = n /\ d[2] = roadmap[n].title
  BY DirectoryOf
<1>2. plans'[d][k] # NoPlan
  OBVIOUS
<1>3. plans \in [Directories -> [PlanNumbers -> FileStatuses]]
  BY DEF FilesInv
<1>4. /\ plans' \in [Directories -> [PlanNumbers -> FileStatuses]]
      /\ \A c \in Directories : c # d => plans'[c] = plans[c]
      /\ \A i \in PlanNumbers : i # k => plans'[d][i] = plans[d][i]
  BY <1>1, <1>3
<1>5. Present(d)' = Present(d) \cup {k}
  BY <1>2, <1>4 DEF Present
<1>6. \A c \in Directories : c # d => Present(c)' = Present(c)
  BY <1>4 DEF Present
<1>7. FilesInv'
  <2>1. \A c \in Directories :
          Present(c)' # {} => c[1] \in DOMAIN roadmap /\ roadmap[c[1]].title = c[2]
    BY <1>1, <1>6 DEF FilesInv
  <2> QED BY <1>4, <2>1 DEF FilesInv
<1>8. ASSUME NEW m \in DOMAIN roadmap, m # n
      PROVE  /\ Present(Directory(roadmap, m))' = Present(Directory(roadmap, m))
             /\ \A status : BornOut(m, status) => BornOut(m, status)'
  <2>1. Directory(roadmap, m) \in Directories /\ Directory(roadmap, m) # d
    BY <1>1, <1>8, DirectoryOf
  <2>2. Present(Directory(roadmap, m))' = Present(Directory(roadmap, m))
        /\ plans'[Directory(roadmap, m)] = plans[Directory(roadmap, m)]
    BY <1>4, <1>6, <2>1
  <2> QED BY <2>2 DEF BornOut, AllDone, SomeBlocked
<1> QED BY <1>4, <1>5, <1>7, <1>8

(* The next plan of the phase is written, and none of its plans is lost.    *)
LEMMA PlanWriteKeeps ==
  ASSUME PlanningInv, OneCommand, NEW p \in Procs, PlanWrite(p)
  PROVE  PlanningInv' /\ plans[Directory(roadmap, job[p].n)][job[p].k] = NoPlan
         /\ plans' = [plans EXCEPT ![Directory(roadmap, job[p].n)][job[p].k] = "planned"]
<1> USE DEF PlanningInv
<1>0. PICK j, n, d, all : /\ j = job[p] /\ n = j.n /\ d = Directory(roadmap, n)
                          /\ all = PlanCount(roadmap[n].title)
  OBVIOUS
<1> DEFINE more == [j EXCEPT !.k = @ + 1]
<1>1. pc[p] = "write" /\ UNCHANGED <<roadmap, crashes>>
  BY DEF PlanWrite, bounds
<1>2. Writing(j) /\ Present(d) = 1 .. j.k - 1
  BY <1>0, <1>1 DEF Fits, JobInv
<1>3. /\ Remaining(j) /\ {"n", "road", "k"} \subseteq DOMAIN j /\ j.road = roadmap
      /\ n \in DOMAIN roadmap /\ j.k \in 1 .. all
  BY <1>0, <1>2 DEF Writing
<1>4. /\ plans' = [plans EXCEPT ![d][j.k] = "planned"]
      /\ IF j.k < all THEN Go(p, "write", more) ELSE Go(p, "planned", j)
  BY <1>0, <1>3 DEF PlanWrite
<1>5. all \in Nat /\ all \in PlanNumbers /\ j.k \in Nat /\ j.k \in PlanNumbers
  BY <1>0, <1>3, PlanCountBounds DEF PlanNumbers
<1>6. plans[d][j.k] = NoPlan
  BY <1>2, <1>5 DEF Present
<1>7. d \in Directories /\ plans'[d][j.k] = "planned"
      /\ plans' = [plans EXCEPT ![d][j.k] = plans'[d][j.k]]
  BY <1>0, <1>3, <1>4, <1>5, DirectoryOf DEF FilesInv
<1>8. /\ FilesInv' /\ Present(d)' = Present(d) \cup {j.k}
      /\ \A m \in DOMAIN roadmap : m # n =>
           /\ Present(Directory(roadmap, m))' = Present(Directory(roadmap, m))
           /\ \A status : BornOut(m, status) => BornOut(m, status)'
  <2>1. plans'[d][j.k] \in FileStatuses \ {NoPlan} /\ roadmap' = roadmap
    BY <1>1, <1>7, PhasePlanningAssumption DEF FileStatuses, PlanStatuses
  <2> QED BY <1>0, <1>3, <1>5, <1>7, <2>1, WritePlan
<1>9. Present(d)' = 1 .. j.k
  <2>1. j.k \in Nat /\ j.k >= 1 /\ Present(d) = 1 .. j.k - 1
    BY <1>0, <1>2, <1>3, <1>5
  <2> QED BY <1>8, <2>1
<1>10. OnePhasePerCandidate'
  BY <1>1 DEF OnePhasePerCandidate
<1>11. /\ pc'[p] \in {"write", "planned"} /\ job'[p].n = n
       /\ pc' = [pc EXCEPT ![p] = pc'[p]] /\ job' = [job EXCEPT ![p] = job'[p]]
       /\ Fits(pc[p], job[p])'
  <2>1. CASE j.k < all /\ Go(p, "write", more)
    <3>1. pc'[p] = "write" /\ job'[p] = more /\ pc' = [pc EXCEPT ![p] = pc'[p]]
          /\ job' = [job EXCEPT ![p] = job'[p]]
      BY <2>1, GoesTo DEF Places
    <3>2. /\ more.left = j.left /\ more.known = j.known /\ more.n = n /\ more.road = roadmap
          /\ more.k = j.k + 1 /\ DOMAIN more = DOMAIN j
      <4>1. {"left", "known", "n", "road", "k"} \subseteq DOMAIN j
        BY <1>3 DEF Remaining
      <4>2. more = [j EXCEPT !["k"] = j.k + 1]
        OBVIOUS
      <4> HIDE DEF more
      <4> QED BY <1>0, <1>3, <4>1, <4>2
    <3>3. more.k \in 1 .. all /\ more.k - 1 = j.k
      BY <1>5, <2>1, <3>2
    <3>4. {"left", "known"} \subseteq DOMAIN more /\ {"n", "road", "k"} \subseteq DOMAIN more
      BY <1>3, <3>2 DEF Remaining
    <3>5. Remaining(more)
      <4> HIDE DEF more
      <4> QED BY <1>3, <3>2, <3>4, RemainingSame
    <3>6. Writing(job[p])'
      <4> HIDE DEF more
      <4>1. Remaining(job[p])'
        BY <1>1, <3>1, <3>5 DEF Remaining
      <4> QED BY <1>0, <1>1, <1>3, <3>1, <3>2, <3>3, <3>4, <4>1 DEF Writing, PlanCount
    <3>7. Present(Directory(roadmap, job[p].n))' = 1 .. job'[p].k - 1
      <4> HIDE DEF more
      <4> QED BY <1>0, <1>1, <1>9, <3>1, <3>2, <3>3
    <3>8. Fits(pc[p], job[p])'
      BY <3>1, <3>6, <3>7 DEF Fits
    <3>9. job'[p].n = n
      <4> HIDE DEF more
      <4> QED BY <3>1, <3>2
    <3> QED BY <3>1, <3>8, <3>9
  <2>2. CASE ~ (j.k < all) /\ Go(p, "planned", j)
    <3>1. pc'[p] = "planned" /\ job'[p] = j /\ pc' = [pc EXCEPT ![p] = pc'[p]]
          /\ job' = [job EXCEPT ![p] = job'[p]]
      BY <2>2, GoesTo DEF Places
    <3>2. j.k = all
      BY <1>3, <1>5, <2>2
    <3>3. Writing(job[p])'
      BY <1>0, <1>1, <1>2, <3>1 DEF Writing, Remaining, PlanCount
    <3>4. Present(Directory(roadmap, job[p].n))' = 1 .. job'[p].k
      BY <1>0, <1>1, <1>9, <3>1
    <3>5. Fits(pc[p], job[p])'
      BY <1>0, <1>1, <3>1, <3>2, <3>3, <3>4 DEF Fits, PlanCount
    <3> QED BY <1>0, <3>1, <3>5
  <2> QED BY <1>4, <2>1, <2>2
<1>12. JobInv'
  BY <1>11, OnlyOne DEF Places
<1>13. AgreeInv'
  <2> SUFFICES ASSUME crashes = 0, NEW m \in DOMAIN roadmap, m # n
               PROVE  BornOut(m, roadmap[m].status)'
    BY <1>1, <1>11 DEF AgreeInv, Behind
  <2>1. BornOut(m, roadmap[m].status)
    BY <1>0 DEF AgreeInv, Behind, OneCommand
  <2> QED BY <1>1, <1>8, <2>1
<1>14. WholeInv'
  <2> SUFFICES ASSUME crashes = 0, NEW m \in DOMAIN roadmap, pc'[p] = "write" => m # n
               PROVE  Present(Directory(roadmap, m))' \in {{}, 1 .. PlanCount(roadmap[m].title)'}
    BY <1>1, <1>11 DEF WholeInv
  <2>1. CASE m = n
    <3>1. pc'[p] = "planned" /\ j.k = all
      BY <1>3, <1>4, <1>5, <1>11, <2>1, GoesTo DEF Places
    <3> QED BY <1>0, <1>1, <1>9, <2>1, <3>1 DEF PlanCount
  <2>2. CASE m # n
    BY <1>0, <1>1, <1>8, <2>2 DEF WholeInv, OneCommand, PlanCount
  <2> QED BY <2>1, <2>2
<1>15. UntornInv'
  BY <1>1, <1>4, <1>5, <1>7 DEF UntornInv, Loadable, FilesInv
<1> QED BY <1>0, <1>1, <1>4, <1>6, <1>8, <1>10, <1>12, <1>13, <1>14, <1>15

(* The next plan gets its new status, and the others keep theirs.           *)
LEMMA RewriteKeeps ==
  ASSUME PlanningInv, OneCommand, NEW p \in Procs, Rewrite(p)
  PROVE  PlanningInv' /\ \A d \in Directories, i \in PlanNumbers :
                           plans'[d][i] # plans[d][i] => plans'[d][i] \notin {"planned", NoPlan}
<1> USE DEF PlanningInv
<1>0. PICK j, n, d, k, rest :
        /\ j = job[p] /\ n = j.n /\ d = Directory(roadmap, n)
        /\ k = (CHOOSE i \in DOMAIN j.new : \A l \in DOMAIN j.new : i <= l)
        /\ rest = DOMAIN j.new \ {k}
  OBVIOUS
<1> DEFINE less == [j EXCEPT !.new = [i \in rest |-> j.new[i]]]
           last == [n |-> j.n]
<1>1. pc[p] = "rewrite" /\ UNCHANGED <<roadmap, crashes>>
  BY DEF Rewrite, bounds
<1>2. /\ n \in DOMAIN roadmap /\ j.d = d /\ DOMAIN j.new \subseteq Present(d) /\ DOMAIN j.new # {}
      /\ \A i \in DOMAIN j.new :
           j.new[i] = plans[d][i] \/ j.new[i] \in PlanStatuses \ {"planned"}
      /\ j.next \in {"track", "note"}
  BY <1>0, <1>1 DEF Fits, JobInv
<1>3. plans' = [plans EXCEPT ![d][k] = j.new[k]]
      /\ IF rest = {} THEN Go(p, j.next, last) ELSE Go(p, "rewrite", less)
  BY <1>0, <1>2 DEF Rewrite
<1>4. k \in DOMAIN j.new /\ k \in PlanNumbers /\ k \in Present(d)
  <2>1. DOMAIN j.new \in SUBSET Nat /\ DOMAIN j.new \subseteq PlanNumbers
    BY <1>2, PlanCountBounds DEF Present, PlanNumbers
  <2>2. \E i \in DOMAIN j.new : \A l \in DOMAIN j.new : i <= l
    BY <1>2, <2>1, LeastOf
  <2> QED BY <1>0, <1>2, <2>1, <2>2
<1>5. d \in Directories /\ plans \in [Directories -> [PlanNumbers -> FileStatuses]]
  BY <1>0, <1>2, DirectoryOf DEF FilesInv
<1>6. /\ plans'[d][k] = j.new[k] /\ plans' = [plans EXCEPT ![d][k] = plans'[d][k]]
      /\ \A c \in Directories, i \in PlanNumbers :
           ~ (c = d /\ i = k) => plans'[c][i] = plans[c][i]
  BY <1>3, <1>4, <1>5
<1>7. plans'[d][k] \in FileStatuses \ {NoPlan}
      /\ (plans'[d][k] # plans[d][k] => plans'[d][k] \notin {"planned", NoPlan, "torn"})
  <2>1. plans[d][k] \in FileStatuses /\ plans[d][k] # NoPlan
    BY <1>4, <1>5 DEF Present
  <2>2. NoPlan \notin PlanStatuses /\ "torn" \notin PlanStatuses
        /\ PlanStatuses \subseteq FileStatuses
    BY PhasePlanningAssumption DEF PlanStatuses, BatchStatuses, FileStatuses
  <2> QED BY <1>2, <1>4, <1>6, <2>1, <2>2
<1>8. /\ FilesInv' /\ Present(d)' = Present(d)
      /\ \A i \in PlanNumbers : i # k => plans'[d][i] = plans[d][i]
      /\ \A m \in DOMAIN roadmap : m # n =>
           /\ Present(Directory(roadmap, m))' = Present(Directory(roadmap, m))
           /\ \A status : BornOut(m, status) => BornOut(m, status)'
  <2>1. Present(d) \cup {k} = Present(d)
    BY <1>4
  <2>2. FilesInv /\ n \in DOMAIN roadmap /\ k \in PlanNumbers /\ d = Directory(roadmap, n)
    BY <1>0, <1>2, <1>4
  <2>3. roadmap' = roadmap
    BY <1>1
  <2>4. plans' = [plans EXCEPT ![d][k] = plans'[d][k]]
    BY <1>6
  <2>5. plans'[d][k] \in FileStatuses \ {NoPlan}
    BY <1>7
  <2>6. /\ FilesInv' /\ Present(d)' = Present(d) \cup {k}
        /\ \A i \in PlanNumbers : i # k => plans'[d][i] = plans[d][i]
        /\ \A m \in DOMAIN roadmap : m # n =>
             /\ Present(Directory(roadmap, m))' = Present(Directory(roadmap, m))
             /\ \A status : BornOut(m, status) => BornOut(m, status)'
    <3> HIDE DEF PlanningInv
    <3> QED BY ONLY <2>2, <2>3, <2>4, <2>5, WritePlan
  <2> QED BY <2>1, <2>6
<1>9. OnePhasePerCandidate'
  BY <1>1 DEF OnePhasePerCandidate
<1>10. /\ pc'[p] \in {"rewrite", "note", "track"} /\ job'[p].n = n
       /\ pc' = [pc EXCEPT ![p] = pc'[p]] /\ job' = [job EXCEPT ![p] = job'[p]]
       /\ Fits(pc[p], job[p])'
  <2>1. CASE rest = {}
    <3>1. /\ pc'[p] = j.next /\ job'[p] = last /\ pc' = [pc EXCEPT ![p] = pc'[p]]
          /\ job' = [job EXCEPT ![p] = job'[p]]
      BY <1>2, <1>3, <2>1, GoesTo DEF Places
    <3> QED BY <1>0, <1>1, <1>2, <3>1 DEF Fits
  <2>2. CASE rest # {}
    <3>1. pc'[p] = "rewrite" /\ job'[p] = less /\ pc' = [pc EXCEPT ![p] = pc'[p]]
          /\ job' = [job EXCEPT ![p] = job'[p]]
      BY <1>3, <2>2, GoesTo DEF Places
    <3>2. {"n", "d", "new", "next"} \subseteq DOMAIN j
      BY <1>0, <1>1 DEF Fits, JobInv
    <3>3. /\ less.n = n /\ less.d = d /\ less.next = j.next
          /\ less.new = [i \in rest |-> j.new[i]]
      BY <1>0, <1>2, <3>2
    <3>4. /\ job'[p].n = n /\ job'[p].d = d /\ job'[p].next = j.next
          /\ DOMAIN job'[p].new = rest /\ \A i \in rest : job'[p].new[i] = j.new[i]
      <4> HIDE DEF less
      <4> QED BY <3>1, <3>3
    <3>5. rest \subseteq Present(d) /\ rest \subseteq PlanNumbers
      BY <1>0, <1>2 DEF Present
    <3>6. \A i \in rest : j.new[i] = plans'[d][i] \/ j.new[i] \in PlanStatuses \ {"planned"}
      BY <1>0, <1>2, <1>8, <3>5
    <3>7. {"n", "d", "new", "next"} \subseteq DOMAIN job'[p]
      <4>1. DOMAIN less = DOMAIN j
        OBVIOUS
      <4> HIDE DEF less
      <4> QED BY <3>1, <3>2, <4>1
    <3>8. /\ job'[p].n \in DOMAIN roadmap' /\ job'[p].d = Directory(roadmap, job[p].n)'
          /\ DOMAIN job'[p].new \subseteq Present(job[p].d)' /\ DOMAIN job'[p].new # {}
          /\ job'[p].next \in {"track", "note"}
      <4>1. job'[p].n = n /\ job'[p].d = d /\ job'[p].next = j.next /\ DOMAIN job'[p].new = rest
        BY <3>4
      <4>2. roadmap' = roadmap
        BY <1>1
      <4> QED BY <1>0, <1>2, <1>8, <2>2, <3>5, <4>1, <4>2 DEF Directory
    <3>9. \A i \in DOMAIN job'[p].new :
            job'[p].new[i] = plans'[job'[p].d][i] \/ job'[p].new[i] \in PlanStatuses \ {"planned"}
      BY <3>4, <3>6
    <3>10. Fits(pc[p], job[p])'
      BY ONLY <3>1, <3>7, <3>8, <3>9 DEF Fits
    <3> QED BY <3>1, <3>4, <3>10
  <2> QED BY <2>1, <2>2
<1>11. JobInv'
  BY <1>10, OnlyOne DEF Places
<1>12. AgreeInv'
  <2> SUFFICES ASSUME crashes = 0, NEW m \in DOMAIN roadmap, m # n
               PROVE  BornOut(m, roadmap[m].status)'
    BY <1>1, <1>10 DEF AgreeInv, Behind
  <2>1. BornOut(m, roadmap[m].status)
    BY <1>0 DEF AgreeInv, Behind, OneCommand
  <2> QED BY <1>1, <1>8, <2>1
<1>13. WholeInv'
  <2> SUFFICES ASSUME crashes = 0, NEW m \in DOMAIN roadmap
               PROVE  Present(Directory(roadmap, m))' \in {{}, 1 .. PlanCount(roadmap[m].title)'}
    BY <1>1 DEF WholeInv
  <2>1. Present(Directory(roadmap, m)) \in {{}, 1 .. PlanCount(roadmap[m].title)}
    BY <1>1 DEF WholeInv, OneCommand
  <2> QED BY <1>0, <1>1, <1>8, <2>1 DEF PlanCount
<1>14. UntornInv'
  <2> SUFFICES ASSUME crashes = 0, NEW c \in Directories, NEW i \in PlanNumbers
               PROVE  plans'[c][i] # "torn"
    BY <1>1 DEF UntornInv, Loadable
  <2>1. plans[c][i] # "torn"
    BY DEF UntornInv, Loadable
  <2> QED BY <1>6, <1>7, <2>1
<1> QED BY <1>1, <1>6, <1>7, <1>8, <1>9, <1>11, <1>12, <1>13, <1>14

(* A torn plan is in place of the one that was being written, and no other  *)
(* file is touched.                                                         *)
LEMMA TearKeeps ==
  ASSUME PlanningInv, OneCommand, NEW p \in Procs, TearWrite(p) \/ TearRewrite(p)
  PROVE  PlanningInv' /\ \A d \in Directories, i \in PlanNumbers :
                           plans'[d][i] # plans[d][i] => plans'[d][i] \notin {"planned", NoPlan}
<1> USE DEF PlanningInv
<1>1. PICK n \in DOMAIN roadmap, k \in PlanNumbers : Tear(p, Directory(roadmap, n), k)
  <2>1. CASE TearWrite(p)
    <3>1. Writing(job[p])
      BY <2>1 DEF TearWrite, Fits, JobInv
    <3>2. job[p].n \in DOMAIN roadmap /\ job[p].k \in PlanNumbers
      <4>1. job[p].k \in 1 .. PlanCount(roadmap[job[p].n].title)
        BY <3>1 DEF Writing
      <4> QED BY <3>1, <4>1, PlanCountBounds DEF Writing, PlanNumbers
    <3> QED BY <2>1, <3>2 DEF TearWrite
  <2>2. CASE TearRewrite(p)
    <3>1. PICK k : k = CHOOSE i \in DOMAIN job[p].new : \A l \in DOMAIN job[p].new : i <= l
      OBVIOUS
    <3>2. /\ job[p].n \in DOMAIN roadmap /\ job[p].d = Directory(roadmap, job[p].n)
          /\ DOMAIN job[p].new \subseteq Present(job[p].d) /\ DOMAIN job[p].new # {}
      BY <2>2 DEF TearRewrite, Fits, JobInv
    <3>3. k \in PlanNumbers
      <4>1. DOMAIN job[p].new \in SUBSET Nat /\ DOMAIN job[p].new \subseteq PlanNumbers
        BY <3>2, PlanCountBounds DEF Present, PlanNumbers
      <4>2. \E i \in DOMAIN job[p].new : \A l \in DOMAIN job[p].new : i <= l
        BY <3>2, <4>1, LeastOf
      <4> QED BY <3>1, <4>1, <4>2
    <3> QED BY <2>2, <3>1, <3>2, <3>3 DEF TearRewrite
  <2> QED BY <2>1, <2>2
<1>2. PICK d : d = Directory(roadmap, n)
  OBVIOUS
<1>3. /\ plans' = [plans EXCEPT ![d][k] = "torn"] /\ roadmap' = roadmap
      /\ crashes' \in Nat /\ crashes' # 0 /\ Go(p, "idle", Nothing)
  BY <1>1, <1>2 DEF Tear, Die, Done
<1>4. /\ d \in Directories /\ plans'[d][k] = "torn"
      /\ plans' = [plans EXCEPT ![d][k] = plans'[d][k]]
      /\ \A c \in Directories, i \in PlanNumbers :
           ~ (c = d /\ i = k) => plans'[c][i] = plans[c][i]
  BY <1>1, <1>2, <1>3, DirectoryOf DEF FilesInv
<1>5. "torn" # NoPlan /\ "torn" \in FileStatuses \ {NoPlan}
  BY PhasePlanningAssumption DEF FileStatuses
<1>6. FilesInv'
  <2>1. plans'[d][k] \in FileStatuses \ {NoPlan}
    BY <1>4, <1>5
  <2>2. plans' = [plans EXCEPT ![d][k] = plans'[d][k]]
    BY <1>4
  <2> HIDE DEF PlanningInv
  <2>3. FilesInv
    BY DEF PlanningInv
  <2> QED BY ONLY <1>2, <1>3, <2>1, <2>2, <2>3, n \in DOMAIN roadmap, k \in PlanNumbers, WritePlan
<1>7. OnePhasePerCandidate'
  BY <1>3 DEF OnePhasePerCandidate
<1>8. JobInv'
  <2>1. pc'[p] = "idle" /\ pc' = [pc EXCEPT ![p] = pc'[p]] /\ job' = [job EXCEPT ![p] = job'[p]]
    BY <1>3, GoesTo DEF Places
  <2>2. Fits(pc[p], job[p])'
    BY <2>1 DEF Fits
  <2> QED BY <2>1, <2>2, OnlyOne DEF Places
<1>9. AgreeInv' /\ WholeInv' /\ UntornInv'
  BY <1>3 DEF AgreeInv, WholeInv, UntornInv
<1> QED BY <1>3, <1>4, <1>5, <1>6, <1>7, <1>8, <1>9

-----------------------------------------------------------------------------
(* Every step keeps the invariant.                                          *)
LEMMA StepPlanning == PlanningInv /\ OneCommand /\ [Next]_vars => PlanningInv'
<1> SUFFICES ASSUME PlanningInv, OneCommand, [Next]_vars PROVE PlanningInv'
  OBVIOUS
<1>1. ASSUME NEW p \in Procs, Begin(p) PROVE PlanningInv'
  BY <1>1, AutoPlanKeeps, AddByHandKeeps, PlanByHandKeeps, RecordBatchKeeps, UpdatePhaseKeeps,
     VerifyPhaseKeeps DEF Begin
<1>2. ASSUME NEW p \in Procs, Step(p) PROVE PlanningInv'
  BY <1>2, CandidateKeeps, AddReadKeeps, AddSaveKeeps, AddStateKeeps, PlanReadKeeps,
     PlanWriteKeeps, PlanSaveKeeps, PlanStateKeeps, RewriteKeeps, NoteKeeps, TrackReadKeeps,
     TrackSaveKeeps, TrackStateKeeps, VerifiedKeeps, CloseReadKeeps DEF Step
<1>3. ASSUME NEW p \in Procs, Crash(p) \/ TearWrite(p) \/ TearRewrite(p) PROVE PlanningInv'
  BY <1>3, CrashKeeps, TearKeeps
<1>4. CASE UNCHANGED vars
  BY <1>4 DEF vars, PlanningInv, FilesInv, OnePhasePerCandidate, JobInv, AgreeInv, WholeInv, Fits,
     Remaining, Adding, Writing, BornOut, AllDone, SomeBlocked, Present, UntornInv, Loadable
<1> QED BY <1>1, <1>2, <1>3, <1>4 DEF Next

(* What each command has read stays true of the files until it writes, and  *)
(* the files stay whole, however many commands died before.                 *)
THEOREM PlanningHolds == OneCommand => (Spec => []PlanningInv)
<1> SUFFICES ASSUME OneCommand PROVE Spec => []PlanningInv
  OBVIOUS
<1>1. PlanningInv /\ [Next]_vars => PlanningInv'
  BY StepPlanning
<1> QED BY InitPlanning, <1>1, PTL DEF Spec

(* For every list of candidates: plan auto adds each of them once, and the  *)
(* status of a phase is that of its plans as long as no command has died.   *)
THEOREM RoadmapSound == OneCommand => (Spec => []RoadmapIsSound)
<1> SUFFICES ASSUME OneCommand PROVE Spec => []RoadmapIsSound
  OBVIOUS
<1>1. PlanningInv => RoadmapIsSound
  <2> SUFFICES ASSUME PlanningInv PROVE RoadmapAgreesWithPlans
    BY DEF PlanningInv, RoadmapIsSound
  <2>1. ASSUME Quiet, crashes = 0, NEW n \in DOMAIN roadmap PROVE BornOut(n, roadmap[n].status)
    BY <2>1 DEF PlanningInv, AgreeInv, Quiet, Behind
  <2> QED BY <2>1 DEF RoadmapAgreesWithPlans, BornOut, AllDone, SomeBlocked
<1> QED BY <1>1, PlanningHolds, PTL

(* For every slices without a cycle: as long as no command has died, work   *)
(* that is left and not blocked can be dispatched.  The slices of the plans *)
(* that are not done have one that needs none of them.                      *)
THEOREM SomePlanReady == OneCommand => (Spec => []SomePlanIsReadyUndisturbed)
<1> SUFFICES ASSUME OneCommand PROVE Spec => []SomePlanIsReadyUndisturbed
  OBVIOUS
<1>1. PlanningInv => SomePlanIsReadyUndisturbed
  <2> SUFFICES ASSUME PlanningInv, crashes = 0, Quiet, NEW n \in DOMAIN roadmap,
                      NEW d, d = Directory(roadmap, n),
                      ~ \A k \in Present(d) : plans[d][k] \in DoneStatuses,
                      ~ \E k \in Present(d) : plans[d][k] = "blocked"
               PROVE  \E k \in Present(d) : Ready(d, k)
    BY DEF SomePlanIsReadyUndisturbed, GoesOn
  <2> DEFINE undone == {k \in Present(d) : plans[d][k] \notin DoneStatuses}
  <2>1. FilesInv /\ d \in Directories /\ d[2] = roadmap[n].title /\ Present(d) \subseteq PlanNumbers
    BY DirectoryOf DEF PlanningInv
  <2>2. \A k \in undone : plans[d][k] \in {"planned", "in_progress"}
    <3>1. \A k \in undone : plans[d][k] \in PlanStatuses
      BY <2>1 DEF FilesInv, FileStatuses, Present, PlanningInv, UntornInv, Loadable
    <3> QED BY <3>1 DEF PlanStatuses, BatchStatuses, DoneStatuses
  <2>3. CASE d[2] # ByHand
    BY <2>2, <2>3 DEF Ready
  <2>4. CASE d[2] = ByHand
    <3>1. Present(d) = PlanNumbers
      <4>1. Present(d) \in {{}, 1 .. PlanCount(d[2])}
        BY <2>1 DEF PlanningInv, WholeInv, Quiet
      <4> QED BY <2>4, <4>1 DEF PlanCount, PlanNumbers
    <3>2. DOMAIN Slices = PlanNumbers /\ \A k \in PlanNumbers : Slices[k] \subseteq PlanNumbers
      <4>1. Slices \in Seq(SUBSET PlanNumbers)
        BY PhasePlanningAssumption DEF PlanNumbers
      <4> QED BY <4>1, LenProperties, ElementOfSeq DEF PlanNumbers
    <3>3. PICK k \in undone : Slices[k] \cap undone = {}
      <4>1. undone \in SUBSET DOMAIN Slices /\ undone # {}
        BY <3>1, <3>2
      <4> HIDE DEF undone
      <4> QED BY <4>1, PhasePlanningAssumption
    <3>4. \A dep \in Slices[k] : plans[d][dep] \in DoneStatuses
      BY <3>1, <3>2, <3>3
    <3> QED BY <2>2, <3>3, <3>4 DEF Ready
  <2> QED BY <2>3, <2>4
<1> QED BY <1>1, PlanningHolds, PTL

(* For every list of candidates and all slices: no command takes the result *)
(* of a plan away by planning it again.                                     *)
THEOREM PlansPreserved == OneCommand => (Spec => PlansArePreserved)
<1> SUFFICES ASSUME OneCommand PROVE Spec => PlansArePreserved
  OBVIOUS
<1>1. ASSUME PlanningInv, [Next]_vars, NEW d \in Directories, NEW k \in PlanNumbers,
             plans[d][k] # NoPlan, plans'[d][k] # plans[d][k]
      PROVE  plans'[d][k] \notin {"planned", NoPlan}
  <2>1. CASE \E p \in Procs : PlanWrite(p)
    <3>1. PICK p \in Procs : PlanWrite(p)
      BY <2>1
    <3>2. PICK c, i : c = Directory(roadmap, job[p].n) /\ i = job[p].k
      OBVIOUS
    <3>3. plans[c][i] = NoPlan /\ plans' = [plans EXCEPT ![c][i] = "planned"]
      BY <1>1, <3>1, <3>2, PlanWriteKeeps
    <3>4. plans \in [Directories -> [PlanNumbers -> FileStatuses]]
      BY <1>1 DEF PlanningInv, FilesInv
    <3> QED BY <1>1, <3>3, <3>4
  <2>2. CASE \E p \in Procs : Rewrite(p)
    BY <1>1, <2>2, RewriteKeeps
  <2>3. CASE plans' = plans \/ \E p \in Procs : TearWrite(p) \/ TearRewrite(p)
    BY <1>1, <2>3, TearKeeps
  <2>4. \/ \E p \in Procs : PlanWrite(p) \/ Rewrite(p) \/ TearWrite(p) \/ TearRewrite(p)
        \/ plans' = plans
    <3>1. ASSUME NEW p \in Procs, Begin(p) \/ Crash(p) PROVE plans' = plans
      BY <3>1 DEF Begin, AutoPlan, AddByHand, PlanByHand, RecordBatch, UpdatePhase, VerifyPhase,
         Crash, files
    <3>2. ASSUME NEW p \in Procs, Step(p) PROVE PlanWrite(p) \/ Rewrite(p) \/ plans' = plans
      BY <3>2 DEF Step, Candidate, AddRead, AddSave, AddState, PlanRead, PlanSave, PlanState, Note,
         TrackRead, TrackSave, TrackState, Verified, CloseRead, files
    <3> QED BY <1>1, <3>1, <3>2 DEF Next, vars
  <2> QED BY <2>1, <2>2, <2>3, <2>4
<1>2. PlanningInv /\ [Next]_vars =>
        [\A d \in Directories, k \in PlanNumbers :
           (plans[d][k] # NoPlan /\ plans'[d][k] # plans[d][k]) =>
             plans'[d][k] \notin {"planned", NoPlan}]_vars
  BY <1>1
<1> QED BY <1>2, PlanningHolds, PTL DEF Spec, PlansArePreserved
=============================================================================
