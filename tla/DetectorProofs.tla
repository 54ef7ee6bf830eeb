--------------------------- MODULE DetectorProofs ----------------------------
(***************************************************************************)
(* Proofs about the detector refresh, which publishes one generation of a  *)
(* fleet's detection while machines, workers and commands die and restart, *)
(* about the learning from a fleet's bugs that promotes detectors, about   *)
(* the reviews a release of skills needs, and about the documents by which *)
(* a repository adopts gates.  They hold for all fleets, days, outputs and *)
(* bounds; the parts share the variables a, ..., j; MCParts says what each *)
(* stands for.                                                             *)
(***************************************************************************)
EXTENDS MCParts, FiniteSetTheorems, NaturalsInduction, WellFoundedInduction, TLAPS

-----------------------------------------------------------------------------
(* DetectorRefresh.                                                         *)

(* The lowest of some numbers is one of them.                               *)
LEMMA LowestIsOne ==
  ASSUME NEW X \in SUBSET Nat, X # {}
  PROVE  D!Lowest(X) \in X
<1> DEFINE Z == {ss \in Nat \X Nat : ss[1] < ss[2]}
<1>1. IsWellFoundedOn(Z, Nat)
  BY NatLessThanWellFounded DEF OpToRel
<1>2. PICK m \in X : \A n \in X : ~ (<<n, m>> \in Z)
  <2> HIDE DEF Z
  <2> QED BY <1>1, WFMin
<1>3. ASSUME NEW n \in X PROVE m <= n
  <2>1. n \in Nat /\ m \in Nat
    OBVIOUS
  <2>2. n < m => <<n, m>> \in Z
    BY <2>1
  <2> QED BY <1>2, <2>1, <2>2
<1> QED BY <1>3 DEF D!Lowest

LEMMA CardinalityOfPhases == ASSUME NEW X PROVE D!Cardinality(X) = Cardinality(X)
BY DEF D!Cardinality, Cardinality

(* Which phase follows those that are published, and which was the last.    *)
LEMMA PhasesInOrder ==
  ASSUME NEW job, job.published \in {{}, {"inspect"}, {"inspect", "run"}, D!PhaseNames}
  PROVE  /\ job.published = {} => D!NextPhase(job) = "inspect"
         /\ job.published = {"inspect"} =>
              D!NextPhase(job) = "run" /\ D!Phases[D!Cardinality(job.published)] = "inspect"
         /\ job.published = {"inspect", "run"} =>
              D!NextPhase(job) = "verify" /\ D!Phases[D!Cardinality(job.published)] = "run"
         /\ job.published = D!PhaseNames => D!Phases[D!Cardinality(job.published)] = "verify"
<1>1. Cardinality({}) = 0 /\ IsFiniteSet({})
  BY FS_EmptySet
<1>2. Cardinality({"inspect"}) = 1 /\ IsFiniteSet({"inspect"})
  <2>1. {} \cup {"inspect"} = {"inspect"} /\ "inspect" \notin {}
    OBVIOUS
  <2> QED BY <1>1, <2>1, FS_AddElement
<1>3. Cardinality({"inspect", "run"}) = 2 /\ IsFiniteSet({"inspect", "run"})
  <2>1. {"inspect"} \cup {"run"} = {"inspect", "run"} /\ "run" \notin {"inspect"}
    OBVIOUS
  <2> QED BY <1>2, <2>1, FS_AddElement
<1>4. Cardinality(D!PhaseNames) = 3
  <2>1. {"inspect", "run"} \cup {"verify"} = D!PhaseNames /\ "verify" \notin {"inspect", "run"}
    BY DEF D!PhaseNames
  <2> QED BY <1>3, <2>1, FS_AddElement
<1>5. D!Phases[1] = "inspect" /\ D!Phases[2] = "run" /\ D!Phases[3] = "verify"
  BY DEF D!Phases
<1> QED BY <1>1, <1>2, <1>3, <1>4, <1>5, CardinalityOfPhases DEF D!NextPhase

(* What a process has put is there, first the inspection.                   *)
LEMMA OwnedIsThere ==
  ASSUME D!PublishingInv, NEW q \in Workers, D!Busy(q)
  PROVE  /\ D!Lowest(g[q].left) \in FleetRepos /\ g[q].day \in RefreshDays
         /\ D!Owned(q) \subseteq D!PhaseNames
         /\ D!Owned(q) # {} => "inspect" \in D!Owned(q)
         /\ \A n \in D!Owned(q) : c[<<D!Lowest(g[q].left), g[q].day, n>>] # D!Vacant
<1>1. D!InHand(q)
  BY DEF D!PublishingInv
<1>2. /\ g[q].left \subseteq FleetRepos /\ g[q].left # {} /\ g[q].day \in RefreshDays
      /\ g[q].published \in {{}, {"inspect"}, {"inspect", "run"}, D!PhaseNames}
  BY <1>1 DEF D!InHand, D!Busy
<1>3. D!Lowest(g[q].left) \in FleetRepos
  BY <1>2, LowestIsOne, FleetAssumption
<1>4. D!Owned(q) \subseteq D!PhaseNames /\ (D!Owned(q) # {} => "inspect" \in D!Owned(q))
  <2>1. f[q] = "fill" => g[q].published # D!PhaseNames
    BY <1>1 DEF D!InHand
  <2> QED BY <1>2, <2>1, PhasesInOrder DEF D!Owned, D!PhaseNames
<1>5. ASSUME NEW head, NEW state \in {"whole", "partial", "copied"}
      PROVE  [head |-> head, state |-> state] # D!Vacant
  BY <1>5 DEF D!Vacant
<1>6. ASSUME NEW n \in D!Owned(q) PROVE c[D!Run(g[q], n)] # D!Vacant
  <2>1. n \in g[q].published \/ (f[q] = "fill" /\ n = D!NextPhase(g[q]))
    BY <1>6 DEF D!Owned
  <2>2. CASE f[q] = "undo"
    BY <1>1, <2>1, <2>2 DEF D!InHand
  <2>3. CASE f[q] # "undo"
    <3>1. PICK job : job = g[q]
      OBVIOUS
    <3>2. \E state \in {"whole", "partial", "copied"} :
            c[D!Run(job, n)] = [head |-> job.target.head, state |-> state]
      BY <1>1, <2>1, <2>3, <3>1 DEF D!InHand, D!Busy
    <3> QED BY <1>5, <3>1, <3>2
  <2> QED BY <2>2, <2>3
<1> QED BY <1>2, <1>3, <1>4, <1>6 DEF D!Run

(* A process that changes runs only where it put them, or where there was   *)
(* nothing, and that owns something new only after finding nothing.         *)
Careful(p) ==
  /\ \A r \in FleetRepos, day \in RefreshDays, n \in D!PhaseNames :
       \/ c'[<<r, day, n>>] = c[<<r, day, n>>]
       \/ /\ D!Busy(p) /\ D!At(p) = <<r, day>>
          /\ n \in D!Owned(p) \/ c[<<r, day, n>>] = D!Vacant
  /\ \/ D!Owned(p)' = {}
     \/ /\ D!Busy(p) /\ D!At(p)' = D!At(p)
        /\ \/ D!Owned(p) # {}
           \/ c[<<D!Lowest(g[p].left), g[p].day, "inspect">>] = D!Vacant

(* It leaves to all others what is theirs.                                  *)
LEMMA OthersKeepTheirs ==
  ASSUME D!PublishingInv, NEW p \in Workers, NEW phase, NEW job, D!Go(p, phase, job), Careful(p)
  PROVE  /\ \A r \in FleetRepos, day \in RefreshDays :
              \A head : D!Settled(r, day, head) => D!Settled(r, day, head)'
         /\ \A q \in Workers : q # p => D!InHand(q)'
         /\ D!Exclusive'
         /\ \A r \in FleetRepos, day \in RefreshDays :
              /\ D!Clean(r, day)
              /\ D!Busy(p) /\ D!At(p) = <<r, day>> =>
                   D!Owned(p) = {} /\ \A n \in D!PhaseNames : c'[<<r, day, n>>] = c[<<r, day, n>>]
              => D!Clean(r, day)'
         /\ \A day \in RefreshDays : \A rows : D!RowsHold(rows, day) => D!RowsHold(rows, day)'
<1> USE DEF Careful
<1>1. /\ DOMAIN f = Workers /\ DOMAIN g = Workers
      /\ \A q \in Workers : D!InHand(q)
      /\ D!Exclusive
  BY DEF D!PublishingInv
<1>2. /\ f'[p] = phase /\ g'[p] = job
      /\ \A q \in Workers : q # p => f'[q] = f[q] /\ g'[q] = g[q]
  BY <1>1 DEF D!Go
<1>3. \A q \in Workers : q # p =>
        /\ D!Busy(q)' = D!Busy(q) /\ D!At(q)' = D!At(q) /\ D!Owned(q)' = D!Owned(q)
  BY <1>2 DEF D!Busy, D!At, D!Owned, D!NextPhase
<1>4. ASSUME NEW r \in FleetRepos, NEW day \in RefreshDays, NEW head, D!Settled(r, day, head)
      PROVE  D!Settled(r, day, head)'
  <2>1. \A n \in D!PhaseNames : c[<<r, day, n>>] = [head |-> head, state |-> "whole"]
    BY <1>4 DEF D!Settled, D!Whole
  <2>2. [head |-> head, state |-> "whole"] # D!Vacant
    BY DEF D!Vacant
  <2>3. D!Busy(p) /\ D!At(p) = <<r, day>> => D!Owned(p) = {}
    BY <1>4 DEF D!Settled, D!Unowned
  <2>4. \A n \in D!PhaseNames : c'[<<r, day, n>>] = c[<<r, day, n>>]
    BY <2>1, <2>2, <2>3
  <2>5. D!Whole(r, day, head)'
    BY <2>1, <2>4 DEF D!Whole
  <2>6. (D!Busy(p) /\ D!At(p) = <<r, day>>)' => D!Owned(p)' = {}
    <3> SUFFICES ASSUME D!Owned(p)' # {}, D!At(p)' = <<r, day>> PROVE FALSE
      OBVIOUS
    <3>1. D!Busy(p) /\ D!At(p) = <<r, day>>
      OBVIOUS
    <3>2. c[<<D!Lowest(g[p].left), g[p].day, "inspect">>] = D!Vacant
      BY <2>3, <3>1
    <3>3. D!Lowest(g[p].left) = r /\ g[p].day = day
      BY <3>1 DEF D!At
    <3> QED BY <2>1, <2>2, <3>2, <3>3 DEF D!PhaseNames
  <2>7. \A q \in Workers : q # p => ((D!Busy(q) /\ D!At(q) = <<r, day>>)' => D!Owned(q)' = {})
    BY <1>3, <1>4 DEF D!Settled, D!Unowned
  <2> QED BY <2>5, <2>6, <2>7 DEF D!Settled, D!Unowned
<1>5. ASSUME NEW q \in Workers, q # p, D!Busy(q), NEW n \in D!Owned(q)
      PROVE  c'[D!Run(g[q], n)] = c[D!Run(g[q], n)]
  <2>1. /\ D!Lowest(g[q].left) \in FleetRepos /\ g[q].day \in RefreshDays /\ n \in D!PhaseNames
        /\ c[<<D!Lowest(g[q].left), g[q].day, n>>] # D!Vacant
    BY <1>5, OwnedIsThere
  <2>2. D!Busy(p) /\ D!At(p) = <<D!Lowest(g[q].left), g[q].day>> => D!Owned(p) = {}
    BY <1>1, <1>5 DEF D!Exclusive, D!At
  <2> QED BY <2>1, <2>2 DEF D!Run
<1>6. ASSUME NEW q \in Workers, q # p PROVE D!InHand(q)'
  <2>1. PICK own : own = g[q]
    OBVIOUS
  <2>2. g'[q] = own /\ f'[q] = f[q]
    BY <1>2, <1>6, <2>1
  <2>3. f[q] # "idle" => D!RowsHold(own.rows, own.day)'
    <3> SUFFICES ASSUME f[q] # "idle" PROVE D!RowsHold(own.rows, own.day)'
      OBVIOUS
    <3>1. D!RowsHold(own.rows, own.day) /\ own.day \in RefreshDays
      BY <1>1, <2>1 DEF D!InHand
    <3> QED BY <1>4, <3>1 DEF D!RowsHold
  <2>4. f[q] = "close" /\ own.status = "published" =>
          D!Settled(D!Lowest(own.left), own.day, own.target.head)'
    <3> SUFFICES ASSUME f[q] = "close", own.status = "published"
                 PROVE  D!Settled(D!Lowest(own.left), own.day, own.target.head)'
      OBVIOUS
    <3>1. own.left \subseteq FleetRepos /\ own.left # {} /\ own.day \in RefreshDays
      BY <1>1, <2>1 DEF D!InHand
    <3>2. D!Lowest(own.left) \in FleetRepos
      BY <3>1, LowestIsOne, FleetAssumption
    <3>3. D!Settled(D!Lowest(own.left), own.day, own.target.head)
      BY <1>1, <2>1 DEF D!InHand
    <3> QED BY <1>4, <3>1, <3>2, <3>3
  <2>5. D!Busy(q) => \A n \in own.published : c'[D!Run(own, n)] = c[D!Run(own, n)]
    BY <1>5, <1>6, <2>1 DEF D!Owned
  <2>6. f[q] = "fill" => c'[D!Run(own, D!NextPhase(own))] = c[D!Run(own, D!NextPhase(own))]
    <3> SUFFICES ASSUME f[q] = "fill"
                 PROVE  c'[D!Run(own, D!NextPhase(own))] = c[D!Run(own, D!NextPhase(own))]
      OBVIOUS
    <3>1. D!Busy(q) /\ D!NextPhase(own) \in D!Owned(q)
      BY <2>1 DEF D!Busy, D!Owned
    <3> QED BY <1>5, <1>6, <2>1, <3>1
  <2>7. f[q] = "rewrite" => D!Phases[D!Cardinality(own.published)] \in own.published
    <3> SUFFICES ASSUME f[q] = "rewrite"
                 PROVE  D!Phases[D!Cardinality(own.published)] \in own.published
      OBVIOUS
    <3>1. own.published \in {{}, {"inspect"}, {"inspect", "run"}, D!PhaseNames} /\ own.published # {}
      BY <1>1, <2>1 DEF D!InHand, D!Busy
    <3> QED BY <3>1, PhasesInOrder DEF D!PhaseNames
  <2>8. /\ D!NextPhase(own)' = D!NextPhase(own)
        /\ \A n : D!Run(own, n)' = D!Run(own, n)
        /\ D!Busy(q)' = D!Busy(q)
    BY <2>2 DEF D!NextPhase, D!Run, D!Busy
  <2>9. D!InHand(q)
    BY <1>1
  <2> QED BY <2>1, <2>2, <2>3, <2>4, <2>5, <2>6, <2>7, <2>8, <2>9 DEF D!InHand, D!Busy
<1>7. D!Exclusive'
  <2>1. ASSUME NEW q \in Workers, q # p, D!Busy(q), D!Busy(p)', D!At(p)' = D!At(q), D!Owned(q) # {},
               D!Owned(p)' # {}
        PROVE  FALSE
    <3>1. D!Busy(p) /\ D!At(p) = D!At(q)
      BY <2>1
    <3>2. D!Owned(p) = {}
      BY <1>1, <2>1, <3>1 DEF D!Exclusive
    <3>3. c[<<D!Lowest(g[p].left), g[p].day, "inspect">>] = D!Vacant
      BY <2>1, <3>2
    <3>4. D!Lowest(g[p].left) = D!Lowest(g[q].left) /\ g[p].day = g[q].day
      BY <3>1 DEF D!At
    <3> QED BY <2>1, <3>3, <3>4, OwnedIsThere
  <2>2. ASSUME NEW x \in Workers, NEW q \in Workers, x # q, (D!Busy(x) /\ D!Busy(q))', D!At(x)' = D!At(q)'
        PROVE  D!Owned(x)' = {} \/ D!Owned(q)' = {}
    <3>1. CASE x = p
      BY <1>3, <2>1, <2>2, <3>1
    <3>2. CASE q = p
      BY <1>3, <2>1, <2>2, <3>2
    <3>3. CASE x # p /\ q # p
      BY <1>1, <1>3, <2>2, <3>3 DEF D!Exclusive
    <3> QED BY <3>1, <3>2, <3>3
  <2> QED BY <2>2 DEF D!Exclusive
<1>8. ASSUME NEW r \in FleetRepos, NEW day \in RefreshDays, D!Clean(r, day),
             D!Busy(p) /\ D!At(p) = <<r, day>> =>
               D!Owned(p) = {} /\ \A n \in D!PhaseNames : c'[<<r, day, n>>] = c[<<r, day, n>>]
      PROVE  D!Clean(r, day)'
  <2>1. \A n \in D!PhaseNames : c'[<<r, day, n>>] = c[<<r, day, n>>]
    BY <1>8
  <2>2. CASE \A n \in D!PhaseNames : c[<<r, day, n>>] = D!Vacant
    BY <2>1, <2>2 DEF D!Clean, D!Vacant
  <2>3. CASE \E head \in {c[<<r, day, "inspect">>].head} : D!Settled(r, day, head)
    <3>1. PICK head : head = c[<<r, day, "inspect">>].head /\ D!Settled(r, day, head)
      BY <2>3
    <3>2. D!Settled(r, day, head)' /\ head = c'[<<r, day, "inspect">>].head
      BY <1>4, <2>1, <3>1 DEF D!PhaseNames
    <3> QED BY <3>2 DEF D!Clean
  <2>4. ASSUME NEW q \in Workers, D!Busy(q), D!At(q) = <<r, day>>, D!Owned(q) # {},
               \A n \in D!PhaseNames \ D!Owned(q) : c[<<r, day, n>>] = D!Vacant
        PROVE  D!Clean(r, day)'
    <3>1. q # p
      BY <1>8, <2>4
    <3>2. D!Busy(q)' /\ D!At(q)' = <<r, day>> /\ D!Owned(q)' = D!Owned(q)
      BY <1>3, <2>4, <3>1
    <3>3. \A n \in D!PhaseNames \ D!Owned(q)' : c'[<<r, day, n>>] = D!Vacant
      BY <2>1, <2>4, <3>2
    <3> QED BY <2>4, <3>2, <3>3 DEF D!Clean, D!Vacant
  <2> QED BY <1>8, <2>2, <2>3, <2>4 DEF D!Clean
<1>9. ASSUME NEW day \in RefreshDays, NEW rows, D!RowsHold(rows, day) PROVE D!RowsHold(rows, day)'
  BY <1>4, <1>9 DEF D!RowsHold
<1> QED BY <1>4, <1>6, <1>7, <1>8, <1>9

(* Where something is a process's, the rest of the set is not there.        *)
LEMMA OwnerAlone ==
  ASSUME D!PublishingInv, NEW p \in Workers, D!Busy(p), D!Owned(p) # {}, D!At(p) \notin e
  PROVE  \A n \in D!PhaseNames \ D!Owned(p) :
           c[<<D!Lowest(g[p].left), g[p].day, n>>] = D!Vacant
<1> DEFINE r == D!Lowest(g[p].left)
           day == g[p].day
<1>1. r \in FleetRepos /\ day \in RefreshDays /\ D!At(p) = <<r, day>>
  BY OwnedIsThere DEF D!At
<1>2. D!Clean(r, day)
  BY <1>1 DEF D!PublishingInv
<1>3. PICK n \in D!Owned(p) : n \in D!PhaseNames /\ c[<<r, day, n>>] # D!Vacant
  BY OwnedIsThere
<1> HIDE DEF r, day
<1>4. ~ \A m \in D!PhaseNames : c[<<r, day, m>>] = D!Vacant
  BY <1>3
<1>5. ASSUME NEW head, D!Settled(r, day, head) PROVE FALSE
  BY <1>1, <1>5 DEF D!Settled, D!Unowned
<1>6. PICK q \in Workers : /\ D!Busy(q) /\ D!At(q) = <<r, day>> /\ D!Owned(q) # {}
                           /\ \A m \in D!PhaseNames \ D!Owned(q) : c[<<r, day, m>>] = D!Vacant
  BY <1>2, <1>4, <1>5 DEF D!Clean
<1>7. q = p
  BY <1>1, <1>6 DEF D!PublishingInv, D!Exclusive
<1> QED BY <1>6, <1>7 DEF r, day

(* What is left to show of a step of a process that is careful.             *)
LEMMA CarefulStep ==
  ASSUME D!PublishingInv, NEW p \in Workers, NEW phase, NEW job, D!Go(p, phase, job), Careful(p),
         DOMAIN c' = DOMAIN c, e \subseteq e', D!InHand(p)',
         \A r \in FleetRepos, day \in RefreshDays :
           D!Busy(p) /\ D!At(p) = <<r, day>> /\ <<r, day>> \notin e' => D!Clean(r, day)',
         \/ d' = d
         \/ \E o \in Outputs, day \in RefreshDays : \E rows :
              d' = [d EXCEPT ![<<o, day>>] = rows] /\ D!RowsHold(rows, day)'
  PROVE  D!PublishingInv'
<1>1. /\ DOMAIN c' = FleetRepos \X RefreshDays \X D!PhaseNames
      /\ DOMAIN f' = Workers /\ DOMAIN g' = Workers /\ DOMAIN d' = Outputs \X RefreshDays
  BY DEF D!PublishingInv, D!Go
<1>2. /\ \A q \in Workers : q # p => D!InHand(q)'
      /\ D!Exclusive'
      /\ \A r \in FleetRepos, day \in RefreshDays :
           D!Clean(r, day) /\ ~ (D!Busy(p) /\ D!At(p) = <<r, day>>) => D!Clean(r, day)'
      /\ \A day \in RefreshDays : \A rows : D!RowsHold(rows, day) => D!RowsHold(rows, day)'
  BY OthersKeepTheirs
<1>3. \A q \in Workers : D!InHand(q)'
  BY <1>2
<1>4. ASSUME NEW r \in FleetRepos, NEW day \in RefreshDays, <<r, day>> \notin e'
      PROVE  D!Clean(r, day)'
  <2>1. D!Clean(r, day)
    BY <1>4 DEF D!PublishingInv
  <2>2. CASE ~ (D!Busy(p) /\ D!At(p) = <<r, day>>)
    BY <1>2, <2>1, <2>2
  <2>3. CASE D!Busy(p) /\ D!At(p) = <<r, day>>
    BY <1>4, <2>3
  <2> QED BY <2>2, <2>3
<1>5. ASSUME NEW l \in Outputs \X RefreshDays, d'[l] # None PROVE D!RowsHold(d[l], l[2])'
  <2>1. l[2] \in RefreshDays /\ l = <<l[1], l[2]>>
    BY <1>5
  <2>2. DOMAIN d = Outputs \X RefreshDays
        /\ \A k \in Outputs \X RefreshDays : d[k] # None => D!RowsHold(d[k], k[2])
    BY DEF D!PublishingInv
  <2>3. CASE d'[l] = d[l]
    <3>1. PICK rows : rows = d[l]
      OBVIOUS
    <3>2. D!RowsHold(rows, l[2])'
      BY <1>2, <1>5, <2>1, <2>2, <2>3, <3>1
    <3> QED BY <2>3, <3>1, <3>2
  <2>4. CASE d'[l] # d[l]
    <3>1. PICK o \in Outputs, day \in RefreshDays : \E rows :
            d' = [d EXCEPT ![<<o, day>>] = rows] /\ D!RowsHold(rows, day)'
      BY <2>4
    <3>2. PICK rows : d' = [d EXCEPT ![<<o, day>>] = rows] /\ D!RowsHold(rows, day)'
      BY <3>1
    <3>3. l = <<o, day>> /\ d'[l] = rows
      BY <2>2, <2>4, <3>2
    <3> QED BY <3>2, <3>3
  <2> QED BY <2>3, <2>4
<1> QED BY <1>1, <1>2, <1>3, <1>4, <1>5 DEF D!PublishingInv

(* A process that puts nothing, and that owns nothing when it has moved on. *)
LEMMA QuietIsCareful ==
  ASSUME NEW p \in Workers, c' = c, D!Owned(p)' = {} PROVE Careful(p)
BY DEF Careful

LEMMA DiscoverStep ==
  ASSUME D!PublishingInv, NEW p \in Workers, NEW o \in Outputs, NEW day \in RefreshDays,
         D!Discover(p, o, day)
  PROVE  D!PublishingInv'
<1>1. PICK job : /\ D!Go(p, "next", job) /\ job.output = o /\ job.day = day
                 /\ job.left \subseteq FleetRepos /\ job.rows = [r \in {} |-> None]
  BY DEF D!Discover
<1>2. f'[p] = "next" /\ g'[p] = job /\ c' = c /\ d' = d /\ e' = e /\ ~D!Busy(p)
  BY <1>1 DEF D!Go, D!Discover, D!PublishingInv, D!Busy
<1>3. D!Owned(p)' = {}
  BY <1>2 DEF D!Owned, D!Busy
<1>4. D!RowsHold(job.rows, job.day)'
  BY <1>1 DEF D!RowsHold
<1>5. D!InHand(p)'
  BY <1>1, <1>2, <1>4 DEF D!InHand, D!Busy
<1> QED BY <1>1, <1>2, <1>3, <1>5, QuietIsCareful, CarefulStep

(* What a row adds to those that hold.                                      *)
LEMMA RowHolds ==
  ASSUME NEW job, job.left \subseteq FleetRepos, job.left # {}, job.day \in RefreshDays,
         NEW status, NEW target, D!RowsHold(job.rows, job.day)',
         status = "published" => D!Settled(D!Lowest(job.left), job.day, target.head)'
  PROVE  LET row == D!Row(job, status, target)
         IN  /\ row.left \subseteq FleetRepos /\ row.day = job.day /\ row.output = job.output
             /\ D!RowsHold(row.rows, job.day)'
<1> DEFINE row == D!Row(job, status, target)
           r == D!Lowest(job.left)
           rows == row.rows
<1>1. r \in FleetRepos
  BY LowestIsOne, FleetAssumption
<1>2. /\ row.left = job.left \ {r} /\ row.day = job.day /\ row.output = job.output
      /\ row.rows = [q \in DOMAIN job.rows \cup {r} |->
                      IF q = r THEN [status |-> status, head |-> target.head] ELSE job.rows[q]]
  BY DEF D!Row
<1>3. DOMAIN job.rows \subseteq FleetRepos
  BY DEF D!RowsHold
<1>4. DOMAIN rows \subseteq FleetRepos
  BY <1>1, <1>2, <1>3
<1>5. ASSUME NEW q \in DOMAIN rows, rows[q].status = "published"
      PROVE  D!Settled(q, job.day, rows[q].head)'
  <2>1. CASE q = r
    BY <1>2, <1>5, <2>1
  <2>2. CASE q # r
    <3>1. q \in DOMAIN job.rows /\ rows[q] = job.rows[q]
      BY <1>2, <1>5, <2>2
    <3>2. PICK own : own = job.rows[q]
      OBVIOUS
    <3>3. D!Settled(q, job.day, own.head)'
      BY <1>5, <3>1, <3>2 DEF D!RowsHold
    <3> QED BY <3>1, <3>2, <3>3
  <2> QED BY <2>1, <2>2
<1> HIDE DEF row, r, rows
<1>6. D!RowsHold(rows, job.day)'
  BY <1>4, <1>5 DEF D!RowsHold
<1> QED BY <1>2, <1>6 DEF row, rows

LEMMA OpenStep ==
  ASSUME D!PublishingInv, NEW p \in Workers, D!Open(p)
  PROVE  D!PublishingInv'
<1>1. PICK job : job = g[p]
  OBVIOUS
<1>2. /\ f[p] = "next" /\ c' = c /\ d' = d /\ e' = e /\ job.left # {} /\ ~D!Busy(p)
      /\ job.left \subseteq FleetRepos /\ job.day \in RefreshDays /\ job.output \in Outputs
      /\ D!RowsHold(job.rows, job.day)
  BY <1>1 DEF D!Open, D!PublishingInv, D!InHand, D!Busy
<1>3. ASSUME NEW target, D!Go(p, "next", D!Row(job, "blocked", target)) PROVE D!PublishingInv'
  <2>1. PICK row : row = D!Row(job, "blocked", target)
    OBVIOUS
  <2>2. f'[p] = "next" /\ g'[p] = row
    BY <1>3, <2>1 DEF D!Go, D!PublishingInv
  <2>3. D!Owned(p)' = {}
    BY <2>2 DEF D!Owned, D!Busy
  <2>4. Careful(p)
    BY <1>2, <2>3, QuietIsCareful
  <2>5. D!RowsHold(job.rows, job.day)'
    BY <1>2, <1>3, <2>4, OthersKeepTheirs
  <2>6. /\ row.left \subseteq FleetRepos /\ row.day = job.day /\ row.output = job.output
        /\ D!RowsHold(row.rows, job.day)'
    BY <1>2, <2>1, <2>5, RowHolds
  <2>7. D!InHand(p)'
    BY <1>2, <2>2, <2>6 DEF D!InHand, D!Busy
  <2> QED BY <1>2, <1>3, <2>4, <2>7, CarefulStep
<1>4. ASSUME NEW target, NEW before,
             D!Go(p, "refresh",
                  [output |-> job.output, day |-> job.day, left |-> job.left, found |-> job.found,
                   rows |-> job.rows, target |-> target, before |-> before,
                   made |-> {}, published |-> {}, status |-> "blocked"])
      PROVE  D!PublishingInv'
  <2>1. PICK own : own = [output |-> job.output, day |-> job.day, left |-> job.left,
                          found |-> job.found, rows |-> job.rows, target |-> target,
                          before |-> before, made |-> {}, published |-> {}, status |-> "blocked"]
    OBVIOUS
  <2>2. f'[p] = "refresh" /\ g'[p] = own
    BY <1>4, <2>1 DEF D!Go, D!PublishingInv
  <2>3. D!Owned(p)' = {}
    BY <2>2 DEF D!Owned, D!Busy
  <2>4. Careful(p)
    BY <1>2, <2>3, QuietIsCareful
  <2>5. D!RowsHold(job.rows, job.day)'
    BY <1>2, <1>4, <2>4, OthersKeepTheirs
  <2>6. /\ own.left = job.left /\ own.day = job.day /\ own.output = job.output
        /\ own.rows = job.rows /\ own.published = {} /\ own.status = "blocked"
        /\ DOMAIN own = {"output", "day", "left", "found", "rows", "target",
                         "before", "made", "published", "status"}
    BY <2>1
  <2>7. D!InHand(p)'
    BY <1>2, <2>2, <2>5, <2>6 DEF D!InHand, D!Busy
  <2> QED BY <1>2, <1>4, <2>4, <2>7, CarefulStep
<1> QED BY <1>1, <1>3, <1>4 DEF D!Open

LEMMA PhasesNamed == {D!Phases[i_] : i_ \in 1 .. 3} = D!PhaseNames
<1>1. 1 .. 3 = {1, 2, 3}
  OBVIOUS
<1>2. D!Phases[1] = "inspect" /\ D!Phases[2] = "run" /\ D!Phases[3] = "verify"
  BY DEF D!Phases
<1> QED BY <1>1, <1>2 DEF D!PhaseNames

(* What a step leaves alone of a process that is at work, with nothing put. *)
LEMMA PassingOn ==
  ASSUME D!PublishingInv, NEW p \in Workers, ~D!Busy(p), f[p] \notin {"idle", "next"}, c' = c,
         NEW phase, NEW job, D!Go(p, phase, job), D!Owned(p)' = {},
         job.left = g[p].left, job.day = g[p].day, job.output = g[p].output, job.rows = g[p].rows
  PROVE  /\ Careful(p) /\ f'[p] = phase /\ g'[p] = job
         /\ job.left \subseteq FleetRepos /\ job.left # {} /\ job.day \in RefreshDays
         /\ job.output \in Outputs /\ D!RowsHold(job.rows, job.day)'
<1>1. f'[p] = phase /\ g'[p] = job
  BY DEF D!Go, D!PublishingInv
<1>2. Careful(p)
  BY QuietIsCareful
<1>3. D!InHand(p)
  BY DEF D!PublishingInv
<1>4. /\ job.left \subseteq FleetRepos /\ job.left # {} /\ job.day \in RefreshDays
      /\ job.output \in Outputs /\ D!RowsHold(job.rows, job.day)
  BY <1>3 DEF D!InHand
<1>5. D!RowsHold(job.rows, job.day)'
  BY <1>2, <1>4, OthersKeepTheirs
<1> QED BY <1>1, <1>2, <1>4, <1>5

LEMMA RefreshStep ==
  ASSUME D!PublishingInv, NEW p \in Workers, D!Refresh(p)
  PROVE  D!PublishingInv'
<1> USE DEF D!Busy
<1>1. PICK job : job = g[p]
  OBVIOUS
<1>2. /\ f[p] = "refresh" /\ c' = c /\ d' = d /\ e' = e /\ ~D!Busy(p)
      /\ job.published = {} /\ job.status = "blocked"
      /\ DOMAIN job = {"output", "day", "left", "found", "rows", "target",
                       "before", "made", "published", "status"}
  BY <1>1 DEF D!Refresh, D!PublishingInv, D!InHand
<1>3. PICK phase, own :
        /\ D!Go(p, phase, own)
        /\ \/ phase = "close" /\ own \in {job, [job EXCEPT !.status = "unsupported"]}
           \/ phase = "check" /\ own = [job EXCEPT !.made = D!PhaseNames]
  <2>1. \/ D!Go(p, "close", [job EXCEPT !.status = "unsupported"])
        \/ D!Go(p, "close", job)
        \/ D!Go(p, "check", [job EXCEPT !.made = D!PhaseNames])
    BY <1>1, PhasesNamed DEF D!Refresh
  <2> QED BY <2>1
<1>4. /\ DOMAIN own = DOMAIN job /\ own.published = {}
      /\ own.left = job.left /\ own.day = job.day /\ own.output = job.output /\ own.rows = job.rows
  BY <1>2, <1>3
<1>5. f'[p] = phase /\ g'[p] = own
  BY <1>3 DEF D!Go, D!PublishingInv
<1>6. D!Owned(p)' = {}
  BY <1>3, <1>5 DEF D!Owned
<1>7. /\ Careful(p)
      /\ own.left \subseteq FleetRepos /\ own.left # {} /\ own.day \in RefreshDays
      /\ own.output \in Outputs /\ D!RowsHold(own.rows, own.day)'
  BY <1>1, <1>2, <1>3, <1>4, <1>6, PassingOn
<1>8. \/ phase = "close" /\ own.status # "published"
      \/ phase = "check" /\ own.made = D!PhaseNames /\ own.status = "blocked"
  BY <1>2, <1>3
<1>9. D!InHand(p)'
  BY <1>2, <1>4, <1>5, <1>7, <1>8 DEF D!InHand
<1> QED BY <1>2, <1>3, <1>7, <1>9, CarefulStep

LEMMA CheckStep ==
  ASSUME D!PublishingInv, NEW p \in Workers, D!Check(p)
  PROVE  D!PublishingInv'
<1> USE DEF D!Busy
<1>1. PICK job : job = g[p]
  OBVIOUS
<1>2. /\ f[p] = "check" /\ c' = c /\ d' = d /\ e' = e /\ ~D!Busy(p)
      /\ job.published = {} /\ job.status = "blocked" /\ job.made = D!PhaseNames
      /\ DOMAIN job = {"output", "day", "left", "found", "rows", "target",
                       "before", "made", "published", "status"}
  BY <1>1 DEF D!Check, D!PublishingInv, D!InHand
<1>3. PICK phase \in {"copy", "close"} : D!Go(p, phase, job)
  BY <1>1 DEF D!Check
<1>4. f'[p] = phase /\ g'[p] = job
  BY <1>3 DEF D!Go, D!PublishingInv
<1>5. D!Owned(p)' = {}
  BY <1>2, <1>3, <1>4 DEF D!Owned
<1>6. /\ Careful(p)
      /\ job.left \subseteq FleetRepos /\ job.left # {} /\ job.day \in RefreshDays
      /\ job.output \in Outputs /\ D!RowsHold(job.rows, job.day)'
  BY <1>1, <1>2, <1>3, <1>5, PassingOn
<1>7. D!InHand(p)'
  BY <1>2, <1>3, <1>4, <1>6 DEF D!InHand
<1> QED BY <1>2, <1>3, <1>6, <1>7, CarefulStep

LEMMA CloseStep ==
  ASSUME D!PublishingInv, NEW p \in Workers, D!Close(p)
  PROVE  D!PublishingInv'
<1> USE DEF D!Busy
<1>1. PICK job : job = g[p]
  OBVIOUS
<1>2. /\ f[p] = "close" /\ c' = c /\ d' = d /\ e' = e /\ ~D!Busy(p)
      /\ job.left \subseteq FleetRepos /\ job.left # {} /\ job.day \in RefreshDays
      /\ job.output \in Outputs /\ D!RowsHold(job.rows, job.day)
      /\ job.status = "published" => D!Settled(D!Lowest(job.left), job.day, job.target.head)
  BY <1>1 DEF D!Close, D!PublishingInv, D!InHand
<1>3. PICK status \in {job.status, "blocked"} : D!Go(p, "next", D!Row(job, status, job.target))
  BY <1>1 DEF D!Close
<1>4. PICK row : row = D!Row(job, status, job.target)
  OBVIOUS
<1>5. f'[p] = "next" /\ g'[p] = row
  BY <1>3, <1>4 DEF D!Go, D!PublishingInv
<1>6. D!Owned(p)' = {}
  BY <1>5 DEF D!Owned
<1>7. Careful(p)
  BY <1>2, <1>6, QuietIsCareful
<1>8. D!RowsHold(job.rows, job.day)'
  BY <1>2, <1>3, <1>7, OthersKeepTheirs
<1>9. status = "published" => D!Settled(D!Lowest(job.left), job.day, job.target.head)'
  <2>1. D!Lowest(job.left) \in FleetRepos
    BY <1>2, LowestIsOne, FleetAssumption
  <2> QED BY <1>2, <1>3, <1>7, <2>1, OthersKeepTheirs
<1>10. /\ row.left \subseteq FleetRepos /\ row.day = job.day /\ row.output = job.output
       /\ D!RowsHold(row.rows, job.day)'
  BY <1>2, <1>4, <1>8, <1>9, RowHolds
<1>11. D!InHand(p)'
  BY <1>2, <1>5, <1>10 DEF D!InHand
<1> QED BY <1>2, <1>3, <1>7, <1>11, CarefulStep

LEMMA StoreLedgerStep ==
  ASSUME D!PublishingInv, NEW p \in Workers, D!StoreLedger(p)
  PROVE  D!PublishingInv'
<1>1. PICK job : job = g[p]
  OBVIOUS
<1>2. /\ f[p] = "next" /\ c' = c /\ e' = e /\ ~D!Busy(p)
      /\ job.day \in RefreshDays /\ job.output \in Outputs /\ D!RowsHold(job.rows, job.day)
      /\ d' = [d EXCEPT ![<<job.output, job.day>>] = job.rows] /\ D!Go(p, "idle", None)
  BY <1>1 DEF D!StoreLedger, D!PublishingInv, D!InHand, D!Busy
<1>3. f'[p] = "idle"
  BY <1>2 DEF D!Go, D!PublishingInv
<1>4. D!Owned(p)' = {} /\ D!InHand(p)'
  BY <1>3 DEF D!Owned, D!Busy, D!InHand
<1>5. Careful(p)
  BY <1>2, <1>4, QuietIsCareful
<1>6. D!RowsHold(job.rows, job.day)'
  BY <1>2, <1>5, OthersKeepTheirs
<1> QED BY <1>2, <1>4, <1>5, <1>6, CarefulStep

LEMMA CrashStep ==
  ASSUME D!PublishingInv, NEW p \in Workers, D!Crash(p)
  PROVE  D!PublishingInv'
<1>1. /\ c' = c /\ d' = d /\ D!Go(p, "idle", None) /\ e \subseteq e'
      /\ D!Busy(p) => D!At(p) \in e'
  BY DEF D!Crash, D!Busy, D!At
<1>2. f'[p] = "idle"
  BY <1>1 DEF D!Go, D!PublishingInv
<1>3. D!Owned(p)' = {} /\ D!InHand(p)'
  BY <1>2 DEF D!Owned, D!Busy, D!InHand
<1> QED BY <1>1, <1>3, QuietIsCareful, CarefulStep

(* A process that is publishing, and what it puts next.                     *)
LEMMA BusyInHand ==
  ASSUME D!PublishingInv, NEW p \in Workers, D!Busy(p), NEW job, job = g[p]
  PROVE  /\ job.left \subseteq FleetRepos /\ job.left # {} /\ job.day \in RefreshDays
         /\ job.output \in Outputs /\ D!RowsHold(job.rows, job.day)
         /\ job.made = D!PhaseNames /\ job.status = "blocked"
         /\ job.published \in {{}, {"inspect"}, {"inspect", "run"}, D!PhaseNames}
         /\ DOMAIN job = {"output", "day", "left", "found", "rows", "target",
                          "before", "made", "published", "status"}
         /\ D!Lowest(job.left) \in FleetRepos
         /\ D!At(p) = <<D!Lowest(job.left), job.day>>
<1>1. D!InHand(p)
  BY DEF D!PublishingInv
<1>2. D!Lowest(job.left) \in FleetRepos
  BY OwnedIsThere
<1> QED BY <1>1, <1>2 DEF D!InHand, D!Busy, D!At

(* A process stays at its place while it only puts and takes what it owns.  *)
LEMMA PutIsCareful ==
  ASSUME D!PublishingInv, NEW p \in Workers, D!Busy(p), NEW job, job = g[p],
         NEW n \in D!PhaseNames, NEW state, c' = D!Put(job, n, state),
         n \in D!Owned(p) \/ c[D!Run(job, n)] = D!Vacant
  PROVE  /\ \A r \in FleetRepos, day \in RefreshDays, m \in D!PhaseNames :
              \/ c'[<<r, day, m>>] = c[<<r, day, m>>]
              \/ /\ D!Busy(p) /\ D!At(p) = <<r, day>>
                 /\ m \in D!Owned(p) \/ c[<<r, day, m>>] = D!Vacant
         /\ DOMAIN c' = DOMAIN c
         /\ c'[D!Run(job, n)] = [head |-> job.target.head, state |-> state]
         /\ \A m \in D!PhaseNames : m # n => c'[D!Run(job, m)] = c[D!Run(job, m)]
<1>1. D!Lowest(job.left) \in FleetRepos /\ job.day \in RefreshDays
      /\ D!At(p) = <<D!Lowest(job.left), job.day>>
  BY BusyInHand
<1>2. DOMAIN c = FleetRepos \X RefreshDays \X D!PhaseNames
  BY DEF D!PublishingInv
<1> QED BY <1>1, <1>2 DEF D!Put, D!Run

(* What its place is, when it has put some and the rest is not there.       *)
LEMMA OwnerIsClean ==
  ASSUME NEW p \in Workers, (D!Busy(p))', NEW r, NEW day, D!At(p)' = <<r, day>>, D!Owned(p)' # {},
         \A n \in D!PhaseNames \ D!Owned(p)' : c'[<<r, day, n>>] = D!Vacant
  PROVE  D!Clean(r, day)'
<1>1. (\E q \in Workers : D!Busy(q) /\ D!At(q) = <<r, day>> /\ D!Owned(q) # {}
         /\ \A n \in D!PhaseNames \ D!Owned(q) : c[<<r, day, n>>] = D!Vacant)'
  BY DEF D!Vacant
<1> QED BY <1>1 DEF D!Clean

LEMMA CopyStep ==
  ASSUME D!PublishingInv, NEW p \in Workers, D!Copy(p)
  PROVE  D!PublishingInv'
<1>1. PICK job : job = g[p]
  OBVIOUS
<1> DEFINE n == D!NextPhase(job)
           r == D!Lowest(job.left)
           day == job.day
<1>2. f[p] = "copy" /\ D!Busy(p) /\ d' = d /\ e' = e /\ job.published # D!PhaseNames
  <2>1. f[p] = "copy" /\ D!Busy(p) /\ d' = d /\ e' = e /\ job.made # job.published
    BY <1>1 DEF D!Copy, D!Busy
  <2> QED BY <1>1, <2>1, BusyInHand
<1>3. /\ job.left \subseteq FleetRepos /\ job.left # {} /\ day \in RefreshDays
      /\ job.output \in Outputs /\ D!RowsHold(job.rows, day)
      /\ job.made = D!PhaseNames /\ job.status = "blocked"
      /\ job.published \in {{}, {"inspect"}, {"inspect", "run"}, D!PhaseNames}
      /\ DOMAIN job = {"output", "day", "left", "found", "rows", "target",
                       "before", "made", "published", "status"}
      /\ r \in FleetRepos /\ D!At(p) = <<r, day>>
  BY <1>1, <1>2, BusyInHand
<1>4. \A m \in job.published :
        c[D!Run(job, m)] = [head |-> job.target.head, state |-> "whole"]
  BY <1>1, <1>2 DEF D!PublishingInv, D!InHand
<1>5. /\ n \in D!PhaseNames \ job.published /\ (job.published = {} => n = "inspect")
      /\ job.published \subseteq D!PhaseNames
  BY <1>2, <1>3, PhasesInOrder DEF D!PhaseNames
<1>6. D!Owned(p) = job.published
  BY <1>1, <1>2 DEF D!Owned
<1>7. CASE c[D!Run(job, n)] # D!Vacant
  <2>1. D!Go(p, "undo", job) /\ c' = c
    BY <1>1, <1>7 DEF D!Copy
  <2>2. f'[p] = "undo" /\ g'[p] = job /\ (D!Busy(p))'
    BY <2>1 DEF D!Go, D!PublishingInv, D!Busy
  <2>3. D!Owned(p)' = job.published /\ D!At(p)' = <<r, day>>
    BY <2>2 DEF D!Owned, D!At
  <2>4. Careful(p)
    BY <1>2, <1>3, <1>6, <2>1, <2>3 DEF Careful
  <2>5. D!RowsHold(job.rows, day)'
    BY <1>3, <2>1, <2>4, OthersKeepTheirs
  <2>6. \A m \in job.published : c'[D!Run(job, m)] # D!Vacant
    <3>1. [head |-> job.target.head, state |-> "whole"] # D!Vacant
      BY DEF D!Vacant
    <3> QED BY <1>4, <2>1, <3>1
  <2>7. D!InHand(p)'
    BY <1>3, <2>2, <2>5, <2>6 DEF D!InHand, D!Busy, D!Run, D!Vacant
  <2>8. <<r, day>> \notin e' => D!Clean(r, day)'
    <3> SUFFICES ASSUME <<r, day>> \notin e PROVE D!Clean(r, day)'
      BY <1>2
    <3>1. CASE job.published # {}
      <4>1. \A m \in D!PhaseNames \ job.published : c[<<r, day, m>>] = D!Vacant
        BY <1>1, <1>2, <1>3, <1>6, <3>1, OwnerAlone
      <4> QED BY <2>1, <2>2, <2>3, <3>1, <4>1, OwnerIsClean
    <3>2. CASE job.published = {}
      <4>1. D!Clean(r, day)
        BY <1>3 DEF D!PublishingInv
      <4> QED BY <1>3, <1>6, <2>1, <2>4, <3>2, <4>1, OthersKeepTheirs
    <3> QED BY <3>1, <3>2
  <2>9. \A there \in FleetRepos, then \in RefreshDays :
          D!Busy(p) /\ D!At(p) = <<there, then>> /\ <<there, then>> \notin e' => D!Clean(there, then)'
    BY <1>3, <2>8
  <2> QED BY <1>2, <2>1, <2>4, <2>7, <2>9, CarefulStep
<1>8. CASE c[D!Run(job, n)] = D!Vacant
  <2>1. D!Go(p, "fill", job) /\ c' = D!Put(job, n, "partial")
    BY <1>1, <1>8 DEF D!Copy
  <2>2. f'[p] = "fill" /\ g'[p] = job /\ (D!Busy(p))'
    BY <2>1 DEF D!Go, D!PublishingInv, D!Busy
  <2>3. D!Owned(p)' = job.published \cup {n} /\ D!At(p)' = <<r, day>>
    BY <2>2 DEF D!Owned, D!At, D!Busy, D!NextPhase
  <2>4. /\ \A there \in FleetRepos, then \in RefreshDays, m \in D!PhaseNames :
              \/ c'[<<there, then, m>>] = c[<<there, then, m>>]
              \/ /\ D!Busy(p) /\ D!At(p) = <<there, then>>
                 /\ m \in D!Owned(p) \/ c[<<there, then, m>>] = D!Vacant
        /\ DOMAIN c' = DOMAIN c
        /\ c'[D!Run(job, n)] = [head |-> job.target.head, state |-> "partial"]
        /\ \A m \in D!PhaseNames : m # n => c'[D!Run(job, m)] = c[D!Run(job, m)]
    <3> HIDE DEF n
    <3> QED BY <1>1, <1>2, <1>5, <1>8, <2>1, PutIsCareful
  <2>5. D!Owned(p) # {} \/ c[<<r, day, "inspect">>] = D!Vacant
    BY <1>5, <1>6, <1>8 DEF D!Run
  <2>6. Careful(p)
    BY <1>1, <1>2, <1>3, <2>3, <2>4, <2>5 DEF Careful
  <2>7. D!RowsHold(job.rows, day)'
    BY <1>3, <2>1, <2>6, OthersKeepTheirs
  <2>8. \A m \in job.published :
          c'[D!Run(job, m)] = [head |-> job.target.head, state |-> "whole"]
    BY <1>4, <1>5, <2>4
  <2>9. D!InHand(p)'
    BY <1>2, <1>3, <2>2, <2>4, <2>7, <2>8 DEF D!InHand, D!Busy, D!Run, D!NextPhase
  <2>10. <<r, day>> \notin e' => \A m \in D!PhaseNames \ D!Owned(p)' : c'[<<r, day, m>>] = D!Vacant
    <3> SUFFICES ASSUME <<r, day>> \notin e, NEW m \in D!PhaseNames, m # n, m \notin job.published
                 PROVE  c[<<r, day, m>>] = D!Vacant
      BY <1>2, <2>3, <2>4 DEF D!Run
    <3>1. CASE job.published # {}
      BY <1>1, <1>2, <1>3, <1>6, <3>1, OwnerAlone
    <3>2. CASE job.published = {}
      <4>1. D!Clean(r, day)
        BY <1>3 DEF D!PublishingInv
      <4>2. n = "inspect" /\ c[<<r, day, "inspect">>] = D!Vacant
        BY <1>5, <1>8, <3>2 DEF D!Run
      <4> HIDE DEF r, day, n
      <4>3. ASSUME NEW head, D!Settled(r, day, head) PROVE FALSE
        <5>1. c[<<r, day, "inspect">>] = [head |-> head, state |-> "whole"]
          BY <4>3 DEF D!Settled, D!Whole, D!PhaseNames
        <5> QED BY <4>2, <5>1 DEF D!Vacant
      <4>4. ASSUME NEW q \in Workers, D!Busy(q), D!At(q) = <<r, day>>, D!Owned(q) # {} PROVE FALSE
        <5>1. "inspect" \in D!Owned(q) /\ D!Lowest(g[q].left) = r /\ g[q].day = day
          BY <4>4, OwnedIsThere DEF D!At
        <5> QED BY <4>2, <4>4, <5>1, OwnedIsThere
      <4> QED BY <4>1, <4>3, <4>4 DEF D!Clean
    <3> QED BY <3>1, <3>2
  <2>11. <<r, day>> \notin e' => D!Clean(r, day)'
    <3> HIDE DEF n, r, day
    <3> QED BY <2>2, <2>3, <2>10, OwnerIsClean
  <2>12. \A there \in FleetRepos, then \in RefreshDays :
          D!Busy(p) /\ D!At(p) = <<there, then>> /\ <<there, then>> \notin e' => D!Clean(there, then)'
    BY <1>3, <2>11
  <2> QED BY <1>2, <2>1, <2>4, <2>6, <2>9, <2>12, CarefulStep
<1> QED BY <1>7, <1>8

LEMMA FillStep ==
  ASSUME D!PublishingInv, NEW p \in Workers, D!Fill(p)
  PROVE  D!PublishingInv'
<1>1. PICK job : job = g[p]
  OBVIOUS
<1> DEFINE n == D!NextPhase(job)
           r == D!Lowest(job.left)
           day == job.day
<1>2. f[p] = "fill" /\ D!Busy(p) /\ d' = d /\ job.published # D!PhaseNames
  BY <1>1 DEF D!Fill, D!Busy, D!PublishingInv, D!InHand
<1>3. /\ job.left \subseteq FleetRepos /\ job.left # {} /\ day \in RefreshDays
      /\ job.output \in Outputs /\ D!RowsHold(job.rows, day)
      /\ job.made = D!PhaseNames /\ job.status = "blocked"
      /\ job.published \in {{}, {"inspect"}, {"inspect", "run"}, D!PhaseNames}
      /\ DOMAIN job = {"output", "day", "left", "found", "rows", "target",
                       "before", "made", "published", "status"}
      /\ r \in FleetRepos /\ D!At(p) = <<r, day>>
  BY <1>1, <1>2, BusyInHand
<1>4. \A m \in job.published :
        c[D!Run(job, m)] = [head |-> job.target.head, state |-> "whole"]
  BY <1>1, <1>2 DEF D!PublishingInv, D!InHand
<1>5. /\ n \in D!PhaseNames \ job.published /\ job.published \subseteq D!PhaseNames
  BY <1>2, <1>3, PhasesInOrder DEF D!PhaseNames
<1>6. D!Owned(p) = job.published \cup {n}
  BY <1>1, <1>2 DEF D!Owned
<1>7. CASE c' = D!Put(job, n, "copied") /\ e' = e
           /\ D!Go(p, "rewrite", [job EXCEPT !.published = @ \cup {n}])
  <2>1. PICK own : own = [job EXCEPT !.published = @ \cup {n}]
    OBVIOUS
  <2>2. /\ own.left = job.left /\ own.day = day /\ own.output = job.output /\ own.rows = job.rows
        /\ own.made = job.made /\ own.status = job.status /\ own.target = job.target
        /\ own.published = job.published \cup {n} /\ DOMAIN own = DOMAIN job
    BY <1>3, <2>1
  <2>3. f'[p] = "rewrite" /\ g'[p] = own /\ (D!Busy(p))' /\ D!Go(p, "rewrite", own)
    BY <1>7, <2>1 DEF D!Go, D!PublishingInv, D!Busy
  <2>4. D!Owned(p)' = job.published \cup {n} /\ D!At(p)' = <<r, day>>
    BY <2>2, <2>3 DEF D!Owned, D!At, D!Busy
  <2>5. /\ \A there \in FleetRepos, then \in RefreshDays, m \in D!PhaseNames :
              \/ c'[<<there, then, m>>] = c[<<there, then, m>>]
              \/ /\ D!Busy(p) /\ D!At(p) = <<there, then>>
                 /\ m \in D!Owned(p) \/ c[<<there, then, m>>] = D!Vacant
        /\ DOMAIN c' = DOMAIN c
        /\ c'[D!Run(job, n)] = [head |-> job.target.head, state |-> "copied"]
        /\ \A m \in D!PhaseNames : m # n => c'[D!Run(job, m)] = c[D!Run(job, m)]
    <3> HIDE DEF n
    <3> QED BY <1>1, <1>2, <1>5, <1>6, <1>7, PutIsCareful
  <2>6. Careful(p)
    BY <1>2, <1>3, <1>6, <2>4, <2>5 DEF Careful
  <2>7. D!RowsHold(own.rows, own.day)'
    BY <1>3, <2>2, <2>3, <2>6, OthersKeepTheirs
  <2>8. \A m : D!Run(own, m) = D!Run(job, m)
    BY <2>2 DEF D!Run
  <2>9. own.published \in {{}, {"inspect"}, {"inspect", "run"}, D!PhaseNames} \ {{}}
        /\ D!Phases[D!Cardinality(own.published)] = n
    <3>1. \/ job.published = {} /\ own.published = {"inspect"} /\ n = "inspect"
          \/ job.published = {"inspect"} /\ own.published = {"inspect", "run"} /\ n = "run"
          \/ job.published = {"inspect", "run"} /\ own.published = D!PhaseNames /\ n = "verify"
      BY <1>2, <1>3, <2>2, PhasesInOrder DEF D!PhaseNames
    <3> HIDE DEF n
    <3>2. own.published \in {{}, {"inspect"}, {"inspect", "run"}, D!PhaseNames} /\ own.published # {}
      BY <3>1 DEF D!PhaseNames
    <3>3. D!PhaseNames # {"inspect"} /\ D!PhaseNames # {"inspect", "run"}
      BY DEF D!PhaseNames
    <3> QED BY <3>1, <3>2, <3>3, PhasesInOrder
  <2>10. \A m \in own.published :
           m # n => c'[D!Run(own, m)] = [head |-> own.target.head, state |-> "whole"]
    BY <1>4, <1>5, <2>2, <2>5, <2>8
  <2>11. c'[D!Run(own, n)] = [head |-> own.target.head, state |-> "copied"]
    BY <2>2, <2>5, <2>8
  <2> HIDE DEF n, r, day
  <2>12. D!InHand(p)'
    BY <1>3, <2>2, <2>3, <2>7, <2>9, <2>10, <2>11 DEF D!InHand, D!Busy, D!Run, day
  <2>13. <<r, day>> \notin e' => D!Clean(r, day)'
    <3> SUFFICES ASSUME <<r, day>> \notin e PROVE D!Clean(r, day)'
      BY <1>7
    <3>1. D!Owned(p) # {}
      BY <1>6
    <3>2. \A m \in D!PhaseNames \ D!Owned(p) : c[<<r, day, m>>] = D!Vacant
      BY <1>1, <1>2, <1>3, <3>1, OwnerAlone DEF r, day
    <3>3. \A m \in D!PhaseNames \ D!Owned(p)' : c'[<<r, day, m>>] = D!Vacant
      BY <1>6, <2>4, <2>5, <3>2 DEF D!Run, r, day
    <3> QED BY <1>6, <2>3, <2>4, <3>3, OwnerIsClean
  <2>14. \A there \in FleetRepos, then \in RefreshDays :
          D!Busy(p) /\ D!At(p) = <<there, then>> /\ <<there, then>> \notin e' => D!Clean(there, then)'
    BY <1>3, <2>13
  <2> QED BY <1>2, <1>7, <2>3, <2>5, <2>6, <2>12, <2>14, CarefulStep
<1>8. CASE c' = c /\ e' = e \cup {<<r, day>>} /\ D!Go(p, "undo", job)
  <2>1. f'[p] = "undo" /\ g'[p] = job /\ (D!Busy(p))'
    BY <1>8 DEF D!Go, D!PublishingInv, D!Busy
  <2>2. D!Owned(p)' = job.published /\ D!At(p)' = <<r, day>>
    BY <2>1 DEF D!Owned, D!At
  <2>3. Careful(p)
    BY <1>2, <1>3, <1>6, <1>8, <2>2 DEF Careful
  <2>4. D!RowsHold(job.rows, day)'
    BY <1>3, <1>8, <2>3, OthersKeepTheirs
  <2>5. \A m \in job.published : c'[D!Run(job, m)] # D!Vacant
    <3>1. [head |-> job.target.head, state |-> "whole"] # D!Vacant
      BY DEF D!Vacant
    <3> QED BY <1>4, <1>8, <3>1
  <2>6. D!InHand(p)'
    BY <1>3, <2>1, <2>4, <2>5 DEF D!InHand, D!Busy, D!Run, D!Vacant
  <2> QED BY <1>2, <1>3, <1>8, <2>3, <2>6, CarefulStep
<1> QED BY <1>1, <1>7, <1>8 DEF D!Fill

LEMMA RewriteStep ==
  ASSUME D!PublishingInv, NEW p \in Workers, D!Rewrite(p)
  PROVE  D!PublishingInv'
<1>1. PICK job : job = g[p]
  OBVIOUS
<1> DEFINE n == D!Phases[D!Cardinality(job.published)]
           r == D!Lowest(job.left)
           day == job.day
<1>2. f[p] = "rewrite" /\ D!Busy(p) /\ d' = d /\ e' = e /\ job.published # {}
  BY <1>1 DEF D!Rewrite, D!Busy, D!PublishingInv, D!InHand
<1>3. /\ job.left \subseteq FleetRepos /\ job.left # {} /\ day \in RefreshDays
      /\ job.output \in Outputs /\ D!RowsHold(job.rows, day)
      /\ job.made = D!PhaseNames /\ job.status = "blocked"
      /\ job.published \in {{}, {"inspect"}, {"inspect", "run"}, D!PhaseNames}
      /\ DOMAIN job = {"output", "day", "left", "found", "rows", "target",
                       "before", "made", "published", "status"}
      /\ r \in FleetRepos /\ D!At(p) = <<r, day>>
  BY <1>1, <1>2, BusyInHand
<1>4. /\ c[D!Run(job, n)] = [head |-> job.target.head, state |-> "copied"]
      /\ \A m \in job.published :
           m # n => c[D!Run(job, m)] = [head |-> job.target.head, state |-> "whole"]
  BY <1>1, <1>2 DEF D!PublishingInv, D!InHand
<1>5. n \in job.published /\ job.published \subseteq D!PhaseNames
  BY <1>2, <1>3, PhasesInOrder DEF D!PhaseNames
<1>6. D!Owned(p) = job.published
  BY <1>1, <1>2 DEF D!Owned
<1> HIDE DEF n, r, day
<1>7. ASSUME NEW phase \in {"copy", "undo"}, D!Go(p, phase, job), DOMAIN c' = DOMAIN c,
             \A there \in FleetRepos, then \in RefreshDays, m \in D!PhaseNames :
               \/ c'[<<there, then, m>>] = c[<<there, then, m>>]
               \/ D!Busy(p) /\ D!At(p) = <<there, then>> /\ m \in D!Owned(p),
             phase = "copy" => \A m \in job.published :
                                 c'[D!Run(job, m)] = [head |-> job.target.head, state |-> "whole"],
             phase = "undo" => \A m \in job.published : c'[D!Run(job, m)] # D!Vacant
      PROVE  D!PublishingInv'
  <2>1. f'[p] = phase /\ g'[p] = job /\ (D!Busy(p))'
    BY <1>7 DEF D!Go, D!PublishingInv, D!Busy
  <2>2. D!Owned(p)' = job.published /\ D!At(p)' = <<r, day>>
    BY <1>7, <2>1 DEF D!Owned, D!At, r, day
  <2>3. Careful(p)
    BY <1>2, <1>3, <1>6, <1>7, <2>2 DEF Careful
  <2>4. D!RowsHold(job.rows, day)'
    BY <1>3, <1>7, <2>3, OthersKeepTheirs
  <2>5. D!InHand(p)'
    BY <1>3, <1>7, <2>1, <2>4 DEF D!InHand, D!Busy, D!Run, D!Vacant, day
  <2>6. <<r, day>> \notin e' => D!Clean(r, day)'
    <3> SUFFICES ASSUME <<r, day>> \notin e PROVE D!Clean(r, day)'
      BY <1>2
    <3>1. \A m \in D!PhaseNames \ D!Owned(p) : c[<<r, day, m>>] = D!Vacant
      BY <1>1, <1>2, <1>3, <1>6, OwnerAlone DEF r, day
    <3>2. \A m \in D!PhaseNames \ D!Owned(p)' : c'[<<r, day, m>>] = D!Vacant
      BY <1>3, <1>6, <1>7, <2>2, <3>1
    <3> QED BY <1>2, <2>1, <2>2, <3>2, OwnerIsClean
  <2>7. \A there \in FleetRepos, then \in RefreshDays :
          D!Busy(p) /\ D!At(p) = <<there, then>> /\ <<there, then>> \notin e' => D!Clean(there, then)'
    BY <1>3, <2>6
  <2> QED BY <1>2, <1>7, <2>3, <2>5, <2>7, CarefulStep
<1>8. CASE c' = D!Put(job, n, "whole") /\ D!Go(p, "copy", job)
  <2>1. n \in D!PhaseNames /\ n \in D!Owned(p)
    BY <1>5, <1>6
  <2>2. \A m : <<D!Lowest(job.left), job.day, m>> = D!Run(job, m)
    BY DEF D!Run
  <2>3. /\ DOMAIN c' = DOMAIN c
        /\ c'[D!Run(job, n)] = [head |-> job.target.head, state |-> "whole"]
        /\ \A m \in D!PhaseNames : m # n => c'[D!Run(job, m)] = c[D!Run(job, m)]
    BY <1>1, <1>2, <1>8, <2>1, PutIsCareful
  <2>4. \A there \in FleetRepos, then \in RefreshDays, m \in D!PhaseNames :
               \/ c'[<<there, then, m>>] = c[<<there, then, m>>]
               \/ D!Busy(p) /\ D!At(p) = <<there, then>> /\ m \in D!Owned(p)
    <3>1. DOMAIN c = FleetRepos \X RefreshDays \X D!PhaseNames
      BY DEF D!PublishingInv
    <3> QED BY <1>2, <1>3, <1>8, <2>1, <3>1 DEF D!Put, D!Run, r, day
  <2>5. \A m \in job.published :
          c'[D!Run(job, m)] = [head |-> job.target.head, state |-> "whole"]
    BY <1>4, <1>5, <2>3
  <2> QED BY <1>7, <1>8, <2>3, <2>4, <2>5
<1>9. CASE c' = c /\ D!Go(p, "undo", job)
  <2>1. \A state \in {"whole", "copied"} : [head |-> job.target.head, state |-> state] # D!Vacant
    BY DEF D!Vacant
  <2>2. \A m \in job.published : c[D!Run(job, m)] # D!Vacant
    BY <1>4, <2>1
  <2> QED BY <1>7, <1>9, <2>2
<1> QED BY <1>1, <1>8, <1>9 DEF D!Rewrite, n

LEMMA UndoStep ==
  ASSUME D!PublishingInv, NEW p \in Workers, D!Undo(p)
  PROVE  D!PublishingInv'
<1>1. PICK job : job = g[p]
  OBVIOUS
<1> DEFINE r == D!Lowest(job.left)
           day == job.day
<1>2. /\ f[p] = "undo" /\ D!Busy(p) /\ d' = d /\ e' = e /\ D!Go(p, "close", job)
      /\ c' = [s \in DOMAIN c |->
                IF \E n \in job.published : s = D!Run(job, n) THEN D!Vacant ELSE c[s]]
  BY <1>1 DEF D!Undo, D!Undone, D!Busy
<1>3. /\ job.left \subseteq FleetRepos /\ job.left # {} /\ day \in RefreshDays
      /\ job.output \in Outputs /\ D!RowsHold(job.rows, day)
      /\ job.made = D!PhaseNames /\ job.status = "blocked"
      /\ job.published \in {{}, {"inspect"}, {"inspect", "run"}, D!PhaseNames}
      /\ DOMAIN job = {"output", "day", "left", "found", "rows", "target",
                       "before", "made", "published", "status"}
      /\ r \in FleetRepos /\ D!At(p) = <<r, day>>
  BY <1>1, <1>2, BusyInHand
<1>4. D!Owned(p) = job.published /\ job.published \subseteq D!PhaseNames
  BY <1>1, <1>2, <1>3 DEF D!Owned, D!PhaseNames
<1>5. f'[p] = "close" /\ g'[p] = job
  BY <1>2 DEF D!Go, D!PublishingInv
<1>6. D!Owned(p)' = {}
  BY <1>5 DEF D!Owned, D!Busy
<1>7. DOMAIN c = FleetRepos \X RefreshDays \X D!PhaseNames
  BY DEF D!PublishingInv
<1>8. ASSUME NEW there \in FleetRepos, NEW then \in RefreshDays, NEW m \in D!PhaseNames
      PROVE  /\ there = r /\ then = day /\ m \in job.published => c'[<<there, then, m>>] = D!Vacant
             /\ ~ (there = r /\ then = day /\ m \in job.published) =>
                  c'[<<there, then, m>>] = c[<<there, then, m>>]
  <2>1. <<there, then, m>> \in DOMAIN c
    BY <1>7, <1>8
  <2>2. (\E n \in job.published : <<there, then, m>> = D!Run(job, n))
          <=> there = r /\ then = day /\ m \in job.published
    BY DEF D!Run
  <2> QED BY <1>2, <2>1, <2>2
<1> HIDE DEF r, day
<1>9. Careful(p)
  BY <1>2, <1>3, <1>4, <1>6, <1>8 DEF Careful
<1>10. D!RowsHold(job.rows, day)'
  BY <1>2, <1>3, <1>9, OthersKeepTheirs
<1>11. D!InHand(p)'
  BY <1>3, <1>5, <1>10 DEF D!InHand, D!Busy, day
<1>12. <<r, day>> \notin e' => D!Clean(r, day)'
  <2> SUFFICES ASSUME <<r, day>> \notin e PROVE D!Clean(r, day)'
    BY <1>2
  <2>1. CASE job.published # {}
    <3>1. \A m \in D!PhaseNames \ D!Owned(p) : c[<<r, day, m>>] = D!Vacant
      BY <1>1, <1>2, <1>3, <1>4, <2>1, OwnerAlone DEF r, day
    <3>2. \A m \in D!PhaseNames : c'[<<r, day, m>>] = D!Vacant
      BY <1>3, <1>4, <1>8, <3>1
    <3> QED BY <3>2 DEF D!Clean, D!Vacant
  <2>2. CASE job.published = {}
    <3>1. D!Clean(r, day) /\ D!Owned(p) = {}
      BY <1>3, <1>4, <2>2 DEF D!PublishingInv
    <3>2. \A m \in D!PhaseNames : c'[<<r, day, m>>] = c[<<r, day, m>>]
      BY <1>3, <1>8, <2>2
    <3> QED BY <1>2, <1>3, <1>9, <3>1, <3>2, OthersKeepTheirs
  <2> QED BY <2>1, <2>2
<1>13. \A there \in FleetRepos, then \in RefreshDays :
         D!Busy(p) /\ D!At(p) = <<there, then>> /\ <<there, then>> \notin e' => D!Clean(there, then)'
  BY <1>3, <1>12
<1>14. DOMAIN c' = DOMAIN c
  BY <1>2
<1> QED BY <1>2, <1>9, <1>11, <1>13, <1>14, CarefulStep

LEMMA PublishedStep ==
  ASSUME D!PublishingInv, NEW p \in Workers, D!Published(p)
  PROVE  D!PublishingInv'
<1>1. PICK job : job = g[p]
  OBVIOUS
<1> DEFINE r == D!Lowest(job.left)
           day == job.day
           head == job.target.head
<1>2. /\ f[p] = "copy" /\ D!Busy(p) /\ c' = c /\ d' = d /\ e' = e /\ job.made = job.published
      /\ \E status \in {"published", "blocked"} : D!Go(p, "close", [job EXCEPT !.status = status])
  BY <1>1 DEF D!Published, D!Busy
<1>3. /\ job.left \subseteq FleetRepos /\ job.left # {} /\ day \in RefreshDays
      /\ job.output \in Outputs /\ D!RowsHold(job.rows, day)
      /\ job.made = D!PhaseNames
      /\ DOMAIN job = {"output", "day", "left", "found", "rows", "target",
                       "before", "made", "published", "status"}
      /\ r \in FleetRepos /\ D!At(p) = <<r, day>>
  BY <1>1, <1>2, BusyInHand
<1>4. \A m \in D!PhaseNames : c[D!Run(job, m)] = [head |-> head, state |-> "whole"]
  BY <1>1, <1>2, <1>3 DEF D!PublishingInv, D!InHand
<1>5. D!Owned(p) # {}
  BY <1>1, <1>2, <1>3 DEF D!Owned, D!PhaseNames
<1>6. PICK status \in {"published", "blocked"} : D!Go(p, "close", [job EXCEPT !.status = status])
  BY <1>2
<1>7. PICK own : own = [job EXCEPT !.status = status]
  OBVIOUS
<1>8. /\ own.left = job.left /\ own.day = day /\ own.output = job.output /\ own.rows = job.rows
      /\ own.target = job.target /\ DOMAIN own = DOMAIN job
  BY <1>3, <1>7
<1>9. f'[p] = "close" /\ g'[p] = own
      /\ \A q \in Workers : q # p => f'[q] = f[q] /\ g'[q] = g[q]
  BY <1>6, <1>7 DEF D!Go, D!PublishingInv
<1>10. D!Owned(p)' = {} /\ ~D!Busy(p)'
  BY <1>9 DEF D!Owned, D!Busy
<1>11. Careful(p)
  BY <1>2, <1>10 DEF Careful
<1>12. D!RowsHold(own.rows, own.day)'
  BY <1>3, <1>6, <1>8, <1>11, OthersKeepTheirs
<1>13. D!Settled(r, day, head)'
  <2>1. D!Whole(r, day, head)'
    BY <1>2, <1>4 DEF D!Whole, D!Run
  <2>2. ASSUME NEW q \in Workers, q # p
        PROVE  /\ D!Busy(q)' = D!Busy(q) /\ D!At(q)' = D!At(q) /\ D!Owned(q)' = D!Owned(q)
    BY <1>9, <2>2 DEF D!Busy, D!At, D!Owned, D!NextPhase
  <2>3. \A q \in Workers : q # p /\ D!Busy(q) /\ D!At(q) = <<r, day>> => D!Owned(q) = {}
    BY <1>2, <1>3, <1>5 DEF D!PublishingInv, D!Exclusive
  <2> HIDE DEF r, day, head
  <2>4. D!Unowned(r, day)'
    BY <1>10, <2>2, <2>3 DEF D!Unowned
  <2> QED BY <2>1, <2>4 DEF D!Settled
<1> HIDE DEF r, day, head
<1>14. D!InHand(p)'
  BY <1>3, <1>8, <1>9, <1>12, <1>13 DEF D!InHand, D!Busy, r, day, head
<1>15. D!Clean(r, day)'
  <2>1. \A m \in D!PhaseNames : <<r, day, m>> = D!Run(job, m)
    BY DEF D!Run, r, day
  <2>2. c'[<<r, day, "inspect">>] = [head |-> head, state |-> "whole"]
    BY <1>2, <1>4, <2>1 DEF D!PhaseNames
  <2>3. head = c'[<<r, day, "inspect">>].head
    BY <2>2
  <2> QED BY <1>13, <2>3 DEF D!Clean
<1>16. \A there \in FleetRepos, then \in RefreshDays :
         D!Busy(p) /\ D!At(p) = <<there, then>> /\ <<there, then>> \notin e' => D!Clean(there, then)'
  BY <1>3, <1>15
<1> QED BY <1>2, <1>6, <1>7, <1>11, <1>14, <1>16, CarefulStep

LEMMA DetectorInit == ASSUME D!Init PROVE D!PublishingInv
<1>1. /\ f = [p \in Workers |-> "idle"] /\ g = [p \in Workers |-> None]
      /\ c = [s \in FleetRepos \X RefreshDays \X D!PhaseNames |-> D!Vacant]
      /\ d = [l \in Outputs \X RefreshDays |-> None]
  BY PhasesNamed DEF D!Init
<1>2. \A p \in Workers : D!InHand(p) /\ ~D!Busy(p)
  BY <1>1 DEF D!InHand, D!Busy
<1>3. ASSUME NEW r \in FleetRepos, NEW day \in RefreshDays PROVE D!Clean(r, day)
  <2>1. \A n \in D!PhaseNames : c[<<r, day, n>>] = D!Vacant
    BY <1>1
  <2> QED BY <2>1 DEF D!Clean
<1> QED BY <1>1, <1>2, <1>3 DEF D!PublishingInv, D!Exclusive

LEMMA DetectorStands ==
  ASSUME D!PublishingInv, UNCHANGED <<c, d, e, f, g>>
  PROVE  D!PublishingInv'
<1>1. ASSUME NEW p \in Workers
      PROVE  D!Busy(p)' = D!Busy(p) /\ D!At(p)' = D!At(p) /\ D!Owned(p)' = D!Owned(p)
  BY DEF D!Busy, D!At, D!Owned, D!NextPhase
<1>2. ASSUME NEW r, NEW day, NEW head
      PROVE  D!Settled(r, day, head)' = D!Settled(r, day, head)
  <2>1. D!Whole(r, day, head)' = D!Whole(r, day, head)
    BY DEF D!Whole
  <2>2. D!Unowned(r, day)' = D!Unowned(r, day)
    BY <1>1 DEF D!Unowned
  <2> QED BY <2>1, <2>2 DEF D!Settled
<1>3. ASSUME NEW rows, NEW day, D!RowsHold(rows, day) PROVE D!RowsHold(rows, day)'
  BY <1>2, <1>3 DEF D!RowsHold
<1>4. ASSUME NEW r, NEW day, D!Clean(r, day) PROVE D!Clean(r, day)'
  <2>1. CASE \A n \in D!PhaseNames : c[<<r, day, n>>] = D!Vacant
    BY <2>1 DEF D!Clean, D!Vacant
  <2>2. CASE \E head \in {c[<<r, day, "inspect">>].head} : D!Settled(r, day, head)
    <3>1. PICK head : head = c[<<r, day, "inspect">>].head /\ D!Settled(r, day, head)
      BY <2>2
    <3>2. D!Settled(r, day, head)' /\ head = c'[<<r, day, "inspect">>].head
      BY <1>2, <3>1
    <3> QED BY <3>2 DEF D!Clean
  <2>3. ASSUME NEW q \in Workers, D!Busy(q), D!At(q) = <<r, day>>, D!Owned(q) # {},
               \A n \in D!PhaseNames \ D!Owned(q) : c[<<r, day, n>>] = D!Vacant
        PROVE  D!Clean(r, day)'
    BY <1>1, <2>3, OwnerIsClean
  <2> QED BY <1>4, <2>1, <2>2, <2>3 DEF D!Clean
<1>5. ASSUME NEW p \in Workers PROVE D!InHand(p)'
  <2>1. D!InHand(p)
    BY DEF D!PublishingInv
  <2>2. PICK job : job = g[p]
    OBVIOUS
  <2>3. f[p] # "idle" => D!RowsHold(job.rows, job.day)'
    BY <1>3, <2>1, <2>2 DEF D!InHand
  <2>4. f[p] = "close" /\ job.status = "published" =>
          D!Settled(D!Lowest(job.left), job.day, job.target.head)'
    BY <1>2, <2>1, <2>2 DEF D!InHand
  <2>5. /\ D!NextPhase(job)' = D!NextPhase(job) /\ D!Busy(p)' = D!Busy(p)
        /\ g'[p] = job /\ f'[p] = f[p]
    BY <1>1, <2>2 DEF D!NextPhase
  <2> QED BY <2>1, <2>2, <2>3, <2>4, <2>5 DEF D!InHand, D!Run, D!Vacant
<1>6. D!Exclusive'
  BY <1>1 DEF D!PublishingInv, D!Exclusive
<1>7. ASSUME NEW l \in DOMAIN d, d[l] # None PROVE D!RowsHold(d[l], l[2])'
  <2>1. PICK rows : rows = d[l]
    OBVIOUS
  <2>2. D!RowsHold(rows, l[2])'
    BY <1>3, <1>7, <2>1 DEF D!PublishingInv
  <2> QED BY <2>1, <2>2
<1> QED BY <1>4, <1>5, <1>6, <1>7 DEF D!PublishingInv

LEMMA DetectorStep ==
  ASSUME D!PublishingInv, D!Next
  PROVE  D!PublishingInv'
<1>1. ASSUME NEW r \in FleetRepos, D!Move(r) PROVE D!PublishingInv'
  <2>1. c' = c /\ d' = d /\ e' = e /\ f' = f /\ g' = g
    BY <1>1 DEF D!Move
  <2> QED BY <2>1, DetectorStands
<1>2. ASSUME NEW p \in Workers, D!Step(p) PROVE D!PublishingInv'
  BY <1>2, OpenStep, RefreshStep, CheckStep, CopyStep, FillStep, RewriteStep, UndoStep, PublishedStep,
     CloseStep, StoreLedgerStep DEF D!Step
<1> QED BY <1>1, <1>2, CrashStep, DiscoverStep DEF D!Next

(* What is published is whole, and a row that says so is right, wherever    *)
(* the commands of the detector refresh stop or meet each other.            *)
THEOREM PublishedSound == Parts => [](part = "detector" => D!PublishingInv)
<1>1. PartsInit => (part = "detector" => D!PublishingInv)
  BY DetectorInit DEF PartsInit
<1>2. (part = "detector" => D!PublishingInv) /\ [PartsNext]_parts
        => (part = "detector" => D!PublishingInv)'
  <2> SUFFICES ASSUME part = "detector" => D!PublishingInv, [PartsNext]_parts, part' = "detector"
               PROVE  D!PublishingInv'
    OBVIOUS
  <2>1. CASE PartsNext
    BY <2>1, DetectorStep DEF PartsNext
  <2>2. CASE UNCHANGED parts
    <3>1. c' = c /\ d' = d /\ e' = e /\ f' = f /\ g' = g /\ part' = part
      BY <2>2 DEF parts
    <3> QED BY <2>2, <3>1, DetectorStands
  <2> QED BY <2>1, <2>2
<1> QED BY <1>1, <1>2, PTL DEF Parts

THEOREM PublishedStaysWhole == Parts => []PublishedIsWhole
<1>1. (part = "detector" => D!PublishingInv) => PublishedIsWhole
  <2> SUFFICES ASSUME D!PublishingInv PROVE D!PublishedIsWhole
    BY DEF PublishedIsWhole
  <2>1. ASSUME NEW r \in FleetRepos, NEW day \in RefreshDays
        PROVE  D!SetOf(r, day) =
                 {c[<<r, day, "inspect">>], c[<<r, day, "run">>], c[<<r, day, "verify">>]}
    <3>1. 1 .. 3 = {1, 2, 3}
      OBVIOUS
    <3>2. D!Phases[1] = "inspect" /\ D!Phases[2] = "run" /\ D!Phases[3] = "verify"
      BY DEF D!Phases
    <3> QED BY <3>1, <3>2 DEF D!SetOf
  <2>2. D!PhaseNames = {"inspect", "run", "verify"}
    BY DEF D!PhaseNames
  <2>3. ASSUME NEW r \in FleetRepos, NEW day \in RefreshDays, NEW head, D!Settled(r, day, head)
        PROVE  D!SetOf(r, day) = {[head |-> head, state |-> "whole"]}
    <3>1. \A n \in {"inspect", "run", "verify"} :
            c[<<r, day, n>>] = [head |-> head, state |-> "whole"]
      BY <2>2, <2>3 DEF D!Settled, D!Whole
    <3> QED BY <2>1, <3>1
  <2>4. ASSUME NEW r \in FleetRepos, NEW day \in RefreshDays, ~D!Publishing(r, day),
               <<r, day>> \notin e
        PROVE  \E head \in {s.head : s \in D!SetOf(r, day)} :
                 D!SetOf(r, day) \in {{D!Vacant}, {[head |-> head, state |-> "whole"]}}
    <3>1. D!Clean(r, day)
      BY <2>4 DEF D!PublishingInv
    <3>2. \A p \in Workers : ~ (D!Busy(p) /\ D!At(p) = <<r, day>>)
      BY <2>4 DEF D!Publishing, D!Busy, D!At
    <3>3. c[<<r, day, "inspect">>].head \in {s.head : s \in D!SetOf(r, day)}
      BY <2>1
    <3>4. CASE \A n \in D!PhaseNames : c[<<r, day, n>>] = D!Vacant
      <4>1. D!SetOf(r, day) = {D!Vacant}
        BY <2>1, <2>2, <3>4
      <4> QED BY <3>3, <4>1
    <3>5. CASE \E head \in {c[<<r, day, "inspect">>].head} : D!Settled(r, day, head)
      <4>1. PICK head : head = c[<<r, day, "inspect">>].head /\ D!Settled(r, day, head)
        BY <3>5
      <4>2. head \in {s.head : s \in D!SetOf(r, day)}
        BY <2>1, <2>2, <4>1
      <4> QED BY <2>3, <4>1, <4>2
    <3> QED BY <3>1, <3>2, <3>4, <3>5 DEF D!Clean
  <2>5. ASSUME NEW l \in DOMAIN d, d[l] # None, NEW r \in DOMAIN d[l], d[l][r].status = "published"
        PROVE  D!SetOf(r, l[2]) = {[head |-> d[l][r].head, state |-> "whole"]}
    <3>1. D!RowsHold(d[l], l[2]) /\ l[2] \in RefreshDays
      BY <2>5 DEF D!PublishingInv
    <3> QED BY <2>3, <2>5, <3>1 DEF D!RowsHold
  <2> QED BY <2>4, <2>5 DEF D!PublishedIsWhole
<1> QED BY <1>1, PublishedSound, PTL

-----------------------------------------------------------------------------
(* BugLearning.                                                             *)
LEMMA CountsInLearning ==
  ASSUME NEW M PROVE B!Cardinality(M) = Cardinality(M) /\ (B!IsFiniteSet(M) <=> IsFiniteSet(M))
BY DEF B!Cardinality, Cardinality, B!IsFiniteSet, IsFiniteSet

LEMMA ImageIsFinite ==
  ASSUME NEW M, IsFiniteSet(M), NEW map, DOMAIN map = M
  PROVE  IsFiniteSet({map[x] : x \in M})
<1>1. PICK image : image = {map[x] : x \in M}
  OBVIOUS
<1>2. PICK onto : onto = [x \in M |-> map[x]]
  OBVIOUS
<1>3. onto \in Surjection(M, image)
  BY <1>1, <1>2 DEF Surjection
<1> QED BY <1>1, <1>3, FS_Surjection

LEMMA RecordedKept ==
  ASSUME NEW id, NEW seen, B!Recorded(id, seen), f \subseteq f'
  PROVE  B!Recorded(id, seen)'
BY DEF B!Recorded

LEMMA EvidenceKept ==
  ASSUME NEW file, B!EvidenceFits(file), f \subseteq f'
  PROVE  B!EvidenceFits(file)'
<1>1. ASSUME NEW id \in DOMAIN file.groups, NEW seen, seen = file.groups[id].seen
      PROVE  B!Recorded(id, seen)'
  <2>1. B!Recorded(id, seen)
    BY <1>1 DEF B!EvidenceFits
  <2> QED BY <2>1, RecordedKept
<1>2. \A id \in DOMAIN file.groups : B!Recorded(id, file.groups[id].seen)'
  BY <1>1
<1> QED BY <1>2 DEF B!EvidenceFits

LEMMA ReceiptKept ==
  ASSUME NEW file, B!ReceiptFits(file), f \subseteq f', g \subseteq g'
  PROVE  B!ReceiptFits(file)'
<1>1. PICK shown : shown = file.evidence
  OBVIOUS
<1>2. ASSUME file \notin {None, Torn}, file.status = "supported"
      PROVE  B!EvidenceFits(shown)'
  BY <1>1, <1>2, EvidenceKept DEF B!ReceiptFits
<1> QED BY <1>1, <1>2 DEF B!ReceiptFits

LEMMA ReadKept ==
  ASSUME NEW r, NEW reg, B!RegistryRead(r, reg), f \subseteq f'
  PROVE  B!RegistryRead(r, reg)'
<1>1. ASSUME NEW com \in B!Range(reg.candidates), NEW id, id = com.id, NEW seen, seen = B!Found(r, com)
      PROVE  B!Recorded(id, seen)'
  BY <1>1, RecordedKept DEF B!RegistryRead
<1> QED BY <1>1 DEF B!RegistryRead

LEMMA JobKept ==
  ASSUME NEW job, B!JobFits(job), f \subseteq f', g \subseteq g'
  PROVE  B!JobFits(job)'
<1>1. CASE job = B!Idle
  BY <1>1 DEF B!JobFits, B!Idle
<1>2. CASE job.step = "reading" /\ job # B!Idle
  <2>1. ASSUME NEW r \in DOMAIN job.read, NEW reg, reg = job.read[r], reg # Torn
        PROVE  B!RegistryRead(r, reg)'
    BY <1>2, <2>1, ReadKept DEF B!JobFits
  <2> QED BY <1>2, <2>1 DEF B!JobFits, B!Idle
<1>3. CASE job.step = "fleet" /\ job # B!Idle
  <2>1. PICK held : held = job.holds
    OBVIOUS
  <2> QED BY <1>3, <2>1, EvidenceKept DEF B!JobFits
<1>4. CASE job.step = "receipt" /\ job # B!Idle
  <2>1. PICK held : held = job.holds
    OBVIOUS
  <2> QED BY <1>4, <2>1, ReceiptKept DEF B!JobFits
<1> QED BY <1>1, <1>2, <1>3, <1>4 DEF B!JobFits

(* One process goes on, the others hold what they held.                     *)
LEMMA LearnersKept ==
  ASSUME B!JobsFit, NEW proc \in Learners, NEW new, e' = [e EXCEPT ![proc] = new],
         B!JobFits(new)', f \subseteq f', g \subseteq g'
  PROVE  B!JobsFit'
<1>1. ASSUME NEW q \in Learners, NEW held, held = e'[q] PROVE B!JobFits(held)'
  <2>1. CASE q = proc
    BY <1>1, <2>1 DEF B!JobsFit
  <2>2. CASE q # proc
    <3>1. B!JobFits(held)
      BY <1>1, <2>2 DEF B!JobsFit
    <3> QED BY <3>1, JobKept
  <2> QED BY <2>1, <2>2
<1> QED BY <1>1 DEF B!JobsFit

LEMMA RestKept ==
  ASSUME B!LearningInv, f \subseteq f', g \subseteq g'
  PROVE  /\ a' = a => B!RegistriesFit'
         /\ b' = b \/ b' \in {None, Torn} => B!FleetFits'
         /\ c' = c => B!DecisionsFit'
         /\ d' = d => B!ReceiptsFit'
         /\ e' = e => B!JobsFit'
<1>1. PICK file : file = b'
  OBVIOUS
<1>2. ASSUME b' = b \/ b' \in {None, Torn} PROVE B!FleetFits'
  <2>1. ASSUME file \notin {None, Torn} PROVE B!EvidenceFits(file)'
    BY <1>1, <1>2, <2>1, EvidenceKept DEF B!LearningInv, B!FleetFits
  <2> QED BY <1>1, <2>1 DEF B!FleetFits
<1>3. ASSUME d' = d PROVE B!ReceiptsFit'
  <2>1. ASSUME NEW r \in LearningRepos, NEW held, held = d'[r] PROVE B!ReceiptFits(held)'
    BY <1>3, <2>1, ReceiptKept DEF B!LearningInv, B!ReceiptsFit
  <2> QED BY <1>3, <2>1 DEF B!ReceiptsFit, B!LearningInv
<1>4. ASSUME e' = e PROVE B!JobsFit'
  <2>1. ASSUME NEW q \in Learners, NEW held, held = e'[q] PROVE B!JobFits(held)'
    BY <1>4, <2>1, JobKept DEF B!LearningInv, B!JobsFit
  <2> QED BY <1>4, <2>1 DEF B!JobsFit, B!LearningInv
<1>5. a' = a => B!RegistriesFit'
  BY DEF B!LearningInv, B!RegistriesFit
<1>6. c' = c => B!DecisionsFit'
  BY DEF B!LearningInv, B!DecisionsFit
<1> QED BY <1>2, <1>3, <1>4, <1>5, <1>6

LEMMA MergedIsRecorded ==
  ASSUME NEW id, NEW prior, NEW current, B!Recorded(id, prior), B!Recorded(id, current)
  PROVE  B!Recorded(id, B!Merged(prior, current))
<1>1. PICK kept : kept = {o \in prior : \A n \in current : B!KeyOf(n) # B!KeyOf(o)}
  OBVIOUS
<1>2. PICK all : all = current \cup kept
  OBVIOUS
<1>3. IsFiniteSet(prior) /\ IsFiniteSet(current) /\ kept \in SUBSET prior
  BY <1>1, CountsInLearning DEF B!Recorded
<1>4. IsFiniteSet(kept)
  BY <1>3, FS_Subset
<1>5. B!IsFiniteSet(all)
  BY <1>2, <1>3, <1>4, FS_Union, CountsInLearning
<1>6. \A o \in all : <<id, o>> \in f /\ o.at \in Int /\ o.class \in DOMAIN B!ResultOf
  BY <1>1, <1>2 DEF B!Recorded
<1>7. \A o1, o2 \in all : B!KeyOf(o1) = B!KeyOf(o2) => o1 = o2
  <2>1. ASSUME NEW o1 \in all, NEW o2 \in all, B!KeyOf(o1) = B!KeyOf(o2)
        PROVE  o1 = o2
    <3>1. CASE o1 \in current /\ o2 \in current
      BY <2>1, <3>1 DEF B!Recorded
    <3>2. CASE o1 \in kept /\ o2 \in kept
      BY <1>1, <2>1, <3>2 DEF B!Recorded
    <3>3. CASE o1 \in current /\ o2 \in kept
      BY <1>1, <2>1, <3>3
    <3>4. CASE o1 \in kept /\ o2 \in current
      BY <1>1, <2>1, <3>4
    <3> QED BY <1>2, <3>1, <3>2, <3>3, <3>4
  <2> QED BY <2>1
<1>8. B!Recorded(id, all)
  BY <1>5, <1>6, <1>7 DEF B!Recorded
<1> QED BY <1>1, <1>2, <1>8 DEF B!Merged

LEMMA OccurrencesAreFinite ==
  ASSUME NEW read, DOMAIN read \subseteq LearningRepos,
         \A r \in DOMAIN read : read[r] # Torn => B!RegistryRead(r, read[r])
  PROVE  IsFiniteSet(B!Occurrences(read))
<1>1. PICK sound : sound = {r \in DOMAIN read : read[r] # Torn}
  OBVIOUS
<1>2. IsFiniteSet(sound)
  <2>1. IsFiniteSet(LearningRepos) /\ sound \in SUBSET LearningRepos
    BY <1>1, LearningAssumption
  <2> QED BY <2>1, FS_Subset
<1>3. PICK each : each = [r \in sound |-> {<<r, com>> : com \in B!Range(read[r].candidates)}]
  OBVIOUS
<1>4. ASSUME NEW r \in sound PROVE IsFiniteSet(each[r])
  <2>1. PICK coms : coms = B!Range(read[r].candidates)
    OBVIOUS
  <2>2. IsFiniteSet(coms)
    BY <1>1, <2>1, CountsInLearning DEF B!RegistryRead
  <2>3. PICK map : map = [com \in coms |-> <<r, com>>]
    OBVIOUS
  <2>4. IsFiniteSet({map[x] : x \in coms})
    BY <2>2, <2>3, ImageIsFinite
  <2>5. {map[x] : x \in coms} = each[r]
    BY <1>3, <2>1, <2>3
  <2> QED BY <2>4, <2>5
<1>5. PICK sets : sets = {each[r] : r \in sound}
  OBVIOUS
<1>6. IsFiniteSet(sets)
  <2>1. DOMAIN each = sound
    BY <1>3
  <2> QED BY <1>2, <1>5, <2>1, ImageIsFinite
<1>7. IsFiniteSet(UNION sets)
  BY <1>4, <1>5, <1>6, FS_UNION
<1>8. UNION sets = B!Occurrences(read)
  BY <1>1, <1>3, <1>5 DEF B!Occurrences
<1> QED BY <1>7, <1>8

(* What is found now: it was recorded, and two sightings differ in place,   *)
(* candidate, time or reference.                                            *)
LEMMA FoundIsRecorded ==
  ASSUME NEW read, DOMAIN read \subseteq LearningRepos,
         \A r \in DOMAIN read : read[r] # Torn => B!RegistryRead(r, read[r]),
         NEW id, NEW here, here = {at \in B!Occurrences(read) : at[2].id = id}
  PROVE  B!Recorded(id, UNION {B!Found(at[1], at[2]) : at \in here})
<1>1. ASSUME NEW at \in here
      PROVE  /\ at[1] \in DOMAIN read /\ read[at[1]] # Torn /\ at[2].id = id
             /\ at[2] \in B!Range(read[at[1]].candidates) /\ at = <<at[1], at[2]>>
  BY <1>1 DEF B!Occurrences
<1>2. ASSUME NEW at \in here PROVE B!Recorded(id, B!Found(at[1], at[2]))
  BY <1>1, <1>2 DEF B!RegistryRead
<1>3. PICK each : each = [at \in here |-> B!Found(at[1], at[2])]
  OBVIOUS
<1>4. PICK sets, all : sets = {each[at] : at \in here} /\ all = UNION sets
  OBVIOUS
<1>5. IsFiniteSet(here)
  <2>1. PICK there : there = B!Occurrences(read)
    OBVIOUS
  <2>2. IsFiniteSet(there) /\ here \in SUBSET there
    BY <2>1, OccurrencesAreFinite
  <2> QED BY <2>2, FS_Subset
<1>6. IsFiniteSet(sets)
  BY <1>3, <1>4, <1>5, ImageIsFinite
<1>7. \A M \in sets : IsFiniteSet(M)
  BY <1>2, <1>3, <1>4, CountsInLearning DEF B!Recorded
<1>8. B!IsFiniteSet(all)
  BY <1>4, <1>6, <1>7, FS_UNION, CountsInLearning
<1>9. \A o \in all : \E at \in here : o \in B!Found(at[1], at[2])
  BY <1>3, <1>4
<1>10. \A o \in all : <<id, o>> \in f /\ o.at \in Int /\ o.class \in DOMAIN B!ResultOf
  BY <1>2, <1>9 DEF B!Recorded
<1>11. ASSUME NEW o1 \in all, NEW o2 \in all, B!KeyOf(o1) = B!KeyOf(o2) PROVE o1 = o2
  <2>1. PICK at1 \in here : o1 \in B!Found(at1[1], at1[2])
    BY <1>9
  <2>2. PICK at2 \in here : o2 \in B!Found(at2[1], at2[2])
    BY <1>9
  <2>3. o1.repo = at1[1] /\ o2.repo = at2[1]
    BY <2>1, <2>2 DEF B!Found
  <2>4. at1[1] = at2[1]
    BY <1>11, <2>3 DEF B!KeyOf
  <2>5. PICK reg : reg = read[at1[1]]
    OBVIOUS
  <2>6. PICK k1 \in DOMAIN reg.candidates : reg.candidates[k1] = at1[2]
    BY <1>1, <2>5 DEF B!Range
  <2>7. PICK k2 \in DOMAIN reg.candidates : reg.candidates[k2] = at2[2]
    BY <1>1, <2>4, <2>5 DEF B!Range
  <2>8. reg.candidates[k1].id = reg.candidates[k2].id
    BY <1>1, <2>6, <2>7
  <2>9. k1 = k2
    BY <1>1, <2>5, <2>8 DEF B!RegistryRead
  <2>10. B!Found(at1[1], at1[2]) = B!Found(at2[1], at2[2])
    BY <2>4, <2>6, <2>7, <2>9
  <2> QED BY <1>2, <1>11, <2>1, <2>2, <2>10 DEF B!Recorded
<1>12. B!Recorded(id, all)
  BY <1>8, <1>10, <1>11 DEF B!Recorded
<1>13. all = UNION {B!Found(at[1], at[2]) : at \in here}
  BY <1>3, <1>4
<1> QED BY <1>12, <1>13

LEMMA EvidenceIsMade ==
  ASSUME B!FleetFits, NEW read, DOMAIN read \subseteq LearningRepos,
         \A r \in DOMAIN read : read[r] # Torn => B!RegistryRead(r, read[r]), NEW day \in Int
  PROVE  B!EvidenceFits(B!Evidence(read, b, day))
<1>1. PICK file : file = B!Evidence(read, b, day)
  OBVIOUS
<1>2. file.day = day
  BY <1>1 DEF B!Evidence
<1>3. ASSUME NEW id \in DOMAIN file.groups
      PROVE  /\ B!Recorded(id, file.groups[id].seen)
             /\ file.groups[id].unmet =
                  B!Criteria \ B!Met(file.groups[id].seen, file.groups[id].contracts, day)
  <2>1. file.groups[id] = B!Group(id, read, b, day)
    BY <1>1 DEF B!Evidence
  <2>2. PICK here : here = {at \in B!Occurrences(read) : at[2].id = id}
    OBVIOUS
  <2>3. PICK current : current = UNION {B!Found(at[1], at[2]) : at \in here}
    OBVIOUS
  <2>4. PICK prior : prior = B!PriorOf(b, id)
    OBVIOUS
  <2>5. B!Recorded(id, current)
    BY <2>2, <2>3, FoundIsRecorded
  <2>6. B!Recorded(id, {})
    BY FS_EmptySet, CountsInLearning DEF B!Recorded
  <2>7. B!Recorded(id, prior)
    BY <2>4, <2>6 DEF B!PriorOf, B!FleetFits, B!EvidenceFits
  <2>8. PICK seen, contracts : /\ seen = B!Merged(prior, current)
                               /\ contracts = {B!Contract(at[2]) : at \in here}
    OBVIOUS
  <2>9. file.groups[id] = [seen |-> seen, contracts |-> contracts,
                           unmet |-> B!Criteria \ B!Met(seen, contracts, day)]
    BY <2>1, <2>2, <2>3, <2>4, <2>8 DEF B!Group
  <2>10. B!Recorded(id, seen)
    BY <2>5, <2>7, <2>8, MergedIsRecorded
  <2> QED BY <2>9, <2>10
<1> QED BY <1>1, <1>2, <1>3 DEF B!EvidenceFits

LEMMA LearnerReads ==
  ASSUME B!LearningInv, NEW proc \in Learners, B!ReadRegistry(proc)
  PROVE  B!LearningInv'
<1>1. PICK job : job = e[proc]
  OBVIOUS
<1>2. /\ UNCHANGED <<a, b, c, d, g>> /\ f \subseteq f' /\ job.step = "reading"
  BY <1>1 DEF B!ReadRegistry
<1>3. PICK r \in e[proc].left :
        LET reg == a[r]
            read == IF reg = None THEN <<>>
                    ELSE [x \in {r} |-> IF B!Passes(reg, d[r]) THEN reg ELSE Torn]
            all == [x \in DOMAIN e[proc].read \cup DOMAIN read |->
                      IF x \in DOMAIN read THEN read[x] ELSE e[proc].read[x]]
        IN  /\ \A x \in e[proc].left : r <= x
            /\ e' = [e EXCEPT ![proc].read = all, ![proc].left = @ \ {r}]
            /\ f' = f \cup
                 UNION {{<<x[2].id, o>> : o \in B!Found(r, x[2])} : x \in B!Occurrences(read)}
  BY ZenonT(60) DEF B!ReadRegistry
<1>4. PICK reg, read : /\ reg = a[r]
                       /\ read = (IF reg = None THEN <<>>
                                  ELSE [x \in {r} |-> IF B!Passes(reg, d[r]) THEN reg ELSE Torn])
  OBVIOUS
<1>5. PICK all : all = [x \in DOMAIN job.read \cup DOMAIN read |->
                          IF x \in DOMAIN read THEN read[x] ELSE job.read[x]]
  OBVIOUS
<1>6. PICK new : new = [job EXCEPT !.read = all, !.left = @ \ {r}]
  OBVIOUS
<1>7. e' = [e EXCEPT ![proc] = new]
  BY <1>1, <1>3, <1>4, <1>5, <1>6 DEF B!LearningInv, B!JobsFit
<1>8. f' = f \cup UNION {{<<x[2].id, o>> : o \in B!Found(r, x[2])} : x \in B!Occurrences(read)}
  BY <1>3, <1>4
<1>9. B!JobFits(job) /\ job # B!Idle
  BY <1>1, <1>2 DEF B!LearningInv, B!JobsFit, B!Idle
<1>10. /\ DOMAIN job = {"step", "day", "read", "left"} /\ job.day \in Int
       /\ job.left \subseteq LearningRepos /\ DOMAIN job.read \subseteq LearningRepos
       /\ \A x \in DOMAIN job.read : job.read[x] # Torn => B!RegistryRead(x, job.read[x])
  BY <1>2, <1>9 DEF B!JobFits
<1>17. r \in LearningRepos
  <2>1. r \in job.left
    BY <1>1, <1>3
  <2> QED BY <1>10, <2>1
<1>11. /\ DOMAIN new = {"step", "day", "read", "left"} /\ new.step = "reading" /\ new.day \in Int
       /\ new.left \subseteq LearningRepos /\ new.read = all
  BY <1>2, <1>6, <1>10
<1>12. DOMAIN read \subseteq {r} /\ DOMAIN all = DOMAIN job.read \cup DOMAIN read
  BY <1>4, <1>5
<1>13. ASSUME r \in DOMAIN read, read[r] # Torn PROVE B!RegistryRead(r, reg)'
  <2>1. reg # None /\ B!Passes(reg, d[r]) /\ read[r] = reg /\ read = [x \in {r} |-> reg]
    BY <1>4, <1>13
  <2>2. r \in LearningRepos /\ reg \in RegistryFiles[r] \ {None}
    BY <1>4, <1>17, <2>1 DEF B!LearningInv, B!RegistriesFit
  <2>3. PICK row : row = reg.candidates
    OBVIOUS
  <2>4. /\ row \in Seq({row[x] : x \in DOMAIN row})
        /\ \A x \in DOMAIN row : IsFiniteSet(row[x].seen) /\ \A o \in row[x].seen : o.at \in Int
    BY <2>2, <2>3, LearningAssumption
  <2>5. IsFiniteSet(B!Range(row))
    <3>1. PICK n \in Nat : DOMAIN row = 1 .. n
      BY <2>4
    <3>2. IsFiniteSet(1 .. n)
      BY FS_Interval
    <3>3. IsFiniteSet({row[x] : x \in DOMAIN row})
      BY <3>1, <3>2, ImageIsFinite
    <3> QED BY <3>3 DEF B!Range
  <2>6. \A i_, k \in DOMAIN row : row[i_].id = row[k].id => i_ = k
    BY <2>1, <2>3 DEF B!Passes
  <2>7. ASSUME NEW com \in B!Range(row), NEW seen, seen = B!Found(r, com)
        PROVE  B!Recorded(com.id, seen)'
    <3>1. com \in B!Range(reg.candidates) /\ B!ObservationsFit(com.seen)
      BY <2>1, <2>3, <2>7 DEF B!Passes, B!CandidateFits
    <3>2. \E x \in DOMAIN row : com = row[x]
      BY <2>7 DEF B!Range
    <3>3. IsFiniteSet(com.seen) /\ \A o \in com.seen : o.at \in Int
      BY <2>4, <3>2
    <3>4. PICK map : map = [o \in com.seen |->
                              [repo |-> r, id |-> o.id, at |-> o.at, class |-> o.class,
                               cost |-> o.cost, reference |-> o.reference]]
      OBVIOUS
    <3>5. seen = {map[o] : o \in com.seen}
      BY <2>7, <3>4 DEF B!Found
    <3>6. IsFiniteSet(seen)
      <4>1. DOMAIN map = com.seen
        BY <3>4
      <4> QED BY <3>3, <3>5, <4>1, ImageIsFinite
    <3>7. ASSUME NEW o \in com.seen
          PROVE  /\ map[o].at \in Int /\ map[o].class \in DOMAIN B!ResultOf
                 /\ map[o].id = o.id
      BY <3>1, <3>3, <3>4 DEF B!ObservationsFit
    <3>8. \A o1, o2 \in com.seen : map[o1].id = map[o2].id => o1 = o2
      BY <3>1, <3>7 DEF B!ObservationsFit
    <3>9. \A o1, o2 \in seen : B!KeyOf(o1) = B!KeyOf(o2) => o1 = o2
      BY <3>5, <3>8 DEF B!KeyOf
    <3>10. <<r, com>> \in B!Occurrences(read)
      <4>1. r \in {x \in DOMAIN read : read[x] # Torn} /\ read[r].candidates = reg.candidates
        BY <1>13, <2>1
      <4> QED BY <3>1, <4>1 DEF B!Occurrences
    <3>11. \A o \in seen : <<com.id, o>> \in f'
      <4>1. {<<com.id, o>> : o \in B!Found(r, com)} \in
              {{<<x[2].id, o>> : o \in B!Found(r, x[2])} : x \in B!Occurrences(read)}
        BY <3>10
      <4> QED BY <1>8, <2>7, <4>1
    <3> QED BY <3>5, <3>6, <3>7, <3>9, <3>11, CountsInLearning DEF B!Recorded
  <2> QED BY <2>3, <2>5, <2>6, <2>7, CountsInLearning DEF B!RegistryRead
<1>14. ASSUME NEW x \in DOMAIN all, NEW is, is = all[x], is # Torn
       PROVE  x \in LearningRepos /\ B!RegistryRead(x, is)'
  <2>1. CASE x \in DOMAIN read
    <3>1. x = r /\ is = read[r]
      BY <1>5, <1>12, <1>14, <2>1
    <3>2. is = reg
      BY <1>4, <1>14, <2>1, <3>1
    <3>3. B!RegistryRead(r, reg)'
      BY <1>13, <1>14, <2>1, <3>1
    <3> QED BY <1>17, <3>1, <3>2, <3>3
  <2>2. CASE x \notin DOMAIN read
    <3>1. x \in DOMAIN job.read /\ is = job.read[x]
      BY <1>5, <1>12, <1>14, <2>2
    <3> QED BY <1>2, <1>10, <1>14, <3>1, ReadKept
  <2> QED BY <2>1, <2>2
<1>15. B!JobFits(new)'
  <2>1. DOMAIN all \subseteq LearningRepos
    BY <1>10, <1>12, <1>17
  <2> QED BY <1>11, <1>14, <2>1 DEF B!JobFits
<1>16. B!JobsFit'
  BY <1>2, <1>7, <1>15, LearnersKept DEF B!LearningInv
<1> QED BY <1>2, <1>16, RestKept DEF B!LearningInv

LEMMA RegistryEdited ==
  ASSUME B!LearningInv, NEW r \in LearningRepos, B!Edit(r)
  PROVE  B!LearningInv'
<1>1. UNCHANGED <<b, c, d, e, f, g>>
  BY DEF B!Edit
<1>2. PICK reg \in RegistryFiles[r] \ {a[r]} : a' = [a EXCEPT ![r] = reg]
  BY DEF B!Edit
<1>3. B!RegistriesFit'
  BY <1>2 DEF B!LearningInv, B!RegistriesFit
<1> QED BY <1>1, <1>3, RestKept DEF B!LearningInv

(* An aggregate starts, its evidence is made, and what a process has made   *)
(* takes the place of the file; it may die before.                          *)
LEMMA AggregateGoesOn ==
  ASSUME B!LearningInv, NEW proc \in Learners,
         B!StartAggregate(proc) \/ B!WriteFleet(proc) \/ B!Die(proc)
  PROVE  B!LearningInv'
<1>1. UNCHANGED <<a, c, d, f, g>> /\ (b' = b \/ b' = Torn)
  BY DEF B!StartAggregate, B!WriteFleet, B!Die
<1>2. ASSUME NEW new, e' = [e EXCEPT ![proc] = new], B!JobFits(new) PROVE B!LearningInv'
  <2>1. B!JobFits(new)'
    BY <1>1, <1>2, JobKept
  <2>2. B!JobsFit'
    BY <1>1, <1>2, <2>1, LearnersKept DEF B!LearningInv
  <2> QED BY <1>1, <2>2, RestKept DEF B!LearningInv
<1>3. CASE B!StartAggregate(proc)
  <2>1. PICK day \in LearningDays :
          e' = [e EXCEPT ![proc] = [step |-> "reading", day |-> day, read |-> <<>>,
                                    left |-> LearningRepos]]
    BY <1>3 DEF B!StartAggregate
  <2>2. PICK new : new = [step |-> "reading", day |-> day, read |-> <<>>, left |-> LearningRepos]
    OBVIOUS
  <2>3. DOMAIN new.read = {} /\ day \in Int
    BY <2>2, LearningAssumption
  <2>4. B!JobFits(new)
    BY <2>2, <2>3 DEF B!JobFits
  <2> QED BY <1>2, <2>1, <2>2, <2>4
<1>4. CASE B!WriteFleet(proc)
  <2>1. PICK job, read, day : job = e[proc] /\ read = job.read /\ day = job.day
    OBVIOUS
  <2>2. B!JobFits(job) /\ job.step = "reading"
    BY <1>4, <2>1 DEF B!LearningInv, B!JobsFit, B!WriteFleet
  <2>3. /\ DOMAIN read \subseteq LearningRepos /\ day \in Int
        /\ \A r \in DOMAIN read : read[r] # Torn => B!RegistryRead(r, read[r])
    BY <2>1, <2>2 DEF B!JobFits, B!Idle
  <2>4. PICK made : made = B!Evidence(read, b, day)
    OBVIOUS
  <2>5. B!EvidenceFits(made)
    BY <2>3, <2>4, EvidenceIsMade DEF B!LearningInv
  <2>6. PICK new : new = [step |-> "fleet", holds |-> made]
    OBVIOUS
  <2>7. e' = [e EXCEPT ![proc] = new]
    BY <1>4, <2>1, <2>4, <2>6 DEF B!WriteFleet
  <2>8. B!JobFits(new)
    BY <2>5, <2>6 DEF B!JobFits
  <2> QED BY <1>2, <2>7, <2>8
<1>5. CASE B!Die(proc)
  <2>1. e' = [e EXCEPT ![proc] = B!Idle] /\ B!JobFits(B!Idle)
    BY <1>5 DEF B!Die, B!JobFits
  <2> QED BY <1>2, <2>1
<1> QED BY <1>3, <1>4, <1>5

LEMMA FleetFinished ==
  ASSUME B!LearningInv, NEW proc \in Learners, B!FinishFleet(proc)
  PROVE  B!LearningInv'
<1>1. UNCHANGED <<a, c, d, f, g>> /\ e' = [e EXCEPT ![proc] = B!Idle]
  BY DEF B!FinishFleet
<1>2. PICK job, held : job = e[proc] /\ held = job.holds
  OBVIOUS
<1>3. b' = held
  BY <1>2 DEF B!FinishFleet
<1>4. B!EvidenceFits(held)
  BY <1>2 DEF B!LearningInv, B!JobsFit, B!JobFits, B!FinishFleet, B!Idle
<1>5. B!EvidenceFits(held)'
  BY <1>1, <1>4, EvidenceKept
<1>6. B!FleetFits'
  BY <1>3, <1>5 DEF B!FleetFits
<1>7. B!JobFits(B!Idle)'
  BY DEF B!JobFits, B!Idle
<1>8. B!JobsFit'
  BY <1>1, <1>7, LearnersKept DEF B!LearningInv
<1> QED BY <1>1, <1>6, <1>8, RestKept DEF B!LearningInv

LEMMA SomebodyDecides ==
  ASSUME B!LearningInv, NEW r \in Promoters, B!Decide(r)
  PROVE  B!LearningInv'
<1>1. UNCHANGED <<a, b, d, e, f>>
  BY DEF B!Decide
<1>2. PICK id \in DOMAIN b.groups, verdict \in {"approved", "rejected"} :
        /\ c' = [c EXCEPT ![r] = [id |-> id, verdict |-> verdict, evidence |-> b]]
        /\ g' = IF verdict = "approved" THEN g \cup {<<id, b>>} ELSE g
  BY DEF B!Decide
<1>3. g \subseteq g'
  BY <1>2
<1>4. PICK new : new = [id |-> id, verdict |-> verdict, evidence |-> b]
  OBVIOUS
<1>5. DOMAIN c = Promoters /\ c' = [c EXCEPT ![r] = new]
  BY <1>2, <1>4 DEF B!LearningInv, B!DecisionsFit
<1>6. new.verdict = "approved" => <<new.id, new.evidence>> \in g'
  BY <1>2, <1>4
<1>7. ASSUME NEW q \in Promoters, c'[q] # None, c'[q].verdict = "approved"
      PROVE  <<c'[q].id, c'[q].evidence>> \in g'
  <2>1. CASE q = r
    BY <1>5, <1>6, <1>7, <2>1
  <2>2. CASE q # r
    BY <1>3, <1>5, <1>7, <2>2 DEF B!LearningInv, B!DecisionsFit
  <2> QED BY <2>1, <2>2
<1>8. B!DecisionsFit'
  BY <1>5, <1>7 DEF B!DecisionsFit
<1> QED BY <1>1, <1>3, <1>8, RestKept DEF B!LearningInv

(* A supporting receipt holds the evidence that was approved.               *)
LEMMA ReceiptIsEarned ==
  ASSUME B!LearningInv, NEW r \in Promoters, NEW id
  PROVE  B!ReceiptFits(B!Receipt(r, id))
<1>1. PICK file : file = B!Receipt(r, id)
  OBVIOUS
<1>2. SUFFICES ASSUME file.status = "supported"
               PROVE  /\ B!EvidenceFits(file.evidence) /\ file.evidence.status = "completed"
                      /\ file.id \in DOMAIN file.evidence.groups
                      /\ file.evidence.groups[file.id].unmet = {}
                      /\ <<file.id, file.evidence>> \in g
  BY <1>1 DEF B!ReceiptFits
<1>3. PICK com, taken : com = B!CandidateIn(a[r], id) /\ taken = c[r]
  OBVIOUS
<1>4. PICK group : group = (IF b \notin {None, Torn} /\ id \in DOMAIN b.groups THEN b.groups[id] ELSE None)
  OBVIOUS
<1>5. file.id = id /\ file.evidence = (IF b \notin {None, Torn} THEN b ELSE None)
  BY <1>1 DEF B!Receipt
<1>6. /\ b \notin {None, Torn} /\ b.status = "completed" /\ group # None
      /\ taken # None /\ taken.id = id /\ taken.verdict = "approved" /\ taken.evidence = b
      /\ group.unmet = {}
  <2>1. file.status = (IF /\ B!Passes(a[r], d[r]) /\ com # None
                          /\ b \notin {None, Torn} /\ b.status = "completed" /\ group # None
                          /\ taken # None /\ taken.id = id /\ taken.verdict = "approved"
                          /\ taken.evidence = b
                          /\ group.unmet = {}
                          /\ com.status \in {"fleet-observation", "required-gate"}
                       THEN "supported" ELSE "blocked")
    BY <1>1, <1>3, <1>4 DEF B!Receipt
  <2> QED BY <1>2, <2>1
<1>7. file.evidence = b /\ id \in DOMAIN b.groups /\ b.groups[id].unmet = {}
  BY <1>4, <1>5, <1>6
<1>8. <<id, b>> \in g
  BY <1>3, <1>6 DEF B!LearningInv, B!DecisionsFit
<1>9. B!EvidenceFits(b)
  BY <1>6 DEF B!LearningInv, B!FleetFits
<1> QED BY <1>5, <1>6, <1>7, <1>8, <1>9

LEMMA PromotionChecked ==
  ASSUME B!LearningInv, NEW proc \in Learners, NEW r \in Promoters, B!Check(proc, r)
  PROVE  B!LearningInv'
<1>1. UNCHANGED <<a, b, c, f, g>> /\ d' = [d EXCEPT ![r] = Torn]
  BY DEF B!Check
<1>2. PICK id \in B!Ids :
        e' = [e EXCEPT ![proc] = [step |-> "receipt", repo |-> r, holds |-> B!Receipt(r, id)]]
  BY DEF B!Check
<1>3. PICK made, new : /\ made = B!Receipt(r, id)
                       /\ new = [step |-> "receipt", repo |-> r, holds |-> made]
  OBVIOUS
<1>4. B!ReceiptFits(made)
  BY <1>3, ReceiptIsEarned
<1>5. B!JobFits(new)
  BY <1>3, <1>4 DEF B!JobFits
<1>6. B!JobFits(new)'
  BY <1>1, <1>5, JobKept
<1>7. B!JobsFit'
  BY <1>1, <1>2, <1>3, <1>6, LearnersKept DEF B!LearningInv
<1>8. ASSUME NEW q \in LearningRepos, NEW held, held = d'[q] PROVE B!ReceiptFits(held)'
  <2>1. B!ReceiptFits(held)
    BY <1>1, <1>8 DEF B!LearningInv, B!ReceiptsFit, B!ReceiptFits
  <2> QED BY <1>1, <2>1, ReceiptKept
<1>9. B!ReceiptsFit'
  BY <1>1, <1>8 DEF B!ReceiptsFit, B!LearningInv
<1> QED BY <1>1, <1>7, <1>9, RestKept DEF B!LearningInv

LEMMA CheckFinished ==
  ASSUME B!LearningInv, NEW proc \in Learners, B!FinishCheck(proc)
  PROVE  B!LearningInv'
<1>1. UNCHANGED <<a, b, c, f, g>> /\ e' = [e EXCEPT ![proc] = B!Idle]
  BY DEF B!FinishCheck
<1>2. PICK job, made, r : job = e[proc] /\ made = job.holds /\ r = job.repo
  OBVIOUS
<1>3. B!ReceiptFits(made)
  BY <1>2 DEF B!LearningInv, B!JobsFit, B!JobFits, B!FinishCheck, B!Idle
<1>4. d' = [d EXCEPT ![r] = made]
  BY <1>2 DEF B!FinishCheck
<1>5. ASSUME NEW q \in LearningRepos, NEW held, held = d'[q] PROVE B!ReceiptFits(held)'
  <2>1. held = made \/ held = d[q]
    BY <1>4, <1>5 DEF B!LearningInv, B!ReceiptsFit
  <2>2. B!ReceiptFits(held)
    BY <1>3, <2>1 DEF B!LearningInv, B!ReceiptsFit
  <2> QED BY <1>1, <2>2, ReceiptKept
<1>6. B!ReceiptsFit'
  BY <1>4, <1>5 DEF B!ReceiptsFit, B!LearningInv
<1>7. B!JobFits(B!Idle)'
  BY DEF B!JobFits, B!Idle
<1>8. B!JobsFit'
  BY <1>1, <1>7, LearnersKept DEF B!LearningInv
<1> QED BY <1>1, <1>6, <1>8, RestKept DEF B!LearningInv

LEMMA LearningStep == ASSUME B!LearningInv, B!Next PROVE B!LearningInv'
BY RegistryEdited, LearnerReads, AggregateGoesOn, FleetFinished, SomebodyDecides,
   PromotionChecked, CheckFinished DEF B!Next

LEMMA LearningInit == PartsInit /\ part = "learning" => B!LearningInv
<1> SUFFICES ASSUME B!Init PROVE B!LearningInv
  BY DEF PartsInit
<1>1. B!RegistriesFit
  BY DEF B!Init, B!RegistriesFit
<1>2. B!FleetFits
  BY DEF B!Init, B!FleetFits
<1>3. B!DecisionsFit
  BY DEF B!Init, B!DecisionsFit
<1>4. B!ReceiptsFit
  BY DEF B!Init, B!ReceiptsFit, B!ReceiptFits
<1>5. B!JobsFit
  BY DEF B!Init, B!JobsFit, B!JobFits
<1> QED BY <1>1, <1>2, <1>3, <1>4, <1>5 DEF B!LearningInv

(* No criterion unmet: each one holds of the fresh sightings.               *)
LEMMA EveryCriterion ==
  ASSUME NEW seen, NEW contracts, NEW day, B!Criteria \ B!Met(seen, contracts, day) = {},
         NEW fresh, fresh = B!Fresh(seen, day)
  PROVE  /\ B!Cardinality({o.repo : o \in {x \in fresh : x.class = "true-positive"}})
              >= LeastRepositories
         /\ B!Count(fresh, B!Classified) >= LeastClassified
         /\ 20000 * B!Count(fresh, {"true-positive"}) >
              (200 * LeastPrecision - 1)
                * (B!Count(fresh, {"true-positive"}) + B!Count(fresh, {"false-positive"}))
         /\ \A o \in fresh : o.cost <= MostCost
<1>1. PICK sure, wrong, repos :
        /\ sure = B!Count(fresh, {"true-positive"}) /\ wrong = B!Count(fresh, {"false-positive"})
        /\ repos = {o.repo : o \in {x \in fresh : x.class = "true-positive"}}
  OBVIOUS
<1>2. PICK met : met = B!Met(seen, contracts, day)
  OBVIOUS
<1> DEFINE If(criterion, holds) == IF holds THEN {criterion} ELSE {}
<1>3. met = If("independent_repository_occurrences", B!Cardinality(repos) >= LeastRepositories)
        \cup If("classified_observation_history", B!Count(fresh, B!Classified) >= LeastClassified)
        \cup If("precision", B!Precise(sure, wrong))
        \cup If("evaluation_cost", fresh # {} /\ \A o \in fresh : o.cost <= MostCost)
        \cup If("freshness", B!Count(fresh, B!Classified) > 0)
        \cup If("candidate_contract_consistency", B!Cardinality(contracts) = 1)
  BY <1>1, <1>2 DEF B!Met
<1>4. /\ "independent_repository_occurrences" \in met /\ "classified_observation_history" \in met
      /\ "precision" \in met /\ "evaluation_cost" \in met
  BY <1>2 DEF B!Criteria
<1>5. B!Cardinality(repos) >= LeastRepositories
  BY <1>3, <1>4
<1>6. B!Count(fresh, B!Classified) >= LeastClassified
  BY <1>3, <1>4
<1>7. 20000 * sure > (200 * LeastPrecision - 1) * (sure + wrong)
  BY <1>3, <1>4 DEF B!Precise
<1>8. \A o \in fresh : o.cost <= MostCost
  BY <1>3, <1>4
<1> QED BY <1>1, <1>5, <1>6, <1>7, <1>8

(* Precision by its complement: what was wrong is the rest of what was said. *)
LEMMA PrecisionIsTheRest ==
  ASSUME NEW hits, NEW false, IsFiniteSet(hits), IsFiniteSet(false), hits \cap false = {},
         20000 * Cardinality(hits) >
           (200 * LeastPrecision - 1) * (Cardinality(hits) + Cardinality(false))
  PROVE  20000 * Cardinality(false) < (20001 - 200 * LeastPrecision) * Cardinality(hits \cup false)
<1>1. PICK sure, wrong, both :
        /\ sure = Cardinality(hits) /\ wrong = Cardinality(false)
        /\ both = Cardinality(hits \cup false)
  OBVIOUS
<1>2. sure \in Nat /\ wrong \in Nat
  BY <1>1, FS_CardinalityType
<1>3. both = sure + wrong
  <2>1. both = sure + wrong - Cardinality(hits \cap false)
    BY <1>1, FS_Union
  <2>2. Cardinality(hits \cap false) = 0
    BY FS_EmptySet
  <2> QED BY <1>2, <2>1, <2>2
<1>4. LeastPrecision \in Int
  BY LearningAssumption
<1>5. (20001 - 200 * LeastPrecision) * (sure + wrong)
        = 20000 * (sure + wrong) - (200 * LeastPrecision - 1) * (sure + wrong)
  BY <1>2, <1>4
<1>6. (200 * LeastPrecision - 1) * (sure + wrong) \in Int
  BY <1>2, <1>4
<1> QED BY <1>1, <1>2, <1>3, <1>5, <1>6

LEMMA PromotionHolds ==
  ASSUME B!LearningInv, NEW r \in Promoters, NEW id, B!InForce(r, id)
  PROVE  LET shown == d[r].evidence
             seen  == shown.groups[id].seen
             fresh == {o \in seen : o.at \in (shown.day - MostDays) .. shown.day}
             hits  == {o \in fresh : o.class = "true-positive"}
             false == {o \in fresh : o.class = "false-positive"}
         IN  /\ <<id, shown>> \in g /\ shown.status = "completed"
             /\ d[r].contract = B!Contract(B!CandidateIn(a[r], id))
             /\ \A o \in seen : <<id, o>> \in f
             /\ \A o1, o2 \in seen : B!KeyOf(o1) = B!KeyOf(o2) => o1 = o2
             /\ B!Cardinality({o.repo : o \in hits}) >= LeastRepositories
             /\ B!Cardinality({o \in fresh : o.class # "unclassified"}) >= LeastClassified
             /\ B!RightEnough(hits, false)
             /\ \A o \in fresh : o.cost <= MostCost
<1>1. PICK file, shown, com, reg :
        /\ file = d[r] /\ shown = file.evidence /\ reg = a[r] /\ com = B!CandidateIn(reg, id)
  OBVIOUS
<1>2. /\ B!Passes(reg, file) /\ com # None /\ B!Supported(file, com)
  BY <1>1 DEF B!InForce
<1>3. com.id = id
  <2>1. PICK row : row = reg.candidates
    OBVIOUS
  <2>2. PICK x \in DOMAIN row : row[x].id = id
    BY <1>1, <1>2, <2>1 DEF B!CandidateIn, B!Range
  <2>3. row \in Seq({row[y] : y \in DOMAIN row})
    BY <1>1, <1>2, <2>1, LearningAssumption DEF B!LearningInv, B!RegistriesFit, B!Passes
  <2>4. x \in Nat
    BY <2>3
  <2>5. \A l \in DOMAIN row : row[l].id = id => l = x
    BY <1>2, <2>1, <2>2 DEF B!Passes
  <2>6. PICK k : k = CHOOSE y \in DOMAIN row :
                   /\ row[y].id = id
                   /\ \A l \in DOMAIN row : row[l].id = id => y <= l
    OBVIOUS
  <2>7. \E y \in DOMAIN row : row[y].id = id /\ \A l \in DOMAIN row : row[l].id = id => y <= l
    BY <2>2, <2>4, <2>5
  <2>8. row[k].id = id
    BY <2>6, <2>7
  <2>9. com = row[k]
    BY <1>1, <1>2, <2>1, <2>6 DEF B!CandidateIn
  <2> QED BY <2>8, <2>9
<1>4. /\ file \notin {None, Torn} /\ file.status = "supported" /\ file.id = id
      /\ file.contract = B!Contract(com)
  BY <1>2, <1>3 DEF B!Supported
<1>5. /\ B!EvidenceFits(shown) /\ shown.status = "completed" /\ id \in DOMAIN shown.groups
      /\ shown.groups[id].unmet = {} /\ <<id, shown>> \in g
  BY <1>1, <1>4, LearningAssumption DEF B!LearningInv, B!ReceiptsFit, B!ReceiptFits
<1>6. PICK day, seen, contracts : /\ day = shown.day /\ seen = shown.groups[id].seen
                                  /\ contracts = shown.groups[id].contracts
  OBVIOUS
<1>7. /\ day \in Int /\ B!Recorded(id, seen) /\ B!Criteria \ B!Met(seen, contracts, day) = {}
  BY <1>5, <1>6 DEF B!EvidenceFits
<1>8. PICK fresh : fresh = B!Fresh(seen, day)
  OBVIOUS
<1>9. fresh = {o \in seen : o.at \in (day - MostDays) .. day}
  <2>1. MostDays \in Int /\ \A o \in seen : o.at \in Int
    BY <1>7, LearningAssumption DEF B!Recorded
  <2>2. \A o \in seen : (day - MostDays <= o.at /\ o.at <= day) <=> o.at \in (day - MostDays) .. day
    BY <1>7, <2>1
  <2>3. fresh = {o \in seen : day - MostDays <= o.at /\ o.at <= day}
    BY <1>8 DEF B!Fresh
  <2> QED BY <2>2, <2>3
<1>10. PICK hits, false : /\ hits = {o \in fresh : o.class = "true-positive"}
                          /\ false = {o \in fresh : o.class = "false-positive"}
  OBVIOUS
<1>11. /\ B!Cardinality({o.repo : o \in hits}) >= LeastRepositories
       /\ B!Count(fresh, B!Classified) >= LeastClassified
       /\ 20000 * B!Count(fresh, {"true-positive"}) >
            (200 * LeastPrecision - 1)
              * (B!Count(fresh, {"true-positive"}) + B!Count(fresh, {"false-positive"}))
       /\ \A o \in fresh : o.cost <= MostCost
  BY <1>7, <1>8, <1>10, EveryCriterion
<1>12. B!Cardinality({o \in fresh : o.class # "unclassified"}) >= LeastClassified
  <2>1. {o \in fresh : o.class # "unclassified"} = {o \in fresh : o.class \in B!Classified}
    BY <1>7, <1>9 DEF B!Recorded, B!ResultOf, B!Classified
  <2> QED BY <1>11, <2>1 DEF B!Count
<1>13. B!RightEnough(hits, false)
  <2>1. IsFiniteSet(seen) /\ hits \in SUBSET seen /\ false \in SUBSET seen /\ hits \cap false = {}
    BY <1>7, <1>9, <1>10, CountsInLearning DEF B!Recorded
  <2>2. IsFiniteSet(hits) /\ IsFiniteSet(false)
    BY <2>1, FS_Subset
  <2>3. /\ B!Count(fresh, {"true-positive"}) = Cardinality(hits)
        /\ B!Count(fresh, {"false-positive"}) = Cardinality(false)
    <3>1. /\ {o \in fresh : o.class \in {"true-positive"}} = hits
          /\ {o \in fresh : o.class \in {"false-positive"}} = false
      BY <1>10
    <3> QED BY <3>1, CountsInLearning DEF B!Count
  <2> QED BY <1>11, <2>1, <2>2, <2>3, PrecisionIsTheRest, CountsInLearning
      DEF B!RightEnough
<1>14. /\ \A o \in seen : <<id, o>> \in f
       /\ \A o1, o2 \in seen : B!KeyOf(o1) = B!KeyOf(o2) => o1 = o2
  BY <1>7 DEF B!Recorded
<1>15. d[r].contract = B!Contract(B!CandidateIn(a[r], id))
  BY <1>1, <1>4
<1> DEFINE Shown == d[r].evidence
           Seen  == Shown.groups[id].seen
           Of    == {o \in Seen : o.at \in (Shown.day - MostDays) .. Shown.day}
           Hits  == {o \in Of : o.class = "true-positive"}
           False == {o \in Of : o.class = "false-positive"}
<1>16. shown = Shown /\ seen = Seen /\ day = Shown.day
  BY <1>1, <1>6
<1>17. fresh = Of
  BY <1>9, <1>16
<1>18. hits = Hits /\ false = False
  BY <1>10, <1>17
<1>19. /\ <<id, Shown>> \in g /\ Shown.status = "completed"
       /\ \A o \in Seen : <<id, o>> \in f
       /\ \A o1, o2 \in Seen : B!KeyOf(o1) = B!KeyOf(o2) => o1 = o2
       /\ B!Cardinality({o.repo : o \in Hits}) >= LeastRepositories
       /\ B!Cardinality({o \in Of : o.class # "unclassified"}) >= LeastClassified
       /\ B!RightEnough(Hits, False)
       /\ \A o \in Of : o.cost <= MostCost
  <2> HIDE DEF Shown, Seen, Of, Hits, False
  <2> QED BY <1>5, <1>11, <1>12, <1>13, <1>14, <1>16, <1>17, <1>18
<1> QED BY <1>15, <1>19

(* What registries, evidence, decisions and receipts say bears each other   *)
(* out, however they are edited, aggregated, decided and checked.           *)
THEOREM LearningKept == Parts => [](part = "learning" => B!LearningInv)
<1>1. PartsInit => (part = "learning" => B!LearningInv)
  BY LearningInit
<1>2. (part = "learning" => B!LearningInv) /\ [PartsNext]_parts => (part = "learning" => B!LearningInv)'
  <2> SUFFICES ASSUME part = "learning" => B!LearningInv, [PartsNext]_parts, part' = "learning"
               PROVE  B!LearningInv'
    OBVIOUS
  <2>1. B!LearningInv /\ (B!Next \/ UNCHANGED shared)
    BY DEF PartsNext, parts, shared
  <2>2. CASE UNCHANGED shared
    <3>1. UNCHANGED <<a, b, c, d, e, f, g>>
      BY <2>2 DEF shared
    <3> QED BY <2>1, <3>1, RestKept DEF B!LearningInv
  <2> QED BY <2>1, <2>2, LearningStep
<1> QED BY <1>1, <1>2, PTL DEF Parts

(* A required gate in force was earned by evidence that somebody approved    *)
(* for the candidate's id; the precision of it is the rounded one.           *)
THEOREM PromotionEarned == Parts => []PromotionIsEarned
<1>1. (part = "learning" => B!LearningInv) => PromotionIsEarned
  BY PromotionHolds DEF PromotionIsEarned, B!PromotionIsEarned
<1> QED BY <1>1, LearningKept, PTL

-----------------------------------------------------------------------------
(* Skills.                                                                  *)

LEMMA ReviewsStand ==
  ASSUME Q!ReviewsInv, UNCHANGED <<f, g>>
  PROVE  Q!ReviewsInv'
BY DEF Q!ReviewsInv, Q!ReleaseIsReviewed, Q!ReviewStatus

\* skills in an audit: the profile goes before what is asked for.
LEMMA ReviewsScanned ==
  ASSUME Q!ReviewsInv, NEW r \in SkillRepos, Q!Scan(r)
  PROVE  Q!ReviewsInv'
<1>1. PICK profile \in {"default", "release"}, requested \in ReviewRequests, asked \in Q!Reports :
        LET mode == Q!ReviewMode(profile, requested, a[r].mode)
            reviews == Q!Reviews(Q!Selected(a[r], b[r]))
        IN  f' = [repo |-> r, section |-> a[r], profile |-> profile, mode |-> mode, reviews |-> reviews,
                  report |-> asked, status |-> Q!ReviewStatus(reviews, asked, mode)]
  BY ZenonT(60) DEF Q!Scan
<1>2. PICK reviews : reviews = Q!Reviews(Q!Selected(a[r], b[r]))
  OBVIOUS
<1>3. PICK mode : mode = Q!ReviewMode(profile, requested, a[r].mode)
  OBVIOUS
<1>4. PICK status : status = Q!ReviewStatus(reviews, asked, mode)
  OBVIOUS
<1>5. f' = [repo |-> r, section |-> a[r], profile |-> profile, mode |-> mode, reviews |-> reviews,
            report |-> asked, status |-> status]
  BY <1>1, <1>2, <1>3, <1>4
<1>6. f'.profile = "release" => f'.mode = "required"
  BY <1>3, <1>5 DEF Q!ReviewMode
<1>7. f'.status = Q!ReviewStatus(f'.reviews, f'.report, f'.mode)
  BY <1>4, <1>5
<1>8. g' = g
  BY DEF Q!Scan
<1> QED BY <1>6, <1>7, <1>8 DEF Q!ReviewsInv, Q!ReleaseIsReviewed, Q!ReviewStatus

LEMMA ReviewsFinished ==
  ASSUME Q!ReviewsInv, Q!Finish
  PROVE  Q!ReviewsInv'
<1>1. f # None /\ f' = None
  BY DEF Q!Finish
<1>2. PICK packet :
        g' = [profile |-> f.profile, reviews |-> f.reviews, report |-> f.report,
              blocked |-> Q!HandoffNeedsReview(f.status), packet |-> packet]
  BY DEF Q!Finish
<1>3. ASSUME f.profile = "release", ~Q!HandoffNeedsReview(f.status)
      PROVE  f.reviews = {} \/ f.report = f.reviews
  BY <1>1, <1>3 DEF Q!ReviewsInv, Q!ReviewStatus, Q!HandoffNeedsReview
<1>4. Q!ReleaseIsReviewed'
  BY <1>2, <1>3 DEF Q!ReleaseIsReviewed
<1> QED BY <1>1, <1>4 DEF Q!ReviewsInv

LEMMA ReviewsStep == ASSUME Q!ReviewsInv, Q!Next PROVE Q!ReviewsInv'
<1>1. ASSUME NEW r \in SkillRepos, Q!Ingest(r) PROVE UNCHANGED <<f, g>>
  BY <1>1 DEF Q!Ingest, Q!Command
<1>2. Q!AppendToCorpus \/ Q!Sync => UNCHANGED <<f, g>>
  BY DEF Q!AppendToCorpus, Q!Sync, Q!Command
<1>3. ASSUME NEW dies \in BOOLEAN, Q!Write(dies) PROVE UNCHANGED <<f, g>>
  BY <1>3 DEF Q!Write
<1> QED BY <1>1, <1>2, <1>3, ReviewsStand, ReviewsScanned, ReviewsFinished DEF Q!Next

(* Whatever is ingested, synchronized or torn: a release audit requires its  *)
(* reviews, and says so of the report it was given.                          *)
THEOREM ReviewsKept == Parts => [](part = "skills" => Q!ReviewsInv)
<1>1. PartsInit => (part = "skills" => Q!ReviewsInv)
  BY DEF PartsInit, Q!Init, Q!ReviewsInv, Q!ReleaseIsReviewed
<1>2. (part = "skills" => Q!ReviewsInv) /\ [PartsNext]_parts => (part = "skills" => Q!ReviewsInv)'
  <2> SUFFICES ASSUME part = "skills" => Q!ReviewsInv, [PartsNext]_parts, part' = "skills"
               PROVE  Q!ReviewsInv'
    OBVIOUS
  <2>1. Q!ReviewsInv /\ (Q!Next \/ UNCHANGED <<f, g>>)
    BY DEF PartsNext, parts
  <2> QED BY <2>1, ReviewsStep, ReviewsStand
<1> QED BY <1>1, <1>2, PTL DEF Parts

(* A release handoff without a request was made with a report that named     *)
(* every review: code_quality_skills.py, skill_review.py, workflow_skills.py. *)
THEOREM ReleaseReviewed == Parts => []ReleaseIsReviewed
<1>1. (part = "skills" => Q!ReviewsInv) => ReleaseIsReviewed
  BY DEF ReleaseIsReviewed, Q!ReviewsInv
<1> QED BY <1>1, ReviewsKept, PTL

-----------------------------------------------------------------------------
(* Adoption.                                                                *)

\* The files of a run, in their order: two for each rubric between the matrix
\* and the manifest.
LEMMA RubricsAreASequence ==
  /\ Len(C!Rubrics) \in Nat /\ DOMAIN C!Rubrics = 1 .. Len(C!Rubrics)
  /\ \A n \in DOMAIN CoreGates : \E k \in DOMAIN C!Rubrics : C!Rubrics[k] = CoreGates[n]
  /\ \A n \in DOMAIN BroadRubrics : \E k \in DOMAIN C!Rubrics : C!Rubrics[k] = BroadRubrics[n]
<1>1. PICK one : one = {CoreGates[n] : n \in DOMAIN CoreGates}
  OBVIOUS
<1>2. PICK two : two = {BroadRubrics[n] : n \in DOMAIN BroadRubrics}
  OBVIOUS
<1>3. CoreGates \in Seq(one) /\ BroadRubrics \in Seq(two)
  BY <1>1, <1>2, AdoptionAssumption
<1>4. CoreGates \in Seq(one \cup two) /\ BroadRubrics \in Seq(one \cup two)
  BY <1>3
<1>5. PICK size \in Nat : size = Len(CoreGates) /\ DOMAIN CoreGates = 1 .. size
  BY <1>4
<1>6. PICK broad \in Nat : broad = Len(BroadRubrics) /\ DOMAIN BroadRubrics = 1 .. broad
  BY <1>4
<1>7. PICK both : both = BroadRubrics \o CoreGates
  OBVIOUS
<1>8. both \in Seq(one \cup two) /\ Len(both) = broad + size
  BY <1>4, <1>5, <1>6, <1>7
<1>9. \A k \in 1 .. (broad + size) :
        both[k] = IF k <= broad THEN BroadRubrics[k] ELSE CoreGates[k - broad]
  BY <1>4, <1>5, <1>6, <1>7
<1>10. DOMAIN both = 1 .. (broad + size)
  BY <1>8
<1>11. ASSUME NEW n \in 1 .. size PROVE broad + n \in DOMAIN both /\ both[broad + n] = CoreGates[n]
  <2>1. broad + n \in 1 .. (broad + size) /\ ~(broad + n <= broad) /\ broad + n - broad = n
    OBVIOUS
  <2> QED BY <1>9, <1>10, <2>1
<1>12. ASSUME NEW n \in 1 .. broad PROVE n \in DOMAIN both /\ both[n] = BroadRubrics[n]
  <2>1. n \in 1 .. (broad + size) /\ n <= broad
    OBVIOUS
  <2> QED BY <1>9, <1>10, <2>1
<1>13. both = C!Rubrics
  BY <1>7 DEF C!Rubrics
<1> QED BY <1>5, <1>6, <1>8, <1>10, <1>11, <1>12, <1>13

\* Matrix first, then both documents of each rubric, manifest, plan.
LEMMA FilesInOrder ==
  /\ Len(C!WriteOrder) = 2 * Len(C!Rubrics) + 3
  /\ DOMAIN C!WriteOrder = 1 .. (2 * Len(C!Rubrics) + 3)
  /\ C!WriteOrder[1] = C!Whole("matrix")
  /\ C!WriteOrder[2 * Len(C!Rubrics) + 2] = C!Whole("manifest")
  /\ C!WriteOrder[2 * Len(C!Rubrics) + 3] = C!Whole("plan")
  /\ \A k \in DOMAIN C!Rubrics :
       /\ C!WriteOrder[2 * k] = C!Documents(C!Rubrics[k])[1]
       /\ C!WriteOrder[2 * k + 1] = C!Documents(C!Rubrics[k])[2]
<1>1. PICK size \in Nat : size = Len(C!Rubrics) /\ DOMAIN C!Rubrics = 1 .. size
  BY RubricsAreASequence
<1>2. PICK total \in Nat : total = 2 * size + 3
  OBVIOUS
<1>3. PICK order : order = C!WriteOrder
  OBVIOUS
<1>4. order = [n \in 1 .. total |->
        IF n = 1 THEN C!Whole("matrix")
        ELSE IF n <= 2 * size + 1 THEN C!Documents(C!Rubrics[n \div 2])[(n % 2) + 1]
        ELSE IF n = 2 * size + 2 THEN C!Whole("manifest") ELSE C!Whole("plan")]
  BY <1>1, <1>2, <1>3 DEF C!WriteOrder
<1>5. Len(order) = total /\ DOMAIN order = 1 .. total
  <2>1. PICK all : all = {order[n] : n \in 1 .. total}
    OBVIOUS
  <2>2. DOMAIN order = 1 .. total /\ order \in [1 .. total -> all]
    BY <1>4, <2>1
  <2> QED BY <2>2
<1>6. order[1] = C!Whole("matrix") /\ order[2 * size + 2] = C!Whole("manifest")
      /\ order[2 * size + 3] = C!Whole("plan")
  <2>1. 1 \in 1 .. total /\ 2 * size + 2 \in 1 .. total /\ 2 * size + 3 \in 1 .. total
    BY <1>2
  <2>2. order[1] = C!Whole("matrix")
    BY <1>4, <2>1
  <2>3. PICK at : at = 2 * size + 2
    OBVIOUS
  <2>4. at \in 1 .. total /\ at # 1 /\ ~(at <= 2 * size + 1)
    BY <2>1, <2>3
  <2>5. order[at] = C!Whole("manifest")
    BY <1>4, <2>3, <2>4
  <2>6. PICK end : end = 2 * size + 3
    OBVIOUS
  <2>7. end \in 1 .. total /\ end # 1 /\ ~(end <= 2 * size + 1) /\ end # 2 * size + 2
    BY <2>1, <2>6
  <2>8. order[end] = C!Whole("plan")
    BY <1>4, <2>6, <2>7
  <2> QED BY <2>2, <2>3, <2>5, <2>6, <2>8
<1>7. ASSUME NEW k \in 1 .. size
      PROVE  /\ order[2 * k] = C!Documents(C!Rubrics[k])[1]
             /\ order[2 * k + 1] = C!Documents(C!Rubrics[k])[2]
  <2>1. PICK at : at = 2 * k
    OBVIOUS
  <2>2. at \in 1 .. total /\ at # 1 /\ at <= 2 * size + 1 /\ at \div 2 = k /\ at % 2 = 0
    BY <1>2, <2>1
  <2>3. order[at] = C!Documents(C!Rubrics[k])[1]
    BY <1>4, <2>2
  <2>4. PICK end : end = 2 * k + 1
    OBVIOUS
  <2>5. end \in 1 .. total /\ end # 1 /\ end <= 2 * size + 1 /\ end \div 2 = k /\ end % 2 = 1
    BY <1>2, <2>4
  <2>6. order[end] = C!Documents(C!Rubrics[k])[2]
    BY <1>4, <2>5
  <2> QED BY <2>1, <2>3, <2>4, <2>6
<1> QED BY <1>1, <1>2, <1>3, <1>5, <1>6, <1>7

\* The documents of a rubric are two files of the run.
LEMMA DocumentsAreFiles ==
  /\ \A k \in DOMAIN C!Rubrics :
       /\ C!Range(C!Documents(C!Rubrics[k])) = {<<C!Rubrics[k], "audit">>, <<C!Rubrics[k], "implementation">>}
       /\ C!Range(C!Documents(C!Rubrics[k])) \subseteq C!Range(C!WriteOrder)
  /\ {C!Whole("matrix"), C!Whole("manifest"), C!Whole("plan")} \subseteq C!Range(C!WriteOrder)
  /\ \A file \in C!Range(C!WriteOrder) : \E k \in DOMAIN C!WriteOrder : C!WriteOrder[k] = file
<1>1. PICK size \in Nat : size = Len(C!Rubrics) /\ DOMAIN C!Rubrics = 1 .. size
  BY RubricsAreASequence
<1>2. PICK order : order = C!WriteOrder
  OBVIOUS
<1>3. DOMAIN order = 1 .. (2 * size + 3)
  BY <1>1, <1>2, FilesInOrder
<1>4. C!Range(C!WriteOrder) = {order[k] : k \in DOMAIN order}
  BY <1>2 DEF C!Range
<1>5. ASSUME NEW k \in DOMAIN C!Rubrics
      PROVE  /\ C!Range(C!Documents(C!Rubrics[k])) = {<<C!Rubrics[k], "audit">>, <<C!Rubrics[k], "implementation">>}
             /\ C!Range(C!Documents(C!Rubrics[k])) \subseteq {order[n] : n \in DOMAIN order}
  <2>1. PICK rubric : rubric = C!Rubrics[k]
    OBVIOUS
  <2>2. C!Documents(rubric) = << <<rubric, "audit">>, <<rubric, "implementation">> >>
    BY DEF C!Documents
  <2>3. C!Range(C!Documents(rubric)) = {<<rubric, "audit">>, <<rubric, "implementation">>}
    BY <2>2 DEF C!Range
  <2>4. order[2 * k] = <<rubric, "audit">> /\ order[2 * k + 1] = <<rubric, "implementation">>
    BY <1>2, <2>1, <2>2, FilesInOrder
  <2>5. 2 * k \in DOMAIN order /\ 2 * k + 1 \in DOMAIN order
    BY <1>1, <1>3
  <2> QED BY <2>1, <2>3, <2>4, <2>5
<1>6. 1 \in DOMAIN order /\ 2 * size + 2 \in DOMAIN order /\ 2 * size + 3 \in DOMAIN order
  BY <1>3
<1>7. {C!Whole("matrix"), C!Whole("manifest"), C!Whole("plan")} \subseteq {order[n] : n \in DOMAIN order}
  BY <1>1, <1>2, <1>6, FilesInOrder
<1> QED BY <1>2, <1>4, <1>5, <1>7

\* What a command holds does not depend on the other files, nor on who has
\* disturbed it already.
LEMMA JobStands ==
  ASSUME NEW x, C!JobFits(x), UNCHANGED b
  PROVE  C!JobFits(x)'
BY DEF C!JobFits

\* A job that was disturbed promises nothing more.
LEMMA DisturbedFits ==
  ASSUME NEW x, C!JobFits(x),
         NEW y, y.repo = x.repo, y.n = x.n, y.open = x.open, y.seen = x.seen, y.faults = x.faults,
         y.disturbed = TRUE
  PROVE  C!JobFits(y)'
BY DEF C!JobFits

JobFields == {"repo", "n", "open", "seen", "faults", "disturbed"}

OthersFit(proc) ==
  \A q \in Certifiers \ {proc} : c[q] # None => DOMAIN c[q] = JobFields /\ C!JobFits(c[q])

\* The jobs of the others, after one has written.
LEMMA OthersDisturbed ==
  ASSUME C!AdoptionInv, NEW proc \in Certifiers, NEW mine,
         c' = [C!Disturb(c, proc) EXCEPT ![proc] = mine]
  PROVE  /\ DOMAIN c' = Certifiers /\ c'[proc] = mine
         /\ OthersFit(proc)'
<1>1. PICK jobs : jobs = C!Disturb(c, proc)
  OBVIOUS
<1>2. jobs = [q \in Certifiers |-> IF q = proc \/ c[q] = None THEN c[q]
                                   ELSE [c[q] EXCEPT !.disturbed = TRUE]]
  BY <1>1 DEF C!Disturb
<1>3. c' = [jobs EXCEPT ![proc] = mine]
  BY <1>1
<1>4. DOMAIN c' = Certifiers /\ c'[proc] = mine
  BY <1>2, <1>3
<1>5. ASSUME NEW q \in Certifiers \ {proc}, NEW y, y = c'[q], y # None
      PROVE  DOMAIN y = JobFields /\ C!JobFits(y)'
  <2>1. c[q] # None /\ y = [c[q] EXCEPT !.disturbed = TRUE]
    BY <1>2, <1>3, <1>5
  <2>2. DOMAIN c[q] = JobFields /\ C!JobFits(c[q])
    BY <2>1 DEF C!AdoptionInv, JobFields
  <2>3. /\ DOMAIN y = JobFields /\ y.repo = c[q].repo /\ y.n = c[q].n /\ y.open = c[q].open
        /\ y.seen = c[q].seen /\ y.faults = c[q].faults /\ y.disturbed = TRUE
    BY <2>1, <2>2 DEF JobFields
  <2>4. PICK x : x = c[q]
    OBVIOUS
  <2>5. C!JobFits(y)'
    BY <2>2, <2>3, <2>4, DisturbedFits
  <2> QED BY <2>3, <2>5
<1>6. OthersFit(proc)'
  BY <1>5 DEF OthersFit
<1> QED BY <1>4, <1>6

\* A step of one command alone.
LEMMA OthersStand ==
  ASSUME C!AdoptionInv, NEW proc \in Certifiers, NEW mine,
         c' = [c EXCEPT ![proc] = mine], UNCHANGED b
  PROVE  /\ DOMAIN c' = Certifiers /\ c'[proc] = mine
         /\ OthersFit(proc)'
<1>1. DOMAIN c' = Certifiers /\ c'[proc] = mine
  BY DEF C!AdoptionInv
<1>2. ASSUME NEW q \in Certifiers \ {proc}, NEW y, y = c'[q], y # None
      PROVE  DOMAIN y = JobFields /\ C!JobFits(y)'
  <2>1. y = c[q]
    BY <1>2 DEF C!AdoptionInv
  <2>2. DOMAIN y = JobFields /\ C!JobFits(y)
    BY <1>2, <2>1 DEF C!AdoptionInv, JobFields
  <2> QED BY <2>2, JobStands
<1>3. OthersFit(proc)'
  BY <1>2 DEF OthersFit
<1> QED BY <1>1, <1>3

\* What is left to show of a step that makes no report.
LEMMA AdoptionFrom ==
  ASSUME C!AdoptionInv, NEW proc \in Certifiers,
         a' \notin {None, Torn}, DOMAIN b' = DOMAIN b, d' = None, DOMAIN c' = Certifiers,
         OthersFit(proc)',
         NEW mine, c'[proc] = mine, mine # None => DOMAIN mine = JobFields /\ C!JobFits(mine)'
  PROVE  C!AdoptionInv'
<1>1. ASSUME NEW q \in Certifiers, NEW y, y = c'[q], y # None
      PROVE  DOMAIN y = JobFields /\ C!JobFits(y)'
  <2>1. CASE q = proc
    BY <1>1, <2>1
  <2>2. CASE q # proc
    BY <1>1, <2>2 DEF OthersFit
  <2> QED BY <2>1, <2>2
<1>3. (\A q \in Certifiers : c[q] # None =>
         /\ DOMAIN c[q] = {"repo", "n", "open", "seen", "faults", "disturbed"} /\ C!JobFits(c[q]))'
  BY <1>1 DEF JobFields
<1>2. C!ReadyDocumentsAreWhole'
  BY DEF C!ReadyDocumentsAreWhole
<1> QED BY <1>2, <1>3 DEF C!AdoptionInv

\* Before the documents are read, none is judged.
LEMMA NothingJudged == ASSUME NEW k \in Int, k <= 1 PROVE C!Judged(k) = {}
<1>1. PICK all \in Nat : all = 2 * Len(C!Rubrics) /\ C!Documented = 1 .. all
  BY RubricsAreASequence DEF C!Documented
<1>2. \A n \in C!Documented : ~(n < k)
  BY <1>1
<1> QED BY <1>2 DEF C!Judged

\* One document more.
LEMMA OneMoreJudged ==
  ASSUME NEW k \in C!Documented
  PROVE  C!Judged(k + 1) = C!Judged(k) \cup {C!WriteOrder[k + 1]}
<1>1. PICK all \in Nat : all = 2 * Len(C!Rubrics) /\ C!Documented = 1 .. all
  BY RubricsAreASequence DEF C!Documented
<1>2. \A n \in C!Documented : n < k + 1 <=> n < k \/ n = k
  BY <1>1
<1>3. {n \in C!Documented : n < k + 1} = {n \in C!Documented : n < k} \cup {k}
  BY <1>2
<1> QED BY <1>3 DEF C!Judged

\* The documents are those of the rubrics, and files of the run.
LEMMA DocumentsInOrder ==
  /\ \A k \in C!Documented : C!WriteOrder[k + 1] \in C!Range(C!WriteOrder)
  /\ {C!WriteOrder[k + 1] : k \in C!Documented}
       = UNION {C!Range(C!Documents(C!Rubrics[n])) : n \in DOMAIN C!Rubrics}
<1>1. PICK many \in Nat : many = Len(C!Rubrics) /\ DOMAIN C!Rubrics = 1 .. many
  BY RubricsAreASequence
<1>2. C!Documented = 1 .. (2 * many) /\ DOMAIN C!WriteOrder = 1 .. (2 * many + 3)
  BY <1>1, FilesInOrder DEF C!Documented
<1>3. PICK order : order = C!WriteOrder
  OBVIOUS
<1>4. ASSUME NEW k \in C!Documented PROVE order[k + 1] \in C!Range(C!WriteOrder)
  <2>1. k + 1 \in DOMAIN order
    BY <1>2, <1>3
  <2> QED BY <1>3, <2>1 DEF C!Range
<1>5. ASSUME NEW n \in DOMAIN C!Rubrics
      PROVE  C!Range(C!Documents(C!Rubrics[n])) = {order[2 * n], order[2 * n + 1]}
  <2>1. PICK docs : docs = C!Documents(C!Rubrics[n])
    OBVIOUS
  <2>2. docs = <<docs[1], docs[2]>>
    BY <2>1 DEF C!Documents
  <2>3. order[2 * n] = docs[1] /\ order[2 * n + 1] = docs[2]
    BY <1>3, <2>1, FilesInOrder
  <2>4. C!Range(docs) = {docs[1], docs[2]}
    BY <2>2 DEF C!Range
  <2> QED BY <2>1, <2>3, <2>4
<1>6. ASSUME NEW k \in C!Documented
      PROVE  \E n \in DOMAIN C!Rubrics : order[k + 1] \in {order[2 * n], order[2 * n + 1]}
  <2>1. PICK n \in 1 .. many : k + 1 = 2 * n \/ k + 1 = 2 * n + 1
    <3>1. PICK half \in Nat : k = 2 * half \/ k = 2 * half + 1
      <4>1. k \div 2 \in Nat /\ (k = 2 * (k \div 2) \/ k = 2 * (k \div 2) + 1)
        BY <1>2
      <4> QED BY <4>1
    <3>2. CASE k = 2 * half
      BY <1>2, <3>2
    <3>3. CASE k = 2 * half + 1
      BY <1>2, <3>3
    <3> QED BY <3>1, <3>2, <3>3
  <2> QED BY <1>1, <2>1
<1>7. ASSUME NEW n \in DOMAIN C!Rubrics
      PROVE  {order[2 * n], order[2 * n + 1]} \subseteq {order[k + 1] : k \in C!Documented}
  <2>1. 2 * n - 1 \in C!Documented /\ 2 * n \in C!Documented
    BY <1>1, <1>2
  <2>2. order[2 * n] = order[(2 * n - 1) + 1]
    BY <1>1
  <2> QED BY <2>1, <2>2
<1>8. {order[k + 1] : k \in C!Documented}
        = UNION {C!Range(C!Documents(C!Rubrics[n])) : n \in DOMAIN C!Rubrics}
  BY <1>5, <1>6, <1>7
<1> QED BY <1>3, <1>4, <1>8

LEMMA AdoptionScans ==
  ASSUME C!AdoptionInv, NEW proc \in Certifiers, C!Scan(proc)
  PROVE  C!AdoptionInv'
<1>1. PICK mine : mine = [repo |-> a, n |-> 1, open |-> FALSE, seen |-> {}, faults |-> {},
                          disturbed |-> FALSE]
  OBVIOUS
<1>2. c' = [c EXCEPT ![proc] = mine] /\ UNCHANGED <<a, b>> /\ d' = None
  BY <1>1 DEF C!Scan
<1>3. PICK size \in Nat : size = Len(C!WriteOrder) /\ DOMAIN C!WriteOrder = 1 .. size /\ size >= 3
  BY FilesInOrder, RubricsAreASequence
<1>4. C!Judged(1 - size - 1) = {}
  BY NothingJudged, <1>3
<1>5. C!JobFits(mine)
  <2>1. mine.repo \notin {None, Torn} /\ mine.n \in Nat \ {0} /\ (mine.open => mine.n <= Len(C!WriteOrder))
    BY <1>1 DEF C!AdoptionInv
  <2>2. {y[1] : y \in mine.seen} = C!Judged(mine.n - Len(C!WriteOrder) - 1) /\ \A y \in mine.seen : y[2]
    BY <1>1, <1>3, <1>4
  <2>3. mine.faults = {} /\ \A k \in DOMAIN C!WriteOrder : ~(k < mine.n)
    BY <1>1, <1>3
  <2> QED BY <2>1, <2>2, <2>3 DEF C!JobFits
<1>6. C!JobFits(mine)' /\ DOMAIN mine = JobFields
  BY <1>1, <1>2, <1>5, JobStands DEF JobFields
<1>7. a' \notin {None, Torn}
  BY <1>2 DEF C!AdoptionInv
<1> QED BY <1>2, <1>6, <1>7, OthersStand, AdoptionFrom

LEMMA AdoptionOpens ==
  ASSUME C!AdoptionInv, NEW proc \in Certifiers, C!OpenFile(proc)
  PROVE  C!AdoptionInv'
<1>1. PICK x : x = c[proc]
  OBVIOUS
<1>2. x # None /\ DOMAIN x = JobFields /\ C!JobFits(x) /\ ~x.open /\ x.n <= Len(C!WriteOrder)
  BY <1>1 DEF C!OpenFile, C!Writing, C!AdoptionInv, JobFields
<1>3. PICK mine : mine = [x EXCEPT !.open = TRUE]
  OBVIOUS
<1>4. PICK file : file = C!WriteOrder[x.n]
  OBVIOUS
<1>5. b' = [b EXCEPT ![file] = Torn] /\ a' = a /\ d' = None
  BY <1>1, <1>4 DEF C!OpenFile
<1>6. c' = [C!Disturb(c, proc) EXCEPT ![proc] = mine]
  <2>1. c' = [C!Disturb(c, proc) EXCEPT ![proc] = [C!Disturb(c, proc)[proc] EXCEPT !.open = TRUE]]
    BY DEF C!OpenFile
  <2>2. C!Disturb(c, proc)[proc] = x
    BY <1>1 DEF C!Disturb
  <2> QED BY <1>3, <2>1, <2>2
<1>7. /\ DOMAIN mine = JobFields /\ mine.repo = x.repo /\ mine.n = x.n /\ mine.open
      /\ mine.seen = x.seen /\ mine.faults = x.faults /\ mine.disturbed = x.disturbed
  BY <1>2, <1>3 DEF JobFields
<1>8. C!JobFits(mine)'
  <2>1. ASSUME ~x.disturbed, NEW k \in DOMAIN C!WriteOrder, k < x.n
        PROVE  b'[C!WriteOrder[k]] = x.repo \/ C!WriteOrder[k] = file
    <3>1. b[C!WriteOrder[k]] = x.repo
      BY <1>2, <2>1 DEF C!JobFits
    <3> QED BY <1>5, <3>1
  <2> QED BY <1>2, <1>4, <1>7, <2>1 DEF C!JobFits
<1>9. a' \notin {None, Torn} /\ DOMAIN b' = DOMAIN b
  BY <1>5 DEF C!AdoptionInv
<1> QED BY <1>5, <1>6, <1>7, <1>8, <1>9, OthersDisturbed, AdoptionFrom

LEMMA AdoptionFills ==
  ASSUME C!AdoptionInv, NEW proc \in Certifiers, C!FillFile(proc)
  PROVE  C!AdoptionInv'
<1>1. PICK x : x = c[proc]
  OBVIOUS
<1>2. x # None /\ DOMAIN x = JobFields /\ C!JobFits(x) /\ x.open /\ x.n <= Len(C!WriteOrder)
  BY <1>1 DEF C!FillFile, C!Writing, C!AdoptionInv, JobFields
<1>3. PICK mine : mine = [x EXCEPT !.n = x.n + 1, !.open = FALSE]
  OBVIOUS
<1>4. PICK file : file = C!WriteOrder[x.n]
  OBVIOUS
<1>5. b' = [b EXCEPT ![file] = x.repo] /\ a' = a /\ d' = None
  BY <1>1, <1>4 DEF C!FillFile
<1>6. c' = [C!Disturb(c, proc) EXCEPT ![proc] = mine]
  <2>1. c' = [C!Disturb(c, proc) EXCEPT ![proc] = [C!Disturb(c, proc)[proc] EXCEPT !.n = @ + 1, !.open = FALSE]]
    BY DEF C!FillFile
  <2>2. C!Disturb(c, proc)[proc] = x
    BY <1>1 DEF C!Disturb
  <2> QED BY <1>3, <2>1, <2>2
<1>7. /\ DOMAIN mine = JobFields /\ mine.repo = x.repo /\ mine.n = x.n + 1 /\ ~mine.open
      /\ mine.seen = x.seen /\ mine.faults = x.faults /\ mine.disturbed = x.disturbed
  BY <1>2, <1>3 DEF JobFields
<1>8. PICK size \in Nat : size = Len(C!WriteOrder) /\ DOMAIN C!WriteOrder = 1 .. size
  BY FilesInOrder, RubricsAreASequence
<1>9. PICK n \in Nat \ {0} : n = x.n /\ n <= size
  BY <1>2, <1>8 DEF C!JobFits
<1>10. C!JobFits(mine)'
  <2>1. ASSUME ~x.disturbed, NEW k \in DOMAIN C!WriteOrder, k < n + 1
        PROVE  b'[C!WriteOrder[k]] = x.repo
    <3>1. file \in DOMAIN b
      BY <1>4, <1>8, <1>9 DEF C!AdoptionInv, C!Range
    <3>2. k < n \/ k = n
      BY <1>8, <2>1
    <3>3. k < n => b[C!WriteOrder[k]] = x.repo \/ C!WriteOrder[k] = file
      BY <1>2, <1>4, <1>9, <2>1 DEF C!JobFits
    <3>4. k = n => C!WriteOrder[k] = file
      BY <1>4, <1>9
    <3> QED BY <1>5, <3>1, <3>2, <3>3, <3>4
  <2>2. C!Judged(n + 1 - size - 1) = {} /\ C!Judged(n - size - 1) = {}
    BY <1>8, <1>9, NothingJudged
  <2>3. mine.faults = {} =>
          {y[1] : y \in mine.seen} = C!Judged(mine.n - Len(C!WriteOrder) - 1) /\ \A y \in mine.seen : y[2]
    <3>1. x.n - Len(C!WriteOrder) - 1 = n - size - 1 /\ mine.n - Len(C!WriteOrder) - 1 = n + 1 - size - 1
      BY <1>7, <1>8, <1>9
    <3>2. C!Judged(x.n - Len(C!WriteOrder) - 1) = {} /\ C!Judged(mine.n - Len(C!WriteOrder) - 1) = {}
      BY <2>2, <3>1
    <3> QED BY <1>2, <1>7, <3>2 DEF C!JobFits
  <2>4. mine.repo \notin {None, Torn} /\ mine.n \in Nat \ {0} /\ (~x.disturbed => mine.faults = {})
    BY <1>2, <1>7, <1>9 DEF C!JobFits
  <2> QED BY <1>7, <1>9, <2>1, <2>3, <2>4 DEF C!JobFits
<1>11. a' \notin {None, Torn} /\ DOMAIN b' = DOMAIN b
  BY <1>5 DEF C!AdoptionInv
<1> QED BY <1>5, <1>6, <1>7, <1>10, <1>11, OthersDisturbed, AdoptionFrom

LEMMA AdoptionEnds ==
  ASSUME C!AdoptionInv, NEW proc \in Certifiers, C!EndPlan(proc) \/ C!Die(proc)
  PROVE  C!AdoptionInv'
<1>1. c' = [c EXCEPT ![proc] = None] /\ UNCHANGED <<a, b>> /\ d' = None
  BY DEF C!EndPlan, C!Die
<1>2. a' \notin {None, Torn}
  BY <1>1 DEF C!AdoptionInv
<1> QED BY <1>1, <1>2, OthersStand, AdoptionFrom

\* A file that a command nobody disturbs has written is there when it is read.
LEMMA WrittenIsThere ==
  ASSUME NEW x, C!JobFits(x), x.n > Len(C!WriteOrder), ~x.disturbed
  PROVE  \A file \in C!Range(C!WriteOrder) : b[file] = x.repo /\ b[file] \notin {None, Torn}
<1>1. PICK size \in Nat : size = Len(C!WriteOrder) /\ DOMAIN C!WriteOrder = 1 .. size
  BY FilesInOrder, RubricsAreASequence
<1>2. PICK n \in Nat : n = x.n /\ n > size
  BY <1>1 DEF C!JobFits
<1>3. ~x.open
  BY <1>1, <1>2 DEF C!JobFits
<1>4. ASSUME NEW k \in DOMAIN C!WriteOrder PROVE b[C!WriteOrder[k]] = x.repo
  <2>1. k < x.n
    BY <1>1, <1>2
  <2> QED BY <1>3, <2>1 DEF C!JobFits
<1>5. x.repo \notin {None, Torn}
  BY DEF C!JobFits
<1> QED BY <1>4, <1>5, DocumentsAreFiles

LEMMA AdoptionReadsManifest ==
  ASSUME C!AdoptionInv, NEW proc \in Certifiers, C!ReadManifest(proc)
  PROVE  C!AdoptionInv'
<1>1. PICK x : x = c[proc]
  OBVIOUS
<1>2. PICK size \in Nat : size = Len(C!WriteOrder) /\ DOMAIN C!WriteOrder = 1 .. size
  BY FilesInOrder, RubricsAreASequence
<1>3. /\ x # None /\ DOMAIN x = JobFields /\ C!JobFits(x) /\ x.n = size + 1
  BY <1>1, <1>2 DEF C!ReadManifest, C!ManifestIsNext, C!Judging, C!AdoptionInv, JobFields
<1>4. ~x.open
  BY <1>2, <1>3 DEF C!JobFits
<1>5. UNCHANGED <<a, b>> /\ d' = None
  BY DEF C!ReadManifest
<1>6. a' \notin {None, Torn}
  BY <1>5 DEF C!AdoptionInv
<1>7. CASE b[C!Whole("manifest")] \in {None, Torn}
  <2>1. PICK mine : mine = [x EXCEPT !.n = C!AllJudged, !.faults = {C!Whole("manifest")}]
    OBVIOUS
  <2>2. c' = [c EXCEPT ![proc] = mine]
    BY <1>1, <1>7, <2>1 DEF C!ReadManifest
  <2>3. /\ DOMAIN mine = JobFields /\ mine.repo = x.repo /\ mine.n = C!AllJudged /\ ~mine.open
        /\ mine.seen = x.seen /\ mine.faults = {C!Whole("manifest")} /\ mine.disturbed = x.disturbed
    BY <1>3, <1>4, <2>1 DEF JobFields
  <2>4. x.disturbed
    <3>1. C!Whole("manifest") \in C!Range(C!WriteOrder)
      BY DocumentsAreFiles
    <3>2. x.n > Len(C!WriteOrder)
      BY <1>2, <1>3
    <3> QED BY <1>3, <1>7, <3>1, <3>2, WrittenIsThere
  <2>5. C!AllJudged \in Nat \ {0}
    BY <1>2, RubricsAreASequence DEF C!AllJudged
  <2>6. x.repo \notin {None, Torn}
    BY <1>3 DEF C!JobFits
  <2>7. C!JobFits(mine)'
    BY <2>3, <2>4, <2>5, <2>6 DEF C!JobFits
  <2> QED BY <1>5, <1>6, <2>2, <2>3, <2>7, OthersStand, AdoptionFrom
<1>8. CASE b[C!Whole("manifest")] \notin {None, Torn}
  <2>1. PICK mine : mine = [x EXCEPT !.n = size + 2]
    OBVIOUS
  <2>2. c' = [c EXCEPT ![proc] = mine]
    <3>1. c' = [c EXCEPT ![proc] = [x EXCEPT !.n = x.n + 1]]
      BY <1>1, <1>8 DEF C!ReadManifest
    <3>2. x.n + 1 = size + 2
      BY <1>3
    <3> QED BY <2>1, <3>1, <3>2
  <2>3. /\ DOMAIN mine = JobFields /\ mine.repo = x.repo /\ mine.n = size + 2 /\ ~mine.open
        /\ mine.seen = x.seen /\ mine.faults = x.faults /\ mine.disturbed = x.disturbed
    BY <1>3, <1>4, <2>1 DEF JobFields
  <2>4. mine.faults = {} =>
          {y[1] : y \in mine.seen} = C!Judged(mine.n - Len(C!WriteOrder) - 1) /\ \A y \in mine.seen : y[2]
    <3>1. x.n - Len(C!WriteOrder) - 1 = 0 /\ mine.n - Len(C!WriteOrder) - 1 = 1
      BY <1>2, <1>3, <2>3
    <3>2. C!Judged(x.n - Len(C!WriteOrder) - 1) = {} /\ C!Judged(mine.n - Len(C!WriteOrder) - 1) = {}
      BY <3>1, NothingJudged
    <3> QED BY <1>3, <2>3, <3>2 DEF C!JobFits
  <2>5. ~x.disturbed => \A k \in DOMAIN C!WriteOrder : b[C!WriteOrder[k]] = x.repo
    <3>1. \A k \in DOMAIN C!WriteOrder : k < x.n
      BY <1>2, <1>3
    <3> QED BY <1>3, <1>4, <3>1 DEF C!JobFits
  <2>6. x.repo \notin {None, Torn} /\ (~x.disturbed => x.faults = {}) /\ mine.n \in Nat \ {0}
    BY <1>3, <2>3 DEF C!JobFits
  <2>7. C!JobFits(mine)
    BY <2>3, <2>4, <2>5, <2>6 DEF C!JobFits
  <2>8. C!JobFits(mine)'
    BY <1>5, <2>7, JobStands
  <2> QED BY <1>5, <1>6, <2>2, <2>3, <2>8, OthersStand, AdoptionFrom
<1> QED BY <1>7, <1>8

LEMMA AdoptionReadsDocument ==
  ASSUME C!AdoptionInv, NEW proc \in Certifiers, C!ReadDocument(proc)
  PROVE  C!AdoptionInv'
<1>1. PICK x : x = c[proc]
  OBVIOUS
<1>2. PICK size \in Nat : size = Len(C!WriteOrder) /\ DOMAIN C!WriteOrder = 1 .. size
  BY FilesInOrder, RubricsAreASequence
<1>3. x # None /\ DOMAIN x = JobFields /\ C!JobFits(x) /\ x.n > size
  BY <1>1, <1>2 DEF C!ReadDocument, C!Judging, C!AdoptionInv, JobFields
<1>4. ~x.open /\ x.n \in Nat \ {0}
  BY <1>2, <1>3 DEF C!JobFits
<1>5. UNCHANGED <<a, b>> /\ d' = None
  BY DEF C!ReadDocument
<1>6. PICK k : k = x.n - Len(C!WriteOrder) - 1
  OBVIOUS
<1>7. k \in C!Documented /\ k \in Nat
  BY <1>1, <1>6, RubricsAreASequence DEF C!ReadDocument, C!Documented
<1>8. PICK docs : docs = {C!WriteOrder[k + 1]}
  OBVIOUS
<1>9. PICK more : more = {<<file, b[file] \notin {None, Torn}>> : file \in docs}
  OBVIOUS
<1>10. PICK bad : bad = C!Faults(C!WriteOrder[k + 1])
  OBVIOUS
<1>11. PICK mine : mine = [x EXCEPT !.n = x.n + 1, !.faults = x.faults \cup bad, !.seen = x.seen \cup more]
  OBVIOUS
<1>12. c' = [c EXCEPT ![proc] = mine]
  <2>1. PICK file : file = C!WriteOrder[k + 1]
    OBVIOUS
  <2>2. c' = [c EXCEPT ![proc].n = @ + 1, ![proc].faults = @ \cup bad,
                       ![proc].seen = @ \cup {<<file, b[file] \notin {None, Torn}>>}]
    BY <1>1, <1>6, <1>10, <2>1 DEF C!ReadDocument
  <2>3. more = {<<file, b[file] \notin {None, Torn}>>}
    BY <1>8, <1>9, <2>1
  <2> QED BY <1>1, <1>11, <2>2, <2>3
<1>13. /\ DOMAIN mine = JobFields /\ mine.repo = x.repo /\ mine.n = x.n + 1 /\ ~mine.open
       /\ mine.seen = x.seen \cup more /\ mine.faults = x.faults \cup bad
       /\ mine.disturbed = x.disturbed
  BY <1>3, <1>4, <1>11 DEF JobFields
<1>14. bad = {file \in docs : b[file] \in {None, Torn}}
  BY <1>8, <1>10 DEF C!Faults
<1>15. ASSUME mine.faults = {}
       PROVE  {y[1] : y \in mine.seen} = C!Judged(mine.n - Len(C!WriteOrder) - 1) /\ \A y \in mine.seen : y[2]
  <2>1. x.faults = {} /\ \A file \in docs : b[file] \notin {None, Torn}
    BY <1>13, <1>14, <1>15
  <2>2. {y[1] : y \in x.seen} = C!Judged(k) /\ \A y \in x.seen : y[2]
    BY <1>3, <1>6, <2>1 DEF C!JobFits
  <2>3. more = {<<file, TRUE>> : file \in docs}
    BY <1>9, <2>1
  <2>4. {y[1] : y \in more} = docs /\ \A y \in more : y[2]
    <3>1. ASSUME NEW y \in more PROVE y[1] \in docs /\ y[2]
      <4>1. PICK file \in docs : y = <<file, TRUE>>
        BY <2>3, <3>1
      <4> QED BY <4>1
    <3>2. ASSUME NEW file \in docs PROVE \E y \in more : y[1] = file
      <4>1. <<file, TRUE>> \in more /\ <<file, TRUE>>[1] = file
        BY <2>3, <3>2
      <4> QED BY <4>1
    <3> QED BY <3>1, <3>2
  <2>5. mine.n - Len(C!WriteOrder) - 1 = k + 1
    BY <1>2, <1>4, <1>6, <1>13
  <2>6. C!Judged(k + 1) = C!Judged(k) \cup docs
    BY <1>7, <1>8, OneMoreJudged
  <2>7. {y[1] : y \in x.seen \cup more} = {y[1] : y \in x.seen} \cup {y[1] : y \in more}
    OBVIOUS
  <2> QED BY <1>13, <2>2, <2>4, <2>5, <2>6, <2>7
<1>16. ~x.disturbed => bad = {} /\ \A n \in DOMAIN C!WriteOrder : b[C!WriteOrder[n]] = x.repo
  <2> SUFFICES ASSUME ~x.disturbed
               PROVE  bad = {} /\ \A n \in DOMAIN C!WriteOrder : b[C!WriteOrder[n]] = x.repo
    OBVIOUS
  <2>1. \A file \in C!Range(C!WriteOrder) : b[file] = x.repo /\ b[file] \notin {None, Torn}
    BY <1>2, <1>3, WrittenIsThere
  <2>2. docs \subseteq C!Range(C!WriteOrder)
    BY <1>7, <1>8, DocumentsInOrder
  <2> QED BY <1>14, <2>1, <2>2 DEF C!Range
<1>17. x.repo \notin {None, Torn} /\ (~x.disturbed => x.faults = {}) /\ mine.n \in Nat \ {0}
  BY <1>3, <1>4, <1>13 DEF C!JobFits
<1>18. C!JobFits(mine)
  BY <1>13, <1>15, <1>16, <1>17 DEF C!JobFits
<1>19. C!JobFits(mine)'
  BY <1>5, <1>18, JobStands
<1>20. a' \notin {None, Torn}
  BY <1>5 DEF C!AdoptionInv
<1> QED BY <1>5, <1>12, <1>13, <1>19, <1>20, OthersStand, AdoptionFrom

LEMMA AdoptionReports ==
  ASSUME C!AdoptionInv, NEW proc \in Certifiers, C!Report(proc)
  PROVE  C!AdoptionInv'
<1>1. PICK x : x = c[proc]
  OBVIOUS
<1>2. PICK size \in Nat : size = Len(C!WriteOrder) /\ DOMAIN C!WriteOrder = 1 .. size
  BY FilesInOrder, RubricsAreASequence
<1>3. PICK many \in Nat : many = 2 * Len(C!Rubrics) /\ C!Documented = 1 .. many
  BY RubricsAreASequence DEF C!Documented
<1>4. x # None /\ C!JobFits(x) /\ x.n = size + 2 + many
  BY <1>1, <1>2, <1>3 DEF C!Report, C!Judging, C!AllJudged, C!AdoptionInv
<1>5. c' = [c EXCEPT ![proc] = None] /\ UNCHANGED <<a, b>>
  BY DEF C!Report
<1>6. d' = [ready |-> x.faults = {}, seen |-> x.seen, disturbed |-> x.disturbed, disk |-> b]
  BY <1>1 DEF C!Report
<1>7. ASSUME x.faults = {}
      PROVE  /\ {y[1] : y \in x.seen} = UNION {C!Range(C!Documents(r)) : r \in C!Range(C!Rubrics)}
             /\ \A y \in x.seen : y[2]
  <2>1. x.n - Len(C!WriteOrder) - 1 = many + 1
    BY <1>2, <1>4
  <2>2. {y[1] : y \in x.seen} = C!Judged(many + 1) /\ \A y \in x.seen : y[2]
    BY <1>4, <1>7, <2>1 DEF C!JobFits
  <2>3. {n \in C!Documented : n < many + 1} = C!Documented
    BY <1>3
  <2>4. C!Judged(many + 1) = UNION {C!Range(C!Documents(C!Rubrics[n])) : n \in DOMAIN C!Rubrics}
    BY <2>3, DocumentsInOrder DEF C!Judged
  <2>5. PICK rubrics : rubrics = C!Rubrics
    OBVIOUS
  <2>6. C!Range(rubrics) = {rubrics[n] : n \in DOMAIN rubrics}
    BY DEF C!Range
  <2>7. {C!Range(C!Documents(r)) : r \in C!Range(rubrics)}
          = {C!Range(C!Documents(rubrics[n])) : n \in DOMAIN rubrics}
    BY <2>6
  <2> QED BY <2>2, <2>4, <2>5, <2>7
<1>8. C!ReadyDocumentsAreWhole'
  BY <1>6, <1>7 DEF C!ReadyDocumentsAreWhole
<1>9. ASSUME ~x.disturbed PROVE x.faults = {} /\ C!IsOfOne(b)
  <2>1. x.n > Len(C!WriteOrder)
    BY <1>2, <1>3, <1>4
  <2>2. \A file \in C!Range(C!WriteOrder) : b[file] = x.repo
    BY <1>4, <1>9, <2>1, WrittenIsThere
  <2>3. x.faults = {}
    BY <1>4, <1>9 DEF C!JobFits
  <2> QED BY <2>2, <2>3, DocumentsAreFiles DEF C!IsOfOne
<1>10. (d # None /\ ~d.disturbed => d.ready /\ C!IsOfOne(d.disk))'
  <2>1. PICK made : made = d' /\ made.disk = b /\ made.ready = (x.faults = {}) /\ made.disturbed = x.disturbed
    BY <1>6
  <2>2. ~made.disturbed => made.ready /\ C!IsOfOne(made.disk)
    BY <1>9, <2>1
  <2> QED BY <2>1, <2>2
<1>11. DOMAIN c' = Certifiers /\ c'[proc] = None /\ OthersFit(proc)'
  BY <1>5, OthersStand
<1>12. (\A q \in Certifiers : c[q] # None =>
          /\ DOMAIN c[q] = {"repo", "n", "open", "seen", "faults", "disturbed"} /\ C!JobFits(c[q]))'
  BY <1>11 DEF OthersFit, JobFields
<1> QED BY <1>5, <1>8, <1>10, <1>11, <1>12 DEF C!AdoptionInv

LEMMA AdoptionStands ==
  ASSUME C!AdoptionInv, UNCHANGED <<b, c>>, a' \notin {None, Torn}, UNCHANGED d \/ d' = None
  PROVE  C!AdoptionInv'
<1>1. ASSUME NEW q \in Certifiers, NEW y, y = c'[q], y # None
      PROVE  DOMAIN y = JobFields /\ C!JobFits(y)'
  <2>1. DOMAIN y = JobFields /\ C!JobFits(y)
    BY <1>1 DEF C!AdoptionInv, JobFields
  <2> QED BY <2>1, JobStands
<1>2. (\A q \in Certifiers : c[q] # None =>
         /\ DOMAIN c[q] = {"repo", "n", "open", "seen", "faults", "disturbed"} /\ C!JobFits(c[q]))'
  BY <1>1 DEF JobFields
<1>3. (d # None /\ ~d.disturbed => d.ready /\ C!IsOfOne(d.disk))'
  <2>1. CASE d' = d
    BY <2>1 DEF C!AdoptionInv
  <2>2. CASE d' = None
    BY <2>2
  <2> QED BY <2>1, <2>2
<1>4. C!ReadyDocumentsAreWhole'
  BY DEF C!ReadyDocumentsAreWhole, C!AdoptionInv
<1> QED BY <1>2, <1>3, <1>4 DEF C!AdoptionInv

LEMMA AdoptionStep == ASSUME C!AdoptionInv, C!Next PROVE C!AdoptionInv'
<1>1. CASE C!Change
  <2>1. UNCHANGED <<b, c>> /\ d' = None /\ a' \notin {None, Torn}
    BY <1>1, AdoptionAssumption DEF C!Change
  <2> QED BY <2>1, AdoptionStands
<1> QED BY <1>1, AdoptionScans, AdoptionOpens, AdoptionFills, AdoptionEnds, AdoptionReadsManifest,
           AdoptionReadsDocument, AdoptionReports DEF C!Next

(* However many commands share the directory of a run: as long as nobody    *)
(* disturbs one, what it has written is there, and it finds no fault.       *)
THEOREM AdoptionKept == Parts => [](part = "adoption" => C!AdoptionInv)
<1>1. PartsInit => (part = "adoption" => C!AdoptionInv)
  BY AdoptionAssumption DEF PartsInit, C!Init, C!AdoptionInv, C!ReadyDocumentsAreWhole
<1>2. (part = "adoption" => C!AdoptionInv) /\ [PartsNext]_parts => (part = "adoption" => C!AdoptionInv)'
  <2> SUFFICES ASSUME part = "adoption" => C!AdoptionInv, [PartsNext]_parts, part' = "adoption"
               PROVE  C!AdoptionInv'
    OBVIOUS
  <2>1. C!AdoptionInv /\ (C!Next \/ UNCHANGED <<a, b, c, d>>)
    BY DEF PartsNext, parts
  <2>2. UNCHANGED <<a, b, c, d>> => a' \notin {None, Torn}
    BY <2>1 DEF C!AdoptionInv
  <2> QED BY <2>1, <2>2, AdoptionStep, AdoptionStands
<1> QED BY <1>1, <1>2, PTL DEF Parts

(* Documents that are called ready for phase planning were all there and     *)
(* whole: repo_quality_certifier/core.py, validate_document_quality.         *)
THEOREM ReadyIsWhole == Parts => []ReadyDocumentsAreWhole
<1>1. (part = "adoption" => C!AdoptionInv) => ReadyDocumentsAreWhole
  BY DEF ReadyDocumentsAreWhole, C!AdoptionInv
<1> QED BY <1>1, AdoptionKept, PTL

\* What the files of one repository say of a gate.
LEMMA GatesSay ==
  ASSUME NEW files, C!IsOfOne(files), NEW r, r = files[C!Whole("matrix")],
         NEW n \in DOMAIN CoreGates, NEW gate, gate = CoreGates[n]
  PROVE  /\ C!Content(files[C!Whole("matrix")], C!Whole("matrix")) = C!Matrix(r)
         /\ C!Matrix(r)[gate] = C!Row(r, gate)
         /\ C!Content(files[C!Whole("plan")], C!Whole("plan"))[n] = C!Phase(gate, C!Row(r, gate))
         /\ C!Content(files[<<gate, "audit">>], <<gate, "audit">>).blockers = C!GateBlockers(C!Row(r, gate))
<1>1. files[C!Whole("plan")] = r
  BY DocumentsAreFiles DEF C!IsOfOne
<1>2. PICK k \in DOMAIN C!Rubrics : C!Rubrics[k] = gate
  BY RubricsAreASequence
<1>3. files[<<gate, "audit">>] = r
  BY <1>2, DocumentsAreFiles DEF C!IsOfOne
<1>4. gate \in C!Range(CoreGates) /\ gate \in C!Range(C!Rubrics)
  <2>1. PICK rubrics : rubrics = C!Rubrics
    OBVIOUS
  <2>2. gate \in C!Range(rubrics)
    BY <1>2, <2>1 DEF C!Range
  <2> QED BY <2>1, <2>2 DEF C!Range
<1>5. PICK matrix : matrix = C!Matrix(r)
  OBVIOUS
<1>6. matrix[gate] = C!Row(r, gate)
  BY <1>4, <1>5 DEF C!Matrix
<1>7. C!Content(r, C!Whole("matrix")) = matrix
  <2>1. PICK file : file = C!Whole("matrix")
    OBVIOUS
  <2>2. file # C!Whole("manifest") /\ file # C!Whole("plan") /\ file[2] # "audit"
    BY <2>1 DEF C!Whole
  <2> QED BY <1>5, <2>1, <2>2 DEF C!Content
<1>8. C!Content(r, C!Whole("plan")) = C!RolloutPlan(matrix)
  <2>1. PICK file : file = C!Whole("plan")
    OBVIOUS
  <2>2. file # C!Whole("manifest") /\ file # C!Whole("matrix") /\ file[2] # "audit"
    BY <2>1 DEF C!Whole
  <2> QED BY <1>5, <2>1, <2>2 DEF C!Content
<1>9. C!RolloutPlan(matrix)[n] = C!Phase(gate, matrix[gate])
  <2>1. PICK phases : phases = [m \in DOMAIN CoreGates |-> C!Phase(CoreGates[m], matrix[CoreGates[m]])]
    OBVIOUS
  <2>2. PICK size \in Nat : size = Len(CoreGates) /\ DOMAIN CoreGates = 1 .. size
    <3>1. PICK all : all = {CoreGates[m] : m \in DOMAIN CoreGates}
      OBVIOUS
    <3>2. CoreGates \in Seq(all)
      BY <3>1, AdoptionAssumption
    <3> QED BY <3>2
  <2>3. PICK all : all = {phases[m] : m \in 1 .. size}
    OBVIOUS
  <2>4. phases \in [1 .. size -> all]
    BY <2>1, <2>2, <2>3
  <2>5. phases \in Seq(all)
    BY <2>2, <2>4
  <2>6. PICK last : last = C!Certification
    OBVIOUS
  <2>7. phases \in Seq(all \cup {last})
    BY <2>5
  <2>8. Append(phases, last)[n] = phases[n]
    BY <2>2, <2>4, <2>7
  <2> QED BY <2>1, <2>6, <2>8 DEF C!RolloutPlan
<1>10. C!Content(r, <<gate, "audit">>).blockers = C!GateBlockers(matrix[gate])
  <2>1. PICK file : file = <<gate, "audit">>
    OBVIOUS
  <2>2. /\ file # C!Whole("matrix") /\ file # C!Whole("manifest") /\ file # C!Whole("plan")
        /\ file[1] = gate /\ file[2] = "audit"
    BY <2>1 DEF C!Whole
  <2>3. PICK pack : pack = C!RubricPack(matrix)
    OBVIOUS
  <2>4. C!Content(r, file) = C!AuditDocument(pack, gate)
    BY <1>5, <2>2, <2>3 DEF C!Content
  <2>5. ~C!IsBroad(gate)
    BY AdoptionAssumption DEF C!IsBroad, C!Range
  <2>6. pack[gate] = C!Rubric(matrix, gate)
    BY <1>4, <2>3 DEF C!RubricPack
  <2>7. C!Rubric(matrix, gate).blockers = C!GateBlockers(matrix[gate])
    BY <2>5 DEF C!Rubric
  <2> QED BY <2>1, <2>4, <2>6, <2>7 DEF C!AuditDocument
<1> QED BY <1>1, <1>3, <1>5, <1>6, <1>7, <1>8, <1>9, <1>10

\* What they say of a broad standard.
LEMMA StandardsSay ==
  ASSUME NEW files, C!IsOfOne(files), NEW r, r = files[C!Whole("matrix")],
         NEW broad \in C!Range(BroadRubrics)
  PROVE  C!Content(files[<<broad, "audit">>], <<broad, "audit">>).blockers
           = C!BroadBlockers(C!Matrix(r), broad)
<1>1. PICK m \in DOMAIN BroadRubrics : BroadRubrics[m] = broad
  BY DEF C!Range
<1>2. PICK k \in DOMAIN C!Rubrics : C!Rubrics[k] = broad
  BY <1>1, RubricsAreASequence
<1>3. files[<<broad, "audit">>] = r
  BY <1>2, DocumentsAreFiles DEF C!IsOfOne
<1>4. PICK file : file = <<broad, "audit">>
  OBVIOUS
<1>5. /\ file # C!Whole("matrix") /\ file # C!Whole("manifest") /\ file # C!Whole("plan")
      /\ file[1] = broad /\ file[2] = "audit"
  BY <1>4 DEF C!Whole
<1>6. PICK matrix : matrix = C!Matrix(r)
  OBVIOUS
<1>7. PICK pack : pack = C!RubricPack(matrix)
  OBVIOUS
<1>8. C!Content(r, file) = C!AuditDocument(pack, broad)
  BY <1>5, <1>6, <1>7 DEF C!Content
<1>9. broad \in C!Range(C!Rubrics)
  <2>1. PICK rubrics : rubrics = C!Rubrics
    OBVIOUS
  <2>2. broad \in C!Range(rubrics)
    BY <1>2, <2>1 DEF C!Range
  <2> QED BY <2>1, <2>2
<1>10. pack[broad] = C!Rubric(matrix, broad)
  BY <1>7, <1>9 DEF C!RubricPack
<1>11. C!Rubric(matrix, broad).blockers = C!BroadBlockers(matrix, broad)
  BY DEF C!Rubric, C!IsBroad
<1> QED BY <1>3, <1>4, <1>6, <1>8, <1>10, <1>11 DEF C!AuditDocument

\* The row, the phase and the audit of a gate are derived apart and agree.
LEMMA RowsAgree ==
  ASSUME NEW r, NEW gate, NEW row, row = C!Row(r, gate)
  PROVE  /\ (C!GateBlockers(row) = {}) <=> (row.action \in {"keep enforced", "keep skipped"})
         /\ (C!GateBlockers(row) = {}) <=> (row.maturity \in {"enforceable", "not_applicable"})
         /\ row.status \in {"absent", "partial"} => row.status \in C!GateBlockers(row)
         /\ row.evidence = {} /\ row.status # "skipped" => row.status = "absent"
         /\ row.status = "skipped" => row.evidence = {}
<1>1. PICK status : status = C!Status(r, gate)
  OBVIOUS
<1>2. PICK enforcement : enforcement = C!Enforcement(r, gate)
  OBVIOUS
<1>3. PICK evidence : evidence = C!Evidence(r, gate)
  OBVIOUS
<1>4. /\ row.status = status /\ row.enforcement = enforcement /\ row.evidence = evidence
      /\ row.maturity = C!Maturity(status, enforcement)
      /\ row.action = C!AdoptionAction(status, enforcement)
  BY <1>1, <1>2, <1>3 DEF C!Row
<1>5. /\ status \in {"absent", "partial", "present", "skipped"}
      /\ enforcement \in {"hard", "soft", "not_enforced", "accepted_exception"}
      /\ status = "skipped" <=> enforcement = "accepted_exception"
  BY <1>1, <1>2 DEF C!Status, C!Enforcement, C!FoundStatus, C!FoundEnforcement, C!IsSkipped
<1>6. (evidence = {} /\ status # "skipped" => status = "absent") /\ (status = "skipped" => evidence = {})
  BY <1>1, <1>3 DEF C!Status, C!FoundStatus, C!IsSkipped
<1>7. C!GateBlockers(row) = {} <=> /\ status \in {"present", "skipped"}
                                   /\ enforcement \in {"hard", "soft", "accepted_exception"}
  BY <1>4 DEF C!GateBlockers
<1>8. C!AdoptionAction(status, enforcement) \in {"keep enforced", "keep skipped"}
        <=> status = "skipped" \/ (status = "present" /\ enforcement # "not_enforced")
  <2>1. CASE status = "skipped"
    BY <2>1 DEF C!AdoptionAction
  <2>2. CASE status = "absent"
    BY <2>2 DEF C!AdoptionAction
  <2>3. CASE status = "partial"
    BY <2>3 DEF C!AdoptionAction
  <2>4. CASE status = "present"
    BY <2>4 DEF C!AdoptionAction
  <2> QED BY <1>5, <2>1, <2>2, <2>3, <2>4
<1>9. C!Maturity(status, enforcement) \in {"enforceable", "not_applicable"}
        <=> status = "skipped" \/ (status = "present" /\ enforcement \in {"hard", "soft"})
  <2>1. CASE status = "skipped"
    BY <2>1 DEF C!Maturity
  <2>2. CASE status = "absent"
    BY <2>2 DEF C!Maturity
  <2>3. CASE status = "partial"
    BY <2>3 DEF C!Maturity
  <2>4. CASE status = "present" /\ enforcement \in {"hard", "soft"}
    BY <2>4 DEF C!Maturity
  <2>5. CASE status = "present" /\ enforcement \notin {"hard", "soft"}
    BY <2>5 DEF C!Maturity
  <2> QED BY <1>5, <2>1, <2>2, <2>3, <2>4, <2>5
<1>10. row.status \in {"absent", "partial"} => row.status \in C!GateBlockers(row)
  BY DEF C!GateBlockers
<1>11. (C!GateBlockers(row) = {}) <=> (row.action \in {"keep enforced", "keep skipped"})
  <2>1. PICK action : action = C!AdoptionAction(status, enforcement)
    OBVIOUS
  <2>2. action \in {"keep enforced", "keep skipped"}
          <=> /\ status \in {"present", "skipped"} /\ enforcement \in {"hard", "soft", "accepted_exception"}
    BY <1>5, <1>8, <2>1
  <2>3. row.action = action
    BY <1>4, <2>1
  <2>4. C!GateBlockers(row) = {} <=> action \in {"keep enforced", "keep skipped"}
    BY <1>7, <2>2
  <2>5. C!GateBlockers(row) = {} <=> row.action \in {"keep enforced", "keep skipped"}
    BY <2>3, <2>4
  <2> QED BY <2>5
<1>12. (C!GateBlockers(row) = {}) <=> (row.maturity \in {"enforceable", "not_applicable"})
  BY <1>4, <1>5, <1>7, <1>9
<1>13. (row.evidence = {} /\ row.status # "skipped" => row.status = "absent")
       /\ (row.status = "skipped" => row.evidence = {})
  BY <1>4, <1>6
<1> QED BY <1>10, <1>11, <1>12, <1>13

\* A gate without evidence blocks every standard that is about it.
LEMMA AbsenceIsBroad ==
  ASSUME NEW r, NEW n \in DOMAIN CoreGates, NEW gate, gate = CoreGates[n],
         C!Row(r, gate).status = "absent", NEW broad, gate \in AboutRubric[broad]
  PROVE  "absent" \in C!BroadBlockers(C!Matrix(r), broad)
<1>1. PICK matrix : matrix = C!Matrix(r)
  OBVIOUS
<1>2. gate \in C!Range(CoreGates)
  BY DEF C!Range
<1>3. matrix[gate].status = "absent"
  BY <1>1, <1>2 DEF C!Matrix
<1> QED BY <1>1, <1>3 DEF C!BroadBlockers, C!BroadEvidence

\* The projections of one scan of the gates agree.
LEMMA AdoptionAgrees == C!AdoptionInv => C!ProjectionsOfGatesAgree
<1> SUFFICES ASSUME C!AdoptionInv, d # None, ~d.disturbed PROVE C!ProjectionsOfGatesAgree
  BY DEF C!ProjectionsOfGatesAgree
<1> DEFINE Says(file) == C!Content(d.disk[file], file)
           Plan == Says(C!Whole("plan"))
           RowOf(n) == Says(C!Whole("matrix"))[CoreGates[n]]
           BlockersOf(rubric) == Says(<<rubric, "audit">>).blockers
<1>1. d.ready /\ C!IsOfOne(d.disk)
  BY DEF C!AdoptionInv
<1>2. ASSUME NEW n \in DOMAIN CoreGates
      PROVE  /\ (BlockersOf(CoreGates[n]) = {}) <=> (RowOf(n).action \in {"keep enforced", "keep skipped"})
             /\ (BlockersOf(CoreGates[n]) = {}) <=> (RowOf(n).maturity \in {"enforceable", "not_applicable"})
             /\ Plan[n].blocked => RowOf(n).status \in BlockersOf(CoreGates[n])
             /\ RowOf(n).evidence = {} /\ Plan[n].type # "accepted_skip_record" =>
                  /\ Plan[n].blocked
                  /\ \A broad \in C!Range(BroadRubrics) : CoreGates[n] \in AboutRubric[broad] =>
                       "absent" \in BlockersOf(broad)
             /\ Plan[n].type = "accepted_skip_record" => ~Plan[n].blocked /\ RowOf(n).evidence = {}
  <2>1. PICK gate : gate = CoreGates[n]
    OBVIOUS
  <2>2. PICK r : r = d.disk[C!Whole("matrix")]
    OBVIOUS
  <2>3. PICK files : files = d.disk
    OBVIOUS
  <2>4. PICK row : row = C!Row(r, gate)
    OBVIOUS
  <2>5. RowOf(n) = row /\ Plan[n] = C!Phase(gate, row) /\ BlockersOf(gate) = C!GateBlockers(row)
    BY <1>1, <2>1, <2>2, <2>3, <2>4, GatesSay
  <2>6. /\ C!Phase(gate, row).blocked = (row.status \in {"absent", "partial"})
        /\ C!Phase(gate, row).type = "accepted_skip_record" <=> row.status = "skipped"
    BY DEF C!Phase
  <2>7. /\ (C!GateBlockers(row) = {}) <=> (row.action \in {"keep enforced", "keep skipped"})
        /\ (C!GateBlockers(row) = {}) <=> (row.maturity \in {"enforceable", "not_applicable"})
        /\ row.status \in {"absent", "partial"} => row.status \in C!GateBlockers(row)
        /\ row.evidence = {} /\ row.status # "skipped" => row.status = "absent"
        /\ row.status = "skipped" => row.evidence = {}
    BY <2>4, RowsAgree
  <2>8. ASSUME row.status = "absent", NEW broad \in C!Range(BroadRubrics), gate \in AboutRubric[broad]
        PROVE  "absent" \in BlockersOf(broad)
    <3>1. "absent" \in C!BroadBlockers(C!Matrix(r), broad)
      BY <2>1, <2>4, <2>8, AbsenceIsBroad
    <3> QED BY <1>1, <2>2, <2>3, <2>8, <3>1, StandardsSay
  <2> HIDE DEF Plan, RowOf, BlockersOf
  <2> QED BY <2>1, <2>5, <2>6, <2>7, <2>8
<1> QED BY <1>1, <1>2 DEF C!ProjectionsOfGatesAgree

(* Matrix, rubrics and plan, which are derived apart, agree about every gate *)
(* in what an undisturbed command leaves: repo_quality_certifier/core.py.    *)
THEOREM ProjectionsAgree == Parts => []ProjectionsOfGatesAgree
<1>1. (part = "adoption" => C!AdoptionInv) => ProjectionsOfGatesAgree
  BY AdoptionAgrees DEF ProjectionsOfGatesAgree
<1> QED BY <1>1, AdoptionKept, PTL

=============================================================================
