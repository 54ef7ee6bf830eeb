------------------------ MODULE TimeoutBaselineProofs ------------------------
(* Why an active timeout baseline never ends a refresh that does no more    *)
(* than one it was learned from. *)
EXTENDS TimeoutBaseline, FiniteSetTheorems, SequenceTheorems, WellFoundedInduction, TLAPS

-----------------------------------------------------------------------------
(* Arithmetic of the margins *)

LEMMA Margins ==
  ASSUME NEW x \in Nat
  PROVE  /\ UpBy(x, 115) \in Nat /\ x <= UpBy(x, 115)
         /\ UpBy(x, 150) \in Nat /\ x <= UpBy(x, 150)
BY DEF UpBy

\* Below twenty samples the rank of the 95th percentile is the last one.
LEMMA LastRank ==
  ASSUME NEW n \in 1 .. 19
  PROVE  Rank(n) = n
BY DEF Rank, UpBy

LEMMA LargerBounds ==
  ASSUME NEW x \in Nat, NEW y \in Nat
  PROVE  Larger(x, y) \in Nat /\ x <= Larger(x, y) /\ y <= Larger(x, y)
BY DEF Larger

\* Of finitely many numbers one is the greatest: the sets of those greater
\* than a given one are well-founded by inclusion.
LEMMA Greatest ==
  ASSUME NEW n \in Nat \ {0}, NEW f \in [1 .. n -> Nat]
  PROVE  \E j \in 1 .. n : \A i \in 1 .. n : f[i] <= f[j]
<1> DEFINE S == 1 .. n
           Above(j) == {i \in S : f[i] > f[j]}
           Family == {Above(j) : j \in S}
<1>1. IsFiniteSet(S)
  BY FS_Interval
<1>2. Family \subseteq FiniteSubsetsOf(S)
  <2>1. \A j \in S : Above(j) \in SUBSET S
    OBVIOUS
  <2>2. \A T \in SUBSET S : IsFiniteSet(T)
    BY <1>1, FS_Subset
  <2> QED BY <2>1, <2>2 DEF FiniteSubsetsOf
<1>3. Family # {}
  <2>1. 1 \in S
    OBVIOUS
  <2>2. Above(1) \in Family
    BY <2>1
  <2> QED BY <2>2
<1>4. PICK T \in Family : \A U \in Family : ~ (<<U, T>> \in StrictSubsetOrdering(S))
  BY <1>2, <1>3, FS_StrictSubsetOrderingWellFounded, WFMin
<1>5. PICK j \in S : T = Above(j)
  BY DEF Family
<1>6. ASSUME NEW i \in S, f[i] > f[j]
      PROVE  FALSE
  <2>1. Above(i) \in Family
    BY DEF Family
  <2>2. Above(i) \subseteq Above(j)
    BY <1>6
  <2>3. i \in Above(j) /\ i \notin Above(i)
    BY <1>6
  <2>4. Above(i) \in SUBSET S /\ Above(j) \in SUBSET S
    OBVIOUS
  <2>5. <<Above(i), Above(j)>> \in StrictSubsetOrdering(S)
    BY <2>2, <2>3, <2>4 DEF StrictSubsetOrdering
  <2> QED BY <1>4, <1>5, <2>1, <2>5
<1>7. \A i \in S : f[i] <= f[j]
  BY <1>6
<1> QED BY <1>7

-----------------------------------------------------------------------------
Sample == [id : Nat, work : Works, identity : {[static |-> r.static, plan |-> r.plan] : r \in Repositories}]

Samples == {s \in Seq(Sample) : Len(s) \in 1 .. SampleLimit}

\* With no more samples than the baseline keeps, the percentile is the
\* greatest of them.
LEMMA PercentileIsGreatest ==
  ASSUME NEW samples \in Samples, NEW p \in Phases
  PROVE  /\ Percentile(samples, p) \in Nat
         /\ \A i \in DOMAIN samples : samples[i].work[p] <= Percentile(samples, p)
<1> DEFINE n == Len(samples)
           f == [i \in 1 .. n |-> samples[i].work[p]]
           Good(v) == /\ Cardinality({i \in DOMAIN samples : samples[i].work[p] < v}) < Rank(n)
                      /\ Cardinality({i \in DOMAIN samples : samples[i].work[p] <= v}) >= Rank(n)
           values == {samples[i].work[p] : i \in DOMAIN samples}
<1>1. n \in 1 .. 19 /\ DOMAIN samples = 1 .. n
  <2>1. samples \in Seq(Sample) /\ Len(samples) \in 1 .. SampleLimit
    BY DEF Samples
  <2>2. SampleLimit \in 1 .. 19
    BY SampleAssumption
  <2>3. n \in 1 .. 19
    <3>1. n \in 1 .. SampleLimit
      BY <2>1
    <3> HIDE DEF n
    <3> QED BY <3>1, <2>2
  <2>4. DOMAIN samples = 1 .. n
    BY <2>1
  <2> QED BY <2>3, <2>4
<1>2. \A i \in 1 .. n : samples[i].work[p] \in Nat
  <2> SUFFICES ASSUME NEW i \in 1 .. n PROVE samples[i].work[p] \in Nat
    OBVIOUS
  <2>1. samples[i] \in Sample
    BY <1>1 DEF Samples
  <2>2. samples[i].work \in [Phases -> 0 .. MaxSeconds] /\ MaxSeconds \in Nat
    BY <2>1, SampleAssumption DEF Sample
  <2> QED BY <2>2
<1>3. f \in [1 .. n -> Nat] /\ \A i \in 1 .. n : f[i] = samples[i].work[p]
  BY <1>2
<1>4. Rank(n) = n
  BY <1>1, LastRank
<1>5. IsFiniteSet(1 .. n) /\ Cardinality(1 .. n) = n
  BY <1>1, FS_Interval
<1>6. \E v \in values : Good(v)
  <2>1. \E j \in 1 .. n : \A i \in 1 .. n : f[i] <= f[j]
    <3> HIDE DEF f
    <3>1. n \in Nat \ {0}
      BY <1>1
    <3> HIDE DEF n
    <3> QED BY <3>1, <1>3, Greatest
  <2>0. PICK j \in 1 .. n : \A i \in 1 .. n : samples[i].work[p] <= samples[j].work[p]
    BY <2>1
  <2> DEFINE top == samples[j].work[p]
             Less == {i \in DOMAIN samples : samples[i].work[p] < top}
             Most == {i \in DOMAIN samples : samples[i].work[p] <= top}
  <2>2. top \in values
    BY <1>1
  <2>3. Most = 1 .. n
    BY <2>0, <1>1, <1>2
  <2>4. Less \in SUBSET (1 .. n) /\ j \notin Less
    BY <1>1, <1>2
  <2>5. IsFiniteSet(Less) /\ Cardinality(Less) <= n /\ Cardinality(Less) # n
    BY <2>4, <1>5, FS_Subset
  <2>6. Cardinality(Less) \in Nat
    BY <2>5, FS_CardinalityType
  <2>7. Cardinality(Less) < n
    BY <2>5, <2>6, <1>1
  <2>8. Cardinality(Most) = n
    BY <2>3, <1>5
  <2>9. Cardinality(Less) < Rank(n) /\ Cardinality(Most) >= Rank(n)
    <3>1. n \in Nat
      BY <1>1
    <3> HIDE DEF n, Less, Most
    <3> QED BY <3>1, <2>7, <2>8, <1>4
  <2>10. Good(top)
    BY <2>9, Zenon
  <2> QED BY <2>2, <2>10
<1>7. Percentile(samples, p) \in values /\ Good(Percentile(samples, p))
  BY <1>6 DEF Percentile
<1> DEFINE c == Percentile(samples, p)
           Most == {i \in DOMAIN samples : samples[i].work[p] <= c}
<1>8. Most \in SUBSET (1 .. n)
  BY <1>1
<1>9. IsFiniteSet(Most) /\ Cardinality(Most) <= n /\ (Cardinality(Most) = n => Most = 1 .. n)
  BY <1>8, <1>5, FS_Subset
<1>10. Cardinality(Most) \in Nat
  BY <1>9, FS_CardinalityType
<1>11. Cardinality(Most) >= n
  BY <1>7, <1>4
<1>12. Most = 1 .. n
  BY <1>9, <1>10, <1>11, <1>1
<1>13. c \in Nat
  BY <1>7, <1>1, <1>2
<1> QED BY <1>12, <1>13, <1>1

-----------------------------------------------------------------------------
\* What is learned from samples has room for each of them.
LEMMA LearnedFits ==
  ASSUME NEW samples \in Samples, NEW gate \in Nat, NEW later \in Nat, NEW i \in DOMAIN samples,
         NEW o, o.explicit = <<>>
  PROVE  ~TimesOut(samples[i].work, Contract(o, AtLeastGate(ActiveTimeouts(samples, gate), later)))
<1> DEFINE w == samples[i].work
           b == [p \in Phases |-> Larger(Floor(p, gate), UpBy(Percentile(samples, p), 150))]
           a == ActiveTimeouts(samples, gate)
           l == AtLeastGate(a, later)
           c == Contract(o, l)
<1>1. samples[i] \in Sample
  BY DEF Samples
<1>2. w \in [Phases -> Nat]
  BY <1>1, SampleAssumption DEF Sample
<1>3. \A p \in Phases : b[p] \in Nat /\ w[p] <= b[p]
  <2> SUFFICES ASSUME NEW p \in Phases PROVE b[p] \in Nat /\ w[p] <= b[p]
    OBVIOUS
  <2> DEFINE q == Percentile(samples, p)
  <2>1. q \in Nat /\ w[p] <= q
    BY PercentileIsGreatest
  <2>2. UpBy(q, 150) \in Nat /\ q <= UpBy(q, 150)
    BY <2>1, Margins
  <2>3. Floor(p, gate) \in Nat
    BY LargerBounds DEF Floor
  <2>4. Larger(Floor(p, gate), UpBy(q, 150)) \in Nat /\ UpBy(q, 150) <= Larger(Floor(p, gate), UpBy(q, 150))
    BY <2>2, <2>3, LargerBounds
  <2>5. w[p] \in Nat
    BY <1>2
  <2> QED BY <2>1, <2>2, <2>4, <2>5
<1> DEFINE sum == b["inspect"] + b["run"] + b["verify"]
<1>4. sum \in Nat /\ w["inspect"] + w["run"] + w["verify"] <= sum
  BY <1>2, <1>3 DEF Phases
<1>5. TotalOf(b) \in Nat /\ sum <= TotalOf(b)
  <2>1. UpBy(sum, 115) \in Nat /\ sum <= UpBy(sum, 115)
    BY <1>4, Margins
  <2>2. Larger(180, UpBy(sum, 115)) \in Nat /\ UpBy(sum, 115) <= Larger(180, UpBy(sum, 115))
    <3> HIDE DEF sum
    <3>1. 180 \in Nat
      OBVIOUS
    <3> QED BY <2>1, <3>1, LargerBounds
  <2> QED BY <1>4, <2>1, <2>2 DEF TotalOf
<1>6. /\ a = [p \in Phases \cup {"total"} |-> IF p = "total" THEN TotalOf(b) ELSE b[p]]
  BY DEF ActiveTimeouts, WithTotal
<1>7. /\ DOMAIN l = Phases \cup {"total"}
      /\ \A p \in Phases : l[p] \in Nat /\ b[p] <= l[p]
      /\ l["total"] \in Nat /\ TotalOf(b) <= l["total"]
  <2>1. /\ a["inspect"] = b["inspect"] /\ a["run"] = b["run"] /\ a["verify"] = b["verify"]
        /\ a["total"] = TotalOf(b)
    BY <1>6 DEF Phases
  <2>2. /\ l["inspect"] = b["inspect"] /\ l["run"] = b["run"]
        /\ l["verify"] = Larger(b["verify"], later)
        /\ l["total"] = Larger(TotalOf(b), later)
        /\ DOMAIN l = Phases \cup {"total"}
    BY <1>6, <2>1 DEF AtLeastGate, Phases
  <2>3. /\ Larger(b["verify"], later) \in Nat /\ b["verify"] <= Larger(b["verify"], later)
        /\ Larger(TotalOf(b), later) \in Nat /\ TotalOf(b) <= Larger(TotalOf(b), later)
    BY <1>3, <1>5, LargerBounds DEF Phases
  <2> QED BY <2>2, <2>3, <1>3 DEF Phases
<1>8. /\ DOMAIN c = Phases \cup {"total"}
      /\ \A p \in Phases \cup {"total"} : c[p] = l[p]
  <2> HIDE DEF l
  <2>1. l \in [Phases \cup {"total"} -> Nat]
    <3>1. l = [p \in Phases \cup {"total"} |-> l[p]]
      BY <1>6 DEF l, AtLeastGate
    <3> QED BY <3>1, <1>7
  <2>2. l # None
    BY <2>1, NoneAssumption
  <2>3. DOMAIN o.explicit = {}
    OBVIOUS
  <2> QED BY <2>2, <2>3 DEF Contract
<1>9. \A p \in Phases : w[p] <= c[p]
  BY <1>2, <1>3, <1>7, <1>8
<1>10. w["inspect"] + w["run"] + w["verify"] <= c["total"]
  BY <1>2, <1>4, <1>5, <1>7, <1>8 DEF Phases
<1>11. \A p \in Phases : w[p] \in Nat /\ c[p] \in Nat
  BY <1>2, <1>7, <1>8
<1> QED BY <1>9, <1>10, <1>11, <1>7, <1>8, <1>2 DEF TimesOut, Phases

-----------------------------------------------------------------------------
(* The inductive invariant: what is said of the file also holds of what a   *)
(* refresh has read of it, and no refresh under way is among the samples.   *)

Identities == {[static |-> r.static, plan |-> r.plan] : r \in Repositories}

\* A baseline as it is written.
Learned(c) ==
  c # None =>
    /\ c.samples \in Samples
    /\ c.state = "active" => /\ Len(c.samples) >= ActivationSamples
                             /\ \E g \in Nat : c.learned = ActiveTimeouts(c.samples, g)

\* Its samples are of different refreshes that were whole, of one identity.
Comparable(c) ==
  c # None =>
    /\ \A i, j \in DOMAIN c.samples : c.samples[i].id = c.samples[j].id => i = j
    /\ \A i \in DOMAIN c.samples :
         /\ [id |-> c.samples[i].id, work |-> c.samples[i].work] \in whole
         /\ c.samples[i].identity = c.identity
         /\ c.samples[i].id <= started

\* The refresh `id` is not among them.
Without(c, id) == c # None => \A i \in DOMAIN c.samples : c.samples[i].id # id

Busy == {p \in Processes : refresh[p].pc # "idle"}
Recording == {p \in Processes : refresh[p].pc = "recording"}

RefreshType ==
  /\ DOMAIN refresh = Processes
  /\ \A p \in Processes : refresh[p].pc \in {"idle", "working", "recording"}
  /\ \A p \in Processes : refresh[p].pc = "working" => refresh[p].options \in Options
  /\ \A p \in Recording : /\ refresh[p].gate \in Nat /\ refresh[p].work \in Works
                          /\ refresh[p].identity \in Identities
                          /\ [id |-> refresh[p].id, work |-> refresh[p].work] \in whole

Ids ==
  /\ started \in Nat
  /\ \A p \in Busy : refresh[p].id \in Nat /\ refresh[p].id <= started
  /\ \A p, q \in Busy : refresh[p].id = refresh[q].id => p = q
  /\ \A p \in Busy : Without(cache, refresh[p].id)
  /\ \A p \in Busy, q \in Recording : Without(refresh[q].read, refresh[p].id)

ReadIsLearned(p) == Learned(refresh[p].read) /\ Comparable(refresh[p].read)

IInv ==
  /\ repo \in Repositories
  /\ RefreshType
  /\ Ids
  /\ Learned(cache) /\ Comparable(cache)
  /\ \A p \in Recording : ReadIsLearned(p)

-----------------------------------------------------------------------------
\* The last n elements are elements, in their order.
LEMMA LastOfElements ==
  ASSUME NEW S, NEW s \in Seq(S), NEW n \in Nat
  PROVE  /\ LastOf(s, n) \in Seq(S)
         /\ Len(LastOf(s, n)) = IF Len(s) <= n THEN Len(s) ELSE n
         /\ \E k \in Nat : \A i \in 1 .. Len(LastOf(s, n)) : i + k \in 1 .. Len(s) /\ LastOf(s, n)[i] = s[i + k]
<1>1. CASE Len(s) <= n
  <2>1. LastOf(s, n) = s
    BY <1>1 DEF LastOf
  <2>2. \A i \in 1 .. Len(s) : i + 0 \in 1 .. Len(s) /\ s[i] = s[i + 0]
    OBVIOUS
  <2> QED BY <1>1, <2>1, <2>2
<1>2. CASE ~(Len(s) <= n)
  <2> DEFINE k == Len(s) - n
  <2>1. LastOf(s, n) = SubSeq(s, k + 1, Len(s))
    BY <1>2 DEF LastOf
  <2>2. k \in Nat /\ k + 1 \in 1 .. Len(s) + 1 /\ Len(s) \in Nat
    BY <1>2
  <2>3. /\ SubSeq(s, k + 1, Len(s)) \in Seq(S)
        /\ Len(SubSeq(s, k + 1, Len(s))) = n
        /\ \A i \in 1 .. n : i + k \in 1 .. Len(s) /\ SubSeq(s, k + 1, Len(s))[i] = s[i + k]
    BY <1>2, <2>2
  <2> QED BY <1>2, <2>1, <2>2, <2>3
<1> QED BY <1>1, <1>2

LEMMA LastOfOffset ==
  ASSUME NEW S, NEW s \in Seq(S), NEW n \in Nat
  PROVE  \E k \in Nat : \A i \in 1 .. Len(LastOf(s, n)) : i + k \in 1 .. Len(s) /\ LastOf(s, n)[i] = s[i + k]
BY LastOfElements

\* Adding a refresh that was not there keeps a baseline what it is.
LEMMA BaselineIsLearned ==
  ASSUME NEW r, Learned(r.read), Comparable(r.read), Without(r.read, r.id),
         r.gate \in Nat, r.work \in Works, r.identity \in Identities,
         r.id \in Nat, started \in Nat, r.id <= started,
         [id |-> r.id, work |-> r.work] \in whole
  PROVE  /\ Learned(Baseline(r)) /\ Comparable(Baseline(r))
         /\ \A id : id # r.id /\ Without(r.read, id) => Without(Baseline(r), id)
<1> DEFINE sample == [id |-> r.id, work |-> r.work, identity |-> r.identity]
           kept == KeptSamples(r.read, r.identity)
           all == Append(kept, sample)
           samples == LastOf(all, SampleLimit)
           b == Baseline(r)
<1>1. sample \in Sample
  BY DEF Sample, Identities
<1>2. kept \in Seq(Sample) /\ Len(kept) <= SampleLimit
  BY SampleAssumption DEF KeptSamples, Learned, Samples
<1>3. \A i \in DOMAIN kept :
        /\ [id |-> kept[i].id, work |-> kept[i].work] \in whole
        /\ kept[i].identity = r.identity /\ kept[i].id <= started /\ kept[i].id # r.id
  BY DEF KeptSamples, Comparable, Without
<1>4. \A i, j \in DOMAIN kept : kept[i].id = kept[j].id => i = j
  BY DEF KeptSamples, Comparable
<1>5. \A id : Without(r.read, id) => \A i \in DOMAIN kept : kept[i].id # id
  BY DEF KeptSamples, Without
<1> HIDE DEF kept
<1>6. /\ all \in Seq(Sample) /\ Len(all) = Len(kept) + 1 /\ DOMAIN all = 1 .. Len(all)
      /\ DOMAIN kept = 1 .. Len(kept) /\ Len(kept) \in Nat
      /\ all[Len(all)] = sample
      /\ \A i \in 1 .. Len(kept) : all[i] = kept[i]
  BY <1>1, <1>2
<1>7. \A i \in 1 .. Len(all) :
        /\ [id |-> all[i].id, work |-> all[i].work] \in whole
        /\ all[i].identity = r.identity /\ all[i].id <= started
  <2> SUFFICES ASSUME NEW i \in 1 .. Len(all)
               PROVE  /\ [id |-> all[i].id, work |-> all[i].work] \in whole
                      /\ all[i].identity = r.identity /\ all[i].id <= started
    OBVIOUS
  <2>1. CASE i = Len(all)
    BY <1>6, <2>1
  <2>2. CASE i # Len(all)
    <3>1. i \in DOMAIN kept /\ all[i] = kept[i]
      BY <1>6, <2>2
    <3> QED BY <3>1, <1>3
  <2> QED BY <2>1, <2>2
<1>8. \A i, j \in 1 .. Len(all) : all[i].id = all[j].id => i = j
  <2> SUFFICES ASSUME NEW i \in 1 .. Len(all), NEW j \in 1 .. Len(all), all[i].id = all[j].id
               PROVE  i = j
    OBVIOUS
  <2>0. \A m \in 1 .. Len(all) : m # Len(all) => m \in DOMAIN kept /\ all[m] = kept[m]
    BY <1>6
  <2>1. \A m \in 1 .. Len(all) : m # Len(all) => m \in DOMAIN kept /\ all[m] = kept[m] /\ all[m].id # r.id
    BY <2>0, <1>3
  <2>2. all[Len(all)].id = r.id
    BY <1>6
  <2>3. CASE i # Len(all) /\ j # Len(all)
    BY <2>1, <2>3, <1>4
  <2>4. CASE i = Len(all) \/ j = Len(all)
    BY <2>1, <2>2, <2>4
  <2> QED BY <2>3, <2>4
<1>9. \A id : id # r.id /\ Without(r.read, id) => \A i \in 1 .. Len(all) : all[i].id # id
  <2> SUFFICES ASSUME NEW id, id # r.id, Without(r.read, id), NEW i \in 1 .. Len(all)
               PROVE  all[i].id # id
    OBVIOUS
  <2>1. CASE i = Len(all)
    BY <1>6, <2>1
  <2>2. CASE i # Len(all)
    <3>1. i \in DOMAIN kept /\ all[i] = kept[i]
      BY <1>6, <2>2
    <3> QED BY <3>1, <1>5
  <2> QED BY <2>1, <2>2
<1> HIDE DEF all
<1>10. SampleLimit \in Nat /\ SampleLimit \in 1 .. 19 /\ ActivationSamples \in 1 .. SampleLimit
  BY SampleAssumption
<1>11. /\ samples \in Seq(Sample)
       /\ Len(samples) = IF Len(all) <= SampleLimit THEN Len(all) ELSE SampleLimit
  BY <1>6, <1>10, LastOfElements
<1>12. PICK k \in Nat : \A i \in 1 .. Len(samples) : i + k \in 1 .. Len(all) /\ samples[i] = all[i + k]
  <2>1. all \in Seq(Sample)
    BY <1>6
  <2>2. SampleLimit \in Nat
    BY <1>10
  <2>3. \E k \in Nat : \A i \in 1 .. Len(LastOf(all, SampleLimit)) :
          i + k \in 1 .. Len(all) /\ LastOf(all, SampleLimit)[i] = all[i + k]
    BY <2>1, <2>2, LastOfOffset
  <2> QED BY <2>3
<1> HIDE DEF samples
<1>13. samples \in Samples /\ DOMAIN samples = 1 .. Len(samples)
  BY <1>6, <1>10, <1>11 DEF Samples
<1>14. /\ b.samples = samples /\ b.identity = r.identity
       /\ b.state = IF Len(samples) >= ActivationSamples THEN "active" ELSE "candidate"
       /\ Len(samples) >= ActivationSamples => b.learned = ActiveTimeouts(samples, r.gate)
  BY DEF Baseline, samples, all, kept
<1> HIDE DEF b
<1>15. Learned(b)
  BY <1>13, <1>14 DEF Learned
<1>16. \A i, j \in 1 .. Len(samples) : samples[i].id = samples[j].id => i = j
  <2> SUFFICES ASSUME NEW i \in 1 .. Len(samples), NEW j \in 1 .. Len(samples),
                      samples[i].id = samples[j].id
               PROVE  i = j
    OBVIOUS
  <2>1. i + k = j + k
    BY <1>12, <1>8
  <2> QED BY <2>1
<1>17. Comparable(b)
  <2>1. \A i \in 1 .. Len(samples) :
          /\ [id |-> samples[i].id, work |-> samples[i].work] \in whole
          /\ samples[i].identity = r.identity /\ samples[i].id <= started
    BY <1>12, <1>7
  <2> QED BY <2>1, <1>13, <1>14, <1>16 DEF Comparable
<1>18. \A id : id # r.id /\ Without(r.read, id) => Without(b, id)
  BY <1>9, <1>12, <1>13, <1>14 DEF Without
<1> QED BY <1>15, <1>17, <1>18 DEF b

-----------------------------------------------------------------------------
LEMMA InitIInv == Init => IInv
BY DEF Init, IInv, ReadIsLearned, RefreshType, Ids, Learned, Comparable, Without, Busy, Recording, Idle

LEMMA SampleIds ==
  ASSUME NEW c, Learned(c), c # None
  PROVE  \A i \in DOMAIN c.samples : c.samples[i].id \in Nat
<1>1. c.samples \in Seq(Sample)
  BY DEF Learned, Samples
<1>2. \A i \in DOMAIN c.samples : c.samples[i] \in Sample
  BY <1>1
<1> QED BY <1>2 DEF Sample

\* A process that ends its refresh without having written anything.
LEMMA ReadKept ==
  ASSUME NEW q, NEW c, c = refresh'[q].read, Learned(c), Comparable(c)'
  PROVE  ReadIsLearned(q)'
BY DEF ReadIsLearned, Comparable

LEMMA GoesIdle ==
  ASSUME IInv, NEW p \in Processes, refresh' = [refresh EXCEPT ![p] = Idle],
         repo' \in Repositories, cache' = cache \/ cache' = None, started' = started, whole' = whole
  PROVE  IInv'
<1>1. /\ DOMAIN refresh' = Processes /\ refresh'[p].pc = "idle"
      /\ \A q \in Processes : q # p => refresh'[q] = refresh[q]
  BY DEF IInv, RefreshType, Idle
<1>2. Busy' \subseteq Busy /\ Recording' \subseteq Recording /\ p \notin Busy' /\ p \notin Recording'
  BY <1>1 DEF Busy, Recording
<1>3. RefreshType'
  BY <1>1, <1>2 DEF IInv, RefreshType, Recording
<1>4. Ids'
  BY <1>1, <1>2 DEF IInv, Ids, Without
<1>5. Learned(cache)' /\ Comparable(cache)'
  BY DEF IInv, Learned, Comparable
<1>6. \A q \in Recording' : ReadIsLearned(q)'
  BY <1>1, <1>2 DEF IInv, ReadIsLearned, Learned, Comparable
<1> QED BY <1>3, <1>4, <1>5, <1>6 DEF IInv

LEMMA StepIInv == IInv /\ [Next]_vars => IInv'
<1> SUFFICES ASSUME IInv, [Next]_vars PROVE IInv'
  OBVIOUS
<1>1. ASSUME NEW p \in Processes, Start(p) PROVE IInv'
  <2>. PICK o \in Options : \E c :
         refresh' = [refresh EXCEPT ![p] = [pc |-> "working", id |-> started', options |-> o, contract |-> c]]
    BY <1>1 DEF Start
  <2>1. PICK c :
          refresh' = [refresh EXCEPT ![p] = [pc |-> "working", id |-> started', options |-> o, contract |-> c]]
    OBVIOUS
  <2>2. /\ DOMAIN refresh' = Processes
        /\ refresh'[p] = [pc |-> "working", id |-> started', options |-> o, contract |-> c]
        /\ \A q \in Processes : q # p => refresh'[q] = refresh[q]
    BY <2>1 DEF IInv, RefreshType
  <2>3. Recording' = Recording /\ Busy' = Busy \cup {p} /\ p \notin Busy
    BY <1>1, <2>2 DEF Busy, Recording, Start
  <2>4. started' = started + 1 /\ started \in Nat /\ repo' = repo /\ cache' = cache /\ whole' = whole
    BY <1>1 DEF Start, IInv, Ids
  <2>5. RefreshType'
    BY <2>2, <2>3, <2>4 DEF IInv, RefreshType, Recording
  <2>6. \A c1 : Learned(c1) /\ Comparable(c1) => Comparable(c1)' /\ Without(c1, started')
    <3> SUFFICES ASSUME NEW c1, Learned(c1), Comparable(c1) PROVE Comparable(c1)' /\ Without(c1, started')
      OBVIOUS
    <3>1. c1 # None => \A i \in DOMAIN c1.samples : c1.samples[i].id \in Nat /\ c1.samples[i].id <= started
      BY SampleIds DEF Comparable
    <3> QED BY <3>1, <2>4 DEF Comparable, Without
  <2>7. \A q \in Recording : refresh'[q] = refresh[q] /\ q # p
    BY <2>2, <2>3 DEF Recording, Busy
  <2>8. Ids'
    <3>1. \A q \in Busy' : refresh'[q].id \in Nat /\ refresh'[q].id <= started'
      BY <2>2, <2>3, <2>4 DEF IInv, Ids, Busy
    <3>2. \A q \in Busy : refresh[q].id # started' /\ refresh'[q] = refresh[q]
      BY <2>2, <2>3, <2>4 DEF IInv, Ids, Busy
    <3>3. \A q, r \in Busy' : refresh'[q].id = refresh'[r].id => q = r
      BY <3>2, <2>2, <2>3 DEF IInv, Ids
    <3>4. \A q \in Busy' : Without(cache', refresh'[q].id)
      BY <3>2, <2>2, <2>3, <2>4, <2>6 DEF IInv, Ids
    <3>5. \A q \in Busy', r \in Recording' : Without(refresh'[r].read, refresh'[q].id)
      <4> SUFFICES ASSUME NEW q \in Busy', NEW r \in Recording'
                   PROVE  Without(refresh'[r].read, refresh'[q].id)
        OBVIOUS
      <4>1. r \in Recording /\ refresh'[r] = refresh[r] /\ ReadIsLearned(r)
        BY <2>3, <2>7 DEF IInv
      <4>2. CASE q = p
        BY <4>1, <4>2, <2>2, <2>6 DEF ReadIsLearned
      <4>3. CASE q # p
        BY <4>1, <4>3, <3>2, <2>3 DEF IInv, Ids
      <4> QED BY <4>2, <4>3
    <3> QED BY <3>1, <3>3, <3>4, <3>5, <2>4 DEF Ids, Without
  <2>9. Learned(cache)' /\ Comparable(cache)'
    BY <2>4, <2>6 DEF IInv, Learned, Comparable
  <2>10. \A q \in Recording' : ReadIsLearned(q)'
    <3>1. \A q \in Recording' : \E c1 : c1 = refresh'[q].read /\ Learned(c1) /\ Comparable(c1)
      BY <2>3, <2>7 DEF IInv, ReadIsLearned
    <3> QED BY <3>1, <2>6, ReadKept
  <2> QED BY <2>4, <2>5, <2>8, <2>9, <2>10 DEF IInv
<1>2. ASSUME NEW p \in Processes, TimeOut(p) PROVE IInv'
  BY <1>2, GoesIdle DEF TimeOut, IInv
<1>3. ASSUME NEW p \in Processes, Finish(p) PROVE IInv'
  <2>0. PICK w \in Works, complete \in BOOLEAN :
          /\ IF complete /\ Eligible(refresh[p].options)
             THEN refresh' = [refresh EXCEPT ![p] =
                                [pc |-> "recording", id |-> refresh[p].id, gate |-> refresh[p].options.gate,
                                 work |-> w, identity |-> Identity, read |-> cache]]
             ELSE refresh' = [refresh EXCEPT ![p] = Idle]
          /\ whole' = IF complete /\ refresh[p].options.execute /\ ~refresh[p].options.focus
                      THEN whole \cup {[id |-> refresh[p].id, work |-> w]} ELSE whole
    BY <1>3 DEF Finish
  <2>1. /\ refresh[p].pc = "working" /\ refresh[p].options \in Options
        /\ repo' = repo /\ cache' = cache /\ started' = started
        /\ whole \subseteq whole'
    BY <1>3, <2>0 DEF Finish, IInv, RefreshType
  <2>2. \A c : Learned(c) /\ Comparable(c) => Comparable(c)'
    <3> SUFFICES ASSUME NEW c, Learned(c), Comparable(c) PROVE Comparable(c)'
      OBVIOUS
    <3> QED BY <2>1 DEF Comparable
  <2>3. Learned(cache)' /\ Comparable(cache)'
    BY <2>1, <2>2 DEF IInv, Learned, Comparable
  <2>4. /\ DOMAIN refresh' = Processes
        /\ \A q \in Processes : q # p => refresh'[q] = refresh[q]
        /\ p \in Busy
    BY <2>0, <2>1 DEF IInv, RefreshType, Busy
  <2>5. CASE complete /\ Eligible(refresh[p].options)
    <3>1. refresh'[p] = [pc |-> "recording", id |-> refresh[p].id, gate |-> refresh[p].options.gate,
                         work |-> w, identity |-> Identity, read |-> cache]
      BY <2>0, <2>5 DEF IInv, RefreshType
    <3>2. Busy' = Busy /\ Recording' = Recording \cup {p}
      BY <3>1, <2>4, <2>1 DEF Busy, Recording
    <3>3. /\ refresh'[p].gate \in Nat /\ refresh'[p].work \in Works /\ refresh'[p].identity \in Identities
          /\ [id |-> refresh'[p].id, work |-> refresh'[p].work] \in whole'
      <4>1. refresh[p].options.gate \in Nat
        BY <2>1, SampleAssumption
      <4>2. Identity \in Identities
        BY DEF IInv, Identity, Identities
      <4>3. refresh[p].options.execute /\ ~refresh[p].options.focus
        BY <2>5 DEF Eligible
      <4>4. [id |-> refresh[p].id, work |-> w] \in whole'
        BY <2>0, <2>5, <4>3
      <4> QED BY <3>1, <4>1, <4>2, <4>4
    <3>4. RefreshType'
      BY <3>1, <3>2, <3>3, <2>1, <2>4 DEF IInv, RefreshType, Recording
    <3>5. \A q \in Busy : refresh'[q].id = refresh[q].id
      BY <3>1, <2>4 DEF Busy
    <3>6. \A q \in Recording' : refresh'[q].read = IF q = p THEN cache ELSE refresh[q].read
      BY <3>1, <3>2, <2>4 DEF Recording
    <3>7. Ids'
      <4>1. \A q \in Busy, r \in Recording' : Without(refresh'[r].read, refresh[q].id)
        BY <3>2, <3>6 DEF IInv, Ids
      <4> QED BY <4>1, <3>2, <3>5, <2>1 DEF IInv, Ids, Without
    <3>8. \A q \in Recording' : ReadIsLearned(q)'
      <4>2. \A q \in Recording' : \E c : c = refresh'[q].read /\ Learned(c) /\ Comparable(c)
        BY <3>2, <3>6 DEF IInv, ReadIsLearned
      <4> QED BY <4>2, <2>2, ReadKept
    <3> QED BY <3>4, <3>7, <3>8, <2>1, <2>3 DEF IInv
  <2>6. CASE ~(complete /\ Eligible(refresh[p].options))
    <3>1. refresh' = [refresh EXCEPT ![p] = Idle]
      BY <2>0, <2>6
    <3>2. refresh'[p].pc = "idle"
      BY <3>1 DEF IInv, RefreshType, Idle
    <3>3. Busy' = Busy \ {p} /\ Recording' = Recording
      BY <3>2, <2>4, <2>1 DEF Busy, Recording
    <3>4. \A q \in Busy' : refresh'[q] = refresh[q]
      BY <3>3, <2>4 DEF Busy
    <3>5. \A q \in Recording : q \in Busy' /\ refresh'[q] = refresh[q]
      BY <3>3, <3>4, <2>1 DEF Busy, Recording
    <3>6. RefreshType'
      BY <3>2, <3>3, <3>5, <2>1, <2>4 DEF IInv, RefreshType
    <3>7. Ids'
      BY <3>3, <3>4, <3>5, <2>1 DEF IInv, Ids, Without
    <3>8. \A q \in Recording' : ReadIsLearned(q)'
      <4>1. \A q \in Recording' : \E c : c = refresh'[q].read /\ Learned(c) /\ Comparable(c)
        BY <3>3, <3>5 DEF IInv, ReadIsLearned
      <4> QED BY <4>1, <2>2, ReadKept
    <3> QED BY <3>6, <3>7, <3>8, <2>1, <2>3 DEF IInv
  <2> QED BY <2>5, <2>6
<1>4. ASSUME NEW p \in Processes, Record(p) PROVE IInv'
  <2> DEFINE r == refresh[p]
  <2>1. /\ r.pc = "recording" /\ cache' = Baseline(r) /\ refresh' = [refresh EXCEPT ![p] = Idle]
        /\ repo' = repo /\ started' = started /\ whole' = whole
        /\ p \in Recording /\ p \in Busy
    BY <1>4 DEF Record, Recording, Busy
  <2>2. /\ DOMAIN refresh' = Processes /\ refresh'[p].pc = "idle"
        /\ \A q \in Processes : q # p => refresh'[q] = refresh[q]
    BY <2>1 DEF IInv, RefreshType, Idle
  <2>3. Busy' = Busy \ {p} /\ Recording' = Recording \ {p}
    BY <2>1, <2>2 DEF Busy, Recording
  <2>4. \A q \in Busy' : refresh'[q] = refresh[q] /\ refresh[q].id # r.id
    BY <2>1, <2>2, <2>3 DEF IInv, Ids, Busy
  <2>5. /\ Learned(r.read) /\ Comparable(r.read) /\ Without(r.read, r.id)
        /\ r.gate \in Nat /\ r.work \in Works /\ r.identity \in Identities
        /\ r.id \in Nat /\ started \in Nat /\ r.id <= started
        /\ [id |-> r.id, work |-> r.work] \in whole
    BY <2>1 DEF IInv, ReadIsLearned, Ids, RefreshType
  <2>6. /\ Learned(Baseline(r)) /\ Comparable(Baseline(r))
        /\ \A id : id # r.id /\ Without(r.read, id) => Without(Baseline(r), id)
    <3> HIDE DEF r
    <3> QED BY <2>5, BaselineIsLearned
  <2>7. Learned(cache)' /\ Comparable(cache)'
    BY <2>1, <2>6 DEF Learned, Comparable
  <2>8. RefreshType'
    BY <2>1, <2>2, <2>3 DEF IInv, RefreshType, Recording
  <2>9. Ids'
    <3>1. \A q \in Busy' : Without(cache', refresh'[q].id)
      BY <2>1, <2>3, <2>4, <2>6 DEF IInv, Ids
    <3>2. \A q \in Recording' : refresh'[q] = refresh[q]
      BY <2>2, <2>3 DEF Recording
    <3> QED BY <3>1, <3>2, <2>1, <2>3, <2>4 DEF IInv, Ids, Without
  <2>10. \A q \in Recording' : ReadIsLearned(q)'
    BY <2>1, <2>2, <2>3 DEF IInv, ReadIsLearned, Learned, Comparable, Recording
  <2> QED BY <2>1, <2>7, <2>8, <2>9, <2>10 DEF IInv
<1>5. ASSUME NEW p \in Processes, Die(p) PROVE IInv'
  BY <1>5, GoesIdle DEF Die, IInv
<1>6. CASE ChangeRepository
  <2>1. /\ repo' \in Repositories /\ cache' = cache /\ refresh' = refresh
        /\ started' = started /\ whole' = whole
    BY <1>6 DEF ChangeRepository
  <2> QED BY <2>1 DEF IInv, ReadIsLearned, RefreshType, Ids, Learned, Comparable, Without, Busy, Recording
<1>7. CASE UNCHANGED vars
  BY <1>7 DEF vars, IInv, ReadIsLearned, RefreshType, Ids, Learned, Comparable, Without, Busy, Recording
<1> QED BY <1>1, <1>2, <1>3, <1>4, <1>5, <1>6, <1>7 DEF Next

(* However refreshes overlap, die or see the repository change: a refresh   *)
(* that does no more than one of the kept samples did is not ended by the   *)
(* budgets of the baseline.                                                 *)
THEOREM SamplesFit == Spec => []KeptSamplesFit
<1>1. IInv => KeptSamplesFit
  <2> SUFFICES ASSUME IInv, cache # None, cache.state = "active",
                      NEW i \in DOMAIN cache.samples, NEW o \in Options, o.explicit = <<>>
               PROVE  ~TimesOut(cache.samples[i].work, Contract(o, AtLeastGate(cache.learned, o.gate)))
    BY DEF KeptSamplesFit
  <2>1. cache.samples \in Samples
    BY DEF IInv, Learned
  <2>2. PICK g \in Nat : cache.learned = ActiveTimeouts(cache.samples, g)
    BY DEF IInv, Learned
  <2>3. o.gate \in Nat
    BY SampleAssumption
  <2> QED BY <2>1, <2>2, <2>3, LearnedFits
<1> QED BY <1>1, InitIInv, StepIInv, PTL DEF Spec

(* A baseline is learned from different refreshes that were whole and of    *)
(* one identity, and is active only with enough of them.                    *)
THEOREM SamplesComparable == Spec => []LearnedFromComparable
<1>1. IInv => LearnedFromComparable
  BY DEF IInv, Learned, Comparable, LearnedFromComparable
<1> QED BY <1>1, InitIInv, StepIInv, PTL DEF Spec

(* Both: samples are comparable, and the budgets are enough for them.       *)
THEOREM SamplesSound == Spec => []SamplesAreSound
<1>1. LearnedFromComparable /\ KeptSamplesFit => SamplesAreSound
  BY DEF SamplesAreSound
<1> QED BY <1>1, SamplesFit, SamplesComparable, PTL
=============================================================================
