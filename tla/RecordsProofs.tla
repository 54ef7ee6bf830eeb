---------------------------- MODULE RecordsProofs ----------------------------
(***************************************************************************)
(* Proofs about records that people decide by: known issues, gate runs     *)
(* with the resolution ledger that their answers are replayed into, and    *)
(* the verification of a repository.  They hold for all users, issues,     *)
(* gates, worlds and bounds.  The parts share the variables a, ..., j;     *)
(* MCParts says what each stands for.  The last two sections are about the *)
(* resolution ledger of audits: what it leaves open is planned once, and   *)
(* what it settles was decided.                                            *)
(***************************************************************************)
EXTENDS MCParts, FiniteSetTheorems, NaturalsInduction, WellFoundedInduction, TLAPS

-----------------------------------------------------------------------------
(* KnownIssues.                                                             *)

(* The instance's Cardinality is that of FiniteSets.                        *)
LEMMA CardinalityInIssues == ASSUME NEW M PROVE K!Cardinality(M) = Cardinality(M)
BY DEF K!Cardinality, Cardinality

(* The members of a set of positions are its first, its second, ...         *)
LEMMA PositionsAreRanked ==
  ASSUME NEW n \in Nat, NEW kept \in SUBSET (1 .. n)
  PROVE  /\ IsFiniteSet(kept) /\ Cardinality(kept) \in Nat
         /\ \A k \in 1 .. Cardinality(kept) : \E y \in kept : Cardinality({l \in kept : l <= y}) = k
<1> DEFINE upTo(y) == {l \in kept : l <= y}
           rank == [y \in kept |-> Cardinality(upTo(y))]
<1>0. \A y \in kept : y \in Nat
  OBVIOUS
<1>1. IsFiniteSet(kept) /\ Cardinality(kept) \in Nat
  <2>1. IsFiniteSet(1 .. n)
    BY FS_Interval
  <2> QED BY <2>1, FS_Subset, FS_CardinalityType
<1>2. ASSUME NEW y \in kept
      PROVE  /\ IsFiniteSet(upTo(y)) /\ Cardinality(upTo(y)) \in 1 .. Cardinality(kept)
  <2>1. IsFiniteSet(upTo(y)) /\ Cardinality(upTo(y)) <= Cardinality(kept)
    BY <1>1, FS_Subset
  <2>2. upTo(y) # {}
    OBVIOUS
  <2>3. Cardinality(upTo(y)) \in Nat /\ Cardinality(upTo(y)) # 0
    BY <2>1, <2>2, FS_CardinalityType, FS_EmptySet
  <2> QED BY <1>1, <2>1, <2>3
<1>3. ASSUME NEW y \in kept, NEW z \in kept, y < z PROVE Cardinality(upTo(y)) # Cardinality(upTo(z))
  <2>0. y \in Nat /\ z \in Nat /\ \A l \in kept : l <= y => l <= z
    BY <1>0, <1>3
  <2>1. upTo(y) \in SUBSET upTo(z) /\ z \in upTo(z) /\ z \notin upTo(y)
    <3>1. upTo(y) \subseteq upTo(z)
      BY <2>0
    <3>2. z \in upTo(z)
      BY <2>0
    <3>3. z \notin upTo(y)
      BY <1>3, <2>0
    <3> QED BY <3>1, <3>2, <3>3
  <2> QED BY <1>2, <2>1, FS_Subset
<1>4. \A y, z \in kept : Cardinality(upTo(y)) = Cardinality(upTo(z)) => y = z
  <2>1. \A y, z \in kept : y < z \/ z < y \/ y = z
    OBVIOUS
  <2> HIDE DEF upTo
  <2> QED BY <1>3, <2>1
<1>5. rank \in Injection(kept, 1 .. Cardinality(kept))
  <2> HIDE DEF upTo
  <2>1. rank \in [kept -> 1 .. Cardinality(kept)]
    BY <1>2
  <2> QED BY <1>4, <2>1 DEF Injection, IsInjective
<1>6. rank \in Surjection(kept, 1 .. Cardinality(kept))
  <2> HIDE DEF rank
  <2> QED BY <1>1, <1>5, FS_Injection, FS_Interval
<1>7. \A k \in 1 .. Cardinality(kept) : \E y \in kept : rank[y] = k
  BY <1>6 DEF Surjection
<1> QED BY <1>1, <1>7

(* What Without leaves are issues of the list, each once, and all of them   *)
(* in their places if none had that id.                                     *)
LEMMA WithoutKeepsApart ==
  ASSUME NEW issues, NEW removal \in BOOLEAN, K!Apart(issues, removal), NEW id
  PROVE  K!Apart(K!Without(issues, id), removal \/ K!HasId(issues, id))
<1> DEFINE kept == K!Kept(issues, id)
           left == K!Without(issues, id)
<1>1. issues \in Seq(K!Issue) /\ DOMAIN issues = 1 .. Len(issues) /\ Len(issues) \in Nat
  BY DEF K!Apart
<1>2. /\ IsFiniteSet(kept) /\ Cardinality(kept) \in Nat
      /\ \A k \in 1 .. Cardinality(kept) : \E y \in kept : Cardinality({l \in kept : l <= y}) = k
  <2>1. kept \in SUBSET (1 .. Len(issues))
    BY <1>1 DEF K!Kept
  <2> HIDE DEF kept
  <2> QED BY <1>1, <2>1, PositionsAreRanked
<1>3. left = [k \in 1 .. Cardinality(kept) |-> issues[K!Nth(kept, k)]]
  BY CardinalityInIssues DEF K!Without
<1>4. ASSUME NEW k \in 1 .. Cardinality(kept)
      PROVE  K!Nth(kept, k) \in kept /\ Cardinality({l \in kept : l <= K!Nth(kept, k)}) = k
  <2> HIDE DEF kept
  <2> QED BY <1>2, <1>4, CardinalityInIssues DEF K!Nth
<1>5. \A k \in 1 .. Cardinality(kept) : K!Nth(kept, k) \in DOMAIN issues /\ left[k] = issues[K!Nth(kept, k)]
  <2>1. \A y \in kept : y \in DOMAIN issues
    BY DEF K!Kept
  <2> HIDE DEF kept, left
  <2> QED BY <1>3, <1>4, <2>1
<1>6. \A k, l \in 1 .. Cardinality(kept) : K!Nth(kept, k) = K!Nth(kept, l) => k = l
  <2> HIDE DEF kept
  <2> QED BY <1>4
<1>7. left \in Seq(K!Issue) /\ DOMAIN left = 1 .. Cardinality(kept)
  <2> HIDE DEF kept, left
  <2>1. \A k \in 1 .. Cardinality(kept) : left[k] \in K!Issue
    BY <1>1, <1>5
  <2>2. left \in [1 .. Cardinality(kept) -> K!Issue]
    BY <1>3, <2>1
  <2> QED BY <1>2, <2>2
<1>8. \A k, l \in DOMAIN left : left[k].fingerprint = left[l].fingerprint => k = l
  <2> HIDE DEF kept, left
  <2> QED BY <1>5, <1>6, <1>7 DEF K!Apart
<1>9. ASSUME ~removal, ~K!HasId(issues, id), NEW k \in DOMAIN left PROVE left[k].id = k
  <2>1. kept = 1 .. Len(issues)
    BY <1>1, <1>9 DEF K!HasId, K!Kept
  <2>2. K!Nth(kept, k) \in 1 .. Len(issues) /\ Cardinality({l \in kept : l <= K!Nth(kept, k)}) = k
    <3> HIDE DEF kept, left
    <3> QED BY <1>4, <1>7, <1>9, <2>1
  <2>3. {l \in kept : l <= K!Nth(kept, k)} = 1 .. K!Nth(kept, k)
    <3> HIDE DEF kept, left
    <3> QED BY <1>1, <2>1, <2>2
  <2>4. K!Nth(kept, k) = k
    <3> HIDE DEF kept, left
    <3>1. Cardinality(1 .. K!Nth(kept, k)) = K!Nth(kept, k)
      BY <2>2, FS_Interval
    <3> QED BY <2>2, <2>3, <3>1
  <2> HIDE DEF kept, left
  <2> QED BY <1>1, <1>5, <1>7, <1>9, <2>4 DEF K!Apart
<1> HIDE DEF kept, left
<1>10. K!Apart(left, removal \/ K!HasId(issues, id))
  BY <1>7, <1>8, <1>9 DEF K!Apart
<1> QED BY <1>10 DEF left

LEMMA UpsertKeepsApart ==
  ASSUME NEW issues, NEW removal \in BOOLEAN, K!Apart(issues, removal), NEW print \in Issues
  PROVE  K!Apart(K!Upsert(issues, print), removal)
<1>1. issues \in Seq(K!Issue) /\ DOMAIN issues = 1 .. Len(issues) /\ Len(issues) \in Nat
  BY DEF K!Apart
<1>2. CASE \E x \in DOMAIN issues : issues[x].fingerprint = print
  <2>1. PICK now : now = K!Upsert(issues, print)
    OBVIOUS
  <2>2. now = [x \in DOMAIN issues |->
                 IF issues[x].fingerprint = print
                 THEN [issues[x] EXCEPT !.status = "accepted"] ELSE issues[x]]
    BY <1>2, <2>1 DEF K!Upsert
  <2>3. ASSUME NEW x \in DOMAIN issues
        PROVE  /\ now[x] \in K!Issue /\ now[x].fingerprint = issues[x].fingerprint
               /\ now[x].id = issues[x].id
    <3>1. PICK y : y = issues[x]
      OBVIOUS
    <3>2. y \in K!Issue
      BY <1>1, <3>1
    <3>3. now[x] = IF y.fingerprint = print THEN [y EXCEPT !.status = "accepted"] ELSE y
      BY <2>2, <3>1
    <3> QED BY <3>1, <3>2, <3>3 DEF K!Issue
  <2>4. now \in Seq(K!Issue) /\ DOMAIN now = DOMAIN issues
    <3>1. now \in [1 .. Len(issues) -> K!Issue]
      BY <1>1, <2>2, <2>3
    <3> QED BY <1>1, <3>1
  <2>5. K!Apart(now, removal)
    BY <2>3, <2>4 DEF K!Apart
  <2> QED BY <2>1, <2>5
<1>3. CASE ~\E x \in DOMAIN issues : issues[x].fingerprint = print
  <2>1. PICK new : new = [id |-> Len(issues) + 1, fingerprint |-> print, status |-> "accepted"]
    OBVIOUS
  <2>2. K!Upsert(issues, print) = Append(issues, new)
    BY <1>3, <2>1 DEF K!Upsert
  <2>3. new \in K!Issue /\ new.id = Len(issues) + 1 /\ new.fingerprint = print
    BY <1>1, <2>1 DEF K!Issue
  <2>4. PICK now : now = Append(issues, new)
    OBVIOUS
  <2>5. /\ now \in Seq(K!Issue) /\ DOMAIN now = 1 .. Len(issues) + 1
        /\ \A x \in 1 .. Len(issues) : now[x] = issues[x]
        /\ now[Len(issues) + 1] = new
    BY <1>1, <2>3, <2>4
  <2>6. K!Apart(now, removal)
    BY <1>1, <1>3, <2>3, <2>5 DEF K!Apart
  <2> QED BY <2>2, <2>4, <2>6
<1> QED BY <1>2, <1>3

LEMMA EditKeepsApart ==
  ASSUME NEW issues, NEW removal \in BOOLEAN, K!Apart(issues, removal),
         NEW id, NEW status \in IssueStatuses
  PROVE  K!Apart(K!Edited(issues, id, status), removal)
<1>1. issues \in Seq(K!Issue) /\ DOMAIN issues = 1 .. Len(issues) /\ Len(issues) \in Nat
  BY DEF K!Apart
<1>2. PICK first : K!Edited(issues, id, status) = [issues EXCEPT ![first].status = status]
  BY DEF K!Edited
<1>3. PICK now : now = [issues EXCEPT ![first].status = status]
  OBVIOUS
<1>4. ASSUME NEW x \in DOMAIN issues
      PROVE  /\ now[x] \in K!Issue /\ now[x].fingerprint = issues[x].fingerprint
             /\ now[x].id = issues[x].id
  <2>1. PICK y : y = issues[x]
    OBVIOUS
  <2>2. y \in K!Issue
    BY <1>1, <2>1
  <2>3. now[x] = y \/ now[x] = [y EXCEPT !.status = status]
    BY <1>3, <2>1
  <2> QED BY <2>1, <2>2, <2>3 DEF K!Issue
<1>5. now \in Seq(K!Issue) /\ DOMAIN now = DOMAIN issues
  <2>1. now \in [1 .. Len(issues) -> K!Issue]
    BY <1>1, <1>3, <1>4
  <2> QED BY <1>1, <2>1
<1>6. K!Apart(now, removal)
  BY <1>4, <1>5 DEF K!Apart
<1> QED BY <1>2, <1>3, <1>6

(* A command whose write keeps the issues apart, if nothing else is removed. *)
LEMMA IssuesGive ==
  ASSUME K!IssuesInv, NEW u \in Users, NEW changed, NEW removes \in BOOLEAN,
         K!Apart(changed, d \/ removes), K!Give(u, changed, removes)
  PROVE  K!IssuesInv'
<1>1. PICK t : t = [to |-> "save", read |-> a, write |-> changed, removes |-> removes]
  OBVIOUS
<1>2. UNCHANGED <<a, d>> /\ b' = [b EXCEPT ![u] = t]
  BY <1>1 DEF K!Give
<1>3. t.write = changed /\ t.removes = removes
  BY <1>1
<1>4. DOMAIN b' = Users /\ b'[u] = t /\ \A v \in Users : v # u => b'[v] = b[v]
  BY <1>2 DEF K!IssuesInv
<1>5. \A issues, removal : K!Apart(issues, removal)' <=> K!Apart(issues, removal)
  BY DEF K!Apart
<1> QED BY <1>2, <1>3, <1>4, <1>5 DEF K!IssuesInv

LEMMA IssuesStep ==
  ASSUME K!IssuesInv, K!Next \/ UNCHANGED <<a, b, c, d>>
  PROVE  K!IssuesInv'
<1>0. d \in BOOLEAN /\ (a # Torn => K!Apart(a, d))
  BY DEF K!IssuesInv
<1>1. ASSUME NEW u \in Users, K!Accept(u) PROVE K!IssuesInv'
  <2>1. PICK print \in Issues : a # Torn /\ K!Give(u, K!Upsert(a, print), FALSE)
    BY <1>1 DEF K!Accept
  <2>2. PICK changed, issues : changed = K!Upsert(issues, print) /\ issues = a
    OBVIOUS
  <2>3. K!Apart(changed, d \/ FALSE)
    BY <1>0, <2>1, <2>2, UpsertKeepsApart
  <2> QED BY <2>1, <2>2, <2>3, IssuesGive
<1>2. ASSUME NEW u \in Users, K!Edit(u) PROVE K!IssuesInv'
  <2>1. PICK id \in K!Ids, status \in IssueStatuses :
          a # Torn /\ K!HasId(a, id) /\ K!Give(u, K!Edited(a, id, status), FALSE)
    BY <1>2 DEF K!Edit
  <2>2. PICK changed, issues : changed = K!Edited(issues, id, status) /\ issues = a
    OBVIOUS
  <2>3. K!Apart(changed, d \/ FALSE)
    BY <1>0, <2>1, <2>2, EditKeepsApart
  <2> QED BY <2>1, <2>2, <2>3, IssuesGive
<1>3. ASSUME NEW u \in Users, K!Remove(u) PROVE K!IssuesInv'
  <2>1. PICK id \in K!Ids : a # Torn /\ K!Give(u, K!Without(a, id), K!HasId(a, id))
    BY <1>3 DEF K!Remove
  <2>2. PICK changed, removes, issues :
          /\ changed = K!Without(issues, id) /\ removes = K!HasId(issues, id) /\ issues = a
    OBVIOUS
  <2>3. K!Apart(changed, d \/ removes) /\ removes \in BOOLEAN
    BY <1>0, <2>1, <2>2, WithoutKeepsApart DEF K!HasId
  <2> QED BY <2>1, <2>2, <2>3, IssuesGive
<1>4. ASSUME NEW u \in Users, K!Save(u) PROVE K!IssuesInv'
  <2>1. /\ b[u] # K!NoCommand /\ a' = b[u].write /\ d' = (d \/ b[u].removes)
        /\ b' = [b EXCEPT ![u] = K!NoCommand]
    BY <1>4 DEF K!Save
  <2>2. PICK t : t = b[u]
    OBVIOUS
  <2>3. d' \in BOOLEAN /\ K!Apart(a', d') /\ (d => d')
    BY <2>1, <2>2 DEF K!IssuesInv
  <2>4. DOMAIN b' = Users /\ \A v \in Users : b'[v] # K!NoCommand => b'[v] = b[v] /\ b[v] # K!NoCommand
    BY <2>1 DEF K!IssuesInv
  <2>5. ASSUME NEW v \in Users, b'[v] # K!NoCommand
        PROVE  b'[v].removes \in BOOLEAN /\ K!Apart(b'[v].write, d' \/ b'[v].removes)
    <3>1. PICK s, before, after : s = b[v] /\ before = (d \/ s.removes) /\ after = (d' \/ s.removes)
      OBVIOUS
    <3>2. s.removes \in BOOLEAN /\ K!Apart(s.write, before) /\ b'[v] = s
      BY <2>4, <2>5, <3>1 DEF K!IssuesInv
    <3>3. before => after
      BY <2>3, <3>1
    <3>4. K!Apart(s.write, after)
      BY <3>2, <3>3 DEF K!Apart
    <3> QED BY <3>1, <3>2, <3>4
  <2>6. \A issues, removal : K!Apart(issues, removal)' <=> K!Apart(issues, removal)
    BY DEF K!Apart
  <2> QED BY <2>3, <2>4, <2>5, <2>6 DEF K!IssuesInv, K!NoCommand
<1>5. ASSUME NEW u \in Users, K!Die(u) PROVE K!IssuesInv'
  <2>1. b' = [b EXCEPT ![u] = K!NoCommand] /\ (a' = a \/ a' = Torn) /\ d' = d
    BY <1>5 DEF K!Die
  <2>2. DOMAIN b' = Users /\ \A v \in Users : b'[v] # K!NoCommand => b'[v] = b[v] /\ b[v] # K!NoCommand
    BY <2>1 DEF K!IssuesInv
  <2>3. \A issues, removal : K!Apart(issues, removal)' <=> K!Apart(issues, removal)
    BY DEF K!Apart
  <2> QED BY <2>1, <2>2, <2>3 DEF K!IssuesInv, K!NoCommand
<1>6. CASE UNCHANGED <<a, b, c, d>>
  BY <1>6 DEF K!IssuesInv, K!Apart, K!NoCommand
<1> QED BY <1>1, <1>2, <1>3, <1>4, <1>5, <1>6 DEF K!Next

LEMMA IssuesInit == PartsInit /\ part = "issues" => K!IssuesInv
<1> SUFFICES ASSUME K!Init PROVE K!IssuesInv
  BY DEF PartsInit
<1>1. a = <<>> /\ b = [u \in Users |-> K!NoCommand] /\ d = FALSE
  BY DEF K!Init
<1>2. a \in Seq(K!Issue) /\ DOMAIN a = {}
  BY <1>1
<1>3. K!Apart(a, d)
  BY <1>2 DEF K!Apart
<1> QED BY <1>1, <1>3 DEF K!IssuesInv

(* For all users, fingerprints and bounds, however their commands overlap   *)
(* or die: the file and what is about to be written over it keep apart.     *)
THEOREM IssuesKept == Parts => [](part = "issues" => K!IssuesInv)
<1>1. PartsInit => (part = "issues" => K!IssuesInv)
  BY IssuesInit
<1>2. (part = "issues" => K!IssuesInv) /\ [PartsNext]_parts => (part = "issues" => K!IssuesInv)'
  <2> SUFFICES ASSUME part' = "issues", part = "issues" => K!IssuesInv, [PartsNext]_parts
               PROVE  K!IssuesInv'
    OBVIOUS
  <2>1. part = "issues" /\ (K!Next \/ UNCHANGED <<a, b, c, d>>)
    BY DEF PartsNext, parts
  <2> QED BY <2>1, IssuesStep
<1> QED BY <1>1, <1>2, PTL DEF Parts

(* So no fingerprint is there twice, and no id before a removal.            *)
THEOREM IssuesApart == Parts => []IssuesStayApart
<1>1. K!IssuesInv => K!IssuesStayApart
  <2> SUFFICES ASSUME K!Apart(a, d) PROVE K!IssuesStayApart
    BY DEF K!IssuesInv, K!IssuesStayApart
  <2>1. \A x \in DOMAIN a : a[x].fingerprint \in Issues
    <3>1. a \in Seq(K!Issue)
      BY DEF K!Apart
    <3>2. \A x \in DOMAIN a : a[x] \in K!Issue
      BY <3>1
    <3> QED BY <3>2 DEF K!Issue
  <2> QED BY <2>1 DEF K!Apart, K!IssuesStayApart, K!KnownAccepted
<1>2. (part = "issues" => K!IssuesInv) => IssuesStayApart
  BY <1>1 DEF IssuesStayApart
<1> QED BY <1>2, IssuesKept, PTL

-----------------------------------------------------------------------------
(* GateRun.                                                                 *)

LEMMA LeastOf ==
  ASSUME NEW M \in SUBSET Nat, M # {}
  PROVE  \E m \in M : \A n \in M : m <= n
<1> DEFINE Z == {ss \in Nat \X Nat : ss[1] < ss[2]}
<1>1. IsWellFoundedOn(Z, Nat)
  BY NatLessThanWellFounded DEF OpToRel
<1>2. PICK m \in M : \A n \in M : ~ (<<n, m>> \in Z)
  <2> HIDE DEF Z
  <2> QED BY <1>1, WFMin
<1>3. ASSUME NEW n \in M PROVE m <= n
  <2>1. n \in Nat /\ m \in Nat
    OBVIOUS
  <2>2. n < m => <<n, m>> \in Z
    BY <2>1
  <2> QED BY <1>2, <2>1, <2>2
<1> QED BY <1>3

(* The least bound of a set is in it.                                       *)
LEMMA GreatestOf ==
  ASSUME NEW M \in SUBSET Nat, M # {}, NEW n \in Nat, \A x \in M : x <= n
  PROVE  \E m \in M : \A x \in M : x <= m
<1> DEFINE Bounds == {y \in Nat : \A x \in M : x <= y}
<1>1. PICK m \in Bounds : \A y \in Bounds : m <= y
  <2>1. Bounds \in SUBSET Nat /\ n \in Bounds
    OBVIOUS
  <2> HIDE DEF Bounds
  <2> QED BY <2>1, LeastOf
<1>2. m \in M
  <2> SUFFICES ASSUME m \notin M PROVE FALSE
    OBVIOUS
  <2>1. \A x \in M : x \in Nat /\ x < m
    BY <1>1
  <2> PICK z \in M : TRUE
    OBVIOUS
  <2>2. m \in Nat /\ m # 0
    <3>1. m \in Nat /\ z \in Nat /\ z < m
      BY <1>1, <2>1
    <3> QED BY ONLY <3>1
  <2>3. m - 1 \in Nat /\ \A x \in M : x <= m - 1
    BY ONLY <2>1, <2>2
  <2>4. m - 1 \in Bounds
    BY <2>3
  <2>5. m <= m - 1
    BY <1>1, <2>4
  <2> QED BY ONLY <2>2, <2>5
<1> QED BY <1>1, <1>2

(* What a line of a history records.                                        *)
LEMMA LineOf ==
  ASSUME NEW lines \in Seq(G!Answers), NEW k \in DOMAIN lines
  PROVE  lines[k] \in G!Answers /\ lines[k].at \in 1 .. MaxAnswers /\ lines[k].at \in Nat
<1>1. PICK y : y = lines[k]
  OBVIOUS
<1>2. y \in G!Answers
  BY <1>1
<1>3. y.at \in 1 .. MaxAnswers
  BY ONLY <1>2 DEF G!Answers
<1> QED BY <1>1, <1>2, <1>3, GatesAssumption

(* The record that a replay takes is there, and none is later.              *)
LEMMA LastRecord ==
  ASSUME G!GateTypes, G!HistoryInOrder, NEW x, G!Recorded(x) # {}, NEW last,
         last = CHOOSE r \in G!Recorded(x) : \A s \in G!Recorded(x) : G!Before(s, r)
  PROVE  /\ last \in G!Recorded(x)
         /\ \A s \in G!Recorded(x) : b[s[1]][s[2]].at <= b[last[1]][last[2]].at
<1> DEFINE AtOf(r) == b[r[1]][r[2]].at
<1>1. ASSUME NEW r \in G!Recorded(x)
      PROVE  /\ r[1] \in G!GateIds /\ r[2] \in DOMAIN b[r[1]] /\ r = <<r[1], r[2]>>
             /\ r[1] \in Nat /\ r[2] \in Nat /\ AtOf(r) \in Nat /\ AtOf(r) <= MaxAnswers
  <2>1. /\ r \in G!GateIds \X (1 .. MaxAnswers) /\ r[2] \in DOMAIN b[r[1]]
    BY DEF G!Recorded
  <2>2. b[r[1]] \in Seq(G!Answers)
    BY <2>1 DEF G!GateTypes
  <2>3. b[r[1]][r[2]] \in G!Answers
    BY <2>1, <2>2
  <2>4. AtOf(r) \in 1 .. MaxAnswers
    BY <2>3 DEF G!Answers
  <2> QED BY <2>1, <2>4, GatesAssumption DEF G!GateIds
<1>2. PICK r \in G!Recorded(x) : \A s \in G!Recorded(x) : AtOf(s) <= AtOf(r)
  <2> DEFINE Times == {AtOf(s) : s \in G!Recorded(x)}
  <2> HIDE DEF AtOf
  <2>1. Times \in SUBSET Nat /\ Times # {} /\ \A n \in Times : n <= MaxAnswers
    BY <1>1
  <2>2. PICK m \in Times : \A n \in Times : n <= m
    <3> HIDE DEF Times
    <3> QED BY <2>1, GatesAssumption, GreatestOf
  <2> QED BY <2>2
<1>3. ASSUME NEW one \in G!Recorded(x), NEW two \in G!Recorded(x)
      PROVE  /\ G!Before(one, two) \/ AtOf(two) < AtOf(one)
             /\ G!Before(one, two) => AtOf(one) <= AtOf(two)
  <2>1. /\ one[1] < two[1] \/ (one[1] = two[1] /\ one[2] < two[2]) => AtOf(one) < AtOf(two)
        /\ two[1] < one[1] \/ (two[1] = one[1] /\ two[2] < one[2]) => AtOf(two) < AtOf(one)
    BY <1>1 DEF G!HistoryInOrder
  <2>2. one[1] = two[1] /\ one[2] = two[2] => one = two
    BY <1>1
  <2> QED BY <1>1, <2>1, <2>2 DEF G!Before
<1>4. \A s \in G!Recorded(x) : G!Before(s, r)
  <2> HIDE DEF AtOf
  <2>1. \A s \in G!Recorded(x) : AtOf(s) \in Nat
    BY <1>1
  <2> QED BY <1>2, <1>3, <2>1
<1>5. last \in G!Recorded(x) /\ \A s \in G!Recorded(x) : G!Before(s, last)
  BY <1>4
<1> QED BY <1>3, <1>5

(* A replay takes what was answered, and of each finding nothing older than *)
(* any record of it in a readable gate run.                                 *)
LEMMA ReplayGives ==
  ASSUME G!GateTypes, G!HistoryInOrder, NEW l \in [GateFindings -> Nat], G!Given(l), NEW new,
         new = G!Replay(l)
  PROVE  /\ new \in [GateFindings -> Nat] /\ G!Given(new)
         /\ \A x \in GateFindings : G!Recorded(x) = {} => new[x] = l[x]
         /\ \A x \in GateFindings : \A s \in G!Recorded(x) : b[s[1]][s[2]].at <= new[x]
<1>1. new = [x \in GateFindings |->
               IF G!Recorded(x) = {} THEN l[x]
               ELSE LET last == CHOOSE r \in G!Recorded(x) : \A s \in G!Recorded(x) : G!Before(s, r)
                    IN  b[last[1]][last[2]].at]
  BY DEF G!Replay
<1>2. ASSUME NEW x \in GateFindings, G!Recorded(x) # {}
      PROVE  /\ new[x] \in Nat /\ \A s \in G!Recorded(x) : b[s[1]][s[2]].at <= new[x]
             /\ \E w \in G!GateIds : \E k \in DOMAIN b[w] :
                  /\ b[w][k].action = "record-disposition" /\ b[w][k].finding = x
                  /\ b[w][k].at = new[x]
  <2>1. PICK last : last = CHOOSE r \in G!Recorded(x) : \A s \in G!Recorded(x) : G!Before(s, r)
    OBVIOUS
  <2>2. new[x] = b[last[1]][last[2]].at
    BY <1>1, <1>2, <2>1
  <2>3. /\ last \in G!Recorded(x)
        /\ \A s \in G!Recorded(x) : b[s[1]][s[2]].at <= b[last[1]][last[2]].at
    BY <1>2, <2>1, LastRecord
  <2>4. /\ last[1] \in G!GateIds /\ last[2] \in DOMAIN b[last[1]]
        /\ b[last[1]][last[2]].action = "record-disposition"
        /\ b[last[1]][last[2]].finding = x
    BY <2>3 DEF G!Recorded
  <2>5. b[last[1]] \in Seq(G!Answers)
    BY <2>4 DEF G!GateTypes
  <2>6. b[last[1]][last[2]].at \in 1 .. MaxAnswers
    BY <2>4, <2>5, LineOf
  <2> QED BY <2>2, <2>3, <2>4, <2>6
<1>3. ASSUME NEW x \in GateFindings, G!Recorded(x) = {} PROVE new[x] = l[x]
  BY <1>1, <1>3
<1>4. new \in [GateFindings -> Nat]
  <2>1. \A x \in GateFindings : new[x] \in Nat
    BY <1>2, <1>3
  <2> QED BY <1>1, <2>1
<1>5. G!Given(new)
  BY <1>2, <1>3 DEF G!Given
<1> QED BY <1>2, <1>3, <1>4, <1>5

(* While every gate run can be read, a replay keeps up with the ledger.     *)
LEMMA ReplayKeepsUp ==
  ASSUME G!DecisionsInv, NEW l \in [GateFindings -> Nat], G!Given(l), NEW new, new = G!Replay(l),
         \A w \in G!GateIds : a[w] # Torn, NEW x \in GateFindings
  PROVE  new[x] >= c.at[x] \/ (G!Recorded(x) = {} /\ c.at[x] = 0)
<1>0. G!GateTypes /\ G!HistoryInOrder /\ G!OnlyLatestIsOpen /\ G!Given(c.at)
  BY DEF G!DecisionsInv
<1>1. c.at[x] \in Nat /\ new[x] \in Nat
  BY <1>0, ReplayGives DEF G!GateTypes
<1>2. CASE c.at[x] = 0
  BY <1>1, <1>2
<1>3. CASE c.at[x] # 0
  <2>0. PICK w \in G!GateIds : \E k \in DOMAIN b[w] :
          /\ b[w][k].action = "record-disposition" /\ b[w][k].finding = x
          /\ b[w][k].at = c.at[x]
    BY <1>0, <1>3 DEF G!Given
  <2>1. PICK k \in DOMAIN b[w] :
          /\ b[w][k].action = "record-disposition" /\ b[w][k].finding = x
          /\ b[w][k].at = c.at[x]
    BY <2>0
  <2>2. b[w] \in Seq(G!Answers) /\ Len(b[w]) <= f /\ f \in 0 .. MaxAnswers
    BY <1>0 DEF G!GateTypes, G!HistoryInOrder
  <2>3. k \in 1 .. MaxAnswers
    BY <2>1, <2>2, GatesAssumption
  <2>4. a[w] # Nothing
    BY <1>0, <2>1 DEF G!OnlyLatestIsOpen
  <2>5. PICK s : s = <<w, k>>
    OBVIOUS
  <2>6. s \in G!Recorded(x) /\ b[s[1]][s[2]].at = c.at[x]
    BY <2>1, <2>3, <2>4, <2>5 DEF G!Recorded
  <2>7. c.at[x] <= new[x]
    BY <1>0, <2>6, ReplayGives
  <2> QED BY <1>1, <2>7
<1> QED BY <1>2, <1>3

(* The only process goes on.                                                *)
LEMMA ProcessGoes ==
  ASSUME G!OneProcess, G!GateTypes, NEW p \in Controllers, NEW phase, NEW s, G!Go(p, phase, s),
         G!InHand(phase, s)'
  PROVE  /\ DOMAIN d' = Controllers /\ DOMAIN e' = Controllers
         /\ \A q \in Controllers : G!InHand(d[q], e[q])'
<1>1. /\ DOMAIN d' = Controllers /\ DOMAIN e' = Controllers
      /\ \A q \in Controllers : d'[q] = phase /\ e'[q] = s
  BY DEF G!OneProcess, G!GateTypes, G!Go
<1> QED BY <1>1 DEF G!InHand

(* A step that leaves all files as they are.                                *)
LEMMA FilesStay ==
  ASSUME G!OneProcess, G!DecisionsInv, NEW p \in Controllers, NEW phase, NEW s, G!Go(p, phase, s),
         G!InHand(phase, s)', UNCHANGED <<a, b, c>>, f' \in 0 .. MaxAnswers, f' >= f
  PROVE  G!DecisionsInv' /\ G!StaysClosed /\ G!KeepsReadableDecisions
<1>1. G!GateTypes /\ G!HistoryInOrder /\ G!OnlyLatestIsOpen /\ G!Given(c.at)
  BY DEF G!DecisionsInv
<1>2. G!GateTypes' /\ \A q \in Controllers : G!InHand(d[q], e[q])'
  BY <1>1, ProcessGoes DEF G!GateTypes
<1>3. G!HistoryInOrder'
  <2>1. /\ f \in Nat /\ f' \in Nat /\ f <= f'
        /\ \A w \in G!GateIds : b[w] \in Seq(G!Answers)
    BY <1>1, GatesAssumption DEF G!GateTypes
  <2>2. ASSUME NEW w \in G!GateIds
        PROVE  Len(b[w]) <= f' /\ \A k \in DOMAIN b[w] : b[w][k].at <= f'
    <3>1. Len(b[w]) \in Nat /\ Len(b[w]) <= f
      BY <1>1, <2>1 DEF G!HistoryInOrder
    <3>2. \A k \in DOMAIN b[w] : b[w][k] \in G!Answers /\ b[w][k].at <= f
      BY <1>1, <2>1 DEF G!HistoryInOrder
    <3>3. \A k \in DOMAIN b[w] : b[w][k].at \in Nat
      BY <3>2 DEF G!Answers
    <3> QED BY <2>1, <3>1, <3>2, <3>3
  <2> QED BY <1>1, <2>2 DEF G!HistoryInOrder
<1>4. G!OnlyLatestIsOpen' /\ G!Given(c.at)'
  BY <1>1 DEF G!OnlyLatestIsOpen, G!NothingAfter, G!Given
<1>5. G!StaysClosed /\ G!KeepsReadableDecisions
  BY <1>1 DEF G!StaysClosed, G!KeepsReadableDecisions, G!GateTypes
<1> QED BY <1>2, <1>3, <1>4, <1>5 DEF G!DecisionsInv

LEMMA NothingInHand == G!InHand("idle", Nothing)'
BY DEF G!InHand

LEMMA GatesCreate ==
  ASSUME G!OneProcess, Generated, G!DecisionsInv, NEW p \in Controllers, NEW w \in G!GateIds,
         NEW status \in G!Driveable, G!CheckCreate(p, w, status)
  PROVE  G!DecisionsInv' /\ G!StaysClosed /\ G!KeepsReadableDecisions
<1>1. PICK s : s = [gate |-> w, status |-> status, answer |-> Nothing]
  OBVIOUS
<1>2. /\ G!ActiveGates \subseteq {w} /\ G!Go(p, "writing", s) /\ UNCHANGED <<a, b, c, f>>
      /\ \A v \in G!GateIds : v >= w => a[v] = Nothing /\ b[v] = <<>>
  BY <1>1 DEF G!CheckCreate
<1>3. s.gate = w /\ s.status = status
  BY <1>1
<1>4. a[w] = Nothing /\ G!NothingAfter(w)'
  BY <1>2, GatesAssumption DEF G!NothingAfter, G!GateIds
<1>5. \A v \in G!GateIds : a[v] \in G!Driveable => v = w
  BY <1>2 DEF G!ActiveGates
<1>6. G!InHand("writing", s)'
  BY <1>2, <1>3, <1>4, <1>5, GatesAssumption DEF G!InHand, G!AtLatest, G!Statuses
<1>7. f' \in 0 .. MaxAnswers /\ f' >= f
  BY <1>2, GatesAssumption DEF G!DecisionsInv, G!GateTypes
<1> QED BY <1>2, <1>6, <1>7, FilesStay

LEMMA GatesReadRun ==
  ASSUME G!OneProcess, G!DecisionsInv, NEW p \in Controllers, NEW w \in G!GateIds,
         NEW action \in G!Actions, NEW x \in GateFindings \cup {NoFinding},
         G!ReadRun(p, w, action, x)
  PROVE  G!DecisionsInv' /\ G!StaysClosed /\ G!KeepsReadableDecisions
<1>1. PICK answer, s : /\ answer = [action |-> action, finding |-> x, at |-> f + 1]
                       /\ s = [gate |-> w, status |-> a[w], answer |-> answer]
  OBVIOUS
<1>2. /\ a[w] \in G!Driveable /\ f < MaxAnswers /\ f' = f + 1 /\ G!Go(p, "read", s)
      /\ (action = "record-disposition" <=> x # NoFinding) /\ UNCHANGED <<a, b, c>>
  BY <1>1 DEF G!ReadRun
<1>3. /\ s.gate = w /\ s.status = a[w] /\ s.answer = answer
      /\ answer.action = action /\ answer.finding = x /\ answer.at = f + 1
  BY <1>1
<1>4. f \in 0 .. MaxAnswers /\ f' \in 0 .. MaxAnswers /\ f' >= f
  BY <1>2, GatesAssumption DEF G!DecisionsInv, G!GateTypes
<1>5. answer \in G!Answers
  BY <1>1, <1>2, <1>4, GatesAssumption DEF G!Answers
<1>6. \A v \in G!GateIds :
        /\ Len(b[v]) < f' /\ \A k \in DOMAIN b[v] : b[v][k].at < f + 1
  <2> TAKE v \in G!GateIds
  <2>1. b[v] \in Seq(G!Answers) /\ Len(b[v]) <= f /\ \A k \in DOMAIN b[v] : b[v][k].at <= f
    BY DEF G!DecisionsInv, G!GateTypes, G!HistoryInOrder
  <2>2. \A k \in DOMAIN b[v] : b[v][k].at \in Nat
    BY <2>1, LineOf
  <2> QED BY <1>2, <1>4, <2>1, <2>2
<1>7. G!AtLatest(w)'
  <2>1. G!NothingAfter(w) /\ \A v \in G!GateIds : a[v] \in G!Driveable => G!NothingAfter(v)
    BY <1>2 DEF G!DecisionsInv, G!OnlyLatestIsOpen
  <2>2. \A v \in G!GateIds : v < w \/ v > w \/ v = w
    BY DEF G!GateIds
  <2>3. \A v \in G!GateIds : a[v] \in G!Driveable => v = w
    BY <1>2, <2>1, <2>2, GatesAssumption DEF G!NothingAfter, G!Statuses
  <2> QED BY <1>2, <2>1, <2>3 DEF G!AtLatest, G!NothingAfter
<1>8. G!InHand("read", s)'
  <2>1. answer.action = "record-disposition" => answer.finding \in GateFindings
    BY <1>2, <1>3
  <2>2. answer.at <= f'
    BY <1>2, <1>3, <1>4
  <2> QED BY <1>2, <1>3, <1>5, <1>6, <1>7, <2>1, <2>2 DEF G!InHand, G!Statuses
<1> QED BY <1>2, <1>4, <1>8, FilesStay

(* An answer is added behind all others.                                    *)
LEMMA GatesAppend ==
  ASSUME G!OneProcess, G!DecisionsInv, NEW p \in Controllers, G!Append1(p)
  PROVE  G!DecisionsInv' /\ G!StaysClosed /\ G!KeepsReadableDecisions
<1>0. PICK s, w, n, answer, t :
        /\ s = e[p] /\ w = s.gate /\ answer = s.answer /\ n = Len(b[w]) + 1
        /\ t = [s EXCEPT !.status = G!StatusAfter(s.status, s.answer.action)]
  OBVIOUS
<1>1. /\ d[p] = "read" /\ b' = [b EXCEPT ![w] = Append(b[w], answer)]
      /\ IF answer.action = "record-disposition" THEN G!Go(p, "applying", s)
         ELSE G!Go(p, "writing", t)
      /\ UNCHANGED <<a, c, f>>
  BY <1>0 DEF G!Append1
<1>2. G!GateTypes /\ G!HistoryInOrder /\ G!OnlyLatestIsOpen /\ G!Given(c.at) /\ G!InHand("read", s)
  BY <1>0, <1>1 DEF G!DecisionsInv
<1>3. /\ w \in G!GateIds /\ G!NothingAfter(w) /\ a[w] \in G!Driveable /\ answer \in G!Answers
      /\ \A v \in G!GateIds : a[v] \in G!Driveable => v = w
      /\ answer.action = "record-disposition" => answer.finding \in GateFindings
      /\ answer.at <= f /\ s.status \in G!Statuses
      /\ \A v \in G!GateIds : Len(b[v]) < f /\ \A k \in DOMAIN b[v] : b[v][k].at < answer.at
  BY <1>0, <1>2 DEF G!InHand, G!AtLatest
<1>4. \A v \in G!GateIds : b[v] \in Seq(G!Answers) /\ Len(b[v]) \in Nat /\ DOMAIN b[v] = 1 .. Len(b[v])
  BY <1>2 DEF G!GateTypes
<1>5. /\ DOMAIN b' = G!GateIds /\ \A v \in G!GateIds : v # w => b'[v] = b[v]
      /\ b'[w] \in Seq(G!Answers) /\ Len(b'[w]) = n /\ DOMAIN b'[w] = 1 .. n
      /\ n \in DOMAIN b'[w] /\ b'[w][n] = answer
      /\ \A k \in DOMAIN b[w] : k \in DOMAIN b'[w] /\ k < n /\ b'[w][k] = b[w][k]
      /\ \A k \in DOMAIN b'[w] : k \in DOMAIN b[w] \/ k = n
  <2>1. b'[w] = Append(b[w], answer) /\ DOMAIN b' = G!GateIds
        /\ \A v \in G!GateIds : v # w => b'[v] = b[v]
    BY <1>1, <1>2, <1>3 DEF G!GateTypes
  <2>2. PICK q : q = b[w]
    OBVIOUS
  <2>3. q \in Seq(G!Answers) /\ Len(q) \in Nat /\ DOMAIN q = 1 .. Len(q) /\ n = Len(q) + 1
    BY <1>0, <1>3, <1>4, <2>2
  <2> QED BY <1>3, <2>1, <2>2, <2>3
<1>6. /\ \A v \in G!GateIds : \A k \in DOMAIN b[v] : k \in DOMAIN b'[v] /\ b'[v][k] = b[v][k]
      /\ \A v \in G!GateIds : \A k \in DOMAIN b'[v] :
           (k \in DOMAIN b[v] /\ b'[v][k] = b[v][k]) \/ (v = w /\ k = n /\ b'[v][k] = answer)
  BY <1>5
<1>7. G!GateTypes'
  <2>1. b' \in [G!GateIds -> Seq(G!Answers)]
    BY <1>1, <1>2, <1>5 DEF G!GateTypes
  <2>2. DOMAIN d' = Controllers /\ DOMAIN e' = Controllers
    BY <1>1, <1>2 DEF G!Go, G!GateTypes
  <2> QED BY <1>1, <1>2, <2>1, <2>2 DEF G!GateTypes
<1>8. answer.at \in Nat /\ f \in Nat /\ \A v \in G!GateIds : \A k \in DOMAIN b[v] : b[v][k].at \in Nat
  <2>1. \A v \in G!GateIds : \A k \in DOMAIN b[v] : b[v][k] \in G!Answers
    BY <1>4
  <2> QED BY <1>2, <1>3, <2>1, GatesAssumption DEF G!GateTypes, G!Answers
<1>9. G!HistoryInOrder'
  <2>1. \A v \in G!GateIds : Len(b'[v]) <= f
    <3> TAKE v \in G!GateIds
    <3>1. Len(b[v]) \in Nat /\ Len(b[v]) < f
      BY <1>3, <1>4
    <3> QED BY <1>0, <1>5, <1>8, <3>1
  <2>2. \A v \in G!GateIds : \A k \in DOMAIN b'[v] : b'[v][k].at <= f
    BY <1>2, <1>3, <1>6 DEF G!HistoryInOrder
  <2>3. ASSUME NEW v \in G!GateIds, NEW u \in G!GateIds, NEW k \in DOMAIN b'[v], NEW l \in DOMAIN b'[u],
               v < u \/ (v = u /\ k < l)
        PROVE  b'[v][k].at < b'[u][l].at
    <3>1. CASE l \in DOMAIN b[u] /\ b'[u][l] = b[u][l] /\ k \in DOMAIN b[v] /\ b'[v][k] = b[v][k]
      BY <1>2, <2>3, <3>1 DEF G!HistoryInOrder
    <3>2. CASE u = w /\ l = n /\ b'[u][l] = answer /\ k \in DOMAIN b[v] /\ b'[v][k] = b[v][k]
      BY <1>3, <3>2
    <3>3. CASE v = w /\ k = n /\ b'[v][k] = answer
      <4>1. ~ (v < u)
        <5>1. v < u => b[u] = <<>> /\ b'[u] = b[u]
          BY <1>3, <1>5, <3>3 DEF G!NothingAfter, G!GateIds
        <5>2. DOMAIN b'[u] # {}
          OBVIOUS
        <5> QED BY <5>1, <5>2
      <4>2. v = u /\ k < l
        BY <2>3, <4>1
      <4>3. l \in 1 .. n /\ n \in Nat
        BY <1>0, <1>3, <1>4, <1>5, <3>3, <4>2
      <4> QED BY <3>3, <4>2, <4>3
    <3> QED BY <1>6, <3>1, <3>2, <3>3
  <2> QED BY <1>1, <2>1, <2>2, <2>3 DEF G!HistoryInOrder
<1>10. G!NothingAfter(w)'
  BY <1>1, <1>3, <1>5 DEF G!NothingAfter, G!GateIds
<1>11. G!OnlyLatestIsOpen'
  <2>1. a[w] # Nothing
    BY <1>3, GatesAssumption DEF G!Statuses
  <2>2. \A v \in G!GateIds : a[v] \in G!Driveable => v = w
    BY <1>3
  <2>3. \A v \in G!GateIds : a'[v] = Nothing => b'[v] = <<>>
    BY <1>1, <1>2, <1>5, <2>1 DEF G!OnlyLatestIsOpen
  <2>4. \A v \in G!GateIds : a'[v] \in G!Driveable => G!NothingAfter(v)'
    BY <1>1, <1>10, <2>2
  <2> QED BY <2>3, <2>4 DEF G!OnlyLatestIsOpen
<1>12. G!Given(c.at)'
  BY <1>1, <1>2, <1>6 DEF G!Given
<1>13. \A q \in Controllers : G!InHand(d[q], e[q])'
  <2>1. G!AtLatest(w)'
    BY <1>1, <1>3, <1>10 DEF G!AtLatest
  <2>2. CASE answer.action = "record-disposition"
    <3>1. \E k \in DOMAIN b'[w] : b'[w][k] = answer
      BY <1>5
    <3>2. \A v \in G!GateIds : \A k \in DOMAIN b'[v] : b'[v][k].at <= answer.at
      BY <1>3, <1>6, <1>8
    <3>3. G!InHand("applying", s)'
      BY <1>0, <1>1, <1>3, <2>1, <2>2, <3>1, <3>2 DEF G!InHand
    <3> QED BY <1>1, <1>2, <2>2, <3>3, ProcessGoes
  <2>3. CASE answer.action # "record-disposition"
    <3>1. t.gate = w /\ t.status \in G!Statuses
      <4>1. t.gate = w /\ t.status \in {s.status, G!StatusAfter(s.status, s.answer.action)}
        BY <1>0
      <4>2. G!StatusAfter(s.status, s.answer.action) \in G!Statuses
        BY <1>3 DEF G!StatusAfter, G!Statuses, G!Terminal
      <4> QED BY <1>3, <4>1, <4>2
    <3>2. a[w] \notin G!Terminal
      BY <1>3 DEF G!Driveable, G!Terminal
    <3>3. G!InHand("writing", t)'
      BY <1>1, <2>1, <3>1, <3>2 DEF G!InHand
    <3> QED BY <1>1, <1>2, <2>3, <3>3, ProcessGoes
  <2> QED BY <2>2, <2>3
<1>14. G!StaysClosed /\ G!KeepsReadableDecisions
  BY <1>1, <1>2 DEF G!StaysClosed, G!KeepsReadableDecisions, G!GateTypes
<1> QED BY <1>7, <1>9, <1>11, <1>12, <1>13, <1>14 DEF G!DecisionsInv

(* What is merged was answered, and is not older than the ledger.           *)
LEMMA GatesApply ==
  ASSUME G!OneProcess, G!DecisionsInv, NEW p \in Controllers, G!Apply(p)
  PROVE  G!DecisionsInv' /\ G!StaysClosed /\ G!KeepsReadableDecisions
<1>0. PICK s, answer, x, new, merged, t :
        /\ s = e[p] /\ answer = s.answer /\ x = s.answer.finding /\ new = G!Replay(c.at)
        /\ merged = [new EXCEPT ![x] = answer.at]
        /\ t = [gate |-> s.gate, status |-> s.status, answer |-> s.answer, merged |-> merged]
  OBVIOUS
<1>1. /\ d[p] = "applying" /\ UNCHANGED <<a, b, c, f>>
      /\ G!Go(p, "idle", Nothing) \/ G!Go(p, "merged", t)
  BY <1>0 DEF G!Apply, G!Done
<1>2. G!GateTypes /\ G!HistoryInOrder /\ G!OnlyLatestIsOpen /\ G!Given(c.at) /\ G!InHand("applying", s)
  BY <1>0, <1>1 DEF G!DecisionsInv
<1>3. f' \in 0 .. MaxAnswers /\ f' >= f
  BY <1>1, <1>2, GatesAssumption DEF G!GateTypes
<1>4. /\ t.gate = s.gate /\ t.status = s.status /\ t.answer = answer /\ t.merged = merged
  BY <1>0
<1>5. /\ x \in GateFindings /\ answer.action = "record-disposition" /\ answer.finding = x
      /\ answer \in G!Answers /\ s.gate \in G!GateIds
      /\ \E k \in DOMAIN b[s.gate] : b[s.gate][k] = answer
      /\ \A v \in G!GateIds : \A k \in DOMAIN b[v] : b[v][k].at <= answer.at
  BY <1>0, <1>2 DEF G!InHand, G!AtLatest
<1>6. answer.at \in Nat
  BY <1>5 DEF G!Answers
<1>7. new \in [GateFindings -> Nat] /\ G!Given(new) /\ c.at \in [GateFindings -> Nat]
  <2>1. c.at \in [GateFindings -> Nat]
    BY <1>2 DEF G!GateTypes
  <2> QED BY <1>0, <1>2, <2>1, ReplayGives
<1>8. merged \in [GateFindings -> Nat] /\ merged[x] = answer.at
      /\ \A y \in GateFindings : y # x => merged[y] = new[y]
  BY <1>0, <1>5, <1>6, <1>7
<1>9. G!Given(merged)
  BY <1>5, <1>7, <1>8 DEF G!Given
<1>10. ASSUME \A v \in G!GateIds : a[v] # Torn, NEW y \in GateFindings PROVE merged[y] >= c.at[y]
  <2>1. CASE y = x
    <3>1. CASE c.at[x] = 0
      BY <1>6, <1>8, <2>1, <3>1
    <3>2. CASE c.at[x] # 0
      <4>0. PICK v \in G!GateIds : \E k \in DOMAIN b[v] : b[v][k].at = c.at[x]
        BY <1>2, <1>5, <3>2 DEF G!Given
      <4>1. PICK k \in DOMAIN b[v] : b[v][k].at = c.at[x]
        BY <4>0
      <4> QED BY <1>5, <1>8, <2>1, <4>1
    <3> QED BY <3>1, <3>2
  <2>2. CASE y # x
    <3>1. new[y] >= c.at[y] \/ (G!Recorded(y) = {} /\ c.at[y] = 0)
      BY <1>0, <1>2, <1>7, <1>10, ReplayKeepsUp
    <3> QED BY <1>7, <1>8, <2>2, <3>1
  <2> QED BY <2>1, <2>2
<1>11. G!InHand("merged", t)'
  <2>1. G!Given(merged)'
    BY <1>1, <1>9 DEF G!Given
  <2>2. G!AtLatest(s.gate)'
    BY <1>1, <1>2 DEF G!InHand, G!AtLatest, G!NothingAfter
  <2>3. s.status \in G!Statuses /\ a[s.gate] \in G!Driveable
    BY <1>2 DEF G!InHand
  <2> QED BY <1>1, <1>4, <1>5, <1>8, <1>10, <2>1, <2>2, <2>3 DEF G!InHand
<1> QED BY <1>1, <1>3, <1>11, NothingInHand, FilesStay

LEMMA GatesTearLedger ==
  ASSUME G!OneProcess, G!DecisionsInv, NEW p \in Controllers, G!TearLedger(p)
  PROVE  G!DecisionsInv' /\ G!StaysClosed /\ G!KeepsReadableDecisions
<1>0. PICK s, l : s = e[p] /\ l = c
  OBVIOUS
<1>1. d[p] = "merged" /\ c' = [l EXCEPT !.torn = TRUE] /\ G!Go(p, "storing", s) /\ UNCHANGED <<a, b, f>>
  BY <1>0 DEF G!TearLedger
<1>2. G!GateTypes /\ G!HistoryInOrder /\ G!OnlyLatestIsOpen /\ G!Given(c.at) /\ G!InHand("merged", s)
  BY <1>0, <1>1 DEF G!DecisionsInv
<1>3. DOMAIN c' = {"at", "torn"} /\ c'.at = c.at
  <2>1. DOMAIN l = {"at", "torn"}
    BY <1>0, <1>2 DEF G!GateTypes
  <2>2. DOMAIN c' = {"at", "torn"} /\ c'.at = l.at
    BY ONLY <1>1, <2>1
  <2> QED BY <1>0, <2>2
<1>4. G!InHand("storing", s)'
  <2>1. G!Given(s.merged)'
    BY <1>1, <1>2 DEF G!InHand, G!Given
  <2> QED BY <1>1, <1>2, <1>3, <2>1 DEF G!InHand, G!AtLatest, G!NothingAfter
<1>5. G!GateTypes' /\ \A q \in Controllers : G!InHand(d[q], e[q])'
  BY <1>1, <1>2, <1>3, <1>4, ProcessGoes DEF G!GateTypes
<1>6. G!HistoryInOrder' /\ G!OnlyLatestIsOpen'
  BY <1>1, <1>2 DEF G!HistoryInOrder, G!OnlyLatestIsOpen, G!NothingAfter
<1>7. G!Given(c.at)'
  BY <1>1, <1>2, <1>3 DEF G!Given
<1>8. G!StaysClosed /\ G!KeepsReadableDecisions
  BY <1>1, <1>2, <1>3 DEF G!StaysClosed, G!KeepsReadableDecisions, G!GateTypes
<1> QED BY <1>5, <1>6, <1>7, <1>8 DEF G!DecisionsInv

LEMMA GatesStoreLedger ==
  ASSUME G!OneProcess, G!DecisionsInv, NEW p \in Controllers, G!StoreLedger(p)
  PROVE  G!DecisionsInv' /\ G!StaysClosed /\ G!KeepsReadableDecisions
<1>0. PICK s, t :
        /\ s = e[p]
        /\ t = [gate |-> s.gate, answer |-> s.answer,
                status |-> G!StatusAfter(s.status, s.answer.action)]
  OBVIOUS
<1>1. /\ d[p] = "storing" /\ c' = [at |-> s.merged, torn |-> FALSE] /\ UNCHANGED <<a, b, f>>
      /\ IF s.answer = Nothing THEN G!Go(p, "idle", Nothing) ELSE G!Go(p, "writing", t)
  BY <1>0 DEF G!StoreLedger, G!Done
<1>2. G!GateTypes /\ G!HistoryInOrder /\ G!OnlyLatestIsOpen /\ G!Given(c.at) /\ G!InHand("storing", s)
  BY <1>0, <1>1 DEF G!DecisionsInv
<1>3. /\ s.merged \in [GateFindings -> Nat] /\ G!Given(s.merged)
      /\ (\A v \in G!GateIds : a[v] # Torn) => \A x \in GateFindings : s.merged[x] >= c.at[x]
  BY <1>2 DEF G!InHand
<1>4. DOMAIN c' = {"at", "torn"} /\ c'.at = s.merged
  BY <1>1
<1>5. \A q \in Controllers : G!InHand(d[q], e[q])'
  <2>1. CASE s.answer = Nothing
    BY <1>1, <1>2, <2>1, NothingInHand, ProcessGoes
  <2>2. CASE s.answer # Nothing
    <3>1. G!AtLatest(s.gate) /\ a[s.gate] \in G!Driveable /\ s.status \in G!Statuses
      BY <1>2, <2>2 DEF G!InHand
    <3>2. t.gate = s.gate /\ t.status \in G!Statuses
      BY <1>0, <3>1 DEF G!StatusAfter, G!Statuses, G!Terminal
    <3>3. a[s.gate] \notin G!Terminal /\ G!AtLatest(s.gate)'
      BY <1>1, <3>1 DEF G!Driveable, G!Terminal, G!AtLatest, G!NothingAfter
    <3>4. G!InHand("writing", t)'
      BY <1>1, <3>2, <3>3 DEF G!InHand
    <3> QED BY <1>1, <1>2, <2>2, <3>4, ProcessGoes
  <2> QED BY <2>1, <2>2
<1>6. G!GateTypes'
  <2>1. DOMAIN d' = Controllers /\ DOMAIN e' = Controllers
    BY <1>1, <1>2 DEF G!Go, G!GateTypes
  <2> QED BY <1>1, <1>2, <1>3, <1>4, <2>1 DEF G!GateTypes
<1>7. G!HistoryInOrder' /\ G!OnlyLatestIsOpen'
  BY <1>1, <1>2 DEF G!HistoryInOrder, G!OnlyLatestIsOpen, G!NothingAfter
<1>8. G!Given(c.at)'
  BY <1>1, <1>3, <1>4 DEF G!Given
<1>9. G!StaysClosed /\ G!KeepsReadableDecisions
  BY <1>1, <1>3, <1>4 DEF G!StaysClosed, G!KeepsReadableDecisions
<1> QED BY <1>5, <1>6, <1>7, <1>8, <1>9 DEF G!DecisionsInv

(* The gate run a process is at gets another status.                        *)
LEMMA GatesWrite ==
  ASSUME G!OneProcess, G!DecisionsInv, NEW p \in Controllers, NEW w, NEW status, NEW phase, NEW s,
         G!AtLatest(w), a[w] \notin G!Terminal, a' = [a EXCEPT ![w] = status],
         status \in G!Statuses \cup {Torn}, UNCHANGED <<b, c, f>>, G!Go(p, phase, s),
         phase = "idle" \/ (phase = "saving" /\ s.gate = w /\ s.status \in G!Statuses /\ status = Torn)
  PROVE  G!DecisionsInv' /\ G!StaysClosed /\ G!KeepsReadableDecisions
<1>1. G!GateTypes /\ G!HistoryInOrder /\ G!OnlyLatestIsOpen /\ G!Given(c.at)
  BY DEF G!DecisionsInv
<1>2. /\ w \in G!GateIds /\ a'[w] = status /\ \A v \in G!GateIds : v # w => a'[v] = a[v]
      /\ a' \in [G!GateIds -> G!Statuses \cup {Nothing, Torn}]
      /\ status # Nothing
  BY <1>1, GatesAssumption DEF G!GateTypes, G!AtLatest
<1>3. G!NothingAfter(w)' /\ \A v \in G!GateIds : a'[v] \in G!Driveable => v = w
  <2>1. \A v \in G!GateIds : v > w => v # w
    BY DEF G!GateIds
  <2> QED BY <1>2, <2>1 DEF G!AtLatest, G!NothingAfter
<1>4. G!OnlyLatestIsOpen'
  BY <1>1, <1>2, <1>3 DEF G!OnlyLatestIsOpen
<1>5. \A q \in Controllers : G!InHand(d[q], e[q])'
  <2>1. G!InHand(phase, s)'
    BY <1>2, <1>3 DEF G!InHand, G!AtLatest
  <2> QED BY <1>1, <2>1, ProcessGoes
<1>6. G!GateTypes'
  <2>1. DOMAIN d' = Controllers /\ DOMAIN e' = Controllers
    BY <1>1 DEF G!Go, G!GateTypes
  <2> QED BY <1>1, <1>2, <2>1 DEF G!GateTypes
<1>7. G!HistoryInOrder' /\ G!Given(c.at)'
  BY <1>1 DEF G!HistoryInOrder, G!Given
<1>8. G!StaysClosed /\ G!KeepsReadableDecisions
  BY <1>1, <1>2 DEF G!StaysClosed, G!KeepsReadableDecisions, G!GateTypes
<1> QED BY <1>4, <1>5, <1>6, <1>7, <1>8 DEF G!DecisionsInv

LEMMA GatesReaudit ==
  ASSUME G!OneProcess, G!DecisionsInv, NEW p \in Controllers, G!Reaudit(p)
  PROVE  G!DecisionsInv' /\ G!StaysClosed /\ G!KeepsReadableDecisions
<1>0. PICK none, new, t :
        /\ none = G!Empty /\ new = G!Replay(none)
        /\ t = [gate |-> Nothing, status |-> Nothing, answer |-> Nothing, merged |-> new]
  OBVIOUS
<1>1. G!Go(p, "merged", t) /\ UNCHANGED <<a, b, c, f>>
  BY <1>0 DEF G!Reaudit
<1>2. G!GateTypes /\ G!HistoryInOrder
  BY DEF G!DecisionsInv
<1>3. none \in [GateFindings -> Nat] /\ G!Given(none) /\ \A x \in GateFindings : none[x] = 0
  BY <1>0 DEF G!Empty, G!Given
<1>4. /\ new \in [GateFindings -> Nat] /\ G!Given(new)
      /\ \A x \in GateFindings : G!Recorded(x) = {} => new[x] = none[x]
  BY <1>0, <1>2, <1>3, ReplayGives
<1>5. ASSUME \A v \in G!GateIds : a[v] # Torn, NEW x \in GateFindings PROVE new[x] >= c.at[x]
  <2>1. new[x] >= c.at[x] \/ (G!Recorded(x) = {} /\ c.at[x] = 0)
    BY <1>0, <1>3, <1>5, ReplayKeepsUp
  <2> QED BY <1>3, <1>4, <2>1
<1>6. t.answer = Nothing /\ t.merged = new
  BY <1>0
<1>7. G!InHand("merged", t)'
  <2>1. G!Given(new)'
    BY <1>1, <1>4 DEF G!Given
  <2> QED BY <1>1, <1>4, <1>5, <1>6, <2>1 DEF G!InHand
<1>8. f' \in 0 .. MaxAnswers /\ f' >= f
  BY <1>1, <1>2, GatesAssumption DEF G!GateTypes
<1> QED BY <1>1, <1>7, <1>8, FilesStay

LEMMA GatesStep ==
  ASSUME G!OneProcess, Generated, G!DecisionsInv, G!Next \/ UNCHANGED <<a, b, c, d, e, f, g, h>>
  PROVE  G!DecisionsInv' /\ G!StaysClosed /\ G!KeepsReadableDecisions
<1>1. ASSUME NEW p \in Controllers, G!Create(p) \/ G!Respond(p) \/ G!Reaudit(p)
      PROVE  G!DecisionsInv' /\ G!StaysClosed /\ G!KeepsReadableDecisions
  BY <1>1, GatesCreate, GatesReadRun, GatesReaudit DEF G!Create, G!Respond
<1>2. ASSUME NEW p \in Controllers, G!TearRun(p)
      PROVE  G!DecisionsInv' /\ G!StaysClosed /\ G!KeepsReadableDecisions
  <2>0. PICK s, w : s = e[p] /\ w = s.gate
    OBVIOUS
  <2>1. d[p] = "writing" /\ a' = [a EXCEPT ![w] = Torn] /\ G!Go(p, "saving", s) /\ UNCHANGED <<b, c, f>>
    BY <1>2, <2>0 DEF G!TearRun
  <2>2. G!InHand("writing", s)
    BY <2>0, <2>1 DEF G!DecisionsInv
  <2>3. G!AtLatest(w) /\ a[w] \notin G!Terminal /\ s.status \in G!Statuses
    BY <2>0, <2>2 DEF G!InHand
  <2> QED BY <2>0, <2>1, <2>3, GatesWrite
<1>3. ASSUME NEW p \in Controllers, G!SaveRun(p)
      PROVE  G!DecisionsInv' /\ G!StaysClosed /\ G!KeepsReadableDecisions
  <2>0. PICK s, w, status : s = e[p] /\ w = s.gate /\ status = s.status
    OBVIOUS
  <2>1. /\ d[p] = "saving" /\ a' = [a EXCEPT ![w] = status] /\ G!Go(p, "idle", Nothing)
        /\ UNCHANGED <<b, c, f>>
    BY <1>3, <2>0 DEF G!SaveRun, G!Done
  <2>2. G!InHand("saving", s)
    BY <2>0, <2>1 DEF G!DecisionsInv
  <2>3. G!AtLatest(w) /\ a[w] \notin G!Terminal /\ status \in G!Statuses
    BY <2>0, <2>2, GatesAssumption DEF G!InHand, G!Statuses
  <2> QED BY <2>1, <2>3, GatesWrite
<1>4. ASSUME NEW p \in Controllers, G!Crash(p)
      PROVE  G!DecisionsInv' /\ G!StaysClosed /\ G!KeepsReadableDecisions
  <2>1. G!Go(p, "idle", Nothing) /\ UNCHANGED <<a, b, c, f>>
    BY <1>4 DEF G!Crash, G!Done
  <2>2. f' \in 0 .. MaxAnswers /\ f' >= f
    BY <2>1, GatesAssumption DEF G!DecisionsInv, G!GateTypes
  <2> QED BY <2>1, <2>2, NothingInHand, FilesStay
<1>5. CASE UNCHANGED <<a, b, c, d, e, f, g, h>>
  <2>1. G!GateTypes' /\ G!HistoryInOrder' /\ G!OnlyLatestIsOpen' /\ G!Given(c.at)'
    BY <1>5 DEF G!DecisionsInv, G!GateTypes, G!HistoryInOrder, G!OnlyLatestIsOpen, G!NothingAfter,
       G!Given
  <2>2. ASSUME NEW q \in Controllers PROVE G!InHand(d[q], e[q])'
    <3>1. PICK phase, s : phase = d[q] /\ s = e[q]
      OBVIOUS
    <3>2. G!InHand(phase, s)
      BY <3>1 DEF G!DecisionsInv
    <3>3. G!Given(s.merged)' <=> G!Given(s.merged)
      BY <1>5 DEF G!Given
    <3>4. G!AtLatest(s.gate)' <=> G!AtLatest(s.gate)
      BY <1>5 DEF G!AtLatest, G!NothingAfter
    <3>5. G!InHand(phase, s)'
      BY <1>5, <3>2, <3>3, <3>4 DEF G!InHand
    <3>6. d'[q] = phase /\ e'[q] = s
      BY <1>5, <3>1
    <3> QED BY <3>5, <3>6
  <2>3. G!StaysClosed /\ G!KeepsReadableDecisions
    BY <1>5 DEF G!StaysClosed, G!KeepsReadableDecisions, G!DecisionsInv, G!GateTypes
  <2> QED BY <2>1, <2>2, <2>3 DEF G!DecisionsInv
<1> QED BY <1>1, <1>2, <1>3, <1>4, <1>5, GatesAppend, GatesApply, GatesTearLedger, GatesStoreLedger
        DEF G!Next, G!Step

LEMMA GatesInit == PartsInit /\ part = "gates" => G!DecisionsInv
<1> SUFFICES ASSUME G!Init PROVE G!DecisionsInv
  BY DEF PartsInit
<1>1. /\ a = [w \in G!GateIds |-> Nothing] /\ b = [w \in G!GateIds |-> <<>>]
      /\ c = [at |-> G!Empty, torn |-> FALSE] /\ d = [p \in Controllers |-> "idle"]
      /\ e = [p \in Controllers |-> Nothing] /\ f = 0
  BY DEF G!Init
<1>2. c.at = [x \in GateFindings |-> 0] /\ DOMAIN c = {"at", "torn"}
  BY <1>1 DEF G!Empty
<1>3. \A w \in G!GateIds : b[w] = <<>> /\ <<>> \in Seq(G!Answers) /\ Len(b[w]) = 0 /\ DOMAIN b[w] = {}
  BY <1>1
<1>4. G!GateTypes
  BY <1>1, <1>2, <1>3, GatesAssumption DEF G!GateTypes
<1>5. G!HistoryInOrder
  BY <1>1, <1>3 DEF G!HistoryInOrder
<1>6. G!OnlyLatestIsOpen /\ G!Given(c.at)
  BY <1>1, <1>2, <1>3, GatesAssumption DEF G!OnlyLatestIsOpen, G!Given, G!Statuses
<1>7. \A p \in Controllers : G!InHand(d[p], e[p])
  BY <1>1 DEF G!InHand
<1> QED BY <1>4, <1>5, <1>6, <1>7 DEF G!DecisionsInv

(* For one controller with generated ids, whatever the number of gate runs, *)
(* answers, deaths and audits: histories are in the order of the answers,   *)
(* and what the ledger and a process hold of them is not older.             *)
THEOREM DecisionsKept ==
  G!OneProcess /\ Generated => (Parts => [](part = "gates" => G!DecisionsInv))
<1> SUFFICES ASSUME G!OneProcess, Generated PROVE Parts => [](part = "gates" => G!DecisionsInv)
  OBVIOUS
<1>1. PartsInit => (part = "gates" => G!DecisionsInv)
  BY GatesInit
<1>2. (part = "gates" => G!DecisionsInv) /\ [PartsNext]_parts => (part = "gates" => G!DecisionsInv)'
  <2> SUFFICES ASSUME part' = "gates", part = "gates" => G!DecisionsInv, [PartsNext]_parts
               PROVE  G!DecisionsInv'
    OBVIOUS
  <2>1. part = "gates" /\ (G!Next \/ UNCHANGED <<a, b, c, d, e, f, g, h>>)
    BY DEF PartsNext, parts
  <2> QED BY <2>1, GatesStep
<1> QED BY <1>1, <1>2, PTL DEF Parts

(* A closed gate run stays closed, and while all of them can be read no     *)
(* decision gives way to an older one.                                      *)
THEOREM DecisionsDoStand == G!OneProcess /\ Generated => (Parts => DecisionsStand)
<1> SUFFICES ASSUME G!OneProcess, Generated PROVE Parts => DecisionsStand
  OBVIOUS
<1>1. (part = "gates" => G!DecisionsInv) /\ [PartsNext]_parts
        => [part = "gates" => G!StaysClosed /\ G!KeepsReadableDecisions]_parts
  <2> SUFFICES ASSUME part = "gates" => G!DecisionsInv, PartsNext, part = "gates"
               PROVE  G!StaysClosed /\ G!KeepsReadableDecisions
    OBVIOUS
  <2>1. G!Next
    BY DEF PartsNext
  <2> QED BY <2>1, GatesStep
<1> QED BY <1>1, DecisionsKept, PTL DEF Parts, DecisionsStand

-----------------------------------------------------------------------------
(* Verification.                                                            *)

(* The next gate is one of those that are left.                             *)
LEMMA NextGateIsLeft ==
  ASSUME NEW left, left \subseteq DOMAIN GateCapabilities, left # {}
  PROVE  V!NextGate(left) \in left
<1>1. \A x \in left : V!Cost(x) \in Nat /\ GateCapabilities[x].alpha \in Nat
  BY VerificationAssumption DEF V!Cost
<1>2. PICK costs : costs = {V!Cost(x) : x \in left}
  OBVIOUS
<1>9. costs \in SUBSET Nat /\ costs # {}
  BY <1>1, <1>2
<1>3. PICK least \in costs : \A n \in costs : least <= n
  BY <1>9, LeastOf
<1>4. PICK names : names = {GateCapabilities[x].alpha : x \in {y \in left : V!Cost(y) = least}}
  OBVIOUS
<1>5. names \in SUBSET Nat /\ names # {}
  BY <1>1, <1>2, <1>3, <1>4
<1>6. PICK first \in names : \A n \in names : first <= n
  BY <1>5, LeastOf
<1>7. PICK x \in left : V!Cost(x) = least /\ GateCapabilities[x].alpha = first
  BY <1>4, <1>6
<1>8. ASSUME NEW y \in left \ {x} PROVE V!Earlier(x, y)
  <2>1. least <= V!Cost(y)
    BY <1>2, <1>3
  <2>2. V!Cost(y) = least => first <= GateCapabilities[y].alpha
    BY <1>4, <1>6
  <2>3. GateCapabilities[y].alpha # first
    BY <1>7, VerificationAssumption
  <2> QED BY <1>1, <1>7, <2>1, <2>2, <2>3 DEF V!Earlier
<1> QED BY <1>8 DEF V!NextGate

LEMMA ResultsKept ==
  ASSUME NEW x, NEW row, NEW was, NEW now, V!ResultFits(x, row, was), b' = b,
         V!PassedLeaves(was) \subseteq V!PassedLeaves(now)
  PROVE  V!ResultFits(x, row, now)'
<1>1. V!Covered(x, was) => V!Covered(x, now)'
  BY DEF V!Covered
<1>2. V!LocalExecutionStatus(x, b)' = V!LocalExecutionStatus(x, b)
  BY DEF V!LocalExecutionStatus
<1> QED BY <1>1, <1>2 DEF V!ResultFits

(* The result a gate is given fits it.                                      *)
LEMMA ResultOfGateFits ==
  ASSUME NEW x, NEW results, NEW row \in V!GateResultsOf(x, b, results)
  PROVE  /\ V!ResultFits(x, row, results)
         /\ V!SetupBlocked(x, results) =>
              row = V!Result("skipped", "dependency-setup-blocker", Plain)
<1>1. CASE V!SetupBlocked(x, results)
  BY <1>1 DEF V!GateResultsOf, V!ResultFits
<1>2. CASE ~V!SetupBlocked(x, results) /\ V!SkipReason(x, b, results) # "none"
  <2>1. row = V!Result("skipped", V!SkipReason(x, b, results), GateCapabilities[x].enforcement)
    BY <1>2 DEF V!GateResultsOf
  <2>2. /\ row.status = "skipped" /\ row.enforcement = GateCapabilities[x].enforcement
        /\ row.why = V!SkipReason(x, b, results)
    BY <2>1 DEF V!Result
  <2>3. \/ row.why = "covered" /\ V!Covered(x, results)
        \/ /\ V!LocalExecutionStatus(x, b) # "will-execute"
           /\ \/ row.why = "ci-only" /\ GateCapabilities[x].ciOnly
              \/ row.why = "file" /\ GateCapabilities[x].kind = "file"
              \/ row.why = "no-command" /\ ~GateCapabilities[x].command
              \/ row.why \in {"execution-consent-required", "mutating-gate-not-run"}
    BY <1>2, <2>2 DEF V!SkipReason, V!LocalExecutionStatus
  <2> QED BY <1>2, <2>2, <2>3 DEF V!ResultFits
<1>3. CASE ~V!SetupBlocked(x, results) /\ V!SkipReason(x, b, results) = "none"
  <2>1. V!LocalExecutionStatus(x, b) = "will-execute"
    BY <1>3 DEF V!SkipReason, V!LocalExecutionStatus
  <2>2. \/ row = V!Result("passed", "none", GateCapabilities[x].enforcement)
        \/ \E type \in V!FailureTypes : row = V!Result("failed", type, GateCapabilities[x].enforcement)
    BY <1>3 DEF V!GateResultsOf
  <2>3. /\ row.enforcement = GateCapabilities[x].enforcement
        /\ \/ row.status = "passed" /\ row.why = "none"
           \/ row.status = "failed" /\ row.why \in V!FailureTypes
    BY <2>2 DEF V!Result
  <2> QED BY <1>3, <2>1, <2>3 DEF V!ResultFits
<1> QED BY <1>1, <1>2, <1>3

LEMMA GateRuns ==
  ASSUME V!VerificationInv, V!RunGate
  PROVE  V!VerificationInv'
<1>1. PICK next : next = V!NextGate(V!Left)
  OBVIOUS
<1>2. /\ next \in V!Selected(b.only) \cap V!Discovered(a) /\ next \notin DOMAIN d
      /\ next \in DOMAIN GateCapabilities
  <2>1. V!Left \subseteq DOMAIN GateCapabilities /\ V!Left # {}
    BY DEF V!RunGate, V!Left, V!Selected, V!Executable
  <2>2. next \in V!Left
    BY <1>1, <2>1, NextGateIsLeft
  <2> QED BY <2>1, <2>2 DEF V!Left
<1>3. PICK row \in V!GateResultsOf(next, b, d) :
        d' = [x \in DOMAIN d \cup {next} |-> IF x = next THEN row ELSE d[x]]
  BY <1>1 DEF V!RunGate
<1>4. UNCHANGED <<a, b, c, e, g, h>> /\ c = "gates"
  BY DEF V!RunGate
<1>5. PICK was, now : was = d /\ now = d'
  OBVIOUS
<1>6. /\ DOMAIN now = DOMAIN was \cup {next} /\ now[next] = row
      /\ \A x \in DOMAIN was : now[x] = was[x]
  BY <1>2, <1>3, <1>5
<1>7. /\ V!ResultFits(next, row, was)
      /\ V!SetupBlocked(next, was) => row = V!Result("skipped", "dependency-setup-blocker", Plain)
  BY <1>5, ResultOfGateFits
<1>8. V!PassedLeaves(was) \subseteq V!PassedLeaves(now)
  BY <1>6 DEF V!PassedLeaves
<1>9. ASSUME NEW x \in DOMAIN now, NEW got, got = now[x] PROVE V!ResultFits(x, got, now)'
  <2>1. V!ResultFits(x, got, was)
    BY <1>5, <1>6, <1>7, <1>9 DEF V!VerificationInv, V!ResultsFit
  <2> QED BY <1>4, <1>8, <2>1, ResultsKept
<1>10. ASSUME NEW x \in DOMAIN now, NEW y \in DOMAIN now, x # y,
              GateCapabilities[x].setup = GateCapabilities[y].setup,
              now[x].status = "failed", now[x].why = "dependency-setup-blocker",
              now[y].status = "failed", now[y].why = "dependency-setup-blocker"
       PROVE  FALSE
  <2>1. CASE x \in DOMAIN was /\ y \in DOMAIN was
    BY <1>5, <1>6, <1>10, <2>1 DEF V!VerificationInv, V!ResultsFit
  <2>2. CASE x = next \/ y = next
    <3>1. V!SetupBlocked(next, was)
      BY <1>6, <1>10, <2>2 DEF V!SetupBlocked
    <3>2. row.status = "skipped"
      BY <1>7, <3>1 DEF V!Result
    <3> QED BY <1>6, <1>10, <2>2, <3>2
  <2> QED BY <1>6, <2>1, <2>2
<1>11. V!ResultsFit'
  <2>1. DOMAIN now \subseteq (V!Selected(b.only) \cap V!Discovered(a))' /\ DOMAIN now # {}
    BY <1>2, <1>4, <1>5, <1>6 DEF V!VerificationInv, V!ResultsFit, V!Discovered
  <2> QED BY <1>5, <1>9, <1>10, <2>1 DEF V!ResultsFit
<1>12. ~V!Concluded' /\ h' = NoReport
  BY <1>4 DEF V!VerificationInv, V!Concluded
<1> QED BY <1>4, <1>11, <1>12 DEF V!VerificationInv

LEMMA ResultsStand ==
  ASSUME V!ResultsFit, UNCHANGED <<a, b, d>>
  PROVE  V!ResultsFit'
<1>1. ASSUME NEW x \in DOMAIN d, NEW row, row = d[x], NEW was, was = d
      PROVE  V!ResultFits(x, row, was)'
  BY <1>1, ResultsKept DEF V!ResultsFit
<1> QED BY <1>1 DEF V!ResultsFit

LEMMA ConclusionStands ==
  ASSUME V!ConclusionFits, UNCHANGED <<a, b, d, g>>
  PROVE  V!ConclusionFits'
  BY DEF V!ConclusionFits

LEMMA VerificationConcludes ==
  ASSUME V!VerificationInv, V!Conclude
  PROVE  V!VerificationInv'
<1>1. UNCHANGED <<a, b, d, e, f, h>> /\ V!Left = {} /\ c = "gates" /\ c' = "report"
  BY DEF V!Conclude
<1>2. V!ResultsFit'
  BY <1>1, ResultsStand DEF V!VerificationInv
<1>3. V!ConclusionFits'
  BY <1>1 DEF V!Conclude, V!ConclusionFits, V!Left
<1>4. h' = NoReport
  BY <1>1 DEF V!VerificationInv
<1> QED BY <1>1, <1>2, <1>3, <1>4 DEF V!VerificationInv

LEMMA VerificationWrites ==
  ASSUME V!VerificationInv, V!WriteScan \/ V!WriteReport
  PROVE  V!VerificationInv'
<1>1. UNCHANGED <<a, b, d, g, h>> /\ c \in {"report", "writing"} /\ c' = "writing"
  BY DEF V!WriteScan, V!WriteReport
<1>2. V!ResultsFit' /\ V!ConclusionFits'
  BY <1>1, ResultsStand, ConclusionStands DEF V!VerificationInv
<1>3. h' = NoReport
  BY <1>1 DEF V!VerificationInv
<1> QED BY <1>1, <1>2, <1>3 DEF V!VerificationInv

LEMMA HandoffWritten ==
  ASSUME V!VerificationInv, V!WriteHandoff
  PROVE  V!VerificationInv'
<1>1. UNCHANGED <<a, b, d, g>> /\ c = "writing" /\ c' = "done"
  BY DEF V!WriteHandoff
<1>2. V!ResultsFit' /\ V!ConclusionFits'
  BY <1>1, ResultsStand, ConclusionStands DEF V!VerificationInv
<1>3. h' = V!Lifecycle(g'.status, V!HandoffStatus(g'.status, a', d'), g'.readiness, TRUE, a')
  BY <1>1 DEF V!WriteHandoff
<1> QED BY <1>1, <1>2, <1>3 DEF V!VerificationInv

LEMMA VerificationDies ==
  ASSUME V!VerificationInv, V!Die
  PROVE  V!VerificationInv'
<1>1. UNCHANGED <<a, b, d, h>> /\ c # "done" /\ c' = "dead" /\ g' = NoReport
  BY DEF V!Die
<1>2. V!ResultsFit'
  BY <1>1, ResultsStand DEF V!VerificationInv
<1>3. h' = NoReport
  BY <1>1 DEF V!VerificationInv
<1> QED BY <1>1, <1>2, <1>3 DEF V!VerificationInv, V!Concluded

LEMMA VerificationStands ==
  ASSUME V!VerificationInv, UNCHANGED shared
  PROVE  V!VerificationInv'
<1>1. UNCHANGED <<a, b, c, d, g, h>>
  BY DEF shared
<1>2. V!ResultsFit' /\ (c' \in {"report", "writing", "done"} => V!ConclusionFits')
  BY <1>1, ResultsStand, ConclusionStands DEF V!VerificationInv
<1> QED BY <1>1, <1>2 DEF V!VerificationInv, V!Concluded

LEMMA VerificationStep ==
  ASSUME V!VerificationInv, V!Next
  PROVE  V!VerificationInv'
BY GateRuns, VerificationConcludes, VerificationWrites, HandoffWritten, VerificationDies DEF V!Next

LEMMA VerificationInit == PartsInit /\ part = "verification" => V!VerificationInv
<1> SUFFICES ASSUME V!Init PROVE V!VerificationInv
  BY DEF PartsInit
<1>1. d = <<>> /\ DOMAIN <<>> = {}
  BY DEF V!Init
<1>2. V!ResultsFit
  BY <1>1 DEF V!ResultsFit
<1> QED BY <1>2 DEF V!Init, V!VerificationInv, V!Concluded

(* Every result is one its gate may have, and the conclusion and the handoff *)
(* are those of the results.                                                *)
THEOREM VerificationKept == Parts => [](part = "verification" => V!VerificationInv)
<1>1. PartsInit => (part = "verification" => V!VerificationInv)
  BY VerificationInit
<1>2. (part = "verification" => V!VerificationInv) /\ [PartsNext]_parts
        => (part = "verification" => V!VerificationInv)'
  <2> SUFFICES ASSUME part = "verification" => V!VerificationInv, [PartsNext]_parts,
                      part' = "verification"
               PROVE  V!VerificationInv'
    OBVIOUS
  <2>1. V!VerificationInv /\ (V!Next \/ UNCHANGED shared)
    BY DEF PartsNext, parts, shared
  <2> QED BY <2>1, VerificationStep, VerificationStands
<1> QED BY <1>1, <1>2, PTL DEF Parts

(* What the gates say together, of any results.                             *)
LEMMA GatesSay ==
  ASSUME NEW results
  PROVE  /\ V!GateStatus(results) \in {"blocked", "failed", "passed", "skipped-nonlocal"}
         /\ V!GateStatus(results) = "passed" =>
              /\ \A x \in V!Counting(results) :
                   results[x].why \notin V!Blocking /\ results[x].status # "failed"
              /\ V!Counting(results) # {} => \E x \in DOMAIN results : results[x].status = "passed"
              /\ DOMAIN results # {}
         /\ V!GateStatus(results) \in {"failed", "blocked"} /\ DOMAIN results # {} =>
              V!Blockers(results) # {}
<1>1. PICK all : all = {results[x] : x \in V!Counting(results)}
  OBVIOUS
<1>2. V!GateStatus(results) =
        IF \E r \in all : r.why \in V!Blocking THEN "blocked"
        ELSE IF \E r \in all : r.status = "failed" THEN "failed"
        ELSE IF \E r \in all : r.status = "passed" THEN "passed"
        ELSE IF all # {} THEN "skipped-nonlocal"
        ELSE IF DOMAIN results # {} THEN "passed" ELSE "blocked"
  BY <1>1 DEF V!GateStatus
<1>3. /\ \A x \in V!Counting(results) : results[x] \in all
      /\ \A r \in all : \E x \in V!Counting(results) : r = results[x]
      /\ V!Counting(results) \subseteq DOMAIN results
  BY <1>1 DEF V!Counting
<1>4. V!GateStatus(results) = "passed" =>
        /\ \A x \in V!Counting(results) :
             results[x].why \notin V!Blocking /\ results[x].status # "failed"
        /\ V!Counting(results) # {} => \E x \in DOMAIN results : results[x].status = "passed"
        /\ DOMAIN results # {}
  BY <1>2, <1>3
<1>5. V!GateStatus(results) \in {"failed", "blocked"} /\ DOMAIN results # {} =>
        V!Blockers(results) # {}
  BY <1>2, <1>3 DEF V!Blockers
<1> QED BY <1>2, <1>4, <1>5

(* What a verification that passes has found of its gates, its invariants   *)
(* and, of a release, of the checks of CI.                                  *)
LEMMA PassFinds ==
  ASSUME NEW w \in VerifyWorlds, NEW results, V!FinalStatus(w, results) = "passed"
  PROVE  /\ V!GateStatus(results) = "passed"
         /\ V!ReadinessStatus(w, results) \in {"passed", "not-applicable"}
         /\ \A x \in V!Required :
              V!InvariantStatus(x, w, results) \notin {"failed", "blocked", "unknown", "stale"}
         /\ V!ReadinessStatus(w, results) = "passed" <=> V!IsRelease(w)
         /\ V!IsRelease(w) => V!ProvenanceHolds(w)
<1>1. /\ V!ReadinessStatus(w, results) # "blocked"
      /\ V!WithInvariants(V!GateStatus(results), w, results) = "passed"
  BY DEF V!FinalStatus
<1>2. PICK said : said = {V!InvariantStatus(x, w, results) : x \in V!Required}
  OBVIOUS
<1>3. /\ "failed" \notin said /\ said \cap {"blocked", "unknown", "stale"} = {}
      /\ V!GateStatus(results) = "passed"
  BY <1>1, <1>2 DEF V!WithInvariants
<1>4. V!IsRelease(w) => /\ V!ReadinessStatus(w, results) = "passed"
                        /\ \A x \in V!RequiredGates(w) : V!ReadinessGateHolds(x, w, results)
  BY <1>1 DEF V!ReadinessStatus
<1>5. V!ReadinessStatus(w, results) = "passed" => V!IsRelease(w)
  BY DEF V!ReadinessStatus
<1>6. V!IsRelease(w) => V!ReadinessGateHolds("evidence_provenance", w, results)
  BY <1>4 DEF V!RequiredGates
<1>7. V!ReadinessGateHolds("evidence_provenance", w, results) => V!ProvenanceHolds(w)
  BY DEF V!ReadinessGateHolds
<1>8. V!ReadinessStatus(w, results) \in {"passed", "not-applicable"}
  BY <1>1 DEF V!ReadinessStatus
<1> QED BY <1>2, <1>3, <1>4, <1>5, <1>6, <1>7, <1>8

LEMMA VerdictHolds ==
  ASSUME V!VerificationInv
  PROVE  V!VerdictIsEarned
<1> SUFFICES ASSUME V!Concluded, g.status = "passed"
             PROVE  /\ \A x \in V!Owed :
                         \/ d[x].status = "passed"
                         \/ x \in V!Aggregates /\ V!PassedLeaves(d) # {}
                    /\ \A x \in DOMAIN d :
                         d[x].status = "failed" => GateCapabilities[x].enforcement = "advisory"
                    /\ \A x \in V!Required :
                         /\ x \notin a.bare \cup a.unpromoted
                         /\ x \in DOMAIN d /\ V!Executed(d) # {} => d[x].status # "failed"
                         /\ x \notin V!Executed(d) => a.proof[x] = "passed"
                    /\ V!IsRelease(a) => \A k \in a.checks : k.head = a.head
  BY DEF V!VerdictIsEarned
<1>1. /\ a \in VerifyWorlds /\ V!FinalStatus(a, d) = "passed"
      /\ V!Selected(b.only) \cap V!Discovered(a) \subseteq DOMAIN d
      /\ \A x \in DOMAIN d : V!ResultFits(x, d[x], d)
  BY DEF V!VerificationInv, V!ConclusionFits, V!ResultsFit
<1>2. /\ V!GateStatus(d) = "passed" /\ (V!IsRelease(a) => V!ProvenanceHolds(a))
      /\ \A x \in V!Required :
           V!InvariantStatus(x, a, d) \notin {"failed", "blocked", "unknown", "stale"}
  BY <1>1, PassFinds
<1>3. \A x \in V!Counting(d) : d[x].why \notin V!Blocking /\ d[x].status # "failed"
  BY <1>2, GatesSay
<1>4. ASSUME NEW x \in DOMAIN d, GateCapabilities[x].enforcement # "advisory"
      PROVE  d[x].why \notin V!Blocking /\ d[x].status # "failed"
  <2>1. d[x].enforcement # "advisory"
    BY <1>1, <1>4, VerificationAssumption DEF V!ResultFits, V!Result
  <2> QED BY <1>3, <1>4, <2>1 DEF V!Counting
<1>5. ASSUME NEW x \in V!Owed
      PROVE  d[x].status = "passed" \/ (x \in V!Aggregates /\ V!PassedLeaves(d) # {})
  <2>1. /\ x \in DOMAIN d /\ GateCapabilities[x].enforcement # "advisory"
        /\ GateCapabilities[x].command /\ ~GateCapabilities[x].ciOnly
        /\ GateCapabilities[x].kind # "file"
    BY <1>1 DEF V!Owed
  <2>2. d[x].why \notin V!Blocking /\ d[x].status # "failed" /\ V!ResultFits(x, d[x], d)
    BY <1>1, <1>4, <2>1
  <2> QED BY <2>1, <2>2 DEF V!ResultFits, V!Result, V!Blocking, V!BlockingFailures, V!Covered
<1>6. ASSUME NEW x \in V!Required
      PROVE  /\ x \notin a.bare \cup a.unpromoted
             /\ x \in DOMAIN d /\ V!Executed(d) # {} => d[x].status # "failed"
             /\ x \notin V!Executed(d) => a.proof[x] = "passed"
  <2>1. x \notin a.unpromoted /\ x \notin a.bare
    BY <1>2, <1>6 DEF V!InvariantStatus
  <2>2. ~ (x \in DOMAIN d /\ d[x].status = "failed")
    BY <1>2, <1>6, <2>1 DEF V!InvariantStatus
  <2>3. ASSUME x \notin V!Executed(d) PROVE a.proof[x] = "passed"
    <3>1. V!Fresh(x, a) \notin {"failed", "blocked", "unknown", "stale"}
      BY <1>2, <1>6, <2>1, <2>2, <2>3 DEF V!InvariantStatus, V!Executed
    <3>2. a.proof[x] \in {None, "passed", "failed", "blocked", "unknown", "stale"}
      BY <1>1, <1>6, VerificationAssumption DEF V!Required
    <3> QED BY <3>1, <3>2 DEF V!Fresh
  <2> QED BY <2>1, <2>2, <2>3
<1>7. V!IsRelease(a) => \A k \in a.checks : k.head = a.head
  BY <1>2 DEF V!ProvenanceHolds
<1> QED BY <1>4, <1>5, <1>6, <1>7

LEMMA AnnouncementHolds ==
  ASSUME V!VerificationInv
  PROVE  V!AnnouncedIsRun
<1>1. V!ResultsFit
  BY DEF V!VerificationInv
<1>2. ASSUME NEW x \in DOMAIN d
      PROVE  x \in V!Executed(d) <=>
               /\ V!LocalExecutionStatus(x, b) = "will-execute"
               /\ d[x].why = "covered" => V!PassedLeaves(d) = {}
               /\ d[x].why = "dependency-setup-blocker" => d[x].status = "failed"
  <2>1. V!ResultFits(x, d[x], d) /\ (x \in V!Executed(d) <=> d[x].status # "skipped")
    BY <1>1 DEF V!ResultsFit, V!Executed
  <2> QED BY <2>1 DEF V!ResultFits, V!Result, V!Covered, V!FailureTypes
<1>3. V!GateStatus(d) \in {"failed", "blocked"} /\ d # <<>> => V!Blockers(d) # {}
  BY <1>1, GatesSay DEF V!ResultsFit
<1> QED BY <1>1, <1>2, <1>3 DEF V!AnnouncedIsRun, V!ResultsFit

(* The lifecycle of what passed.                                            *)
LEMMA LifecycleOfPass ==
  ASSUME NEW w \in VerifyWorlds, NEW results, V!FinalStatus(w, results) = "passed"
  PROVE  V!Lifecycle("passed", V!HandoffStatus("passed", w, results),
                     V!ReadinessStatus(w, results), TRUE, w) \in {"merge-ready", "gates-clean"}
<1>1. PICK ready : ready = V!ReadinessStatus(w, results)
  OBVIOUS
<1>2. PICK said : said = V!HandoffStatus("passed", w, results)
  OBVIOUS
<1>3. said \notin {"gates-failed", "gates-blocked"}
  BY <1>2 DEF V!HandoffStatus
<1>4. ready \in {"passed", "not-applicable"}
  BY <1>1, PassFinds
<1>5. ready = "passed" => V!ProvenanceHolds(w)
  BY <1>1, PassFinds
<1>6. V!ProvenanceHolds(w) => ~V!CiProvenanceBlocked(w)
  BY DEF V!ProvenanceHolds, V!CiProvenanceBlocked
<1>7. V!Lifecycle("passed", said, ready, TRUE, w) \in {"merge-ready", "gates-clean"}
  BY <1>3, <1>4, <1>5, <1>6 DEF V!Lifecycle
<1> QED BY <1>1, <1>2, <1>7

LEMMA ReadyToMerge ==
  ASSUME NEW w, NEW status, NEW said, NEW ready,
         V!Lifecycle(status, said, ready, TRUE, w) = "merge-ready"
  PROVE  status = "passed" /\ V!AllChecksSucceed(w)
<1>1. ~V!CiProvenanceBlocked(w) => V!AllChecksSucceed(w)
  BY DEF V!CiProvenanceBlocked, V!AllChecksSucceed
<1> QED BY <1>1 DEF V!Lifecycle

LEMMA ProjectionsHold ==
  ASSUME V!VerificationInv
  PROVE  V!ProjectionsAgree
<1> SUFFICES ASSUME V!Concluded PROVE
    /\ V!Outcome(g) = "complete" =>
         /\ V!Executed(d) = V!Discovered(a) /\ d # <<>>
         /\ ~a.findings
         /\ h \in {NoReport, "gates-clean", "merge-ready"}
    /\ V!Outcome(g) = "failed" => \E x \in DOMAIN d : d[x].status = "failed"
    /\ h = "merge-ready" =>
         /\ V!Outcome(g) \notin {"failed", "blocked"}
         /\ V!AllChecksSucceed(a) /\ d # <<>>
         /\ V!Counting(d) # {} => \E x \in DOMAIN d : d[x].status = "passed"
    /\ h \in {"failed", "blocked"} => V!Outcome(g) \notin {"complete", "action-required"}
  BY DEF V!ProjectionsAgree
<1>1. PICK status : status = V!FinalStatus(a, d)
  OBVIOUS
<1>2. /\ g.status = status /\ g.gates = d /\ g.payload = V!PayloadStatus(status, a)
      /\ g.readiness = V!ReadinessStatus(a, d)
      /\ V!Selected(b.only) \cap V!Discovered(a) \subseteq DOMAIN d
      /\ DOMAIN d \subseteq V!Selected(b.only) \cap V!Discovered(a)
      /\ a \in VerifyWorlds
  BY <1>1 DEF V!VerificationInv, V!ConclusionFits, V!ResultsFit
<1>3. h # NoReport => h = V!Lifecycle(status, V!HandoffStatus(status, a, d),
                                      V!ReadinessStatus(a, d), TRUE, a)
  BY <1>2 DEF V!VerificationInv
<1>4. status \in {"blocked", "failed", "passed", "skipped-nonlocal"}
  BY <1>1, GatesSay DEF V!FinalStatus, V!WithInvariants
<1>5. DOMAIN <<>> = {}
  OBVIOUS
<1>6. status = "passed" => h \in {NoReport, "gates-clean", "merge-ready"}
  BY <1>1, <1>2, <1>3, LifecycleOfPass
<1>7. V!Outcome(g) = "complete" =>
        V!Usable(g) /\ g.payload = "passed" /\ V!Confirmed(g)
  BY DEF V!Outcome
<1>8. g.payload = "passed" => status = "passed" /\ ~a.findings
  BY <1>2 DEF V!PayloadStatus
<1>9. V!Confirmed(g) => V!Executed(d) = V!Discovered(a) /\ d # <<>>
  <2>1. V!Discovered(a) \subseteq V!Executable
    BY DEF V!Discovered
  <2> QED BY <1>2, <1>5, <2>1 DEF V!Confirmed, V!Selected
<1>10. ASSUME V!Outcome(g) = "failed" PROVE \E x \in DOMAIN d : d[x].status = "failed"
  <2>1. V!Usable(g) /\ g.payload = "failed"
    BY <1>10 DEF V!Outcome
  <2>2. g.status = "failed"
    BY <1>2, <2>1 DEF V!PayloadStatus
  <2> QED BY <1>2, <2>1, <2>2 DEF V!Usable
<1>11. ASSUME h = "merge-ready"
       PROVE  /\ V!Outcome(g) \notin {"failed", "blocked"}
              /\ V!AllChecksSucceed(a) /\ d # <<>>
              /\ V!Counting(d) # {} => \E x \in DOMAIN d : d[x].status = "passed"
  <2>1. status = "passed" /\ V!AllChecksSucceed(a)
    BY <1>3, <1>11, ReadyToMerge, VerificationAssumption
  <2>2. g.payload \in {"passed", "passed-with-findings"}
    BY <1>2, <2>1 DEF V!PayloadStatus
  <2>3. V!Outcome(g) \notin {"failed", "blocked"}
    BY <2>2 DEF V!Outcome
  <2>4. V!GateStatus(d) = "passed"
    BY <1>1, <1>2, <2>1, PassFinds
  <2> QED BY <1>5, <2>1, <2>3, <2>4, GatesSay
<1>12. ASSUME h \in {"failed", "blocked"}
       PROVE  V!Outcome(g) \notin {"complete", "action-required"}
  <2>1. status # "passed"
    BY <1>6, <1>12, VerificationAssumption
  <2>2. g.payload = status
    BY <1>2, <2>1 DEF V!PayloadStatus
  <2> QED BY <1>4, <2>1, <2>2 DEF V!Outcome
<1> QED BY <1>6, <1>7, <1>8, <1>9, <1>10, <1>11, <1>12

(* A verification passes only on gates that were run and invariants that    *)
(* were proved: gate_verification.py, invariants.py.                        *)
THEOREM VerdictEarned == Parts => []VerdictIsEarned
<1>1. (part = "verification" => V!VerificationInv) => VerdictIsEarned
  BY VerdictHolds DEF VerdictIsEarned
<1> QED BY <1>1, VerificationKept, PTL

(* The plan of a run, its results, its outcome and its handoff do not       *)
(* contradict each other: gate_verification.py, outcome_projection.py.      *)
THEOREM ReportsAgreed == Parts => []ReportsAgree
<1>1. (part = "verification" => V!VerificationInv) => ReportsAgree
  BY AnnouncementHolds, ProjectionsHold DEF ReportsAgree
<1> QED BY <1>1, VerificationKept, PTL

-----------------------------------------------------------------------------
(* Planning.                                                                *)

\* The instance's Cardinality is that of FiniteSets.
LEMMA CountsInLedger ==
  ASSUME NEW M PROVE L!Cardinality(M) = Cardinality(M)
BY DEF L!Cardinality, Cardinality

\* A set with one member has cardinality one.
LEMMA OneIsOne ==
  ASSUME NEW M, NEW one, M = {one} PROVE L!Cardinality(M) = 1
BY CountsInLedger, FS_Singleton

\* One phase candidate covers what one slice is about.
LEMMA CandidateCovers ==
  ASSUME NEW slices, NEW x, NEW one \in slices, \A s \in slices : x \in s.findings <=> s = one
  PROVE  L!Cardinality({k \in L!PhaseCandidates(slices) : x \in k.findings}) = 1
<1> DEFINE domain == [s \in slices |-> L!Domain(s)]
           GroupFor(dom) == {s \in slices : domain[s] = dom}
           CandidateFor(dom) == [domain |-> dom,
                                 slice_ids |-> {s.id : s \in GroupFor(dom)},
                                 findings |-> UNION {s.findings : s \in GroupFor(dom)},
                                 requires_review |-> \E s \in GroupFor(dom) : s.review]
           covering == {k \in L!PhaseCandidates(slices) : x \in k.findings}
<1>1. L!PhaseCandidates(slices) = {CandidateFor(dom) : dom \in {domain[s] : s \in slices}}
  BY DEF L!PhaseCandidates
<1>2. ASSUME NEW dom PROVE x \in CandidateFor(dom).findings <=> dom = domain[one]
  <2>1. CandidateFor(dom).findings = UNION {s.findings : s \in GroupFor(dom)}
    OBVIOUS
  <2>2. x \in CandidateFor(dom).findings <=> one \in GroupFor(dom)
    BY <2>1
  <2> QED BY <2>2
<1>3. CandidateFor(domain[one]) \in L!PhaseCandidates(slices)
  BY <1>1
<1> HIDE DEF domain, CandidateFor
<1>4. covering = {CandidateFor(domain[one])}
  BY <1>1, <1>2, <1>3
<1> QED BY <1>4, OneIsOne

\* A finding of one slice is planned once, and once as a phase.
LEMMA OneSliceIsEnough ==
  ASSUME NEW slices, NEW x, NEW one \in slices, \A s \in slices : x \in s.findings <=> s = one
  PROVE  /\ L!Cardinality({s \in slices : x \in s.findings}) = 1
         /\ L!Cardinality({k \in L!PhaseCandidates(slices) : x \in k.findings}) = 1
<1>1. PICK about : about = {s \in slices : x \in s.findings}
  OBVIOUS
<1>2. about = {one}
  BY <1>1
<1>3. L!Cardinality(about) = 1
  BY <1>2, OneIsOne
<1>4. L!Cardinality({k \in L!PhaseCandidates(slices) : x \in k.findings}) = 1
  BY CandidateCovers
<1> QED BY <1>1, <1>3, <1>4

\* The slices of a plan: one for findings of the report, one for rows of a file.
LEMMA RowsAreGrouped ==
  ASSUME NEW rows, NEW row \in rows
  PROVE  \E group \in L!RowsByFile(rows) :
           /\ group \subseteq rows
           /\ \A other \in L!RowsByFile(rows) : row \in other <=> other = group
<1>1. PICK group : group = {s \in rows : RowFile[s] = RowFile[row]}
  OBVIOUS
<1>2. group \in L!RowsByFile(rows) /\ group \subseteq rows /\ row \in group
  BY <1>1 DEF L!RowsByFile
<1>3. ASSUME NEW other \in L!RowsByFile(rows), row \in other PROVE other = group
  <2>1. PICK one \in rows : other = {s \in rows : RowFile[s] = RowFile[one]}
    BY DEF L!RowsByFile
  <2> QED BY <1>1, <1>3, <2>1
<1> QED BY <1>2, <1>3

\* A group by file is some of the rows.
LEMMA GroupsAreOfRows ==
  ASSUME NEW rows, NEW group \in L!RowsByFile(rows) PROVE group \subseteq rows
BY DEF L!RowsByFile

\* Findings and rows are apart.
LEMMA FindingsAreNoRows ==
  ASSUME NEW now, NEW x \in L!AuditFindings(now) PROVE x \notin ScanRows
<1>1. L!AuditFindings(now) \subseteq L!AuditFindings(L!Reportable)
  BY DEF L!AuditFindings, L!Reportable
<1> QED BY <1>1, LedgerAssumption

HasOneSlice(slices, x) == \E one \in slices : \A s \in slices : x \in s.findings <=> s = one

\* What is open is in one slice, whatever the scan and the ledger.
LEMMA PlannedOnce ==
  ASSUME NEW now, NEW ledger, NEW open, open = L!OpenAuditFindings(now, ledger),
         NEW rows, rows = L!OpenRows(now, ledger),
         NEW slices, slices = L!RemediationSlices(open, rows) \cup L!SecurityReviewSlices(open),
         NEW x, x \in rows \/ (x \in open /\ ~L!IsStructural(x))
  PROVE  HasOneSlice(slices, x)
<1>1. PICK wired : wired = L!IntegrateRows(rows)
  OBVIOUS
<1>2. PICK clusters, wiring : clusters = L!ClusterSlices(rows) /\ wiring = L!WiringSlices(rows)
  OBVIOUS
<1>3. rows \subseteq ScanRows /\ wired \subseteq rows /\ open \subseteq L!AuditFindings(now)
  BY <1>1 DEF L!OpenRows, L!IntegrateRows, L!OpenAuditFindings
<1>4. ASSUME NEW s \in slices
      PROVE  \/ \E y \in open : s = L!FindingSlice(y)
             \/ s \in clusters \/ s \in wiring
  BY <1>2 DEF L!RemediationSlices, L!SecurityReviewSlices
<1>5. clusters \subseteq slices /\ wiring \subseteq slices
  BY <1>2 DEF L!RemediationSlices
<1>6. ASSUME NEW s \in clusters
      PROVE  \E group \in L!RowsByFile(rows \ wired) :
               s = L!Slice(<<"remediate-structural", L!SlugOfGroup(group)>>, group, FALSE)
  BY <1>1, <1>2 DEF L!ClusterSlices
<1>7. ASSUME NEW s \in wiring
      PROVE  \E group \in L!RowsByFile(wired) :
               s = L!Slice(L!WiringSliceId(group, L!RowsByFile(wired)), group, TRUE)
  BY <1>1, <1>2 DEF L!WiringSlices
<1>8. ASSUME NEW y \in open PROVE L!FindingSlice(y).findings = {y}
  BY DEF L!FindingSlice, L!Slice
<1>9. ASSUME NEW s \in clusters PROVE s.findings \subseteq rows \ wired
  <2>1. PICK group \in L!RowsByFile(rows \ wired) :
          s = L!Slice(<<"remediate-structural", L!SlugOfGroup(group)>>, group, FALSE)
    BY <1>6
  <2>2. s.findings = group
    BY <2>1 DEF L!Slice
  <2> QED BY <2>2, GroupsAreOfRows
<1>10. ASSUME NEW s \in wiring PROVE s.findings \subseteq wired
  <2>1. PICK group \in L!RowsByFile(wired) :
          s = L!Slice(L!WiringSliceId(group, L!RowsByFile(wired)), group, TRUE)
    BY <1>7
  <2>2. s.findings = group
    BY <2>1 DEF L!Slice
  <2> QED BY <2>2, GroupsAreOfRows
<1>11. CASE x \in rows \ wired
  <2>1. PICK group \in L!RowsByFile(rows \ wired) :
          \A other \in L!RowsByFile(rows \ wired) : x \in other <=> other = group
    <3>1. PICK rest : rest = rows \ wired
      OBVIOUS
    <3>2. x \in rest
      BY <1>11, <3>1
    <3>3. \E group \in L!RowsByFile(rest) : \A other \in L!RowsByFile(rest) : x \in other <=> other = group
      BY <3>2, RowsAreGrouped
    <3> QED BY <3>1, <3>3
  <2>2. PICK one : one = L!Slice(<<"remediate-structural", L!SlugOfGroup(group)>>, group, FALSE)
    OBVIOUS
  <2>3. one \in clusters /\ one.findings = group
    BY <1>1, <1>2, <2>2 DEF L!ClusterSlices, L!Slice
  <2>4. ASSUME NEW s \in slices, x \in s.findings PROVE s = one
    <3>1. CASE \E y \in open : s = L!FindingSlice(y)
      BY <1>3, <1>8, <1>11, <2>4, <3>1, FindingsAreNoRows
    <3>2. CASE s \in clusters
      <4>1. PICK other \in L!RowsByFile(rows \ wired) :
              s = L!Slice(<<"remediate-structural", L!SlugOfGroup(other)>>, other, FALSE)
        BY <1>6, <3>2
      <4>2. s.findings = other
        BY <4>1 DEF L!Slice
      <4> QED BY <2>1, <2>2, <2>4, <4>1, <4>2
    <3>3. CASE s \in wiring
      BY <1>10, <1>11, <2>4, <3>3
    <3> QED BY <1>4, <3>1, <3>2, <3>3
  <2>5. x \in one.findings
    BY <2>1, <2>3
  <2> QED BY <1>5, <2>3, <2>4, <2>5 DEF HasOneSlice
<1>12. CASE x \in wired
  <2>1. PICK group \in L!RowsByFile(wired) :
          \A other \in L!RowsByFile(wired) : x \in other <=> other = group
    BY <1>12, RowsAreGrouped
  <2>2. PICK one : one = L!Slice(L!WiringSliceId(group, L!RowsByFile(wired)), group, TRUE)
    OBVIOUS
  <2>3. one \in wiring /\ one.findings = group
    BY <1>1, <1>2, <2>2 DEF L!WiringSlices, L!Slice
  <2>4. ASSUME NEW s \in slices, x \in s.findings PROVE s = one
    <3>1. CASE \E y \in open : s = L!FindingSlice(y)
      BY <1>3, <1>8, <1>12, <2>4, <3>1, FindingsAreNoRows
    <3>2. CASE s \in clusters
      BY <1>9, <1>12, <2>4, <3>2
    <3>3. CASE s \in wiring
      <4>1. PICK other \in L!RowsByFile(wired) :
              s = L!Slice(L!WiringSliceId(other, L!RowsByFile(wired)), other, TRUE)
        BY <1>7, <3>3
      <4>2. s.findings = other
        BY <4>1 DEF L!Slice
      <4> QED BY <2>1, <2>2, <2>4, <4>1, <4>2
    <3> QED BY <1>4, <3>1, <3>2, <3>3
  <2>5. x \in one.findings
    BY <2>1, <2>3
  <2> QED BY <1>5, <2>3, <2>4, <2>5 DEF HasOneSlice
<1>13. CASE x \in open /\ ~L!IsStructural(x)
  <2>1. PICK one : one = L!FindingSlice(x)
    OBVIOUS
  <2>2. one \in slices
    BY <1>13, <2>1 DEF L!RemediationSlices, L!SecurityReviewSlices, L!IncludeFinding
  <2>3. x \notin rows
    BY <1>3, <1>13, FindingsAreNoRows
  <2>4. ASSUME NEW s \in slices, x \in s.findings PROVE s = one
    <3>1. CASE \E y \in open : s = L!FindingSlice(y)
      BY <1>8, <2>1, <2>4, <3>1
    <3>2. CASE s \in clusters
      BY <1>9, <2>3, <2>4, <3>2
    <3>3. CASE s \in wiring
      BY <1>3, <1>10, <2>3, <2>4, <3>3
    <3> QED BY <1>4, <3>1, <3>2, <3>3
  <2>5. x \in one.findings
    BY <1>8, <1>13, <2>1
  <2> QED BY <2>2, <2>4, <2>5 DEF HasOneSlice
<1> QED BY <1>11, <1>12, <1>13

\* So every open finding is planned once.
LEMMA FindingsArePlannedOnce == L!OpenFindingsPlannedOnce
<1> SUFFICES ASSUME e # L!Unwritten PROVE L!OpenFindingsPlannedOnce
  BY DEF L!OpenFindingsPlannedOnce
<1>1. PICK now, ledger, open, rows, slices, work :
        /\ now = e.scan /\ ledger = e.ledger
        /\ open = L!OpenAuditFindings(now, ledger) /\ rows = L!OpenRows(now, ledger)
        /\ slices = L!RemediationSlices(open, rows) \cup L!SecurityReviewSlices(open)
        /\ work = rows \cup {y \in open : ~L!IsStructural(y)}
  OBVIOUS
<1>2. /\ L!Plan(e.scan, e.ledger).open = open
      /\ L!Plan(e.scan, e.ledger).slices \cup L!Plan(e.scan, e.ledger).review = slices
      /\ L!Plan(e.scan, e.ledger).candidates = L!PhaseCandidates(slices)
  BY <1>1 DEF L!Plan
<1>3. L!OpenRows(e.scan, e.ledger) = rows
  BY <1>1
<1>4. ASSUME NEW x \in work
      PROVE  /\ L!Cardinality({s \in slices : x \in s.findings}) = 1
             /\ L!Cardinality({k \in L!PhaseCandidates(slices) : x \in k.findings}) = 1
  <2>1. x \in rows \/ (x \in open /\ ~L!IsStructural(x))
    BY <1>1
  <2>3. HasOneSlice(slices, x)
    BY <1>1, <2>1, PlannedOnce
  <2>2. PICK one \in slices : \A s \in slices : x \in s.findings <=> s = one
    BY <2>3 DEF HasOneSlice
  <2> QED BY <2>2, OneSliceIsEnough
<1> QED BY <1>1, <1>2, <1>3, <1>4 DEF L!OpenFindingsPlannedOnce

(* Planning loses no open finding and plans none twice, whatever was found   *)
(* and accepted: planning.py, remediation_clusters.py, remediation_wiring.py *)
THEOREM FindingsPlannedOnce == Parts => []OpenFindingsPlannedOnce
<1>1. OpenFindingsPlannedOnce
  BY FindingsArePlannedOnce DEF OpenFindingsPlannedOnce
<1> QED BY <1>1, PTL

-----------------------------------------------------------------------------
(* The ledger.                                                              *)

\* A sequence of run directories, no two of one id.
RunsAreApart(runs) ==
  /\ runs \in Seq({runs[k] : k \in DOMAIN runs})
  /\ \A k, l \in DOMAIN runs : runs[k].id = runs[l].id => k = l

\* The directories of c, but for the one that `run` takes the place of.
Replaces(runs, run) ==
  /\ RunsAreApart(runs)
  /\ \A k \in DOMAIN runs : runs[k] = run \/ (runs[k].id # run.id /\ \E l \in DOMAIN c : runs[k] = c[l])

RunIsSound(run) ==
  /\ DOMAIN run = {"id", "ledger", "report", "held"}
  /\ run.report \subseteq L!AuditFindings(L!Reportable)
  /\ run.ledger # L!Unwritten => L!Earned(run.ledger.entries)

\* The directories are numbered from one.
LEMMA RunsAreASequence ==
  ASSUME NEW runs, RunsAreApart(runs)
  PROVE  Len(runs) \in Nat /\ DOMAIN runs = 1 .. Len(runs)
BY DEF RunsAreApart

IsOfItsOwn(runs) == runs \in Seq({runs[k] : k \in DOMAIN runs})

\* A sequence is one of its own elements.
LEMMA SequencesOfTheirOwn ==
  ASSUME NEW runs, NEW size \in Nat, NEW map, map = [k \in 1 .. size |-> runs[k]], runs = map
  PROVE  IsOfItsOwn(runs)
<1>1. PICK all : all = {map[k] : k \in 1 .. size}
  OBVIOUS
<1>2. map \in [1 .. size -> all]
  BY <1>1
<1>3. map \in Seq(all)
  BY <1>2
<1>4. {runs[k] : k \in DOMAIN runs} = all
  BY <1>1
<1> QED BY <1>3, <1>4 DEF IsOfItsOwn

\* Deleting one directory keeps the others, in their order.
LEMMA WithoutOne ==
  ASSUME RunsAreApart(c), NEW n \in DOMAIN c
  PROVE  /\ RunsAreApart(L!Without(n))
         /\ \A k \in DOMAIN L!Without(n) : \E l \in DOMAIN c : l # n /\ L!Without(n)[k] = c[l]
         /\ n # 1 => 1 \in DOMAIN L!Without(n) /\ L!Without(n)[1] = c[1]
<1>1. PICK size \in Nat : size = Len(c) /\ DOMAIN c = 1 .. size
  BY RunsAreASequence
<1>2. PICK less, place : less = size - 1 /\ place = [k \in 1 .. less |-> IF k < n THEN k ELSE k + 1]
  OBVIOUS
<1>3. less \in Nat /\ n \in 1 .. size /\ size \in Nat \ {0}
  BY <1>1, <1>2
<1>4. PICK rest : rest = L!Without(n)
  OBVIOUS
<1>5. rest = [k \in 1 .. less |-> c[place[k]]]
  BY <1>1, <1>2, <1>4 DEF L!Without
<1>6. \A k \in 1 .. less : place[k] \in (1 .. size) \ {n}
  BY <1>2, <1>3
<1>7. \A k, l \in 1 .. less : place[k] = place[l] => k = l
  BY <1>2, <1>3
<1>8. DOMAIN rest = 1 .. less /\ \A k \in 1 .. less : rest[k] = c[place[k]]
  BY <1>5
<1>9. IsOfItsOwn(rest)
  <2>1. rest = [k \in 1 .. less |-> rest[k]]
    BY <1>5
  <2> QED BY <1>3, <2>1, SequencesOfTheirOwn
<1>10. ASSUME NEW k \in DOMAIN rest, NEW l \in DOMAIN rest, rest[k].id = rest[l].id PROVE k = l
  <2>1. place[k] \in DOMAIN c /\ place[l] \in DOMAIN c /\ c[place[k]].id = c[place[l]].id
    BY <1>1, <1>6, <1>8, <1>10
  <2>2. place[k] = place[l]
    BY <2>1 DEF RunsAreApart
  <2> QED BY <1>7, <1>8, <2>2
<1>11. \A k \in DOMAIN rest : \E l \in DOMAIN c : l # n /\ rest[k] = c[l]
  BY <1>1, <1>6, <1>8
<1>12. n # 1 => 1 \in DOMAIN rest /\ rest[1] = c[1]
  <2>1. n # 1 => 1 \in 1 .. less /\ 1 < n
    BY <1>2, <1>3
  <2>2. n # 1 => place[1] = 1
    BY <1>2, <2>1
  <2> QED BY <1>8, <2>1, <2>2
<1> QED BY <1>4, <1>9, <1>10, <1>11, <1>12 DEF RunsAreApart, IsOfItsOwn

\* A stored run is at its position.
LEMMA PositionIsThere ==
  ASSUME NEW id \in L!Stored
  PROVE  L!Position(id) \in DOMAIN c /\ c[L!Position(id)].id = id
BY DEF L!Stored, L!Position

\* The runs other than one, in their order.
LEMMA OthersOf ==
  ASSUME RunsAreApart(c), NEW id
  PROVE  /\ RunsAreApart(L!Others(id))
         /\ \A k \in DOMAIN L!Others(id) :
              L!Others(id)[k].id # id /\ \E l \in DOMAIN c : L!Others(id)[k] = c[l]
         /\ c # <<>> /\ c[1].id # id => 1 \in DOMAIN L!Others(id) /\ L!Others(id)[1] = c[1]
<1>1. CASE id \in L!Stored
  <2>1. PICK n : n = L!Position(id)
    OBVIOUS
  <2>2. n \in DOMAIN c /\ c[n].id = id
    BY <1>1, <2>1, PositionIsThere
  <2>3. L!Others(id) = L!Without(n)
    BY <1>1, <2>1 DEF L!Others
  <2>4. PICK rest : rest = L!Without(n)
    OBVIOUS
  <2>5. /\ RunsAreApart(rest)
        /\ \A k \in DOMAIN rest : \E l \in DOMAIN c : l # n /\ rest[k] = c[l]
        /\ n # 1 => 1 \in DOMAIN rest /\ rest[1] = c[1]
    BY <2>2, <2>4, WithoutOne
  <2>6. \A k \in DOMAIN rest : rest[k].id # id /\ \E l \in DOMAIN c : rest[k] = c[l]
    BY <2>2, <2>5 DEF RunsAreApart
  <2>7. c[1].id # id => n # 1
    BY <2>2
  <2> QED BY <2>3, <2>4, <2>5, <2>6, <2>7
<1>2. CASE id \notin L!Stored
  <2>1. L!Others(id) = c
    BY <1>2 DEF L!Others
  <2>2. \A k \in DOMAIN c : c[k].id # id
    BY <1>2 DEF L!Stored
  <2>3. c # <<>> => 1 \in DOMAIN c
    BY DEF RunsAreApart
  <2> QED BY <2>1, <2>2, <2>3
<1> QED BY <1>1, <1>2

IsJoined(new, n, one, m, two) ==
  /\ Len(new) = n + m
  /\ \A k \in 1 .. (n + m) : new[k] = IF k <= n THEN one[k] ELSE two[k - n]

\* A concatenation is the one sequence and then the other.
LEMMA Joined ==
  ASSUME NEW all, NEW one \in Seq(all), NEW two \in Seq(all), NEW new, new = one \o two,
         NEW n \in Nat, n = Len(one), NEW m \in Nat, m = Len(two)
  PROVE  new \in Seq(all) /\ IsJoined(new, n, one, m, two)
<1>1. Len(new) = n + m
  OBVIOUS
<1>2. new \in Seq(all)
  OBVIOUS
<1>3. \A k \in 1 .. (n + m) : new[k] = IF k <= n THEN one[k] ELSE two[k - n]
  OBVIOUS
<1> QED BY <1>1, <1>2, <1>3 DEF IsJoined

\* A new run comes first.
LEMMA InFront ==
  ASSUME RunsAreApart(c), NEW run, NEW new, new = <<run>> \o L!Others(run.id)
  PROVE  Replaces(new, run)
<1>1. PICK rest : rest = L!Others(run.id)
  OBVIOUS
<1>2. /\ RunsAreApart(rest)
      /\ \A k \in DOMAIN rest : rest[k].id # run.id /\ \E l \in DOMAIN c : rest[k] = c[l]
  BY <1>1, OthersOf
<1>3. PICK size \in Nat : size = Len(rest) /\ DOMAIN rest = 1 .. size
  BY <1>2, RunsAreASequence
<1>4. PICK all : all = {rest[k] : k \in DOMAIN rest}
  OBVIOUS
<1>5. rest \in Seq(all)
  BY <1>2, <1>4 DEF RunsAreApart
<1>6. PICK more : more = all \cup {run}
  OBVIOUS
<1>7. rest \in Seq(more) /\ <<run>> \in Seq(more) /\ Len(<<run>>) = 1 /\ <<run>>[1] = run
  BY <1>5, <1>6
<1>8. /\ DOMAIN new = 1 .. (size + 1) /\ new[1] = run /\ \A k \in 2 .. (size + 1) : new[k] = rest[k - 1]
      /\ new \in Seq(more)
  <2>1. PICK head : head = <<run>>
    OBVIOUS
  <2>2. new = head \o rest /\ head \in Seq(more) /\ rest \in Seq(more) /\ Len(head) = 1 /\ head[1] = run
    BY <1>1, <1>7, <2>1
  <2>8. 1 \in Nat /\ 1 = Len(head) /\ size \in Nat /\ size = Len(rest)
    BY <1>3, <2>2
  <2>9. new \in Seq(more) /\ IsJoined(new, 1, head, size, rest)
    BY <2>2, <2>8, Joined, Zenon
  <2>3. new \in Seq(more) /\ Len(new) = 1 + size
    BY <2>9 DEF IsJoined
  <2>4. \A k \in 1 .. (1 + size) : new[k] = IF k <= 1 THEN head[k] ELSE rest[k - 1]
    BY <2>9 DEF IsJoined
  <2>5. DOMAIN new = 1 .. (size + 1)
    BY <2>3
  <2>6. new[1] = run
    <3>1. 1 \in 1 .. (1 + size) /\ 1 <= 1
      BY <1>3
    <3> QED BY <2>2, <2>4, <3>1
  <2>7. ASSUME NEW k \in 2 .. (size + 1) PROVE new[k] = rest[k - 1]
    <3>1. k \in 1 .. (1 + size) /\ ~(k <= 1)
      BY <1>3
    <3> QED BY <2>4, <3>1
  <2> QED BY <2>3, <2>5, <2>6, <2>7
<1>9. ASSUME NEW k \in DOMAIN new
      PROVE  k = 1 \/ (k - 1 \in DOMAIN rest /\ new[k] = rest[k - 1])
  BY <1>3, <1>8
<1>10. IsOfItsOwn(new)
  <2>1. PICK map : map = [k \in 1 .. (size + 1) |-> new[k]]
    OBVIOUS
  <2>2. new = map
    BY <1>8, <2>1
  <2>3. size + 1 \in Nat
    OBVIOUS
  <2> QED BY <2>1, <2>2, <2>3, SequencesOfTheirOwn
<1>11. ASSUME NEW k \in DOMAIN new, NEW l \in DOMAIN new, new[k].id = new[l].id PROVE k = l
  <2>1. CASE k = 1
    <3>1. l = 1
      BY <1>2, <1>8, <1>9, <1>11, <2>1
    <3> QED BY <2>1, <3>1
  <2>2. CASE k # 1
    <3>1. k - 1 \in DOMAIN rest /\ new[k] = rest[k - 1] /\ new[k].id # run.id
      BY <1>2, <1>9, <2>2
    <3>2. l # 1
      BY <1>8, <1>11, <3>1
    <3>3. l - 1 \in DOMAIN rest /\ new[l] = rest[l - 1]
      BY <1>9, <3>2
    <3>4. k - 1 = l - 1
      BY <1>2, <1>11, <3>1, <3>3 DEF RunsAreApart
    <3> QED BY <1>8, <3>4
  <2> QED BY <2>1, <2>2
<1>12. \A k \in DOMAIN new : new[k] = run \/ (new[k].id # run.id /\ \E l \in DOMAIN c : new[k] = c[l])
  BY <1>2, <1>8, <1>9
<1> QED BY <1>10, <1>11, <1>12 DEF Replaces, RunsAreApart, IsOfItsOwn

\* A run of a known id takes the place of the old one.
LEMMA InPlace ==
  ASSUME RunsAreApart(c), NEW n \in DOMAIN c, NEW run, c[n].id = run.id,
         NEW new, new = [c EXCEPT ![n] = run]
  PROVE  Replaces(new, run)
<1>1. PICK size \in Nat : size = Len(c) /\ DOMAIN c = 1 .. size
  BY RunsAreASequence
<1>2. DOMAIN new = 1 .. size /\ new[n] = run /\ \A k \in (1 .. size) \ {n} : new[k] = c[k]
  BY <1>1
<1>3. IsOfItsOwn(new)
  <2>1. PICK map : map = [k \in 1 .. size |-> new[k]]
    OBVIOUS
  <2>2. DOMAIN new = DOMAIN c /\ new = [k \in DOMAIN c |-> new[k]]
    OBVIOUS
  <2>3. new = map
    BY <1>1, <2>1, <2>2
  <2>4. size \in Nat
    BY <1>1
  <2> QED BY <2>1, <2>3, <2>4, SequencesOfTheirOwn
<1>4. \A k \in 1 .. size : new[k].id = c[k].id
  BY <1>1, <1>2
<1>5. \A k, l \in DOMAIN new : new[k].id = new[l].id => k = l
  BY <1>1, <1>2, <1>4 DEF RunsAreApart
<1>6. \A k \in DOMAIN new : new[k] = run \/ (new[k].id # run.id /\ \E l \in DOMAIN c : new[k] = c[l])
  BY <1>1, <1>2 DEF RunsAreApart
<1> QED BY <1>3, <1>5, <1>6 DEF Replaces, RunsAreApart, IsOfItsOwn

\* A run that is stored leaves the others as they were.
LEMMA RunIsPut ==
  ASSUME RunsAreApart(c), NEW run, L!Put(run)
  PROVE  Replaces(c', run)
<1>1. CASE run.id \in L!Stored /\ L!Lookup(run.id).ledger # L!Unwritten
  <2>1. PICK n, new : n = L!Position(run.id) /\ new = c'
    OBVIOUS
  <2>2. n \in DOMAIN c /\ c[n].id = run.id
    BY <1>1, <2>1, PositionIsThere
  <2>3. new = [c EXCEPT ![n] = run]
    BY <1>1, <2>1 DEF L!Put
  <2> QED BY <2>1, <2>2, <2>3, InPlace
<1>2. CASE ~(run.id \in L!Stored /\ L!Lookup(run.id).ledger # L!Unwritten)
  <2>1. PICK new : new = c'
    OBVIOUS
  <2>2. new = <<run>> \o L!Others(run.id)
    BY <1>2, <2>1 DEF L!Put, L!ToFront
  <2> QED BY <2>1, <2>2, InFront
<1> QED BY <1>1, <1>2

-----------------------------------------------------------------------------
\* What the invariant says, by parts.
LEMMA LedgerParts ==
  L!LedgerInv <=> /\ RunsAreApart(c) /\ \A k \in DOMAIN c : RunIsSound(c[k])
                  /\ DOMAIN d = LedgerRuns
                  /\ \A id \in LedgerRuns : \A x \in DOMAIN d[id] :
                       /\ d[id][x].fingerprints \subseteq f \cap ScanCandidates
                       /\ d[id][x].status \in L!Accepting
                  /\ \A x \in DOMAIN b : b[x] \in L!Accepting
                  /\ e # L!Unwritten => L!ResultFits(e)
BY DEF L!LedgerInv, RunsAreApart, RunIsSound

DecisionsAreSound ==
  /\ DOMAIN d = LedgerRuns
  /\ \A id \in LedgerRuns : \A x \in DOMAIN d[id] :
       /\ d[id][x].fingerprints \subseteq f \cap ScanCandidates
       /\ d[id][x].status \in L!Accepting
  /\ \A x \in DOMAIN b : b[x] \in L!Accepting

\* Decisions stay sound as acceptances grow.
LEMMA DecisionsAreKept ==
  ASSUME L!LedgerInv, d' = d, b' = b, f \subseteq f'
  PROVE  DecisionsAreSound'
BY DEF L!LedgerInv, DecisionsAreSound

\* So does a run.
LEMMA SoundRunsKept ==
  ASSUME NEW run, RunIsSound(run), f \subseteq f'
  PROVE  RunIsSound(run)'
BY DEF RunIsSound, L!Earned

\* A run that takes the place of another keeps the rest as it is.
LEMMA RunsKept ==
  ASSUME L!LedgerInv, f \subseteq f', NEW run, Replaces(c', run), RunIsSound(run)'
  PROVE  RunsAreApart(c)' /\ \A k \in DOMAIN c' : RunIsSound(c[k])'
<1>1. PICK new : new = c'
  OBVIOUS
<1>2. RunsAreApart(new) /\ \A k \in DOMAIN new : new[k] = run \/ \E l \in DOMAIN c : new[k] = c[l]
  BY <1>1 DEF Replaces
<1>3. ASSUME NEW k \in DOMAIN new PROVE RunIsSound(new[k])'
  <2>1. CASE new[k] = run
    BY <2>1
  <2>2. CASE \E l \in DOMAIN c : new[k] = c[l]
    <3>1. PICK l \in DOMAIN c : new[k] = c[l]
      BY <2>2
    <3>2. PICK old : old = c[l]
      OBVIOUS
    <3>3. RunIsSound(old)
      BY <3>2, LedgerParts
    <3>4. RunIsSound(old)'
      BY <3>3, SoundRunsKept
    <3> QED BY <3>1, <3>2, <3>4
  <2> QED BY <1>2, <2>1, <2>2
<1>4. RunsAreApart(c)'
  BY <1>1, <1>2 DEF RunsAreApart
<1> QED BY <1>1, <1>3, <1>4

\* The ledger under the id of the latest result settles rows as the result does.
LedgersAgree(r, run) ==
  run.id = r.id /\ run.ledger # L!Unwritten =>
    /\ r.scan \cap ScanRows \subseteq DOMAIN r.ledger.entries
    /\ L!SameRows(run.ledger, r.ledger)

\* The latest result keeps agreeing with the directories.
LEMMA ResultStands ==
  ASSUME L!LedgerInv, f \subseteq f', e' = e, NEW run, Replaces(c', run),
         e # L!Unwritten => LedgersAgree(e, run)
  PROVE  (e # L!Unwritten => L!ResultFits(e))'
<1> SUFFICES ASSUME e # L!Unwritten PROVE L!ResultFits(e)'
  OBVIOUS
<1>1. L!ResultFits(e)
  BY DEF L!LedgerInv
<1>2. L!ResolvedOnlyByDecision'
  <2>1. L!ResolvedOnlyByDecision
    BY <1>1 DEF L!ResultFits
  <2> QED BY <2>1 DEF L!ResolvedOnlyByDecision
<1>3. PICK new : new = c'
  OBVIOUS
<1>4. ASSUME NEW k \in DOMAIN new PROVE LedgersAgree(e, new[k])
  <2>1. CASE new[k] = run
    BY <2>1
  <2>2. CASE \E l \in DOMAIN c : new[k] = c[l]
    BY <1>1, <2>2 DEF L!ResultFits, LedgersAgree
  <2> QED BY <1>3, <2>1, <2>2 DEF Replaces
<1> QED BY <1>2, <1>3, <1>4 DEF L!ResultFits, LedgersAgree, L!SameRows

-----------------------------------------------------------------------------

\* An audit starts from the newest entries that can be read.
LEMMA PreviousOf ==
  ASSUME RunsAreApart(c), NEW id, NEW others, others = L!Others(id),
         NEW readable, readable = {k \in DOMAIN others : others[k].ledger # L!Unwritten}
  PROVE  /\ readable = {} => L!PreviousEntries(id) = L!Empty
         /\ readable # {} => \E k \in readable : /\ \A l \in readable : k <= l
                                                 /\ L!PreviousEntries(id) = others[k].ledger.entries
<1>1. RunsAreApart(others)
  BY OthersOf
<1>2. readable \in SUBSET Nat
  BY <1>1, RunsAreASequence
<1>3. ASSUME readable # {}
      PROVE  \E k \in readable : /\ \A l \in readable : k <= l
                                 /\ L!PreviousEntries(id) = others[k].ledger.entries
  <2>1. PICK k : k = CHOOSE x \in readable : \A l \in readable : x <= l
    OBVIOUS
  <2>2. k \in readable /\ \A l \in readable : k <= l
    BY <1>2, <1>3, <2>1, LeastOf
  <2>3. L!PreviousEntries(id) = others[k].ledger.entries
    BY <1>3, <2>1 DEF L!PreviousEntries
  <2> QED BY <2>2, <2>3
<1>4. readable = {} => L!PreviousEntries(id) = L!Empty
  BY DEF L!PreviousEntries
<1> QED BY <1>3, <1>4

\* Whatever the entries an audit starts from accept was accepted.
LEMMA PreviousIsEarned ==
  ASSUME L!LedgerInv, NEW id
  PROVE  L!Earned(L!PreviousEntries(id))
<1>1. PICK others : others = L!Others(id)
  OBVIOUS
<1>2. PICK readable : readable = {k \in DOMAIN others : others[k].ledger # L!Unwritten}
  OBVIOUS
<1>3. RunsAreApart(c)
  BY LedgerParts
<1>4. CASE readable = {}
  <2>1. L!PreviousEntries(id) = <<>>
    BY <1>1, <1>2, <1>3, <1>4, PreviousOf DEF L!Empty
  <2>2. DOMAIN <<>> = {}
    OBVIOUS
  <2> QED BY <2>1, <2>2 DEF L!Earned
<1>5. CASE readable # {}
  <2>1. PICK k \in readable : L!PreviousEntries(id) = others[k].ledger.entries
    BY <1>1, <1>2, <1>3, <1>5, PreviousOf
  <2>2. k \in DOMAIN others /\ others[k].ledger # L!Unwritten
    BY <1>2
  <2>3. PICK l \in DOMAIN c : others[k] = c[l]
    BY <1>1, <1>3, <2>2, OthersOf
  <2>4. RunIsSound(c[l])
    BY LedgerParts
  <2> QED BY <2>1, <2>2, <2>3, <2>4 DEF RunIsSound
<1> QED BY <1>4, <1>5

\* The ledger an audit builds: what it has entries for, and what they say.
LEMMA CarriedIsEarned ==
  ASSUME L!LedgerInv, NEW previous, L!Earned(previous), NEW x \in a,
         NEW fresh \in {"unresolved", "review-required"},
         L!CarriedStatus(x, previous, fresh) \in L!Accepting
  PROVE  x \in f \cup (DOMAIN b \cap a)
<1>1. fresh \notin L!Accepting
  BY DEF L!Accepting
<1> QED BY <1>1 DEF L!CarriedStatus, L!Earned

\* Carrying a status over never supersedes a row.
LEMMA CarriedIsNoSupersession ==
  ASSUME L!LedgerInv, NEW previous, NEW x
  PROVE  L!CarriedStatus(x, previous, "unresolved") # "superseded-by-current-scan"
<1>1. \A y \in DOMAIN b : b[y] \in L!Accepting
  BY LedgerParts
<1> QED BY <1>1 DEF L!CarriedStatus, L!Accepting

\* Rows and candidates are apart.
LEMMA RowsAreNoCandidates == ScanRows \cap ScanCandidates = {}
BY LedgerAssumption

\* Decisions settle no row.
LEMMA DecisionsSpareRows ==
  ASSUME NEW entries, NEW decisions, \A x \in DOMAIN decisions : decisions[x].fingerprints \subseteq ScanCandidates
  PROVE  /\ DOMAIN L!WithDecisions(entries, decisions) = DOMAIN entries
         /\ \A s \in ScanRows \cap DOMAIN entries : L!WithDecisions(entries, decisions)[s] = entries[s]
<1>1. PICK new : new = L!WithDecisions(entries, decisions)
  OBVIOUS
<1>2. DOMAIN new = DOMAIN entries
  BY <1>1 DEF L!WithDecisions
<1>3. ASSUME NEW s \in ScanRows \cap DOMAIN entries PROVE new[s] = entries[s]
  <2>1. {x \in DOMAIN decisions : s \in decisions[x].fingerprints} = {}
    BY RowsAreNoCandidates
  <2> QED BY <1>1, <2>1 DEF L!WithDecisions
<1> QED BY <1>1, <1>2, <1>3

\* An entry a decision names was accepted.
LEMMA DecisionsAreEarned ==
  ASSUME NEW entries, NEW decisions, NEW given,
         \A x \in DOMAIN entries : entries[x] \in L!Accepting => x \in given,
         \A x \in DOMAIN decisions : decisions[x].fingerprints \subseteq given
  PROVE  \A x \in DOMAIN L!WithDecisions(entries, decisions) :
           L!WithDecisions(entries, decisions)[x] \in L!Accepting => x \in given
<1>1. PICK new : new = L!WithDecisions(entries, decisions)
  OBVIOUS
<1>2. ASSUME NEW x \in DOMAIN new, new[x] \in L!Accepting PROVE x \in given
  <2>1. x \in DOMAIN entries
    BY <1>1 DEF L!WithDecisions
  <2>2. PICK about : about = {y \in DOMAIN decisions : x \in decisions[y].fingerprints}
    OBVIOUS
  <2>3. CASE about = {}
    <3>1. new[x] = entries[x]
      BY <1>1, <2>1, <2>2, <2>3 DEF L!WithDecisions
    <3> QED BY <1>2, <2>1, <3>1
  <2>4. CASE about # {}
    BY <2>2, <2>4
  <2> QED BY <2>3, <2>4
<1> QED BY <1>1, <1>2

\* A ledger accepts only what was accepted and has the rows of its scan.
LEMMA BuiltLedgerFits ==
  ASSUME L!LedgerInv, NEW id \in LedgerRuns, NEW ledger, ledger = L!BuiltLedger(id),
         NEW previous, previous = L!PreviousEntries(id)
  PROVE  /\ \A x \in DOMAIN ledger.entries :
              ledger.entries[x] \in L!Accepting => x \in f \cup (DOMAIN b \cap a)
         /\ \A s \in a \cap ScanRows :
              /\ s \in DOMAIN ledger.entries
              /\ ledger.entries[s] = L!CarriedStatus(s, previous, "unresolved")
<1>1. PICK rows, entries : rows = L!StructuralEntries(a, previous)
                           /\ entries = L!WithCandidates(rows, a, previous)
  OBVIOUS
<1>2. ledger.entries = L!WithDecisions(entries, d[id])
  BY <1>1 DEF L!BuiltLedger
<1>3. L!Earned(previous)
  BY PreviousIsEarned
<1>4. PICK given : given = f \cup (DOMAIN b \cap a)
  OBVIOUS
<1>5. /\ DOMAIN rows = (a \cap ScanRows) \cup DOMAIN previous
      /\ \A x \in DOMAIN rows : rows[x] = IF x \in a \cap ScanRows
                                          THEN L!CarriedStatus(x, previous, "unresolved")
                                          ELSE "superseded-by-current-scan"
  BY <1>1 DEF L!StructuralEntries
<1>6. \A x \in DOMAIN rows : rows[x] \in L!Accepting => x \in given
  <2> SUFFICES ASSUME NEW x \in DOMAIN rows, rows[x] \in L!Accepting PROVE x \in given
    OBVIOUS
  <2>1. "superseded-by-current-scan" \notin L!Accepting
    BY DEF L!Accepting
  <2>2. x \in a /\ L!CarriedStatus(x, previous, "unresolved") \in L!Accepting
    BY <1>5, <2>1
  <2> QED BY <1>3, <1>4, <2>2, CarriedIsEarned
<1>7. /\ DOMAIN rows \subseteq DOMAIN entries
      /\ \A x \in DOMAIN rows : entries[x] = rows[x]
      /\ \A x \in DOMAIN entries \ DOMAIN rows :
           x \in a /\ entries[x] = L!CarriedStatus(x, previous, "review-required")
  BY <1>1 DEF L!WithCandidates
<1>8. \A x \in DOMAIN entries : entries[x] \in L!Accepting => x \in given
  <2> SUFFICES ASSUME NEW x \in DOMAIN entries, entries[x] \in L!Accepting PROVE x \in given
    OBVIOUS
  <2>1. CASE x \in DOMAIN rows
    BY <1>6, <1>7, <2>1
  <2>2. CASE x \notin DOMAIN rows
    <3>1. x \in a /\ L!CarriedStatus(x, previous, "review-required") \in L!Accepting
      BY <1>7, <2>2
    <3> QED BY <1>3, <1>4, <3>1, CarriedIsEarned
  <2> QED BY <2>1, <2>2
<1>9. \A x \in DOMAIN d[id] : d[id][x].fingerprints \subseteq given /\ d[id][x].fingerprints \subseteq ScanCandidates
  BY <1>4, LedgerParts
<1>10. \A x \in DOMAIN ledger.entries : ledger.entries[x] \in L!Accepting => x \in given
  BY <1>2, <1>8, <1>9, DecisionsAreEarned
<1>11. ASSUME NEW s \in a \cap ScanRows
       PROVE  /\ s \in DOMAIN ledger.entries
              /\ ledger.entries[s] = L!CarriedStatus(s, previous, "unresolved")
  <2>1. s \in DOMAIN rows /\ s \in DOMAIN entries /\ entries[s] = L!CarriedStatus(s, previous, "unresolved")
    BY <1>5, <1>7
  <2>2. /\ DOMAIN L!WithDecisions(entries, d[id]) = DOMAIN entries
        /\ \A x \in ScanRows \cap DOMAIN entries : L!WithDecisions(entries, d[id])[x] = entries[x]
    BY <1>9, DecisionsSpareRows
  <2> QED BY <1>2, <2>1, <2>2
<1> QED BY <1>4, <1>10, <1>11

-----------------------------------------------------------------------------
\* What an audit can report lies in what the whole scan reports.
LEMMA FindingsGrow == ASSUME NEW now PROVE L!AuditFindings(now) \subseteq L!AuditFindings(L!Reportable)
BY DEF L!AuditFindings, L!Reportable

LEMMA LedgerAudited ==
  ASSUME L!LedgerInv, NEW id \in LedgerRuns, L!Audit(id)
  PROVE  L!LedgerInv'
<1>1. PICK ledger, previous : ledger = L!BuiltLedger(id) /\ previous = L!PreviousEntries(id)
  OBVIOUS
<1>2. PICK held \in BOOLEAN : L!Put(L!Run(id, ledger, L!AuditFindings(a), held))
  BY <1>1 DEF L!Audit
<1>3. /\ e' = [id |-> id, scan |-> a, ledger |-> ledger]
      /\ f' = f \cup (DOMAIN b \cap a) /\ a' = a /\ b' = b /\ d' = d
  BY <1>1 DEF L!Audit
<1>4. PICK run : run = L!Run(id, ledger, L!AuditFindings(a), held)
  OBVIOUS
<1>5. /\ run.id = id /\ run.ledger = ledger /\ run.report = L!AuditFindings(a)
      /\ DOMAIN run = {"id", "ledger", "report", "held"}
  BY <1>4 DEF L!Run
<1>6. RunsAreApart(c)
  BY LedgerParts
<1>7. Replaces(c', run)
  BY <1>2, <1>4, <1>6, RunIsPut
<1>8. /\ \A x \in DOMAIN ledger.entries : ledger.entries[x] \in L!Accepting => x \in f'
      /\ \A s \in a \cap ScanRows :
           /\ s \in DOMAIN ledger.entries
           /\ ledger.entries[s] = L!CarriedStatus(s, previous, "unresolved")
  BY <1>1, <1>3, BuiltLedgerFits
<1>9. RunIsSound(run)'
  <2>1. L!Earned(ledger.entries)'
    BY <1>8 DEF L!Earned
  <2> QED BY <1>5, <2>1, FindingsGrow DEF RunIsSound
<1>10. f \subseteq f'
  BY <1>3
<1>11. RunsAreApart(c)' /\ \A k \in DOMAIN c' : RunIsSound(c[k])'
  BY <1>7, <1>9, <1>10, RunsKept
<1>12. DecisionsAreSound'
  BY <1>3, <1>10, DecisionsAreKept
<1>13. PICK new : new = e'
  OBVIOUS
<1>14. new.id = id /\ new.scan = a /\ new.ledger = ledger
  BY <1>3, <1>13
<1>15. L!ResolvedOnlyByDecision'
  <2> SUFFICES ASSUME NEW s \in a \cap ScanRows, s \notin L!OpenRows(a, ledger) PROVE s \in f'
    BY <1>13, <1>14 DEF L!ResolvedOnlyByDecision
  <2>1. s \in DOMAIN ledger.entries /\ ledger.entries[s] \in L!Resolved
    BY DEF L!OpenRows
  <2>2. ledger.entries[s] # "superseded-by-current-scan"
    BY <1>8, CarriedIsNoSupersession
  <2>3. ledger.entries[s] \in L!Accepting
    BY <2>1, <2>2 DEF L!Resolved, L!Accepting
  <2> QED BY <1>8, <2>1, <2>3
<1>16. L!ResultFits(e)'
  <2>1. PICK runs : runs = c'
    OBVIOUS
  <2>2. ASSUME NEW k \in DOMAIN runs, runs[k].id = id, runs[k].ledger # L!Unwritten
        PROVE  /\ a \cap ScanRows \subseteq DOMAIN ledger.entries
               /\ L!SameRows(runs[k].ledger, ledger)
    <3>1. runs[k] = run
      BY <1>5, <1>7, <2>1, <2>2 DEF Replaces
    <3> QED BY <1>5, <1>8, <3>1 DEF L!SameRows
  <2> QED BY <1>13, <1>14, <1>15, <2>1, <2>2 DEF L!ResultFits, L!SameRows
<1> QED BY <1>11, <1>12, <1>16 DEF L!LedgerInv, RunsAreApart, RunIsSound, DecisionsAreSound

\* A step that puts a run where the others stay, and decides nothing.
LEMMA LedgerRearranged ==
  ASSUME L!LedgerInv, NEW run, Replaces(c', run), RunIsSound(run),
         e # L!Unwritten => LedgersAgree(e, run), UNCHANGED <<b, d, e, f>>
  PROVE  L!LedgerInv'
<1>1. RunIsSound(run)'
  BY SoundRunsKept
<1>2. RunsAreApart(c)' /\ \A k \in DOMAIN c' : RunIsSound(c[k])'
  BY <1>1, RunsKept
<1>3. DecisionsAreSound'
  BY DecisionsAreKept
<1>4. (e # L!Unwritten => L!ResultFits(e))'
  BY ResultStands
<1> QED BY <1>2, <1>3, <1>4 DEF L!LedgerInv, RunsAreApart, RunIsSound, DecisionsAreSound

\* A run without a ledger is sound.
LEMMA UnwrittenIsSound ==
  ASSUME NEW id, NEW report, NEW held, report \subseteq L!AuditFindings(L!Reportable),
         NEW run, run = L!Run(id, L!Unwritten, report, held)
  PROVE  RunIsSound(run) /\ run.id = id /\ run.ledger = L!Unwritten
BY DEF L!Run, RunIsSound

\* So are the runs stored.
LEMMA StoredRunsAreSound ==
  ASSUME L!LedgerInv, NEW n \in DOMAIN c, NEW run, run = c[n]
  PROVE  RunIsSound(run) /\ (e # L!Unwritten => LedgersAgree(e, run))
BY LedgerParts DEF L!ResultFits, LedgersAgree

LEMMA LedgerTorn ==
  ASSUME L!LedgerInv, NEW id \in LedgerRuns, L!AuditFails(id)
  PROVE  L!LedgerInv'
<1>1. UNCHANGED <<b, d, e, f>> /\ RunsAreApart(c)
  BY LedgerParts DEF L!AuditFails
<1>2. PICK new : new = c'
  OBVIOUS
<1>3. CASE id \in L!Stored
  <2>1. PICK n, run : n = L!Position(id) /\ run = [c[n] EXCEPT !.ledger = L!Unwritten]
    OBVIOUS
  <2>2. n \in DOMAIN c /\ c[n].id = id
    BY <1>3, <2>1, PositionIsThere
  <2>3. RunIsSound(c[n])
    BY <2>2, LedgerParts
  <2>4. DOMAIN run = DOMAIN c[n] /\ run.id = id /\ run.ledger = L!Unwritten /\ run.report = c[n].report
    BY <2>1, <2>2, <2>3 DEF RunIsSound
  <2>5. RunIsSound(run)
    BY <2>3, <2>4 DEF RunIsSound
  <2>6. new = [c EXCEPT ![n].ledger = L!Unwritten]
    BY <1>2, <1>3, <2>1 DEF L!AuditFails
  <2>7. new = [c EXCEPT ![n] = run]
    BY <2>1, <2>2, <2>6
  <2>8. Replaces(new, run)
    BY <1>1, <2>2, <2>4, <2>7, InPlace
  <2>9. e # L!Unwritten => LedgersAgree(e, run)
    BY <2>4 DEF LedgersAgree
  <2> QED BY <1>1, <1>2, <2>5, <2>8, <2>9, LedgerRearranged
<1>4. CASE id \notin L!Stored
  <2>1. PICK run : run = L!Run(id, L!Unwritten, {}, FALSE)
    OBVIOUS
  <2>2. RunIsSound(run) /\ run.id = id /\ run.ledger = L!Unwritten
    BY <2>1 DEF L!Run, RunIsSound
  <2>3. new = <<run>> \o L!Others(run.id)
    BY <1>2, <1>4, <2>1 DEF L!AuditFails, L!ToFront
  <2>4. Replaces(new, run)
    BY <1>1, <2>3, InFront
  <2>5. e # L!Unwritten => LedgersAgree(e, run)
    BY <2>2 DEF LedgersAgree
  <2> QED BY <1>1, <1>2, <2>2, <2>4, <2>5, LedgerRearranged
<1> QED BY <1>3, <1>4

LEMMA LedgerInspected ==
  ASSUME L!LedgerInv, NEW id \in LedgerRuns, L!Inspect(id)
  PROVE  L!LedgerInv'
<1>1. UNCHANGED <<b, d, e, f>> /\ RunsAreApart(c)
  BY LedgerParts DEF L!Inspect
<1>2. PICK new, run : new = c' /\ run = L!Run(id, L!Unwritten, {}, FALSE)
  OBVIOUS
<1>3. RunIsSound(run) /\ run.id = id /\ run.ledger = L!Unwritten
  BY <1>2 DEF L!Run, RunIsSound
<1>4. new = <<run>> \o L!Others(run.id)
  BY <1>2 DEF L!Inspect, L!ToFront
<1>5. Replaces(new, run)
  BY <1>1, <1>4, InFront
<1>6. e # L!Unwritten => LedgersAgree(e, run)
  BY <1>3 DEF LedgersAgree
<1> QED BY <1>1, <1>2, <1>3, <1>5, <1>6, LedgerRearranged

LEMMA LedgerTouched ==
  ASSUME L!LedgerInv, NEW id \in LedgerRuns, L!Touch(id)
  PROVE  L!LedgerInv'
<1>1. UNCHANGED <<b, d, e, f>> /\ RunsAreApart(c) /\ id \in L!Stored
  BY LedgerParts DEF L!Touch
<1>2. PICK new, n, run : new = c' /\ n = L!Position(id) /\ run = c[n]
  OBVIOUS
<1>3. n \in DOMAIN c /\ run.id = id
  BY <1>1, <1>2, PositionIsThere
<1>4. new = <<run>> \o L!Others(run.id)
  BY <1>2, <1>3 DEF L!Touch, L!ToFront, L!Lookup
<1>5. Replaces(new, run)
  BY <1>1, <1>4, InFront
<1> QED BY <1>1, <1>2, <1>3, <1>5, StoredRunsAreSound, LedgerRearranged

LEMMA LedgerVerified ==
  ASSUME L!LedgerInv, NEW id \in LedgerRuns, L!Verify(id)
  PROVE  L!LedgerInv'
<1>1. b' = b /\ d' = d /\ f' = f /\ a' = a /\ e' = [id |-> id, scan |-> a, ledger |-> L!NoLedger] /\ RunsAreApart(c)
  BY LedgerParts DEF L!Verify
<1>2. PICK held \in BOOLEAN : L!ToFront(L!Run(id, L!Unwritten, L!AuditFindings(a), held))
  BY DEF L!Verify
<1>3. PICK new, run : new = c' /\ run = L!Run(id, L!Unwritten, L!AuditFindings(a), held)
  OBVIOUS
<1>4. RunIsSound(run) /\ run.id = id /\ run.ledger = L!Unwritten
  BY <1>3, UnwrittenIsSound, FindingsGrow
<1>5. new = <<run>> \o L!Others(run.id)
  BY <1>2, <1>3, <1>4 DEF L!ToFront
<1>6. Replaces(new, run)
  BY <1>1, <1>5, InFront
<1>7. RunIsSound(run)' /\ f \subseteq f'
  BY <1>1, <1>4, SoundRunsKept
<1>8. RunsAreApart(c)' /\ \A k \in DOMAIN c' : RunIsSound(c[k])'
  BY <1>3, <1>6, <1>7, RunsKept
<1>9. DecisionsAreSound'
  BY <1>1, <1>7, DecisionsAreKept
<1>10. PICK settled : settled = e'
  OBVIOUS
<1>11. settled.id = id /\ settled.scan = a /\ settled.ledger = L!NoLedger
  BY <1>1, <1>10
<1>12. L!ResolvedOnlyByDecision'
  <2> SUFFICES ASSUME NEW s \in a \cap ScanRows, s \notin L!OpenRows(a, L!NoLedger) PROVE FALSE
    BY <1>10, <1>11 DEF L!ResolvedOnlyByDecision
  <2>1. s \in DOMAIN L!NoLedger.entries
    BY DEF L!OpenRows
  <2>2. DOMAIN <<>> = {}
    OBVIOUS
  <2> QED BY <2>1, <2>2 DEF L!NoLedger, L!Empty
<1>13. \A k \in DOMAIN new : new[k].id = id => new[k].ledger = L!Unwritten
  BY <1>4, <1>6 DEF Replaces
<1>14. L!ResultFits(e)'
  BY <1>3, <1>10, <1>11, <1>12, <1>13 DEF L!ResultFits
<1> QED BY <1>8, <1>9, <1>14 DEF L!LedgerInv, RunsAreApart, RunIsSound, DecisionsAreSound

\* A finding about a candidate names a candidate of the scan.
LEMMA OnlyCandidatesAreNamed ==
  ASSUME NEW finding \in L!AuditFindings(L!Reportable), finding[1] = "security-candidate"
  PROVE  finding[2] \in ScanCandidates
<1>1. \/ \E x : finding = <<"structural", x>>
      \/ \E x : finding = <<"missing", x>>
      \/ \E x : finding = <<"security-review", x>>
      \/ \E x \in ScanCandidates : finding = <<"security-candidate", x>>
  BY DEF L!AuditFindings, L!GroupOf
<1> QED BY <1>1

\* What a decision about candidates changes in a table of entries.
LEMMA LedgerDecided ==
  ASSUME L!LedgerInv, NEW id \in LedgerRuns, NEW finding, NEW status \in L!Accepting,
         L!RecordDisposition(id, finding, status)
  PROVE  L!LedgerInv'
<1>1. PICK named : named = IF finding[1] = "security-candidate" THEN {finding[2]} ELSE {}
  OBVIOUS
<1>2. PICK decision : decision = [status |-> status, fingerprints |-> named]
  OBVIOUS
<1>3. PICK recorded : recorded = L!With(d[id], finding, decision)
  OBVIOUS
<1>4. /\ id \in L!Stored /\ finding \in L!Lookup(id).report
      /\ d' = [d EXCEPT ![id] = recorded] /\ f' = f \cup named
      /\ b' = b /\ a' = a /\ e' = e
      /\ c' = IF L!Lookup(id).ledger = L!Unwritten THEN c
              ELSE [c EXCEPT ![L!Position(id)].ledger =
                      [entries |-> L!WithDecisions(@.entries, recorded), decisions |-> recorded]]
  BY <1>1, <1>2, <1>3 DEF L!RecordDisposition
<1>5. PICK n : n = L!Position(id)
  OBVIOUS
<1>6. n \in DOMAIN c /\ c[n].id = id /\ L!Lookup(id) = c[n]
  BY <1>4, <1>5, PositionIsThere DEF L!Lookup
<1>7. PICK old : old = c[n]
  OBVIOUS
<1>8. RunIsSound(old) /\ (e # L!Unwritten => LedgersAgree(e, old)) /\ RunsAreApart(c)
  BY <1>6, <1>7, StoredRunsAreSound, LedgerParts
<1>9. named \subseteq ScanCandidates
  <2>1. finding \in L!AuditFindings(L!Reportable)
    BY <1>4, <1>6, <1>7, <1>8 DEF RunIsSound
  <2> QED BY <1>1, <2>1, OnlyCandidatesAreNamed
<1>10. f \subseteq f' /\ named \subseteq f'
  BY <1>4
<1>11. /\ DOMAIN recorded = DOMAIN d[id] \cup {finding}
       /\ \A x \in DOMAIN recorded : recorded[x] = IF x = finding THEN decision ELSE d[id][x]
  BY <1>3 DEF L!With
<1>12. \A x \in DOMAIN recorded : /\ recorded[x].fingerprints \subseteq f' \cap ScanCandidates
                                  /\ recorded[x].status \in L!Accepting
  <2> SUFFICES ASSUME NEW x \in DOMAIN recorded
               PROVE  /\ recorded[x].fingerprints \subseteq f' \cap ScanCandidates
                      /\ recorded[x].status \in L!Accepting
    OBVIOUS
  <2>1. CASE x = finding
    <3>1. recorded[x].fingerprints = named /\ recorded[x].status = status
      BY <1>2, <1>11, <2>1
    <3> QED BY <1>9, <1>10, <3>1
  <2>2. CASE x # finding
    <3>1. x \in DOMAIN d[id] /\ recorded[x] = d[id][x]
      BY <1>11, <2>2
    <3> QED BY <1>10, <3>1, LedgerParts
  <2> QED BY <2>1, <2>2
<1>13. DecisionsAreSound'
  <2>1. PICK table : table = d'
    OBVIOUS
  <2>2. DOMAIN d = LedgerRuns /\ \A x \in DOMAIN b : b[x] \in L!Accepting
    BY LedgerParts
  <2>3. DOMAIN table = LedgerRuns /\ table[id] = recorded /\ \A q \in LedgerRuns \ {id} : table[q] = d[q]
    BY <1>4, <2>1, <2>2
  <2>4. ASSUME NEW q \in LedgerRuns
        PROVE  \A x \in DOMAIN table[q] : /\ table[q][x].fingerprints \subseteq f' \cap ScanCandidates
                                          /\ table[q][x].status \in L!Accepting
    <3>1. CASE q = id
      BY <1>12, <2>3, <3>1
    <3>2. CASE q # id
      <4>1. table[q] = d[q]
        BY <2>3, <3>2
      <4> QED BY <1>10, <4>1, LedgerParts
    <3> QED BY <3>1, <3>2
  <2> QED BY <1>4, <2>1, <2>2, <2>3, <2>4 DEF DecisionsAreSound
<1>14. PICK run : /\ run.id = id /\ DOMAIN run = DOMAIN old /\ run.report = old.report
                  /\ old.ledger = L!Unwritten => run = old
                  /\ old.ledger # L!Unwritten =>
                       /\ run.ledger.entries = L!WithDecisions(old.ledger.entries, recorded)
                       /\ c' = [c EXCEPT ![n] = run]
  <2>1. CASE old.ledger = L!Unwritten
    BY <1>6, <1>7, <2>1
  <2>2. CASE old.ledger # L!Unwritten
    <3>1. PICK ledger, run :
            /\ ledger = [entries |-> L!WithDecisions(old.ledger.entries, recorded), decisions |-> recorded]
            /\ run = [old EXCEPT !.ledger = ledger]
      OBVIOUS
    <3>2. run.id = id /\ DOMAIN run = DOMAIN old /\ run.report = old.report /\ run.ledger = ledger
      BY <1>6, <1>7, <1>8, <3>1 DEF RunIsSound
    <3>3. ledger.entries = L!WithDecisions(old.ledger.entries, recorded)
      BY <3>1
    <3>4. c' = [c EXCEPT ![n].ledger = [entries |-> L!WithDecisions(@.entries, recorded), decisions |-> recorded]]
      BY <1>4, <1>5, <1>6, <1>7, <2>2
    <3>5. c' = [c EXCEPT ![n] = run]
      BY <1>6, <1>7, <3>1, <3>4
    <3> QED BY <2>2, <3>2, <3>3, <3>5
  <2> QED BY <2>1, <2>2
<1>15. RunIsSound(run)'
  <2>1. CASE old.ledger = L!Unwritten
    BY <1>8, <1>10, <1>14, <2>1, SoundRunsKept
  <2>2. CASE old.ledger # L!Unwritten
    <3>1. PICK given : given = f'
      OBVIOUS
    <3>2. \A x \in DOMAIN old.ledger.entries : old.ledger.entries[x] \in L!Accepting => x \in given
      BY <1>8, <1>10, <2>2, <3>1 DEF RunIsSound, L!Earned
    <3>3. \A x \in DOMAIN recorded : recorded[x].fingerprints \subseteq given
      BY <1>12, <3>1
    <3>4. \A x \in DOMAIN run.ledger.entries : run.ledger.entries[x] \in L!Accepting => x \in given
      BY <1>14, <2>2, <3>2, <3>3, DecisionsAreEarned
    <3> QED BY <1>8, <1>14, <3>1, <3>4 DEF RunIsSound, L!Earned
  <2> QED BY <2>1, <2>2
<1>16. e # L!Unwritten => LedgersAgree(e, run)
  <2>1. CASE old.ledger = L!Unwritten
    BY <1>8, <1>14, <2>1
  <2>2. CASE old.ledger # L!Unwritten
    <3>1. PICK before, after : before = old.ledger.entries /\ after = run.ledger.entries
      OBVIOUS
    <3>2. /\ DOMAIN after = DOMAIN before
          /\ \A s \in ScanRows \cap DOMAIN before : after[s] = before[s]
      BY <1>12, <1>14, <2>2, <3>1, DecisionsSpareRows
    <3> SUFFICES ASSUME e # L!Unwritten, e.id = id
                 PROVE  /\ e.scan \cap ScanRows \subseteq DOMAIN e.ledger.entries
                        /\ L!SameRows(run.ledger, e.ledger)
      BY <1>14 DEF LedgersAgree
    <3>3. /\ e.scan \cap ScanRows \subseteq DOMAIN e.ledger.entries
          /\ L!SameRows(old.ledger, e.ledger)
      BY <1>6, <1>7, <1>8, <2>2 DEF LedgersAgree
    <3> QED BY <3>1, <3>2, <3>3 DEF L!SameRows
  <2> QED BY <2>1, <2>2
<1>17. Replaces(c', run)
  <2>1. PICK new : new = c'
    OBVIOUS
  <2>2. CASE old.ledger = L!Unwritten
    <3>1. new = c /\ run = c[n]
      BY <1>4, <1>6, <1>7, <1>14, <2>1, <2>2
    <3>2. \A k \in DOMAIN c : c[k] = run \/ (c[k].id # run.id /\ \E l \in DOMAIN c : c[k] = c[l])
      BY <1>6, <1>8, <3>1 DEF RunsAreApart
    <3> QED BY <1>8, <2>1, <3>1, <3>2 DEF Replaces
  <2>3. CASE old.ledger # L!Unwritten
    <3>1. new = [c EXCEPT ![n] = run] /\ c[n].id = run.id
      BY <1>6, <1>14, <2>1, <2>3
    <3> QED BY <1>6, <1>8, <2>1, <3>1, InPlace
  <2> QED BY <2>2, <2>3
<1>18. RunsAreApart(c)' /\ \A k \in DOMAIN c' : RunIsSound(c[k])'
  BY <1>10, <1>15, <1>17, RunsKept
<1>19. (e # L!Unwritten => L!ResultFits(e))'
  BY <1>4, <1>10, <1>16, <1>17, ResultStands
<1> QED BY <1>13, <1>18, <1>19 DEF L!LedgerInv, RunsAreApart, RunIsSound, DecisionsAreSound

LEMMA LedgerPruned ==
  ASSUME L!LedgerInv, NEW kept, NEW preserved, L!Prune(kept, preserved)
  PROVE  L!LedgerInv'
<1>1. UNCHANGED <<b, d, e, f>> /\ RunsAreApart(c)
  BY LedgerParts DEF L!Prune
<1>2. PICK n \in DOMAIN c : c' = L!Without(n)
  BY DEF L!Prune
<1>3. PICK new : new = c'
  OBVIOUS
<1>4. RunsAreApart(new) /\ \A k \in DOMAIN new : \E l \in DOMAIN c : new[k] = c[l]
  BY <1>1, <1>2, <1>3, WithoutOne
<1>5. f \subseteq f'
  BY <1>1
<1>6. ASSUME NEW k \in DOMAIN new
      PROVE  RunIsSound(new[k])' /\ (e # L!Unwritten => LedgersAgree(e, new[k]))
  <2>1. PICK l \in DOMAIN c : new[k] = c[l]
    BY <1>4
  <2>2. PICK run : run = c[l]
    OBVIOUS
  <2>3. RunIsSound(run) /\ (e # L!Unwritten => LedgersAgree(e, run))
    BY <2>2, StoredRunsAreSound
  <2>4. RunIsSound(run)'
    BY <1>5, <2>3, SoundRunsKept
  <2> QED BY <2>1, <2>2, <2>3, <2>4
<1>7. DecisionsAreSound'
  BY <1>1, <1>5, DecisionsAreKept
<1>8. (e # L!Unwritten => L!ResultFits(e))'
  <2> SUFFICES ASSUME e # L!Unwritten PROVE L!ResultFits(e)'
    BY <1>1
  <2>1. L!ResolvedOnlyByDecision'
    BY <1>1 DEF L!LedgerInv, L!ResultFits, L!ResolvedOnlyByDecision
  <2> QED BY <1>1, <1>3, <1>6, <2>1 DEF L!ResultFits, LedgersAgree, L!SameRows
<1> QED BY <1>3, <1>4, <1>6, <1>7, <1>8 DEF L!LedgerInv, RunsAreApart, RunIsSound, DecisionsAreSound

LEMMA LedgerConfigured ==
  ASSUME L!LedgerInv, UNCHANGED <<c, d, e, f>>, \A x \in DOMAIN b' : b'[x] \in L!Accepting
  PROVE  L!LedgerInv'
<1>1. (e # L!Unwritten => L!ResultFits(e))'
  BY DEF L!LedgerInv, L!ResultFits, L!ResolvedOnlyByDecision, L!SameRows
<1> QED BY <1>1 DEF L!LedgerInv, L!Earned

LEMMA LedgerStands ==
  ASSUME L!LedgerInv, UNCHANGED <<b, c, d, e, f>>
  PROVE  L!LedgerInv'
BY LedgerParts, LedgerConfigured

LEMMA LedgerStep == ASSUME L!LedgerInv, L!Next PROVE L!LedgerInv'
<1>1. ASSUME NEW x, L!ChangeCode(x) PROVE L!LedgerInv'
  BY <1>1, LedgerStands DEF L!ChangeCode
<1>2. ASSUME NEW x, NEW status \in L!Accepting, L!Accept(x, status) PROVE L!LedgerInv'
  <2>1. \A y \in DOMAIN b' : b'[y] \in L!Accepting
    BY <1>2, LedgerParts DEF L!Accept, L!With
  <2> QED BY <1>2, <2>1, LedgerConfigured DEF L!Accept
<1>3. ASSUME NEW x, L!Withdraw(x) PROVE L!LedgerInv'
  <2>1. \A y \in DOMAIN b' : b'[y] \in L!Accepting
    BY <1>3, LedgerParts DEF L!Withdraw, L!Restrict
  <2> QED BY <1>3, <2>1, LedgerConfigured DEF L!Withdraw
<1> QED BY <1>1, <1>2, <1>3, LedgerAudited, LedgerTorn, LedgerInspected, LedgerVerified,
           LedgerTouched, LedgerDecided, LedgerPruned DEF L!Next

LEMMA LedgerInit == ASSUME L!Init PROVE L!LedgerInv
<1>1. c = <<>> /\ e = L!Unwritten /\ d = [id \in LedgerRuns |-> <<>>]
  BY DEF L!Init, L!Empty
<1>2. \A x \in DOMAIN b : b[x] \in L!Accepting
  <2>1. DOMAIN <<>> = {}
    OBVIOUS
  <2>2. CASE b = <<>>
    BY <2>1, <2>2
  <2>3. CASE \E x : b \in [{x} -> L!Accepting]
    BY <2>3
  <2>4. b = <<>> \/ \E x : b \in [{x} -> L!Accepting]
    BY DEF L!Init, L!Empty
  <2> QED BY <2>2, <2>3, <2>4
<1>3. DOMAIN <<>> = {} /\ <<>> \in Seq({})
  OBVIOUS
<1> QED BY <1>1, <1>2, <1>3 DEF L!LedgerInv

(* An entry that accepts was accepted, decisions name candidates, and the    *)
(* ledger of the latest result settles rows as the result does: the          *)
(* resolution ledger over audits, failures, touches and retention.          *)
THEOREM LedgerKept == Parts => [](part = "ledger" => L!LedgerInv)
<1>1. PartsInit => (part = "ledger" => L!LedgerInv)
  BY LedgerInit DEF PartsInit
<1>2. (part = "ledger" => L!LedgerInv) /\ [PartsNext]_parts => (part = "ledger" => L!LedgerInv)'
  <2> SUFFICES ASSUME part = "ledger" => L!LedgerInv, [PartsNext]_parts, part' = "ledger"
               PROVE  L!LedgerInv'
    OBVIOUS
  <2>1. L!LedgerInv /\ (L!Next \/ UNCHANGED <<b, c, d, e, f>>)
    BY DEF PartsNext, parts
  <2> QED BY <2>1, LedgerStep, LedgerStands
<1> QED BY <1>1, <1>2, PTL DEF Parts

(* A row that a plan leaves out was accepted by the configuration or by a    *)
(* decision, whatever happened to directories and ledgers: resolution        *)
(* ledger and planning of audits.                                           *)
THEOREM ResolvedByDecision == Parts => []ResolvedOnlyByDecision
<1>1. (part = "ledger" => L!LedgerInv) => ResolvedOnlyByDecision
  BY DEF ResolvedOnlyByDecision, L!LedgerInv, L!ResultFits, L!ResolvedOnlyByDecision
<1> QED BY <1>1, LedgerKept, PTL

-----------------------------------------------------------------------------
\* The audit after the latest keeps what the latest one settled.
LEMMA AuditKeepsAcceptance ==
  ASSUME L!LedgerInv, NEW id \in LedgerRuns, L!Audit(id)
  PROVE  L!KeepsAcceptance
<1>1. PICK ledger, previous : ledger = L!BuiltLedger(id) /\ previous = L!PreviousEntries(id)
  OBVIOUS
<1>2. PICK new : new = e'
  OBVIOUS
<1>3. new.id = id /\ new.scan = a /\ new.ledger = ledger
  BY <1>1, <1>2 DEF L!Audit
<1>4. SUFFICES ASSUME NEW s \in ScanRows, e # L!Unwritten, id # e.id, c # <<>>, c[1].id = e.id,
                      c[1].ledger # L!Unwritten, s \in e.scan \cap a, s \notin DOMAIN b,
                      e.ledger.entries[s] \in L!Accepting
               PROVE  ledger.entries[s] = e.ledger.entries[s]
  BY <1>2, <1>3 DEF L!KeepsAcceptance
<1>5. RunsAreApart(c) /\ L!ResultFits(e)
  BY <1>4, LedgerParts
<1>6. 1 \in DOMAIN c
  BY <1>4, <1>5 DEF RunsAreApart
<1>7. /\ s \in DOMAIN e.ledger.entries /\ s \in DOMAIN c[1].ledger.entries
      /\ c[1].ledger.entries[s] = e.ledger.entries[s]
  BY <1>4, <1>5, <1>6 DEF L!ResultFits, L!SameRows
<1>8. PICK others : others = L!Others(id)
  OBVIOUS
<1>9. PICK readable : readable = {k \in DOMAIN others : others[k].ledger # L!Unwritten}
  OBVIOUS
<1>10. 1 \in DOMAIN others /\ others[1] = c[1] /\ RunsAreApart(others)
  BY <1>4, <1>5, <1>8, OthersOf
<1>11. 1 \in readable
  BY <1>4, <1>9, <1>10
<1>12. PICK k \in readable : (\A l \in readable : k <= l) /\ previous = others[k].ledger.entries
  BY <1>1, <1>5, <1>8, <1>9, <1>11, PreviousOf
<1>13. k = 1
  <2>1. k \in DOMAIN others
    BY <1>9, <1>12
  <2>2. k \in Nat \ {0}
    BY <1>10, <2>1, RunsAreASequence
  <2> QED BY <1>11, <1>12, <2>2
<1>14. s \in DOMAIN previous /\ previous[s] = e.ledger.entries[s]
  BY <1>7, <1>10, <1>12, <1>13
<1>15. L!CarriedStatus(s, previous, "unresolved") = previous[s]
  BY <1>4, <1>14 DEF L!CarriedStatus
<1>16. ledger.entries[s] = L!CarriedStatus(s, previous, "unresolved")
  BY <1>1, <1>4, BuiltLedgerFits
<1> QED BY <1>14, <1>15, <1>16

\* An audit carries over what the audit before it accepted.
LEMMA LedgerKeepsAcceptance == ASSUME L!LedgerInv, L!Next PROVE L!KeepsAcceptance
<1>1. ASSUME NEW id, L!Verify(id) PROVE L!KeepsAcceptance
  <2>1. e'.ledger = L!NoLedger
    BY <1>1 DEF L!Verify
  <2> QED BY <2>1 DEF L!KeepsAcceptance
<1>2. CASE e' = e
  BY <1>2 DEF L!KeepsAcceptance
<1>3. ASSUME NEW id \in LedgerRuns, L!AuditFails(id) \/ L!Inspect(id) \/ L!Touch(id) PROVE e' = e
  BY <1>3 DEF L!AuditFails, L!Inspect, L!Touch
<1>4. ASSUME NEW id \in LedgerRuns, NEW finding, NEW status, L!RecordDisposition(id, finding, status) PROVE e' = e
  BY <1>4 DEF L!RecordDisposition
<1>5. ASSUME NEW kept, NEW preserved, L!Prune(kept, preserved) PROVE e' = e
  BY <1>5 DEF L!Prune
<1>6. ASSUME NEW x, L!ChangeCode(x) \/ L!Withdraw(x) \/ (\E status \in L!Accepting : L!Accept(x, status)) PROVE e' = e
  BY <1>6 DEF L!ChangeCode, L!Withdraw, L!Accept
<1> QED BY <1>1, <1>2, <1>3, <1>4, <1>5, <1>6, AuditKeepsAcceptance DEF L!Next

(* While the newest directory is that of the latest audit, what it settled   *)
(* stays settled: the next audit carries it over, artifacts.py and the       *)
(* resolution ledger.                                                       *)
THEOREM AcceptanceStays == Parts => AcceptanceIsKept
<1>1. (part = "ledger" => L!LedgerInv) /\ [PartsNext]_parts => [part = "ledger" => L!KeepsAcceptance]_parts
  <2> SUFFICES ASSUME part = "ledger" => L!LedgerInv, PartsNext, part = "ledger" PROVE L!KeepsAcceptance
    OBVIOUS
  <2>1. L!LedgerInv /\ L!Next
    BY DEF PartsNext
  <2> QED BY <2>1, LedgerKeepsAcceptance
<1> QED BY <1>1, LedgerKept, PTL DEF Parts, AcceptanceIsKept

=============================================================================
