---------------------------- MODULE CachesProofs ----------------------------
(***************************************************************************)
(* Proofs about what is kept of a working tree: the caches (inventory,     *)
(* similarity reports, per-file results), the baselines of a task, the     *)
(* exclusions that say what of it is scanned, and the security scan of its *)
(* files.  They hold for all processes, files, contents and bounds.  The   *)
(* parts share the variables a, ..., j; MCParts says what each stands for. *)
(***************************************************************************)
EXTENDS MCParts, FiniteSetTheorems, TLAPS

-----------------------------------------------------------------------------
(* InventoryCache.                                                          *)

(* Two repositories with one key have one commit if git said which, and     *)
(* agree about every file that the key can see if it answered in full.      *)
LEMMA KeyShows ==
  ASSUME NEW r \in I!WorkTrees, NEW s \in I!WorkTrees, r.git = s.git,
         NEW old, NEW late, I!Key(r, old) = I!Key(s, late)
  PROVE  /\ s.git /\ "head" \in old /\ "head" \in late => r.head = s.head
         /\ I!Commands \subseteq old /\ I!Commands \subseteq late =>
              \A x \in I!Files \ I!Unseen(s) : r.files[x] = s.files[x]
<1>1. /\ r.git \in BOOLEAN /\ s.git \in BOOLEAN
      /\ r.head \in [Tracked -> Contents] /\ s.head \in [Tracked -> Contents]
      /\ \A x \in Tracked : s.files[x] \in Contents
  BY DEF I!WorkTrees
<1>2. s.git /\ "head" \in old /\ "head" \in late => r.head = s.head
  BY DEF I!Key
<1>3. CASE ~s.git
  BY <1>2, <1>3 DEF I!Unseen
<1>4. CASE s.git /\ ~(I!Commands \subseteq old /\ I!Commands \subseteq late)
  BY <1>2, <1>4
<1>5. CASE s.git /\ I!Commands \subseteq old /\ I!Commands \subseteq late
  <2> DEFINE Others(v) == {u \in {Untracked, Inside} : v.files[u] # Nothing}
             Dirty(v) == {<<x, I!Digest(v, x)>> : x \in I!Listed(v)}
                         \cup {<<x, I!Digest(v, x)>> : x \in Others(v)}
  <2>1. r.head = s.head /\ Dirty(r) = Dirty(s)
    <3>1. \A said : I!Commands \subseteq said => "head" \in said /\ "status" \in said
      BY DEF I!Commands
    <3> QED BY <1>2, <1>5, <3>1 DEF I!Key
  <2>2. /\ I!Listed(r) \subseteq Tracked /\ I!Listed(s) \subseteq Tracked
        /\ \A x \in Tracked : x \notin Others(r) /\ x \notin Others(s)
    BY CachesAssumption DEF I!Listed
  <2>3. ASSUME NEW x
        PROVE  /\ x \in I!Listed(r) \cup Others(r) <=> x \in I!Listed(s) \cup Others(s)
               /\ x \in I!Listed(s) \cup Others(s) => I!Digest(r, x) = I!Digest(s, x)
    <3> DEFINE of == I!Digest(r, x)
               now == I!Digest(s, x)
    <3>1. /\ \A y : <<x, y>> \in Dirty(r) <=> x \in I!Listed(r) \cup Others(r) /\ y = of
          /\ \A y : <<x, y>> \in Dirty(s) <=> x \in I!Listed(s) \cup Others(s) /\ y = now
      <4> HIDE DEF Others
      <4> QED OBVIOUS
    <3> HIDE DEF Others, Dirty, of, now
    <3>2. \A y : (x \in I!Listed(r) \cup Others(r) /\ y = of)
                   <=> (x \in I!Listed(s) \cup Others(s) /\ y = now)
      BY <2>1, <3>1
    <3>3. /\ x \in I!Listed(r) \cup Others(r) <=> x \in I!Listed(s) \cup Others(s)
          /\ x \in I!Listed(s) \cup Others(s) => of = now
      BY <3>2
    <3> QED BY <3>3 DEF of, now
  <2>4. /\ Untracked \in Others(r) <=> Untracked \in Others(s)
        /\ Untracked \in Others(s) => I!Digest(r, Untracked) = I!Digest(s, Untracked)
    <3>1. Untracked \notin I!Listed(r) /\ Untracked \notin I!Listed(s)
      BY <2>2, CachesAssumption
    <3> HIDE DEF Others
    <3> QED BY <2>3, <3>1
  <2>5. ASSUME NEW x \in Tracked, x \notin I!Cut(s) PROVE r.files[x] = s.files[x]
    <3>0. /\ x \in I!Listed(r) <=> x \in I!Listed(s)
          /\ x \in I!Listed(s) => I!Digest(r, x) = I!Digest(s, x)
      <4> HIDE DEF Others
      <4> QED BY <2>2, <2>3
    <3>1. CASE x \in I!Listed(s)
      BY <1>1, <2>5, <3>0, <3>1, CachesAssumption DEF I!Digest
    <3>2. CASE x \notin I!Listed(s)
      BY <2>1, <3>0, <3>2 DEF I!Listed
    <3> QED BY <3>1, <3>2
  <2>6. r.files[Untracked] = s.files[Untracked]
    <3>1. Untracked \notin I!Cut(r) /\ Untracked \notin I!Cut(s)
      BY <2>2, CachesAssumption DEF I!Cut
    <3> QED BY <2>4, <3>1, CachesAssumption DEF I!Digest
  <2> QED BY <1>2, <1>5, <2>5, <2>6 DEF I!Unseen, I!Files
<1> QED BY <1>3, <1>4, <1>5

LEMMA InventoryInit == PartsInit /\ part = "inventory" => I!KeyedInv
<1> SUFFICES ASSUME I!Init PROVE I!KeyedInv
  BY DEF PartsInit
<1>1. a \in I!WorkTrees
  BY DEF I!Init, I!WorkTrees, I!Files
<1>2. b = <<>> /\ c = [p \in Workers |-> Nothing] /\ d = Nothing
  BY DEF I!Init
<1> QED BY <1>1, <1>2 DEF I!KeyedInv

(* A change leaves nothing behind that is not of its key, or is noted.      *)
LEMMA InventoryChange ==
  ASSUME I!KeyedInv, NEW r \in I!WorkTrees, r.git = a.git, I!Change(r)
  PROVE  I!KeyedInv'
<1>1. /\ a' = r /\ b' = b /\ c' = c /\ d' = d
      /\ ~f' => ~f /\ \A p \in Workers : c[p] = Nothing
  BY DEF I!Change
<1> QED BY <1>1 DEF I!KeyedInv

LEMMA InventoryStep ==
  ASSUME I!KeyedInv, I!Next \/ UNCHANGED <<a, b, c, d, e, f>>
  PROVE  I!KeyedInv'
<1>1. ASSUME NEW p \in Workers, NEW said \in SUBSET I!Commands, I!Hit(p, said)
      PROVE  I!KeyedInv'
  <2> DEFINE key == I!Key(a, said)
  <2>1. /\ d' = [hit |-> TRUE, of |-> b[key].of, at |-> a, said |-> said \cap b[key].said]
        /\ key \in DOMAIN b /\ UNCHANGED <<a, b, c, f>>
    BY <1>1 DEF I!Hit
  <2>2. d'.of = b[key].of /\ d'.at = a /\ d'.said = said \cap b[key].said
    BY <2>1
  <2>3. ~f => /\ b[key].of \in I!WorkTrees /\ b[key].of.git = a.git
              /\ I!Key(b[key].of, b[key].said) = I!Key(a, said)
    BY <2>1 DEF I!KeyedInv
  <2>4. ~f => \E old, now : /\ d'.said \subseteq old \cap now
                            /\ I!Key(d'.of, old) = I!Key(d'.at, now)
    <3>1. d'.said \subseteq b[key].said \cap said
      BY <2>2
    <3> QED BY <2>2, <2>3, <3>1
  <2> HIDE DEF key
  <2> QED BY <2>1, <2>2, <2>3, <2>4 DEF I!KeyedInv
<1>2. ASSUME NEW p \in Workers, NEW said \in SUBSET I!Commands, I!Miss(p, said)
      PROVE  I!KeyedInv'
  <2>1. /\ c' = [c EXCEPT ![p] = [key |-> I!Key(a, said), said |-> said]]
        /\ UNCHANGED <<a, b, d, f>>
    BY <1>2 DEF I!Miss
  <2>2. /\ DOMAIN c' = Workers
        /\ \A q \in Workers :
             c'[q] = IF q = p THEN [key |-> I!Key(a, said), said |-> said] ELSE c[q]
    BY <2>1 DEF I!KeyedInv
  <2>3. ~f => \A q \in Workers : c'[q] # Nothing => c'[q].key = I!Key(a, c'[q].said)
    BY <2>2 DEF I!KeyedInv
  <2> QED BY <2>1, <2>2, <2>3 DEF I!KeyedInv
<1>3. ASSUME NEW p \in Workers, I!Build(p) PROVE I!KeyedInv'
  <2>1. /\ b' = [k \in DOMAIN b \cup {c[p].key} |->
                  IF k = c[p].key THEN [of |-> a, said |-> c[p].said] ELSE b[k]]
        /\ d' = [hit |-> FALSE, of |-> a, at |-> a, said |-> c[p].said] /\ c[p] # Nothing
        /\ c' = [c EXCEPT ![p] = Nothing] /\ UNCHANGED <<a, e, f>>
    BY <1>3 DEF I!Build
  <2>2. d'.of = a /\ d'.at = a /\ d'.said = c[p].said
    BY <2>1
  <2>3. DOMAIN c' = Workers /\ \A q \in Workers : c'[q] # Nothing => c'[q] = c[q]
    BY <2>1 DEF I!KeyedInv
  <2>4. ~f => c[p].key = I!Key(a, c[p].said)
    BY <2>1 DEF I!KeyedInv
  <2>5. ~f => \A k \in DOMAIN b' : /\ b'[k].of \in I!WorkTrees /\ I!Key(b'[k].of, b'[k].said) = k
                                   /\ b'[k].of.git = a.git
    <3> SUFFICES ASSUME ~f, NEW k \in DOMAIN b'
                 PROVE  /\ b'[k].of \in I!WorkTrees /\ I!Key(b'[k].of, b'[k].said) = k
                        /\ b'[k].of.git = a.git
      OBVIOUS
    <3>1. CASE k = c[p].key
      <4>1. b'[k].of = a /\ b'[k].said = c[p].said
        BY <2>1, <3>1
      <4> QED BY <2>4, <3>1, <4>1 DEF I!KeyedInv
    <3>2. CASE k # c[p].key
      <4>1. k \in DOMAIN b /\ b'[k] = b[k]
        BY <2>1, <3>2
      <4> QED BY <4>1 DEF I!KeyedInv
    <3> QED BY <3>1, <3>2
  <2>6. \E old, now : /\ d'.said \subseteq old \cap now
                      /\ I!Key(d'.of, old) = I!Key(d'.at, now)
    <3>1. d'.said \subseteq d'.said \cap d'.said /\ I!Key(d'.of, d'.said) = I!Key(d'.at, d'.said)
      BY <2>2
    <3> QED BY <3>1
  <2>7. ~f' => \A q \in Workers : c'[q] # Nothing => c'[q].key = I!Key(a', c'[q].said)
    BY <2>1, <2>3 DEF I!KeyedInv
  <2> QED BY <2>1, <2>2, <2>3, <2>5, <2>6, <2>7 DEF I!KeyedInv
<1>4. ASSUME NEW p \in Workers, I!Die(p) PROVE I!KeyedInv'
  BY <1>4 DEF I!Die, I!KeyedInv
<1>5. ASSUME I!Edit PROVE I!KeyedInv'
  <2>1. PICK x \in I!Files, v \in Contents : I!Change([a EXCEPT !.files[x] = v])
    BY <1>5 DEF I!Edit
  <2>2. [a EXCEPT !.files[x] = v] \in I!WorkTrees
    <3>1. /\ a = [git |-> a.git, branch |-> a.branch, head |-> a.head, index |-> a.index,
                  files |-> a.files]
          /\ a.git \in BOOLEAN /\ a.branch \in Branches /\ a.head \in [Tracked -> Contents]
          /\ a.index \in [Tracked -> Contents] /\ a.files \in [I!Files -> Contents \cup {Nothing}]
          /\ \A y \in Tracked : a.files[y] \in Contents
      BY DEF I!KeyedInv, I!WorkTrees
    <3>2. /\ [a.files EXCEPT ![x] = v] \in [I!Files -> Contents \cup {Nothing}]
          /\ \A y \in Tracked : [a.files EXCEPT ![x] = v][y] \in Contents
      BY <3>1 DEF I!Files
    <3>3. [a EXCEPT !.files[x] = v] = [a EXCEPT !.files = [a.files EXCEPT ![x] = v]]
      BY <3>1
    <3> QED BY <3>1, <3>2, <3>3 DEF I!WorkTrees
  <2>3. [a EXCEPT !.files[x] = v].git = a.git
    BY DEF I!KeyedInv, I!WorkTrees
  <2>4. PICK r : r = [a EXCEPT !.files[x] = v]
    OBVIOUS
  <2>5. r \in I!WorkTrees /\ r.git = a.git /\ I!Change(r)
    BY <2>1, <2>2, <2>3, <2>4
  <2> QED BY <2>5, InventoryChange
<1>6. ASSUME I!Stage PROVE I!KeyedInv'
  <2>1. PICK x \in Tracked : I!Change([a EXCEPT !.index[x] = a.files[x]])
    BY <1>6 DEF I!Stage
  <2>2. [a EXCEPT !.index[x] = a.files[x]] \in I!WorkTrees
        /\ [a EXCEPT !.index[x] = a.files[x]].git = a.git
    BY DEF I!KeyedInv, I!WorkTrees
  <2> QED BY <2>1, <2>2, InventoryChange
<1>7. ASSUME I!Commit PROVE I!KeyedInv'
  <2>1. [a EXCEPT !.head = a.index] \in I!WorkTrees /\ [a EXCEPT !.head = a.index].git = a.git
    BY DEF I!KeyedInv, I!WorkTrees
  <2> QED BY <1>7, <2>1, InventoryChange DEF I!Commit
<1>8. ASSUME I!Switch PROVE I!KeyedInv'
  <2>1. PICK x \in Branches : I!Change([a EXCEPT !.branch = x])
    BY <1>8 DEF I!Switch
  <2>2. [a EXCEPT !.branch = x] \in I!WorkTrees /\ [a EXCEPT !.branch = x].git = a.git
    BY DEF I!KeyedInv, I!WorkTrees
  <2> QED BY <2>1, <2>2, InventoryChange
<1>9. CASE UNCHANGED <<a, b, c, d, e, f>>
  BY <1>9 DEF I!KeyedInv
<1> QED BY <1>1, <1>2, <1>3, <1>4, <1>5, <1>6, <1>7, <1>8, <1>9 DEF I!Next

(* For every repository and every number of changes: what is cached, being  *)
(* built or shown is of its key, until a change races a build.              *)
THEOREM InventoryKeyed == Parts => [](part = "inventory" => I!KeyedInv)
<1>1. PartsInit => (part = "inventory" => I!KeyedInv)
  BY InventoryInit
<1>2. (part = "inventory" => I!KeyedInv) /\ [PartsNext]_parts
        => (part = "inventory" => I!KeyedInv)'
  <2> SUFFICES ASSUME part' = "inventory", part = "inventory" => I!KeyedInv, [PartsNext]_parts
               PROVE  I!KeyedInv'
    OBVIOUS
  <2>1. part = "inventory" /\ (I!Next \/ UNCHANGED <<a, b, c, d, e, f>>)
    BY DEF PartsNext, parts
  <2> QED BY <2>1, InventoryStep
<1> QED BY <1>1, <1>2, PTL DEF Parts

-----------------------------------------------------------------------------
(* SimilarityCache.                                                         *)

LEMMA SimilarityInit == PartsInit /\ part = "similarity" => N!CacheInv
<1> SUFFICES ASSUME N!Init PROVE N!CacheInv
  BY DEF PartsInit
<1>1. /\ c = [rows |-> {}, latest |-> None] /\ d = [x \in {} |-> None]
      /\ e = [p \in Workers |-> N!Idle] /\ f = None
  BY DEF N!Init
<1>2. /\ N!EntriesInv /\ N!IndexInv /\ N!ReportIsOfItsKey /\ N!MissIsExplained
  BY <1>1 DEF N!EntriesInv, N!IndexInv, N!ReportIsOfItsKey, N!MissIsExplained
<1>3. DOMAIN e = Workers /\ \A p \in Workers : N!InHand(e[p])
  BY <1>1 DEF N!InHand, N!Idle
<1> QED BY <1>2, <1>3 DEF N!CacheInv

(* Entries are replaced and not removed, so that others keep what they      *)
(* have in hand.                                                            *)
LEMMA OthersInHand ==
  ASSUME N!CacheInv, NEW p \in Workers, e' = [e EXCEPT ![p] = e'[p]], N!InHand(e[p])',
         a' = a, DOMAIN d \subseteq DOMAIN d'
  PROVE  DOMAIN e' = Workers /\ \A q \in Workers : N!InHand(e[q])'
<1>1. DOMAIN e' = Workers /\ \A q \in Workers : q # p => e'[q] = e[q]
  BY DEF N!CacheInv
<1>2. ASSUME NEW q \in Workers, q # p PROVE N!InHand(e[q])'
  <2>1. PICK s : s = e[q]
    OBVIOUS
  <2>2. N!InHand(s) /\ e'[q] = s
    BY <1>1, <1>2, <2>1 DEF N!CacheInv
  <2>3. N!InHand(s)'
    BY <2>2 DEF N!InHand
  <2> QED BY <2>2, <2>3
<1> QED BY <1>1, <1>2

(* What a scan shows, as the two properties see it.                         *)
LEMMA ShownIs ==
  ASSUME NEW s, NEW report, NEW hit, N!Shown(s, report, hit)
  PROVE  /\ f'.identity = N!cache_identity(s.files, s.policy) /\ f'.report = report
         /\ f'.edited = (IF hit THEN N!cache_identity(s.files, s.policy) \in g ELSE s.edited)
         /\ f'.missed = s.missed /\ f'.reasons = s.reasons
BY DEF N!Shown

LEMMA SimilarityBegin ==
  ASSUME N!CacheInv, NEW p \in Workers, N!Begin(p)
  PROVE  N!CacheInv'
<1>1. PICK policy \in N!Policies, persist \in BOOLEAN :
        e' = [e EXCEPT ![p] =
                [pc |-> IF persist /\ policy # "off" THEN "get" ELSE "scan",
                 policy |-> policy, persist |-> persist, files |-> a, edited |-> FALSE,
                 index |-> None, selected |-> {}, rows |-> [t \in {} |-> None], of |-> {},
                 report |-> None, missed |-> FALSE, reasons |-> {}, failures |-> 0]]
  BY DEF N!Begin
<1>2. UNCHANGED <<a, c, d, f, g>>
  BY DEF N!Begin
<1>3. /\ e' = [e EXCEPT ![p] = e'[p]]
      /\ e'[p] = [pc |-> IF persist /\ policy # "off" THEN "get" ELSE "scan",
                  policy |-> policy, persist |-> persist, files |-> a, edited |-> FALSE,
                  index |-> None, selected |-> {}, rows |-> [t \in {} |-> None], of |-> {},
                  report |-> None, missed |-> FALSE, reasons |-> {}, failures |-> 0]
  BY <1>1 DEF N!CacheInv
<1>4. N!InHand(e[p])'
  BY <1>2, <1>3 DEF N!InHand
<1> QED BY <1>2, <1>3, <1>4, OthersInHand
        DEF N!CacheInv, N!EntriesInv, N!IndexInv, N!ReportIsOfItsKey, N!MissIsExplained

LEMMA SimilarityGet ==
  ASSUME N!CacheInv, NEW p \in Workers, N!Get(p)
  PROVE  N!CacheInv'
<1>0. PICK s, identity : s = e[p] /\ identity = N!cache_identity(s.files, s.policy)
  OBVIOUS
<1>1. s.pc = "get" /\ N!InHand(s) /\ UNCHANGED <<a, c, d, g>>
  BY <1>0 DEF N!Get, N!CacheInv
<1>2. identity.files = s.files /\ identity.policy = s.policy
  BY <1>0 DEF N!cache_identity
<1>3. CASE identity \in c.rows /\ identity \in DOMAIN d
  <2>1. N!Shown(s, N!AsCached(d[identity]), TRUE) /\ e' = [e EXCEPT ![p] = N!Idle]
    BY <1>0, <1>3 DEF N!Get
  <2>2. /\ f'.identity = identity /\ f'.report = N!AsCached(d[identity])
        /\ f'.edited = (identity \in g) /\ f'.missed = s.missed /\ f'.reasons = s.reasons
    BY <1>0, <2>1, ShownIs
  <2>3. N!AsCached(d[identity]).of = d[identity].of
    BY <1>3 DEF N!AsCached, N!CacheInv, N!EntriesInv
  <2>4. (identity.policy = "external" => identity \notin g) => d[identity].of \subseteq {identity.files}
    BY <1>3 DEF N!CacheInv, N!EntriesInv
  <2>5. N!ReportIsOfItsKey'
    BY <2>2, <2>3, <2>4 DEF N!ReportIsOfItsKey
  <2>6. N!MissIsExplained'
    BY <1>1, <2>2 DEF N!MissIsExplained, N!InHand, N!CacheInv
  <2>7. e' = [e EXCEPT ![p] = e'[p]] /\ e'[p] = N!Idle
    BY <2>1 DEF N!CacheInv
  <2>8. N!InHand(e[p])'
    BY <2>7 DEF N!InHand, N!Idle
  <2> QED BY <1>1, <2>5, <2>6, <2>7, <2>8, OthersInHand DEF N!CacheInv, N!EntriesInv, N!IndexInv
<1>4. CASE ~(identity \in c.rows /\ identity \in DOMAIN d)
  <2> DEFINE reasons == IF identity \in c.rows THEN {"missing-entry"} ELSE N!Reasons(c.latest, identity)
             next == [s EXCEPT !.pc = "scan", !.index = c, !.missed = TRUE, !.reasons = reasons]
  <2>1. f' = f /\ e' = [e EXCEPT ![p] = next]
    BY <1>0, <1>4 DEF N!Get
  <2>2. reasons # {}
    <3>1. CASE identity \in c.rows \/ c.latest = None
      BY <3>1 DEF N!Reasons
    <3>2. CASE identity \notin c.rows /\ c.latest # None
      <4>1. c.latest = N!cache_identity(c.latest.files, c.latest.policy) /\ c.latest # identity
        BY <3>2 DEF N!CacheInv, N!EntriesInv, N!IndexInv
      <4>2. c.latest.files # identity.files \/ c.latest.policy # identity.policy
        BY <1>0, <1>2, <4>1
      <4> QED BY <3>2, <4>2 DEF N!Reasons
    <3> QED BY <3>1, <3>2
  <2>3. e' = [e EXCEPT ![p] = e'[p]] /\ e'[p] = next
    BY <2>1 DEF N!CacheInv
  <2> HIDE DEF reasons
  <2>4. N!InHand(e[p])'
    BY <1>1, <2>1, <2>2, <2>3 DEF N!InHand, N!CacheInv, N!IndexInv
  <2> QED BY <1>1, <2>1, <2>3, <2>4, OthersInHand
          DEF N!CacheInv, N!EntriesInv, N!IndexInv, N!ReportIsOfItsKey, N!MissIsExplained
<1> QED BY <1>3, <1>4

(* Steps that change nothing but the scan itself.                           *)
LEMMA SimilarityAdvance ==
  ASSUME N!CacheInv, NEW p \in Workers, e' = [e EXCEPT ![p] = e'[p]], N!InHand(e[p])',
         UNCHANGED <<a, c, d, f, g>>
  PROVE  N!CacheInv'
BY OthersInHand DEF N!CacheInv, N!EntriesInv, N!IndexInv, N!ReportIsOfItsKey, N!MissIsExplained

(* A scan that goes on keeps what it has read and what it was asked.        *)
LEMMA GoesOnInHand ==
  ASSUME NEW s, N!InHand(s), s.pc \in {"scan", "tools"}, NEW t, DOMAIN t = DOMAIN s,
         t.policy = s.policy, t.persist = s.persist, t.edited = s.edited, t.files = s.files,
         t.missed = s.missed, t.reasons = s.reasons, t.index = s.index,
         \/ t.pc = "tools" /\ s.policy = "external" /\ (~s.edited => t.of \subseteq {s.files})
         \/ /\ t.pc = "put" /\ DOMAIN t.report = {"rows", "status", "of"}
            /\ s.policy # "off" /\ (s.policy = "external" => ~s.edited) =>
                 t.report.of \subseteq {s.files}
  PROVE  N!InHand(t)
BY DEF N!InHand

LEMMA SimilarityCompare ==
  ASSUME N!CacheInv, NEW p \in Workers, N!Compare(p)
  PROVE  N!CacheInv'
<1>0. PICK s, report, t : s = e[p]
        /\ report = (IF s.policy = "off" THEN N!Skipped(DOMAIN a) ELSE N!Native(s))
        /\ t = [s EXCEPT !.pc = "put", !.report = report]
  OBVIOUS
<1>1. /\ s.pc = "scan" /\ s.policy # "external" /\ N!InHand(s) /\ UNCHANGED <<a, c, d, f, g>>
      /\ e' = [e EXCEPT ![p] = t]
  BY <1>0 DEF N!Compare, N!CacheInv
<1>2. e' = [e EXCEPT ![p] = e'[p]] /\ e'[p] = t
  BY <1>1 DEF N!CacheInv
<1>3. /\ DOMAIN report = {"rows", "status", "of"}
      /\ s.policy # "off" => report.of = {s.files}
  BY <1>0 DEF N!Skipped, N!Native, N!Report, N!Seen
<1>4. /\ DOMAIN t = DOMAIN s /\ t.pc = "put" /\ t.report = report
      /\ t.policy = s.policy /\ t.persist = s.persist /\ t.edited = s.edited
      /\ t.files = s.files /\ t.missed = s.missed /\ t.reasons = s.reasons /\ t.index = s.index
  <2>1. DOMAIN s = {"pc", "policy", "persist", "files", "edited", "index", "selected", "rows",
                    "of", "report", "missed", "reasons", "failures"}
    BY <1>1 DEF N!InHand
  <2> QED BY ONLY <1>0, <2>1
<1>5. N!InHand(t)
  BY <1>1, <1>3, <1>4, GoesOnInHand
<1>6. N!InHand(e[p])'
  BY <1>1, <1>2, <1>5 DEF N!InHand
<1> QED BY <1>1, <1>2, <1>6, SimilarityAdvance

LEMMA SimilarityTools ==
  ASSUME N!CacheInv, NEW p \in Workers, N!Select(p) \/ N!RunTool(p) \/ N!Collect(p)
  PROVE  N!CacheInv'
<1>0. PICK s : s = e[p]
  OBVIOUS
<1>1. N!InHand(s) /\ UNCHANGED <<a, c, d, f, g>>
  BY <1>0 DEF N!Select, N!RunTool, N!Collect, N!CacheInv
<1>2. /\ s.policy = "external" /\ s.pc \in {"scan", "tools"}
      /\ DOMAIN s = {"pc", "policy", "persist", "files", "edited", "index", "selected", "rows",
                     "of", "report", "missed", "reasons", "failures"}
  BY <1>0, <1>1 DEF N!Select, N!RunTool, N!Collect, N!InHand
<1> DEFINE Kept(t) ==
      /\ DOMAIN t = DOMAIN s /\ t.policy = s.policy /\ t.persist = s.persist
      /\ t.edited = s.edited /\ t.files = s.files /\ t.missed = s.missed
      /\ t.reasons = s.reasons /\ t.index = s.index
<1>3. PICK t :
        /\ e' = [e EXCEPT ![p] = t] /\ Kept(t)
        /\ \/ t.pc = "tools" /\ (t.of = s.of \/ t.of = s.of \cup {a})
           \/ t.pc = "put" /\ DOMAIN t.report = {"rows", "status", "of"} /\ t.report.of = s.of
  <2>1. CASE N!Select(p)
    <3>1. PICK t : t = [s EXCEPT !.pc = "tools", !.selected = DOMAIN a]
      OBVIOUS
    <3>2. e' = [e EXCEPT ![p] = t]
      BY <1>0, <2>1, <3>1 DEF N!Select, N!CacheInv
    <3>3. Kept(t) /\ t.pc = "tools" /\ t.of = s.of
      BY ONLY <1>2, <3>1
    <3> QED BY <3>2, <3>3
  <2>2. CASE N!RunTool(p)
    <3>1. PICK rows, of :
            /\ of = s.of \/ of = s.of \cup {a}
            /\ e' = [e EXCEPT ![p].rows = rows, ![p].of = of]
      <4>1. PICK tool \in e[p].selected \ DOMAIN e[p].rows, outcome \in {"executed", "failed"} :
              LET status == IF tool \in b THEN outcome ELSE "missing"
              IN  e' = [e EXCEPT
                          ![p].rows = [u \in DOMAIN e[p].rows \cup {tool} |->
                                         IF u = tool THEN status ELSE e[p].rows[u]],
                          ![p].of = IF status = "executed" THEN @ \cup {a} ELSE @]
        BY <2>2 DEF N!RunTool
      <4> DEFINE status == IF tool \in b THEN outcome ELSE "missing"
      <4>2. PICK rows : rows = [u \in DOMAIN s.rows \cup {tool} |->
                                  IF u = tool THEN status ELSE s.rows[u]]
        OBVIOUS
      <4>3. PICK of : of = IF status = "executed" THEN s.of \cup {a} ELSE s.of
        OBVIOUS
      <4>4. e' = [e EXCEPT ![p].rows = rows, ![p].of = of]
        BY <1>0, <1>2, <4>1, <4>2, <4>3 DEF N!CacheInv
      <4> QED BY <4>3, <4>4
    <3>2. PICK t : t = [s EXCEPT !.rows = rows, !.of = of]
      OBVIOUS
    <3>3. e' = [e EXCEPT ![p] = t]
      BY <1>0, <3>1, <3>2 DEF N!CacheInv
    <3>4. Kept(t) /\ t.pc = s.pc /\ t.of = of
      BY ONLY <1>2, <3>2
    <3>5. s.pc = "tools"
      BY <1>0, <2>2 DEF N!RunTool
    <3> QED BY <3>1, <3>3, <3>4, <3>5
  <2>3. CASE N!Collect(p)
    <3>1. PICK report, t : /\ report = N!Report(s.rows, N!Overall(s.rows), s.of)
                          /\ t = [s EXCEPT !.pc = "put", !.report = report]
      OBVIOUS
    <3>2. e' = [e EXCEPT ![p] = t]
      BY <1>0, <2>3, <3>1 DEF N!Collect, N!CacheInv
    <3>3. Kept(t) /\ t.pc = "put" /\ t.report = report
      BY ONLY <1>2, <3>1
    <3>4. DOMAIN report = {"rows", "status", "of"} /\ report.of = s.of
      BY <3>1 DEF N!Report
    <3> QED BY <3>2, <3>3, <3>4
  <2> QED BY <2>1, <2>2, <2>3
<1>4. ~s.edited => s.of \subseteq {s.files} /\ s.files = a
  BY <1>1, <1>2 DEF N!InHand
<1>5. N!InHand(t)
  BY <1>1, <1>2, <1>3, <1>4, GoesOnInHand
<1>6. e' = [e EXCEPT ![p] = e'[p]] /\ e'[p] = t
  BY <1>3 DEF N!CacheInv
<1>7. N!InHand(e[p])'
  BY <1>1, <1>5, <1>6 DEF N!InHand
<1> QED BY <1>1, <1>6, <1>7, SimilarityAdvance

(* A scan that ends, with what it has in hand.                              *)
LEMMA SimilarityEnd ==
  ASSUME N!CacheInv, NEW p \in Workers, NEW s, N!InHand(s), s.pc \in {"put", "index"},
         NEW t, N!Shown(t, s.report, FALSE), t.files = s.files, t.policy = s.policy,
         t.edited = s.edited, t.missed = s.missed, t.reasons = s.reasons,
         c'.rows \subseteq DOMAIN d'
  PROVE  N!ReportIsOfItsKey' /\ N!MissIsExplained'
<1>1. /\ f'.identity = N!cache_identity(s.files, s.policy) /\ f'.report = s.report
      /\ f'.edited = s.edited /\ f'.missed = s.missed /\ f'.reasons = s.reasons
  BY ShownIs
<1>2. f'.identity.files = s.files /\ f'.identity.policy = s.policy
  BY <1>1 DEF N!cache_identity
<1>3. /\ s.policy # "off" /\ (s.policy = "external" => ~s.edited) => s.report.of \subseteq {s.files}
      /\ s.missed => s.reasons # {}
  BY DEF N!InHand
<1> QED BY <1>1, <1>2, <1>3 DEF N!ReportIsOfItsKey, N!MissIsExplained

LEMMA SimilarityShow ==
  ASSUME N!CacheInv, NEW p \in Workers, N!Show(p)
  PROVE  N!CacheInv'
<1>0. PICK s : s = e[p]
  OBVIOUS
<1>1. /\ s.pc = "put" /\ N!InHand(s) /\ N!Shown(s, s.report, FALSE)
      /\ e' = [e EXCEPT ![p] = N!Idle] /\ UNCHANGED <<a, c, d, g>>
  BY <1>0 DEF N!Show, N!CacheInv
<1>2. c'.rows \subseteq DOMAIN d'
  BY <1>1 DEF N!CacheInv, N!IndexInv
<1>3. N!ReportIsOfItsKey' /\ N!MissIsExplained'
  BY <1>1, <1>2, SimilarityEnd
<1>4. e' = [e EXCEPT ![p] = e'[p]] /\ e'[p] = N!Idle
  BY <1>1 DEF N!CacheInv
<1>5. N!InHand(e[p])'
  BY <1>4 DEF N!InHand, N!Idle
<1> QED BY <1>1, <1>3, <1>4, <1>5, OthersInHand DEF N!CacheInv, N!EntriesInv, N!IndexInv

LEMMA SimilarityPutEntry ==
  ASSUME N!CacheInv, NEW p \in Workers, N!PutEntry(p)
  PROVE  N!CacheInv'
<1>0. PICK s, identity : s = e[p] /\ identity = N!cache_identity(s.files, s.policy)
  OBVIOUS
<1>1. /\ s.pc = "put" /\ N!InHand(s) /\ N!Kept(s) /\ UNCHANGED <<a, c>>
  BY <1>0 DEF N!PutEntry, N!CacheInv
<1>2. s.persist /\ s.policy # "off" /\ DOMAIN s.report = {"rows", "status", "of"}
      /\ s.index.rows \subseteq DOMAIN d /\ s.edited \in BOOLEAN
  BY <1>1 DEF N!Kept, N!InHand
<1>3. identity.files = s.files /\ identity.policy = s.policy
  BY <1>0 DEF N!cache_identity
<1>4. PICK written \in BOOLEAN :
        /\ IF written
           THEN /\ d' = [x \in DOMAIN d \cup {identity} |-> IF x = identity THEN s.report ELSE d[x]]
                /\ g' = IF s.edited THEN g \cup {identity} ELSE g \ {identity}
           ELSE UNCHANGED <<d, g>>
        /\ IF written
           THEN e' = [e EXCEPT ![p].pc = "index"] /\ UNCHANGED f
           ELSE /\ N!Shown([s EXCEPT !.failures = 1], s.report, FALSE)
                /\ e' = [e EXCEPT ![p] = N!Idle]
  BY <1>0 DEF N!PutEntry, N!GoesOn
<1>5. CASE written
  <2>1. /\ d' = [x \in DOMAIN d \cup {identity} |-> IF x = identity THEN s.report ELSE d[x]]
        /\ g' = (IF s.edited THEN g \cup {identity} ELSE g \ {identity})
        /\ e' = [e EXCEPT ![p] = [s EXCEPT !.pc = "index"]] /\ f' = f
    BY <1>0, <1>4, <1>5 DEF N!CacheInv
  <2>2. /\ DOMAIN d' = DOMAIN d \cup {identity} /\ d'[identity] = s.report
        /\ \A x \in DOMAIN d : x # identity => d'[x] = d[x] /\ (x \in g' <=> x \in g)
    BY <2>1
  <2>3. (identity.policy = "external" => identity \notin g') => s.report.of \subseteq {identity.files}
    BY <1>1, <1>2, <1>3, <2>1 DEF N!InHand
  <2>4. N!EntriesInv'
    <3>1. ASSUME NEW x \in DOMAIN d, x # identity
          PROVE  /\ x = N!cache_identity(x.files, x.policy) /\ x.policy # "off"
                 /\ DOMAIN d'[x] = {"rows", "status", "of"}
                 /\ (x.policy = "external" => x \notin g') => d'[x].of \subseteq {x.files}
      BY <2>2, <3>1 DEF N!CacheInv, N!EntriesInv
    <3>2. /\ identity = N!cache_identity(identity.files, identity.policy) /\ identity.policy # "off"
          /\ DOMAIN d'[identity] = {"rows", "status", "of"}
          /\ (identity.policy = "external" => identity \notin g') => d'[identity].of \subseteq {identity.files}
      BY <1>0, <1>2, <1>3, <2>2, <2>3
    <3> QED BY <2>2, <3>1, <3>2 DEF N!EntriesInv
  <2>5. e' = [e EXCEPT ![p] = e'[p]] /\ e'[p] = [s EXCEPT !.pc = "index"]
    BY <2>1 DEF N!CacheInv
  <2>6. N!InHand(e[p])'
    BY <1>0, <1>1, <1>2, <2>2, <2>5 DEF N!InHand
  <2>7. DOMAIN e' = Workers /\ \A q \in Workers : N!InHand(e[q])'
    BY <1>1, <2>2, <2>5, <2>6, OthersInHand
  <2> QED BY <1>1, <2>1, <2>2, <2>4, <2>7
          DEF N!CacheInv, N!IndexInv, N!ReportIsOfItsKey, N!MissIsExplained
<1>6. CASE ~written
  <2>1. /\ N!Shown([s EXCEPT !.failures = 1], s.report, FALSE) /\ UNCHANGED <<d, g>>
        /\ e' = [e EXCEPT ![p] = N!Idle]
    BY <1>4, <1>6
  <2>2. PICK t : t = [s EXCEPT !.failures = 1]
    OBVIOUS
  <2>3. /\ t.files = s.files /\ t.policy = s.policy /\ t.edited = s.edited
        /\ t.missed = s.missed /\ t.reasons = s.reasons
    BY <1>1, <2>2 DEF N!InHand
  <2>4. c'.rows \subseteq DOMAIN d'
    BY <1>1, <2>1 DEF N!CacheInv, N!IndexInv
  <2>5. N!ReportIsOfItsKey' /\ N!MissIsExplained'
    BY <1>1, <2>1, <2>2, <2>3, <2>4, SimilarityEnd
  <2>6. e' = [e EXCEPT ![p] = e'[p]] /\ e'[p] = N!Idle
    BY <2>1 DEF N!CacheInv
  <2>7. N!InHand(e[p])'
    BY <2>6 DEF N!InHand, N!Idle
  <2> QED BY <1>1, <2>1, <2>5, <2>6, <2>7, OthersInHand DEF N!CacheInv, N!EntriesInv, N!IndexInv
<1> QED BY <1>5, <1>6

LEMMA SimilarityPutIndex ==
  ASSUME N!CacheInv, NEW p \in Workers, N!PutIndex(p)
  PROVE  N!CacheInv'
<1>0. PICK s, identity : s = e[p] /\ identity = N!cache_identity(s.files, s.policy)
  OBVIOUS
<1>1. s.pc = "index" /\ N!InHand(s) /\ e' = [e EXCEPT ![p] = N!Idle] /\ UNCHANGED <<a, d, g>>
  BY <1>0 DEF N!PutIndex, N!CacheInv
<1>2. s.index.rows \subseteq DOMAIN d /\ identity \in DOMAIN d
  BY <1>0, <1>1 DEF N!InHand
<1>3. PICK written \in BOOLEAN :
        /\ c' = IF written THEN [rows |-> s.index.rows \cup {identity}, latest |-> identity] ELSE c
        /\ N!Shown([s EXCEPT !.failures = IF written THEN 0 ELSE 1], s.report, FALSE)
  BY <1>0 DEF N!PutIndex
<1>4. N!IndexInv'
  <2>1. CASE written
    <3>1. c'.rows = s.index.rows \cup {identity} /\ c'.latest = identity
      BY <1>3, <2>1
    <3> QED BY <1>1, <1>2, <3>1 DEF N!IndexInv
  <2>2. CASE ~written
    BY <1>1, <1>3, <2>2 DEF N!CacheInv, N!IndexInv
  <2> QED BY <2>1, <2>2
<1>5. PICK t : t = [s EXCEPT !.failures = IF written THEN 0 ELSE 1]
  OBVIOUS
<1>6. /\ t.files = s.files /\ t.policy = s.policy /\ t.edited = s.edited
      /\ t.missed = s.missed /\ t.reasons = s.reasons
  BY <1>1, <1>5 DEF N!InHand
<1>7. N!ReportIsOfItsKey' /\ N!MissIsExplained'
  <2>1. N!Shown(t, s.report, FALSE) /\ c'.rows \subseteq DOMAIN d'
    BY <1>3, <1>4, <1>5 DEF N!IndexInv
  <2> QED BY <1>1, <1>6, <2>1, SimilarityEnd
<1>8. e' = [e EXCEPT ![p] = e'[p]] /\ e'[p] = N!Idle
  BY <1>1 DEF N!CacheInv
<1>9. N!InHand(e[p])'
  BY <1>8 DEF N!InHand, N!Idle
<1> QED BY <1>1, <1>4, <1>7, <1>8, <1>9, OthersInHand DEF N!CacheInv, N!EntriesInv

LEMMA SimilarityEdit ==
  ASSUME N!CacheInv, N!Edit
  PROVE  N!CacheInv'
<1>1. /\ UNCHANGED <<c, d, f, g>>
      /\ e' = [p \in Workers |-> IF e[p].pc = "idle" THEN N!Idle ELSE [e[p] EXCEPT !.edited = TRUE]]
  BY DEF N!Edit
<1>2. ASSUME NEW p \in Workers PROVE N!InHand(e[p])'
  <2>0. PICK s : s = e[p]
    OBVIOUS
  <2>1. N!InHand(s)
    BY <2>0 DEF N!CacheInv
  <2>2. CASE s.pc = "idle"
    BY <1>1, <2>0, <2>2 DEF N!InHand, N!Idle
  <2>3. CASE s.pc # "idle"
    <3>1. e'[p] = [s EXCEPT !.edited = TRUE]
      BY <1>1, <2>0, <2>3
    <3> QED BY <1>1, <2>1, <2>3, <3>1 DEF N!InHand
  <2> QED BY <2>2, <2>3
<1> QED BY <1>1, <1>2
        DEF N!CacheInv, N!EntriesInv, N!IndexInv, N!ReportIsOfItsKey, N!MissIsExplained

LEMMA SimilarityStep ==
  ASSUME N!CacheInv, N!Next \/ UNCHANGED <<a, b, c, d, e, f, g, h, i>>
  PROVE  N!CacheInv'
<1>1. ASSUME NEW p \in Workers, N!Die(p) PROVE N!CacheInv'
  <2>1. e' = [e EXCEPT ![p] = e'[p]] /\ e'[p] = N!Idle /\ UNCHANGED <<a, c, d, f, g>>
    BY <1>1 DEF N!Die, N!CacheInv
  <2>2. N!InHand(e[p])'
    BY <2>1 DEF N!InHand, N!Idle
  <2> QED BY <2>1, <2>2, SimilarityAdvance
<1>2. CASE N!Install \/ UNCHANGED <<a, b, c, d, e, f, g, h, i>>
  BY <1>2 DEF N!Install, N!CacheInv, N!EntriesInv, N!IndexInv, N!ReportIsOfItsKey,
     N!MissIsExplained, N!InHand
<1> QED BY <1>1, <1>2, SimilarityBegin, SimilarityGet, SimilarityCompare, SimilarityTools,
        SimilarityShow, SimilarityPutEntry, SimilarityPutIndex, SimilarityEdit DEF N!Next

(* For all tools, trees and policies, however scans, edits and deaths       *)
(* overlap: entries, reports and indexes are of what they are called.       *)
THEOREM SimilarityKeyed == Parts => [](part = "similarity" => N!CacheInv)
<1>1. PartsInit => (part = "similarity" => N!CacheInv)
  BY SimilarityInit
<1>2. (part = "similarity" => N!CacheInv) /\ [PartsNext]_parts
        => (part = "similarity" => N!CacheInv)'
  <2> SUFFICES ASSUME part' = "similarity", part = "similarity" => N!CacheInv, [PartsNext]_parts
               PROVE  N!CacheInv'
    OBVIOUS
  <2>1. part = "similarity" /\ (N!Next \/ UNCHANGED <<a, b, c, d, e, f, g, h, i>>)
    BY DEF PartsNext, parts
  <2> QED BY <2>1, SimilarityStep
<1> QED BY <1>1, <1>2, PTL DEF Parts

(* Both caches show what their keys name, for every instance of them.       *)
THEOREM HitsAreKeyed == Parts => []HitShowsWhatIsKeyed
<1>1. I!KeyedInv => I!HitShowsWhatIsKeyed
  <2> SUFFICES ASSUME I!KeyedInv, d # Nothing, ~f
               PROVE  /\ d.at.git /\ "head" \in d.said => d.of.head = d.at.head
                      /\ d.said = I!Commands =>
                           \A x \in I!Files \ I!Unseen(d.at) : d.of.files[x] = d.at.files[x]
    BY DEF I!HitShowsWhatIsKeyed
  <2>1. d.of \in I!WorkTrees /\ d.at \in I!WorkTrees /\ d.of.git = d.at.git
    BY DEF I!KeyedInv
  <2>2. PICK old, now : d.said \subseteq old \cap now /\ I!Key(d.of, old) = I!Key(d.at, now)
    BY DEF I!KeyedInv
  <2>3. /\ d.at.git /\ "head" \in old /\ "head" \in now => d.of.head = d.at.head
        /\ I!Commands \subseteq old /\ I!Commands \subseteq now =>
             \A x \in I!Files \ I!Unseen(d.at) : d.of.files[x] = d.at.files[x]
    BY <2>1, <2>2, KeyShows
  <2> QED BY <2>2, <2>3
<1>2. N!CacheInv => N!ReportIsOfItsKey /\ N!MissIsExplained
  BY DEF N!CacheInv
<1>3. (part = "inventory" => I!KeyedInv) /\ (part = "similarity" => N!CacheInv)
        => HitShowsWhatIsKeyed
  BY <1>1, <1>2 DEF HitShowsWhatIsKeyed
<1> QED BY <1>3, InventoryKeyed, SimilarityKeyed, PTL

-----------------------------------------------------------------------------
(* AnalysisCache.                                                           *)

LEMMA ResultsInit == PartsInit /\ part = "cache" => A!ResultsInv
<1> SUFFICES ASSUME A!Init PROVE A!ResultsInv
  BY DEF PartsInit
<1>1. /\ a \in [SourceFiles -> [content : Contents, stamp : {0}]] /\ b = 1
      /\ d = [x \in SourceFiles |-> None] /\ f = [q \in Processes |-> A!Idle] /\ g = None
  BY DEF A!Init
<1>2. DOMAIN a = SourceFiles /\ \A x \in SourceFiles : a[x].stamp = 0
  BY <1>1
<1>3. A!IndexIsKnown(d)
  BY <1>1 DEF A!IndexIsKnown
<1>4. DOMAIN f = Processes /\ \A q \in Processes : A!InHand(f[q])
  BY <1>1 DEF A!InHand, A!Idle
<1> QED BY <1>1, <1>2, <1>3, <1>4 DEF A!ResultsInv, A!ServedIsOfThisScan

(* As long as no source is edited, what is known stays known.               *)
LEMMA StaysKnown ==
  ASSUME UNCHANGED <<a, c>>
  PROVE  /\ \A x, identity : A!IsKnown(x, identity) => A!IsKnown(x, identity)'
         /\ \A m : A!IndexIsKnown(m) => A!IndexIsKnown(m)'
<1>1. ASSUME NEW x, NEW identity, A!IsKnown(x, identity) PROVE A!IsKnown(x, identity)'
  BY <1>1 DEF A!IsKnown
<1>2. ASSUME NEW m, A!IndexIsKnown(m) PROVE A!IndexIsKnown(m)'
  BY <1>1, <1>2 DEF A!IndexIsKnown
<1> QED BY <1>1, <1>2

LEMMA StaysInHand ==
  ASSUME UNCHANGED <<a, c>>, NEW s, A!InHand(s)
  PROVE  A!InHand(s)'
BY StaysKnown DEF A!InHand

(* A step of one scan, which leaves sources, clock and index alone.         *)
LEMMA ScanAdvances ==
  ASSUME A!ResultsInv, NEW q \in Processes, NEW t, f' = [f EXCEPT ![q] = t], A!InHand(t),
         UNCHANGED <<a, b, c>>, d' = d \/ A!IndexIsKnown(d'), A!ServedIsOfThisScan'
  PROVE  A!ResultsInv'
<1>1. DOMAIN f' = Processes /\ f'[q] = t /\ \A r \in Processes : r # q => f'[r] = f[r]
  BY DEF A!ResultsInv
<1>2. ASSUME NEW r \in Processes PROVE A!InHand(f[r])'
  <2>1. PICK s : s = f'[r]
    OBVIOUS
  <2>2. A!InHand(s)
    BY <1>1, <2>1 DEF A!ResultsInv
  <2>3. A!InHand(s)'
    BY <2>2, StaysInHand
  <2> QED BY <2>1, <2>3
<1>3. A!IndexIsKnown(d)'
  <2>1. PICK m : m = d'
    OBVIOUS
  <2>2. A!IndexIsKnown(m)
    BY <2>1 DEF A!ResultsInv
  <2> QED BY <2>1, <2>2, StaysKnown
<1> QED BY <1>1, <1>2, <1>3 DEF A!ResultsInv

(* A scan that is over, or dies.                                            *)
LEMMA ScanEnds ==
  ASSUME A!ResultsInv, NEW q \in Processes, f' = [f EXCEPT ![q] = A!Idle],
         UNCHANGED <<a, b, c, g>>, d' = d \/ A!IndexIsKnown(d')
  PROVE  A!ResultsInv'
<1>1. A!InHand(A!Idle)
  BY DEF A!InHand, A!Idle
<1>2. A!ServedIsOfThisScan'
  BY DEF A!ResultsInv, A!ServedIsOfThisScan
<1> QED BY <1>1, <1>2, ScanAdvances

LEMMA ServesThisScan ==
  ASSUME NEW s, NEW x, NEW result, A!Serve(s, x, result),
         x \notin c => result[2] = s.config /\ result[1] \in s.had[x], c' = c
  PROVE  A!ServedIsOfThisScan'
<1>1. g'.file = x /\ g'.result = result /\ g'.config = s.config /\ g'.had = s.had[x]
  BY DEF A!Serve
<1> QED BY <1>1 DEF A!ServedIsOfThisScan

LEMMA ResultsBegin ==
  ASSUME A!ResultsInv, NEW q \in Processes, A!Begin(q)
  PROVE  A!ResultsInv'
<1>1. PICK config \in RuleSets, full \in BOOLEAN :
        f' = [f EXCEPT ![q] =
                [pc |-> "look", config |-> config, full |-> full, index |-> None, dirty |-> FALSE,
                 left |-> SourceFiles, signature |-> None,
                 text |-> [x \in SourceFiles |-> a[x].content],
                 had |-> [x \in SourceFiles |-> {a[x].content}]]]
  BY DEF A!Begin
<1>2. PICK t : t = [pc |-> "look", config |-> config, full |-> full, index |-> None,
                    dirty |-> FALSE, left |-> SourceFiles, signature |-> None,
                    text |-> [x \in SourceFiles |-> a[x].content],
                    had |-> [x \in SourceFiles |-> {a[x].content}]]
  OBVIOUS
<1>3. UNCHANGED <<a, b, c, d, g>> /\ f' = [f EXCEPT ![q] = t]
  BY <1>1, <1>2 DEF A!Begin
<1>4. A!InHand(t)
  BY <1>2 DEF A!InHand
<1>5. A!ServedIsOfThisScan'
  BY <1>3 DEF A!ResultsInv, A!ServedIsOfThisScan
<1> QED BY <1>3, <1>4, <1>5, ScanAdvances

(* A hit has the content of its file: that of the text of a full scan, or   *)
(* what the metadata stand for.                                             *)
LEMMA ResultsLook ==
  ASSUME A!ResultsInv, NEW q \in Processes, A!Look(q)
  PROVE  A!ResultsInv'
<1>0. PICK s, x, loaded, signature, content, identity :
        /\ s = f[q] /\ x = (CHOOSE y \in s.left : TRUE)
        /\ loaded = (IF s.index = None THEN d ELSE s.index)
        /\ signature = (IF s.full THEN None ELSE a[x].stamp)
        /\ content = (IF s.full \/ A!Prior(s, x) = None THEN s.text[x] ELSE A!Prior(s, x).content)
        /\ identity = A!Identity(content, s.config, signature)
  OBVIOUS
<1>1. /\ s.pc = "look" /\ s.left # {} /\ A!InHand(s)
      /\ UNCHANGED <<a, b, c, d, e>>
      /\ IF A!Hits(s, x, identity)
         THEN /\ A!Serve(s, x, A!Result(A!Prior(s, x)))
              /\ f' = [f EXCEPT ![q].index = loaded, ![q].left = @ \ {x}]
         ELSE /\ f' = [f EXCEPT ![q].index = loaded, ![q].pc = "read", ![q].signature = signature]
              /\ g' = g
  BY <1>0 DEF A!Look, A!ResultsInv
<1>2. /\ DOMAIN s = {"pc", "config", "full", "index", "dirty", "left", "signature", "text", "had"}
      /\ s.left \subseteq SourceFiles /\ x \in s.left
      /\ DOMAIN s.text = SourceFiles /\ DOMAIN s.had = SourceFiles
      /\ \A y \in SourceFiles : s.text[y] \in s.had[y] /\ a[y].content \in s.had[y]
      /\ (s.index = None /\ ~s.dirty) \/ A!IndexIsKnown(s.index)
  BY <1>0, <1>1 DEF A!InHand
<1>3. A!IndexIsKnown(loaded) /\ A!Prior(s, x) = loaded[x]
  BY <1>0, <1>2 DEF A!ResultsInv, A!Prior
<1>4. DOMAIN f = Processes
  BY DEF A!ResultsInv
<1>5. CASE A!Hits(s, x, identity)
  <2>1. PICK t : t = [s EXCEPT !.index = loaded, !.left = s.left \ {x}]
    OBVIOUS
  <2>2. f' = [f EXCEPT ![q] = t]
    BY <1>0, <1>1, <1>4, <1>5, <2>1
  <2>3. /\ DOMAIN t = DOMAIN s /\ t.pc = s.pc /\ t.left = s.left \ {x} /\ t.index = loaded
        /\ t.text = s.text /\ t.had = s.had
    BY ONLY <1>2, <2>1
  <2>4. A!InHand(t)
    BY <1>1, <1>2, <1>3, <2>3 DEF A!InHand
  <2>5. A!Result(A!Prior(s, x)) = <<content, s.config>>
    BY <1>0, <1>5 DEF A!Hits, A!Result, A!Identity
  <2>6. x \notin c => content \in s.had[x]
    <3>1. CASE s.full \/ A!Prior(s, x) = None
      BY <1>0, <1>2, <3>1
    <3>2. CASE ~s.full /\ A!Prior(s, x) # None
      <4>1. content = loaded[x].content /\ loaded[x].signature = a[x].stamp /\ loaded[x] # None
        BY <1>0, <1>3, <1>5, <3>2 DEF A!Hits, A!Identity
      <4>2. x \notin c => content = a[x].content
        BY <1>2, <1>3, <4>1 DEF A!IndexIsKnown, A!IsKnown, A!ResultsInv
      <4> QED BY <1>2, <4>2
    <3> QED BY <3>1, <3>2
  <2>7. A!ServedIsOfThisScan'
    <3> DEFINE result == <<content, s.config>>
    <3>1. A!Serve(s, x, result)
      BY <1>1, <1>5, <2>5
    <3>2. x \notin c => result[2] = s.config /\ result[1] \in s.had[x]
      BY <2>6
    <3> HIDE DEF result
    <3> QED BY <1>1, <3>1, <3>2, ServesThisScan
  <2> QED BY <1>1, <2>2, <2>4, <2>7, ScanAdvances
<1>6. CASE ~A!Hits(s, x, identity)
  <2>1. PICK t : t = [s EXCEPT !.index = loaded, !.pc = "read", !.signature = signature]
    OBVIOUS
  <2>2. f' = [f EXCEPT ![q] = t]
    BY <1>0, <1>1, <1>4, <1>6, <2>1
  <2>3. /\ DOMAIN t = DOMAIN s /\ t.pc = "read" /\ t.left = s.left /\ t.index = loaded
        /\ t.text = s.text /\ t.had = s.had /\ t.full = s.full /\ t.signature = signature
    BY ONLY <1>2, <2>1
  <2>4. signature \in Nat => signature <= a[x].stamp
    BY <1>0, CachesAssumption DEF A!ResultsInv
  <2>5. A!InHand(t)
    BY <1>0, <1>1, <1>2, <1>3, <2>3, <2>4 DEF A!InHand
  <2>6. A!ServedIsOfThisScan'
    BY <1>1, <1>6 DEF A!ResultsInv, A!ServedIsOfThisScan
  <2> QED BY <1>1, <2>2, <2>5, <2>6, ScanAdvances
<1> QED BY <1>5, <1>6

LEMMA ResultsRead ==
  ASSUME A!ResultsInv, NEW q \in Processes, A!Read(q)
  PROVE  A!ResultsInv'
<1>0. PICK s, x, text :
        /\ s = f[q] /\ x = (CHOOSE y \in s.left : TRUE)
        /\ text = (IF s.full THEN s.text ELSE [s.text EXCEPT ![x] = a[x].content])
  OBVIOUS
<1>t. PICK t : t = [s EXCEPT !.pc = "store", !.text = text]
  OBVIOUS
<1>1. /\ s.pc = "read" /\ A!InHand(s) /\ UNCHANGED <<a, b, c, d, e, g>>
      /\ f' = [f EXCEPT ![q] = [s EXCEPT !.pc = "store", !.text = text]]
  BY <1>0 DEF A!Read, A!ResultsInv
<1>2. /\ DOMAIN s = {"pc", "config", "full", "index", "dirty", "left", "signature", "text", "had"}
      /\ s.left \subseteq SourceFiles /\ x \in s.left
      /\ DOMAIN s.text = SourceFiles /\ DOMAIN s.had = SourceFiles
      /\ \A y \in SourceFiles : s.text[y] \in s.had[y] /\ a[y].content \in s.had[y]
      /\ A!IndexIsKnown(s.index) /\ (s.full => s.signature = None)
      /\ s.signature \in Nat => s.signature <= a[x].stamp
  BY <1>0, <1>1 DEF A!InHand
<1>3. f' = [f EXCEPT ![q] = t]
  BY <1>1, <1>t
<1>4. /\ DOMAIN t = DOMAIN s /\ t.pc = "store" /\ t.left = s.left /\ t.index = s.index
      /\ t.text = text /\ t.had = s.had /\ t.full = s.full /\ t.signature = s.signature
      /\ t.config = s.config
  BY ONLY <1>t, <1>2
<1>5. /\ DOMAIN text = SourceFiles /\ \A y \in SourceFiles : text[y] \in s.had[y]
      /\ ~s.full => text[x] = a[x].content
  BY <1>0, <1>2
<1>6. A!IsKnown(x, A!Identity(text[x], s.config, s.signature))
  BY <1>2, <1>5, CachesAssumption DEF A!IsKnown, A!Identity
<1>7. A!InHand(t)
  BY <1>0, <1>2, <1>4, <1>5, <1>6 DEF A!InHand
<1>8. A!ServedIsOfThisScan'
  BY <1>1 DEF A!ResultsInv, A!ServedIsOfThisScan
<1> QED BY <1>1, <1>3, <1>7, <1>8, ScanAdvances

(* What is stored is known: its metadata were taken before its content.     *)
LEMMA ResultsStore ==
  ASSUME A!ResultsInv, NEW q \in Processes, A!Store(q)
  PROVE  A!ResultsInv'
<1>w. PICK written \in BOOLEAN :
        LET s == f[q]
            x == CHOOSE y \in s.left : TRUE
            identity == A!Identity(s.text[x], s.config, A!Signature(s, x))
            rows == IF written THEN [s.index EXCEPT ![x] = identity] ELSE s.index
        IN  f' = [f EXCEPT ![q] = [s EXCEPT !.pc = "look", !.left = s.left \ {x},
                                            !.index = rows, !.dirty = s.dirty \/ written]]
  BY DEF A!Store
<1>0. PICK s, x, identity :
        /\ s = f[q] /\ x = (CHOOSE y \in s.left : TRUE)
        /\ identity = A!Identity(s.text[x], s.config, A!Signature(s, x))
  OBVIOUS
<1>1. LET rows == IF written THEN [s.index EXCEPT ![x] = identity] ELSE s.index
      IN  f' = [f EXCEPT ![q] = [s EXCEPT !.pc = "look", !.left = s.left \ {x},
                                          !.index = rows, !.dirty = s.dirty \/ written]]
  BY <1>w, <1>0
<1>2. /\ s.pc = "store" /\ A!InHand(s) /\ UNCHANGED <<a, b, c, d>>
      /\ A!Serve(s, x, A!Result(identity))
  BY <1>0 DEF A!Store, A!ResultsInv
<1>3. /\ DOMAIN s = {"pc", "config", "full", "index", "dirty", "left", "signature", "text", "had"}
      /\ s.left \subseteq SourceFiles /\ x \in s.left
      /\ DOMAIN s.text = SourceFiles /\ DOMAIN s.had = SourceFiles
      /\ \A y \in SourceFiles : s.text[y] \in s.had[y] /\ a[y].content \in s.had[y]
      /\ A!IndexIsKnown(s.index) /\ A!IsKnown(x, identity)
  BY <1>0, <1>2 DEF A!InHand, A!Signature
<1>4. PICK rows, t :
        /\ rows = (IF written THEN [s.index EXCEPT ![x] = identity] ELSE s.index)
        /\ t = [s EXCEPT !.pc = "look", !.left = s.left \ {x}, !.index = rows,
                  !.dirty = s.dirty \/ written]
  OBVIOUS
<1>5. f' = [f EXCEPT ![q] = t]
  BY <1>1, <1>4
<1>6. /\ DOMAIN t = DOMAIN s /\ t.pc = "look" /\ t.left = s.left \ {x} /\ t.index = rows
      /\ t.text = s.text /\ t.had = s.had
  BY ONLY <1>3, <1>4
<1>7. A!IndexIsKnown(rows)
  BY <1>3, <1>4 DEF A!IndexIsKnown
<1>8. A!InHand(t)
  BY <1>3, <1>6, <1>7 DEF A!InHand
<1>9. A!ServedIsOfThisScan'
  <2>1. A!Result(identity)[1] = s.text[x] /\ A!Result(identity)[2] = s.config
    BY <1>0 DEF A!Result, A!Identity
  <2> QED BY <1>2, <1>3, <2>1, ServesThisScan
<1> QED BY <1>2, <1>5, <1>8, <1>9, ScanAdvances

(* Pruning removes rows and adds none.                                      *)
LEMMA ResultsPrune ==
  ASSUME A!ResultsInv, NEW q \in Processes, A!Prune(q)
  PROVE  A!ResultsInv'
<1>0. PICK s, gone, rows, t :
        /\ s = f[q]
        /\ LET kept == A!LastOf(e, MaxEntries)
           IN  gone = A!Entries \ {kept[y] : y \in DOMAIN kept}
        /\ rows = [x \in SourceFiles |->
                     IF s.index[x] # None /\ A!Entry(x, s.index[x]) \in gone
                     THEN None ELSE s.index[x]]
        /\ t = [s EXCEPT !.pc = "flush", !.index = rows]
  OBVIOUS
<1>1. /\ s.pc = "look" /\ s.left = {} /\ s.dirty /\ A!InHand(s) /\ UNCHANGED <<a, b, c, d, g>>
      /\ f' = [f EXCEPT ![q].pc = "flush", ![q].index = rows]
  BY <1>0 DEF A!Prune, A!ResultsInv
<1>2. /\ DOMAIN s = {"pc", "config", "full", "index", "dirty", "left", "signature", "text", "had"}
      /\ DOMAIN s.text = SourceFiles /\ DOMAIN s.had = SourceFiles
      /\ \A y \in SourceFiles : s.text[y] \in s.had[y] /\ a[y].content \in s.had[y]
      /\ A!IndexIsKnown(s.index)
  BY <1>1 DEF A!InHand
<1>3. f' = [f EXCEPT ![q] = t]
  BY <1>0, <1>1 DEF A!ResultsInv
<1>4. /\ DOMAIN t = DOMAIN s /\ t.pc = "flush" /\ t.left = s.left /\ t.index = rows
      /\ t.text = s.text /\ t.had = s.had
  BY ONLY <1>0, <1>2
<1>5. A!IndexIsKnown(rows)
  BY <1>0, <1>2 DEF A!IndexIsKnown
<1>6. A!InHand(t)
  BY <1>1, <1>2, <1>4, <1>5 DEF A!InHand
<1>7. A!ServedIsOfThisScan'
  BY <1>1 DEF A!ResultsInv, A!ServedIsOfThisScan
<1> QED BY <1>1, <1>3, <1>6, <1>7, ScanAdvances

(* After an edit the metadata are later than any that is known, or the file *)
(* is one whose metadata do not show it.                                    *)
LEMMA ResultsEdit ==
  ASSUME A!ResultsInv, NEW x \in SourceFiles, A!Edit(x)
  PROVE  A!ResultsInv'
<1>1. PICK v \in Contents \ {a[x].content} :
        /\ a' = [a EXCEPT ![x] = [content |-> v, stamp |-> b]]
        /\ f' = [q \in Processes |-> IF f[q].pc = "idle" THEN A!Idle
                                     ELSE [f[q] EXCEPT !.had[x] = @ \cup {v}]]
  BY DEF A!Edit
<1>2. /\ c' = (IF a[x].stamp = b THEN c \cup {x} ELSE c) /\ UNCHANGED <<b, d, g>>
  BY DEF A!Edit
<1>3. /\ DOMAIN a' = SourceFiles /\ a'[x].content = v /\ a'[x].stamp = b
      /\ \A y \in SourceFiles : y # x => a'[y] = a[y]
  BY <1>1 DEF A!ResultsInv
<1>4. /\ b \in Nat /\ \A y \in SourceFiles : a[y].stamp \in Nat /\ a[y].stamp <= b
  BY DEF A!ResultsInv
<1>5. \A y \in SourceFiles : a'[y].stamp \in Nat /\ a'[y].stamp <= b /\ a[y].stamp <= a'[y].stamp
  BY <1>3, <1>4
<1>6. ASSUME NEW y \in SourceFiles, NEW identity, A!IsKnown(y, identity)
      PROVE  A!IsKnown(y, identity)'
  BY <1>2, <1>3, <1>4, <1>6 DEF A!IsKnown
<1>7. \A m : A!IndexIsKnown(m) => A!IndexIsKnown(m)'
  BY <1>6 DEF A!IndexIsKnown
<1>8. ASSUME NEW q \in Processes PROVE A!InHand(f[q])'
  <2>0. PICK s, had, t :
          s = f[q] /\ had = [s.had EXCEPT ![x] = s.had[x] \cup {v}] /\ t = [s EXCEPT !.had = had]
    OBVIOUS
  <2>1. A!InHand(s)
    BY <2>0 DEF A!ResultsInv
  <2>2. CASE s.pc = "idle"
    BY <1>1, <2>0, <2>2 DEF A!InHand, A!Idle
  <2>3. CASE s.pc # "idle"
    <3>1. f'[q] = t
      BY <1>1, <2>0, <2>3
    <3>2. DOMAIN s = {"pc", "config", "full", "index", "dirty", "left", "signature", "text", "had"}
      BY <2>1, <2>3 DEF A!InHand
    <3>3. /\ DOMAIN t = DOMAIN s /\ t.pc = s.pc /\ t.left = s.left /\ t.index = s.index
          /\ t.text = s.text /\ t.had = had /\ t.full = s.full /\ t.signature = s.signature
          /\ t.config = s.config /\ t.dirty = s.dirty
      BY ONLY <2>0, <3>2
    <3>4. /\ DOMAIN had = SourceFiles
          /\ \A y \in SourceFiles : s.text[y] \in had[y] /\ a'[y].content \in had[y]
      BY <1>3, <2>0, <2>1, <2>3 DEF A!InHand
    <3>5. s.left \subseteq SourceFiles /\ DOMAIN s.text = SourceFiles
      BY <2>1, <2>3 DEF A!InHand
    <3>6. (s.index = None /\ s.pc = "look" /\ ~s.dirty) \/ A!IndexIsKnown(s.index)'
      BY <1>7, <2>1, <2>3 DEF A!InHand
    <3>7. /\ s.pc \in {"look", "read", "store", "flush"}
          /\ s.pc \in {"read", "store"} => s.left # {} /\ (s.full => s.signature = None)
      BY <2>1, <2>3 DEF A!InHand
    <3>8. PICK y : y = (CHOOSE z \in s.left : TRUE)
      OBVIOUS
    <3>9. s.pc = "read" /\ s.signature \in Nat => s.signature <= a'[y].stamp
      <4>1. s.pc = "read" /\ s.signature \in Nat => s.signature <= a[y].stamp /\ y \in SourceFiles
        BY <2>1, <2>3, <3>5, <3>7, <3>8 DEF A!InHand
      <4> QED BY <1>4, <1>5, <4>1
    <3>10. s.pc = "store" => A!IsKnown(y, A!Identity(s.text[y], s.config, s.signature))'
      <4>1. s.pc = "store" => A!IsKnown(y, A!Identity(s.text[y], s.config, s.signature)) /\ y \in SourceFiles
        BY <2>1, <2>3, <3>5, <3>7, <3>8 DEF A!InHand
      <4>2. PICK identity : identity = A!Identity(s.text[y], s.config, s.signature)
        OBVIOUS
      <4>3. s.pc = "store" => A!IsKnown(y, identity)'
        BY <1>6, <4>1, <4>2
      <4>4. A!Identity(s.text[y], s.config, s.signature)' = identity
        BY <4>2 DEF A!Identity
      <4> QED BY <4>3, <4>4 DEF A!IsKnown
    <3>11. A!InHand(t)'
      BY <2>3, <3>2, <3>3, <3>4, <3>5, <3>6, <3>7, <3>8, <3>9, <3>10 DEF A!InHand
    <3> QED BY <3>1, <3>11
  <2> QED BY <2>2, <2>3
<1>9. DOMAIN f' = Processes /\ A!ServedIsOfThisScan'
  BY <1>1, <1>2 DEF A!ResultsInv, A!ServedIsOfThisScan
<1>10. A!IndexIsKnown(d)'
  BY <1>2, <1>7 DEF A!ResultsInv
<1> QED BY <1>2, <1>3, <1>4, <1>5, <1>8, <1>9, <1>10 DEF A!ResultsInv

LEMMA ResultsStep ==
  ASSUME A!ResultsInv, A!Next \/ UNCHANGED <<a, b, c, d, e, f, g, h, i>>
  PROVE  A!ResultsInv'
<1>1. ASSUME NEW q \in Processes, A!Finish(q) \/ A!Die(q) PROVE A!ResultsInv'
  <2>1. f' = [f EXCEPT ![q] = A!Idle] /\ UNCHANGED <<a, b, c, d, g>>
    BY <1>1 DEF A!Finish, A!Die
  <2> QED BY <2>1, ScanEnds
<1>2. ASSUME NEW q \in Processes, A!Flush(q) PROVE A!ResultsInv'
  <2>1. /\ f' = [f EXCEPT ![q] = A!Idle] /\ UNCHANGED <<a, b, c, g>>
        /\ f[q].pc = "flush" /\ d' = f[q].index
    BY <1>2 DEF A!Flush
  <2>2. PICK m : m = d'
    OBVIOUS
  <2>3. A!IndexIsKnown(m)
    BY <2>1, <2>2 DEF A!ResultsInv, A!InHand
  <2> QED BY <2>1, <2>2, <2>3, ScanEnds
<1>3. CASE A!Tick
  <2>1. b' = b + 1 /\ UNCHANGED <<a, c, d, f, g>>
    BY <1>3 DEF A!Tick
  <2>2. b' \in Nat /\ \A x \in SourceFiles : a[x].stamp \in Nat /\ a[x].stamp <= b'
    BY <2>1 DEF A!ResultsInv
  <2>3. A!IndexIsKnown(d)'
    BY <2>1, StaysKnown DEF A!ResultsInv
  <2>4. \A q \in Processes : A!InHand(f[q])'
    BY <2>1, StaysInHand DEF A!ResultsInv
  <2> QED BY <2>1, <2>2, <2>3, <2>4 DEF A!ResultsInv, A!ServedIsOfThisScan
<1>4. CASE UNCHANGED <<a, b, c, d, e, f, g, h, i>>
  <2>1. A!IndexIsKnown(d)'
    BY <1>4, StaysKnown DEF A!ResultsInv
  <2>2. \A q \in Processes : A!InHand(f[q])'
    BY <1>4, StaysInHand DEF A!ResultsInv
  <2> QED BY <1>4, <2>1, <2>2 DEF A!ResultsInv, A!ServedIsOfThisScan
<1> QED BY <1>1, <1>2, <1>3, <1>4, ResultsBegin, ResultsLook, ResultsRead, ResultsStore,
        ResultsPrune, ResultsEdit DEF A!Next

(* For all scanners, files, rules and bounds, however scans, edits and      *)
(* deaths overlap: what indexes and scans hold is known of their files, and *)
(* a result is of the scan it is served to.                                 *)
THEOREM ResultsKnown == Parts => [](part = "cache" => A!ResultsInv)
<1>1. PartsInit => (part = "cache" => A!ResultsInv)
  BY ResultsInit
<1>2. (part = "cache" => A!ResultsInv) /\ [PartsNext]_parts => (part = "cache" => A!ResultsInv)'
  <2> SUFFICES ASSUME part' = "cache", part = "cache" => A!ResultsInv, [PartsNext]_parts
               PROVE  A!ResultsInv'
    OBVIOUS
  <2>1. part = "cache" /\ (A!Next \/ UNCHANGED <<a, b, c, d, e, f, g, h, i>>)
    BY DEF PartsNext, parts
  <2> QED BY <2>1, ResultsStep
<1> QED BY <1>1, <1>2, PTL DEF Parts

(* A result is of the rules and of a content of the scan it is served to.   *)
THEOREM ResultsServed == Parts => []ServedIsOfThisScan
<1>1. (part = "cache" => A!ResultsInv) => ServedIsOfThisScan
  BY DEF ServedIsOfThisScan, A!ResultsInv
<1> QED BY <1>1, ResultsKnown, PTL

-----------------------------------------------------------------------------
(* TaskWorkflow.                                                            *)

(* No violation is new in a changed file: there are no more than in the     *)
(* baseline, but for those that are waived.                                 *)
LEMMA NothingNewIsNotWorse ==
  ASSUME NEW base, NEW com, T!ScannedAs(base, TaskPaths), T!ScannedAs(com, TaskPaths),
         ~com.findings.ambiguous, T!Eligible(com.config),
         T!NewEnforced(base.findings, com.findings, T!ChangedPaths(base.tree, com.tree),
                       com.config) = {}
  PROVE  T!NotWorse(com.tree, com.scanned, base, base.scanned, com.config.waived)
<1> SUFFICES ASSUME NEW file \in TaskPaths, com.tree[file] # base.tree[file],
                    NEW line \in DOMAIN T!Violations(com.tree, com.scanned)[file],
                    <<file, line>> \notin com.config.waived
             PROVE  line <= Len(T!Violations(base.tree, base.scanned)[file])
  BY DEF T!NotWorse
<1>1. PICK now : now = T!Violations(com.tree, com.scanned)
  OBVIOUS
<1>2. PICK then : then = T!Violations(base.tree, base.scanned)
  OBVIOUS
<1>3. now = T!Scanned(com.tree, com.scanned, TaskPaths) /\ then = T!Scanned(base.tree, base.scanned, TaskPaths)
  BY <1>1, <1>2 DEF T!Scanned, T!Violations
<1>4. com.findings = T!Normalized(now, TRUE) /\ base.findings = T!Normalized(then, TRUE)
  BY <1>3 DEF T!ScannedAs
<1>5. ~T!Repeated(now[file], line)
  BY <1>1, <1>4 DEF T!Normalized, T!Ambiguous
<1>6. <<file, line>> \in T!Occurrences(now)
  <2>1. <<file, line>> \in {<<file, k>> : k \in {x \in DOMAIN now[file] : ~T!Repeated(now[file], x)}}
    BY <1>1, <1>5
  <2> QED BY <2>1 DEF T!Occurrences
<1>7. <<file, line>> \in T!Occurrences(then)
  <2>1. file \in T!ChangedPaths(base.tree, com.tree)
    BY DEF T!ChangedPaths
  <2>2. <<file, line>> \in com.findings.found
    BY <1>4, <1>6 DEF T!Normalized
  <2>3. <<file, line>> \in base.findings.found
    BY <2>1, <2>2 DEF T!NewEnforced, T!Waived
  <2> QED BY <1>4, <2>3 DEF T!Normalized
<1>8. line \in DOMAIN then[file]
  BY <1>7 DEF T!Occurrences
<1>9. then[file] \in Seq(Nat)
  <2>1. base.scanned.reports \subseteq DOMAIN SpotsOf
    BY TaskAssumption DEF T!ScannedAs
  <2>2. <<>> \in Seq(Nat)
    OBVIOUS
  <2> QED BY <1>2, <2>1, <2>2, TaskAssumption DEF T!Violations
<1> QED BY <1>2, <1>8, <1>9

(* A record stays whole while the baselines and the checks it names stay.   *)
LEMMA RecordKept ==
  ASSUME NEW row, T!RecordFits(row),
         \A k \in DOMAIN d : /\ k \in DOMAIN d' /\ d'[k].source = d[k].source
                             /\ d'[k].supersedes = d[k].supersedes,
         \A k \in DOMAIN e : k \in DOMAIN e' /\ e'[k].baseline = e[k].baseline
  PROVE  T!RecordFits(row)'
<1>1. PICK line, listed : line = row.lineage /\ listed = row.checks
  OBVIOUS
<1>2. /\ DOMAIN row = {"baseline", "lineage", "checks"} /\ line \in Seq(DOMAIN d) /\ line # <<>>
      /\ listed \in Seq(DOMAIN e) /\ row.baseline = line[Len(line)]
  BY <1>1 DEF T!RecordFits, T!Whole
<1>3. \A k \in DOMAIN line : /\ line[k] \in DOMAIN d
                             /\ d[line[k]].source = d[line[1]].source
                             /\ d[line[k]].supersedes = (IF k = 1 THEN 0 ELSE line[k - 1])
  BY <1>1 DEF T!RecordFits, T!Whole
<1>4. \A k \in DOMAIN listed : listed[k] \in DOMAIN e /\ e[listed[k]].baseline \in T!Range(line)
  BY <1>1, <1>2 DEF T!RecordFits, T!Whole
<1>5. line \in Seq(DOMAIN d') /\ listed \in Seq(DOMAIN e')
  BY <1>2
<1>6. 1 \in DOMAIN line
  BY <1>2
<1>7. \A k \in DOMAIN line : /\ line[k] \in DOMAIN d'
                             /\ d'[line[k]].source = d'[line[1]].source
                             /\ d'[line[k]].supersedes = (IF k = 1 THEN 0 ELSE line[k - 1])
  BY <1>3, <1>6
<1>8. \A k \in DOMAIN listed : e'[listed[k]].baseline \in T!Range(line)
  BY <1>4
<1>9. T!Whole(row)'
  BY <1>1, <1>2, <1>7, <1>8 DEF T!Whole
<1> QED BY <1>1, <1>2, <1>5, <1>9 DEF T!RecordFits

(* The baseline of a record is one that was completed.                      *)
LEMMA RecordsBaseline ==
  ASSUME NEW row, T!RecordFits(row)
  PROVE  /\ row.baseline \in DOMAIN d /\ row.baseline = row.lineage[Len(row.lineage)]
         /\ Len(row.lineage) \in Nat \ {0} /\ row.baseline \in T!Range(row.lineage)
         /\ d[row.baseline].source = d[row.lineage[1]].source
<1>1. PICK line : line = row.lineage
  OBVIOUS
<1>2. line \in Seq(DOMAIN d) /\ line # <<>> /\ row.baseline = line[Len(line)]
  BY <1>1 DEF T!RecordFits, T!Whole
<1>3. Len(line) \in Nat \ {0} /\ Len(line) \in DOMAIN line /\ row.baseline = line[Len(line)]
  BY <1>2
<1>4. line[Len(line)] \in DOMAIN d
  BY <1>2, <1>3
<1>5. d[line[Len(line)]].source = d[line[1]].source
  BY <1>1, <1>3 DEF T!RecordFits, T!Whole
<1> QED BY <1>1, <1>3, <1>4, <1>5 DEF T!Range

(* What a command holds stays as well.                                      *)
LEMMA HandKept ==
  ASSUME NEW phase, NEW com, T!InHand(phase, com),
         \A k \in DOMAIN d : /\ k \in DOMAIN d' /\ d'[k].source = d[k].source
                             /\ d'[k].supersedes = d[k].supersedes,
         \A k \in DOMAIN e : k \in DOMAIN e' /\ e'[k].baseline = e[k].baseline
  PROVE  T!InHand(phase, com)'
<1>1. ASSUME T!CommandFits(com) PROVE T!CommandFits(com)'
  <2>1. ASSUME com.command # "start" PROVE T!RecordFits(com.record)' /\ com.follows \in DOMAIN d
    <3>1. PICK row : row = com.record
      OBVIOUS
    <3>2. T!RecordFits(row)
      BY <1>1, <2>1, <3>1 DEF T!CommandFits
    <3>3. T!RecordFits(row)'
      BY <3>2, RecordKept
    <3> QED BY <1>1, <2>1, <3>1, <3>2, <3>3, RecordsBaseline DEF T!CommandFits
  <2> QED BY <1>1, <2>1 DEF T!CommandFits
<1>2. ASSUME T!RecordFits(com.record) PROVE T!RecordFits(com.record)'
  <2>1. PICK row : row = com.record
    OBVIOUS
  <2> QED BY <1>2, <2>1, RecordKept
<1>3. T!CopyFits(com) => T!CopyFits(com)'
  BY DEF T!CopyFits, T!Judges
<1>4. T!ScanFits(com) => T!ScanFits(com)'
  BY DEF T!ScanFits, T!ScannedAs
<1>5. T!GateFits(com) => T!GateFits(com)'
  BY DEF T!GateFits
<1> QED BY <1>1, <1>2, <1>3, <1>4, <1>5 DEF T!InHand

Extends ==
  /\ \A k \in DOMAIN d : /\ k \in DOMAIN d' /\ d'[k].source = d[k].source
                         /\ d'[k].supersedes = d[k].supersedes
  /\ \A k \in DOMAIN e : k \in DOMAIN e' /\ e'[k].baseline = e[k].baseline

(* One process goes on, the others hold what they held.                     *)
LEMMA HandsKept ==
  ASSUME T!TaskInv, NEW proc \in Workers, NEW phase, NEW com, T!Go(proc, phase, com),
         T!InHand(phase, com)', Extends
  PROVE  DOMAIN f' = Workers /\ DOMAIN g' = Workers /\ (\A q \in Workers : T!InHand(f[q], g[q]))'
<1>1. /\ f' = [f EXCEPT ![proc] = phase] /\ g' = [g EXCEPT ![proc] = com]
      /\ DOMAIN f = Workers /\ DOMAIN g = Workers
  BY DEF T!Go, T!TaskInv
<1>2. \A q \in Workers : f'[q] = (IF q = proc THEN phase ELSE f[q]) /\ g'[q] = (IF q = proc THEN com ELSE g[q])
  BY <1>1
<1>3. ASSUME NEW q \in Workers, NEW at, at = f'[q], NEW held, held = g'[q]
      PROVE  T!InHand(at, held)'
  <2>1. CASE q = proc
    BY <1>2, <1>3, <2>1
  <2>2. CASE q # proc
    <3>1. T!InHand(at, held)
      BY <1>2, <1>3, <2>2 DEF T!TaskInv
    <3> QED BY <3>1, HandKept DEF Extends
  <2> QED BY <2>1, <2>2
<1> QED BY <1>1, <1>3

LEMMA TaskMoves ==
  ASSUME T!TaskInv, NEW proc \in Workers, NEW phase, NEW com, T!Go(proc, phase, com),
         UNCHANGED <<a, c, d, e>>, T!InHand(phase, com)
  PROVE  T!TaskInv'
<1>1. Extends
  BY DEF Extends
<1>2. T!InHand(phase, com)'
  BY <1>1, HandKept DEF Extends
<1>3. DOMAIN f' = Workers /\ DOMAIN g' = Workers /\ (\A q \in Workers : T!InHand(f[q], g[q]))'
  BY <1>1, <1>2, HandsKept
<1>4. a' = a /\ c' = c /\ d' = d /\ e' = e
  OBVIOUS
<1>5. (\A k \in DOMAIN d : T!BaselineFits(d[k]))'
  BY <1>4 DEF T!TaskInv, T!BaselineFits, T!ScannedAs
<1>6. (c \notin {Nothing, Torn} => T!RecordFits(c))'
  BY <1>4 DEF T!TaskInv, T!RecordFits, T!Whole
<1>7. T!PassIsEarned' /\ T!LineageIsWhole'
  BY <1>4 DEF T!TaskInv, T!PassIsEarned, T!LineageIsWhole, T!Whole
<1> QED BY <1>3, <1>4, <1>5, <1>6, <1>7 DEF T!TaskInv, T!Judges

(* Baselines that keep what they attest keep the passes earned.             *)
LEMMA PassKept ==
  ASSUME T!TaskInv, e' = e,
         \A k \in DOMAIN d : /\ d'[k].evidence = d[k].evidence /\ d'[k].tree = d[k].tree
                             /\ d'[k].scanned = d[k].scanned /\ d'[k].findings = d[k].findings
  PROVE  T!PassIsEarned'
<1> SUFFICES ASSUME NEW n \in DOMAIN e, NEW done, done = e[n], done.status = "pass",
                    NEW was, was = d'[done.baseline]
             PROVE  /\ was.evidence.policy = T!Prevention(done.config)
                    /\ was.evidence.toolchain = done.toolchain
                    /\ done.config.gate = "required" => done.gate = "passed"
                    /\ T!Eligible(done.config) /\ done.findings.complete =>
                         T!NotWorse(done.tree, done.scanned, was, was.scanned, done.config.waived)
                    /\ done.findings.complete
                         \/ (~done.config.covered /\ was.findings.found \subseteq done.findings.found)
  BY DEF T!PassIsEarned
<1>1. PICK before : before = d[done.baseline]
  OBVIOUS
<1>2. done.baseline \in DOMAIN d
  BY DEF T!TaskInv
<1>3. /\ was.evidence = before.evidence /\ was.tree = before.tree
      /\ was.scanned = before.scanned /\ was.findings = before.findings
  BY <1>1, <1>2
<1>4. /\ before.evidence.policy = T!Prevention(done.config)
      /\ before.evidence.toolchain = done.toolchain
      /\ done.config.gate = "required" => done.gate = "passed"
      /\ T!Eligible(done.config) /\ done.findings.complete =>
           T!NotWorse(done.tree, done.scanned, before, before.scanned, done.config.waived)
      /\ done.findings.complete
           \/ (~done.config.covered /\ before.findings.found \subseteq done.findings.found)
  BY <1>1 DEF T!TaskInv, T!PassIsEarned
<1>5. ASSUME T!NotWorse(done.tree, done.scanned, before, before.scanned, done.config.waived)
      PROVE  T!NotWorse(done.tree, done.scanned, was, was.scanned, done.config.waived)
  BY <1>3, <1>5 DEF T!NotWorse
<1> QED BY <1>3, <1>4, <1>5

LEMMA TaskBegins ==
  ASSUME T!TaskInv, NEW proc \in Workers, T!Command(proc)
  PROVE  T!TaskInv'
<1> DEFINE Begun(command, from, source, follows) ==
      [command |-> command, record |-> from, source |-> source,
       follows |-> follows, config |-> Nothing, tree |-> Nothing,
       entries |-> <<>>, scanned |-> Nothing, findings |-> Nothing,
       toolchain |-> Nothing, gate |-> Nothing]
<1>1. ASSUME NEW command \in {"start", "rebaseline", "check"}, NEW from, NEW source, NEW follows,
             T!Begin(proc, command, from, source, follows),
             command = "start" => follows = 0,
             command # "start" => /\ T!RecordFits(from) /\ follows = from.baseline
                                  /\ source = d[follows].source
      PROVE  T!TaskInv'
  <2>1. PICK com : com = Begun(command, from, source, follows)
    OBVIOUS
  <2>2. T!Go(proc, "config", com) /\ UNCHANGED <<a, c, d, e>>
    BY <1>1, <2>1 DEF T!Begin
  <2>3. T!CommandFits(com)
    BY <1>1, <2>1 DEF T!CommandFits
  <2>4. T!InHand("config", com)
    BY <2>3 DEF T!InHand, T!Phases
  <2> HIDE DEF Begun
  <2> QED BY <2>2, <2>4, TaskMoves
<1>2. CASE T!Start(proc)
  BY <1>1, <1>2 DEF T!Start
<1>3. ASSUME T!Usable(c) PROVE T!RecordFits(c)
  BY <1>3 DEF T!TaskInv, T!Usable
<1>4. CASE T!Rebaseline(proc)
  BY <1>1, <1>3, <1>4 DEF T!Rebaseline
<1>5. CASE T!Check(proc)
  BY <1>1, <1>3, <1>5 DEF T!Check
<1> QED BY <1>2, <1>4, <1>5 DEF T!Command

LEMMA TaskReadsConfig ==
  ASSUME T!TaskInv, NEW proc \in Workers, T!ReadConfig(proc)
  PROVE  T!TaskInv'
<1>1. PICK com, rules : com = g[proc] /\ rules = a[ConfigName]
  OBVIOUS
<1>2. T!CommandFits(com)
  BY <1>1 DEF T!TaskInv, T!ReadConfig, T!InHand, T!Phases
<1>3. UNCHANGED <<a, c, d, e>>
  BY DEF T!ReadConfig
<1>4. CASE T!Done(proc)
  <2>1. T!InHand("idle", Nothing)
    BY DEF T!InHand, T!Phases
  <2> QED BY <1>3, <1>4, <2>1, TaskMoves DEF T!Done
<1>5. CASE T!Go(proc, "snapshot", [com EXCEPT !.config = rules])
  <2>1. PICK new : new = [com EXCEPT !.config = rules]
    OBVIOUS
  <2>2. T!CommandFits(new)
    <3>1. /\ DOMAIN new = DOMAIN com /\ new.command = com.command /\ new.follows = com.follows
          /\ new.record = com.record /\ new.source = com.source
      BY <1>2, <2>1 DEF T!CommandFits
    <3> QED BY <1>2, <3>1 DEF T!CommandFits
  <2>3. T!InHand("snapshot", new)
    BY <2>2 DEF T!InHand, T!Phases
  <2> QED BY <1>3, <1>5, <2>1, <2>3, TaskMoves
<1> QED BY <1>1, <1>4, <1>5 DEF T!ReadConfig

(* A command copies what is in hand, and changes the rest of it.            *)
LEMMA CommandGoesOn ==
  ASSUME NEW com, T!CommandFits(com), NEW new, DOMAIN new = DOMAIN com,
         new.command = com.command, new.follows = com.follows, new.record = com.record,
         new.source = com.source
  PROVE  T!CommandFits(new)
BY DEF T!CommandFits

LEMMA TaskSnapshots ==
  ASSUME T!TaskInv, NEW proc \in Workers, T!Snapshot(proc)
  PROVE  T!TaskInv'
<1>1. PICK com : com = g[proc]
  OBVIOUS
<1>2. T!CommandFits(com)
  BY <1>1 DEF T!TaskInv, T!Snapshot, T!InHand, T!Phases
<1>3. UNCHANGED <<a, c, d, e>>
  BY DEF T!Snapshot
<1>4. CASE T!Done(proc)
  <2>1. T!InHand("idle", Nothing)
    BY DEF T!InHand, T!Phases
  <2> QED BY <1>3, <1>4, <2>1, TaskMoves DEF T!Done
<1>5. ASSUME NEW tree, NEW entries, ConfigName \in DOMAIN tree, tree[ConfigName] \in T!Judges,
             T!Go(proc, "copy", [com EXCEPT !.tree = tree, !.entries = entries])
      PROVE  T!TaskInv'
  <2>1. PICK new : new = [com EXCEPT !.tree = tree, !.entries = entries]
    OBVIOUS
  <2>2. /\ DOMAIN new = DOMAIN com /\ new.command = com.command /\ new.follows = com.follows
        /\ new.record = com.record /\ new.source = com.source /\ new.tree = tree
    BY <1>2, <2>1 DEF T!CommandFits
  <2>3. T!CommandFits(new)
    BY <1>2, <2>2, CommandGoesOn
  <2>4. T!CopyFits(new)
    BY <1>5, <2>2 DEF T!CopyFits
  <2>5. T!InHand("copy", new)
    BY <2>3, <2>4 DEF T!InHand, T!Phases
  <2> QED BY <1>3, <1>5, <2>1, <2>5, TaskMoves
<1>6. ConfigName \in DOMAIN a /\ a[ConfigName] \in T!Judges
  BY DEF T!TaskInv
<1>7. ConfigName \in DOMAIN CommitOfTarget /\ CommitOfTarget[ConfigName] \in T!Judges
  BY TaskAssumption DEF T!Judges
<1>8. ConfigName \in DOMAIN T!Merged /\ T!Merged[ConfigName] \in T!Judges
  BY TaskAssumption DEF T!Merged, T!Judges
<1>9. PICK rest : rest = T!SelectSeq(EntryOrder, T!Dirty)
  OBVIOUS
<1> QED BY <1>1, <1>4, <1>5, <1>6, <1>7, <1>8 DEF T!Snapshot

LEMMA TaskCopies ==
  ASSUME T!TaskInv, NEW proc \in Workers, T!CopyEntry(proc)
  PROVE  T!TaskInv'
<1>1. PICK com, next : com = g[proc] /\ next = com.entries[1]
  OBVIOUS
<1>2. T!CommandFits(com) /\ T!CopyFits(com)
  BY <1>1 DEF T!TaskInv, T!CopyEntry, T!InHand, T!Phases
<1>3. UNCHANGED <<a, c, d, e>>
  BY DEF T!CopyEntry
<1>4. PICK new : new = [com EXCEPT !.tree[next] = a[next], !.entries = Tail(@)]
  OBVIOUS
<1>5. T!Go(proc, "copy", new)
  BY <1>1, <1>4 DEF T!CopyEntry
<1>6. /\ DOMAIN new = DOMAIN com /\ new.command = com.command /\ new.follows = com.follows
      /\ new.record = com.record /\ new.source = com.source
      /\ new.tree = [com.tree EXCEPT ![next] = a[next]]
  BY <1>2, <1>4 DEF T!CommandFits
<1>7. T!CopyFits(new)
  BY <1>2, <1>6 DEF T!CopyFits, T!TaskInv
<1>8. T!InHand("copy", new)
  BY <1>2, <1>6, <1>7, CommandGoesOn DEF T!InHand, T!Phases
<1> QED BY <1>3, <1>5, <1>8, TaskMoves

LEMMA TaskAnalyzes ==
  ASSUME T!TaskInv, NEW proc \in Workers, T!Analyze(proc)
  PROVE  T!TaskInv'
<1>1. PICK com : com = g[proc]
  OBVIOUS
<1>2. T!CommandFits(com) /\ T!CopyFits(com)
  BY <1>1 DEF T!TaskInv, T!Analyze, T!InHand, T!Phases
<1>3. UNCHANGED <<a, c, d, e>>
  BY DEF T!Analyze
<1>4. PICK rules : rules = IF com.source = "revision" /\ com.command # "check"
                           THEN a[ConfigName] ELSE com.tree[ConfigName]
  OBVIOUS
<1>5. PICK seen \in IF com.command = "check" THEN SUBSET TaskPaths ELSE {TaskPaths} :
        T!Go(proc, "readiness",
             [com EXCEPT !.scanned = rules,
                         !.findings = T!Normalized(T!Scanned(com.tree, rules, seen), seen = TaskPaths)])
  BY <1>1, <1>4 DEF T!Analyze
<1>6. PICK found : found = T!Normalized(T!Scanned(com.tree, rules, seen), seen = TaskPaths)
  OBVIOUS
<1>7. PICK new : new = [com EXCEPT !.scanned = rules, !.findings = found]
  OBVIOUS
<1>8. /\ DOMAIN new = DOMAIN com /\ new.command = com.command /\ new.follows = com.follows
      /\ new.record = com.record /\ new.source = com.source /\ new.tree = com.tree
      /\ new.scanned = rules /\ new.findings = found
  BY <1>2, <1>7 DEF T!CommandFits
<1>9. rules \in T!Judges
  BY <1>2, <1>4 DEF T!CopyFits, T!TaskInv
<1>10. T!ScannedAs(new, seen)
  BY <1>6, <1>8, <1>9 DEF T!ScannedAs
<1>11. T!ScanFits(new)
  <2>1. seen \in SUBSET TaskPaths /\ (new.command # "check" => seen = TaskPaths)
    BY <1>5, <1>8
  <2> QED BY <1>10, <2>1 DEF T!ScanFits
<1>12. T!InHand("readiness", new)
  BY <1>2, <1>8, <1>11, CommandGoesOn DEF T!InHand, T!Phases
<1>13. T!Go(proc, "readiness", new)
  BY <1>5, <1>6, <1>7
<1> QED BY <1>3, <1>12, <1>13, TaskMoves

LEMMA TaskMeasures ==
  ASSUME T!TaskInv, NEW proc \in Workers, T!Readiness(proc)
  PROVE  T!TaskInv'
<1>1. PICK com : com = g[proc]
  OBVIOUS
<1>2. T!CommandFits(com) /\ T!ScanFits(com)
  BY <1>1 DEF T!TaskInv, T!Readiness, T!InHand, T!Phases
<1>3. UNCHANGED <<a, c, d, e>>
  BY DEF T!Readiness
<1>4. PICK gate \in IF T!GateState(com.config) = "certified" /\ com.command = "check"
                    THEN T!GateEnds ELSE {"not run"} :
        T!Go(proc, "evidence", [com EXCEPT !.toolchain = T!Toolchain(com.config), !.gate = gate])
  BY <1>1 DEF T!Readiness
<1>5. PICK new : new = [com EXCEPT !.toolchain = T!Toolchain(com.config), !.gate = gate]
  OBVIOUS
<1>6. /\ DOMAIN new = DOMAIN com /\ new.command = com.command /\ new.follows = com.follows
      /\ new.record = com.record /\ new.source = com.source /\ new.tree = com.tree
      /\ new.scanned = com.scanned /\ new.findings = com.findings /\ new.config = com.config
      /\ new.toolchain = T!Toolchain(com.config) /\ new.gate = gate
  BY <1>2, <1>5 DEF T!CommandFits
<1>7. T!ScanFits(new)
  BY <1>2, <1>6 DEF T!ScanFits, T!ScannedAs
<1>8. T!GateFits(new)
  <2>1. SUFFICES ASSUME com.command = "check", com.config.gate = "required",
                        T!Toolchain(com.config)[2] = "certified"
                 PROVE  gate \in T!GateEnds
    BY <1>6 DEF T!GateFits
  <2>2. T!GateState(com.config) = "certified"
    BY <2>1 DEF T!Toolchain
  <2> QED BY <1>4, <2>1, <2>2
<1>9. T!InHand("evidence", new)
  BY <1>2, <1>6, <1>7, <1>8, CommandGoesOn DEF T!InHand, T!Phases
<1>10. T!Go(proc, "evidence", new)
  BY <1>4, <1>5
<1> QED BY <1>3, <1>9, <1>10, TaskMoves

LEMMA AppendedRows ==
  ASSUME NEW rows, rows \in Seq({rows[k] : k \in DOMAIN rows}), NEW last, NEW more,
         more = Append(rows, last)
  PROVE  /\ more \in Seq({more[k] : k \in DOMAIN more}) /\ Len(more) = Len(rows) + 1
         /\ DOMAIN rows \subseteq DOMAIN more /\ Len(rows) + 1 \in DOMAIN more
         /\ more[Len(rows) + 1] = last /\ \A k \in DOMAIN rows : more[k] = rows[k]
         /\ \A k \in DOMAIN more : k \in DOMAIN rows \/ k = Len(rows) + 1
<1>1. Len(rows) \in Nat /\ DOMAIN rows = 1 .. Len(rows)
  OBVIOUS
<1>2. /\ Len(more) = Len(rows) + 1 /\ DOMAIN more = 1 .. (Len(rows) + 1)
      /\ more[Len(rows) + 1] = last /\ \A k \in DOMAIN rows : more[k] = rows[k]
  OBVIOUS
<1>3. PICK set : set = {more[k] : k \in DOMAIN more}
  OBVIOUS
<1>4. \A k \in DOMAIN rows : rows[k] \in set
  BY <1>1, <1>2, <1>3
<1>5. rows \in Seq(set)
  BY <1>1, <1>4
<1>6. last \in set
  BY <1>1, <1>2, <1>3
<1>7. more \in Seq(set)
  BY <1>5, <1>6
<1> QED BY <1>1, <1>2, <1>3, <1>7

GoesOn(longer, line, run) ==
  /\ Len(line) \in Nat /\ DOMAIN line = 1 .. Len(line)
  /\ Len(longer) = Len(line) + 1 /\ DOMAIN longer = 1 .. (Len(line) + 1)
  /\ longer[Len(line) + 1] = run /\ \A k \in DOMAIN line : longer[k] = line[k]

LEMMA AppendedTo ==
  ASSUME NEW set, NEW line \in Seq(set), NEW run \in set, NEW longer, longer = Append(line, run)
  PROVE  longer \in Seq(set) /\ longer # <<>> /\ GoesOn(longer, line, run)
BY DEF GoesOn

(* The record of a new baseline: its lineage goes on to it.                 *)
LEMMA LineageGoesOn ==
  ASSUME NEW row, T!RecordFits(row), NEW last, d' = Append(d, last), e' = e,
         d \in Seq({d[k] : k \in DOMAIN d}),
         last.source = d[row.baseline].source, last.supersedes = row.baseline,
         NEW new, new = [baseline |-> Len(d) + 1, lineage |-> Append(row.lineage, Len(d) + 1),
                         checks |-> row.checks]
  PROVE  T!RecordFits(new)'
<1>1. /\ DOMAIN d \subseteq DOMAIN d' /\ Len(d) + 1 \in DOMAIN d' /\ d'[Len(d) + 1] = last
      /\ \A k \in DOMAIN d : d'[k] = d[k]
  BY AppendedRows
<1>2. PICK run, line, longer, listed :
        /\ run = Len(d) + 1 /\ line = row.lineage /\ listed = row.checks
        /\ longer = Append(line, run)
  OBVIOUS
<1>3. /\ line \in Seq(DOMAIN d) /\ line # <<>> /\ listed \in Seq(DOMAIN e)
      /\ row.baseline = line[Len(line)]
  BY <1>2 DEF T!RecordFits, T!Whole
<1>4. \A k \in DOMAIN line : /\ line[k] \in DOMAIN d
                             /\ d[line[k]].source = d[line[1]].source
                             /\ d[line[k]].supersedes = (IF k = 1 THEN 0 ELSE line[k - 1])
  BY <1>2 DEF T!RecordFits, T!Whole
<1>5. \A k \in DOMAIN listed : listed[k] \in DOMAIN e /\ e[listed[k]].baseline \in T!Range(line)
  BY <1>2, <1>3 DEF T!RecordFits, T!Whole
<1>6. PICK all : all = DOMAIN d'
  OBVIOUS
<1>14. line \in Seq(all) /\ run \in all
  <2>1. run \in all
    BY <1>1, <1>2, <1>6
  <2>2. DOMAIN d \subseteq all
    BY <1>1, <1>6
  <2> QED BY <1>3, <2>1, <2>2
<1>15. longer \in Seq(all) /\ longer # <<>> /\ GoesOn(longer, line, run)
  BY <1>2, <1>14, AppendedTo
<1>16. PICK size : size = Len(line)
  OBVIOUS
<1>13. /\ size \in Nat \ {0} /\ DOMAIN line = 1 .. size /\ row.baseline = line[size]
       /\ Len(longer) = size + 1 /\ DOMAIN longer = 1 .. (size + 1)
       /\ longer[size + 1] = run /\ \A k \in DOMAIN line : longer[k] = line[k]
  <2>1. Len(line) # 0
    BY <1>3
  <2> QED BY <1>3, <1>15, <1>16, <2>1 DEF GoesOn
<1>7. /\ new.baseline = run /\ new.lineage = longer /\ new.checks = listed
      /\ DOMAIN new = {"baseline", "lineage", "checks"}
  BY <1>2
<1>8. longer \in Seq(DOMAIN d') /\ longer # <<>>
  BY <1>6, <1>15
<1>9. longer[Len(longer)] = run
  BY <1>13
<1>10. ASSUME NEW k \in DOMAIN longer
       PROVE  /\ longer[k] \in DOMAIN d'
              /\ d'[longer[k]].source = d'[longer[1]].source
              /\ d'[longer[k]].supersedes = (IF k = 1 THEN 0 ELSE longer[k - 1])
  <2>0. 1 \in DOMAIN line
    BY <1>13
  <2>1. longer[1] = line[1] /\ d'[longer[1]] = d[line[1]]
    BY <1>1, <1>4, <1>13, <2>0
  <2>2. CASE k \in DOMAIN line
    <3>1. longer[k] = line[k] /\ d'[longer[k]] = d[line[k]] /\ longer[k] \in DOMAIN d'
      BY <1>1, <1>4, <1>13, <2>2
    <3>2. k # 1 => longer[k - 1] = line[k - 1]
      <4>1. k # 1 => k - 1 \in DOMAIN line
        BY <1>13, <2>2
      <4> QED BY <1>13, <4>1
    <3> QED BY <1>4, <2>1, <2>2, <3>1, <3>2
  <2>3. CASE k = size + 1
    <3>1. longer[k] = run /\ run \in DOMAIN d' /\ d'[run] = last
      BY <1>1, <1>2, <1>13, <2>3
    <3>2. k # 1 /\ k - 1 = size /\ size \in DOMAIN line
      BY <1>13, <2>3
    <3>3. longer[k - 1] = row.baseline
      BY <1>13, <3>2
    <3>4. d[row.baseline].source = d[line[1]].source
      BY <1>4, <1>13, <3>2
    <3> QED BY <2>1, <3>1, <3>2, <3>3, <3>4
  <2>4. k \in DOMAIN line \/ k = size + 1
    BY <1>13
  <2> QED BY <2>2, <2>3, <2>4
<1>11. \A k \in DOMAIN listed : e'[listed[k]].baseline \in T!Range(longer)
  <2>1. T!Range(line) \subseteq T!Range(longer)
    BY <1>13 DEF T!Range
  <2> QED BY <1>5, <2>1
<1>12. T!Whole(new)'
  BY <1>7, <1>9, <1>10, <1>11 DEF T!Whole
<1> QED BY <1>3, <1>7, <1>8, <1>12 DEF T!RecordFits

LEMMA LineageBegins ==
  ASSUME NEW last, d' = Append(d, last), e' = e, d \in Seq({d[k] : k \in DOMAIN d}),
         last.supersedes = 0,
         NEW new, new = [baseline |-> Len(d) + 1, lineage |-> Append(<<>>, Len(d) + 1),
                         checks |-> <<>>]
  PROVE  T!RecordFits(new)'
<1>1. Len(d) + 1 \in DOMAIN d' /\ d'[Len(d) + 1] = last
  BY AppendedRows
<1>2. PICK run, line : run = Len(d) + 1 /\ line = Append(<<>>, run)
  OBVIOUS
<1>3. Len(line) = 1 /\ DOMAIN line = {1} /\ line[1] = run /\ line \in Seq(DOMAIN d') /\ line # <<>>
  BY <1>1, <1>2
<1>4. line[Len(line)] = run
  BY <1>3
<1>5. new.baseline = run /\ new.lineage = line /\ new.checks = <<>> /\ DOMAIN new = {"baseline", "lineage", "checks"}
  BY <1>2
<1>6. T!Whole(new)'
  BY <1>1, <1>2, <1>3, <1>4, <1>5 DEF T!Whole
<1> QED BY <1>3, <1>5, <1>6 DEF T!RecordFits

LEMMA TaskStoresBaseline ==
  ASSUME T!TaskInv, NEW proc \in Workers, T!StoreBaseline(proc)
  PROVE  T!TaskInv'
<1>1. PICK com, row, run : com = g[proc] /\ row = com.record /\ run = Len(d) + 1
  OBVIOUS
<1>2. /\ T!CommandFits(com) /\ T!ScanFits(com) /\ com.command # "check"
      /\ d \in Seq({d[k] : k \in DOMAIN d}) /\ a' = a /\ c' = c /\ e' = e
  BY <1>1 DEF T!TaskInv, T!StoreBaseline, T!InHand, T!Phases
<1>3. PICK last :
        last = [source |-> com.source, supersedes |-> com.follows, pruned |-> FALSE,
                tree |-> com.tree, scanned |-> com.scanned, findings |-> com.findings,
                evidence |-> T!Evidence(com)]
  OBVIOUS
<1>4. PICK new :
        new = [baseline |-> run,
               lineage |-> Append(IF com.command = "start" THEN <<>> ELSE row.lineage, run),
               checks |-> IF com.command = "start" THEN <<>> ELSE row.checks]
  OBVIOUS
<1>5. PICK going : going = [command |-> com.command, record |-> new]
  OBVIOUS
<1>6. d' = Append(d, last) /\ T!Go(proc, "record", going)
  BY <1>1, <1>3, <1>4, <1>5 DEF T!StoreBaseline
<1>7. T!RecordFits(new)'
  <2>1. CASE com.command = "start"
    <3>1. last.supersedes = 0
      BY <1>2, <1>3, <2>1 DEF T!CommandFits
    <3>2. new = [baseline |-> Len(d) + 1, lineage |-> Append(<<>>, Len(d) + 1), checks |-> <<>>]
      BY <1>1, <1>4, <2>1
    <3> QED BY <1>2, <1>6, <3>1, <3>2, LineageBegins
  <2>2. CASE com.command # "start"
    <3>1. /\ T!RecordFits(row) /\ last.source = d[row.baseline].source
          /\ last.supersedes = row.baseline
      BY <1>1, <1>2, <1>3, <2>2 DEF T!CommandFits
    <3>2. new = [baseline |-> Len(d) + 1, lineage |-> Append(row.lineage, Len(d) + 1),
                 checks |-> row.checks]
      BY <1>1, <1>4, <2>2
    <3> QED BY <1>2, <1>6, <3>1, <3>2, LineageGoesOn
  <2> QED BY <2>1, <2>2
<1>8. /\ d' \in Seq({d'[k] : k \in DOMAIN d'}) /\ DOMAIN d \subseteq DOMAIN d'
      /\ \A k \in DOMAIN d : d'[k] = d[k]
      /\ \A k \in DOMAIN d' : (k \in DOMAIN d /\ d'[k] = d[k]) \/ d'[k] = last
  BY <1>2, <1>6, AppendedRows
<1>9. Extends
  BY <1>2, <1>8 DEF Extends
<1>10. T!InHand("record", going)'
  <2>1. going.record = new
    BY <1>5
  <2>2. T!RecordFits(going.record)'
    BY <1>7, <2>1
  <2> QED BY <2>2 DEF T!InHand, T!Phases
<1>11. DOMAIN f' = Workers /\ DOMAIN g' = Workers /\ (\A q \in Workers : T!InHand(f[q], g[q]))'
  BY <1>6, <1>9, <1>10, HandsKept
<1>12. T!BaselineFits(last)
  <2>1. PICK seen \in SUBSET TaskPaths :
          (com.command # "check" => seen = TaskPaths) /\ T!ScannedAs(com, seen)
    BY <1>2 DEF T!ScanFits
  <2>2. T!ScannedAs(com, TaskPaths)
    BY <1>2, <2>1
  <2>3. T!ScannedAs(last, TaskPaths)
    BY <1>3, <2>2 DEF T!ScannedAs
  <2> QED BY <1>3, <2>3 DEF T!BaselineFits
<1>13. (\A k \in DOMAIN d : T!BaselineFits(d[k]))'
  <2>1. ASSUME NEW k \in DOMAIN d', NEW other, other = d'[k] PROVE T!BaselineFits(other)'
    <3>1. T!BaselineFits(other)
      BY <1>8, <1>12, <2>1 DEF T!TaskInv
    <3> QED BY <3>1 DEF T!BaselineFits, T!ScannedAs, T!Judges
  <2> QED BY <2>1
<1>14. (c \notin {Nothing, Torn} => T!RecordFits(c))'
  <2>1. PICK kept : kept = c
    OBVIOUS
  <2>2. ASSUME kept \notin {Nothing, Torn} PROVE T!RecordFits(kept)'
    BY <1>9, <2>1, <2>2, RecordKept DEF Extends, T!TaskInv
  <2> QED BY <1>2, <2>1, <2>2
<1>15. T!LineageIsWhole'
  BY <1>14 DEF T!LineageIsWhole, T!RecordFits
<1>16. T!PassIsEarned'
  BY <1>2, <1>8, PassKept
<1>17. (\A k \in DOMAIN e : e[k].baseline \in DOMAIN d)'
  BY <1>2, <1>8 DEF T!TaskInv
<1>18. e' \in Seq({e'[k] : k \in DOMAIN e'}) /\ ConfigName \in DOMAIN a' /\ a'[ConfigName] \in T!Judges
  BY <1>2 DEF T!TaskInv
<1> QED BY <1>8, <1>11, <1>13, <1>14, <1>15, <1>16, <1>17, <1>18 DEF T!TaskInv, T!Judges

(* A check that passes was judged by the baseline's policy and tools, and   *)
(* compared with what the baseline found.                                   *)
LEMMA PassedCheck ==
  ASSUME T!TaskInv, NEW com, T!CommandFits(com), T!ScanFits(com), T!GateFits(com),
         com.command = "check", NEW evidence, evidence = T!Evidence(com),
         T!Decision(com, evidence) = "pass", NEW was, was = d[com.follows]
  PROVE  /\ was.evidence.policy = T!Prevention(com.config)
         /\ was.evidence.toolchain = com.toolchain
         /\ com.config.gate = "required" => com.gate = "passed"
         /\ T!Eligible(com.config) /\ com.findings.complete =>
              T!NotWorse(com.tree, com.scanned, was, was.scanned, com.config.waived)
         /\ com.findings.complete
              \/ (~com.config.covered /\ was.findings.found \subseteq com.findings.found)
<1>1. /\ was.evidence = evidence /\ ~T!Incomparable(was.findings, com.findings, com.config)
      /\ com.gate # "unknown"
      /\ com.config.gate = "required" => com.toolchain[2] = "certified" /\ com.gate # "failed"
      /\ T!NewEnforced(was.findings, com.findings, T!ChangedPaths(was.tree, com.tree), com.config) = {}
  BY DEF T!Decision
<1>2. evidence.policy = T!Prevention(com.config) /\ evidence.toolchain = com.toolchain
  BY DEF T!Evidence
<1>3. com.config.gate = "required" => com.gate = "passed"
  BY <1>1 DEF T!GateFits, T!GateEnds
<1>4. PICK row : row = com.record
  OBVIOUS
<1>5. com.follows \in DOMAIN d
  BY <1>4, RecordsBaseline DEF T!CommandFits
<1>6. T!ScannedAs(was, TaskPaths)
  BY <1>5 DEF T!TaskInv, T!BaselineFits
<1>7. PICK seen \in SUBSET TaskPaths : T!ScannedAs(com, seen)
  BY DEF T!ScanFits
<1>8. com.findings.complete = (seen = TaskPaths)
  BY <1>7 DEF T!ScannedAs, T!Normalized
<1>9. ASSUME T!Eligible(com.config), com.findings.complete
      PROVE  T!NotWorse(com.tree, com.scanned, was, was.scanned, com.config.waived)
  <2>1. T!ScannedAs(com, TaskPaths)
    BY <1>7, <1>8, <1>9
  <2>2. ~com.findings.ambiguous
    BY <1>1 DEF T!Incomparable
  <2> QED BY <1>1, <1>6, <1>9, <2>1, <2>2, NothingNewIsNotWorse
<1>10. com.findings.complete
         \/ (~com.config.covered /\ was.findings.found \subseteq com.findings.found)
  BY <1>1 DEF T!Incomparable
<1> QED BY <1>1, <1>2, <1>3, <1>9, <1>10

(* The record with a check more, made against its baseline.                 *)
LEMMA CheckIsListed ==
  ASSUME NEW row, T!RecordFits(row), NEW last, e' = Append(e, last), d' = d,
         e \in Seq({e[k] : k \in DOMAIN e}), last.baseline = row.baseline,
         NEW new, new = [row EXCEPT !.checks = Append(@, Len(e) + 1)]
  PROVE  T!RecordFits(new)'
<1>1. /\ DOMAIN e \subseteq DOMAIN e' /\ Len(e) + 1 \in DOMAIN e' /\ e'[Len(e) + 1] = last
      /\ \A k \in DOMAIN e : e'[k] = e[k]
  BY AppendedRows
<1>2. PICK run, line, listed, longer, all :
        /\ run = Len(e) + 1 /\ line = row.lineage /\ listed = row.checks
        /\ longer = Append(listed, run) /\ all = DOMAIN e'
  OBVIOUS
<1>3. /\ DOMAIN row = {"baseline", "lineage", "checks"} /\ line \in Seq(DOMAIN d) /\ line # <<>>
      /\ listed \in Seq(DOMAIN e) /\ row.baseline = line[Len(line)] /\ T!Whole(row)
  BY <1>2 DEF T!RecordFits, T!Whole
<1>4. /\ new.baseline = row.baseline /\ new.lineage = line /\ new.checks = longer
      /\ DOMAIN new = {"baseline", "lineage", "checks"}
  BY <1>2, <1>3
<1>5. listed \in Seq(all) /\ run \in all
  BY <1>1, <1>2, <1>3
<1>6. longer \in Seq(all) /\ \A k \in DOMAIN longer : longer[k] = run \/ \E x \in DOMAIN listed : longer[k] = listed[x]
  BY <1>2, <1>5
<1>7. \A k \in DOMAIN listed : listed[k] \in DOMAIN e /\ e[listed[k]].baseline \in T!Range(line)
  BY <1>2, <1>3 DEF T!Whole
<1>8. last.baseline \in T!Range(line)
  BY <1>2, RecordsBaseline
<1>9. ASSUME NEW k \in DOMAIN longer PROVE e'[longer[k]].baseline \in T!Range(line)
  <2>1. CASE longer[k] = run
    BY <1>1, <1>2, <1>8, <2>1
  <2>2. CASE longer[k] # run
    BY <1>1, <1>6, <1>7, <2>2
  <2> QED BY <2>1, <2>2
<1>10. T!Whole(new)'
  <2>1. \A k \in DOMAIN line :
           /\ line[k] \in DOMAIN d' /\ d'[line[k]].source = d'[line[1]].source
           /\ d'[line[k]].supersedes = (IF k = 1 THEN 0 ELSE line[k - 1])
    BY <1>2, <1>3 DEF T!Whole
  <2> QED BY <1>3, <1>4, <1>9, <2>1 DEF T!Whole
<1> QED BY <1>2, <1>3, <1>4, <1>6, <1>10 DEF T!RecordFits

LEMMA TaskStoresCheck ==
  ASSUME T!TaskInv, NEW proc \in Workers, T!StoreCheck(proc)
  PROVE  T!TaskInv'
<1>1. PICK com, row, evidence :
        com = g[proc] /\ row = com.record /\ evidence = T!Evidence(com)
  OBVIOUS
<1>2. /\ T!CommandFits(com) /\ T!ScanFits(com) /\ T!GateFits(com) /\ com.command = "check"
      /\ e \in Seq({e[k] : k \in DOMAIN e}) /\ a' = a /\ c' = c /\ d' = d
  BY <1>1 DEF T!TaskInv, T!StoreCheck, T!InHand, T!Phases
<1>3. PICK last :
        last = [baseline |-> com.follows, status |-> T!Decision(com, evidence),
                config |-> com.config, tree |-> com.tree, scanned |-> com.scanned,
                findings |-> com.findings, toolchain |-> com.toolchain, gate |-> com.gate]
  OBVIOUS
<1>4. PICK new : new = [row EXCEPT !.checks = Append(@, Len(e) + 1)]
  OBVIOUS
<1>5. PICK going : going = [command |-> "check", record |-> new]
  OBVIOUS
<1>6. e' = Append(e, last) /\ T!Go(proc, "record", going)
  BY <1>1, <1>3, <1>4, <1>5 DEF T!StoreCheck
<1>7. T!RecordFits(row) /\ com.follows = row.baseline
  BY <1>1, <1>2 DEF T!CommandFits
<1>8. T!RecordFits(new)'
  BY <1>2, <1>3, <1>4, <1>6, <1>7, CheckIsListed
<1>9. /\ e' \in Seq({e'[k] : k \in DOMAIN e'}) /\ DOMAIN e \subseteq DOMAIN e'
      /\ \A k \in DOMAIN e : e'[k] = e[k]
      /\ \A k \in DOMAIN e' : (k \in DOMAIN e /\ e'[k] = e[k]) \/ e'[k] = last
  <2>1. PICK rows, more : rows = e /\ more = e'
    OBVIOUS
  <2>2. rows \in Seq({rows[k] : k \in DOMAIN rows})
    BY <1>2, <2>1
  <2>3. more = Append(rows, last)
    BY <1>6, <2>1
  <2>4. /\ more \in Seq({more[k] : k \in DOMAIN more}) /\ DOMAIN rows \subseteq DOMAIN more
        /\ more[Len(rows) + 1] = last /\ \A k \in DOMAIN rows : more[k] = rows[k]
        /\ \A k \in DOMAIN more : k \in DOMAIN rows \/ k = Len(rows) + 1
    BY <2>2, <2>3, AppendedRows
  <2>5. \A k \in DOMAIN more : (k \in DOMAIN rows /\ more[k] = rows[k]) \/ more[k] = last
    BY <2>4
  <2> QED BY <2>1, <2>4, <2>5
<1>10. Extends
  BY <1>2, <1>9 DEF Extends
<1>11. T!InHand("record", going)'
  <2>1. going.record = new
    BY <1>5
  <2>2. T!RecordFits(going.record)'
    BY <1>8, <2>1
  <2> QED BY <2>2 DEF T!InHand, T!Phases
<1>12. DOMAIN f' = Workers /\ DOMAIN g' = Workers /\ (\A q \in Workers : T!InHand(f[q], g[q]))'
  BY <1>6, <1>10, <1>11, HandsKept
<1>13. (\A k \in DOMAIN d : T!BaselineFits(d[k]))'
  BY <1>2 DEF T!TaskInv, T!BaselineFits, T!ScannedAs
<1>14. (c \notin {Nothing, Torn} => T!RecordFits(c))'
  <2>1. PICK kept : kept = c
    OBVIOUS
  <2>2. ASSUME kept \notin {Nothing, Torn} PROVE T!RecordFits(kept)'
    BY <1>10, <2>1, <2>2, RecordKept DEF Extends, T!TaskInv
  <2> QED BY <1>2, <2>1, <2>2
<1>15. T!LineageIsWhole'
  BY <1>14 DEF T!LineageIsWhole, T!RecordFits
<1>16. last.baseline \in DOMAIN d
  BY <1>3, <1>7, RecordsBaseline
<1>17. (\A k \in DOMAIN e : e[k].baseline \in DOMAIN d)'
  BY <1>2, <1>9, <1>16 DEF T!TaskInv
<1>18. T!PassIsEarned'
  <2>1. ASSUME NEW k \in DOMAIN e', NEW done, done = e'[k], done.status = "pass",
               NEW was, was = d[done.baseline]
        PROVE  /\ was.evidence.policy = T!Prevention(done.config)
               /\ was.evidence.toolchain = done.toolchain
               /\ done.config.gate = "required" => done.gate = "passed"
               /\ T!Eligible(done.config) /\ done.findings.complete =>
                    T!NotWorse(done.tree, done.scanned, was, was.scanned, done.config.waived)
               /\ done.findings.complete
                    \/ (~done.config.covered /\ was.findings.found \subseteq done.findings.found)
    <3>1. CASE k \in DOMAIN e /\ done = e[k]
      BY <2>1, <3>1 DEF T!TaskInv, T!PassIsEarned
    <3>2. CASE done = last
      <4>1. /\ done.status = T!Decision(com, evidence) /\ done.baseline = com.follows
            /\ done.config = com.config /\ done.tree = com.tree /\ done.scanned = com.scanned
            /\ done.findings = com.findings /\ done.toolchain = com.toolchain
            /\ done.gate = com.gate
        BY <1>3, <3>2
      <4>2. T!Decision(com, evidence) = "pass" /\ was = d[com.follows]
        BY <2>1, <4>1
      <4> QED BY <1>1, <1>2, <4>1, <4>2, PassedCheck
    <3> QED BY <1>9, <2>1, <3>1, <3>2
  <2>2. d' = d
    BY <1>2
  <2> QED BY <2>1, <2>2 DEF T!PassIsEarned
<1>19. d' \in Seq({d'[k] : k \in DOMAIN d'}) /\ ConfigName \in DOMAIN a' /\ a'[ConfigName] \in T!Judges
  BY <1>2 DEF T!TaskInv
<1> QED BY <1>9, <1>12, <1>13, <1>14, <1>15, <1>17, <1>18, <1>19 DEF T!TaskInv, T!Judges

LEMMA TaskTears ==
  ASSUME T!TaskInv, NEW proc \in Workers, T!TearRecord(proc) \/ T!SaveRecord(proc) \/ T!Crash(proc)
  PROVE  T!TaskInv'
<1>1. PICK com, phase, new :
        /\ com = g[proc] /\ phase = (IF T!TearRecord(proc) THEN "saving" ELSE "idle")
        /\ new = (IF T!TearRecord(proc) THEN com ELSE Nothing)
  OBVIOUS
<1>2. T!Go(proc, phase, new)
  BY <1>1 DEF T!TearRecord, T!SaveRecord, T!Crash, T!Done
<1>3. a' = a /\ d' = d /\ e' = e
  BY DEF T!TearRecord, T!SaveRecord, T!Crash
<1>4. T!InHand(phase, new)
  BY <1>1 DEF T!TaskInv, T!TearRecord, T!InHand, T!Phases
<1>5. Extends
  BY <1>3 DEF Extends
<1>6. T!InHand(phase, new)'
  BY <1>4, <1>5, HandKept DEF Extends
<1>7. DOMAIN f' = Workers /\ DOMAIN g' = Workers /\ (\A q \in Workers : T!InHand(f[q], g[q]))'
  BY <1>2, <1>5, <1>6, HandsKept
<1>8. c' = c \/ c' = Torn \/ (T!SaveRecord(proc) /\ c' = com.record)
  BY <1>1 DEF T!TearRecord, T!SaveRecord, T!Crash
<1>9. T!SaveRecord(proc) => T!RecordFits(com.record)
  BY <1>1 DEF T!TaskInv, T!SaveRecord, T!InHand, T!Phases
<1>10. PICK kept : kept = c'
  OBVIOUS
<1>11. ASSUME kept \notin {Nothing, Torn} PROVE T!RecordFits(kept)'
  <2>1. T!RecordFits(kept)
    BY <1>8, <1>9, <1>10, <1>11 DEF T!TaskInv
  <2> QED BY <1>5, <2>1, RecordKept DEF Extends
<1>12. (c \notin {Nothing, Torn} => T!RecordFits(c))'
  BY <1>10, <1>11
<1>13. T!LineageIsWhole'
  BY <1>12 DEF T!LineageIsWhole, T!RecordFits
<1>14. (\A k \in DOMAIN d : T!BaselineFits(d[k]))' /\ T!PassIsEarned'
  BY <1>3 DEF T!TaskInv, T!BaselineFits, T!ScannedAs, T!PassIsEarned
<1> QED BY <1>3, <1>7, <1>12, <1>13, <1>14 DEF T!TaskInv, T!Judges

LEMMA TaskEdited ==
  ASSUME T!TaskInv, T!Edit
  PROVE  T!TaskInv'
<1>1. UNCHANGED <<c, d, e, f, g>>
  BY DEF T!Edit
<1>2. ConfigName \in DOMAIN a' /\ a'[ConfigName] \in T!Judges
  <2>1. ConfigName \in DOMAIN a /\ a[ConfigName] \in T!Judges /\ ConfigName \notin TaskPaths
    BY TaskAssumption DEF T!TaskInv
  <2>2. CASE \E file \in TaskPaths, text \in WorkContents : a' = [a EXCEPT ![file] = text]
    BY <2>1, <2>2
  <2>3. CASE \E rules \in WorkConfigs : a' = [a EXCEPT ![ConfigName] = rules]
    BY <2>1, <2>3 DEF T!Judges
  <2>4. CASE a' = a
    BY <2>1, <2>4
  <2> QED BY <2>2, <2>3, <2>4 DEF T!Edit
<1>3. Extends
  BY <1>1 DEF Extends
<1>4. ASSUME NEW q \in Workers, NEW at, at = f'[q], NEW held, held = g'[q]
      PROVE  T!InHand(at, held)'
  <2>1. T!InHand(at, held)
    BY <1>1, <1>4 DEF T!TaskInv
  <2> QED BY <1>3, <2>1, HandKept DEF Extends
<1>5. (\A q \in Workers : T!InHand(f[q], g[q]))'
  BY <1>4
<1>6. (\A k \in DOMAIN d : T!BaselineFits(d[k]))' /\ T!PassIsEarned' /\ T!LineageIsWhole'
  BY <1>1 DEF T!TaskInv, T!BaselineFits, T!ScannedAs, T!PassIsEarned, T!LineageIsWhole, T!Whole
<1>7. (c \notin {Nothing, Torn} => T!RecordFits(c))'
  BY <1>1 DEF T!TaskInv, T!RecordFits, T!Whole
<1> QED BY <1>1, <1>2, <1>5, <1>6, <1>7 DEF T!TaskInv, T!Judges

(* A baseline that retention deletes keeps what the record says of it.      *)
LEMMA TaskPruned ==
  ASSUME T!TaskInv, NEW n \in DOMAIN d, T!Prune(n)
  PROVE  T!TaskInv'
<1>1. UNCHANGED <<a, c, e, f, g>>
  BY DEF T!Prune
<1>2. PICK rows : rows = d
  OBVIOUS
<1>3. \A k \in DOMAIN rows : DOMAIN rows[k] = {"source", "supersedes", "pruned", "tree", "scanned",
                                               "findings", "evidence"}
  BY <1>2 DEF T!TaskInv, T!BaselineFits
<1>4. PICK more : more = [k \in DOMAIN rows |->
                            IF k <= n THEN [rows[k] EXCEPT !.pruned = TRUE] ELSE rows[k]]
  OBVIOUS
<1>5. d' = more
  BY <1>2, <1>4 DEF T!Prune
<1>6. DOMAIN more = DOMAIN rows
  BY <1>4
<1>7. ASSUME NEW k \in DOMAIN rows
      PROVE  /\ more[k].source = rows[k].source /\ more[k].supersedes = rows[k].supersedes
             /\ more[k].evidence = rows[k].evidence /\ more[k].tree = rows[k].tree
             /\ more[k].scanned = rows[k].scanned /\ more[k].findings = rows[k].findings
             /\ DOMAIN more[k] = DOMAIN rows[k]
  BY <1>3, <1>4, <1>7
<1>8. more \in Seq({more[k] : k \in DOMAIN more})
  <2>1. PICK size \in Nat : DOMAIN rows = 1 .. size
    <3>1. rows \in Seq({rows[k] : k \in DOMAIN rows})
      BY <1>2 DEF T!TaskInv
    <3> QED BY <3>1
  <2>2. PICK all : all = {more[k] : k \in DOMAIN more}
    OBVIOUS
  <2>3. more \in [1 .. size -> all]
    BY <1>4, <1>6, <2>1, <2>2
  <2>4. more \in Seq(all)
    BY <2>1, <2>3
  <2> QED BY <2>2, <2>4
<1>9. Extends
  BY <1>1, <1>2, <1>5, <1>6, <1>7 DEF Extends
<1>10. ASSUME NEW q \in Workers, NEW at, at = f'[q], NEW held, held = g'[q]
       PROVE  T!InHand(at, held)'
  <2>1. T!InHand(at, held)
    BY <1>1, <1>10 DEF T!TaskInv
  <2> QED BY <1>9, <2>1, HandKept DEF Extends
<1>11. (\A q \in Workers : T!InHand(f[q], g[q]))'
  BY <1>10
<1>12. (\A k \in DOMAIN d : T!BaselineFits(d[k]))'
  <2>1. ASSUME NEW k \in DOMAIN d', NEW other, other = d'[k] PROVE T!BaselineFits(other)'
    <3>1. T!BaselineFits(rows[k])
      BY <1>2, <1>5, <1>6, <2>1 DEF T!TaskInv
    <3>2. T!BaselineFits(other)
      BY <1>5, <1>6, <1>7, <2>1, <3>1 DEF T!BaselineFits, T!ScannedAs
    <3> QED BY <3>2 DEF T!BaselineFits, T!ScannedAs, T!Judges
  <2> QED BY <2>1
<1>13. (c \notin {Nothing, Torn} => T!RecordFits(c))'
  <2>1. PICK kept : kept = c
    OBVIOUS
  <2>2. ASSUME kept \notin {Nothing, Torn} PROVE T!RecordFits(kept)'
    BY <1>9, <2>1, <2>2, RecordKept DEF Extends, T!TaskInv
  <2> QED BY <1>1, <2>1, <2>2
<1>14. T!LineageIsWhole'
  BY <1>13 DEF T!LineageIsWhole, T!RecordFits
<1>15. T!PassIsEarned'
  BY <1>1, <1>2, <1>5, <1>7, PassKept
<1>16. d' \in Seq({d'[k] : k \in DOMAIN d'}) /\ DOMAIN d' = DOMAIN d
  BY <1>2, <1>5, <1>6, <1>8
<1> QED BY <1>1, <1>11, <1>12, <1>13, <1>14, <1>15, <1>16 DEF T!TaskInv, T!Judges

LEMMA TaskStep == ASSUME T!TaskInv, T!Next PROVE T!TaskInv'
<1>1. ASSUME NEW n \in 1 .. MaxTaskCommands, T!Prune(n) PROVE T!TaskInv'
  <2>1. n \in DOMAIN d
    BY <1>1 DEF T!Prune
  <2> QED BY <1>1, <2>1, TaskPruned
<1>2. ASSUME NEW proc \in Workers, T!Command(proc) \/ T!Step(proc) \/ T!Crash(proc)
      PROVE  T!TaskInv'
  BY <1>2, TaskBegins, TaskReadsConfig, TaskSnapshots, TaskCopies, TaskAnalyzes, TaskMeasures,
     TaskStoresBaseline, TaskStoresCheck, TaskTears DEF T!Step
<1> QED BY <1>1, <1>2, TaskEdited DEF T!Next

LEMMA TaskStands ==
  ASSUME T!TaskInv, UNCHANGED shared
  PROVE  T!TaskInv'
<1>1. UNCHANGED <<a, c, d, e, f, g>>
  BY DEF shared
<1>2. (\A q \in Workers : T!InHand(f[q], g[q]))'
  <2>1. Extends
    BY <1>1 DEF Extends
  <2>2. ASSUME NEW q \in Workers, NEW at, at = f'[q], NEW held, held = g'[q]
        PROVE  T!InHand(at, held)'
    <3>1. T!InHand(at, held)
      BY <1>1, <2>2 DEF T!TaskInv
    <3> QED BY <2>1, <3>1, HandKept DEF Extends
  <2> QED BY <2>2
<1>3. (\A k \in DOMAIN d : T!BaselineFits(d[k]))' /\ T!PassIsEarned' /\ T!LineageIsWhole'
  BY <1>1 DEF T!TaskInv, T!BaselineFits, T!ScannedAs, T!PassIsEarned, T!LineageIsWhole, T!Whole
<1>4. (c \notin {Nothing, Torn} => T!RecordFits(c))'
  BY <1>1 DEF T!TaskInv, T!RecordFits, T!Whole
<1> QED BY <1>1, <1>2, <1>3, <1>4 DEF T!TaskInv, T!Judges

LEMMA TaskInit == PartsInit /\ part = "task" => T!TaskInv
<1> SUFFICES ASSUME T!Init PROVE T!TaskInv
  BY DEF PartsInit
<1>1. ConfigName \in DOMAIN a /\ a[ConfigName] \in T!Judges
  BY TaskAssumption DEF T!Init, T!Judges
<1>2. \A q \in Workers : T!InHand(f[q], g[q])
  BY DEF T!Init, T!InHand, T!Phases
<1>3. d = <<>> /\ e = <<>> /\ <<>> \in Seq({}) /\ DOMAIN <<>> = {}
  BY DEF T!Init
<1>4. d \in Seq({d[k] : k \in DOMAIN d}) /\ e \in Seq({e[k] : k \in DOMAIN e})
  BY <1>3
<1>5. T!PassIsEarned /\ T!LineageIsWhole /\ c = Nothing
  BY <1>3 DEF T!Init, T!PassIsEarned, T!LineageIsWhole
<1>6. (\A k \in DOMAIN d : T!BaselineFits(d[k])) /\ (\A k \in DOMAIN e : e[k].baseline \in DOMAIN d)
  BY <1>3
<1> QED BY <1>1, <1>2, <1>4, <1>5, <1>6 DEF T!TaskInv, T!Init

(* Whatever commands overlap, are edited under or die: each holds a whole   *)
(* lineage and what its phase has made of it.                               *)
THEOREM TasksKept == Parts => [](part = "task" => T!TaskInv)
<1>1. PartsInit => (part = "task" => T!TaskInv)
  BY TaskInit
<1>2. (part = "task" => T!TaskInv) /\ [PartsNext]_parts => (part = "task" => T!TaskInv)'
  <2> SUFFICES ASSUME part = "task" => T!TaskInv, [PartsNext]_parts, part' = "task"
               PROVE  T!TaskInv'
    OBVIOUS
  <2>1. T!TaskInv /\ (T!Next \/ UNCHANGED shared)
    BY DEF PartsNext, parts, shared
  <2> QED BY <2>1, TaskStep, TaskStands
<1> QED BY <1>1, <1>2, PTL DEF Parts

(* A task check passes only on what was earned, and the record names a      *)
(* whole lineage of baselines: task_prevention.py, check_task.               *)
THEOREM TaskPassEarned == Parts => []TaskPassIsEarned
<1>1. (part = "task" => T!TaskInv) => TaskPassIsEarned
  BY DEF TaskPassIsEarned, T!TaskInv
<1> QED BY <1>1, TasksKept, PTL

-----------------------------------------------------------------------------
(* Exclusions.                                                              *)

\* The instance's Cardinality is that of FiniteSets.
LEMMA CountsInScope ==
  ASSUME NEW M PROVE E!Cardinality(M) = Cardinality(M)
BY DEF E!Cardinality, Cardinality

\* There are finitely many directories.
LEMMA DirsAreFinite == IsFiniteSet(E!Dirs)
<1>1. PICK size \in Nat : DOMAIN ScopeWalk = 1 .. size
  <2>1. Len(ScopeWalk) \in Nat /\ DOMAIN ScopeWalk = 1 .. Len(ScopeWalk)
    BY ScopeAssumption
  <2> QED BY <2>1
<1>2. IsFiniteSet(1 .. size)
  BY FS_Interval
<1>3. PICK onto : onto = [n \in 1 .. size |-> ScopeWalk[n]]
  OBVIOUS
<1>4. onto \in Surjection(1 .. size, E!Dirs)
  BY <1>1, <1>3 DEF Surjection, E!Dirs, E!Range
<1> QED BY <1>2, <1>4, FS_Surjection

\* The directories above a directory of the tree are in the tree as well.
LEMMA DirsAreInside ==
  ASSUME NEW dir \in E!Dirs
  PROVE  /\ dir \in DirsAbove[dir]
         /\ \A x \in DirsAbove[dir] : x \in E!Dirs /\ DirsAbove[x] \subseteq DirsAbove[dir]
BY ScopeAssumption DEF E!Dirs, E!Range

\* A scan that found no more files than it may read has read them all.
LEMMA ReadsAll ==
  ASSUME NEW patterns, NEW included, E!TextScope(patterns, included).coverage # "partial"
  PROVE  E!TextScope(patterns, included).read = E!TextCandidates(patterns, included)
<1>1. PICK found : found = E!TextCandidates(patterns, included)
  OBVIOUS
<1>2. found \subseteq E!Dirs
  BY <1>1 DEF E!TextCandidates
<1>3. IsFiniteSet(found) /\ Cardinality(found) \in Nat
  BY <1>2, DirsAreFinite, FS_Subset, FS_CardinalityType
<1>4. ~(Cardinality(found) > MaxFilesRead)
  <2>1. E!TextScope(patterns, included).coverage =
          (IF E!Cardinality(found) > MaxFilesRead THEN "partial" ELSE "complete")
    BY <1>1 DEF E!TextScope
  <2> QED BY <2>1, CountsInScope
<1>5. ASSUME NEW dir \in found
      PROVE  Cardinality({x \in found : E!Position(x) <= E!Position(dir)}) <= MaxFilesRead
  <2>1. PICK before : before = {x \in found : E!Position(x) <= E!Position(dir)}
    OBVIOUS
  <2>2. Cardinality(before) \in Nat /\ Cardinality(before) <= Cardinality(found)
    BY <1>3, <2>1, FS_Subset, FS_CardinalityType
  <2> QED BY <1>3, <1>4, <2>1, <2>2, ScopeAssumption
<1>6. E!Within(MaxFilesRead, found) = found
  BY <1>5, CountsInScope DEF E!Within
<1> QED BY <1>1, <1>6 DEF E!TextScope

\* What a walk does not come to is named by what it leaves out.
LEMMA LeftOutMatches ==
  ASSUME NEW patterns, NEW included, NEW dir \in E!Dirs,
         dir \notin E!TextCandidates(patterns, included)
  PROVE  E!Matches(dir, patterns \cup NeverRead \cup IgnoredDirs \cup GeneratedDirs)
<1>1. ASSUME NEW x \in DirsAbove[dir], NEW names, E!Matches(x, names),
             names \subseteq patterns \cup NeverRead \cup IgnoredDirs \cup GeneratedDirs
      PROVE  E!Matches(dir, patterns \cup NeverRead \cup IgnoredDirs \cup GeneratedDirs)
  <2>1. PICK y \in DirsAbove[x] : y \in names
    BY <1>1 DEF E!Matches
  <2>2. y \in DirsAbove[dir]
    BY <2>1, DirsAreInside
  <2> QED BY <1>1, <2>1, <2>2 DEF E!Matches
<1>2. CASE \E x \in DirsAbove[dir] : ~E!Entered(x, patterns, included)
  <2>1. PICK x \in DirsAbove[dir] : ~E!Entered(x, patterns, included)
    BY <1>2
  <2>2. x \in DirsAbove[x]
    BY DirsAreInside
  <2>3. x \in GeneratedDirs \/ x \in IgnoredDirs \/ E!Matches(x, NeverRead) \/ E!Matches(x, patterns)
    BY <2>1 DEF E!Entered, E!ScanExcluded
  <2>4. \/ E!Matches(x, GeneratedDirs) \/ E!Matches(x, IgnoredDirs)
        \/ E!Matches(x, NeverRead) \/ E!Matches(x, patterns)
    BY <2>2, <2>3 DEF E!Matches
  <2> QED BY <1>1, <2>4
<1>3. CASE E!ScanExcluded(dir, patterns, E!FileIncluded(dir, included))
  <2>1. dir \in DirsAbove[dir]
    BY DirsAreInside
  <2>2. E!Matches(dir, NeverRead) \/ E!Matches(dir, patterns)
    BY <1>3 DEF E!ScanExcluded
  <2> QED BY <1>1, <2>1, <2>2
<1> QED BY <1>2, <1>3 DEF E!TextCandidates

\* What patterns exclude, more patterns exclude too.
LEMMA MatchesMore ==
  ASSUME NEW dir, NEW one, NEW two, one \subseteq two, E!Matches(dir, one)
  PROVE  E!Matches(dir, two)
BY DEF E!Matches

\* What an audit does not read it says.
LEMMA AuditReports ==
  ASSUME NEW request, e' = E!Audited(request)
  PROVE  E!LeftOutIsReported'
<1>1. PICK effective : effective = E!WithOverlay(request)
  OBVIOUS
<1>2. PICK scopes : scopes = E!Scopes(effective, request)
  OBVIOUS
<1>3. PICK new : new = e'
  OBVIOUS
<1>4. ASSUME NEW mod \in E!Modules, NEW dir \in E!Dirs, dir \notin new.read[mod],
             new.coverage[mod] # "partial"
      PROVE  E!Matches(dir, new.scan_exclusions[mod] \cup NeverRead \cup IgnoredDirs \cup GeneratedDirs)
  <2>1. /\ new.read = [m \in E!Modules |-> IF m = "structural" THEN E!Discovered(E!Effective(effective, m))
                                           ELSE scopes[m].read]
        /\ new.coverage = [m \in E!Modules |-> IF m = "structural" THEN "complete"
                                               ELSE scopes[m].coverage]
        /\ new.scan_exclusions = [m \in E!Modules |-> IF m = "code_quality" THEN scopes[m].patterns
                                                      ELSE E!Effective(effective, m)]
    BY <1>1, <1>2, <1>3 DEF E!Audited
  <2>2. CASE mod = "structural"
    <3>1. dir \notin E!Discovered(E!Effective(effective, mod)) /\ new.scan_exclusions[mod] = E!Effective(effective, mod)
      BY <1>4, <2>1, <2>2
    <3>2. E!Matches(dir, E!Effective(effective, mod) \cup NeverRead)
      BY <3>1 DEF E!Discovered
    <3> QED BY <3>1, <3>2, MatchesMore
  <2>3. CASE mod \in {"code_quality", "security"}
    <3>1. PICK patterns :
            patterns = E!Effective(effective, IF E!HasOverlay(request) THEN mod ELSE E!All)
      OBVIOUS
    <3>2. scopes[mod] = E!TextScope(patterns, request.included)
      BY <1>2, <2>3, <3>1 DEF E!Scopes
    <3>3. dir \notin scopes[mod].read /\ scopes[mod].coverage # "partial"
      BY <1>4, <2>1, <2>3
    <3>4. dir \notin E!TextCandidates(patterns, request.included)
      BY <3>2, <3>3, ReadsAll
    <3>5. E!Matches(dir, patterns \cup NeverRead \cup IgnoredDirs \cup GeneratedDirs)
      BY <3>4, LeftOutMatches
    <3>6. patterns \subseteq new.scan_exclusions[mod]
      <4>1. CASE mod = "code_quality"
        <5>1. new.scan_exclusions[mod] = scopes[mod].patterns
          BY <2>1, <4>1
        <5>2. scopes[mod].patterns = patterns
          BY <3>2 DEF E!TextScope
        <5> QED BY <5>1, <5>2
      <4>2. CASE mod = "security"
        <5>1. new.scan_exclusions[mod] = E!Effective(effective, mod)
          BY <2>1, <4>2
        <5>2. E!Effective(effective, E!All) \subseteq E!Effective(effective, mod)
          BY DEF E!Effective
        <5> QED BY <3>1, <5>1, <5>2
      <4> QED BY <2>3, <4>1, <4>2
    <3> QED BY <3>5, <3>6, MatchesMore
  <2> QED BY <2>2, <2>3 DEF E!Modules
<1> QED BY <1>3, <1>4 DEF E!LeftOutIsReported

\* What an apply writes leaves out what its configuration left out, and what
\* the report approves.
LEMMA RewritesAsApproved ==
  ASSUME NEW before, NEW report, before.kind # "other", NEW mod \in E!Modules,
         NEW approved, approved = E!Approved(report, E!All) \cup E!Approved(report, mod)
  PROVE  E!LeftOut(E!Rewritten(before, report), mod) =
           E!LeftOut(before, mod) \cup {x \in E!Dirs : E!Matches(x, approved)}
<1>1. mod # E!All
  BY DEF E!Modules, E!All
<1>2. CASE before.kind \in {"absent", "empty"} /\ E!Excluded(report) = {}
  <2>1. E!Rewritten(before, report) = before
    BY <1>2 DEF E!Rewritten
  <2>2. approved = {}
    BY <1>2 DEF E!Approved
  <2> QED BY <2>1, <2>2 DEF E!Matches
<1>3. CASE ~(before.kind \in {"absent", "empty"} /\ E!Excluded(report) = {})
  <2>1. PICK merged : merged = E!Merged(before, report)
    OBVIOUS
  <2>2. E!Rewritten(before, report) = merged
    BY <1>3, <2>1 DEF E!Rewritten
  <2>3. E!Effective(merged, mod) = E!Effective(before, mod) \cup approved
    <3>1. merged.all = before.all \cup E!Approved(report, E!All)
      BY <2>1 DEF E!Merged
    <3>2. merged.by[mod] = before.by[mod] \cup E!Approved(report, mod)
      BY <2>1 DEF E!Merged
    <3> QED BY <1>1, <3>1, <3>2 DEF E!Effective
  <2>4. \A x \in E!Dirs : E!Matches(x, E!Effective(before, mod) \cup approved)
                            <=> E!Matches(x, E!Effective(before, mod)) \/ E!Matches(x, approved)
    BY DEF E!Matches
  <2>5. E!LeftOut(merged, mod) = {x \in E!Dirs : E!Matches(x, E!Effective(before, mod) \cup approved)}
    BY <2>3 DEF E!LeftOut
  <2> QED BY <2>2, <2>4, <2>5 DEF E!LeftOut
<1> QED BY <1>2, <1>3

\* What is left to show of an apply that ends.
LEMMA ApplyFinishes ==
  ASSUME E!ExclusionsInv, NEW proc \in Appliers, d[proc] # None, d[proc].step # "checked",
         e' = E!Finished(proc)
  PROVE  E!AppliedAsApproved' /\ E!LeftOutIsReported'
<1>1. PICK new, job : new = e' /\ job = d[proc]
  OBVIOUS
<1>2. /\ new.kind = "apply" /\ new.report = job.report /\ new.packet = job.packet
      /\ new.before = job.before /\ new.after = E!Rewritten(job.before, job.report)
      /\ new.disturbed = job.disturbed
  BY <1>1 DEF E!Finished
<1>3. E!ApplyFits(job)
  BY <1>1 DEF E!ExclusionsInv
<1>4. ASSUME ~new.disturbed, new.before.kind # "other", NEW mod \in E!Modules,
             NEW approved, approved = E!Approved(new.report, E!All) \cup E!Approved(new.report, mod)
      PROVE  /\ E!LeftOut(new.after, mod) =
                  E!LeftOut(new.packet.fingerprint.config, mod) \cup {x \in E!Dirs : E!Matches(x, approved)}
             /\ mod = "security" /\ approved # {} => new.report.acknowledged
  <2>1. new.packet.fingerprint.config = new.before
    BY <1>1, <1>2, <1>3, <1>4 DEF E!ApplyFits
  <2>2. mod = "security" /\ approved # {} => new.report.acknowledged
    BY <1>2, <1>3, <1>4 DEF E!ApplyFits, E!ReducesSecurity
  <2>3. new.after = E!Rewritten(new.before, new.report)
    BY <1>2
  <2> QED BY <1>4, <2>1, <2>2, <2>3, RewritesAsApproved
<1>5. E!LeftOutIsReported'
  BY <1>1, <1>2 DEF E!LeftOutIsReported
<1> QED BY <1>1, <1>4, <1>5 DEF E!AppliedAsApproved

\* Nothing changes but what the invariant does not mention.
LEMMA AppliesStand ==
  ASSUME E!ExclusionsInv, UNCHANGED <<a, d, e>>
  PROVE  E!ExclusionsInv'
BY DEF E!ExclusionsInv, E!ApplyFits, E!AppliedAsApproved, E!LeftOutIsReported

LEMMA ReportsStand ==
  ASSUME E!ExclusionsInv, e' = e
  PROVE  E!AppliedAsApproved' /\ E!LeftOutIsReported'
BY DEF E!ExclusionsInv, E!AppliedAsApproved, E!LeftOutIsReported

LEMMA ApplyChecks ==
  ASSUME E!ExclusionsInv, NEW proc \in Appliers, E!Check(proc)
  PROVE  E!ExclusionsInv'
<1>1. a' = a /\ e' = e
  BY DEF E!Check
<1>2. PICK report \in ReviewerReports :
        /\ E!Accepts(report)
        /\ d' = [d EXCEPT ![proc] = [step |-> "checked", packet |-> c, report |-> report,
                                     before |-> None, disturbed |-> FALSE]]
  BY DEF E!Check
<1>3. PICK new : new = [step |-> "checked", packet |-> c, report |-> report, before |-> None, disturbed |-> FALSE]
  OBVIOUS
<1>4. c.fingerprint.config = a /\ (E!ReducesSecurity(report) => report.acknowledged)
  BY <1>2 DEF E!Accepts, E!Fingerprint
<1>5. E!ApplyFits(new)'
  BY <1>1, <1>3, <1>4 DEF E!ApplyFits
<1>6. DOMAIN d' = Appliers /\ d'[proc] = new /\ \A q \in Appliers \ {proc} : d'[q] = d[q]
  BY <1>2, <1>3 DEF E!ExclusionsInv
<1>7. ASSUME NEW q \in Appliers, NEW y, y = d'[q], y # None PROVE E!ApplyFits(y)'
  <2>1. CASE q = proc
    BY <1>5, <1>6, <1>7, <2>1
  <2>2. CASE q # proc
    <3>1. y = d[q] /\ d[q] # None
      BY <1>6, <1>7, <2>2
    <3> QED BY <1>1, <3>1 DEF E!ExclusionsInv, E!ApplyFits
  <2> QED BY <2>1, <2>2
<1> QED BY <1>1, <1>6, <1>7, ReportsStand DEF E!ExclusionsInv, E!ApplyFits

LEMMA ApplyReads ==
  ASSUME E!ExclusionsInv, NEW proc \in Appliers, E!ReadConfig(proc)
  PROVE  E!ExclusionsInv'
<1>1. a' = a /\ e' = e /\ d[proc] # None /\ d[proc].step = "checked"
  BY DEF E!ReadConfig
<1>2. PICK job, new : job = d[proc] /\ new = [d[proc] EXCEPT !.step = "read", !.before = a]
  OBVIOUS
<1>3. E!ApplyFits(job)
  BY <1>1, <1>2 DEF E!ExclusionsInv
<1>4. /\ DOMAIN new = DOMAIN job /\ new.step = "read" /\ new.before = a /\ new.report = job.report
      /\ new.packet = job.packet /\ new.disturbed = job.disturbed
  BY <1>2, <1>3 DEF E!ApplyFits
<1>5. E!ApplyFits(new)'
  BY <1>1, <1>2, <1>3, <1>4 DEF E!ApplyFits
<1>6. DOMAIN d' = Appliers /\ d'[proc] \in {None, new} /\ \A q \in Appliers \ {proc} : d'[q] = d[q]
  BY <1>2 DEF E!ExclusionsInv, E!ReadConfig
<1>7. ASSUME NEW q \in Appliers, NEW y, y = d'[q], y # None PROVE E!ApplyFits(y)'
  <2>1. CASE q = proc
    BY <1>5, <1>6, <1>7, <2>1
  <2>2. CASE q # proc
    <3>1. y = d[q] /\ d[q] # None
      BY <1>6, <1>7, <2>2
    <3> QED BY <1>1, <3>1 DEF E!ExclusionsInv, E!ApplyFits
  <2> QED BY <2>1, <2>2
<1> QED BY <1>1, <1>6, <1>7, ReportsStand DEF E!ExclusionsInv, E!ApplyFits

\* An apply that is disturbed rests on nothing.
LEMMA DisturbedFits ==
  ASSUME E!ExclusionsInv, NEW q \in Appliers, NEW y, y = E!Disturb(d)[q], y # None
  PROVE  E!ApplyFits(y)'
<1>1. y = IF d[q] = None THEN None ELSE [d[q] EXCEPT !.disturbed = TRUE]
  BY DEF E!Disturb
<1>2. d[q] # None /\ y = [d[q] EXCEPT !.disturbed = TRUE]
  BY <1>1
<1>3. PICK job : job = d[q]
  OBVIOUS
<1>4. E!ApplyFits(job)
  BY <1>2, <1>3 DEF E!ExclusionsInv
<1>5. /\ DOMAIN y = DOMAIN job /\ y.step = job.step /\ y.report = job.report /\ y.disturbed = TRUE
  BY <1>2, <1>3, <1>4 DEF E!ApplyFits
<1> QED BY <1>4, <1>5 DEF E!ApplyFits

LEMMA ApplyEmpties ==
  ASSUME E!ExclusionsInv, NEW proc \in Appliers, E!Empty(proc)
  PROVE  E!ExclusionsInv'
<1>1. d[proc] # None /\ d[proc].step = "read" /\ DOMAIN d = Appliers
  BY DEF E!Empty, E!ExclusionsInv
<1>2. CASE e' = E!Finished(proc) /\ d' = [d EXCEPT ![proc] = None] /\ a' = a
  <2>1. E!AppliedAsApproved' /\ E!LeftOutIsReported'
    BY <1>1, <1>2, ApplyFinishes
  <2>2. ASSUME NEW q \in Appliers, NEW y, y = d'[q], y # None PROVE E!ApplyFits(y)'
    <3>1. y = d[q] /\ d[q] # None
      BY <1>1, <1>2, <2>2
    <3> QED BY <1>2, <3>1 DEF E!ExclusionsInv, E!ApplyFits
  <2>3. DOMAIN d' = Appliers
    BY <1>1, <1>2
  <2> QED BY <2>1, <2>2, <2>3 DEF E!ExclusionsInv, E!ApplyFits
<1>3. CASE d' = [E!Disturb(d) EXCEPT ![proc] = [d[proc] EXCEPT !.step = "emptied"]] /\ e' = e
  <2>1. DOMAIN E!Disturb(d) = Appliers
    BY DEF E!Disturb
  <2>2. PICK job, new : job = d[proc] /\ new = [d[proc] EXCEPT !.step = "emptied"]
    OBVIOUS
  <2>3. E!ApplyFits(job)
    BY <1>1, <2>2 DEF E!ExclusionsInv
  <2>4. /\ DOMAIN new = DOMAIN job /\ new.step = "emptied" /\ new.report = job.report
        /\ new.packet = job.packet /\ new.before = job.before /\ new.disturbed = job.disturbed
    BY <2>2, <2>3 DEF E!ApplyFits
  <2>5. ~job.disturbed => job.packet.fingerprint.config = job.before
    BY <1>1, <2>2, <2>3 DEF E!ApplyFits
  <2>6. E!ApplyFits(new)'
    BY <2>3, <2>4, <2>5 DEF E!ApplyFits
  <2>7. DOMAIN d' = Appliers /\ d'[proc] = new /\ \A q \in Appliers \ {proc} : d'[q] = E!Disturb(d)[q]
    BY <1>3, <2>1, <2>2
  <2>8. ASSUME NEW q \in Appliers, NEW y, y = d'[q], y # None PROVE E!ApplyFits(y)'
    BY <2>6, <2>7, <2>8, DisturbedFits
  <2> QED BY <1>3, <2>7, <2>8, ReportsStand DEF E!ExclusionsInv, E!ApplyFits
<1> QED BY <1>2, <1>3 DEF E!Empty

LEMMA ApplyWrites ==
  ASSUME E!ExclusionsInv, NEW proc \in Appliers, E!Write(proc)
  PROVE  E!ExclusionsInv'
<1>1. /\ d[proc] # None /\ d[proc].step = "emptied" /\ e' = E!Finished(proc)
      /\ d' = [E!Disturb(d) EXCEPT ![proc] = None]
  BY DEF E!Write
<1>2. E!AppliedAsApproved' /\ E!LeftOutIsReported'
  BY <1>1, ApplyFinishes
<1>3. DOMAIN E!Disturb(d) = Appliers
  BY DEF E!Disturb
<1>4. DOMAIN d' = Appliers /\ d'[proc] = None /\ \A q \in Appliers \ {proc} : d'[q] = E!Disturb(d)[q]
  BY <1>1, <1>3
<1>5. ASSUME NEW q \in Appliers, NEW y, y = d'[q], y # None PROVE E!ApplyFits(y)'
  <2>1. y = E!Disturb(d)[q]
    BY <1>4, <1>5
  <2> QED BY <1>5, <2>1, DisturbedFits
<1> QED BY <1>2, <1>4, <1>5 DEF E!ExclusionsInv, E!ApplyFits

LEMMA ApplyDies ==
  ASSUME E!ExclusionsInv, NEW proc \in Appliers, E!Die(proc)
  PROVE  E!ExclusionsInv'
<1>1. a' = a /\ e' = e /\ d' = [d EXCEPT ![proc] = None] /\ DOMAIN d = Appliers
  BY DEF E!Die, E!ExclusionsInv
<1>2. ASSUME NEW q \in Appliers, NEW y, y = d'[q], y # None PROVE E!ApplyFits(y)'
  <2>1. y = d[q] /\ d[q] # None
    BY <1>1, <1>2
  <2> QED BY <1>1, <2>1 DEF E!ExclusionsInv, E!ApplyFits
<1>3. DOMAIN d' = Appliers
  BY <1>1
<1> QED BY <1>1, <1>2, <1>3, ReportsStand DEF E!ExclusionsInv, E!ApplyFits

LEMMA ExclusionsEdited ==
  ASSUME E!ExclusionsInv, E!Edit
  PROVE  E!ExclusionsInv'
<1>1. e' = e /\ d' = E!Disturb(d) /\ DOMAIN d' = Appliers
  BY DEF E!Edit, E!Disturb
<1>2. ASSUME NEW q \in Appliers, NEW y, y = d'[q], y # None PROVE E!ApplyFits(y)'
  BY <1>1, <1>2, DisturbedFits
<1> QED BY <1>1, <1>2, ReportsStand DEF E!ExclusionsInv, E!ApplyFits

LEMMA ExclusionsStep == ASSUME E!ExclusionsInv, E!Next PROVE E!ExclusionsInv'
<1>1. CASE E!Audit
  <2>1. PICK request \in AuditRequests : e' = E!Audited(request)
    BY <1>1 DEF E!Audit
  <2>2. E!LeftOutIsReported'
    BY <2>1, AuditReports
  <2>3. E!AppliedAsApproved'
    <3>1. e'.kind = "audit"
      BY <2>1 DEF E!Audited
    <3> QED BY <3>1 DEF E!AppliedAsApproved
  <2>4. a' = a /\ d' = d
    BY <1>1 DEF E!Audit
  <2> QED BY <2>2, <2>3, <2>4 DEF E!ExclusionsInv, E!ApplyFits
<1>2. CASE E!Suggest \/ E!Commit
  BY <1>2, AppliesStand DEF E!Suggest, E!Commit
<1> QED BY <1>1, <1>2, ExclusionsEdited, ApplyChecks, ApplyReads, ApplyEmpties, ApplyWrites,
           ApplyDies DEF E!Next

(* An apply that nobody disturbed works on the configuration its packet was  *)
(* made of: `exclusions validate` and `apply` with edits by hand meanwhile.  *)
THEOREM ExclusionsKept == Parts => [](part = "exclusions" => E!ExclusionsInv)
<1>1. PartsInit => (part = "exclusions" => E!ExclusionsInv)
  BY DEF PartsInit, E!Init, E!ExclusionsInv, E!AppliedAsApproved, E!LeftOutIsReported
<1>2. (part = "exclusions" => E!ExclusionsInv) /\ [PartsNext]_parts => (part = "exclusions" => E!ExclusionsInv)'
  <2> SUFFICES ASSUME part = "exclusions" => E!ExclusionsInv, [PartsNext]_parts, part' = "exclusions"
               PROVE  E!ExclusionsInv'
    OBVIOUS
  <2>1. E!ExclusionsInv /\ (E!Next \/ UNCHANGED <<a, d, e>>)
    BY DEF PartsNext, parts
  <2> QED BY <2>1, ExclusionsStep, AppliesStand
<1> QED BY <1>1, <1>2, PTL DEF Parts

(* An apply takes out of each scan what the reviewer took out of it, and an  *)
(* audit says of all it did not read why: exclusion_preflight.py and         *)
(* scan_scope.py.                                                           *)
THEOREM ExclusionsHonest == Parts => []ExclusionsAreHonest
<1>1. (part = "exclusions" => E!ExclusionsInv) => ExclusionsAreHonest
  BY DEF ExclusionsAreHonest, E!ExclusionsInv
<1> QED BY <1>1, ExclusionsKept, PTL

-----------------------------------------------------------------------------
(* Security scan.                                                           *)

SecurityKinds ==
  {"secrets-exposure", "secret-in-fallback", "secret-in-log", "secret-env-var", "dangerous-sink",
   "unsafe-redirect", "open-redirect", "env-exposure", "expensive-api-abuse", "webhook-handler"}

\* Every mark makes a candidate of a kind that the scan knows.
LEMMA MarksHaveAKind ==
  ASSUME NEW file, NEW line, NEW marks,
         NEW mark \in {"assignment", "fallback", "log", "sink", "weak-sink", "redirect",
                       "bare-redirect", "public-env", "secret-env", "costly", "webhook"}
  PROVE  U!Candidate(mark, file, line, marks).category \in SecurityKinds
<1>1. U!Candidate(mark, file, line, marks).category = U!Category(mark)
  BY DEF U!Candidate
<1>2. CASE mark = "assignment"
  BY <1>1, <1>2 DEF U!Category, SecurityKinds
<1>3. CASE mark = "fallback"
  BY <1>1, <1>3 DEF U!Category, SecurityKinds
<1>4. CASE mark = "log"
  BY <1>1, <1>4 DEF U!Category, SecurityKinds
<1>5. CASE mark \in {"sink", "weak-sink"}
  BY <1>1, <1>5 DEF U!Category, SecurityKinds
<1>6. CASE mark = "redirect"
  BY <1>1, <1>6 DEF U!Category, SecurityKinds
<1>7. CASE mark = "bare-redirect"
  BY <1>1, <1>7 DEF U!Category, SecurityKinds
<1>8. CASE mark = "public-env"
  BY <1>1, <1>8 DEF U!Category, SecurityKinds
<1>9. CASE mark = "secret-env"
  BY <1>1, <1>9 DEF U!Category, SecurityKinds
<1>10. CASE mark = "costly"
  BY <1>1, <1>10 DEF U!Category, SecurityKinds
<1>11. CASE mark = "webhook"
  BY <1>1, <1>11 DEF U!Category, SecurityKinds
<1> QED BY <1>2, <1>3, <1>4, <1>5, <1>6, <1>7, <1>8, <1>9, <1>10, <1>11

\* Every candidate of a file is of one of the kinds.
LEMMA CandidatesHaveAKind ==
  ASSUME NEW file, NEW text, NEW disabled, NEW surfaces,
         NEW cand \in U!Candidates(file, text, disabled, surfaces)
  PROVE  cand.category \in SecurityKinds
<1> DEFINE Marks == {"assignment", "fallback", "log", "sink", "weak-sink", "redirect",
                     "bare-redirect", "public-env", "secret-env", "costly", "webhook"}
<1>1. \A group \in U!Groups : U!Patterns(group) \subseteq Marks
  BY DEF U!Groups, U!Patterns
<1>2. ASSUME cand \in U!OfLines(file, text, disabled)
      PROVE  \E mark \in Marks : \E line, marks : cand = U!Candidate(mark, file, line, marks)
  <2>1. PICK x \in (UNION {U!Patterns(group) : group \in U!Groups \ disabled}) \X DOMAIN text.lines :
           cand = U!Candidate(x[1], file, x[2], text.lines[x[2]])
    BY <1>2 DEF U!OfLines
  <2>2. x[1] \in Marks
    BY <1>1, <2>1
  <2> QED BY <2>1, <2>2
<1>3. ASSUME NEW mark \in Marks, NEW spans, cand \in U!OfSpans(file, text, mark, spans)
      PROVE  \E line, marks : cand = U!Candidate(mark, file, line, marks)
  BY <1>3 DEF U!OfSpans
<1>4. \E mark \in Marks : \E line, marks : cand = U!Candidate(mark, file, line, marks)
  <2>1. CASE cand \in U!OfLines(file, text, disabled)
    BY <1>2, <2>1
  <2>2. CASE \/ cand \in U!OfSpans(file, text, "assignment", text.assignments)
             \/ cand \in U!OfSpans(file, text, "fallback", text.fallbacks)
    BY <1>3, <2>2
  <2>3. ASSUME cand \notin U!OfLines(file, text, disabled),
               cand \notin U!OfSpans(file, text, "assignment", text.assignments),
               cand \notin U!OfSpans(file, text, "fallback", text.fallbacks)
        PROVE  \/ \E line : cand = U!Candidate("costly", file, line, text.lines[line])
               \/ cand = U!Candidate("webhook", file, 1, {})
    BY <2>3 DEF U!Candidates
  <2> QED BY <2>1, <2>2, <2>3
<1>5. PICK mark \in Marks : \E line, marks : cand = U!Candidate(mark, file, line, marks)
  BY <1>4
<1> HIDE DEF Marks
<1> QED BY <1>5, MarksHaveAKind DEF Marks

\* A candidate heavy enough is named by the obligation of a gate.
LEMMA CandidatesAreNamed ==
  ASSUME NEW surfaces, NEW found, NEW settings, settings.gates,
         NEW cand \in found, cand.category \in SecurityKinds \ {"env-exposure"},
         U!Rank(cand.severity) <= U!Rank(settings.minimum)
  PROVE  \E duty \in U!Obligations(U!Gates(surfaces, found, settings), found) :
           cand.fingerprint \in duty.refs
<1>1. ASSUME NEW gate, gate \in DOMAIN U!Trigger,
             U!Trigger[gate] \in U!Triggers(surfaces, found),
             cand.category \in U!Weighs(gate), cand.category \in U!Named(gate)
      PROVE  \E duty \in U!Obligations(U!Gates(surfaces, found, settings), found) :
               cand.fingerprint \in duty.refs
  <2>1. U!HeavyEnough(gate, found, settings.minimum)
    BY <1>1 DEF U!HeavyEnough
  <2>2. gate \in U!Gates(surfaces, found, settings)
    BY <1>1, <2>1 DEF U!Gates
  <2>3. PICK refs : refs = {x.fingerprint : x \in {y \in found : U!Refers(gate, y)}}
    OBVIOUS
  <2>4. cand.fingerprint \in refs
    BY <1>1, <2>3 DEF U!Refers
  <2>5. [gate |-> gate, refs |-> refs] \in U!Obligations(U!Gates(surfaces, found, settings), found)
    BY <2>2, <2>3 DEF U!Obligations
  <2> QED BY <2>4, <2>5
<1>2. PICK kinds : kinds = {x.category : x \in found}
  OBVIOUS
<1>3. cand.category \in kinds
  BY <1>2
<1>4. U!Triggers(surfaces, found) =
        (surfaces \cap {"api", "manifest", "publication"})
        \cup (IF "webhook-handler" \in kinds \/ "webhook" \in surfaces THEN {"webhooks"} ELSE {})
        \cup (IF "dangerous-sink" \in kinds THEN {"sinks"} ELSE {})
        \cup (IF {"unsafe-redirect", "open-redirect"} \cap kinds # {} THEN {"redirects"} ELSE {})
        \cup (IF U!SecretCategories \cap kinds # {} THEN {"secrets"} ELSE {})
        \cup (IF "expensive-api-abuse" \in kinds THEN {"costly"} ELSE {})
  BY <1>2 DEF U!Triggers
<1>5. CASE cand.category = "webhook-handler"
  <2>1. "webhook_signature" \in DOMAIN U!Trigger /\ U!Trigger["webhook_signature"] = "webhooks"
    BY DEF U!Trigger
  <2>2. "webhooks" \in U!Triggers(surfaces, found)
    BY <1>3, <1>4, <1>5
  <2>3. cand.category \in U!Weighs("webhook_signature") /\ cand.category \in U!Named("webhook_signature")
    BY <1>5 DEF U!Weighs, U!Named
  <2> QED BY <1>1, <2>1, <2>2, <2>3
<1>6. CASE cand.category = "dangerous-sink"
  <2>1. "dangerous_sink" \in DOMAIN U!Trigger /\ U!Trigger["dangerous_sink"] = "sinks"
    BY DEF U!Trigger
  <2>2. "sinks" \in U!Triggers(surfaces, found)
    BY <1>3, <1>4, <1>6
  <2>3. cand.category \in U!Weighs("dangerous_sink") /\ cand.category \in U!Named("dangerous_sink")
    BY <1>6 DEF U!Weighs, U!Named
  <2> QED BY <1>1, <2>1, <2>2, <2>3
<1>7. CASE cand.category \in {"unsafe-redirect", "open-redirect"}
  <2>1. "redirect" \in DOMAIN U!Trigger /\ U!Trigger["redirect"] = "redirects"
    BY DEF U!Trigger
  <2>2. "redirects" \in U!Triggers(surfaces, found)
    BY <1>3, <1>4, <1>7
  <2>3. cand.category \in U!Weighs("redirect") /\ cand.category \in U!Named("redirect")
    BY <1>7 DEF U!Weighs, U!Named
  <2> QED BY <1>1, <2>1, <2>2, <2>3
<1>8. CASE cand.category \in U!SecretCategories
  <2>1. "secret_exposure" \in DOMAIN U!Trigger /\ U!Trigger["secret_exposure"] = "secrets"
    BY DEF U!Trigger
  <2>2. "secrets" \in U!Triggers(surfaces, found)
    BY <1>3, <1>4, <1>8
  <2>3. cand.category \in U!Weighs("secret_exposure") /\ cand.category \in U!Named("secret_exposure")
    BY <1>8 DEF U!Weighs, U!Named
  <2> QED BY <1>1, <2>1, <2>2, <2>3
<1>9. CASE cand.category = "expensive-api-abuse"
  <2>1. "rate_limit" \in DOMAIN U!Trigger /\ U!Trigger["rate_limit"] = "costly"
    BY DEF U!Trigger
  <2>2. "costly" \in U!Triggers(surfaces, found)
    BY <1>3, <1>4, <1>9
  <2>3. cand.category \in U!Weighs("rate_limit") /\ cand.category \in U!Named("rate_limit")
    BY <1>9 DEF U!Weighs, U!Named
  <2> QED BY <1>1, <2>1, <2>2, <2>3
<1> QED BY <1>5, <1>6, <1>7, <1>8, <1>9 DEF SecurityKinds, U!SecretCategories

\* What a report has to say of its candidates, by the invariant.
LEMMA ReportsAnswer == U!SecurityInv => U!CandidatesAreAnswered
<1> SUFFICES ASSUME U!SecurityInv, f # None, f.policy.enabled PROVE U!CandidatesAreAnswered
  BY DEF U!CandidatesAreAnswered
<1>1. U!ReportFits(f)
  BY DEF U!SecurityInv
<1>2. PICK found, demanded, settings, surfaces :
        /\ found = f.candidates /\ demanded = f.gates /\ settings = f.policy
        /\ surfaces = f.surfaces
  OBVIOUS
<1>3. /\ demanded = U!Gates(surfaces, found, settings)
      /\ f.obligations = U!Obligations(demanded, found)
      /\ f.findings = U!Findings(found, f.missing, demanded, settings)
  BY <1>1, <1>2 DEF U!ReportFits
<1>4. found = UNION {U!Candidates(file, f.read[file], f.policy.disabled, f.surfaces) : file \in f.scope}
  BY <1>1, <1>2 DEF U!ReportFits, U!Found
<1>5. ASSUME NEW cand \in found PROVE cand.category \in SecurityKinds
  <2>1. PICK file \in f.scope : cand \in U!Candidates(file, f.read[file], f.policy.disabled, f.surfaces)
    BY <1>4
  <2> QED BY <2>1, CandidatesHaveAKind
<1>6. ASSUME NEW cand \in found
      PROVE  /\ [of |-> "candidate", id |-> cand.fingerprint] \in f.findings
             /\ f.policy.gates /\ U!Rank(cand.severity) <= U!Rank(f.policy.minimum)
                /\ cand.category # "env-exposure"
                  => \E duty \in f.obligations : cand.fingerprint \in duty.refs
  <2>1. [of |-> "candidate", id |-> cand.fingerprint] \in f.findings
    BY <1>3 DEF U!Findings
  <2>2. ASSUME f.policy.gates, U!Rank(cand.severity) <= U!Rank(f.policy.minimum),
               cand.category # "env-exposure"
        PROVE  \E duty \in f.obligations : cand.fingerprint \in duty.refs
    <3>1. cand.category \in SecurityKinds \ {"env-exposure"}
      BY <1>5, <2>2
    <3>2. settings.gates /\ U!Rank(cand.severity) <= U!Rank(settings.minimum)
      BY <1>2, <2>2
    <3> QED BY <1>3, <3>1, <3>2, CandidatesAreNamed
  <2> QED BY <2>1, <2>2
<1>7. ASSUME NEW duty \in f.obligations
      PROVE  duty.gate \in f.gates /\ [of |-> "review", id |-> <<duty.gate>>] \in f.findings
  <2>1. PICK gate \in demanded :
          duty = [gate |-> gate, refs |-> {x.fingerprint : x \in {y \in found : U!Refers(gate, y)}}]
    BY <1>3 DEF U!Obligations
  <2>2. duty.gate = gate
    BY <2>1
  <2>3. [of |-> "review", id |-> <<gate>>] \in f.findings
    BY <1>3, <2>1 DEF U!Findings
  <2> QED BY <1>2, <2>1, <2>2, <2>3
<1> QED BY <1>2, <1>4, <1>6, <1>7 DEF U!CandidatesAreAnswered

\* What has been found in the files an audit has come to.
LEMMA SecurityEdited ==
  ASSUME U!SecurityInv, U!Edit
  PROVE  U!SecurityInv'
<1>1. f' = None /\ d' = d /\ e' = e
  BY DEF U!Edit
<1>2. DOMAIN a' = U!Paths
  <2>1. CASE \E file \in U!Paths : \E t \in PathTexts[file] : a' = [a EXCEPT ![file] = t]
    BY <2>1 DEF U!SecurityInv
  <2>2. CASE a' = a
    BY <2>2 DEF U!SecurityInv
  <2> QED BY <2>1, <2>2 DEF U!Edit
<1> QED BY <1>1, <1>2 DEF U!SecurityInv, U!EntryFits, U!JobFits, U!Found

LEMMA SecurityBegins ==
  ASSUME U!SecurityInv, U!Begin
  PROVE  U!SecurityInv'
<1>1. f' = None /\ d' = d /\ a' = a
  BY DEF U!Begin
<1>2. PICK full \in BOOLEAN :
        e' = [pc |-> "files", policy |-> b, surfaces |-> U!Surfaces(a), full |-> full,
              scope |-> {file \in U!Paths : a[file] # None}, read |-> a, next |-> 1, found |-> {},
              cache |-> d]
  BY DEF U!Begin
<1>3. PICK scope, surfaces : scope = {file \in U!Paths : a[file] # None} /\ surfaces = U!Surfaces(a)
  OBVIOUS
<1>4. PICK new : new = e'
  OBVIOUS
<1>5. /\ DOMAIN new = {"pc", "policy", "surfaces", "full", "scope", "read", "next", "found", "cache"}
      /\ new.policy = b /\ new.scope = scope /\ new.read = a /\ new.next = 1 /\ new.found = {}
      /\ new.cache = d /\ new.surfaces = surfaces
  BY <1>2, <1>3, <1>4
<1>6. {WalkedFiles[k] : k \in {n \in DOMAIN WalkedFiles : n < 1}} = {}
  <2>1. \A n \in DOMAIN WalkedFiles : n \in Nat \ {0}
    BY SecurityAssumption
  <2>2. {n \in DOMAIN WalkedFiles : n < 1} = {}
    BY <2>1
  <2> QED BY <2>2
<1>7. PICK visited : visited = {WalkedFiles[k] : k \in {n \in DOMAIN WalkedFiles : n < new.next}}
  OBVIOUS
<1>8. visited = {}
  BY <1>5, <1>6, <1>7
<1>9. U!Found(scope \cap visited, a, b, surfaces) = {}
  BY <1>8 DEF U!Found
<1>10. U!JobFits(new)
  <2>1. DOMAIN a = U!Paths /\ DOMAIN d = U!Paths /\ \A file \in U!Paths : U!EntryFits(file, d[file])
    BY DEF U!SecurityInv
  <2>2. scope \subseteq U!Paths
    BY <1>3
  <2>3. new.found = U!Found(new.scope \cap visited, new.read, new.policy, new.surfaces)
    BY <1>5, <1>9
  <2> QED BY <1>5, <1>7, <2>1, <2>2, <2>3 DEF U!JobFits
<1> QED BY <1>1, <1>4, <1>5, <1>10 DEF U!SecurityInv, U!EntryFits

\* The files an audit has come to before the n-th.
Visited(count) == {WalkedFiles[k] : k \in {n \in DOMAIN WalkedFiles : n < count}}

\* The walk visits one more file.
LEMMA VisitedNext ==
  ASSUME NEW count \in Nat \ {0}, count <= Len(WalkedFiles)
  PROVE  /\ Visited(count + 1) = Visited(count) \cup {WalkedFiles[count]}
         /\ WalkedFiles[count] \in U!Paths /\ WalkedFiles[count] \notin Visited(count)
<1>1. Len(WalkedFiles) \in Nat /\ DOMAIN WalkedFiles = 1 .. Len(WalkedFiles)
  BY SecurityAssumption
<1>2. count \in DOMAIN WalkedFiles
  BY <1>1
<1>3. {n \in DOMAIN WalkedFiles : n < count + 1} = {n \in DOMAIN WalkedFiles : n < count} \cup {count}
  BY <1>1, <1>2
<1>4. Visited(count + 1) = Visited(count) \cup {WalkedFiles[count]}
  BY <1>3 DEF Visited
<1>5. WalkedFiles[count] \notin Visited(count)
  <2> SUFFICES ASSUME NEW k \in DOMAIN WalkedFiles, k < count, WalkedFiles[k] = WalkedFiles[count]
               PROVE  FALSE
    BY DEF Visited
  <2>1. k = count
    BY <1>2, SecurityAssumption
  <2> QED BY <1>1, <2>1
<1> QED BY <1>2, <1>4, <1>5 DEF U!Paths

\* After the last file it has visited all of them.
LEMMA VisitedAll ==
  ASSUME NEW count \in Nat \ {0}, count > Len(WalkedFiles)
  PROVE  Visited(count) = U!Paths
<1>1. Len(WalkedFiles) \in Nat /\ DOMAIN WalkedFiles = 1 .. Len(WalkedFiles)
  BY SecurityAssumption
<1>2. {n \in DOMAIN WalkedFiles : n < count} = DOMAIN WalkedFiles
  BY <1>1
<1> QED BY <1>2 DEF Visited, U!Paths

\* One file more, whose text is the one that was read.
LEMMA FoundMore ==
  ASSUME NEW scope, NEW seen, NEW file, file \in scope, file \notin seen,
         NEW old, NEW new, NEW settings, NEW surfaces,
         \A other \in scope \cap seen : new[other] = old[other]
  PROVE  U!Found(scope \cap (seen \cup {file}), new, settings, surfaces) =
           U!Found(scope \cap seen, old, settings, surfaces)
             \cup U!Candidates(file, new[file], settings.disabled, surfaces)
<1>1. PICK one : one = {U!Candidates(other, old[other], settings.disabled, surfaces) : other \in scope \cap seen}
  OBVIOUS
<1>2. PICK two : two = {U!Candidates(other, new[other], settings.disabled, surfaces) :
                          other \in scope \cap (seen \cup {file})}
  OBVIOUS
<1>3. PICK more : more = U!Candidates(file, new[file], settings.disabled, surfaces)
  OBVIOUS
<1>4. two = one \cup {more}
  <2>1. ASSUME NEW x \in two PROVE x \in one \cup {more}
    <3>1. PICK other \in scope \cap (seen \cup {file}) :
            x = U!Candidates(other, new[other], settings.disabled, surfaces)
      BY <1>2
    <3>2. CASE other = file
      BY <1>3, <3>1, <3>2
    <3>3. CASE other # file
      <4>1. other \in scope \cap seen /\ new[other] = old[other]
        BY <3>1, <3>3
      <4> QED BY <1>1, <3>1, <4>1
    <3> QED BY <3>2, <3>3
  <2>2. ASSUME NEW x \in one PROVE x \in two
    <3>1. PICK other \in scope \cap seen :
            x = U!Candidates(other, old[other], settings.disabled, surfaces)
      BY <1>1, <2>2
    <3>2. new[other] = old[other] /\ other \in scope \cap (seen \cup {file})
      OBVIOUS
    <3> QED BY <1>2, <3>1, <3>2
  <2>3. more \in two
    BY <1>2, <1>3
  <2> QED BY <2>1, <2>2, <2>3
<1>5. UNION two = (UNION one) \cup more
  BY <1>4
<1> QED BY <1>1, <1>2, <1>3, <1>5 DEF U!Found

LEMMA SecurityScans ==
  ASSUME U!SecurityInv, U!ScanFile
  PROVE  U!SecurityInv'
<1>1. a' = a /\ d' = d /\ f' = f /\ e.pc = "files" /\ e.next <= Len(WalkedFiles)
  BY DEF U!ScanFile
<1>2. /\ DOMAIN e = {"pc", "policy", "surfaces", "full", "scope", "read", "next", "found", "cache"}
      /\ U!JobFits(e)
  BY <1>1 DEF U!SecurityInv
<1>3. PICK file, seen, count :
        file = WalkedFiles[e.next] /\ seen = Visited(e.next) /\ count = e.next + 1
  OBVIOUS
<1>4. /\ DOMAIN e.read = U!Paths /\ DOMAIN e.cache = U!Paths /\ e.scope \subseteq U!Paths
      /\ \A other \in U!Paths : U!EntryFits(other, e.cache[other])
      /\ e.next \in Nat \ {0}
      /\ e.found = U!Found(e.scope \cap seen, e.read, e.policy, e.surfaces)
  BY <1>2, <1>3 DEF U!JobFits, Visited
<1>5. file \in U!Paths /\ file \notin seen /\ Visited(count) = seen \cup {file} /\ count \in Nat \ {0}
  BY <1>1, <1>3, <1>4, VisitedNext
<1>6. PICK text : text = IF e.full THEN e.read[file] ELSE a[file]
  OBVIOUS
<1>7. PICK key : key = [text |-> text, full |-> e.full, context |-> U!Context(e.policy, e.surfaces)]
  OBVIOUS
<1>8. PICK more : more = U!Candidates(file, text, e.policy.disabled, e.surfaces)
  OBVIOUS
<1>9. PICK result : result = U!GetOrCompute(d[file], key, more)
  OBVIOUS
<1>10. IF file \notin e.scope THEN e' = [e EXCEPT !.next = count]
       ELSE IF text = None THEN e' = U!Idle
       ELSE e' = [e EXCEPT !.next = count, !.read[file] = text, !.found = e.found \cup result,
                    !.cache[file] = [key |-> key, result |-> result]]
  BY <1>3, <1>6, <1>7, <1>8, <1>9 DEF U!ScanFile
<1>11. key.text = text /\ key.context[1] = e.policy.disabled /\ key.context[2] = e.surfaces
  BY <1>7 DEF U!Context
<1>12. result = more
  <2>1. U!EntryFits(file, d[file])
    BY <1>5 DEF U!SecurityInv
  <2>2. CASE d[file] # None /\ d[file].key = key
    <3>1. d[file].result = U!Candidates(file, key.text, key.context[1], key.context[2])
      BY <2>1, <2>2 DEF U!EntryFits
    <3> QED BY <1>8, <1>9, <1>11, <2>2, <3>1 DEF U!GetOrCompute
  <2> QED BY <1>9, <2>2 DEF U!GetOrCompute
<1>13. CASE file \notin e.scope
  <2>1. PICK new : new = e'
    OBVIOUS
  <2>2. /\ DOMAIN new = DOMAIN e /\ new.next = count /\ new.scope = e.scope /\ new.read = e.read
        /\ new.found = e.found /\ new.cache = e.cache /\ new.policy = e.policy
        /\ new.surfaces = e.surfaces /\ new.pc = "files"
    BY <1>1, <1>2, <1>10, <1>13, <2>1
  <2>3. e.scope \cap (seen \cup {file}) = e.scope \cap seen
    BY <1>13
  <2>4. new.found = U!Found(new.scope \cap Visited(new.next), new.read, new.policy, new.surfaces)
    BY <1>4, <1>5, <2>2, <2>3
  <2>5. U!JobFits(new)
    BY <1>4, <1>5, <2>2, <2>4 DEF U!JobFits, Visited
  <2> QED BY <1>1, <1>2, <2>1, <2>2, <2>5 DEF U!SecurityInv, U!ReportFits
<1>14. CASE file \in e.scope /\ text = None
  <2>1. e'.pc = "idle"
    BY <1>10, <1>14 DEF U!Idle
  <2> QED BY <1>1, <2>1 DEF U!SecurityInv, U!ReportFits
<1>15. CASE file \in e.scope /\ text # None
  <2>1. PICK new : new = e'
    OBVIOUS
  <2>2. PICK entry, reading, caching :
          /\ entry = [key |-> key, result |-> result]
          /\ reading = [e.read EXCEPT ![file] = text] /\ caching = [e.cache EXCEPT ![file] = entry]
    OBVIOUS
  <2>3. new = [e EXCEPT !.next = count, !.read = reading, !.found = e.found \cup result, !.cache = caching]
    BY <1>2, <1>10, <1>15, <2>1, <2>2
  <2>4. /\ DOMAIN new = DOMAIN e /\ new.next = count /\ new.scope = e.scope /\ new.read = reading
        /\ new.found = e.found \cup result /\ new.cache = caching /\ new.policy = e.policy
        /\ new.surfaces = e.surfaces /\ new.pc = "files"
    BY <1>1, <1>2, <2>3
  <2>5. /\ DOMAIN reading = U!Paths /\ DOMAIN caching = U!Paths
        /\ reading[file] = text /\ caching[file] = entry
        /\ \A other \in U!Paths \ {file} : reading[other] = e.read[other] /\ caching[other] = e.cache[other]
    BY <1>4, <1>5, <2>2
  <2>6. U!EntryFits(file, entry)
    <3>1. entry.key = key /\ entry.result = more
      BY <1>12, <2>2
    <3>2. entry.result = U!Candidates(file, entry.key.text, entry.key.context[1], entry.key.context[2])
      BY <1>8, <1>11, <3>1
    <3> QED BY <3>2 DEF U!EntryFits
  <2>7. ASSUME NEW other \in U!Paths PROVE U!EntryFits(other, caching[other])
    BY <1>4, <2>5, <2>6
  <2>8. U!Found(e.scope \cap (seen \cup {file}), reading, e.policy, e.surfaces) =
          U!Found(e.scope \cap seen, e.read, e.policy, e.surfaces) \cup more
    <3>1. \A other \in e.scope \cap seen : reading[other] = e.read[other]
      BY <1>4, <1>5, <2>5
    <3>2. U!Found(e.scope \cap (seen \cup {file}), reading, e.policy, e.surfaces) =
            U!Found(e.scope \cap seen, e.read, e.policy, e.surfaces)
              \cup U!Candidates(file, reading[file], e.policy.disabled, e.surfaces)
      BY <1>5, <1>15, <3>1, FoundMore
    <3> QED BY <1>8, <2>5, <3>2
  <2>9. new.found = U!Found(new.scope \cap Visited(new.next), new.read, new.policy, new.surfaces)
    BY <1>4, <1>5, <1>12, <2>4, <2>8
  <2>10. U!JobFits(new)
    BY <1>4, <1>5, <2>4, <2>5, <2>7, <2>9 DEF U!JobFits, Visited
  <2> QED BY <1>1, <1>2, <2>1, <2>4, <2>10 DEF U!SecurityInv, U!ReportFits
<1> QED BY <1>13, <1>14, <1>15

LEMMA SecurityFinishes ==
  ASSUME U!SecurityInv, U!Finish
  PROVE  U!SecurityInv'
<1>1. a' = a /\ e.pc = "files" /\ e.next > Len(WalkedFiles) /\ d' = e.cache /\ e' = U!Idle
  BY DEF U!Finish
<1>2. U!JobFits(e)
  BY <1>1 DEF U!SecurityInv
<1>3. PICK settings, found, demanded, missing :
        /\ settings = e.policy /\ found = e.found
        /\ demanded = U!Gates(e.surfaces, e.found, e.policy) /\ missing = U!Lacking(c, e.policy)
  OBVIOUS
<1>4. PICK new : new = f'
  OBVIOUS
<1>5. /\ new.candidates = found /\ new.gates = demanded /\ new.policy = settings
      /\ new.read = e.read /\ new.scope = e.scope /\ new.surfaces = e.surfaces
      /\ new.missing = missing /\ new.obligations = U!Obligations(demanded, found)
      /\ new.findings = U!Findings(found, missing, demanded, settings)
  BY <1>3, <1>4 DEF U!Finish
<1>6. e.scope \cap Visited(e.next) = e.scope
  BY <1>1, <1>2, VisitedAll DEF U!JobFits
<1>7. found = U!Found(e.scope \cap Visited(e.next), e.read, e.policy, e.surfaces)
  BY <1>2, <1>3 DEF U!JobFits, Visited
<1>8. new.candidates = U!Found(new.scope, new.read, new.policy, new.surfaces)
  BY <1>3, <1>5, <1>6, <1>7
<1>9. U!ReportFits(new)
  BY <1>3, <1>5, <1>8 DEF U!ReportFits
<1>10. DOMAIN a' = U!Paths /\ DOMAIN d' = U!Paths /\ \A file \in U!Paths : U!EntryFits(file, d'[file])
  BY <1>1, <1>2 DEF U!SecurityInv, U!JobFits
<1>11. e'.pc = "idle"
  BY <1>1 DEF U!Idle
<1> QED BY <1>4, <1>9, <1>10, <1>11 DEF U!SecurityInv, U!EntryFits

LEMMA SecurityStands ==
  ASSUME U!SecurityInv, UNCHANGED <<a, b, c, d, e, f, g, h>>
  PROVE  U!SecurityInv'
BY DEF U!SecurityInv, U!JobFits, U!EntryFits, U!ReportFits

LEMMA SecurityStep == ASSUME U!SecurityInv, U!Next PROVE U!SecurityInv'
<1>1. CASE U!Skip
  <2>1. a' = a /\ d' = d /\ e' = U!Idle /\ f'.policy = e.policy /\ ~e.policy.enabled
    BY <1>1 DEF U!Skip
  <2>2. e'.pc = "idle" /\ ~f'.policy.enabled
    BY <2>1 DEF U!Idle
  <2> QED BY <2>1, <2>2 DEF U!SecurityInv, U!EntryFits
<1>2. CASE U!Die
  <2>1. a' = a /\ d' = d /\ f' = f /\ e' = U!Idle
    BY <1>2 DEF U!Die
  <2>2. e'.pc = "idle"
    BY <2>1 DEF U!Idle
  <2> QED BY <2>1, <2>2 DEF U!SecurityInv, U!EntryFits, U!ReportFits
<1> QED BY <1>1, <1>2, SecurityEdited, SecurityBegins, SecurityScans, SecurityFinishes DEF U!Next

LEMMA SecurityInit == ASSUME U!Init PROVE U!SecurityInv
<1>1. DOMAIN a = U!Paths /\ f = None /\ e.pc = "idle"
  BY DEF U!Init, U!Idle
<1>2. DOMAIN d = U!Paths /\ \A file \in U!Paths : d[file] = None
  BY DEF U!Init
<1> QED BY <1>1, <1>2 DEF U!SecurityInv, U!EntryFits

(* Every cached result is of the text and the context of its key, and an     *)
(* audit has found what there is in the files it has come to: the security   *)
(* scan of an audit and its analysis cache.                                 *)
THEOREM SecurityKept == Parts => [](part = "security" => U!SecurityInv)
<1>1. PartsInit => (part = "security" => U!SecurityInv)
  BY SecurityInit DEF PartsInit
<1>2. (part = "security" => U!SecurityInv) /\ [PartsNext]_parts => (part = "security" => U!SecurityInv)'
  <2> SUFFICES ASSUME part = "security" => U!SecurityInv, [PartsNext]_parts, part' = "security"
               PROVE  U!SecurityInv'
    OBVIOUS
  <2>1. U!SecurityInv /\ (U!Next \/ UNCHANGED <<a, b, c, d, e, f, g, h>>)
    BY DEF PartsNext, parts
  <2> QED BY <2>1, SecurityStep, SecurityStands
<1> QED BY <1>1, <1>2, PTL DEF Parts

(* What an audit reports is what a scan of the texts it read would find, and *)
(* every candidate that weighs enough is asked about: security/scan.py and   *)
(* security/review_obligations.py.                                          *)
THEOREM CandidatesAnswered == Parts => []CandidatesAreAnswered
<1>1. (part = "security" => U!SecurityInv) => CandidatesAreAnswered
  BY ReportsAnswer DEF CandidatesAreAnswered
<1> QED BY <1>1, SecurityKept, PTL

=============================================================================
