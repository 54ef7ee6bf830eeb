---------------------------- MODULE QualitySkills ----------------------------
(***************************************************************************)
(* Quality skills: packs of rules and reviews.  Commands ingest a pack     *)
(* into a repository, append one to a pack of the corpus and synchronize   *)
(* the corpus into repositories, file by file; an audit selects packs,     *)
(* evaluates their rules and asks an agent for their reviews.              *)
(***************************************************************************)
EXTENDS Naturals, Sequences, FiniteSets, TLC

CONSTANTS
  Repos, Ids,
  Text,         \* file -> what can be matched in it
  Candidates,   \* packs somebody wants to ingest or to append
  Sections,     \* how a repository may be configured
  OwnPacks,     \* pack id -> pack a repository has of its own
  Corpus,       \* [active, packs: id -> pack]
  Globals,      \* how the user may be configured
  Score,        \* pack id -> how relevant it is, in hundredths
  Requested,    \* what --agent-review-mode may say, or None
  MaxCommands, MaxAudits, MaxDeaths,
  None, Torn

VARIABLES
  section,      \* repository -> its skill section
  files,        \* repository -> pack id -> pack, None or Torn
  corpus,       \* pack id -> pack or Torn
  global,       \* the user's configuration, or None
  writes,       \* what the running command has still to write
  audit,        \* the audit that is under way, or None
  handoff,      \* the latest one, or None
  spent         \* commands, audits and deaths so far

vars == <<section, files, corpus, global, writes, audit, handoff, spent>>

-----------------------------------------------------------------------------
(* Packs.  A rule is [id, kind, bad, unless, broken, paths]; `garbled` says *)
(* that a text of several lines holds a backslash.                         *)

Compiled(rule, patterns) == patterns \ rule.broken

\* ingest refuses a pack with a pattern that does not compile.
Ingestible(pack) == \A rule \in pack.rules : rule.broken = {}

\* canonical_skill_toml does not escape what it writes between triple quotes,
\* so such a file cannot be read.
Written(pack) == IF pack.garbled THEN Torn ELSE pack

Readable(file) == file \notin {None, Torn}

Namespaced(source, items) == {[x EXCEPT !.id = <<source>> \o x.id] : x \in items}

ItemIds(items) == {x.id : x \in items}

\* Appending is refused for a source that is in the pack, or ids it has.
Appendable(source, pack, target) ==
  /\ Ingestible(pack)
  /\ Readable(target)
  /\ source \notin target.sources
  /\ ItemIds(Namespaced(source, pack.rules)) \cap ItemIds(target.rules) = {}
  /\ ItemIds(Namespaced(source, pack.reviews)) \cap ItemIds(target.reviews) = {}

Appended(source, pack, target) ==
  [rules |-> target.rules \cup Namespaced(source, pack.rules),
   reviews |-> target.reviews \cup Namespaced(source, pack.reviews),
   sources |-> target.sources \cup {source},
   garbled |-> pack.garbled \/ target.garbled]

-----------------------------------------------------------------------------
(* The section of a repository: [enabled, global, active, local, mode,     *)
(* exclude, always], where `enabled` is "on", "off" or None, local maps    *)
(* ids to the files they apply to, and no active list means all of them.   *)

\* Mutant: activating packs replaces the active list.
ActiveReplaced(s, activate, replace) == activate

ActiveAfter(s, activate, replace) ==
  activate \cup (IF replace \/ s.active = None THEN {} ELSE s.active)

\* The block is written anew; an empty active list and the review mode are not
\* written.
Updated(s, ids, activate, replace) ==
  LET active == ActiveAfter(s, activate, replace)
  IN  [s EXCEPT !.enabled = "on", !.mode = None,
         !.active = IF active = {} THEN None ELSE active,
         !.local = @ @@ [id \in ids |-> DOMAIN Text]]

IsActive(s, id) == s.active = None \/ id \in s.active

\* The packs a repository has of its own, with the files they apply to.
LocalPacks(s, disk) ==
  LET ids == {id \in DOMAIN s.local :
                s.enabled = "on" /\ IsActive(s, id) /\ Readable(disk[id])}
  IN  [id \in ids |-> [pack |-> disk[id], applies |-> s.local[id]]]

-----------------------------------------------------------------------------
(* Selection from the corpus.                                              *)

\* The members of a set in one order or another.
Listed(S) ==
  LET list[some \in SUBSET S] ==
        IF some = {} THEN <<>>
        ELSE LET next == CHOOSE x \in some : TRUE IN <<next>> \o list[some \ {next}]
  IN  list[S]

\* The order of the ids.
InOrder == Listed(Ids)

Place(id) == CHOOSE k \in DOMAIN InOrder : InOrder[k] = id

\* One pack that cannot be read makes the corpus unavailable.
CorpusLoads == \A id \in DOMAIN corpus : Readable(corpus[id])

Eligible ==
  IF global.active # {} THEN global.active
  ELSE IF Corpus.active # {} THEN Corpus.active ELSE DOMAIN corpus

Pinned(s) == global.always \cup s.always

Relevant(s, id) ==
  \/ id \in Pinned(s)
  \/ global.mode = "all"
  \/ Score[id] >= global.minimum

Wanted(s, disk) ==
  {id \in DOMAIN corpus \cap Eligible :
     /\ id \notin global.exclude \cup s.exclude
     /\ id \notin DOMAIN LocalPacks(s, disk)
     /\ Relevant(s, id)}

Rank(s, id) == IF id \in Pinned(s) THEN 1000 + Score[id] ELSE Score[id]

\* By rank, and in the order of the ids within one.
Ahead(s, x, y) ==
  \/ Rank(s, x) > Rank(s, y)
  \/ x # y /\ Rank(s, x) = Rank(s, y) /\ Place(x) < Place(y)

GlobalPacks(s, disk) ==
  LET wanted == Wanted(s, disk)
      kept == {id \in wanted : Cardinality({x \in wanted : Ahead(s, x, id)}) < global.limit}
  IN  IF s.enabled = "off" \/ ~s.global \/ global = None \/ ~CorpusLoads THEN <<>>
      ELSE [id \in kept |-> [pack |-> corpus[id], applies |-> DOMAIN Text]]

Selected(s, disk) == LocalPacks(s, disk) @@ GlobalPacks(s, disk)

-----------------------------------------------------------------------------
(* What a scan makes of the selected packs.                                *)

Skipped(rule) ==
  \/ Compiled(rule, rule.bad) = {}
  \/ rule.kind = "unless" /\ Compiled(rule, rule.unless) = {}

Finds(rule, text) ==
  IF rule.kind = "import" THEN (rule.bad \ rule.unless) \cap text # {}
  ELSE /\ Compiled(rule, rule.bad) \cap text # {}
       /\ Compiled(rule, rule.unless) \cap text = {}

\* The rule of a selected pack is skipped, has no file, or is evaluated on some.
Evaluated(id, packs) ==
  UNION {{<<id, rule.id, f, Finds(rule, Text[f])>> : f \in rule.paths \cap packs[id].applies} :
           rule \in {x \in packs[id].pack.rules : ~Skipped(x)}}

Covered(packs) == UNION {Evaluated(id, packs) : id \in DOMAIN packs}

Reviews(packs) ==
  UNION {{<<id, x.id>> : x \in packs[id].pack.reviews} : id \in DOMAIN packs}

-----------------------------------------------------------------------------
(* The agent's report, and what it does to the handoff.                    *)

\* Mutant: what is asked for goes before the profile.
RequestedFirst(profile, requested, configured) ==
  IF requested # None THEN requested
  ELSE IF profile = "release" THEN "required"
  ELSE IF configured # None THEN configured ELSE "auto"

ReviewMode(profile, requested, configured) ==
  IF profile = "release" THEN "required"
  ELSE IF requested # None THEN requested
  ELSE IF configured # None THEN configured ELSE "auto"

\* A report names the reviews it covers; it is held to them in two modes.
ReviewStatus(reviews, report, mode) ==
  IF reviews = {} THEN None
  ELSE IF report = None
       THEN IF mode = "off" THEN "not-run"
            ELSE IF mode = "required" THEN "review-required" ELSE "review-pending"
  ELSE IF mode \in {"auto", "required"} /\ report # reviews THEN "review-rejected"
  ELSE "reviewed"

HandoffNeedsReview(status) == status \in {"review-required", "review-rejected"}

-----------------------------------------------------------------------------
(* Commands.  Each plans all it writes before it writes.                   *)

FileWrite(r, id, pack) ==
  [kind |-> "file", repo |-> r, ids |-> {id}, pack |-> Written(pack),
   activate |-> {}, replace |-> FALSE]

ConfigWrite(r, ids, activate, replace) ==
  [kind |-> "config", repo |-> r, ids |-> ids, pack |-> None,
   activate |-> activate, replace |-> replace]

Command(planned) ==
  /\ writes = <<>>
  /\ spent.commands < MaxCommands
  /\ spent' = [spent EXCEPT !.commands = @ + 1]
  /\ writes' = planned
  /\ UNCHANGED <<section, files, corpus, global, audit, handoff>>

\* ingest_skill_pack.
Ingest(r) ==
  \E id \in DOMAIN Candidates, activate \in BOOLEAN :
    /\ Ingestible(Candidates[id])
    /\ Command(<<FileWrite(r, id, Candidates[id]),
                 ConfigWrite(r, {id}, IF activate THEN {id} ELSE {}, FALSE)>>)

\* append_skill_to_corpus.
AppendToCorpus ==
  \E source \in DOMAIN Candidates, id \in DOMAIN corpus :
    /\ CorpusLoads
    /\ Appendable(source, Candidates[source], corpus[id])
    /\ Command(<<FileWrite(None, id, Appended(source, Candidates[source], corpus[id]))>>)

\* What a synchronization changes in one repository.
SyncWrites(r, replace) ==
  LET changed == {id \in DOMAIN corpus : files[r][id] # Written(corpus[id])}
  IN  [k \in 1..Cardinality(changed) |->
         FileWrite(r, Listed(changed)[k], corpus[Listed(changed)[k]])]
      \o <<ConfigWrite(r, DOMAIN corpus, Corpus.active, replace)>>

\* sync_skill_corpus.
Sync ==
  \E repos \in SUBSET Repos \ {{}}, replace \in BOOLEAN :
    /\ CorpusLoads
    /\ LET planned[k \in 0..Cardinality(repos)] ==
             IF k = 0 THEN <<>> ELSE planned[k - 1] \o SyncWrites(Listed(repos)[k], replace)
       IN  Command(planned[Cardinality(repos)])

Empty(s) ==
  [s EXCEPT !.enabled = None, !.global = TRUE, !.active = None, !.local = <<>>, !.mode = None,
            !.exclude = {}, !.always = {}]

\* The next file; a death while it is written leaves it empty, and the rest as
\* it was.
Write(dies) ==
  /\ writes # <<>>
  /\ dies => spent.deaths < MaxDeaths
  /\ spent' = [spent EXCEPT !.deaths = @ + (IF dies THEN 1 ELSE 0)]
  /\ writes' = IF dies THEN <<>> ELSE Tail(writes)
  /\ LET w == Head(writes)
         written == IF dies THEN Torn ELSE w.pack
     IN  \/ /\ w.kind = "config"
            /\ section' = [section EXCEPT ![w.repo] =
                             IF dies THEN Empty(@) ELSE Updated(@, w.ids, w.activate, w.replace)]
            /\ UNCHANGED <<files, corpus>>
         \/ /\ w.kind = "file" /\ w.repo = None
            /\ corpus' = [id \in DOMAIN corpus |-> IF id \in w.ids THEN written ELSE corpus[id]]
            /\ UNCHANGED <<section, files>>
         \/ /\ w.kind = "file" /\ w.repo # None
            /\ files' = [files EXCEPT ![w.repo] =
                           [id \in Ids |-> IF id \in w.ids THEN written ELSE @[id]]]
            /\ UNCHANGED <<section, corpus>>
  /\ UNCHANGED <<global, audit, handoff>>

-----------------------------------------------------------------------------
(* Audits.                                                                 *)

\* A report answers some of what the latest packet asked for.
Reports == {None} \cup (IF handoff = None THEN {} ELSE SUBSET handoff.packet)

\* The scan selects the packs.
Scan(r) ==
  /\ audit = None
  /\ spent.audits < MaxAudits
  /\ spent' = [spent EXCEPT !.audits = @ + 1]
  /\ \E profile \in {"default", "release"}, requested \in Requested, report \in Reports :
       LET mode == ReviewMode(profile, requested, section[r].mode)
           reviews == Reviews(Selected(section[r], files[r]))
       IN  audit' = [repo |-> r, section |-> section[r], profile |-> profile, mode |-> mode, reviews |-> reviews,
                     report |-> report, status |-> ReviewStatus(reviews, report, mode)]
  /\ UNCHANGED <<section, files, corpus, global, writes, handoff>>

\* The packs are loaded again for the packet, with the configuration that the
\* scan read, and the handoff is written.
Finish ==
  /\ audit # None
  /\ audit' = None
  /\ handoff' = [profile |-> audit.profile, reviews |-> audit.reviews, report |-> audit.report,
                 blocked |-> HandoffNeedsReview(audit.status),
                 packet |-> IF audit.mode = "off" THEN {} ELSE Reviews(Selected(audit.section, files[audit.repo]))]
  /\ UNCHANGED <<section, files, corpus, global, writes, spent>>

Init ==
  /\ section \in [Repos -> Sections]
  /\ files = [r \in Repos |-> [id \in Ids |-> IF id \in DOMAIN OwnPacks THEN OwnPacks[id] ELSE None]]
  /\ corpus = Corpus.packs
  /\ global \in Globals
  /\ writes = <<>> /\ audit = None /\ handoff = None
  /\ spent = [commands |-> 0, audits |-> 0, deaths |-> 0]

Next ==
  \/ \E r \in Repos : Ingest(r) \/ Scan(r)
  \/ AppendToCorpus \/ Sync \/ Finish
  \/ \E dies \in BOOLEAN : Write(dies)

Spec == Init /\ [][Next]_vars

-----------------------------------------------------------------------------
\* What this write does is to add: it can be read afterwards, and no active list
\* takes the place of none.
Adds(w) ==
  /\ w.repo # None /\ w.pack # Torn
  /\ ~w.replace
  /\ section[w.repo].active = None => w.activate = {} \/ DOMAIN section[w.repo].local = {}

CoveredIn(r) == Covered(Selected(section[r], files[r]))

\* Ingesting and synchronizing take no other pack's rule from any file it was
\* evaluated on, and what they activate is in force if it can be read.
KeepsCoverage ==
  (writes # <<>> /\ writes' = Tail(writes) /\ spent' = spent /\ Adds(Head(writes))) =>
    LET w == Head(writes)
    IN  /\ \A r \in Repos : \A x \in CoveredIn(r) :
             x[1] \notin w.ids => x \in CoveredIn(r)'
        /\ w.kind = "config" =>
             \A id \in w.activate :
               Readable(files[w.repo][id]) => id \in DOMAIN LocalPacks(section'[w.repo], files[w.repo])

CommandsAreAdditive == [][KeepsCoverage]_vars

\* A release handoff that asks for no review was made with a report that named
\* every review of the packs it was made with.
ReleaseIsReviewed ==
  handoff # None /\ handoff.profile = "release" /\ ~handoff.blocked =>
    handoff.reviews = {} \/ handoff.report = handoff.reviews
-----------------------------------------------------------------------------
(* The invariant of the proof: a release audit is one that requires its      *)
(* reviews, and its status is that of its report.                           *)
ReviewsInv ==
  /\ audit # None =>
       /\ audit.profile = "release" => audit.mode = "required"
       /\ audit.status = ReviewStatus(audit.reviews, audit.report, audit.mode)
  /\ ReleaseIsReviewed
===============================================================================
