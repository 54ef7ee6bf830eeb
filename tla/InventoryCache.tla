--------------------------- MODULE InventoryCache ---------------------------
(***************************************************************************)
(* The cached inventory of a repository. Its key is what git says of the   *)
(* working tree, if it says anything: a command that fails, or is not done *)
(* in five seconds, reads as no commit or as a clean tree. On a miss the   *)
(* inventory is built after the key was taken.                             *)
(***************************************************************************)
EXTENDS Integers, FiniteSets

CONSTANTS
  Processes,
  Tracked,    \* names of tracked files: natural numbers, in path order
  Untracked,  \* name of a file that git does not track
  Inside,     \* name of a file in a directory git does not track
  Contents, Branches,
  MaxChanges, \* bound on the changes of the repository, and on the keys for
              \* which git does not answer in full
  Nothing

VARIABLES
  repo,    \* [git, branch, head, index, files]
  cache,   \* key -> [of, said], the repository an inventory was built from
           \* and the git commands that had answered for its key
  scan,    \* process -> [key, said] it builds for, or Nothing
  shown,   \* the latest inventory: [hit, of, at, said], the repository then
           \* and the commands that answered for it, now and when it was built
  changes,  \* of the repository, and keys for which git did not answer in full
  raced    \* the repository changed while an inventory was built

vars == <<repo, cache, scan, shown, changes, raced>>

Files == Tracked \cup {Untracked, Inside}

-----------------------------------------------------------------------------
\* git status --porcelain: tracked files in the order of their paths, then
\* what is not tracked, a directory of nothing else by its own name.
Listed(r) == {f \in Tracked : r.index[f] # r.head[f] \/ r.files[f] # r.index[f]}

\* The output is stripped: if it begins with the space of a file of which
\* nothing is staged, that name loses a character and names no file.
Cut(r) ==
  {f \in Listed(r) : r.index[f] = r.head[f] /\ \A o \in Listed(r) : f <= o}

\* Mutant: what differs is in the key, but not how.
DigestByName(r, f) == Nothing

\* _file_digest: directories, and files that are not there, have none.
Digest(r, f) ==
  IF f = Inside \/ f \in Cut(r) THEN Nothing ELSE r.files[f]

\* The git commands of a key: rev-parse HEAD and status.
Commands == {"head", "status"}

\* inventory_key, when the commands in said have answered
Key(r, said) ==
  IF ~r.git THEN [head |-> Nothing, dirty |-> {}]
  ELSE [head  |-> IF "head" \in said THEN r.head ELSE Nothing,
        dirty |-> IF "status" \notin said THEN {}
                  ELSE {<<f, Digest(r, f)>> : f \in Listed(r)}
                       \cup {<<f, Digest(r, f)>> : f \in {u \in {Untracked, Inside} : r.files[u] # Nothing}}]

-----------------------------------------------------------------------------
Init ==
  /\ \E v \in Contents, index \in [Tracked -> Contents] :
       repo \in [git : BOOLEAN, branch : Branches, head : {[f \in Tracked |-> v]},
                index : {index}, files : {[f \in Files |-> IF f \in Tracked THEN index[f] ELSE Nothing]}]
  /\ cache = <<>>
  /\ scan = [p \in Processes |-> Nothing]
  /\ shown = Nothing
  /\ changes = 0
  /\ raced = FALSE

\* _git: a command fails, is not there, or is given up after five seconds.
Ask(said) ==
  /\ said = Commands \/ changes < MaxChanges
  /\ changes' = IF said = Commands THEN changes ELSE changes + 1

\* load_or_build_inventory, of an inventory that is there
Hit(p, said) ==
  LET key == Key(repo, said) IN
  /\ scan[p] = Nothing
  /\ Ask(said)
  /\ key \in DOMAIN cache
  /\ shown' = [hit |-> TRUE, of |-> cache[key].of, at |-> repo, said |-> said \cap cache[key].said]
  /\ UNCHANGED <<repo, cache, scan, raced>>

Miss(p, said) ==
  /\ scan[p] = Nothing
  /\ Ask(said)
  /\ Key(repo, said) \notin DOMAIN cache
  /\ scan' = [scan EXCEPT ![p] = [key |-> Key(repo, said), said |-> said]]
  /\ UNCHANGED <<repo, cache, shown, raced>>

Build(p) ==
  /\ scan[p] # Nothing
  /\ cache' = [k \in DOMAIN cache \cup {scan[p].key} |->
                 IF k = scan[p].key THEN [of |-> repo, said |-> scan[p].said] ELSE cache[k]]
  /\ shown' = [hit |-> FALSE, of |-> repo, at |-> repo, said |-> scan[p].said]
  /\ scan' = [scan EXCEPT ![p] = Nothing]
  /\ UNCHANGED <<repo, changes, raced>>

\* A process that ends in a build has replaced no file.
Die(p) ==
  /\ scan[p] # Nothing
  /\ scan' = [scan EXCEPT ![p] = Nothing]
  /\ UNCHANGED <<repo, cache, shown, changes, raced>>

Change(r) ==
  /\ changes < MaxChanges
  /\ r # repo
  /\ repo' = r
  /\ changes' = changes + 1
  /\ raced' = (raced \/ \E p \in Processes : scan[p] # Nothing)
  /\ UNCHANGED <<cache, scan, shown>>

Edit == \E f \in Files, v \in Contents : Change([repo EXCEPT !.files[f] = v])

Stage == \E f \in Tracked : repo.git /\ Change([repo EXCEPT !.index[f] = repo.files[f]])

Commit == repo.git /\ Change([repo EXCEPT !.head = repo.index])

Switch == \E b \in Branches : repo.git /\ Change([repo EXCEPT !.branch = b])

Next ==
  \/ \E p \in Processes, said \in SUBSET Commands : Hit(p, said) \/ Miss(p, said)
  \/ \E p \in Processes : Build(p) \/ Die(p)
  \/ Edit \/ Stage \/ Commit \/ Switch

Spec == Init /\ [][Next]_vars

-----------------------------------------------------------------------------
WorkTrees ==
  [git : BOOLEAN, branch : Branches, head : [Tracked -> Contents], index : [Tracked -> Contents],
   files : {v \in [Files -> Contents \cup {Nothing}] : \A f \in Tracked : v[f] \in Contents}]

\* Invariant of the proof: as long as no change raced a build, everything cached,
\* being built and shown is of the key it stands for, as far as git had answered.
KeyedInv ==
  /\ repo \in WorkTrees /\ DOMAIN scan = Processes
  /\ ~raced =>
       /\ \A p \in Processes : scan[p] # Nothing => scan[p].key = Key(repo, scan[p].said)
       /\ \A k \in DOMAIN cache :
            /\ cache[k].of \in WorkTrees /\ Key(cache[k].of, cache[k].said) = k
            /\ cache[k].of.git = repo.git
       /\ shown # Nothing =>
            /\ shown.of \in WorkTrees /\ shown.at \in WorkTrees /\ shown.of.git = shown.at.git
            /\ \E old, now : /\ shown.said \subseteq old \cap now
                             /\ Key(shown.of, old) = Key(shown.at, now)

-----------------------------------------------------------------------------
\* What a key cannot see of a repository.
Unseen(r) == IF r.git THEN Cut(r) \cup {Inside} ELSE Files

(* A cached inventory is of the same commit if git answered which that is,  *)
(* and shows every file that git can tell apart as it is now if git         *)
(* answered in full, both now and when it was built; unless the repository  *)
(* changed between a key and the inventory built for it.                    *)
HitShowsWhatIsKeyed ==
  (shown # Nothing /\ ~raced) =>
    /\ (shown.at.git /\ "head" \in shown.said) => shown.of.head = shown.at.head
    /\ shown.said = Commands =>
         \A f \in Files \ Unseen(shown.at) : shown.of.files[f] = shown.at.files[f]

(* docs/artifacts.md: "Cache keys include the relative source path,         *)
(* source-content digest": of a tracked file the inventory shows what is    *)
(* there, if git answered in full.                                          *)
TrackedIsCurrent ==
  (shown # Nothing /\ ~raced /\ shown.at.git /\ shown.said = Commands) =>
    \A f \in Tracked : shown.of.files[f] = shown.at.files[f]
=============================================================================
