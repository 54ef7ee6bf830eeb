------------------------------ MODULE ScanScope ------------------------------
(***************************************************************************)
(* Which files of a repository a scan reads: a walk of the directory tree  *)
(* that leaves out generated, artifact, ignored and excluded directories   *)
(* unless they are included by name, then excluded files, then all after   *)
(* the first so many.  Every directory of the model holds one text file,   *)
(* so that a file is named by its directory.                               *)
(***************************************************************************)
EXTENDS Naturals, Sequences, FiniteSets, Functions

CONSTANTS
  Walk,         \* the directories, in the order of the walk
  Above,        \* directory -> itself and the directories it is in, transitively
  Always,       \* directories such as dist and node_modules, never read by default
  Generated,    \* directories that discovery found to hold generated code
  Ignored,      \* names of tool output, vendored code and the like
  Default,      \* directories of the default exclusions and of .gitignore
  MaxTextFiles  \* structural_scan.max_text_files

Dirs == Range(Walk)

Modules == {"structural", "code_quality", "security"}

All == "all-modules"

-----------------------------------------------------------------------------
(* Exclusions of a configuration: its own list for every module, the list  *)
(* of one module, the defaults and .gitignore.                             *)

Effective(config, module) ==
  Default \cup config.all \cup (IF module = All THEN {} ELSE config.by[module])

Matches(d, patterns) == Above[d] \cap patterns # {}

\* A directory that is included, is in one or has one in it.
Included(d, included) == \E i \in included : i \in Above[d] \/ d \in Above[i]

\* The file in a directory that is only on the way to an included one is not.
FileIncluded(d, included) == Above[d] \cap included # {}

\* What is always left out stays out even when it is included.
ScanExcluded(d, patterns, isIncluded) ==
  \/ Matches(d, Always) /\ isIncluded
  \/ Matches(d, patterns) /\ ~isIncluded

Entered(d, patterns, included) ==
  /\ d \notin Generated
  /\ Included(d, included) \/ d \notin Ignored
  /\ ~ScanExcluded(d, patterns, Included(d, included))

-----------------------------------------------------------------------------
\* The text files the walk comes to.
TextCandidates(patterns, included) ==
  {d \in Dirs :
     /\ \A e \in Above[d] : Entered(e, patterns, included)
     /\ ~ScanExcluded(d, patterns, FileIncluded(d, included))}

Position(d) == CHOOSE k \in DOMAIN Walk : Walk[k] = d

\* The first n of them.
Within(n, found) ==
  {d \in found : Cardinality({e \in found : Position(e) <= Position(d)}) <= n}

\* A scan reads the first files and is partial when there are more.
TextScope(patterns, included) ==
  LET found == TextCandidates(patterns, included)
  IN  [patterns |-> patterns,
       read     |-> Within(MaxTextFiles, found),
       coverage |-> IF Cardinality(found) > MaxTextFiles THEN "partial" ELSE "complete"]

\* Discovery walks by the patterns alone.
Discovered(patterns) == {d \in Dirs : ~Matches(d, patterns \cup Always)}
==============================================================================
