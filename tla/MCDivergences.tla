---------------------------- MODULE MCDivergences ----------------------------
(* What the documents say of the parts and the code does not do: one small   *)
(* instance and one specification for each.                                  *)
EXTENDS TLC

CONSTANTS None, Nothing, Torn, Missing, Absent, fileA, fileB, slug, s1, s2, s3, s4

VARIABLES a, b, c, d, e, f, g, h, i, j

shared == <<a, b, c, d, e, f, g, h, i, j>>

Files == (s1 :> fileA) @@ (s2 :> fileA) @@ (s3 :> fileB) @@ (s4 :> fileB)

Categories == (s1 :> "simplify") @@ (s2 :> "integrate") @@ (s3 :> "integrate") @@ (s4 :> "simplify")

\* A candidate, a missing capability and an agent review.
L == INSTANCE FindingLedger WITH
       Structural <- {}, Candidate <- {"c1"}, Capability <- {"m1"}, ReviewGate <- {"g1"},
       FileOf <- Files, CategoryOf <- Categories, SlugOf <- (fileA :> slug) @@ (fileB :> slug),
       RunId <- {"r1", "r2"}, KeptCounts <- {1}, MaxEdits <- 0,
       scan <- a, config <- b, store <- c, gates <- d, result <- e, accepted <- f, edits <- g

\* Two tracked files, an untracked one, and one in an untracked directory.
I == INSTANCE InventoryCache WITH
       Processes <- {"p1"}, Tracked <- {1, 2}, Untracked <- 3, Inside <- 4,
       Contents <- {"x", "y", "z"}, Branches <- {"b1"}, MaxChanges <- 3,
       repo <- a, cache <- b, scan <- c, shown <- d, changes <- e, raced <- f

Shared == INSTANCE SharedValues

\* The target's configuration is laxer than the one HEAD is checked with.
T == INSTANCE TaskWorkflow WITH
       Procs <- {"p1"}, Paths <- {"a"}, Entries <- Shared!TaskEntries, ConfigFile <- "config",
       Contents <- {}, Spots <- Shared!TaskSpots, Configs <- {},
       Tools <- {"v1"}, HeadTree <- Shared!TaskHead, TargetTree <- Shared!LaxTarget,
       BaseTree <- Shared!TaskBase, MaxCommands <- 2, MaxEdits <- 0, MaxCrashes <- 0,
       work <- a, tools <- b, record <- c, baselines <- d, checks <- e, pc <- f, job <- g,
       commands <- h, edits <- i, crashes <- j

\* One repository that stays as it is, audited on three days.
F == INSTANCE FleetAudit WITH
       Procs <- {"p1"}, Repos <- {1}, Worlds <- Shared!OneCommit, Days <- {1, 2, 3}, MaxAge <- 1,
       MaxAudits <- 3, MaxMoves <- 0, MaxCrashes <- 0,
       world <- a, audits <- b, trees <- c, feed <- d, passes <- e, repeated <- f, pc <- g,
       job <- h, spent <- i

UnusedFromI == i = 0 /\ j = 0

UnusedFromH == h = 0 /\ UnusedFromI

UnusedFromG == g = 0 /\ UnusedFromH

FindingLedgerSecurity == L!Init /\ UnusedFromH /\ [][L!Next /\ UNCHANGED <<h, i, j>>]_shared

InventoryStale == I!Init /\ UnusedFromG /\ [][I!Next /\ UNCHANGED <<g, h, i, j>>]_shared

TaskPolicy == T!Init /\ [][T!Next]_shared

FleetEvidence == F!Init /\ j = 0 /\ [][F!Next /\ UNCHANGED j]_shared

-----------------------------------------------------------------------------
(* The ledger marks disappeared findings as superseded by the current scan   *)
(* (docs/artifacts.md): what it marks superseded is not in the scan.         *)
SupersededIsAbsent == L!SupersededIsAbsent

(* docs/artifacts.md: "Cache keys include the relative source path,          *)
(* source-content digest": of a tracked file the inventory shows what is     *)
(* there.                                                                    *)
TrackedIsCurrent == I!TrackedIsCurrent

(* "pass: no new enforced findings": judged by the configuration the         *)
(* baseline attests, the passing tree is not worse than the baseline's.      *)
PassHasNoNewFinding == T!PassHasNoNewFinding

(* "passing dynamic evidence is within its configured expiry": what an audit *)
(* reuses passed no longer ago than MaxAge.                                  *)
ReusedEvidenceIsFresh == F!ReusedEvidenceIsFresh
===============================================================================
