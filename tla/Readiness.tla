----------------------------- MODULE Readiness -----------------------------
(***************************************************************************)
(* What the release profile asks beyond the gates: evidence that CI, the   *)
(* release file, the package metadata and the gates speak of one commit.   *)
(* A `world` is what is found in and about the repository.                 *)
(*   head, branch  the commit and branch that are checked out              *)
(*   checks        the CI checks handed in: [head, ref, ok, digest], where *)
(*                 ok is identified, successful and fresh                  *)
(*   evidence      the release file if it is well-formed, or None:         *)
(*                 [head, ref, version, source, digest, accepted,          *)
(*                  external, migration, publication]                      *)
(*   versions      the versions found in package metadata                  *)
(*   stateful      there are migrations; publication: it is to be reviewed *)
(*   coverage      the aggregate scripts: [covered, uncovered, opaque]     *)
(*   prints        gate -> the digest in its output                        *)
(*   found         the capabilities that were discovered                   *)
(*   missing       required capabilities that were not discovered          *)
(***************************************************************************)
EXTENDS GateResults

CONSTANT None

IsRelease(world) == world.release

\* The conditional ones apply when the repository has what they are about.
RequiredGates(world) ==
  {"evidence_provenance", "read_only_integrity", "release_manifest_coherence",
   "package_consumer_smoke", "release_acceptance_evidence", "aggregate_coverage"}
  \cup (IF world.stateful THEN {"migration_safety"} ELSE {})
  \cup (IF world.publication THEN {"publication_visibility_review"} ELSE {})

\* provenance_gate
ProvenanceHolds(world) ==
  /\ world.head # None
  /\ world.checks # {}
  /\ \A k \in world.checks : k.head = world.head /\ k.ref = world.branch /\ k.ok
  /\ world.evidence # None =>
       /\ world.evidence.head = world.head
       /\ world.evidence.ref = world.branch
       /\ \A k \in world.checks : k.digest \in {None, world.evidence.digest}

\* The first gate that printed something that looks like a digest decides what
\* the digest of the package is.
ObservedDigest(world, done) ==
  LET printing == {c \in DOMAIN done \cap DOMAIN world.prints : done[c].status # "skipped"}
  IN  IF printing = {} THEN None ELSE world.prints[NextGate(printing)]

\* manifest_gate
ManifestHolds(world, done) ==
  /\ Cardinality(world.versions) = 1
  /\ world.evidence # None
  /\ world.versions = {world.evidence.version}
  /\ world.evidence.source = world.head
  /\ ObservedDigest(world, done) \in {None, world.evidence.digest}

AcceptanceHolds(world) ==
  world.evidence # None /\ world.evidence.accepted /\ world.evidence.external

\* A command decides when there is one, the release file otherwise.
MigrationHolds(world, done) ==
  IF "migration_safety" \in DOMAIN done
  THEN done["migration_safety"].status = "passed"
  ELSE world.evidence # None /\ world.evidence.migration

PublicationHolds(world) ==
  world.reviewed \/ (world.evidence # None /\ world.evidence.publication)

\* Aggregate scripts, if there are any, must be seen to run every leaf.
AggregateHolds(world) ==
  world.coverage # {} =>
    /\ Leaves \cap (world.found \cup world.missing) \subseteq UNION {row.covered : row \in world.coverage}
    /\ \A row \in world.coverage : ~row.opaque /\ row.uncovered = {}

NoMutation(done) == \A c \in DOMAIN done : done[c].why # "read-only-mutation"

ReadinessGateHolds(g, world, done) ==
  CASE g = "evidence_provenance" -> ProvenanceHolds(world)
    [] g = "release_manifest_coherence" -> ManifestHolds(world, done)
    [] g = "release_acceptance_evidence" -> AcceptanceHolds(world)
    [] g = "aggregate_coverage" -> AggregateHolds(world)
    [] g = "migration_safety" -> MigrationHolds(world, done)
    [] g = "publication_visibility_review" -> PublicationHolds(world)
    [] g = "read_only_integrity" -> NoMutation(done)
    [] g = "package_consumer_smoke" -> g \in DOMAIN done /\ done[g].status = "passed"

\* evaluate_readiness
ReadinessStatus(world, done) ==
  IF ~IsRelease(world) THEN "not-applicable"
  ELSE IF /\ \A g \in RequiredGates(world) : ReadinessGateHolds(g, world, done)
          /\ world.missing = {}
       THEN "passed" ELSE "blocked"
=============================================================================
