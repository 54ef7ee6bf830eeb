---------------------------- MODULE FleetTargets ----------------------------
(***************************************************************************)
(* Which commit of a repository the fleet commands speak of. A repository  *)
(* may have several checkouts: a record                                    *)
(*   clones      its checkouts in the order of their paths, the first of   *)
(*               which is the primary one: [branch, branches, head, dirty, *)
(*               behind], branch None when the checkout is detached        *)
(*   tips        branch -> its commit                                      *)
(*   documented  the branch its documents call canonical, or None          *)
(*   commands    the quality commands found in the primary checkout        *)
(***************************************************************************)
EXTENDS Integers, FiniteSets

CONSTANT None

Lowest(S) == CHOOSE i \in S : \A k \in S : i <= k

\* resolve_target_branch: dev wherever there is one, else what is documented.
TargetBranch(w) ==
  LET branches == UNION {w.clones[i].branches : i \in DOMAIN w.clones}
  IN  IF "dev" \in branches THEN "dev"
      ELSE IF w.documented \in branches THEN w.documented ELSE None

Attached(w) ==
  {i \in DOMAIN w.clones :
     w.clones[i].branch # None /\ w.clones[i].branch = TargetBranch(w)}

\* A clean checkout is preferred, even one that is behind.
TargetClone(w) ==
  LET clean == {i \in Attached(w) : ~w.clones[i].dirty}
  IN  Lowest(IF clean # {} THEN clean ELSE Attached(w))

\* _target_state
StateOf(clone) == IF clone.dirty THEN "blocked" ELSE IF clone.behind THEN "stale" ELSE "ready"

Unresolved == [status |-> "blocked", head |-> None, clone |-> None]

Target(w) ==
  IF Attached(w) = {} THEN Unresolved
  ELSE LET clone == w.clones[TargetClone(w)]
       IN  [status |-> StateOf(clone), head |-> clone.head, clone |-> TargetClone(w)]

\* checkout_fingerprint of the checkout a command works from; None when it is gone.
Fingerprint(w, clone) ==
  IF w = None THEN None
  ELSE IF clone \notin DOMAIN w.clones THEN None
  ELSE <<w.clones[clone].head, w.clones[clone].branch, w.clones[clone].dirty>>

HeadAt(w, clone) == IF Fingerprint(w, clone) = None THEN None ELSE Fingerprint(w, clone)[1]
=============================================================================
