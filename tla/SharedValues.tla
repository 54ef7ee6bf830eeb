---------------------------- MODULE SharedValues ----------------------------
(* Small repositories and fleets for the parts in which processes share files. *)
EXTENDS Naturals, Sequences, TLC

CONSTANT None

(* Small repositories for TaskWorkflow: files that violate the promoted rule *)
(* not at all, once, twice, or twice where the two cannot be told apart.     *)

TaskSpots == ("one" :> <<1>>) @@ ("two" :> <<1, 2>>) @@ ("twin" :> <<1, 1>>)

Strict == [reports |-> {"one", "two", "twin"}, rule |-> "verified", waived |-> {},
           covered |-> TRUE, gate |-> "none", declared |-> "none", warned |-> FALSE]

\* Reports what is worse than one violation only.
Lax == [Strict EXCEPT !.reports = {"two", "twin"}]

\* The disposition that lets a second violation pass; nothing must be covered.
Waiving == [Strict EXCEPT !.waived = {<<"a", 2>>}, !.covered = FALSE]

Gated == [Strict EXCEPT !.gate = "required", !.declared = "certified"]

TaskContents == {"two", "twin"}

TaskConfigs == {Waiving, Gated}

TaskEntries == <<"config", "a">>

\* HEAD has one violation that the target revision mended.
TaskHead == ("config" :> Strict) @@ ("a" :> "one")

TaskTarget == ("config" :> Strict) @@ ("a" :> "clean")

\* The target's configuration is laxer; HEAD, from before that, has a violation.
LaxTarget == ("config" :> Lax) @@ ("a" :> "clean")

TaskBase == ("config" :> Strict) @@ ("a" :> "clean")

-----------------------------------------------------------------------------
(* Small fleets: a repository on either of two commits, one with a second   *)
(* clone that is clean but behind while the first is being worked on, and   *)
(* none.                                                                    *)

Clone(branch, head, dirty, behind) ==
  [branch |-> branch, branches |-> {"dev"}, head |-> head, dirty |-> dirty, behind |-> behind]

At(head) ==
  [clones |-> <<Clone("dev", head, FALSE, FALSE)>>, tips |-> [dev |-> head],
   documented |-> None, commands |-> {"tests"}]

InWork ==
  [At("h2") EXCEPT !.clones = <<Clone("dev", "h2", TRUE, FALSE), Clone("dev", "h1", FALSE, TRUE)>>]

SmallFleet == {At("h1"), At("h2"), InWork, None}

OneCommit == {At("h1")}

-----------------------------------------------------------------------------
(* A small repository for ExclusionPreflight: generated output with a source  *)
(* directory in it, a marked directory below a protected one, a directory of  *)
(* many files and a vendored one.                                             *)

SmallWalk == <<"apiCache", "big", "gen", "genSrc", "vendor">>

SmallAbove == [d \in {"apiCache", "big", "gen", "genSrc", "vendor"} |->
                 IF d = "genSrc" THEN {"gen", "genSrc"} ELSE {d}]

Everywhere(patterns) == [m \in {"structural", "code_quality", "security"} |-> patterns]

Only(module, patterns) ==
  [m \in {"structural", "code_quality", "security"} |-> IF m = module THEN patterns ELSE {}]

Say(decision, module, confidence) ==
  [decision |-> decision, module |-> module, confidence |-> confidence]

Keep == Say("include", "all-modules", "high")

Drop(module) == Say("exclude", module, "medium")

Decide(cache, big, gen) ==
  [d \in {"apiCache", "big", "gen"} |->
     CASE d = "apiCache" -> cache [] d = "big" -> big [] d = "gen" -> gen]

Report(decisions, scope, acknowledged) ==
  [decisions |-> decisions, scope |-> scope, acknowledged |-> acknowledged]

\* Reports that are right, and one for each way a report is refused.
SmallReports ==
  {Report(Decide(Keep, Drop("all-modules"), Keep), "all-modules", TRUE),
   Report(Decide(Keep, Keep, Drop("code_quality")), "module-scoped", FALSE),
   Report(Decide(Keep, Drop("security"), Drop("all-modules")), "module-scoped", TRUE),
   Report([d \in {"apiCache", "big"} |-> IF d = "big" THEN Drop("all-modules") ELSE Keep],
          "all-modules", TRUE),
   Report(Decide(Drop("all-modules"), Keep, Keep), "all-modules", TRUE),
   Report(Decide(Keep, Drop("security"), Keep), "module-scoped", FALSE),
   Report(Decide(Keep, Say("exclude", "all-modules", "low"), Keep), "all-modules", TRUE),
   Report(Decide(Keep, Drop("security"), Keep), "all-modules", TRUE)}

SmallConfigs ==
  {[kind |-> "section", all |-> {"gen"}, by |-> Everywhere({})],
   [kind |-> "section", all |-> {}, by |-> Only("code_quality", {"big"})],
   [kind |-> "multiline", all |-> {"gen"}, by |-> Everywhere({})],
   [kind |-> "other", all |-> {}, by |-> Everywhere({})]}

\* No overlay, one that is refused, one for a module with an inclusion.
SmallRequests ==
  {[all |-> {}, by |-> Everywhere({}), included |-> {}],
   [all |-> {"genSrc"}, by |-> Everywhere({}), included |-> {}],
   [all |-> {}, by |-> Only("code_quality", {"gen"}), included |-> {"vendor"}]}
=============================================================================
