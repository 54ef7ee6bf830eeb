----------------------------- MODULE MCRefresh -----------------------------
(* Model-checking instances of Refresh. *)
EXTENDS Refresh

Budgets == [p \in Phases |-> IF p = "verify" THEN 3 ELSE 2]
=============================================================================
