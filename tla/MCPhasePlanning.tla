-------------------------- MODULE MCPhasePlanning --------------------------
(* Model-checking instances of PhasePlanning. *)
EXTENDS PhasePlanning

TwoCandidates == <<"security", "ui-quality">>

NoCandidates == <<>>

\* Two slices, the more urgent one of which needs the other.
FirstNeedsSecond == <<{2}, {}>>
=============================================================================
