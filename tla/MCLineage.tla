----------------------------- MODULE MCLineage -----------------------------
(* A seat, its channel, and a post-mortem channel that replacements never see. *)
EXTENDS Lineage

CONSTANTS alice, link, pm

SwapInThree == {[seat |-> alice, round |-> 3, hidden |-> {link}]}
OneView == {[visible |-> {link}, floor |-> 2]}
SwapInTwo == {[seat |-> alice, round |-> 2, hidden |-> {link}]}
Everything == {"late_calls", "late_stops", "resume_after_swap", "import_endings"}
AllButResumes == Everything \ {"resume_after_swap"}

=============================================================================
