---------------------------- MODULE MCResearchRun ----------------------------
(* Instances of ResearchRun for TLC. *)
EXTENDS ResearchRun, TLC

Symmetry == Permutations(Workers) \cup Permutations(Calls)
=============================================================================
