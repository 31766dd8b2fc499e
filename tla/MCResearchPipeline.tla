-------------------------- MODULE MCResearchPipeline --------------------------
(* Instances of ResearchPipeline for TLC. *)
EXTENDS ResearchPipeline
=============================================================================
