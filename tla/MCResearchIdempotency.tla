----------------------- MODULE MCResearchIdempotency -----------------------
(* Model-checking instances of ResearchIdempotency.                        *)
EXTENDS ResearchIdempotency
=============================================================================
