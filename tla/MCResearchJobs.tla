--------------------------- MODULE MCResearchJobs ---------------------------
(***************************************************************************)
(* Small instances of ResearchJobs.                                        *)
(***************************************************************************)
EXTENDS ResearchJobs

CONSTANTS t1, j1, j2, w1, w2

OneTenant == [j \in Jobs |-> t1]
LimitOne == [t \in Tenants |-> 1]
=============================================================================
