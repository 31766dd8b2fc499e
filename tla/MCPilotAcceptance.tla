------------------------- MODULE MCPilotAcceptance -------------------------
(* Model-checking instances of PilotAcceptance.                            *)
EXTENDS PilotAcceptance

CONSTANTS tls, recovery, old, new

Tenants == [s \in {old, new} |-> "tenant"]
Releases == [s \in {old, new} |-> IF s = old THEN "commit-1" ELSE "commit-2"]

\* A sound observation of either release, and one flaw at a time.
Sound(c) == [verified |-> TRUE, source |-> "MEASURED", passes |-> TRUE, commit |-> c]
Observations ==
    {Sound("commit-1"), Sound("commit-2"),
     [Sound("commit-2") EXCEPT !.verified = FALSE],
     [Sound("commit-2") EXCEPT !.source = "REPOSITORY"],
     [Sound("commit-2") EXCEPT !.source = "SELF_DECLARED"],
     [Sound("commit-2") EXCEPT !.passes = FALSE]}

Identities ==
    [creator |-> [actor |-> "creator", human |-> TRUE, reviewer |-> TRUE,
                  tenant |-> "tenant"],
     reviewer |-> [actor |-> "reviewer", human |-> TRUE, reviewer |-> TRUE,
                   tenant |-> "tenant"],
     outsider |-> [actor |-> "outsider", human |-> TRUE, reviewer |-> TRUE,
                   tenant |-> "other"],
     agent |-> [actor |-> "agent", human |-> FALSE, reviewer |-> TRUE,
                tenant |-> "tenant"]]
=============================================================================
