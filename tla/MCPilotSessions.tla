-------------------------- MODULE MCPilotSessions --------------------------
(* Model-checking instances of PilotSessions.                              *)
EXTENDS PilotSessions, TLC

SessionSymmetry ==
    Permutations(Bffs) \cup Permutations(Browsers) \cup Permutations(Requests)
        \cup Permutations(Kids)
=============================================================================
