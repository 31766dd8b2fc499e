--------------------------- MODULE MCDataLifecycle ---------------------------
(***************************************************************************)
(* Small instances of DataLifecycle.                                       *)
(***************************************************************************)
EXTENDS DataLifecycle, TLC

CONSTANTS c1, r1, r2, p1, p2

AllForOneCase == [r \in Requests |-> c1]
=============================================================================
