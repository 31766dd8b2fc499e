------------------------------- MODULE MCIntake -------------------------------
(***************************************************************************)
(* Small instances of Intake.                                              *)
(***************************************************************************)
EXTENDS Intake, TLC

CONSTANTS a1, a2

MCRoleOf == [a \in Actors |-> "APPROVER"]
MCKindOf == [a \in Actors |-> "HUMAN"]
MCPolicy == [effective |-> TRUE, required_approval_count |-> 2]

F(type, value) == [type |-> type, value |-> value, embedded |-> FALSE]
Base == <<F("AMOUNT", "beyond"), F("DISCOUNT_PERCENT", "within"), F("MARGIN_PERCENT", "within")>>
Approvals == [facts |-> Base \o <<F("APPROVAL_CLAIM", "within"), F("APPROVAL_CLAIM", "within")>>,
              missing |-> {}]
Disputed == [facts |-> Base \o <<F("AMOUNT", "within"), F("POLICY_CLAIM", "beyond")>>,
             missing |-> {"APPROVAL_CLAIM"}]
Injected == [facts |-> Base \o <<F("POLICY_CLAIM", "beyond"),
                                 [F("APPROVAL_CLAIM", "within") EXCEPT !.embedded = TRUE]>>,
             missing |-> {}]
MCInputs == {Approvals, Disputed, Injected}
MCPosted == {[created_by |-> "client", source |-> None,
              claims |-> {[fact |-> 1, type |-> "AMOUNT", value |-> "beyond"]},
              constraints |-> {}]}
MCConfirmations == {<<4, "CONFIRM", None>>, <<5, "CONFIRM", None>>,
                    <<5, "REJECT", None>>, <<1, "CORRECT", "within">>}
CallSymmetry == Permutations(Calls) \cup Permutations(Actors)
=============================================================================
