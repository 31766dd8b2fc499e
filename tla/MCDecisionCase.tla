---------------------------- MODULE MCDecisionCase ----------------------------
(***************************************************************************)
(* Small instances of DecisionCase.                                        *)
(***************************************************************************)
EXTENDS CaseExport, TLC

CONSTANTS g, v, w

\* A generator who could approve, a human and an agent who validate and
\* approve.
MCRolesOf == g :> {"GENERATOR", "APPROVER"} @@ v :> {"VALIDATOR", "APPROVER"}
             @@ w :> {"VALIDATOR", "APPROVER"}
MCPrimaryRole == g :> "GENERATOR" @@ v :> "APPROVER" @@ w :> "VALIDATOR"
MCKindOf == g :> "HUMAN" @@ v :> "HUMAN" @@ w :> "AGENT"

Sound == [mandatory_evidence |-> TRUE, unsatisfied |-> {}, requires_review |-> FALSE,
          unresolved |-> {}, high_impact |-> TRUE, uncertain |-> FALSE,
          requirements |-> {"APPROVER"}]
Unsound == [Sound EXCEPT !.unsatisfied = {"MANDATORY"}, !.requirements = {}]

Draft(subject, evidence) ==
    [subject |-> subject, evidence |-> evidence, requester |-> g, status |-> "DRAFT",
     outcome |-> None, approvals |-> {}, satisfied |-> {}, submitted |-> <<>>]

\* Files that are posted as if they had been reviewed or approved: a history in
\* which a validated them, an outcome nobody computed, approvals nobody gave.
Both == {"APPROVER", "REVIEWER"}
Reviewed(a) ==
    [Draft([Sound EXCEPT !.requirements = Both], {})
        EXCEPT !.status = "REVIEW", !.outcome = "PASS", !.approvals = {<<"REVIEWER", w>>},
               !.satisfied = {"REVIEWER"},
               !.submitted = <<[actor |-> a, to_status |-> "VALIDATION"]>>]
Approved ==
    [Draft([Sound EXCEPT !.unsatisfied = {"MANDATORY"}], {"FABRICATED"})
        EXCEPT !.status = "APPROVED", !.outcome = "PASS", !.approvals = {<<"APPROVER", v>>}]

MCDrafts == {Draft(Sound, {"VERIFIED"}), Draft(Sound, {}), Draft(Unsound, {"VERIFIED"})}
MCFiles == MCDrafts \cup {Reviewed(v), Reviewed(w), Approved}
MCStatusOf == [h \in Handoffs |-> "UNVERIFIED"]
CallSymmetry == Permutations(Calls)
=============================================================================
