-------------------------- MODULE IntakeVerification --------------------------
(***************************************************************************)
(* What Intake makes of an extraction: the verifier (intake/verification), *)
(* the effect of a human confirmation (intake/confirmation), the statuses  *)
(* (intake/lifecycle) and the compiler (intake/compiler), as operators.    *)
(*                                                                         *)
(* A raw input is what the extractor finds in it: a sequence of typed      *)
(* facts.  The value of a fact is "within" when the tenant's policy has no *)
(* objection to it (a discount below the maximum, the id of the registered *)
(* policy, an amount below the approval threshold) and "beyond" otherwise. *)
(***************************************************************************)
EXTENDS Naturals, Sequences, FiniteSets

CONSTANTS
    Actors,    \* identities that may confirm
    RoleOf,    \* RoleOf[a]: the primary role of a
    KindOf,    \* KindOf[a]: HUMAN, AGENT or SERVICE
    Inputs,    \* raw inputs, as the extractor reads them
    policy,    \* the active policy of the tenant, or None
    None

Objective == {"AMOUNT", "DISCOUNT_PERCENT", "MARGIN_PERCENT", "DURATION_MONTHS", "EVIDENCE_DATE"}
Claims == {"POLICY_CLAIM", "APPROVAL_CLAIM", "SELF_APPROVAL_CLAIM", "ROLE_CLAIM",
           "UNTRUSTED_INSTRUCTION"}
Required == {"AMOUNT", "DISCOUNT_PERCENT", "MARGIN_PERCENT"}
Values == {"within", "beyond"}
VerificationStatus == {"UNRESOLVED", "VERIFIED", "HUMAN_CONFIRMED", "REJECTED"}

\* embedded: the text of the fact overlaps an untrusted instruction.
Fact == [type : Objective \cup Claims, value : Values, embedded : BOOLEAN]

ASSUME IntakeAssumption ==
    /\ RoleOf \in [Actors -> {"VALIDATOR", "APPROVER"}]
    /\ KindOf \in [Actors -> {"HUMAN", "AGENT", "SERVICE"}]
    /\ \A i \in Inputs : /\ i.facts \in Seq(Fact)
                         /\ i.missing \subseteq {"MARGIN_PERCENT", "APPROVAL_CLAIM"}
    /\ policy = None \/ policy \in [effective : BOOLEAN, required_approval_count : Nat]
    /\ None \notin Actors

\* CandidateFact and VerificationReport of contracts.py.
Candidate == [type : Objective \cup Claims, value : Values, embedded : BOOLEAN,
              verification_status : VerificationStatus, confirmation_required : BOOLEAN,
              confirmed_by_actor_id : Actors \cup {None}]
ResultCode == {"POLICY_REFERENCE_NOT_REGISTERED", "POLICY_NOT_EFFECTIVE",
               "DISCOUNT_ABOVE_POLICY_LIMIT", "MARGIN_BELOW_POLICY_MINIMUM", "EVIDENCE_OUTDATED",
               "DURATION_EXCEPTION_REQUIRED", "REQUIRED_APPROVAL_MISSING",
               "SEPARATION_OF_DUTIES_VIOLATION", "GOVERNANCE_OVERRIDE_ATTEMPT"}
ReasonCode == {"TRUSTED_POLICY_UNAVAILABLE", "CONFLICTS_UNRESOLVED",
               "MANDATORY_INFORMATION_MISSING", "REQUIRED_FACT_MISSING",
               "HUMAN_CONFIRMATION_REQUIRED"}
Report == [candidates : Seq(Candidate), findings : SUBSET ResultCode,
           unresolved_requirement_refs : SUBSET {"MARGIN_PERCENT", "APPROVAL_CLAIM"},
           reason_codes : SUBSET ReasonCode, ready : BOOLEAN]

--------------------------------------------------------------------------------
(* extractor.py: candidates, conflicts and gaps of a raw input *)

CandidateFact(fact) ==
    [type |-> fact.type, value |-> fact.value, embedded |-> fact.embedded,
     verification_status |-> "UNRESOLVED", confirmation_required |-> TRUE,
     confirmed_by_actor_id |-> None]

extract(input) == [i \in DOMAIN input.facts |-> CandidateFact(input.facts[i])]

_conflicts(input) ==
    {t \in Required : Cardinality({input.facts[i].value : i \in {j \in DOMAIN input.facts :
                                                               input.facts[j].type = t}}) > 1}

--------------------------------------------------------------------------------
(* verification.py *)

_verify_candidate(c) ==
    IF c.verification_status \in {"HUMAN_CONFIRMED", "REJECTED"} THEN c
    ELSE IF c.type \in Objective
    THEN [c EXCEPT !.verification_status = "VERIFIED", !.confirmation_required = FALSE]
    ELSE IF c.type = "UNTRUSTED_INSTRUCTION"
    THEN [c EXCEPT !.verification_status = "REJECTED"]
    ELSE c

Rejected(c) == [c EXCEPT !.verification_status = "REJECTED", !.confirmation_required = FALSE]

_reject_embedded_governance_claims(c) ==
    IF c.type \in {"POLICY_CLAIM", "APPROVAL_CLAIM", "ROLE_CLAIM"} /\ c.embedded
    THEN Rejected(c) ELSE c

_verify_policy_references(c) ==
    IF policy # None /\ c.type = "POLICY_CLAIM" /\ c.value = "beyond" THEN Rejected(c) ELSE c

verified_candidates(candidates) ==
    [i \in DOMAIN candidates |->
        _verify_policy_references(_reject_embedded_governance_claims(
            _verify_candidate(candidates[i])))]

OfType(candidates, t) == {i \in DOMAIN candidates : candidates[i].type = t}
Confirmed(candidates, t) ==
    {i \in OfType(candidates, t) : candidates[i].verification_status = "HUMAN_CONFIRMED"}

\* The first candidate of the type is beyond what the policy allows.
beyond(candidates, t) ==
    \E i \in OfType(candidates, t) :
        candidates[i].value = "beyond" /\ \A j \in OfType(candidates, t) : i <= j

\* Approvals counted as claims, whoever confirmed them.
claimed_approvers(candidates) == Confirmed(candidates, "APPROVAL_CLAIM")

distinct_approvers(candidates) ==
    {candidates[i].confirmed_by_actor_id : i \in
        {j \in Confirmed(candidates, "APPROVAL_CLAIM") :
            RoleOf[candidates[j].confirmed_by_actor_id] = "APPROVER"}}

found(condition, code) == IF condition THEN {code} ELSE {}

\* Claims against the separation of roles.
role_findings(candidates) ==
    found(Confirmed(candidates, "SELF_APPROVAL_CLAIM") # {}, "SEPARATION_OF_DUTIES_VIOLATION")
    \cup found(beyond(candidates, "UNTRUSTED_INSTRUCTION"), "GOVERNANCE_OVERRIDE_ATTEMPT")

_compare_policy(candidates) ==
    found(\E i \in OfType(candidates, "POLICY_CLAIM") :
             candidates[i].verification_status = "REJECTED", "POLICY_REFERENCE_NOT_REGISTERED")
    \cup found(~policy.effective, "POLICY_NOT_EFFECTIVE")
    \cup found(beyond(candidates, "DISCOUNT_PERCENT"), "DISCOUNT_ABOVE_POLICY_LIMIT")
    \cup found(beyond(candidates, "MARGIN_PERCENT"), "MARGIN_BELOW_POLICY_MINIMUM")
    \cup found(beyond(candidates, "EVIDENCE_DATE"), "EVIDENCE_OUTDATED")
    \cup found(/\ beyond(candidates, "DURATION_MONTHS")
               /\ \A i \in Confirmed(candidates, "POLICY_CLAIM") :
                     candidates[i].value # "within", "DURATION_EXCEPTION_REQUIRED")
    \cup found(/\ beyond(candidates, "AMOUNT")
               /\ Cardinality(distinct_approvers(candidates)) < policy.required_approval_count,
               "REQUIRED_APPROVAL_MISSING")
    \cup role_findings(candidates)

Present(candidates) ==
    {candidates[i].type : i \in {j \in DOMAIN candidates :
        candidates[j].verification_status \in {"VERIFIED", "HUMAN_CONFIRMED"}}}

\* The reasons an intake is not ready for.
reasons(candidates, unresolved, conflicts) ==
    (IF policy = None THEN {"TRUSTED_POLICY_UNAVAILABLE"} ELSE {})
    \cup (IF conflicts THEN {"CONFLICTS_UNRESOLVED"} ELSE {})
    \cup (IF unresolved # {} THEN {"MANDATORY_INFORMATION_MISSING"} ELSE {})
    \cup (IF Required \subseteq Present(candidates) THEN {} ELSE {"REQUIRED_FACT_MISSING"})
    \cup (IF \E i \in DOMAIN candidates :
                /\ candidates[i].confirmation_required
                /\ candidates[i].verification_status = "UNRESOLVED"
                /\ candidates[i].type \in {"POLICY_CLAIM", "APPROVAL_CLAIM", "SELF_APPROVAL_CLAIM"}
          THEN {"HUMAN_CONFIRMATION_REQUIRED"} ELSE {})

_build_report(candidates, unresolved, conflicts) ==
    LET why == reasons(candidates, unresolved, conflicts)
    IN  [candidates |-> candidates,
         findings |-> IF policy = None THEN {} ELSE _compare_policy(candidates),
         unresolved_requirement_refs |-> unresolved,
         reason_codes |-> why,
         ready |-> why = {}]

verify(input) ==
    _build_report(verified_candidates(extract(input)), input.missing, _conflicts(input) # {})

\* The report of the confirmation is kept: nothing is recalculated.
not_reverified(report) ==
    [report EXCEPT !.reason_codes = @ \ {"HUMAN_CONFIRMATION_REQUIRED"},
                   !.ready = report.reason_codes \subseteq {"HUMAN_CONFIRMATION_REQUIRED"}]

\* A conflict stays one: no confirmation removes the reason.
reverify(report) ==
    LET candidates == verified_candidates(report.candidates)
        unresolved == IF Confirmed(candidates, "APPROVAL_CLAIM") # {}
                      THEN report.unresolved_requirement_refs \ {"APPROVAL_CLAIM"}
                      ELSE report.unresolved_requirement_refs
    IN  _build_report(candidates, unresolved, "CONFLICTS_UNRESOLVED" \in report.reason_codes)

--------------------------------------------------------------------------------
(* confirmation.py: the candidates after a confirmation.  The reason codes  *)
(* it computes are recalculated by reverify, which the route calls next.    *)

updated_fact(current, action, new_value, a) ==
    [current EXCEPT !.value = IF action = "CORRECT" THEN new_value ELSE @,
                    !.verification_status = IF action = "REJECT" THEN "REJECTED"
                                            ELSE "HUMAN_CONFIRMED",
                    !.confirmation_required = FALSE,
                    !.confirmed_by_actor_id = a]

confirm_fact(report, fact, action, new_value, a) ==
    [report EXCEPT !.candidates[fact] = updated_fact(@, action, new_value, a)]

--------------------------------------------------------------------------------
(* lifecycle.py *)

_ALLOWED == {<<"RECEIVED", "EXTRACTED">>, <<"EXTRACTED", "NEEDS_CONFIRMATION">>,
             <<"EXTRACTED", "READY">>, <<"NEEDS_CONFIRMATION", "READY">>,
             <<"READY", "NEEDS_CONFIRMATION">>, <<"READY", "COMPILED">>}

target_status(report) == IF report.ready THEN "READY" ELSE "NEEDS_CONFIRMATION"

--------------------------------------------------------------------------------
(* compiler.py *)

\* The compiler takes whatever the extractor found.
all_facts(report) == DOMAIN report.candidates

verified_facts(report) ==
    {i \in DOMAIN report.candidates :
        report.candidates[i].verification_status \in {"VERIFIED", "HUMAN_CONFIRMED"}}

\* The evidence of every claim names the raw input by its hash: source.
compile(report, source) ==
    [created_by |-> "system:intake-compiler",
     source |-> source,
     claims |-> {[fact |-> i, type |-> report.candidates[i].type,
                  value |-> report.candidates[i].value] : i \in verified_facts(report)},
     constraints |-> report.findings]
=============================================================================
