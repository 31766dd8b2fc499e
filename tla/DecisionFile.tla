----------------------------- MODULE DecisionFile -----------------------------
(***************************************************************************)
(* The Decision File of one case, and the three pure functions over it:    *)
(* the governance engine (engine.py), the semantic validation              *)
(* (decision_file.py) and the transition policy (transitions.py).          *)
(*                                                                         *)
(* Identifiers, texts, digests and timestamps are left out.  A file has    *)
(* one claim; what the engine and the policy can tell apart of the rest    *)
(* is kept: the statuses of the evidence, the severities of the            *)
(* constraints that are not satisfied and of the conflicts that are not    *)
(* resolved, the roles of the mandatory review requirements.               *)
(*                                                                         *)
(* The list audit_events of the document is kept in two parts, which it    *)
(* concatenates: what the client posted (submitted) and what the service   *)
(* appended (audit_events).                                                *)
(***************************************************************************)
EXTENDS Naturals, Sequences, FiniteSets

CONSTANTS
    Actors,      \* the ids of identities: who calls the API, who files name
    RolesOf,     \* RolesOf[a]: the roles of the token of a
    PrimaryRole, \* PrimaryRole[a]: identity.role
    KindOf,      \* KindOf[a]: HUMAN, AGENT or SERVICE
    None

Roles == {"GENERATOR", "VALIDATOR", "APPROVER", "AUDITOR", "REVIEWER", "TENANT_ADMIN",
          "SYSTEM_ADMINISTRATOR", "RESEARCH_OPERATOR", "READONLY"}

ASSUME ActorAssumption ==
    /\ RolesOf \in [Actors -> SUBSET Roles]
    /\ PrimaryRole \in [Actors -> Roles]
    /\ KindOf \in [Actors -> {"HUMAN", "AGENT", "SERVICE"}]
    /\ \A a \in Actors : PrimaryRole[a] \in RolesOf[a]
    /\ {"engine", "research-compiler", None} \cap Actors = {}

CaseStatus == {"DRAFT", "VALIDATION", "REVIEW", "APPROVED", "BLOCKED"}
Outcome == {"PASS", "REVIEW", "BLOCK"}
EvidenceStatus ==
    {"VERIFIED", "UNVERIFIED", "OUTDATED", "CONFLICTING", "FABRICATED", "UNAVAILABLE"}

\* What a file says when it is created and no operation changes.
Subject ==
    [mandatory_evidence : BOOLEAN,
     unsatisfied : SUBSET {"MANDATORY", "REVIEW_REQUIRED", "ADVISORY"},
     requires_review : BOOLEAN,
     unresolved : SUBSET {"LOW", "MEDIUM", "HIGH", "CRITICAL"},
     high_impact : BOOLEAN,
     uncertain : BOOLEAN,
     requirements : SUBSET {"APPROVER", "REVIEWER"}]

--------------------------------------------------------------------------------
(* authorization.py *)

ROLE_PERMISSIONS ==
    [create |-> {"GENERATOR", "TENANT_ADMIN"},
     evaluate |-> {"VALIDATOR", "TENANT_ADMIN"},
     validate |-> {"VALIDATOR", "TENANT_ADMIN"},
     approve |-> {"APPROVER", "TENANT_ADMIN"}]

authorize(a, permission) == RolesOf[a] \cap ROLE_PERMISSIONS[permission] # {}

\* The actor as the routes write it into the file: the role that fits the
\* permission if the identity has it, else its primary role.
_actor(a, permission) ==
    LET preferred == [create |-> "GENERATOR", evaluate |-> "VALIDATOR",
                      validate |-> "VALIDATOR", approve |-> "APPROVER"][permission]
    IN  [id |-> a,
         role |-> IF preferred \in RolesOf[a] THEN preferred ELSE PrimaryRole[a],
         kind |-> KindOf[a]]

--------------------------------------------------------------------------------
(* engine.py, over the request that evaluate_decision_file builds *)

Finding(code, severity) == [code |-> code, severity |-> severity]

EvidenceFindings(statuses) ==
    {Finding("EVIDENCE_UNVERIFIABLE", "REVIEW") : s \in statuses \cap {"UNVERIFIED"}}
    \cup {Finding("CITATION_FABRICATED", "BLOCK") : s \in statuses \cap {"FABRICATED"}}
    \cup {Finding("EVIDENCE_OUTDATED", "REVIEW") : s \in statuses \cap {"OUTDATED"}}
    \cup {Finding("EVIDENCE_CONFLICT", "REVIEW") : s \in statuses \cap {"CONFLICTING"}}
    \cup {Finding("MANDATORY_EVIDENCE_MISSING", "REVIEW") : s \in statuses \cap {"UNAVAILABLE"}}

mandatory_evidence_missing(d) ==
    d.subject.mandatory_evidence /\ d.evidence \subseteq {"UNAVAILABLE"}

_validate(d) ==
    LET s == d.subject
        found(condition, finding) == IF condition THEN {finding} ELSE {}
    IN  EvidenceFindings(d.evidence)
        \cup found(mandatory_evidence_missing(d),
                   Finding("MANDATORY_EVIDENCE_MISSING",
                           IF s.high_impact THEN "BLOCK" ELSE "REVIEW"))
        \cup found("MANDATORY" \in s.unsatisfied, Finding("HARD_CONSTRAINT_VIOLATION", "BLOCK"))
        \cup found("REVIEW_REQUIRED" \in s.unsatisfied,
                   Finding("CONSTRAINT_REQUIRES_REVIEW", "REVIEW"))
        \cup found(s.requires_review, Finding("POLICY_REQUIRES_REVIEW", "REVIEW"))
        \cup found(\E p \in d.approvals : p[2] = d.created_by.id,
                   Finding("SEPARATION_OF_DUTIES_VIOLATION", "BLOCK"))
        \cup found(s.high_impact /\ s.uncertain, Finding("HIGH_IMPACT_UNCERTAINTY", "REVIEW"))
        \cup found("CRITICAL" \in s.unresolved, Finding("CRITICAL_CONFLICT_UNRESOLVED", "BLOCK"))
        \cup found(s.unresolved \ {"CRITICAL"} # {}, Finding("CONFLICT_UNRESOLVED", "REVIEW"))

_govern(findings) ==
    IF \E f \in findings : f.severity = "BLOCK" THEN "BLOCK"
    ELSE IF findings # {} THEN "REVIEW" ELSE "PASS"

\* DecisionAssuranceEngine.assess: the outcome for the file as it is.
assess(d) == _govern(_validate(d))

--------------------------------------------------------------------------------
(* decision_file.py validate_semantics: what it says of approvals.  An      *)
(* approval is the role of the mandatory requirement it is for and the id   *)
(* of who approved; the kind it is written with has to be HUMAN and is not  *)
(* compared with anything.  Approvals of other requirements, and those that *)
(* reject, have no effect and are left out.                                 *)

Approval == {"APPROVER", "REVIEWER"} \X Actors

validate_semantics(d) ==
    /\ d.approvals # {} => d.status \in {"REVIEW", "APPROVED", "BLOCKED"}
    /\ \A p \in d.approvals :
          /\ p[1] \in d.subject.requirements
          /\ p[2] \notin {d.created_by.id, d.requested_by}

--------------------------------------------------------------------------------
(* transitions.py *)

\* The role that may make the transition; None where there is none.
ALLOWED_TRANSITIONS(source, target) ==
    IF <<source, target>> \in {<<"DRAFT", "VALIDATION">>, <<"DRAFT", "BLOCKED">>,
                               <<"VALIDATION", "REVIEW">>, <<"VALIDATION", "BLOCKED">>}
    THEN "VALIDATOR"
    ELSE IF <<source, target>> \in {<<"REVIEW", "APPROVED">>, <<"REVIEW", "BLOCKED">>}
    THEN "APPROVER"
    ELSE None

\* Everyone who moved the file to VALIDATION, by its own history.
ValidatorsIn(events) ==
    {events[i].actor : i \in {j \in DOMAIN events : events[j].to_status = "VALIDATION"}}

validator_ids(d) == ValidatorsIn(d.submitted) \cup ValidatorsIn(d.audit_events)

approval_allowed(d, actor) ==
    /\ actor.kind = "HUMAN"
    /\ actor.id # d.created_by.id
    /\ actor.id \notin validator_ids(d)
    /\ d.decision_outcome = "PASS"
    /\ "MANDATORY" \notin d.subject.unsatisfied
    /\ "CRITICAL" \notin d.subject.unresolved
    /\ d.subject.requirements \subseteq d.satisfied
    /\ \A role \in d.subject.requirements :
          \E p \in d.approvals : p[1] = role /\ (role = "APPROVER" => p[2] = actor.id)

\* The policy without the separation of duties between validator and approver.
UnseparatedTransition(d, target, actor) ==
    /\ actor.role = ALLOWED_TRANSITIONS(d.status, target)
    /\ target = "APPROVED" => d.decision_outcome = "PASS" /\ actor.id # d.created_by.id
    /\ target = "REVIEW" => d.decision_outcome # "BLOCK"
    /\ target = "BLOCKED" => d.decision_outcome = "BLOCK"

\* TransitionPolicy._rejection_reasons(...) = []
transition_allowed(d, target, actor) ==
    /\ actor.role = ALLOWED_TRANSITIONS(d.status, target)
    /\ target = "VALIDATION" => actor.id # d.created_by.id
    /\ target = "APPROVED" => approval_allowed(d, actor)
    /\ target = "REVIEW" => d.decision_outcome # "BLOCK"
    /\ target = "BLOCKED" => d.decision_outcome = "BLOCK"

--------------------------------------------------------------------------------
(* The documents the operations produce.  The number of an event is the     *)
(* length of the list it is appended to, its predecessor is the event whose *)
(* hash it carries.                                                         *)

Event(d, type, actor, to, result, request) ==
    LET n == Len(d.audit_events)
    IN  [event_id |-> <<type, Len(d.submitted) + n + 1>>,
         previous |-> d.audit_events[n].event_id,
         actor |-> actor, from_status |-> d.status, to_status |-> to,
         result |-> result, request |-> request]

\* The event of POST /v1/decisions: the first of its chain and from nothing to
\* DRAFT, whatever the posted file says.
created_event(a, request) ==
    [event_id |-> <<"created", 1>>, previous |-> None, actor |-> a,
     from_status |-> None, to_status |-> "DRAFT", result |-> None, request |-> request]

\* The file f a client posts, which may come with any status and outcome, with
\* approvals and with a history, and the event of the route.
created(a, f, request) ==
    [status |-> f.status, decision_outcome |-> f.outcome, subject |-> f.subject,
     evidence |-> f.evidence, created_by |-> _actor(a, "create"),
     requested_by |-> f.requester, approvals |-> f.approvals, satisfied |-> f.satisfied,
     submitted |-> f.submitted, audit_events |-> <<created_event(a, request)>>]

evaluate_decision_file(d, request) ==
    LET outcome == assess(d)
        event == Event(d, "evaluation", "engine", d.status, outcome, request)
    IN  [d EXCEPT !.decision_outcome = outcome, !.audit_events = Append(@, event)]

\* The approvals the route adds for a human who approves a file in REVIEW.
with_approval(d, target, a) ==
    IF target = "APPROVED" /\ d.status = "REVIEW" /\ KindOf[a] = "HUMAN"
          /\ "APPROVER" \in d.subject.requirements
    THEN [d EXCEPT !.approvals = @ \cup {<<"APPROVER", a>>}, !.satisfied = @ \cup {"APPROVER"}]
    ELSE d

transitioned(d, target, a, request) ==
    [d EXCEPT !.status = target,
              !.audit_events = Append(@, Event(d, "transition", a, target, None, request))]

\* The event a hand-off appends; its id carries the hand-off and no number.
handoff_event(d, handoff) ==
    [Event(d, "research-handoff", "research-compiler", "DRAFT", None, None)
        EXCEPT !.event_id = <<"research-handoff", handoff>>]

with_evidence(d, handoff, statuses) ==
    [d EXCEPT !.evidence = @ \cup statuses,
              !.audit_events = Append(@, handoff_event(d, handoff))]
=============================================================================
