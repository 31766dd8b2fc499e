----------------------------- MODULE DecisionCase -----------------------------
(***************************************************************************)
(* One decision of a tenant: the routes of api/routes/decisions.py over    *)
(* the tables of repositories/postgresql.py, and the hand-off of Research  *)
(* evidence (web_research/compiler.py), which writes the same row.         *)
(*                                                                         *)
(* A route reads the document in one transaction, computes the next one in *)
(* the process, and saves it in another transaction.  save_result takes    *)
(* the lock of the case but does not compare versions: what keeps two      *)
(* routes apart are the unique event ids and the idempotency keys.         *)
(*                                                                         *)
(* The file a client posts is stored as it is: with the status, outcome,   *)
(* approvals and history the client wrote, as long as validate_semantics   *)
(* accepts it.  Only the event of the route goes into the audit table.     *)
(* The erasure of a case is the subject of DataLifecycle.                  *)
(***************************************************************************)
EXTENDS DecisionFile

CONSTANTS
    Calls,     \* requests the API serves at a time
    Keys,      \* idempotency keys
    Files,     \* the files that clients post
    Handoffs,  \* results of Research that can be handed over
    StatusOf,  \* StatusOf[h]: the status of the evidence of h
    MaxEvents  \* bound: audit events of the case

ASSUME CaseAssumption ==
    /\ Files \subseteq
          [subject : Subject, evidence : SUBSET EvidenceStatus, requester : Actors,
           status : CaseStatus, outcome : Outcome \cup {None}, approvals : SUBSET Approval,
           satisfied : SUBSET {"APPROVER", "REVIEWER"},
           submitted : Seq([actor : Actors, to_status : CaseStatus])]
    /\ StatusOf \in [Handoffs -> {"UNVERIFIED", "OUTDATED", "CONFLICTING"}]
    /\ MaxEvents \in Nat \ {0}

VARIABLES
    decision,          \* decisions.document_json of the case, None before it is created
    audit_events,      \* the rows of audit_events, by their sequence
    report,            \* reports.report_json: the outcome, None before an evaluation
    idempotency,       \* the primary keys of idempotency
    research_handoffs, \* the hand-offs recorded
    calls              \* what each request has read so far

vars == <<decision, audit_events, report, idempotency, research_handoffs, calls>>

Targets == CaseStatus \ {"DRAFT"}
Operations == {"evaluate"} \cup Targets
Idle == [pc |-> "idle"]

Init ==
    /\ decision = None
    /\ audit_events = <<>>
    /\ report = None
    /\ idempotency = {}
    /\ research_handoffs = {}
    /\ calls = [c \in Calls |-> Idle]

Request(c) == <<calls[c].actor, calls[c].operation, calls[c].key>>
Rows == {audit_events[i] : i \in DOMAIN audit_events}
EventIds == {e.event_id : e \in Rows}
Last(d) == d.audit_events[Len(d.audit_events)]

Return(c) == calls' = [calls EXCEPT ![c] = Idle]

\* The key was used: its stored response answers a repetition.
get_idempotency(request) == request \in idempotency

\* The permission a transition is made with.
permission_of(target, status) ==
    IF target = "APPROVED" \/ (target = "BLOCKED" /\ status = "REVIEW")
    THEN "approve" ELSE "validate"

--------------------------------------------------------------------------------
(* POST /v1/decisions.  The replay check before the insert can only spare   *)
(* the insert: a case that exists, or a key that was used, rolls it back.   *)

create_decision(a, file, key) ==
    LET request == <<a, "create", key>>
        document == created(a, file, request)
    IN  /\ decision = None
        /\ authorize(a, "create")
        /\ validate_semantics(document)
        /\ decision' = document
        /\ audit_events' = <<Last(document)>>
        /\ idempotency' = {request}
        /\ UNCHANGED <<report, research_handoffs, calls>>

--------------------------------------------------------------------------------
(* POST /v1/decisions/{id}/evaluate *)

\* The replay check comes first; a request that was served returns its report.
begin_evaluate(c, a, key) ==
    /\ calls[c] = Idle
    /\ authorize(a, "evaluate")
    /\ ~get_idempotency(<<a, "evaluate", key>>)
    /\ calls' = [calls EXCEPT ![c] = [pc |-> "fetch", actor |-> a, operation |-> "evaluate",
                                      key |-> key]]
    /\ UNCHANGED <<decision, audit_events, report, idempotency, research_handoffs>>

get_decision(c) ==
    /\ calls[c].pc = "fetch"
    /\ IF decision = None
       THEN Return(c)
       ELSE calls' = [calls EXCEPT ![c] = [pc |-> "save", actor |-> @.actor,
                                           operation |-> @.operation, key |-> @.key,
                                           document |-> decision]]
    /\ UNCHANGED <<decision, audit_events, report, idempotency, research_handoffs>>

--------------------------------------------------------------------------------
(* POST /v1/decisions/{id}/transitions: the document is read before the     *)
(* replay check.                                                            *)

\* A transition that the policy rejects returns without an effect and is left
\* out; the policy runs on the document read here.
begin_transition(c, a, target, key) ==
    LET permission == permission_of(target, decision.status)
        document == with_approval(decision, target, a)
    IN  /\ calls[c] = Idle
        /\ decision # None
        /\ authorize(a, permission)
        /\ validate_semantics(document)
        /\ transition_allowed(document, target, _actor(a, permission))
        /\ calls' = [calls EXCEPT ![c] = [pc |-> "check", actor |-> a, operation |-> target,
                                          key |-> key, document |-> document]]
        /\ UNCHANGED <<decision, audit_events, report, idempotency, research_handoffs>>

_operation(c) ==
    /\ calls[c].pc = "check"
    /\ IF get_idempotency(Request(c))
       THEN Return(c)
       ELSE calls' = [calls EXCEPT ![c].pc = "save"]
    /\ UNCHANGED <<decision, audit_events, report, idempotency, research_handoffs>>

--------------------------------------------------------------------------------
(* The second transaction of both routes.                                   *)

\* The insert of the audit event ignores a conflict.
save_ignoring_events(c, document, new_report) ==
    /\ decision # None
    /\ Request(c) \notin idempotency
    /\ decision' = document
    /\ report' = new_report
    /\ audit_events' = IF Last(document).event_id \in EventIds THEN audit_events
                       ELSE Append(audit_events, Last(document))
    /\ idempotency' = idempotency \cup {Request(c)}

\* The insert of the idempotency row ignores a conflict.
save_ignoring_keys(c, document, new_report) ==
    /\ decision # None
    /\ Last(document).event_id \notin EventIds
    /\ decision' = document
    /\ report' = new_report
    /\ audit_events' = Append(audit_events, Last(document))
    /\ idempotency' = idempotency \cup {Request(c)}

save_result(c, document, new_report) ==
    /\ decision # None
    /\ Last(document).event_id \notin EventIds
    /\ Request(c) \notin idempotency
    /\ decision' = document
    /\ report' = new_report
    /\ audit_events' = Append(audit_events, Last(document))
    /\ idempotency' = idempotency \cup {Request(c)}

evaluate(c) ==
    LET updated == evaluate_decision_file(calls[c].document, Request(c))
    IN  /\ calls[c].pc = "save"
        /\ calls[c].operation = "evaluate"
        /\ Len(audit_events) < MaxEvents
        /\ validate_semantics(calls[c].document)
        /\ save_result(c, updated, updated.decision_outcome)
        /\ Return(c)
        /\ UNCHANGED research_handoffs

transition(c) ==
    LET updated == transitioned(calls[c].document, calls[c].operation, calls[c].actor, Request(c))
    IN  /\ calls[c].pc = "save"
        /\ calls[c].operation \in Targets
        /\ Len(audit_events) < MaxEvents
        /\ save_result(c, updated, report)
        /\ Return(c)
        /\ UNCHANGED research_handoffs

\* The transaction is rolled back on a duplicate event or key, or the process
\* dies: nothing is saved.
fail(c) ==
    /\ calls[c] # Idle
    /\ Return(c)
    /\ UNCHANGED <<decision, audit_events, report, idempotency, research_handoffs>>

--------------------------------------------------------------------------------
(* PostgresDecisionEvidenceHandoff.attach: it locks the row and compares    *)
(* its hash with the document the caller read, so that reading and writing  *)
(* are one step.                                                            *)

attach(h) ==
    /\ decision # None
    /\ h \notin research_handoffs
    /\ decision.status = "DRAFT"
    /\ Len(audit_events) < MaxEvents
    /\ handoff_event(decision, h).event_id \notin EventIds
    /\ validate_semantics(with_evidence(decision, h, {StatusOf[h]}))
    /\ decision' = with_evidence(decision, h, {StatusOf[h]})
    /\ audit_events' = Append(audit_events, handoff_event(decision, h))
    /\ research_handoffs' = research_handoffs \cup {h}
    /\ UNCHANGED <<report, idempotency, calls>>

--------------------------------------------------------------------------------

Next ==
    \/ \E a \in Actors, f \in Files, k \in Keys : create_decision(a, f, k)
    \/ \E c \in Calls, a \in Actors, k \in Keys :
          \/ begin_evaluate(c, a, k)
          \/ \E target \in Targets : begin_transition(c, a, target, k)
    \/ \E c \in Calls :
          \/ get_decision(c)
          \/ _operation(c)
          \/ evaluate(c)
          \/ transition(c)
          \/ fail(c)
    \/ \E h \in Handoffs : attach(h)

Spec == Init /\ [][Next]_vars

--------------------------------------------------------------------------------
(* Properties *)

Requests == Actors \X ({"create"} \cup Operations) \X Keys

EventType ==
    [event_id : ({"created", "evaluation", "transition"} \X (Nat \ {0}))
                    \cup ({"research-handoff"} \X Handoffs),
     previous : {None} \cup ({"created", "evaluation", "transition"} \X (Nat \ {0}))
                    \cup ({"research-handoff"} \X Handoffs),
     actor : Actors \cup {"engine", "research-compiler"},
     from_status : CaseStatus \cup {None}, to_status : CaseStatus,
     result : Outcome \cup {None}, request : Requests \cup {None}]

Document ==
    [status : CaseStatus, decision_outcome : Outcome \cup {None},
     subject : {f.subject : f \in Files}, evidence : SUBSET EvidenceStatus,
     created_by : [id : Actors, role : Roles, kind : {"HUMAN", "AGENT", "SERVICE"}],
     requested_by : Actors, approvals : SUBSET Approval,
     satisfied : SUBSET {"APPROVER", "REVIEWER"},
     submitted : Seq([actor : Actors, to_status : CaseStatus]),
     audit_events : Seq(EventType)]

\* None is no document and no outcome: it stands for NULL.
ASSUME NoneAssumption == None \notin Document /\ None \notin Outcome

IsDocument(d) == d \in Document /\ Len(d.audit_events) \in 1..MaxEvents

\* Every variable holds a value of its kind.
TypeOK ==
    /\ decision = None \/ IsDocument(decision)
    /\ audit_events \in Seq(EventType)
    /\ report \in Outcome \cup {None}
    /\ idempotency \subseteq Requests
    /\ research_handoffs \subseteq Handoffs
    /\ \A c \in Calls :
          \/ calls[c] = Idle
          \/ /\ calls[c].pc \in {"fetch", "check", "save"}
             /\ calls[c].actor \in Actors
             /\ calls[c].operation \in Operations
             /\ calls[c].key \in Keys
             /\ calls[c].pc # "fetch" => IsDocument(calls[c].document)

\* What the service did to the document is explained by the audit table,
\* whichever of two racing saves came last: every event it appended to the
\* stored document is a row, it follows the row whose hash it carries, the last
\* one says where the document is (but for the one of the creation, which says
\* DRAFT of every file), and the stored report is the result of an evaluation
\* on record.  The history a client posted is in no table.
AuditCoversDocument ==
    /\ decision # None =>
          /\ \A i \in DOMAIN decision.audit_events :
                /\ decision.audit_events[i] \in Rows
                /\ decision.audit_events[i].previous =
                      IF i = 1 THEN None ELSE decision.audit_events[i - 1].event_id
          /\ Last(decision).event_id[1] # "created" => decision.status = Last(decision).to_status
    /\ report # None => \E e \in Rows : e.event_id[1] = "evaluation" /\ e.result = report

\* The tables of a case are of their types and tell the same history.
TablesAgree == TypeOK /\ AuditCoversDocument

\* However often a client repeats a request, and however its repetitions race,
\* it has at most one effect on the case.
OncePerKey ==
    \A e, f \in Rows : e.request # None /\ e.request = f.request => e = f

\* The approvals and the evaluations that the service recorded in a document.
ApprovalsOf(d) ==
    {i \in DOMAIN d.audit_events :
        d.audit_events[i].event_id[1] = "transition" /\ d.audit_events[i].to_status = "APPROVED"}
EvaluationsBefore(d, i) ==
    {j \in DOMAIN d.audit_events : j < i /\ d.audit_events[j].event_id[1] = "evaluation"}

\* Whatever a client posted and whichever saves overwrote each other: who moved
\* the stored document to APPROVED was a human who neither created it nor moved
\* it to validation before (by the events of the service or by the posted
\* ones), every mandatory requirement has an approval of someone who neither
\* created nor requested it, the approver's own if an approver is required, no
\* mandatory constraint is unsatisfied and no critical conflict is unresolved.
\* If the service evaluated the document before that, the last evaluation
\* passed it, and neither later evidence of Research nor a later evaluation
\* makes it one the engine would block.
ApprovalIsSound ==
    decision # None =>
        \A i \in ApprovalsOf(decision) :
            LET approver == decision.audit_events[i].actor
                evaluations == EvaluationsBefore(decision, i)
            IN  /\ approver \in Actors /\ KindOf[approver] = "HUMAN"
                /\ approver # decision.created_by.id
                /\ approver \notin ValidatorsIn(decision.submitted)
                /\ \A j \in 1..(i - 1) :
                      decision.audit_events[j].to_status = "VALIDATION"
                         => decision.audit_events[j].actor # approver
                /\ \A role \in decision.subject.requirements :
                      \E p \in decision.approvals :
                         /\ p[1] = role /\ (role = "APPROVER" => p[2] = approver)
                         /\ p[2] \notin {decision.created_by.id, decision.requested_by}
                /\ "MANDATORY" \notin decision.subject.unsatisfied
                /\ "CRITICAL" \notin decision.subject.unresolved
                /\ evaluations # {} =>
                      /\ assess(decision) # "BLOCK"
                      /\ \E j \in evaluations :
                            /\ \A k \in evaluations : k <= j
                            /\ decision.audit_events[j].result = "PASS"

=============================================================================
