------------------------------ MODULE CaseExport ------------------------------
(***************************************************************************)
(* The portable export of a case (export/service.py, export/postgresql.py) *)
(* and its offline validation (export/validator.py), on the states that    *)
(* DecisionCase reaches.                                                   *)
(*                                                                         *)
(* The snapshot is read in one REPEATABLE READ transaction and the archive *)
(* is computed from it without another look at the database, so an export  *)
(* is a function of one state.  Of the ten members the document, the       *)
(* report and the decision's audit trail are modelled; a digest is the     *)
(* content it was computed from, and the signature is left out.            *)
(***************************************************************************)
EXTENDS DecisionCase

\* decision_file.py, transitions.py, decisions.py and compiler.py: what an
\* event of each origin is called.
event_type(e) ==
    CASE e.event_id[1] = "created" -> "decision.created"
      [] e.event_id[1] = "evaluation" -> "decision.evaluated"
      [] e.event_id[1] = "transition" -> "status.transitioned"
      [] e.event_id[1] = "research-handoff" -> "research.evidence-attached"

\* The event types the registry accepts in audit/decision-events.json.
_LEGACY_EXPORT_TYPES ==
    {"decision.received", "decision.created", "decision.evaluated", "evidence.validated",
     "finding.created", "governance.decided", "review.requested", "status.transitioned"}

validate_export_event(e) == event_type(e) \in _LEGACY_EXPORT_TYPES

KnownEvents(events) == \A i \in DOMAIN events : validate_export_event(events[i])

\* The rows of the audit table in the order of their sequence.
decision_events == audit_events

snapshot == [document |-> decision, report |-> report, events |-> decision_events]

\* The archive, None when the export is refused.  An exporter with a signing
\* key refuses events it does not know; one without writes a 0.8.0 archive.
build(signed) ==
    IF decision = None \/ (signed /\ ~KnownEvents(decision_events))
    THEN None
    ELSE [schema_version |-> IF signed THEN "0.9.0" ELSE "0.8.0",
          members |-> snapshot, sha256 |-> snapshot]

\* Faulty variant: an event may follow any event before it.
any_predecessor(events) ==
    \A i \in DOMAIN events :
        IF i = 1 THEN events[i].previous = None
        ELSE \E j \in 1..(i - 1) : events[i].previous = events[j].event_id

\* Every event carries the hash of the one before it in the file.
_validate_audit_chains(events) ==
    \A i \in DOMAIN events :
        events[i].previous = IF i = 1 THEN None ELSE events[i - 1].event_id

\* No ExportValidationError: checksums, audit chains and event types.
validate_export(archive) ==
    /\ archive.sha256 = archive.members
    /\ _validate_audit_chains(archive.members.events)
    /\ archive.schema_version = "0.9.0" => KnownEvents(archive.members.events)

--------------------------------------------------------------------------------
(* Properties *)

\* An archive validates offline exactly if no update of the case was lost: its
\* audit trail then holds, event by event, what the service appended to the
\* exported document.  (Two routes that save over each other leave two rows
\* with the same predecessor, and every later export of the case fails
\* _validate_audit_chains.  The history that a client posted is in the document
\* and not in the trail; the validation compares neither with the other.)
ExportTellsHistory ==
    decision # None =>
        (validate_export(build(FALSE)) <=> audit_events = decision.audit_events)

\* The documented outcome of the pilot journey (Intake, Research, evaluation,
\* approval, offline-valid export): the signed export of a case is built and
\* validates.
ExportVerifies ==
    decision # None => build(TRUE) # None /\ validate_export(build(TRUE))
=============================================================================
