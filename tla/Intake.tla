-------------------------------- MODULE Intake --------------------------------
(***************************************************************************)
(* One intake of a tenant and the decision of its name: the routes of      *)
(* api/routes/intakes.py over the tables of intake/postgresql_repository   *)
(* and the decisions table, where a client may have posted a decision of   *)
(* that name as well.                                                      *)
(*                                                                         *)
(* Every route checks the idempotency key, reads the record, computes the  *)
(* next one in the process and saves it in a transaction of its own:       *)
(* save_operation overwrites the record without comparing it with what was *)
(* read.  compile also looks for the decision and creates it in            *)
(* transactions of their own before it saves.  The check of the key and    *)
(* the read are one step here: a key used between them lets the request go *)
(* on to a save that is rolled back, as does a key used after them.        *)
(*                                                                         *)
(* An audit event is known by the request that appended it and by its      *)
(* number, which is its id; the hash of its predecessor stands for the     *)
(* request that appended the predecessor.                                  *)
(*                                                                         *)
(* Requests that are refused change nothing and are left out.              *)
(***************************************************************************)
EXTENDS IntakeVerification

CONSTANTS
    Calls,     \* requests the API serves at a time
    Keys,      \* idempotency keys
    Confirmations, \* bound: what people confirm: fact, action, corrected value
    Posted,    \* bound: decisions that clients post under the id of the intake's
    MaxRequests \* bound: no request begins after so many took effect

\* actor, operation and key: the primary key of intake_idempotency.
RequestKeys == Actors \X ({<<"create">>, <<"compile">>} \cup ({"confirm"} \X Nat)) \X Keys

\* The record of an intake and the decision file, as far as they matter here.
Record == [input : Inputs, status : {"NEEDS_CONFIRMATION", "READY", "COMPILED"},
           verification : Report, events : Seq(RequestKeys), compiled_decision_id : BOOLEAN]
Decision == [created_by : {"system:intake-compiler", "client"}, source : Inputs \cup {None},
             claims : SUBSET [fact : Nat, type : Objective \cup Claims, value : Values],
             constraints : SUBSET ResultCode]

ASSUME ConfirmationsAssumption ==
    /\ \A x \in Confirmations : /\ x[2] \in {"CONFIRM", "CORRECT", "REJECT"}
                                /\ x[2] = "CORRECT" => x[3] \in Values
    /\ MaxRequests \in Nat
    /\ None \notin Record /\ None \notin Decision /\ None \notin RequestKeys
    /\ \A d \in Posted : d \in Decision /\ d.created_by = "client"

VARIABLES
    intake_record,        \* intake_records.record_json, None before it is created
    intake_confirmations, \* the rows of intake_confirmations
    intake_audit_events,  \* the rows of intake_audit_events
    intake_idempotency,   \* the primary keys of intake_idempotency
    decision,             \* the decision that has the id of the intake's, None before
    calls                 \* what each request has read so far

vars == <<intake_record, intake_confirmations, intake_audit_events, intake_idempotency,
          decision, calls>>

Idle == [pc |-> "idle"]

Init ==
    /\ intake_record = None
    /\ intake_confirmations = {}
    /\ intake_audit_events = {}
    /\ intake_idempotency = {}
    /\ decision = None
    /\ calls = [c \in Calls |-> Idle]

Return(c) == calls' = [calls EXCEPT ![c] = Idle]

--------------------------------------------------------------------------------
(* The first steps of the routes: a key that was used returns the stored    *)
(* response; else the record is read and the next one computed.             *)

KeyOf(request) == <<request.actor, request.operation, request.key>>

\* The request is free to go on: its key was not used.
_begin(c, request) ==
    /\ calls[c] = Idle
    /\ KeyOf(request) \notin intake_idempotency
    /\ Cardinality(intake_idempotency) < MaxRequests

\* The record is written next; its last events, as many as appended, are new.
Proceed(c, pc, request, record, appended) ==
    /\ calls' = [calls EXCEPT ![c] = [pc |-> pc, request |-> request, record |-> record,
                                      appended |-> appended]]
    /\ UNCHANGED <<intake_record, intake_confirmations, intake_audit_events,
                   intake_idempotency, decision>>

\* The request is answered with what is stored already.
_finish(request) ==
    /\ intake_idempotency' = intake_idempotency \cup {KeyOf(request)}
    /\ UNCHANGED <<intake_record, intake_confirmations, intake_audit_events, decision, calls>>

create_intake(c, a, input, key) ==
    LET request == [actor |-> a, operation |-> <<"create">>, key |-> key]
        report == verify(input)
        record == [input |-> input, status |-> target_status(report), verification |-> report,
                   events |-> <<KeyOf(request), KeyOf(request)>>, compiled_decision_id |-> FALSE]
    IN  /\ _begin(c, request)
        /\ \/ intake_record = None /\ Proceed(c, "save", request, record, 2)
           \/ intake_record # None /\ intake_record.input = input /\ _finish(request)

add_confirmation(c, a, fact, action, new_value, key) ==
    LET request == [actor |-> a, operation |-> <<"confirm", fact>>, key |-> key,
                    action |-> action]
        report == reverify(confirm_fact(intake_record.verification, fact, action, new_value, a))
        target == target_status(report)
        record == [intake_record EXCEPT !.status = target, !.verification = report,
                                        !.events = Append(@, KeyOf(request))]
    IN  /\ _begin(c, request)
        /\ KindOf[a] = "HUMAN"
        /\ intake_record # None
        /\ fact \in DOMAIN intake_record.verification.candidates
        /\ target # intake_record.status => <<intake_record.status, target>> \in _ALLOWED
        /\ Proceed(c, "save", request, record, 1)

compile_intake(c, a, key) ==
    LET request == [actor |-> a, operation |-> <<"compile">>, key |-> key]
        report == intake_record.verification
        record == [intake_record EXCEPT !.status = "COMPILED", !.compiled_decision_id = TRUE,
                                        !.events = Append(@, KeyOf(request))]
    IN  /\ _begin(c, request)
        /\ intake_record # None
        /\ policy # None
        /\ \/ /\ intake_record.compiled_decision_id
              /\ decision # None
              /\ _finish(request)
           \/ /\ ~intake_record.compiled_decision_id \/ decision = None
              /\ intake_record.status = "READY"
              /\ report.ready
              /\ report.unresolved_requirement_refs = {}
              /\ verified_facts(report) # {}
              /\ Proceed(c, "lookup", request, record, 1)

--------------------------------------------------------------------------------
(* compile: look for the decision, create it if there is none.  Whatever     *)
(* decision has the id is taken for the compiled one, a client's too.        *)

get_decision(c) ==
    /\ calls[c].pc = "lookup"
    /\ calls' = [calls EXCEPT ![c].pc = IF decision = None THEN "create" ELSE "save"]
    /\ UNCHANGED <<intake_record, intake_confirmations, intake_audit_events,
                   intake_idempotency, decision>>

create_decision(c) ==
    /\ calls[c].pc = "create"
    /\ decision = None
    /\ decision' = compile(calls[c].record.verification, calls[c].record.input)
    /\ calls' = [calls EXCEPT ![c].pc = "save"]
    /\ UNCHANGED <<intake_record, intake_confirmations, intake_audit_events,
                   intake_idempotency>>

\* POST /v1/decisions with this id, before the intake is compiled.
post_decision(d) ==
    /\ decision = None
    /\ decision' = d
    /\ UNCHANGED <<intake_record, intake_confirmations, intake_audit_events,
                   intake_idempotency, calls>>

--------------------------------------------------------------------------------
(* save_operation: the record is overwritten, events whose id exists are     *)
(* skipped, and a key that was used meanwhile rolls everything back.         *)

RequestKey(c) == KeyOf(calls[c].request)
Numbers == {row.number : row \in intake_audit_events}

\* COALESCE(MAX(sequence), 0)
LastSequence ==
    CHOOSE n \in {0} \cup {row.sequence : row \in intake_audit_events} :
        \A row \in intake_audit_events : row.sequence <= n

\* How many events of the record of c are not new.
StoredEvents(c) == Len(calls[c].record.events) - calls[c].appended

\* The event of that number as the table has it, else as the list has it.
StoredEvent(events, n) ==
    IF n \in Numbers THEN (CHOOSE row \in intake_audit_events : row.number = n).event ELSE events[n]

\* Each event is linked to its predecessor in the table.
linked_to_table(c) ==
    LET events == calls[c].record.events
    IN  {[number |-> n, sequence |-> LastSequence + (n - StoredEvents(c)), event |-> events[n],
          previous |-> IF n = 1 THEN None ELSE StoredEvent(events, n - 1)] :
            n \in (StoredEvents(c) + 1 .. Len(events)) \ Numbers}

\* Each event is linked to its predecessor in the copy that the request read.
new_events(c) ==
    LET events == calls[c].record.events
    IN  {[number |-> n, sequence |-> LastSequence + (n - StoredEvents(c)), event |-> events[n],
          previous |-> IF n = 1 THEN None ELSE events[n - 1]] :
            n \in (StoredEvents(c) + 1 .. Len(events)) \ Numbers}

save_operation(c) ==
    /\ calls[c].pc = "save"
    /\ RequestKey(c) \notin intake_idempotency
    /\ intake_record' = calls[c].record
    /\ intake_confirmations' =
          LET operation == calls[c].request.operation
          IN  IF operation[1] = "confirm"
              THEN intake_confirmations \cup
                      {[confirmation_id |-> RequestKey(c), fact |-> operation[2],
                        action |-> calls[c].request.action, actor |-> calls[c].request.actor,
                        value |-> calls[c].record.verification.candidates[operation[2]].value]}
              ELSE intake_confirmations
    /\ intake_audit_events' = intake_audit_events \cup new_events(c)
    /\ intake_idempotency' = intake_idempotency \cup {RequestKey(c)}
    /\ Return(c)
    /\ UNCHANGED decision

\* A transaction is rolled back, or the process dies.
fail(c) ==
    /\ calls[c] # Idle
    /\ Return(c)
    /\ UNCHANGED <<intake_record, intake_confirmations, intake_audit_events,
                   intake_idempotency, decision>>

--------------------------------------------------------------------------------

Next ==
    \/ \E c \in Calls, a \in Actors, k \in Keys :
          \/ \E i \in Inputs : create_intake(c, a, i, k)
          \/ \E x \in Confirmations : add_confirmation(c, a, x[1], x[2], x[3], k)
          \/ compile_intake(c, a, k)
    \/ \E c \in Calls :
          get_decision(c) \/ create_decision(c) \/ save_operation(c) \/ fail(c)
    \/ \E d \in Posted : post_decision(d)

Spec == Init /\ [][Next]_vars

--------------------------------------------------------------------------------
(* Properties *)

IsRecord(r) ==
    /\ r \in Record
    /\ DOMAIN r.verification.candidates = DOMAIN r.input.facts
    /\ Len(r.events) >= 2

\* Every variable holds a value of its kind.
TypeOK ==
    /\ intake_record = None \/ IsRecord(intake_record)
    /\ \A row \in intake_confirmations : row.actor \in Actors /\ row.value \in Values
    /\ \A row \in intake_audit_events :
          /\ row.number \in Nat /\ row.sequence \in Nat
          /\ row.event \in RequestKeys /\ row.previous \in RequestKeys \cup {None}
    /\ decision = None \/ decision \in Decision
    /\ \A c \in Calls : calls[c].pc \in {"idle", "lookup", "create", "save"}

\* A record that is ready or compiled rests on facts that are settled: every
\* required fact is verified or confirmed, no governance claim is open, no
\* conflict or gap is left, whichever writer saved the record last.
ReadyIsVerified ==
    intake_record # None /\ intake_record.status \in {"READY", "COMPILED"} =>
        LET candidates == intake_record.verification.candidates
        IN  /\ Required \subseteq Present(candidates)
            /\ _conflicts(intake_record.input) = {}
            /\ intake_record.verification.unresolved_requirement_refs = {}
            /\ \A i \in DOMAIN candidates :
                  candidates[i].type \in {"POLICY_CLAIM", "APPROVAL_CLAIM", "SELF_APPROVAL_CLAIM"}
                      => candidates[i].verification_status # "UNRESOLVED"

\* The decision was compiled, not posted by a client.
Compiled == decision # None /\ decision.created_by = "system:intake-compiler"

\* Every claim of a compiled decision is about a fact of the raw input it names,
\* with the value the extractor found for an objective fact or one that a human
\* confirmed, with the confirmation on record; a governance claim within an
\* untrusted instruction and a policy that is not registered never get in,
\* whoever confirmed them.
DecisionIsGrounded ==
    Compiled =>
        LET facts == decision.source.facts
        IN  \A claim \in decision.claims :
                /\ claim.fact \in DOMAIN facts
                /\ claim.type = facts[claim.fact].type
                /\ \/ claim.type \in Objective /\ claim.value = facts[claim.fact].value
                   \/ \E row \in intake_confirmations :
                         /\ row.fact = claim.fact /\ row.value = claim.value
                         /\ row.action # "REJECT" /\ KindOf[row.actor] = "HUMAN"
                /\ claim.type \in {"POLICY_CLAIM", "APPROVAL_CLAIM", "ROLE_CLAIM"}
                       => ~facts[claim.fact].embedded
                /\ claim.type = "POLICY_CLAIM" => claim.value # "beyond"

\* People with the role of an approver who confirmed an approval claim of the input.
Approvers(input, rows) ==
    {row.actor : row \in {x \in rows : /\ x.action # "REJECT"
                                      /\ x.fact \in DOMAIN input.facts
                                      /\ input.facts[x.fact].type = "APPROVAL_CLAIM"
                                      /\ RoleOf[x.actor] = "APPROVER"}}

\* A compiled decision that claims an amount beyond the threshold, the first of
\* its input, carries the missing-approval constraint unless as many different
\* approvers confirmed its approval claims, on record, as the policy demands.
ApprovalsAreReal ==
    /\ Compiled
    /\ \E claim \in decision.claims :
          /\ claim.type = "AMOUNT" /\ claim.value = "beyond"
          /\ \A f \in DOMAIN decision.source.facts :
                f < claim.fact => decision.source.facts[f].type # "AMOUNT"
    /\ "REQUIRED_APPROVAL_MISSING" \notin decision.constraints
    => Cardinality(Approvers(decision.source, intake_confirmations))
          >= policy.required_approval_count

\* A compiled intake has its decision, although the decision is created in an
\* earlier transaction than the one that marks the intake.
CompiledHasDecision ==
    intake_record # None /\ intake_record.status = "COMPILED" => decision # None

\* The audit table keeps one gapless sequence that is the order of the numbers,
\* although the numbers of the events come from records that may be stale, and
\* has an event for every number of the record's.
AuditGapless ==
    /\ {row.sequence : row \in intake_audit_events} = 1..LastSequence
    /\ \A x, y \in intake_audit_events : x.number = x.sequence /\ (x.number = y.number => x = y)
    /\ intake_record # None => Len(intake_record.events) <= LastSequence

\* Both tell only of requests that took effect.
EventsTookEffect ==
    /\ \A row \in intake_audit_events : row.event \in intake_idempotency
    /\ intake_record # None =>
          \A n \in DOMAIN intake_record.events : intake_record.events[n] \in intake_idempotency

\* The events up to number m are linked by the hashes of their predecessors.
Linked(m) ==
    \A x, y \in intake_audit_events :
        x.number <= m /\ x.number = y.number + 1 => x.previous = y.event

\* Two requests that read one record append events of one number, and the table
\* keeps one of them while the record keeps the other.  That can be seen: if an
\* event of the table is the record's and the links up to it hold, then all
\* events up to it are the record's.
AuditTellsHistory ==
    intake_record # None =>
        \A last \in intake_audit_events :
            /\ last.number <= Len(intake_record.events)
            /\ last.event = intake_record.events[last.number]
            /\ Linked(last.number)
            => \A row \in intake_audit_events :
                  row.number <= last.number => row.event = intake_record.events[row.number]

\* The events of the list that confirm, correct or reject the fact.
EventsAbout(fact, events) == {n \in DOMAIN events : events[n][2] = <<"confirm", fact>>}

\* Who decided about a fact, according to the record, is who did so last
\* according to its own events.
RecordTellsHistory ==
    intake_record # None =>
        \A f \in DOMAIN intake_record.verification.candidates :
            LET about == EventsAbout(f, intake_record.events)
                who == intake_record.verification.candidates[f].confirmed_by_actor_id
            IN  /\ about = {} => who = None
                /\ \A n \in about : (\A k \in about : k <= n) => intake_record.events[n][1] = who

\* The tables of an intake are of their types and agree with each other, as far
\* as they can: record, decision and audit events are written from stale copies
\* and in different transactions, and a disagreement shows in the links.
TablesAgree ==
    /\ TypeOK
    /\ CompiledHasDecision
    /\ AuditGapless
    /\ EventsTookEffect
    /\ AuditTellsHistory
    /\ RecordTellsHistory
=============================================================================
