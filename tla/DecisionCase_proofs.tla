------------------------ MODULE DecisionCase_proofs ------------------------
(***************************************************************************)
(* Proofs about the decision case and its export, for any actors and       *)
(* roles, any files, any number of requests at a time and of keys.         *)
(*                                                                         *)
(* The history of a document is stated over the rows of the audit table as *)
(* a parameter, so that a lemma about a document also serves for the       *)
(* document a request has read and for the rows of the next state.         *)
(***************************************************************************)
EXTENDS CaseExport, TLAPS

\* A request that is on its way to read the document, and one that has read it.
Fetching == [pc : {"fetch"}, actor : Actors, operation : {"evaluate"}, key : Keys]
Holding == [pc : {"check", "save"}, actor : Actors, operation : Operations, key : Keys,
            document : Document]
Holds(c) == calls[c].pc \in {"check", "save"}

TypeInv ==
    /\ decision = None \/ decision \in Document
    /\ audit_events \in Seq(EventType) /\ Len(audit_events) <= MaxEvents
    /\ report \in Outcome \cup {None}
    /\ idempotency \subseteq Requests
    /\ research_handoffs \subseteq Handoffs
    /\ calls \in [Calls -> {Idle} \cup Fetching \cup Holding]

\* The history of a document in the rows of the audit table.
IsRow(e, rows) == \E j \in 1..Len(rows) : rows[j] = e
HistoryOf(d, rows) ==
    /\ Len(d.audit_events) \in 1..Len(rows)
    /\ _validate_audit_chains(d.audit_events)
    /\ \A i \in 1..Len(d.audit_events) : IsRow(d.audit_events[i], rows)
    /\ Last(d).event_id[1] # "created" => d.status = Last(d).to_status

\* The outcome of a document that the service evaluated is the result of the last
\* evaluation in its history.
IsEvaluation(e) == e.event_id[1] = "evaluation"
LastEvaluation(events, result) ==
    \E i \in 1..Len(events) :
        /\ IsEvaluation(events[i]) /\ events[i].result = result
        /\ \A j \in 1..Len(events) : IsEvaluation(events[j]) => j <= i
Evaluated(events) == \E i \in 1..Len(events) : IsEvaluation(events[i])

\* Nothing of the evidence and the subject makes the engine block.
Unblocked(d) ==
    /\ "FABRICATED" \notin d.evidence
    /\ ~(mandatory_evidence_missing(d) /\ d.subject.high_impact)
    /\ "MANDATORY" \notin d.subject.unsatisfied
    /\ "CRITICAL" \notin d.subject.unresolved

\* What ApprovalIsSound says of one approval in a document.
Entitled(d, approver) ==
    /\ approver \in Actors /\ KindOf[approver] = "HUMAN"
    /\ approver # d.created_by.id
    /\ approver \notin ValidatorsIn(d.submitted)
    /\ \A role \in d.subject.requirements :
          \E p \in d.approvals :
             /\ p[1] = role /\ (role = "APPROVER" => p[2] = approver)
             /\ p[2] \notin {d.created_by.id, d.requested_by}
    /\ "MANDATORY" \notin d.subject.unsatisfied
    /\ "CRITICAL" \notin d.subject.unresolved
SoundApproval(d, i) ==
    /\ Entitled(d, d.audit_events[i].actor)
    /\ \A j \in 1..(i - 1) :
          d.audit_events[j].to_status = "VALIDATION"
             => d.audit_events[j].actor # d.audit_events[i].actor
    /\ \A k \in 1..(i - 1) : IsEvaluation(d.audit_events[k]) =>
          /\ Unblocked(d)
          /\ \E j \in 1..(i - 1) :
                /\ IsEvaluation(d.audit_events[j]) /\ d.audit_events[j].result = "PASS"
                /\ \A l \in 1..(i - 1) : IsEvaluation(d.audit_events[l]) => l <= j
IsApproval(e) == e.event_id[1] = "transition" /\ e.to_status = "APPROVED"

\* What a document keeps, whatever was posted and whichever request holds it.
SoundDocument(d) ==
    /\ Evaluated(d.audit_events) =>
          /\ LastEvaluation(d.audit_events, d.decision_outcome)
          /\ d.decision_outcome = "PASS" => Unblocked(d)
    /\ \A p \in d.approvals : p[2] \notin {d.created_by.id, d.requested_by}
    /\ \A i \in 1..Len(d.audit_events) : IsApproval(d.audit_events[i]) => SoundApproval(d, i)

\* A request that has read the document acts on a sound one, and one that will
\* approve it was allowed to.
CallsInv ==
    \A c \in Calls : Holds(c) =>
        /\ decision # None
        /\ HistoryOf(calls[c].document, audit_events)
        /\ SoundDocument(calls[c].document)
        /\ calls[c].operation = "APPROVED" =>
              approval_allowed(calls[c].document, _actor(calls[c].actor, "approve"))

DecisionInv ==
    /\ decision = None => audit_events = <<>>
    /\ decision # None => HistoryOf(decision, audit_events) /\ SoundDocument(decision)
    /\ report # None =>
          \E j \in 1..Len(audit_events) :
              IsEvaluation(audit_events[j]) /\ audit_events[j].result = report

\* Event ids are unique, and so are the requests that have had an effect.
RowsInv ==
    /\ \A i, j \in 1..Len(audit_events) :
          audit_events[i].event_id = audit_events[j].event_id => i = j
    /\ \A i \in 1..Len(audit_events) :
          audit_events[i].request # None => audit_events[i].request \in idempotency
    /\ \A i, j \in 1..Len(audit_events) :
          audit_events[i].request # None /\ audit_events[i].request = audit_events[j].request
             => i = j

\* As long as the rows form one chain, no update was lost: the stored document
\* has all of them, and every copy a prefix.
Prefix(events, rows) == \A i \in 1..Len(events) : events[i] = rows[i]
ChainInv ==
    decision # None /\ _validate_audit_chains(audit_events) =>
        /\ decision.audit_events = audit_events
        /\ \A c \in Calls : Holds(c) => Prefix(calls[c].document.audit_events, audit_events)

IInv == TypeInv /\ CallsInv /\ DecisionInv /\ RowsInv /\ ChainInv

-----------------------------------------------------------------------------
(* The engine. *)

\* A file that passes is unblocked, and an unblocked file whose creator did not
\* approve it is never blocked.
LEMMA EngineFacts ==
    ASSUME NEW d
    PROVE  /\ assess(d) \in Outcome
           /\ assess(d) = "PASS" => Unblocked(d)
           /\ Unblocked(d) /\ (\A p \in d.approvals : p[2] # d.created_by.id)
                => assess(d) # "BLOCK"
<1> DEFINE findings == _validate(d)
<1>1. /\ assess(d) \in Outcome
      /\ assess(d) = "PASS" => findings = {}
      /\ assess(d) = "BLOCK" => \E f \in findings : f.severity = "BLOCK"
  BY DEF assess, _govern, Outcome
<1>2. ASSUME findings = {} PROVE Unblocked(d)
  <2>1. EvidenceFindings(d.evidence) = {}
    BY <1>2 DEF _validate
  <2>2. "FABRICATED" \notin d.evidence
    BY <2>1 DEF EvidenceFindings
  <2>3. ~mandatory_evidence_missing(d)
    BY <1>2 DEF _validate
  <2>4. "MANDATORY" \notin d.subject.unsatisfied
    BY <1>2 DEF _validate
  <2>5. "CRITICAL" \notin d.subject.unresolved
    BY <1>2 DEF _validate
  <2> QED
    BY <2>2, <2>3, <2>4, <2>5 DEF Unblocked
<1>3. ASSUME Unblocked(d), \A p \in d.approvals : p[2] # d.created_by.id, NEW f \in findings
      PROVE  f.severity # "BLOCK"
  <2>1. \A g \in EvidenceFindings(d.evidence) : g.severity = "REVIEW"
    BY <1>3 DEF EvidenceFindings, Finding, Unblocked
  <2> DEFINE s == d.subject
             When(condition, finding) == IF condition THEN {finding} ELSE {}
  <2>2. \/ f \in EvidenceFindings(d.evidence)
        \/ f \in When(mandatory_evidence_missing(d),
                      Finding("MANDATORY_EVIDENCE_MISSING",
                              IF s.high_impact THEN "BLOCK" ELSE "REVIEW"))
        \/ f \in When("REVIEW_REQUIRED" \in s.unsatisfied,
                      Finding("CONSTRAINT_REQUIRES_REVIEW", "REVIEW"))
        \/ f \in When(s.requires_review, Finding("POLICY_REQUIRES_REVIEW", "REVIEW"))
        \/ f \in When(s.high_impact /\ s.uncertain, Finding("HIGH_IMPACT_UNCERTAINTY", "REVIEW"))
        \/ f \in When(s.unresolved \ {"CRITICAL"} # {}, Finding("CONFLICT_UNRESOLVED", "REVIEW"))
    BY <1>3 DEF _validate, Unblocked
  <2>3. CASE f \in When(mandatory_evidence_missing(d),
                        Finding("MANDATORY_EVIDENCE_MISSING",
                                IF s.high_impact THEN "BLOCK" ELSE "REVIEW"))
    BY <1>3, <2>3 DEF Unblocked, Finding
  <2> QED
    BY <2>1, <2>2, <2>3 DEF Finding
<1> QED
  BY <1>1, <1>2, <1>3

-----------------------------------------------------------------------------
(* Events. *)

\* The fields of an event, and its type.
LEMMA EventFields ==
    ASSUME NEW d, NEW type, NEW actor, NEW to, NEW result, NEW request
    PROVE  /\ Event(d, type, actor, to, result, request).event_id[1] = type
           /\ Event(d, type, actor, to, result, request).actor = actor
           /\ Event(d, type, actor, to, result, request).to_status = to
           /\ Event(d, type, actor, to, result, request).result = result
           /\ Event(d, type, actor, to, result, request).request = request
           /\ Event(d, type, actor, to, result, request).previous = Last(d).event_id
BY DEF Event, Last

\* The events that the routes append are typed.
LEMMA EventTyped ==
    ASSUME NEW d \in Document, NEW type \in {"created", "evaluation", "transition"},
           NEW actor \in Actors \cup {"engine", "research-compiler"}, NEW to \in CaseStatus,
           NEW result \in Outcome \cup {None}, NEW request \in Requests \cup {None},
           Len(d.audit_events) # 0
    PROVE  Event(d, type, actor, to, result, request) \in EventType
<1> DEFINE n == Len(d.audit_events)
           m == Len(d.submitted)
<1>1. /\ d.audit_events \in Seq(EventType) /\ n \in Nat /\ d.status \in CaseStatus
      /\ d.submitted \in Seq([actor : Actors, to_status : CaseStatus]) /\ m \in Nat
  BY DEF Document
<1>2. m + n + 1 \in Nat \ {0}
  <2>1. \A x, y \in Nat : x + y + 1 \in Nat \ {0}
    OBVIOUS
  <2> HIDE DEF m, n
  <2> QED
    BY <1>1, <2>1
<1>3. <<type, m + n + 1>> \in {"created", "evaluation", "transition"} \X (Nat \ {0})
  BY <1>2
<1>4. d.audit_events[n] \in EventType
  <2>1. n \in 1..n
    BY <1>1
  <2> QED
    BY <1>1, <2>1
<1>5. d.audit_events[n].event_id \in
          ({"created", "evaluation", "transition"} \X (Nat \ {0}))
             \cup ({"research-handoff"} \X Handoffs)
  BY <1>4 DEF EventType
<1> HIDE DEF n, m
<1> QED
  BY <1>1, <1>3, <1>5 DEF Event, EventType, n, m

-----------------------------------------------------------------------------
(* Histories. *)

\* New rows leave the history of a document what it is.
LEMMA RowsGrow ==
    ASSUME NEW rows \in Seq(EventType), NEW e \in EventType, NEW d, HistoryOf(d, rows)
    PROVE  HistoryOf(d, Append(rows, e))
<1>1. /\ Len(Append(rows, e)) = Len(rows) + 1 /\ Len(rows) \in Nat
      /\ \A j \in 1..Len(rows) : Append(rows, e)[j] = rows[j]
  OBVIOUS
<1>2. \A f : IsRow(f, rows) => IsRow(f, Append(rows, e))
  BY <1>1 DEF IsRow
<1>3. 1..Len(rows) \subseteq 1..Len(Append(rows, e))
  BY <1>1
<1> QED
  BY <1>2, <1>3 DEF HistoryOf

\* The chain of a history that an event is appended to.
LEMMA ChainGrows ==
    ASSUME NEW events \in Seq(EventType), NEW e \in EventType, Len(events) # 0
    PROVE  _validate_audit_chains(Append(events, e))
             <=> /\ _validate_audit_chains(events)
                 /\ e.previous = events[Len(events)].event_id
<1> DEFINE longer == Append(events, e)
<1>1. /\ Len(events) \in Nat /\ Len(events) >= 1 /\ longer \in Seq(EventType)
      /\ Len(longer) = Len(events) + 1 /\ longer[Len(events) + 1] = e
      /\ \A j \in 1..Len(events) : longer[j] = events[j]
      /\ DOMAIN longer = 1..Len(longer) /\ DOMAIN events = 1..Len(events)
  OBVIOUS
<1> HIDE DEF longer
<1>2. ASSUME _validate_audit_chains(longer)
      PROVE  _validate_audit_chains(events) /\ e.previous = events[Len(events)].event_id
  <2>1. ASSUME NEW i \in 1..Len(events)
        PROVE  events[i].previous = IF i = 1 THEN None ELSE events[i - 1].event_id
    <3>1. longer[i].previous = IF i = 1 THEN None ELSE longer[i - 1].event_id
      BY <1>1, <1>2 DEF _validate_audit_chains
    <3>2. i # 1 => i - 1 \in 1..Len(events)
      BY <1>1
    <3> QED
      BY <1>1, <3>1, <3>2
  <2>2. longer[Len(events) + 1].previous = longer[Len(events)].event_id
    BY <1>1, <1>2 DEF _validate_audit_chains
  <2> QED
    BY <1>1, <2>1, <2>2 DEF _validate_audit_chains
<1>3. ASSUME _validate_audit_chains(events), e.previous = events[Len(events)].event_id
      PROVE  _validate_audit_chains(longer)
  <2>1. ASSUME NEW i \in 1..Len(longer)
        PROVE  longer[i].previous = IF i = 1 THEN None ELSE longer[i - 1].event_id
    <3>1. CASE i \in 1..Len(events)
      <4>1. events[i].previous = IF i = 1 THEN None ELSE events[i - 1].event_id
        BY <1>1, <1>3, <3>1 DEF _validate_audit_chains
      <4>2. i # 1 => i - 1 \in 1..Len(events)
        BY <1>1, <3>1
      <4> QED
        BY <1>1, <3>1, <4>1, <4>2
    <3>2. CASE i = Len(events) + 1
      <4>1. i # 1 /\ i - 1 = Len(events) /\ Len(events) \in 1..Len(events)
        BY <1>1, <3>2
      <4> QED
        BY <1>1, <1>3, <3>2, <4>1
    <3> QED
      BY <1>1, <3>1, <3>2
  <2> QED
    BY <1>1, <2>1 DEF _validate_audit_chains
<1> QED
  BY <1>2, <1>3 DEF longer

\* A document that is saved with one more event has its history in the rows
\* with that event.
LEMMA HistoryGrows ==
    ASSUME NEW rows \in Seq(EventType), NEW e \in EventType, NEW d \in Document, NEW u \in Document,
           HistoryOf(d, rows), u.audit_events = Append(d.audit_events, e),
           e.previous = Last(d).event_id, u.status = e.to_status
    PROVE  HistoryOf(u, Append(rows, e))
<1> DEFINE events == d.audit_events
<1>1. /\ events \in Seq(EventType) /\ Len(events) \in 1..Len(rows) /\ Len(events) \in Nat
      /\ Len(rows) \in Nat
  BY DEF Document, HistoryOf
<1>2. /\ u.audit_events = Append(events, e) /\ e.previous = events[Len(events)].event_id
      /\ _validate_audit_chains(events) /\ \A i \in 1..Len(events) : IsRow(events[i], rows)
  BY DEF Last, HistoryOf
<1> HIDE DEF events
<1>3. /\ Len(Append(rows, e)) = Len(rows) + 1 /\ Append(rows, e)[Len(rows) + 1] = e
      /\ \A j \in 1..Len(rows) : Append(rows, e)[j] = rows[j]
  OBVIOUS
<1>4. /\ Len(u.audit_events) = Len(events) + 1 /\ u.audit_events[Len(events) + 1] = e
      /\ \A j \in 1..Len(events) : u.audit_events[j] = events[j]
  BY <1>1, <1>2
<1>5. Len(u.audit_events) \in 1..Len(Append(rows, e))
  BY <1>1, <1>3, <1>4
<1>6. _validate_audit_chains(u.audit_events)
  BY <1>1, <1>2, ChainGrows
<1>7. ASSUME NEW i \in 1..Len(u.audit_events) PROVE IsRow(u.audit_events[i], Append(rows, e))
  <2>1. IsRow(e, Append(rows, e))
    <3>1. Len(rows) + 1 \in 1..Len(Append(rows, e))
      BY <1>1, <1>3
    <3> QED
      BY <1>3, <3>1 DEF IsRow
  <2>2. \A f : IsRow(f, rows) => IsRow(f, Append(rows, e))
    <3>1. 1..Len(rows) \subseteq 1..Len(Append(rows, e))
      BY <1>1, <1>3
    <3> QED
      BY <1>3, <3>1 DEF IsRow
  <2>3. i \in 1..Len(events) \/ i = Len(events) + 1
    BY <1>1, <1>4
  <2> QED
    BY <1>2, <1>4, <2>1, <2>2, <2>3
<1>8. Last(u) = e
  BY <1>4 DEF Last
<1> QED
  BY <1>5, <1>6, <1>7, <1>8 DEF HistoryOf

\* The last evaluation of a history that an event is appended to.
LEMMA EvaluationKept ==
    ASSUME NEW events \in Seq(EventType), NEW e \in EventType, NEW result
    PROVE  /\ IsEvaluation(e) /\ e.result = result => LastEvaluation(Append(events, e), result)
           /\ ~IsEvaluation(e) /\ LastEvaluation(events, result)
                => LastEvaluation(Append(events, e), result)
           /\ ~IsEvaluation(e) /\ Evaluated(Append(events, e)) => Evaluated(events)
<1> DEFINE longer == Append(events, e)
<1>1. /\ Len(events) \in Nat /\ Len(longer) = Len(events) + 1 /\ longer[Len(events) + 1] = e
      /\ \A j \in 1..Len(events) : longer[j] = events[j]
      /\ \A j \in 1..Len(longer) : j \in 1..Len(events) \/ j = Len(events) + 1
      /\ \A j \in 1..Len(longer) : j <= Len(events) + 1
      /\ 1..Len(events) \subseteq 1..Len(longer) /\ Len(events) + 1 \in 1..Len(longer)
  OBVIOUS
<1> HIDE DEF longer
<1>2. IsEvaluation(e) /\ e.result = result => LastEvaluation(longer, result)
  BY <1>1 DEF LastEvaluation
<1>3. ASSUME ~IsEvaluation(e), LastEvaluation(events, result)
      PROVE  LastEvaluation(longer, result)
  <2>1. PICK i \in 1..Len(events) :
            /\ IsEvaluation(events[i]) /\ events[i].result = result
            /\ \A j \in 1..Len(events) : IsEvaluation(events[j]) => j <= i
    BY <1>3 DEF LastEvaluation
  <2>2. i \in 1..Len(longer) /\ IsEvaluation(longer[i]) /\ longer[i].result = result
    BY <1>1, <2>1
  <2>3. \A j \in 1..Len(longer) : IsEvaluation(longer[j]) => j <= i
    BY <1>1, <1>3, <2>1
  <2> QED
    BY <2>2, <2>3 DEF LastEvaluation
<1>4. ~IsEvaluation(e) /\ Evaluated(longer) => Evaluated(events)
  BY <1>1 DEF Evaluated
<1> QED
  BY <1>2, <1>3, <1>4 DEF longer

\* What holds of an approval keeps holding as events and approvals are added.
LEMMA ApprovalsKept ==
    ASSUME NEW d, NEW u, Len(d.audit_events) \in Nat,
           \A j \in 1..Len(d.audit_events) : u.audit_events[j] = d.audit_events[j],
           u.subject = d.subject, u.created_by = d.created_by, u.requested_by = d.requested_by,
           u.submitted = d.submitted, d.approvals \subseteq u.approvals,
           Unblocked(d) => Unblocked(u),
           NEW i \in 1..Len(d.audit_events), SoundApproval(d, i)
    PROVE  SoundApproval(u, i)
<1>1. Entitled(u, d.audit_events[i].actor)
  BY DEF Entitled, SoundApproval
<1>2. PICK n : n = Len(d.audit_events)
  OBVIOUS
<1>3. PICK old, new : old = d.audit_events /\ new = u.audit_events
  OBVIOUS
<1>4. \A j \in 1..(i - 1) : j \in 1..n
  BY <1>2
<1>5. new[i] = old[i] /\ \A j \in 1..(i - 1) : new[j] = old[j]
  BY <1>2, <1>3, <1>4
<1>6. /\ \A j \in 1..(i - 1) : old[j].to_status = "VALIDATION" => old[j].actor # old[i].actor
      /\ \A k \in 1..(i - 1) : IsEvaluation(old[k]) =>
            /\ Unblocked(d)
            /\ \E j \in 1..(i - 1) :
                  /\ IsEvaluation(old[j]) /\ old[j].result = "PASS"
                  /\ \A l \in 1..(i - 1) : IsEvaluation(old[l]) => l <= j
  BY <1>3, Zenon DEF SoundApproval
<1>7. /\ \A j \in 1..(i - 1) : new[j].to_status = "VALIDATION" => new[j].actor # new[i].actor
      /\ \A k \in 1..(i - 1) : IsEvaluation(new[k]) =>
            /\ Unblocked(u)
            /\ \E j \in 1..(i - 1) :
                  /\ IsEvaluation(new[j]) /\ new[j].result = "PASS"
                  /\ \A l \in 1..(i - 1) : IsEvaluation(new[l]) => l <= j
  <2>1. ASSUME NEW k \in 1..(i - 1), IsEvaluation(new[k])
        PROVE  /\ Unblocked(u)
               /\ \E j \in 1..(i - 1) :
                     /\ IsEvaluation(new[j]) /\ new[j].result = "PASS"
                     /\ \A l \in 1..(i - 1) : IsEvaluation(new[l]) => l <= j
    <3>1. IsEvaluation(old[k])
      BY <1>5, <2>1
    <3>2. PICK j \in 1..(i - 1) :
             /\ IsEvaluation(old[j]) /\ old[j].result = "PASS"
             /\ \A l \in 1..(i - 1) : IsEvaluation(old[l]) => l <= j
      BY <1>6, <2>1, <3>1
    <3>3. IsEvaluation(new[j]) /\ new[j].result = "PASS"
      BY <1>5, <3>2
    <3>4. \A l \in 1..(i - 1) : IsEvaluation(new[l]) => l <= j
      BY <1>5, <3>2
    <3>5. Unblocked(u)
      BY <1>6, <2>1, <3>1
    <3> QED
      BY <3>3, <3>4, <3>5
  <2> QED
    BY <1>5, <1>6, <2>1
<1>8. Entitled(u, new[i].actor)
  BY <1>1, <1>3, <1>5
<1> QED
  BY <1>3, <1>7, <1>8, Zenon DEF SoundApproval

\* A document to which an event is appended that is no approval keeps sound
\* approvals.
LEMMA AppendKeepsApprovals ==
    ASSUME NEW d \in Document, SoundDocument(d), NEW u, NEW e \in EventType,
           u.audit_events = Append(d.audit_events, e), ~IsApproval(e),
           u.subject = d.subject, u.created_by = d.created_by, u.requested_by = d.requested_by,
           u.submitted = d.submitted, u.approvals = d.approvals, Unblocked(d) => Unblocked(u)
    PROVE  \A i \in 1..Len(u.audit_events) : IsApproval(u.audit_events[i]) => SoundApproval(u, i)
<1>1. /\ d.audit_events \in Seq(EventType) /\ Len(d.audit_events) \in Nat
      /\ Len(u.audit_events) = Len(d.audit_events) + 1
      /\ u.audit_events[Len(d.audit_events) + 1] = e
      /\ \A i \in 1..Len(d.audit_events) : u.audit_events[i] = d.audit_events[i]
  BY DEF Document
<1>2. ASSUME NEW i \in 1..Len(u.audit_events), IsApproval(u.audit_events[i])
      PROVE  SoundApproval(u, i)
  <2>1. i \in 1..Len(d.audit_events) \/ i = Len(d.audit_events) + 1
    BY <1>1
  <2>2. i \in 1..Len(d.audit_events)
    BY <1>1, <1>2, <2>1
  <2>3. SoundApproval(d, i)
    BY <1>1, <1>2, <2>2 DEF SoundDocument
  <2> QED
    BY <1>1, <2>2, <2>3, ApprovalsKept
<1> QED
  BY <1>2

\* As long as the rows form one chain, only a request with a current copy
\* extends it: the id its event refers to is the last row's, and ids are unique.
LEMMA CurrentCopy ==
    ASSUME NEW rows \in Seq(EventType), NEW e \in EventType, NEW events \in Seq(EventType),
           Len(events) \in 1..Len(rows), Prefix(events, rows),
           \A i, j \in 1..Len(rows) : rows[i].event_id = rows[j].event_id => i = j,
           e.previous = events[Len(events)].event_id,
           _validate_audit_chains(Append(rows, e))
    PROVE  events = rows
<1>1. Len(rows) \in Nat /\ Len(events) \in Nat /\ Len(rows) # 0
  OBVIOUS
<1>2. e.previous = rows[Len(rows)].event_id
  BY <1>1, ChainGrows
<1>3. events[Len(events)] = rows[Len(events)]
  BY DEF Prefix
<1>4. Len(events) = Len(rows)
  <2>1. Len(rows) \in 1..Len(rows)
    BY <1>1
  <2> QED
    BY <1>2, <1>3, <2>1
<1>5. \A i \in 1..Len(rows) : events[i] = rows[i]
  BY <1>4 DEF Prefix
<1> QED
  BY <1>1, <1>4, <1>5

-----------------------------------------------------------------------------
(* The save. *)

\* A transaction that stores a document with one more event, read whenever, and
\* inserts that event.
LEMMA SaveKeeps ==
    ASSUME IInv, decision # None,
           NEW d \in Document, NEW u \in Document, NEW e \in EventType,
           HistoryOf(d, audit_events),
           _validate_audit_chains(audit_events) => Prefix(d.audit_events, audit_events),
           u.audit_events = Append(d.audit_events, e), u.status = e.to_status,
           e.previous = Last(d).event_id, SoundDocument(u),
           e.event_id \notin EventIds,
           decision' = u, audit_events' = Append(audit_events, e),
           e.request # None => e.request \notin idempotency /\ e.request \in idempotency',
           idempotency \subseteq idempotency',
           report' = report \/ (IsEvaluation(e) /\ e.result = report'),
           \A c \in Calls : Holds(c)' => Holds(c) /\ calls'[c] = calls[c]
    PROVE  CallsInv' /\ DecisionInv' /\ RowsInv' /\ ChainInv'
<1>1. /\ TypeInv /\ CallsInv /\ DecisionInv /\ RowsInv /\ ChainInv
      /\ audit_events \in Seq(EventType) /\ Len(audit_events) \in Nat
  BY DEF IInv, TypeInv
<1>2. decision' # None
  BY NoneAssumption
<1>3. /\ Len(audit_events') = Len(audit_events) + 1 /\ audit_events'[Len(audit_events) + 1] = e
      /\ \A j \in 1..Len(audit_events) : audit_events'[j] = audit_events[j]
      /\ \A j \in 1..Len(audit_events') : j \in 1..Len(audit_events) \/ j = Len(audit_events) + 1
      /\ 1..Len(audit_events) \subseteq 1..Len(audit_events')
      /\ Len(audit_events) + 1 \in 1..Len(audit_events')
  BY <1>1
<1>4. HistoryOf(u, audit_events')
  BY <1>1, HistoryGrows
<1>5. CallsInv'
  <2>1. ASSUME NEW c \in Calls, Holds(c)'
        PROVE  /\ HistoryOf(calls'[c].document, audit_events')
               /\ SoundDocument(calls'[c].document)
               /\ calls'[c].operation = "APPROVED" =>
                    approval_allowed(calls'[c].document, _actor(calls'[c].actor, "approve"))
    <3>1. /\ HistoryOf(calls[c].document, audit_events) /\ SoundDocument(calls[c].document)
          /\ calls[c].operation = "APPROVED" =>
               approval_allowed(calls[c].document, _actor(calls[c].actor, "approve"))
          /\ calls'[c] = calls[c]
      BY <1>1, <2>1 DEF CallsInv
    <3>2. HistoryOf(calls[c].document, audit_events')
      BY <1>1, <3>1, RowsGrow
    <3> QED
      BY <3>1, <3>2
  <2> QED
    BY <1>2, <2>1 DEF CallsInv
<1>6. DecisionInv'
  <2>1. ASSUME report' # None
        PROVE  \E j \in 1..Len(audit_events') :
                  IsEvaluation(audit_events'[j]) /\ audit_events'[j].result = report'
    <3>1. CASE report' = report
      <4>1. PICK j \in 1..Len(audit_events) :
                IsEvaluation(audit_events[j]) /\ audit_events[j].result = report
        BY <1>1, <2>1, <3>1 DEF DecisionInv
      <4> QED
        BY <1>3, <3>1, <4>1
    <3>2. CASE IsEvaluation(e) /\ e.result = report'
      BY <1>3, <3>2
    <3> QED
      BY <3>1, <3>2
  <2> QED
    BY <1>2, <1>4, <2>1 DEF DecisionInv
<1>7. \A j \in 1..Len(audit_events) : audit_events[j].event_id # e.event_id
  BY <1>1 DEF EventIds, Rows
<1>8. RowsInv'
  <2>1. \A i, j \in 1..Len(audit_events') :
          audit_events'[i].event_id = audit_events'[j].event_id => i = j
    BY <1>1, <1>3, <1>7 DEF RowsInv
  <2>2. \A i \in 1..Len(audit_events') :
          audit_events'[i].request # None => audit_events'[i].request \in idempotency'
    BY <1>1, <1>3 DEF RowsInv
  <2>3. \A i, j \in 1..Len(audit_events') :
          audit_events'[i].request # None /\ audit_events'[i].request = audit_events'[j].request
             => i = j
    BY <1>1, <1>3 DEF RowsInv
  <2> QED
    BY <2>1, <2>2, <2>3 DEF RowsInv
<1>9. ChainInv'
  <2> SUFFICES ASSUME _validate_audit_chains(audit_events')
               PROVE  /\ decision'.audit_events = audit_events'
                      /\ \A c \in Calls : Holds(c)' =>
                            Prefix(calls'[c].document.audit_events, audit_events')
    BY DEF ChainInv
  <2>1. _validate_audit_chains(audit_events)
    <3>1. Len(audit_events) # 0
      BY <1>1 DEF HistoryOf
    <3> QED
      BY <1>1, <3>1, ChainGrows
  <2>2. d.audit_events = audit_events
    <3>1. /\ d.audit_events \in Seq(EventType) /\ Len(d.audit_events) \in 1..Len(audit_events)
          /\ Prefix(d.audit_events, audit_events)
          /\ e.previous = d.audit_events[Len(d.audit_events)].event_id
          /\ \A i, j \in 1..Len(audit_events) :
               audit_events[i].event_id = audit_events[j].event_id => i = j
          /\ _validate_audit_chains(Append(audit_events, e))
      BY <1>1, <2>1 DEF Document, HistoryOf, Last, RowsInv
    <3> QED
      BY <1>1, <3>1, CurrentCopy
  <2>3. ASSUME NEW c \in Calls, Holds(c)'
        PROVE  Prefix(calls'[c].document.audit_events, audit_events')
    <3>1. /\ calls'[c] = calls[c] /\ Prefix(calls[c].document.audit_events, audit_events)
          /\ Len(calls[c].document.audit_events) \in 1..Len(audit_events)
      BY <1>1, <2>1, <2>3 DEF ChainInv, CallsInv, HistoryOf
    <3>2. ASSUME NEW i \in 1..Len(calls[c].document.audit_events)
          PROVE  calls[c].document.audit_events[i] = audit_events'[i]
      <4>1. i \in 1..Len(audit_events)
        BY <1>1, <3>1
      <4> QED
        BY <1>3, <3>1, <4>1 DEF Prefix
    <3> QED
      BY <3>1, <3>2 DEF Prefix
  <2> QED
    BY <2>2, <2>3
<1> QED
  BY <1>5, <1>6, <1>8, <1>9

-----------------------------------------------------------------------------
(* The documents the operations produce. *)

\* evaluate_decision_file
LEMMA EvaluatedDocument ==
    ASSUME NEW d \in Document, SoundDocument(d), NEW request \in Requests,
           Len(d.audit_events) \in 1..MaxEvents,
           NEW u, u = evaluate_decision_file(d, request)
    PROVE  /\ u \in Document /\ SoundDocument(u) /\ Last(u) \in EventType
           /\ u.audit_events = Append(d.audit_events, Last(u))
           /\ u.status = Last(u).to_status /\ Last(u).previous = Last(d).event_id
           /\ Last(u).request = request /\ Last(u).result = u.decision_outcome
           /\ IsEvaluation(Last(u)) /\ u.decision_outcome \in Outcome
<1>1. PICK e : e = Event(d, "evaluation", "engine", d.status, assess(d), request)
  OBVIOUS
<1>2. /\ d.audit_events \in Seq(EventType) /\ Len(d.audit_events) \in Nat /\ d.status \in CaseStatus
      /\ Len(d.audit_events) # 0
  BY CaseAssumption DEF Document
<1>3. assess(d) \in Outcome
  BY EngineFacts
<1>4. e \in EventType
  BY <1>1, <1>2, <1>3, EventTyped
<1>5. /\ e.event_id[1] = "evaluation"
      /\ e.to_status = d.status
      /\ e.result = assess(d) /\ e.request = request /\ e.previous = Last(d).event_id
  BY <1>1, <1>2, EventFields
<1>6. u = [d EXCEPT !.decision_outcome = assess(d), !.audit_events = Append(d.audit_events, e)]
  BY <1>1 DEF evaluate_decision_file
<1>7. u \in Document
  <2>1. PICK events : events = Append(d.audit_events, e)
    OBVIOUS
  <2>2. events \in Seq(EventType)
    BY <1>2, <1>4, <2>1
  <2>3. u = [d EXCEPT !.decision_outcome = assess(d), !.audit_events = events]
    BY <1>6, <2>1
  <2> QED
    BY <1>3, <2>2, <2>3 DEF Document
<1>8. /\ u.audit_events = Append(d.audit_events, e) /\ u.decision_outcome = assess(d)
      /\ u.status = d.status /\ u.subject = d.subject /\ u.evidence = d.evidence
      /\ u.created_by = d.created_by /\ u.requested_by = d.requested_by
      /\ u.approvals = d.approvals /\ u.submitted = d.submitted
  BY <1>6 DEF Document
<1>9. Last(u) = e
  BY <1>2, <1>4, <1>8 DEF Last
<1>10. IsEvaluation(e) /\ ~IsApproval(e)
  BY <1>5 DEF IsEvaluation, IsApproval
<1>11. SoundDocument(u)
  <2>1. LastEvaluation(u.audit_events, u.decision_outcome)
    BY <1>2, <1>4, <1>5, <1>8, <1>10, EvaluationKept
  <2>2. Unblocked(d) => Unblocked(u)
    BY <1>8 DEF Unblocked, mandatory_evidence_missing
  <2>3. u.decision_outcome = "PASS" => Unblocked(u)
    BY <1>8, <2>2, EngineFacts
  <2>4. \A i \in 1..Len(u.audit_events) : IsApproval(u.audit_events[i]) => SoundApproval(u, i)
    BY <1>4, <1>8, <1>10, <2>2, AppendKeepsApprovals
  <2>5. \A p \in u.approvals : p[2] \notin {u.created_by.id, u.requested_by}
    BY <1>8 DEF SoundDocument
  <2> QED
    BY <2>1, <2>3, <2>4, <2>5 DEF SoundDocument
<1> QED
  BY <1>3, <1>4, <1>5, <1>7, <1>8, <1>9, <1>10, <1>11

\* The actor the routes write for an identity.
LEMMA ActorFields ==
    ASSUME NEW a \in Actors, NEW permission \in {"create", "evaluate", "validate", "approve"}
    PROVE  /\ _actor(a, permission).id = a /\ _actor(a, permission).kind = KindOf[a]
           /\ _actor(a, permission)
                \in [id : Actors, role : Roles, kind : {"HUMAN", "AGENT", "SERVICE"}]
BY ActorAssumption DEF _actor, Roles

\* The approval that TransitionPolicy allowed, in the document it is saved with.
LEMMA NewApproval ==
    ASSUME NEW d \in Document, SoundDocument(d), NEW a \in Actors,
           approval_allowed(d, _actor(a, "approve")),
           NEW u, NEW e \in EventType, u.audit_events = Append(d.audit_events, e), e.actor = a,
           u.subject = d.subject, u.created_by = d.created_by, u.requested_by = d.requested_by,
           u.submitted = d.submitted, u.approvals = d.approvals, Unblocked(d) => Unblocked(u)
    PROVE  SoundApproval(u, Len(d.audit_events) + 1)
<1>1. _actor(a, "approve").id = a /\ _actor(a, "approve").kind = KindOf[a]
  BY ActorFields
<1>2. /\ KindOf[a] = "HUMAN" /\ a # d.created_by.id /\ a \notin validator_ids(d)
      /\ d.decision_outcome = "PASS"
      /\ "MANDATORY" \notin d.subject.unsatisfied /\ "CRITICAL" \notin d.subject.unresolved
      /\ \A role \in d.subject.requirements :
            \E p \in d.approvals : p[1] = role /\ (role = "APPROVER" => p[2] = a)
  BY <1>1 DEF approval_allowed
<1>3. PICK n, old, new : n = Len(d.audit_events) /\ old = d.audit_events /\ new = u.audit_events
  OBVIOUS
<1>4. /\ old \in Seq(EventType) /\ n \in Nat /\ new[n + 1] = e
      /\ \A j \in 1..n : new[j] = old[j] /\ DOMAIN old = 1..n
      /\ (n + 1) - 1 = n
  BY <1>3 DEF Document
<1>5. Entitled(u, new[n + 1].actor)
  <2>1. a \notin ValidatorsIn(d.submitted)
    BY <1>2 DEF validator_ids
  <2>2. \A p \in d.approvals : p[2] \notin {d.created_by.id, d.requested_by}
    BY DEF SoundDocument
  <2>3. Entitled(u, a)
    BY <1>2, <2>1, <2>2 DEF Entitled
  <2> QED
    BY <1>4, <2>3
<1>6. \A j \in 1..n : new[j].to_status = "VALIDATION" => new[j].actor # new[n + 1].actor
  <2>1. \A j \in 1..n : old[j].to_status = "VALIDATION" => old[j].actor # a
    BY <1>2, <1>3, <1>4 DEF validator_ids, ValidatorsIn
  <2> QED
    BY <1>4, <2>1
<1>7. ASSUME NEW k \in 1..n, IsEvaluation(new[k])
      PROVE  /\ Unblocked(u)
             /\ \E j \in 1..n :
                   /\ IsEvaluation(new[j]) /\ new[j].result = "PASS"
                   /\ \A l \in 1..n : IsEvaluation(new[l]) => l <= j
  <2>1. Evaluated(old)
    BY <1>3, <1>4, <1>7 DEF Evaluated
  <2>2. LastEvaluation(old, "PASS") /\ Unblocked(u)
    BY <1>2, <1>3, <2>1 DEF SoundDocument
  <2>3. PICK j \in 1..n :
            /\ IsEvaluation(old[j]) /\ old[j].result = "PASS"
            /\ \A l \in 1..n : IsEvaluation(old[l]) => l <= j
    BY <1>3, <2>2 DEF LastEvaluation
  <2> QED
    BY <1>4, <2>2, <2>3
<1>8. /\ \A j \in 1..((n + 1) - 1) :
            new[j].to_status = "VALIDATION" => new[j].actor # new[n + 1].actor
      /\ \A k \in 1..((n + 1) - 1) : IsEvaluation(new[k]) =>
            /\ Unblocked(u)
            /\ \E j \in 1..((n + 1) - 1) :
                  /\ IsEvaluation(new[j]) /\ new[j].result = "PASS"
                  /\ \A l \in 1..((n + 1) - 1) : IsEvaluation(new[l]) => l <= j
  BY <1>4, <1>6, <1>7
<1>9. SoundApproval(u, n + 1)
  BY <1>3, <1>5, <1>8, Zenon DEF SoundApproval
<1> QED
  BY <1>3, <1>9

\* apply_transition
LEMMA TransitionedDocument ==
    ASSUME NEW d \in Document, SoundDocument(d), NEW request \in Requests, NEW a \in Actors,
           Len(d.audit_events) \in 1..MaxEvents,
           NEW target \in Targets,
           target = "APPROVED" => approval_allowed(d, _actor(a, "approve")),
           NEW u, u = transitioned(d, target, a, request)
    PROVE  /\ u \in Document /\ SoundDocument(u) /\ Last(u) \in EventType
           /\ u.audit_events = Append(d.audit_events, Last(u))
           /\ u.status = Last(u).to_status /\ Last(u).previous = Last(d).event_id
           /\ Last(u).request = request /\ Last(u).actor = a /\ u.status = target
           /\ u.subject = d.subject /\ u.created_by = d.created_by
           /\ u.requested_by = d.requested_by /\ u.approvals = d.approvals
           /\ u.decision_outcome = d.decision_outcome
<1>1. PICK e : e = Event(d, "transition", a, target, None, request)
  OBVIOUS
<1>2. /\ d.audit_events \in Seq(EventType) /\ Len(d.audit_events) \in Nat /\ target \in CaseStatus
      /\ Len(d.audit_events) # 0
  BY CaseAssumption DEF Document, Targets
<1>3. e \in EventType
  BY <1>1, <1>2, EventTyped
<1>4. /\ e.event_id[1] = "transition"
      /\ e.to_status = target
      /\ e.actor = a /\ e.request = request /\ e.previous = Last(d).event_id
  BY <1>1, <1>2, EventFields
<1>5. u = [d EXCEPT !.status = target, !.audit_events = Append(d.audit_events, e)]
  BY <1>1 DEF transitioned
<1>6. u \in Document
  <2>1. PICK events : events = Append(d.audit_events, e)
    OBVIOUS
  <2>2. events \in Seq(EventType)
    BY <1>2, <1>3, <2>1
  <2>3. u = [d EXCEPT !.status = target, !.audit_events = events]
    BY <1>5, <2>1
  <2> QED
    BY <1>2, <2>2, <2>3 DEF Document
<1>7. /\ u.audit_events = Append(d.audit_events, e) /\ u.decision_outcome = d.decision_outcome
      /\ u.status = target /\ u.subject = d.subject /\ u.evidence = d.evidence
      /\ u.created_by = d.created_by /\ u.requested_by = d.requested_by
      /\ u.approvals = d.approvals /\ u.submitted = d.submitted
  BY <1>5 DEF Document
<1>8. Last(u) = e
  BY <1>2, <1>3, <1>7 DEF Last
<1>9. ~IsEvaluation(e)
  BY <1>4 DEF IsEvaluation
<1>10. SoundDocument(u)
  <2>1. Unblocked(d) => Unblocked(u)
    BY <1>7 DEF Unblocked, mandatory_evidence_missing
  <2>2. Evaluated(u.audit_events) =>
          /\ LastEvaluation(u.audit_events, u.decision_outcome)
          /\ u.decision_outcome = "PASS" => Unblocked(u)
    BY <1>2, <1>3, <1>7, <1>9, <2>1, EvaluationKept DEF SoundDocument
  <2>3. \A i \in 1..Len(u.audit_events) : IsApproval(u.audit_events[i]) => SoundApproval(u, i)
    <3>1. CASE target # "APPROVED"
      <4>1. ~IsApproval(e)
        BY <1>4, <3>1 DEF IsApproval
      <4> QED
        BY <1>3, <1>7, <2>1, <4>1, AppendKeepsApprovals
    <3>2. CASE target = "APPROVED"
      <4>1. SoundApproval(u, Len(d.audit_events) + 1)
        BY <1>3, <1>4, <1>7, <2>1, <3>2, NewApproval
      <4>2. /\ Len(u.audit_events) = Len(d.audit_events) + 1
            /\ \A i \in 1..Len(d.audit_events) : u.audit_events[i] = d.audit_events[i]
        BY <1>2, <1>3, <1>7
      <4>3. ASSUME NEW i \in 1..Len(d.audit_events), IsApproval(u.audit_events[i])
            PROVE  SoundApproval(u, i)
        <5>1. SoundApproval(d, i)
          BY <4>2, <4>3 DEF SoundDocument
        <5> QED
          BY <1>2, <1>7, <2>1, <4>2, <5>1, ApprovalsKept
      <4>4. \A i \in 1..Len(u.audit_events) :
               i \in 1..Len(d.audit_events) \/ i = Len(d.audit_events) + 1
        BY <1>2, <4>2
      <4> QED
        BY <4>1, <4>3, <4>4
    <3> QED
      BY <3>1, <3>2
  <2>4. \A p \in u.approvals : p[2] \notin {u.created_by.id, u.requested_by}
    BY <1>7 DEF SoundDocument
  <2> QED
    BY <2>2, <2>3, <2>4 DEF SoundDocument
<1> QED
  BY <1>3, <1>4, <1>6, <1>7, <1>8, <1>10

\* PostgresDecisionEvidenceHandoff: evidence that cannot block.
LEMMA HandedDocument ==
    ASSUME NEW d \in Document, SoundDocument(d), d.status = "DRAFT", NEW h \in Handoffs,
           Len(d.audit_events) \in 1..MaxEvents, NEW u, u = with_evidence(d, h, {StatusOf[h]})
    PROVE  /\ u \in Document /\ SoundDocument(u) /\ Last(u) \in EventType
           /\ Last(u) = handoff_event(d, h)
           /\ u.audit_events = Append(d.audit_events, Last(u))
           /\ u.status = Last(u).to_status /\ Last(u).previous = Last(d).event_id
           /\ Last(u).request = None /\ u.status = "DRAFT"
<1>1. PICK e : e = handoff_event(d, h)
  OBVIOUS
<1>2. PICK f : f = Event(d, "research-handoff", "research-compiler", "DRAFT", None, None)
  OBVIOUS
<1>3. /\ d.audit_events \in Seq(EventType) /\ Len(d.audit_events) \in Nat
      /\ Len(d.audit_events) # 0 /\ d.audit_events[Len(d.audit_events)] \in EventType
  BY CaseAssumption DEF Document
<1>4. StatusOf[h] \in {"UNVERIFIED", "OUTDATED", "CONFLICTING"}
  BY CaseAssumption
<1>5. e = [f EXCEPT !.event_id = <<"research-handoff", h>>]
  BY <1>1, <1>2 DEF handoff_event
<1>6. f = [event_id |-> <<"research-handoff", Len(d.submitted) + Len(d.audit_events) + 1>>,
           previous |-> Last(d).event_id, actor |-> "research-compiler",
           from_status |-> "DRAFT", to_status |-> "DRAFT", result |-> None, request |-> None]
  BY <1>2 DEF Event, Last
<1>7. e = [event_id |-> <<"research-handoff", h>>,
           previous |-> Last(d).event_id, actor |-> "research-compiler",
           from_status |-> "DRAFT", to_status |-> "DRAFT", result |-> None, request |-> None]
  BY <1>5, <1>6
<1>8. e \in EventType
  <2>1. Last(d).event_id \in ({"created", "evaluation", "transition"} \X (Nat \ {0}))
                                \cup ({"research-handoff"} \X Handoffs)
    BY <1>3 DEF EventType, Last
  <2>2. <<"research-handoff", h>> \in {"research-handoff"} \X Handoffs
    OBVIOUS
  <2> QED
    BY <1>7, <2>1, <2>2 DEF EventType, CaseStatus
<1>9. /\ e.event_id = <<"research-handoff", h>> /\ e.to_status = "DRAFT" /\ e.request = None
      /\ e.previous = Last(d).event_id
  BY <1>7
<1>10. u = [d EXCEPT !.evidence = d.evidence \cup {StatusOf[h]},
                     !.audit_events = Append(d.audit_events, e)]
  BY <1>1 DEF with_evidence
<1>11. u \in Document
  <2>1. d.evidence \cup {StatusOf[h]} \in SUBSET EvidenceStatus
    BY <1>4 DEF EvidenceStatus, Document
  <2>2. PICK events : events = Append(d.audit_events, e)
    OBVIOUS
  <2>3. events \in Seq(EventType)
    BY <1>3, <1>8, <2>2
  <2>4. u = [d EXCEPT !.evidence = d.evidence \cup {StatusOf[h]}, !.audit_events = events]
    BY <1>10, <2>2
  <2> QED
    BY <2>1, <2>3, <2>4 DEF Document
<1>12. /\ u.audit_events = Append(d.audit_events, e) /\ u.decision_outcome = d.decision_outcome
       /\ u.status = d.status /\ u.subject = d.subject
       /\ u.evidence = d.evidence \cup {StatusOf[h]}
       /\ u.created_by = d.created_by /\ u.requested_by = d.requested_by
       /\ u.approvals = d.approvals /\ u.submitted = d.submitted
  BY <1>10 DEF Document
<1>13. Last(u) = e
  BY <1>3, <1>8, <1>12 DEF Last
<1>14. ~IsEvaluation(e) /\ ~IsApproval(e)
  BY <1>9 DEF IsEvaluation, IsApproval
<1>15. SoundDocument(u)
  <2>1. Unblocked(d) => Unblocked(u)
    BY <1>4, <1>12 DEF Unblocked, mandatory_evidence_missing
  <2>2. Evaluated(u.audit_events) =>
          /\ LastEvaluation(u.audit_events, u.decision_outcome)
          /\ u.decision_outcome = "PASS" => Unblocked(u)
    <3>1. Evaluated(d.audit_events) =>
            /\ LastEvaluation(d.audit_events, d.decision_outcome)
            /\ d.decision_outcome = "PASS" => Unblocked(d)
      BY DEF SoundDocument
    <3>2. PICK old, outcome : old = d.audit_events /\ outcome = d.decision_outcome
      OBVIOUS
    <3>3. /\ LastEvaluation(old, outcome) => LastEvaluation(Append(old, e), outcome)
          /\ Evaluated(Append(old, e)) => Evaluated(old)
      BY <1>3, <1>8, <1>14, <3>2, EvaluationKept
    <3> QED
      BY <1>12, <2>1, <3>1, <3>2, <3>3
  <2>3. \A i \in 1..Len(u.audit_events) : IsApproval(u.audit_events[i]) => SoundApproval(u, i)
    BY <1>8, <1>12, <1>14, <2>1, AppendKeepsApprovals
  <2>4. \A p \in u.approvals : p[2] \notin {u.created_by.id, u.requested_by}
    BY <1>12 DEF SoundDocument
  <2> QED
    BY <2>2, <2>3, <2>4 DEF SoundDocument
<1> QED
  BY <1>1, <1>8, <1>9, <1>11, <1>12, <1>13, <1>15

\* The document of POST /v1/decisions, whatever was posted.
LEMMA CreatedDocument ==
    ASSUME NEW a \in Actors, NEW f \in Files, NEW request \in Requests,
           NEW u, u = created(a, f, request), validate_semantics(u)
    PROVE  /\ u \in Document /\ SoundDocument(u) /\ Last(u) \in EventType
           /\ u.audit_events = <<Last(u)>> /\ HistoryOf(u, <<Last(u)>>)
           /\ Last(u).request = request
<1>1. PICK by : by = _actor(a, "create")
  OBVIOUS
<1>2. PICK e : e = created_event(a, request)
  OBVIOUS
<1>3. e = [event_id |-> <<"created", 1>>, previous |-> None, actor |-> a, from_status |-> None,
           to_status |-> "DRAFT", result |-> None, request |-> request]
  BY <1>2 DEF created_event
<1>4. e \in EventType
  <2>1. <<"created", 1>> \in {"created", "evaluation", "transition"} \X (Nat \ {0})
    OBVIOUS
  <2> QED
    BY <1>3, <2>1 DEF EventType, CaseStatus
<1>5. PICK events : events = <<e>>
  OBVIOUS
<1>6. u = [status |-> f.status, decision_outcome |-> f.outcome, subject |-> f.subject,
           evidence |-> f.evidence, created_by |-> by, requested_by |-> f.requester,
           approvals |-> f.approvals, satisfied |-> f.satisfied, submitted |-> f.submitted,
           audit_events |-> events]
  BY <1>1, <1>2, <1>5 DEF created
<1>7. /\ by \in [id : Actors, role : Roles, kind : {"HUMAN", "AGENT", "SERVICE"}]
      /\ f.subject \in {g.subject : g \in Files} /\ f.evidence \in SUBSET EvidenceStatus
      /\ f.requester \in Actors /\ f.status \in CaseStatus /\ f.outcome \in Outcome \cup {None}
      /\ f.approvals \in SUBSET Approval /\ f.satisfied \in SUBSET {"APPROVER", "REVIEWER"}
      /\ f.submitted \in Seq([actor : Actors, to_status : CaseStatus])
  BY <1>1, ActorFields, CaseAssumption
<1>8. u \in Document
  <2>1. events \in Seq(EventType)
    BY <1>4, <1>5
  <2> QED
    BY <1>6, <1>7, <2>1 DEF Document
<1>9. u.audit_events = <<e>> /\ Last(u) = e /\ Len(u.audit_events) = 1 /\ u.audit_events[1] = e
  BY <1>5, <1>6 DEF Last
<1>10. /\ e.previous = None /\ e.request = request /\ e.event_id[1] = "created"
       /\ ~IsEvaluation(e) /\ ~IsApproval(e)
  BY <1>3 DEF IsEvaluation, IsApproval
<1>11. SoundDocument(u)
  <2>1. \A p \in u.approvals : p[2] \notin {u.created_by.id, u.requested_by}
    BY DEF validate_semantics
  <2> QED
    BY <1>9, <1>10, <2>1 DEF SoundDocument, Evaluated
<1>12. HistoryOf(u, <<e>>)
  <2>1. _validate_audit_chains(u.audit_events)
    BY <1>9, <1>10 DEF _validate_audit_chains
  <2>2. \A i \in 1..Len(u.audit_events) : IsRow(u.audit_events[i], <<e>>)
    BY <1>9 DEF IsRow
  <2> QED
    BY <1>9, <1>10, <2>1, <2>2 DEF HistoryOf
<1> QED
  BY <1>4, <1>8, <1>9, <1>10, <1>11, <1>12

\* The document a transition is tried on: the stored one, with the approval of
\* the actor if it is an approval.
LEMMA ApprovalAdded ==
    ASSUME NEW d \in Document, SoundDocument(d), NEW a \in Actors, NEW target,
           NEW u, u = with_approval(d, target, a), validate_semantics(u)
    PROVE  /\ u \in Document /\ SoundDocument(u)
           /\ u.audit_events = d.audit_events /\ u.status = d.status
<1>1. /\ u \in Document /\ u.audit_events = d.audit_events /\ u.status = d.status
      /\ u.subject = d.subject /\ u.evidence = d.evidence /\ u.submitted = d.submitted
      /\ u.decision_outcome = d.decision_outcome /\ d.approvals \subseteq u.approvals
      /\ u.created_by = d.created_by /\ u.requested_by = d.requested_by
  <2>1. CASE u = d
    BY <2>1
  <2>2. CASE u = [d EXCEPT !.approvals = d.approvals \cup {<<"APPROVER", a>>},
                           !.satisfied = d.satisfied \cup {"APPROVER"}]
    <3>1. PICK people, roles : /\ people = d.approvals \cup {<<"APPROVER", a>>}
                               /\ roles = d.satisfied \cup {"APPROVER"}
      OBVIOUS
    <3>2. <<"APPROVER", a>> \in Approval
      BY DEF Approval
    <3>3. /\ people \in SUBSET Approval /\ d.approvals \subseteq people
          /\ roles \in SUBSET {"APPROVER", "REVIEWER"}
      BY <3>1, <3>2 DEF Document
    <3>4. u = [d EXCEPT !.approvals = people, !.satisfied = roles]
      BY <2>2, <3>1
    <3>5. u \in Document
      BY <3>3, <3>4 DEF Document
    <3> QED
      BY <3>3, <3>4, <3>5 DEF Document
  <2> QED
    BY <2>1, <2>2 DEF with_approval
<1>2. \A p \in u.approvals : p[2] \notin {u.created_by.id, u.requested_by}
  BY DEF validate_semantics
<1>3. Unblocked(d) => Unblocked(u)
  BY <1>1 DEF Unblocked, mandatory_evidence_missing
<1>4. ASSUME NEW i \in 1..Len(u.audit_events), IsApproval(u.audit_events[i])
      PROVE  SoundApproval(u, i)
  <2>1. Len(d.audit_events) \in Nat
    BY DEF Document
  <2>2. SoundApproval(d, i) /\ i \in 1..Len(d.audit_events)
    BY <1>1, <1>4 DEF SoundDocument
  <2>3. \A j \in 1..Len(d.audit_events) : u.audit_events[j] = d.audit_events[j]
    BY <1>1
  <2> QED
    BY <1>1, <1>3, <2>1, <2>2, <2>3, ApprovalsKept
<1>5. Evaluated(u.audit_events) =>
        /\ LastEvaluation(u.audit_events, u.decision_outcome)
        /\ u.decision_outcome = "PASS" => Unblocked(u)
  BY <1>1, <1>3 DEF SoundDocument
<1> QED
  BY <1>1, <1>2, <1>4, <1>5 DEF SoundDocument

-----------------------------------------------------------------------------
(* The actions. *)

\* What a request holds, by where it is.
LEMMA CallFields ==
    ASSUME TypeInv, NEW c \in Calls
    PROVE  /\ calls[c] = Idle \/ calls[c] \in Fetching \/ calls[c] \in Holding
           /\ calls[c].pc = "fetch" => calls[c] \in Fetching
           /\ Holds(c) => calls[c] \in Holding
           /\ calls[c] # Idle => Request(c) \in Requests
<1>1. calls[c] = Idle \/ calls[c] \in Fetching \/ calls[c] \in Holding
  BY DEF TypeInv
<1>2. calls[c] # Idle => calls[c].actor \in Actors /\ calls[c].operation \in Operations
                            /\ calls[c].key \in Keys
  BY <1>1 DEF Fetching, Holding, Operations
<1>3. calls[c] # Idle => Request(c) \in Requests
  BY <1>2 DEF Request, Requests
<1> QED
  BY <1>1, <1>3 DEF Holds, Fetching, Holding, Idle

\* A step that touches the requests only: each is idle, fetches, or holds a
\* document that is sound.
LEMMA CallsOnly ==
    ASSUME IInv, UNCHANGED <<decision, audit_events, report, idempotency, research_handoffs>>,
           calls' \in [Calls -> {Idle} \cup Fetching \cup Holding],
           \A c \in Calls : Holds(c)' =>
              /\ decision # None
              /\ HistoryOf(calls'[c].document, audit_events)
              /\ SoundDocument(calls'[c].document)
              /\ calls'[c].operation = "APPROVED" =>
                    approval_allowed(calls'[c].document, _actor(calls'[c].actor, "approve"))
              /\ _validate_audit_chains(audit_events) =>
                    Prefix(calls'[c].document.audit_events, audit_events)
    PROVE  IInv'
<1>1. TypeInv /\ CallsInv /\ DecisionInv /\ RowsInv /\ ChainInv
  BY DEF IInv
<1>2. TypeInv'
  BY <1>1 DEF TypeInv
<1>3. CallsInv'
  BY DEF CallsInv
<1>4. DecisionInv' /\ RowsInv'
  BY <1>1 DEF DecisionInv, RowsInv
<1>5. ChainInv'
  BY <1>1 DEF ChainInv
<1> QED
  BY <1>2, <1>3, <1>4, <1>5 DEF IInv

\* A request that returns, or that goes on with what it holds.
LEMMA CallGoesOn ==
    ASSUME IInv, NEW c \in Calls, NEW q \in {Idle} \cup Fetching \cup Holding,
           calls' = [calls EXCEPT ![c] = q],
           UNCHANGED <<decision, audit_events, report, idempotency, research_handoffs>>,
           q.pc \in {"check", "save"} =>
              /\ decision # None
              /\ HistoryOf(q.document, audit_events)
              /\ SoundDocument(q.document)
              /\ q.operation = "APPROVED" =>
                    approval_allowed(q.document, _actor(q.actor, "approve"))
              /\ _validate_audit_chains(audit_events) =>
                    Prefix(q.document.audit_events, audit_events)
    PROVE  IInv'
<1>1. TypeInv /\ CallsInv /\ ChainInv
  BY DEF IInv
<1>2. /\ calls' \in [Calls -> {Idle} \cup Fetching \cup Holding] /\ calls'[c] = q
      /\ \A p \in Calls : p # c => calls'[p] = calls[p]
  BY <1>1 DEF TypeInv
<1>3. ASSUME NEW p \in Calls, Holds(p)'
      PROVE  /\ decision # None
             /\ HistoryOf(calls'[p].document, audit_events)
             /\ SoundDocument(calls'[p].document)
             /\ calls'[p].operation = "APPROVED" =>
                   approval_allowed(calls'[p].document, _actor(calls'[p].actor, "approve"))
             /\ _validate_audit_chains(audit_events) =>
                   Prefix(calls'[p].document.audit_events, audit_events)
  <2>1. CASE p = c
    BY <1>2, <1>3, <2>1 DEF Holds
  <2>2. CASE p # c
    BY <1>1, <1>2, <1>3, <2>2 DEF Holds, CallsInv, ChainInv
  <2> QED
    BY <2>1, <2>2
<1> QED
  BY <1>2, <1>3, CallsOnly

\* A call is over and the tables are as they were.
LEMMA ReturnKeeps ==
    ASSUME IInv, NEW c \in Calls, Return(c),
           UNCHANGED <<decision, audit_events, report, idempotency, research_handoffs>>
    PROVE  IInv'
<1>1. Idle.pc \notin {"check", "save"}
  BY DEF Idle
<1> QED
  BY <1>1, CallGoesOn DEF Return

\* The evaluation route begins.
LEMMA BeginEvaluateKeeps ==
    ASSUME IInv, NEW c \in Calls, NEW a \in Actors, NEW k \in Keys, begin_evaluate(c, a, k)
    PROVE  IInv'
<1>1. PICK q : q = [pc |-> "fetch", actor |-> a, operation |-> "evaluate", key |-> k]
  OBVIOUS
<1>2. /\ calls' = [calls EXCEPT ![c] = q]
      /\ UNCHANGED <<decision, audit_events, report, idempotency, research_handoffs>>
  BY <1>1 DEF begin_evaluate
<1>3. q \in Fetching /\ q.pc = "fetch"
  BY <1>1 DEF Fetching
<1> QED
  BY <1>2, <1>3, CallGoesOn

\* The document is read: it is the stored one.
LEMMA GetDecisionKeeps ==
    ASSUME IInv, NEW c \in Calls, get_decision(c)
    PROVE  IInv'
<1>1. TypeInv /\ DecisionInv /\ ChainInv /\ calls[c].pc = "fetch"
      /\ UNCHANGED <<decision, audit_events, report, idempotency, research_handoffs>>
  BY DEF IInv, get_decision
<1>2. CASE decision = None
  BY <1>1, <1>2, ReturnKeeps DEF get_decision
<1>3. CASE decision # None
  <2>1. PICK q : q = [pc |-> "save", actor |-> calls[c].actor, operation |-> calls[c].operation,
                      key |-> calls[c].key, document |-> decision]
    OBVIOUS
  <2>2. calls[c] \in Fetching /\ decision \in Document
    BY <1>1, <1>3, CallFields DEF TypeInv
  <2>3. calls' = [calls EXCEPT ![c] = q]
    <3>1. c \in DOMAIN calls
      BY <1>1 DEF TypeInv
    <3> QED
      BY <1>3, <2>1, <3>1 DEF get_decision
  <2>4. /\ calls[c].actor \in Actors /\ calls[c].operation = "evaluate" /\ calls[c].key \in Keys
    BY <2>2 DEF Fetching
  <2>5. q \in Holding /\ q.document = decision /\ q.operation = "evaluate"
    BY <2>1, <2>2, <2>4 DEF Holding, Operations
  <2>6. /\ HistoryOf(decision, audit_events) /\ SoundDocument(decision)
        /\ _validate_audit_chains(audit_events) => Prefix(decision.audit_events, audit_events)
    BY <1>1, <1>3 DEF DecisionInv, ChainInv, Prefix
  <2> QED
    BY <1>1, <1>3, <2>3, <2>5, <2>6, CallGoesOn
<1> QED
  BY <1>2, <1>3

\* The policy is applied to the document as it is stored now.
LEMMA BeginTransitionKeeps ==
    ASSUME IInv, NEW c \in Calls, NEW a \in Actors, NEW target \in Targets, NEW k \in Keys,
           begin_transition(c, a, target, k)
    PROVE  IInv'
<1>1. TypeInv /\ DecisionInv /\ ChainInv
      /\ UNCHANGED <<decision, audit_events, report, idempotency, research_handoffs>>
      /\ decision # None
  BY DEF IInv, begin_transition
<1>2. PICK u : u = with_approval(decision, target, a)
  OBVIOUS
<1>3. /\ validate_semantics(u)
      /\ transition_allowed(u, target, _actor(a, permission_of(target, decision.status)))
  BY <1>2 DEF begin_transition
<1>4. /\ decision \in Document /\ HistoryOf(decision, audit_events) /\ SoundDocument(decision)
      /\ _validate_audit_chains(audit_events) => decision.audit_events = audit_events
  BY <1>1 DEF TypeInv, DecisionInv, ChainInv
<1>5. /\ u \in Document /\ SoundDocument(u)
      /\ u.audit_events = decision.audit_events /\ u.status = decision.status
  BY <1>2, <1>3, <1>4, ApprovalAdded
<1>6. HistoryOf(u, audit_events)
  BY <1>4, <1>5 DEF HistoryOf, Last
<1>7. _validate_audit_chains(audit_events) => Prefix(u.audit_events, audit_events)
  BY <1>4, <1>5 DEF Prefix
<1>8. target = "APPROVED" => approval_allowed(u, _actor(a, "approve"))
  BY <1>3 DEF transition_allowed, permission_of
<1>9. PICK q : q = [pc |-> "check", actor |-> a, operation |-> target, key |-> k, document |-> u]
  OBVIOUS
<1>10. calls' = [calls EXCEPT ![c] = q]
  BY <1>2, <1>9 DEF begin_transition
<1>11. q \in Holding /\ q.document = u /\ q.operation = target /\ q.actor = a
  BY <1>5, <1>9 DEF Holding, Operations
<1> QED
  BY <1>1, <1>5, <1>6, <1>7, <1>8, <1>10, <1>11, CallGoesOn

\* The replay check between reading and saving.
LEMMA OperationKeeps ==
    ASSUME IInv, NEW c \in Calls, _operation(c)
    PROVE  IInv'
<1>1. TypeInv /\ CallsInv /\ ChainInv /\ calls[c].pc = "check"
      /\ UNCHANGED <<decision, audit_events, report, idempotency, research_handoffs>>
  BY DEF IInv, _operation
<1>2. CASE get_idempotency(Request(c))
  BY <1>1, <1>2, ReturnKeeps DEF _operation
<1>3. CASE ~get_idempotency(Request(c))
  <2>1. PICK q : q = [calls[c] EXCEPT !.pc = "save"]
    OBVIOUS
  <2>2. Holds(c) /\ calls[c] \in Holding
    BY <1>1, CallFields DEF Holds
  <2>3. calls' = [calls EXCEPT ![c] = q]
    BY <1>3, <2>1 DEF _operation
  <2>4. /\ q \in Holding /\ q.document = calls[c].document /\ q.operation = calls[c].operation
        /\ q.actor = calls[c].actor
    BY <2>1, <2>2 DEF Holding
  <2>5. /\ decision # None
        /\ HistoryOf(q.document, audit_events)
        /\ SoundDocument(q.document)
        /\ q.operation = "APPROVED" => approval_allowed(q.document, _actor(q.actor, "approve"))
        /\ _validate_audit_chains(audit_events) => Prefix(q.document.audit_events, audit_events)
    BY <1>1, <2>2, <2>4 DEF CallsInv, ChainInv
  <2> QED
    BY <1>1, <2>3, <2>4, <2>5, CallGoesOn
<1> QED
  BY <1>2, <1>3

\* A request that returns leaves the others what they hold.
LEMMA ReturnLeaves ==
    ASSUME TypeInv, NEW c \in Calls, Return(c)
    PROVE  /\ calls' \in [Calls -> {Idle} \cup Fetching \cup Holding]
           /\ \A p \in Calls : Holds(p)' => Holds(p) /\ calls'[p] = calls[p]
<1>1. /\ calls' \in [Calls -> {Idle} \cup Fetching \cup Holding] /\ calls'[c] = Idle
      /\ \A p \in Calls : p # c => calls'[p] = calls[p]
  BY DEF TypeInv, Return
<1>2. Idle.pc \notin {"check", "save"}
  BY DEF Idle
<1> QED
  BY <1>1, <1>2 DEF Holds

\* Room for one more event in a document whose history is in the table.
LEMMA Room ==
    ASSUME TypeInv, NEW d \in Document, HistoryOf(d, audit_events), Len(audit_events) < MaxEvents
    PROVE  /\ Len(d.audit_events) \in 1..MaxEvents /\ Len(d.audit_events) # MaxEvents
           /\ Len(audit_events) + 1 <= MaxEvents
           /\ \A e \in EventType : Append(audit_events, e) \in Seq(EventType)
                                     /\ Len(Append(audit_events, e)) = Len(audit_events) + 1
<1>1. /\ Len(audit_events) \in Nat /\ MaxEvents \in Nat /\ audit_events \in Seq(EventType)
      /\ Len(d.audit_events) \in 1..Len(audit_events)
  BY CaseAssumption DEF TypeInv, HistoryOf
<1> QED
  BY <1>1

\* POST /v1/decisions/{id}/evaluate saves.
LEMMA EvaluateKeeps ==
    ASSUME IInv, NEW c \in Calls, evaluate(c)
    PROVE  IInv'
<1>1. PICK d, request : d = calls[c].document /\ request = Request(c)
  OBVIOUS
<1>2. PICK u : u = evaluate_decision_file(d, request)
  OBVIOUS
<1>3. /\ calls[c].pc = "save" /\ Len(audit_events) < MaxEvents
      /\ decision # None /\ Last(u).event_id \notin EventIds /\ request \notin idempotency
      /\ decision' = u /\ report' = u.decision_outcome
      /\ audit_events' = Append(audit_events, Last(u))
      /\ idempotency' = idempotency \cup {request}
      /\ Return(c) /\ UNCHANGED research_handoffs
  BY <1>1, <1>2 DEF evaluate, save_result
<1>4. TypeInv /\ CallsInv /\ ChainInv /\ Holds(c)
  BY <1>3 DEF IInv, Holds
<1>5. /\ d \in Document /\ HistoryOf(d, audit_events) /\ SoundDocument(d)
      /\ _validate_audit_chains(audit_events) => Prefix(d.audit_events, audit_events)
      /\ request \in Requests
  <2>1. calls[c] \in Holding /\ calls[c] # Idle
    BY <1>3, <1>4, CallFields DEF Idle
  <2>2. Request(c) \in Requests
    BY <1>4, <2>1, CallFields
  <2> QED
    BY <1>1, <1>3, <1>4, <2>1, <2>2 DEF Holding, CallsInv, ChainInv
<1>6. /\ u \in Document /\ SoundDocument(u) /\ Last(u) \in EventType
      /\ u.audit_events = Append(d.audit_events, Last(u))
      /\ u.status = Last(u).to_status /\ Last(u).previous = Last(d).event_id
      /\ Last(u).request = request /\ Last(u).result = u.decision_outcome
      /\ IsEvaluation(Last(u)) /\ u.decision_outcome \in Outcome
  BY <1>2, <1>3, <1>4, <1>5, Room, EvaluatedDocument
<1>7. /\ calls' \in [Calls -> {Idle} \cup Fetching \cup Holding]
      /\ \A p \in Calls : Holds(p)' => Holds(p) /\ calls'[p] = calls[p]
  BY <1>3, <1>4, ReturnLeaves
<1>8. CallsInv' /\ DecisionInv' /\ RowsInv' /\ ChainInv'
  <2>1. PICK e : e = Last(u)
    OBVIOUS
  <2>2. /\ e \in EventType /\ u.audit_events = Append(d.audit_events, e)
        /\ u.status = e.to_status /\ e.previous = Last(d).event_id
        /\ e.event_id \notin EventIds /\ audit_events' = Append(audit_events, e)
        /\ e.request # None => e.request \notin idempotency /\ e.request \in idempotency'
        /\ idempotency \subseteq idempotency'
        /\ report' = report \/ (IsEvaluation(e) /\ e.result = report')
    BY <1>3, <1>6, <2>1
  <2> QED
    BY <1>3, <1>5, <1>6, <1>7, <2>2, SaveKeeps
<1>9. TypeInv'
  <2>1. /\ audit_events' \in Seq(EventType) /\ Len(audit_events') <= MaxEvents
    BY <1>3, <1>4, <1>5, <1>6, Room
  <2> QED
    BY <1>3, <1>4, <1>5, <1>6, <1>7, <2>1 DEF TypeInv
<1> QED
  BY <1>8, <1>9 DEF IInv

\* POST /v1/decisions/{id}/transitions saves.
LEMMA TransitionKeeps ==
    ASSUME IInv, NEW c \in Calls, transition(c)
    PROVE  IInv'
<1>1. PICK d, request, target, a : /\ d = calls[c].document /\ request = Request(c)
                                   /\ target = calls[c].operation /\ a = calls[c].actor
  OBVIOUS
<1>2. PICK u : u = transitioned(d, target, a, request)
  OBVIOUS
<1>3. /\ calls[c].pc = "save" /\ Len(audit_events) < MaxEvents /\ target \in Targets
      /\ decision # None /\ Last(u).event_id \notin EventIds /\ request \notin idempotency
      /\ decision' = u /\ report' = report
      /\ audit_events' = Append(audit_events, Last(u))
      /\ idempotency' = idempotency \cup {request}
      /\ Return(c) /\ UNCHANGED research_handoffs
  BY <1>1, <1>2 DEF transition, save_result
<1>4. TypeInv /\ CallsInv /\ ChainInv /\ Holds(c)
  BY <1>3 DEF IInv, Holds
<1>5. /\ d \in Document /\ HistoryOf(d, audit_events) /\ SoundDocument(d)
      /\ _validate_audit_chains(audit_events) => Prefix(d.audit_events, audit_events)
      /\ target = "APPROVED" => approval_allowed(d, _actor(a, "approve"))
      /\ request \in Requests /\ a \in Actors
  <2>1. calls[c] \in Holding /\ calls[c] # Idle
    BY <1>3, <1>4, CallFields DEF Idle
  <2>2. Request(c) \in Requests
    BY <1>4, <2>1, CallFields
  <2> QED
    BY <1>1, <1>3, <1>4, <2>1, <2>2 DEF Holding, CallsInv, ChainInv
<1>7. /\ u \in Document /\ SoundDocument(u) /\ Last(u) \in EventType
      /\ u.audit_events = Append(d.audit_events, Last(u))
      /\ u.status = Last(u).to_status /\ Last(u).previous = Last(d).event_id
      /\ Last(u).request = request /\ Last(u).actor = a /\ u.status = target
      /\ u.subject = d.subject /\ u.created_by = d.created_by
      /\ u.requested_by = d.requested_by /\ u.approvals = d.approvals
      /\ u.decision_outcome = d.decision_outcome
  BY <1>2, <1>3, <1>4, <1>5, Room, TransitionedDocument
<1>8. /\ calls' \in [Calls -> {Idle} \cup Fetching \cup Holding]
      /\ \A p \in Calls : Holds(p)' => Holds(p) /\ calls'[p] = calls[p]
  BY <1>3, <1>4, ReturnLeaves
<1>9. CallsInv' /\ DecisionInv' /\ RowsInv' /\ ChainInv'
  <2>1. PICK e : e = Last(u)
    OBVIOUS
  <2>2. /\ e \in EventType /\ u.audit_events = Append(d.audit_events, e)
        /\ u.status = e.to_status /\ e.previous = Last(d).event_id
        /\ e.event_id \notin EventIds /\ audit_events' = Append(audit_events, e)
        /\ e.request # None => e.request \notin idempotency /\ e.request \in idempotency'
        /\ idempotency \subseteq idempotency'
        /\ report' = report \/ (IsEvaluation(e) /\ e.result = report')
    BY <1>3, <1>7, <2>1
  <2> QED
    BY <1>3, <1>5, <1>7, <1>8, <2>2, SaveKeeps
<1>10. TypeInv'
  <2>1. /\ audit_events' \in Seq(EventType) /\ Len(audit_events') <= MaxEvents
    BY <1>3, <1>4, <1>5, <1>7, Room
  <2> QED
    BY <1>3, <1>4, <1>5, <1>7, <1>8, <2>1 DEF TypeInv
<1> QED
  BY <1>9, <1>10 DEF IInv

\* The hand-off of Research evidence reads and writes the document in one
\* transaction.
LEMMA AttachKeeps ==
    ASSUME IInv, NEW h \in Handoffs, attach(h)
    PROVE  IInv'
<1>1. PICK d : d = decision
  OBVIOUS
<1>2. PICK u : u = with_evidence(d, h, {StatusOf[h]})
  OBVIOUS
<1>3. /\ decision # None /\ d.status = "DRAFT" /\ Len(audit_events) < MaxEvents
      /\ handoff_event(d, h).event_id \notin EventIds
      /\ decision' = u /\ audit_events' = Append(audit_events, handoff_event(d, h))
      /\ research_handoffs' = research_handoffs \cup {h}
      /\ UNCHANGED <<report, idempotency, calls>>
  BY <1>1, <1>2 DEF attach
<1>4. TypeInv /\ DecisionInv /\ ChainInv
  BY DEF IInv
<1>5. /\ d \in Document /\ HistoryOf(d, audit_events) /\ SoundDocument(d)
      /\ _validate_audit_chains(audit_events) => Prefix(d.audit_events, audit_events)
  BY <1>1, <1>3, <1>4 DEF TypeInv, DecisionInv, ChainInv, Prefix
<1>6. /\ u \in Document /\ SoundDocument(u) /\ Last(u) \in EventType
      /\ Last(u) = handoff_event(d, h)
      /\ u.audit_events = Append(d.audit_events, Last(u))
      /\ u.status = Last(u).to_status /\ Last(u).previous = Last(d).event_id
      /\ Last(u).request = None /\ u.status = "DRAFT"
  BY <1>2, <1>3, <1>4, <1>5, Room, HandedDocument
<1>7. CallsInv' /\ DecisionInv' /\ RowsInv' /\ ChainInv'
  <2>1. PICK e : e = Last(u)
    OBVIOUS
  <2>2. /\ e \in EventType /\ u.audit_events = Append(d.audit_events, e)
        /\ u.status = e.to_status /\ e.previous = Last(d).event_id
        /\ e.event_id \notin EventIds /\ audit_events' = Append(audit_events, e)
        /\ e.request # None => e.request \notin idempotency /\ e.request \in idempotency'
        /\ idempotency \subseteq idempotency'
        /\ report' = report \/ (IsEvaluation(e) /\ e.result = report')
    BY <1>3, <1>6, <2>1
  <2>3. \A p \in Calls : Holds(p)' => Holds(p) /\ calls'[p] = calls[p]
    BY <1>3 DEF Holds
  <2> QED
    BY <1>3, <1>5, <1>6, <2>2, <2>3, SaveKeeps
<1>8. TypeInv'
  <2>1. /\ audit_events' \in Seq(EventType) /\ Len(audit_events') <= MaxEvents
    BY <1>3, <1>4, <1>5, <1>6, Room
  <2> QED
    BY <1>3, <1>4, <1>6, <2>1 DEF TypeInv
<1> QED
  BY <1>7, <1>8 DEF IInv

\* POST /v1/decisions: there is no case, hence no row and no request with a
\* document.
LEMMA CreateKeeps ==
    ASSUME IInv, NEW a \in Actors, NEW f \in Files, NEW k \in Keys, create_decision(a, f, k)
    PROVE  IInv'
<1>1. PICK request : request = <<a, "create", k>>
  OBVIOUS
<1>2. PICK u : u = created(a, f, request)
  OBVIOUS
<1>3. /\ decision = None /\ decision' = u /\ audit_events' = <<Last(u)>>
      /\ idempotency' = {request} /\ UNCHANGED <<report, research_handoffs, calls>>
      /\ validate_semantics(u)
  BY <1>1, <1>2 DEF create_decision
<1>4. request \in Requests
  BY <1>1 DEF Requests
<1>5. /\ u \in Document /\ SoundDocument(u) /\ Last(u) \in EventType
      /\ u.audit_events = <<Last(u)>> /\ HistoryOf(u, <<Last(u)>>)
      /\ Last(u).request = request
  BY <1>2, <1>3, <1>4, CreatedDocument
<1>6. /\ TypeInv /\ CallsInv /\ DecisionInv /\ \A c \in Calls : ~Holds(c)
  BY <1>3 DEF IInv, CallsInv
<1>7. PICK e : e = Last(u)
  OBVIOUS
<1>8. /\ audit_events' = <<e>> /\ Len(audit_events') = 1 /\ audit_events'[1] = e
      /\ audit_events' \in Seq(EventType)
  BY <1>3, <1>5, <1>7
<1>9. \A c \in Calls : ~Holds(c)'
  BY <1>3, <1>6 DEF Holds
<1>10. TypeInv'
  <2>1. Len(audit_events') <= MaxEvents
    BY <1>8, CaseAssumption
  <2> QED
    BY <1>3, <1>4, <1>5, <1>6, <1>8, <2>1 DEF TypeInv
<1>11. CallsInv'
  BY <1>9 DEF CallsInv
<1>12. DecisionInv'
  <2>1. report = None
    <3>1. audit_events = <<>> /\ Len(audit_events) = 0
      BY <1>3, <1>6 DEF DecisionInv
    <3> QED
      BY <1>6, <3>1 DEF DecisionInv
  <2>2. u # None /\ HistoryOf(u, audit_events')
    BY <1>5, <1>7, <1>8, NoneAssumption
  <2> QED
    BY <1>3, <1>5, <2>1, <2>2 DEF DecisionInv
<1>13. RowsInv'
  BY <1>3, <1>5, <1>7, <1>8 DEF RowsInv
<1>14. ChainInv'
  BY <1>3, <1>5, <1>7, <1>8, <1>9 DEF ChainInv
<1> QED
  BY <1>10, <1>11, <1>12, <1>13, <1>14 DEF IInv

\* Empty tables satisfy the invariant.
LEMMA InitHolds ==
    ASSUME Init
    PROVE  IInv
<1>1. /\ decision = None /\ audit_events = <<>> /\ report = None /\ idempotency = {}
      /\ research_handoffs = {} /\ calls = [c \in Calls |-> Idle]
      /\ Len(audit_events) = 0
  BY DEF Init
<1>2. \A c \in Calls : ~Holds(c)
  BY <1>1 DEF Holds, Idle
<1>3. TypeInv
  BY <1>1, CaseAssumption DEF TypeInv
<1>4. CallsInv /\ DecisionInv /\ ChainInv
  BY <1>1, <1>2 DEF CallsInv, DecisionInv, ChainInv
<1>5. RowsInv
  BY <1>1 DEF RowsInv
<1> QED
  BY <1>3, <1>4, <1>5 DEF IInv

\* Every step keeps the invariant, one lemma per action.
LEMMA NextKeeps ==
    ASSUME IInv, [Next]_vars
    PROVE  IInv'
<1>1. CASE \E a \in Actors, f \in Files, k \in Keys : create_decision(a, f, k)
  BY <1>1, CreateKeeps
<1>2. CASE \E c \in Calls, a \in Actors, k \in Keys : begin_evaluate(c, a, k)
  BY <1>2, BeginEvaluateKeeps
<1>3. CASE \E c \in Calls, a \in Actors, k \in Keys, target \in Targets :
             begin_transition(c, a, target, k)
  BY <1>3, BeginTransitionKeeps
<1>4. CASE \E c \in Calls : get_decision(c)
  BY <1>4, GetDecisionKeeps
<1>5. CASE \E c \in Calls : _operation(c)
  BY <1>5, OperationKeeps
<1>6. CASE \E c \in Calls : evaluate(c)
  BY <1>6, EvaluateKeeps
<1>7. CASE \E c \in Calls : transition(c)
  BY <1>7, TransitionKeeps
<1>8. CASE \E c \in Calls : fail(c)
  BY <1>8, ReturnKeeps DEF fail
<1>9. CASE \E h \in Handoffs : attach(h)
  BY <1>9, AttachKeeps
<1>10. CASE UNCHANGED vars
  <2>1. /\ UNCHANGED <<decision, audit_events, report, idempotency, research_handoffs>>
        /\ UNCHANGED calls
    BY <1>10 DEF vars
  <2>2. /\ calls' \in [Calls -> {Idle} \cup Fetching \cup Holding]
        /\ \A c \in Calls : Holds(c)' => Holds(c) /\ calls'[c] = calls[c]
    BY <2>1 DEF IInv, TypeInv, Holds
  <2>3. CallsInv /\ ChainInv
    BY DEF IInv
  <2>4. \A c \in Calls : Holds(c)' =>
              /\ decision # None
              /\ HistoryOf(calls'[c].document, audit_events)
              /\ SoundDocument(calls'[c].document)
              /\ calls'[c].operation = "APPROVED" =>
                    approval_allowed(calls'[c].document, _actor(calls'[c].actor, "approve"))
              /\ _validate_audit_chains(audit_events) =>
                    Prefix(calls'[c].document.audit_events, audit_events)
    BY <2>2, <2>3 DEF CallsInv, ChainInv
  <2> QED
    BY <2>1, <2>2, <2>4, CallsOnly
<1> QED
  BY <1>1, <1>2, <1>3, <1>4, <1>5, <1>6, <1>7, <1>8, <1>9, <1>10 DEF Next

-----------------------------------------------------------------------------
(* Theorems. *)

\* In every run of the routes and the hand-off the inductive invariant holds.
THEOREM Invariance == Spec => []IInv
<1>1. Init => IInv
  BY InitHolds
<1>2. IInv /\ [Next]_vars => IInv'
  BY NextKeeps
<1> QED
  BY <1>1, <1>2, PTL DEF Spec

\* Whatever saves overwrite each other, and whatever history was posted, the
\* tables of a case tell what the service did to the stored document
\* (create_decision, save_result and attach).
THEOREM TablesTellHistory == Spec => []TablesAgree
<1>1. ASSUME IInv PROVE TablesAgree
  <2>1. TypeInv /\ CallsInv /\ DecisionInv
    BY <1>1 DEF IInv
  <2>2. Len(audit_events) \in Nat /\ MaxEvents \in Nat /\ Len(audit_events) <= MaxEvents
    BY <2>1, CaseAssumption DEF TypeInv
  <2>3. \A d : d \in Document /\ HistoryOf(d, audit_events) => IsDocument(d)
    BY <2>2 DEF HistoryOf, IsDocument
  <2>4. ASSUME NEW c \in Calls, calls[c] # Idle
        PROVE  /\ calls[c].pc \in {"fetch", "check", "save"} /\ calls[c].actor \in Actors
               /\ calls[c].operation \in Operations /\ calls[c].key \in Keys
               /\ calls[c].pc # "fetch" => IsDocument(calls[c].document)
    <3>1. CASE calls[c] \in Fetching
      BY <3>1 DEF Fetching, Operations
    <3>2. CASE calls[c] \in Holding
      <4>1. calls[c].document \in Document /\ Holds(c)
        BY <3>2 DEF Holding, Holds
      <4>2. IsDocument(calls[c].document)
        BY <2>1, <2>3, <4>1 DEF CallsInv
      <4> QED
        BY <3>2, <4>2 DEF Holding
    <3> QED
      BY <2>1, <2>4, <3>1, <3>2, CallFields
  <2>5. TypeOK
    <3>1. decision = None \/ IsDocument(decision)
      BY <2>1, <2>3 DEF TypeInv, DecisionInv
    <3> QED
      BY <2>1, <2>4, <3>1 DEF TypeOK, TypeInv
  <2>6. AuditCoversDocument
    <3>1. \A e : IsRow(e, audit_events) => e \in Rows
      BY <2>1 DEF IsRow, Rows, TypeInv
    <3>2. ASSUME decision # None
          PROVE  /\ \A i \in DOMAIN decision.audit_events :
                      /\ decision.audit_events[i] \in Rows
                      /\ decision.audit_events[i].previous =
                            IF i = 1 THEN None ELSE decision.audit_events[i - 1].event_id
                 /\ Last(decision).event_id[1] # "created" =>
                       decision.status = Last(decision).to_status
      <4>1. decision \in Document /\ HistoryOf(decision, audit_events)
        BY <2>1, <3>2 DEF TypeInv, DecisionInv
      <4>2. DOMAIN decision.audit_events = 1..Len(decision.audit_events)
        BY <4>1 DEF Document
      <4> QED
        BY <3>1, <4>1, <4>2 DEF HistoryOf, _validate_audit_chains
    <3>3. report # None => \E e \in Rows : e.event_id[1] = "evaluation" /\ e.result = report
      BY <2>1 DEF DecisionInv, IsEvaluation, Rows, TypeInv
    <3> QED
      BY <3>2, <3>3 DEF AuditCoversDocument
  <2> QED
    BY <2>5, <2>6 DEF TablesAgree
<1> QED
  BY <1>1, Invariance, PTL

\* However its repetitions race, a request has one effect on the case at most
\* (the primary key of idempotency).
THEOREM RequestsActOnce == Spec => []OncePerKey
<1>1. IInv => OncePerKey
  BY DEF IInv, TypeInv, RowsInv, OncePerKey, Rows
<1> QED
  BY <1>1, Invariance, PTL

\* Whatever was posted, who moved the stored document to APPROVED was entitled
\* to, its mandatory requirements are approved by independent people, and if the
\* service evaluated it the last evaluation passed it and the engine would not
\* block it, for any interleaving of evaluations, transitions and hand-offs
\* (TransitionPolicy, create_decision, save_result).
THEOREM ApprovalsAreEntitled == Spec => []ApprovalIsSound
<1>1. ASSUME IInv, decision # None, NEW i \in ApprovalsOf(decision)
      PROVE  /\ Entitled(decision, decision.audit_events[i].actor)
             /\ \A j \in 1..(i - 1) :
                   decision.audit_events[j].to_status = "VALIDATION"
                      => decision.audit_events[j].actor # decision.audit_events[i].actor
             /\ EvaluationsBefore(decision, i) # {} =>
                   /\ assess(decision) # "BLOCK"
                   /\ \E j \in EvaluationsBefore(decision, i) :
                         /\ \A k \in EvaluationsBefore(decision, i) : k <= j
                         /\ decision.audit_events[j].result = "PASS"
  <2>1. decision \in Document /\ SoundDocument(decision)
    BY <1>1 DEF IInv, TypeInv, DecisionInv
  <2>2. PICK d, events : d = decision /\ events = decision.audit_events
    OBVIOUS
  <2>3. /\ events \in Seq(EventType) /\ DOMAIN events = 1..Len(events) /\ Len(events) \in Nat
        /\ i \in 1..Len(events) /\ IsApproval(events[i])
    BY <1>1, <2>1, <2>2 DEF Document, ApprovalsOf, IsApproval
  <2>4. SoundApproval(d, i)
    BY <2>1, <2>2, <2>3 DEF SoundDocument
  <2>5. /\ Entitled(d, events[i].actor)
        /\ \A j \in 1..(i - 1) : events[j].to_status = "VALIDATION" => events[j].actor # events[i].actor
        /\ \A k \in 1..(i - 1) : IsEvaluation(events[k]) =>
              /\ Unblocked(d)
              /\ \E j \in 1..(i - 1) :
                    /\ IsEvaluation(events[j]) /\ events[j].result = "PASS"
                    /\ \A l \in 1..(i - 1) : IsEvaluation(events[l]) => l <= j
    BY <2>2, <2>4, Zenon DEF SoundApproval
  <2>6. \A j : j \in EvaluationsBefore(decision, i) <=> j \in 1..(i - 1) /\ IsEvaluation(events[j])
    BY <2>2, <2>3 DEF EvaluationsBefore, IsEvaluation
  <2>7. ASSUME EvaluationsBefore(decision, i) # {}
        PROVE  /\ assess(d) # "BLOCK"
               /\ \E j \in EvaluationsBefore(decision, i) :
                     /\ \A k \in EvaluationsBefore(decision, i) : k <= j
                     /\ events[j].result = "PASS"
    <3>1. PICK k \in 1..(i - 1) : IsEvaluation(events[k])
      BY <2>6, <2>7
    <3>2. PICK j \in 1..(i - 1) :
             /\ IsEvaluation(events[j]) /\ events[j].result = "PASS"
             /\ \A l \in 1..(i - 1) : IsEvaluation(events[l]) => l <= j
      BY <2>5, <3>1
    <3>3. assess(d) # "BLOCK"
      BY <2>1, <2>2, <2>5, <3>1, EngineFacts DEF SoundDocument
    <3> QED
      BY <2>6, <3>2, <3>3
  <2> QED
    BY <2>2, <2>5, <2>7
<1>2. IInv => ApprovalIsSound
  BY <1>1, Zenon DEF ApprovalIsSound, Entitled
<1> QED
  BY <1>2, Invariance, PTL

\* The offline validation of an archive accepts a case exactly if none of its
\* updates was lost (_validate_audit_chains).
THEOREM ValidExportsAreComplete == Spec => []ExportTellsHistory
<1>1. ASSUME IInv, decision # None
      PROVE  validate_export(build(FALSE)) <=> audit_events = decision.audit_events
  <2>1. validate_export(build(FALSE)) <=> _validate_audit_chains(audit_events)
    BY <1>1 DEF build, validate_export, snapshot, decision_events
  <2>2. _validate_audit_chains(audit_events) => decision.audit_events = audit_events
    BY <1>1 DEF IInv, ChainInv
  <2>3. _validate_audit_chains(decision.audit_events)
    BY <1>1 DEF IInv, DecisionInv, HistoryOf
  <2> QED
    BY <2>1, <2>2, <2>3
<1> QED
  BY <1>1, Invariance, PTL DEF ExportTellsHistory
=============================================================================
