----------------------------- MODULE Intake_proofs -----------------------------
(***************************************************************************)
(* Proofs about Intake: what holds of the record, of the compiled decision *)
(* and of the tables for every set of inputs, calls, keys, confirmations   *)
(* and people, although every request saves a copy of the record that may  *)
(* be stale.                                                               *)
(*                                                                         *)
(* The argument.  A report is sound by the way _build_report makes it, and *)
(* a copy of a sound record stays sound however old it is: that settles    *)
(* what a READY record rests on.  What a human confirmed in a copy is on   *)
(* record in the table of confirmations, except for the one fact whose     *)
(* confirmation the request is about to save, and rows are never removed:  *)
(* so what is compiled from any copy is backed.  The number of the event a *)
(* request appends is at most one more than the events in the table, which *)
(* keeps the sequence gapless.  A request is new to both the table and the *)
(* record when it saves: so an event that the table has in common with a   *)
(* record has the same predecessor in both, and the links settle the rest. *)
(***************************************************************************)
EXTENDS Intake, FiniteSetTheorems, WellFoundedInduction, TLAPS

--------------------------------------------------------------------------------
(* The inductive invariant *)

\* What the verifier makes of one candidate.
Verified(x) ==
    _verify_policy_references(_reject_embedded_governance_claims(_verify_candidate(x)))

\* A governance claim within an instruction and an unknown policy are kept out.
Admitted(x) ==
    /\ x.type \in {"POLICY_CLAIM", "APPROVAL_CLAIM", "ROLE_CLAIM"} => ~x.embedded
    /\ policy # None /\ x.type = "POLICY_CLAIM" => x.value # "beyond"

\* A candidate is what the extractor found unless a human changed it.
CandidateSound(x, fact) ==
    /\ x \in Candidate
    /\ x.type = fact.type
    /\ x.embedded = fact.embedded
    /\ x.verification_status = "UNRESOLVED" => x.confirmation_required /\ x.type \notin Objective
    /\ x.verification_status = "VERIFIED" => x.type \in Objective
    /\ x.verification_status \in {"UNRESOLVED", "VERIFIED"} => x.value = fact.value
    /\ x.verification_status = "HUMAN_CONFIRMED" => x.confirmed_by_actor_id \in Actors
    /\ x.verification_status # "REJECTED" => Admitted(x)

CandidatesSound(candidates, facts) ==
    /\ candidates \in Seq(Candidate)
    /\ DOMAIN candidates = DOMAIN facts
    /\ \A i \in DOMAIN candidates : CandidateSound(candidates[i], facts[i])

Governance == {"POLICY_CLAIM", "APPROVAL_CLAIM", "SELF_APPROVAL_CLAIM"}

\* Nothing is left that would keep the intake from being compiled.
Settled(report) ==
    /\ policy # None
    /\ Required \subseteq Present(report.candidates)
    /\ report.unresolved_requirement_refs = {}
    /\ \A i \in DOMAIN report.candidates :
          report.candidates[i].type \in Governance
              => report.candidates[i].verification_status # "UNRESOLVED"

ReportSound(report, input) ==
    /\ report \in Report
    /\ CandidatesSound(report.candidates, input.facts)
    /\ report.ready <=> report.reason_codes = {}
    /\ report.reason_codes = {} => Settled(report)
    /\ _conflicts(input) # {} => "CONFLICTS_UNRESOLVED" \in report.reason_codes
    /\ report.findings = IF policy = None THEN {} ELSE _compare_policy(report.candidates)

\* Who decided about fact f is who did so last in the list of events.
LastDecided(who, f, events) ==
    /\ EventsAbout(f, events) = {} => who = None
    /\ \A n \in EventsAbout(f, events) :
          (\A k \in EventsAbout(f, events) : k <= n) => events[n][1] = who

AllDecided(candidates, events) ==
    \A f \in DOMAIN candidates : LastDecided(candidates[f].confirmed_by_actor_id, f, events)

RecordSound(r) ==
    /\ r \in Record
    /\ Len(r.events) >= 2
    /\ ReportSound(r.verification, r.input)
    /\ r.status \in {"READY", "COMPILED"} => r.verification.ready
    /\ AllDecided(r.verification.candidates, r.events)

\* What a human confirmed of candidate f is on record among the rows.
Backed(x, f, rows) ==
    x.verification_status = "HUMAN_CONFIRMED" =>
        \E row \in rows : /\ row.fact = f /\ row.value = x.value
                          /\ row.actor = x.confirmed_by_actor_id /\ row.action # "REJECT"

AllBacked(candidates, rows) ==
    \A i \in DOMAIN candidates : Backed(candidates[i], i, rows)

\* The row that the request will save backs candidate x.
Pending(x, request) ==
    x.verification_status = "HUMAN_CONFIRMED" =>
        request.actor = x.confirmed_by_actor_id /\ request.action # "REJECT"

\* The request appends the next event of the record it read; n is the number
\* of events in the table.
Appends(q, n) == n >= 2 /\ q.appended = 1 /\ Len(q.record.events) >= 3 /\ Len(q.record.events) <= n + 1

Creating(q) ==
    /\ q.pc = "save"
    /\ q.request.operation = <<"create">>
    /\ q.appended = 2 /\ Len(q.record.events) = 2
    /\ q.record.status # "COMPILED"
    /\ AllBacked(q.record.verification.candidates, {})

Confirming(q, rows, n) ==
    /\ q.pc = "save"
    /\ q.record.status # "COMPILED"
    /\ Appends(q, n)
    /\ q.request.actor \in Actors /\ KindOf[q.request.actor] = "HUMAN"
    /\ \E f \in DOMAIN q.record.verification.candidates :
          /\ q.request.operation = <<"confirm", f>>
          /\ Pending(q.record.verification.candidates[f], q.request)
          /\ \A i \in DOMAIN q.record.verification.candidates \ {f} :
                Backed(q.record.verification.candidates[i], i, rows)

Compiling(q, rows, n, decided) ==
    /\ q.pc \in {"lookup", "create", "save"}
    /\ q.request.operation = <<"compile">>
    /\ q.record.verification.ready
    /\ Appends(q, n)
    /\ AllBacked(q.record.verification.candidates, rows)
    /\ q.pc = "save" => decided

CallSound(q, rows, n, decided) ==
    \/ q = Idle
    \/ /\ RecordSound(q.record)
       /\ \/ Creating(q)
          \/ Confirming(q, rows, n)
          \/ Compiling(q, rows, n, decided)

\* The first k events of the list took effect, and those that the table has too
\* are linked there to the event they follow in the list.
History(events, k, used, audit) ==
    /\ \A n \in 1..k : events[n] \in used
    /\ \A x \in audit :
          x.number \in 2..k /\ events[x.number] = x.event => x.previous = events[x.number - 1]

\* A request saves the history it read and events of its own.
CallHistory(q, used, audit) ==
    \/ q = Idle
    \/ /\ History(q.record.events, Len(q.record.events) - q.appended, used, audit)
       /\ \A n \in (Len(q.record.events) - q.appended + 1)..Len(q.record.events) :
             q.record.events[n] = KeyOf(q.request)

\* Every claim of decision d is of its source or on record, and may be a claim.
Grounded(d, rows) ==
    \A claim \in d.claims :
        /\ claim.fact \in DOMAIN d.source.facts
        /\ claim.type = d.source.facts[claim.fact].type
        /\ \/ claim.type \in Objective /\ claim.value = d.source.facts[claim.fact].value
           \/ \E row \in rows :
                 /\ row.fact = claim.fact /\ row.value = claim.value
                 /\ row.action # "REJECT" /\ KindOf[row.actor] = "HUMAN"
        /\ claim.type \in {"POLICY_CLAIM", "APPROVAL_CLAIM", "ROLE_CLAIM"}
               => ~d.source.facts[claim.fact].embedded
        /\ claim.type = "POLICY_CLAIM" => claim.value # "beyond"

\* The decision claims an amount that needs approvals: the first of its source.
NeedsApproval(d) ==
    \E claim \in d.claims :
        /\ claim.type = "AMOUNT" /\ claim.value = "beyond"
        /\ \A f \in DOMAIN d.source.facts :
              f < claim.fact => d.source.facts[f].type # "AMOUNT"

\* The approvals that decision d needs are on record.
Approved(d, rows) ==
    NeedsApproval(d) /\ "REQUIRED_APPROVAL_MISSING" \notin d.constraints
        => Cardinality(Approvers(d.source, rows)) >= policy.required_approval_count

\* The rows are numbered from 1 to n, in the order of their sequence.
AuditTo(audit, n) ==
    /\ \A x \in audit : /\ x.number \in 1..n /\ x.sequence = x.number
                         /\ x.event \in RequestKeys /\ x.previous \in RequestKeys \cup {None}
    /\ \A k \in 1..n : \E x \in audit : x.number = k
    /\ \A x, y \in audit : x.number = y.number => x = y

AuditInv ==
    /\ LastSequence \in Nat /\ LastSequence # 1
    /\ AuditTo(intake_audit_events, LastSequence)

RowSound(row) == row.actor \in Actors /\ KindOf[row.actor] = "HUMAN" /\ row.value \in Values

RowsInv ==
    /\ IsFiniteSet(intake_confirmations)
    /\ \A row \in intake_confirmations : RowSound(row)

RecordInv ==
    intake_record # None =>
        /\ RecordSound(intake_record)
        /\ AllBacked(intake_record.verification.candidates, intake_confirmations)
        /\ LastSequence >= 2 /\ Len(intake_record.events) <= LastSequence
        /\ intake_record.status = "COMPILED" => decision # None

CallsInv ==
    /\ DOMAIN calls = Calls
    /\ \A c \in Calls :
          CallSound(calls[c], intake_confirmations, LastSequence, decision # None)

HistoryInv ==
    /\ \A row \in intake_audit_events : row.event \in intake_idempotency
    /\ intake_record # None => History(intake_record.events, Len(intake_record.events),
                                       intake_idempotency, intake_audit_events)
    /\ \A c \in Calls : CallHistory(calls[c], intake_idempotency, intake_audit_events)

DecisionSound(d, rows) ==
    /\ d \in Decision
    /\ d.created_by = "system:intake-compiler" =>
          /\ policy # None
          /\ Grounded(d, rows)
          /\ Approved(d, rows)

DecisionInv == decision # None => DecisionSound(decision, intake_confirmations)

IInv == AuditInv /\ RowsInv /\ RecordInv /\ CallsInv /\ HistoryInv /\ DecisionInv


--------------------------------------------------------------------------------
(* The verifier, candidate by candidate *)

\* A candidate of the extractor, or one that a human decided about, is sound
\* once it is verified, and the verifier neither confirms nor corrects.
LEMMA VerifiedIsSound ==
    ASSUME NEW x \in Candidate, NEW fact \in Fact,
           x.type = fact.type, x.embedded = fact.embedded,
           x.verification_status = "UNRESOLVED" => x.confirmation_required,
           x.verification_status = "VERIFIED" => x.type \in Objective,
           x.verification_status \in {"UNRESOLVED", "VERIFIED"} => x.value = fact.value,
           x.verification_status = "HUMAN_CONFIRMED" => x.confirmed_by_actor_id \in Actors
    PROVE  /\ CandidateSound(Verified(x), fact)
           /\ Verified(x).value = x.value
           /\ Verified(x).type = x.type
           /\ Verified(x).confirmed_by_actor_id = x.confirmed_by_actor_id
           /\ Verified(x).verification_status = "HUMAN_CONFIRMED"
                 => x.verification_status = "HUMAN_CONFIRMED"
<1> PICK y : y = _verify_candidate(x)
    OBVIOUS
<1> PICK z : z = _reject_embedded_governance_claims(y)
    OBVIOUS
<1> PICK w : w = _verify_policy_references(z)
    OBVIOUS
<1>1. /\ y \in Candidate
      /\ y.type = x.type /\ y.value = x.value /\ y.embedded = x.embedded
      /\ y.confirmed_by_actor_id = x.confirmed_by_actor_id
      /\ y.verification_status = "UNRESOLVED" =>
            /\ x.verification_status = "UNRESOLVED"
            /\ y.confirmation_required /\ y.type \notin Objective
      /\ y.verification_status = "VERIFIED" =>
            y.type \in Objective /\ x.verification_status \in {"UNRESOLVED", "VERIFIED"}
      /\ y.verification_status = "HUMAN_CONFIRMED" => x.verification_status = "HUMAN_CONFIRMED"
  BY DEF _verify_candidate, Candidate, Objective, Claims, VerificationStatus
<1>2. /\ z \in Candidate
      /\ z.type = y.type /\ z.value = y.value /\ z.embedded = y.embedded
      /\ z.verification_status # "REJECTED" =>
            (y.type \in {"POLICY_CLAIM", "APPROVAL_CLAIM", "ROLE_CLAIM"} => ~y.embedded)
      /\ z.confirmed_by_actor_id = y.confirmed_by_actor_id
      /\ z = y \/ (z.verification_status = "REJECTED" /\ y.type \notin Objective)
  BY <1>1 DEF _reject_embedded_governance_claims, Rejected, Candidate, Objective,
              VerificationStatus
<1>3. /\ w \in Candidate
      /\ w.type = z.type /\ w.value = z.value /\ w.embedded = z.embedded
      /\ w.verification_status # "REJECTED" =>
            (policy # None /\ z.type = "POLICY_CLAIM" => z.value # "beyond")
      /\ w.confirmed_by_actor_id = z.confirmed_by_actor_id
      /\ w = z \/ (w.verification_status = "REJECTED" /\ z.type \notin Objective)
  BY <1>2 DEF _verify_policy_references, Rejected, Candidate, Objective, VerificationStatus
<1>4. w = Verified(x)
  BY DEF Verified
<1>5. w.verification_status # "REJECTED" => Admitted(w)
  BY <1>1, <1>2, <1>3 DEF Admitted
<1>6. CandidateSound(w, fact)
  BY <1>1, <1>2, <1>3, <1>5 DEF CandidateSound
<1> QED
  BY <1>1, <1>2, <1>3, <1>4, <1>6


--------------------------------------------------------------------------------
(* Reports *)

\* A report of _build_report on sound candidates is sound.
LEMMA BuiltIsSound ==
    ASSUME NEW input \in Inputs, NEW candidates, NEW unresolved, NEW conflicts \in BOOLEAN,
           CandidatesSound(candidates, input.facts),
           unresolved \subseteq {"MARGIN_PERCENT", "APPROVAL_CLAIM"},
           _conflicts(input) # {} => conflicts
    PROVE  LET report == _build_report(candidates, unresolved, conflicts)
           IN  ReportSound(report, input) /\ report.candidates = candidates
<1> PICK report : report = _build_report(candidates, unresolved, conflicts)
    OBVIOUS
<1> PICK why : why = reasons(candidates, unresolved, conflicts)
    OBVIOUS
<1> PICK found_codes : found_codes = IF policy = None THEN {} ELSE _compare_policy(candidates)
    OBVIOUS
<1>1. report = [candidates |-> candidates, findings |-> found_codes,
                unresolved_requirement_refs |-> unresolved, reason_codes |-> why,
                ready |-> (why = {})]
  BY DEF _build_report
<1>2. why \subseteq ReasonCode
  BY DEF reasons, ReasonCode
<1>3. found_codes \subseteq ResultCode
  BY DEF _compare_policy, found, role_findings, ResultCode
<1>4. report \in Report
  BY <1>1, <1>2, <1>3 DEF Report, CandidatesSound
<1>5. report.reason_codes = {} => Settled(report)
  <2> SUFFICES ASSUME why = {} PROVE Settled(report)
    BY <1>1
  <2>1. policy # None /\ unresolved = {} /\ Required \subseteq Present(candidates)
    BY DEF reasons
  <2>2. ~\E i \in DOMAIN candidates :
            /\ candidates[i].confirmation_required
            /\ candidates[i].verification_status = "UNRESOLVED"
            /\ candidates[i].type \in Governance
    BY DEF reasons, Governance
  <2>3. \A i \in DOMAIN candidates :
            candidates[i].verification_status = "UNRESOLVED"
                => candidates[i].confirmation_required
    BY DEF CandidatesSound, CandidateSound
  <2> QED
    BY <1>1, <2>1, <2>2, <2>3 DEF Settled
<1>6. _conflicts(input) # {} => "CONFLICTS_UNRESOLVED" \in report.reason_codes
  BY <1>1 DEF reasons
<1>7. report.ready <=> report.reason_codes = {}
  <2>1. PICK b \in BOOLEAN : b = (why = {})
    OBVIOUS
  <2>2. report = [candidates |-> candidates, findings |-> found_codes,
                  unresolved_requirement_refs |-> unresolved, reason_codes |-> why, ready |-> b]
    BY <1>1, <2>1, Zenon
  <2>3. report.ready = b /\ report.reason_codes = why
    BY <2>2
  <2> QED
    BY <2>1, <2>3, Zenon
<1>8. report.findings = IF policy = None THEN {} ELSE _compare_policy(report.candidates)
  BY <1>1
<1>9. report.candidates = candidates
  BY <1>1
<1>10. ReportSound(report, input)
  BY <1>4, <1>5, <1>6, <1>7, <1>8, <1>9, Zenon DEF ReportSound
<1> QED
  BY <1>9, <1>10

\* The sequence of the verified candidates, place by place.
LEMMA VerifiedSequence ==
    ASSUME NEW cs \in Seq(Candidate), NEW facts, DOMAIN facts = DOMAIN cs,
           \A i \in DOMAIN cs : CandidateSound(Verified(cs[i]), facts[i])
    PROVE  /\ CandidatesSound(verified_candidates(cs), facts)
           /\ \A i \in DOMAIN cs : verified_candidates(cs)[i] = Verified(cs[i])
<1> PICK vs : vs = verified_candidates(cs)
    OBVIOUS
<1>1. vs = [i \in DOMAIN cs |-> Verified(cs[i])]
  BY DEF verified_candidates, Verified
<1>2. \A i \in DOMAIN cs : vs[i] = Verified(cs[i]) /\ vs[i] \in Candidate
  BY <1>1 DEF CandidateSound
<1>3. vs \in [1..Len(cs) -> Candidate]
  BY <1>1, <1>2
<1>4. vs \in Seq(Candidate)
  <2>1. Len(cs) \in Nat
    OBVIOUS
  <2> QED
    BY <1>3, <2>1
<1>5. CandidatesSound(vs, facts)
  BY <1>1, <1>2, <1>4 DEF CandidatesSound
<1> QED
  BY <1>2, <1>5


\* What the extractor finds is sound once it is verified, and nothing of it is
\* the decision of a human.
LEMMA VerifyIsSound ==
    ASSUME NEW input \in Inputs
    PROVE  /\ ReportSound(verify(input), input)
           /\ AllBacked(verify(input).candidates, {})
           /\ \A i \in DOMAIN verify(input).candidates :
                 verify(input).candidates[i].confirmed_by_actor_id = None
<1> USE IntakeAssumption
<1> PICK cs : cs = extract(input)
    OBVIOUS
<1>1. input.facts \in Seq(Fact) /\ input.missing \subseteq {"MARGIN_PERCENT", "APPROVAL_CLAIM"}
  BY DEF IntakeAssumption
<1>2. cs = [i \in DOMAIN input.facts |-> CandidateFact(input.facts[i])]
  BY DEF extract
<1>3. ASSUME NEW i \in DOMAIN input.facts
      PROVE  /\ cs[i] \in Candidate
             /\ cs[i].type = input.facts[i].type /\ cs[i].value = input.facts[i].value
             /\ cs[i].embedded = input.facts[i].embedded
             /\ cs[i].verification_status = "UNRESOLVED" /\ cs[i].confirmation_required
             /\ cs[i].confirmed_by_actor_id = None
  <2>1. PICK x : x = input.facts[i]
    OBVIOUS
  <2>2. x \in Fact
    BY <1>1, <2>1
  <2>3. cs[i] = CandidateFact(x)
    BY <1>2, <2>1
  <2> QED
    BY <2>1, <2>2, <2>3 DEF CandidateFact, Fact, Candidate, VerificationStatus
<1>4. cs \in Seq(Candidate) /\ DOMAIN cs = DOMAIN input.facts
  <2>1. Len(input.facts) \in Nat /\ DOMAIN input.facts = 1..Len(input.facts)
    BY <1>1
  <2>2. cs \in [1..Len(input.facts) -> Candidate]
    BY <1>2, <1>3, <2>1
  <2> QED
    BY <1>2, <2>1, <2>2
<1>5. ASSUME NEW i \in DOMAIN cs
      PROVE  /\ CandidateSound(Verified(cs[i]), input.facts[i])
             /\ Backed(Verified(cs[i]), i, {})
             /\ Verified(cs[i]).confirmed_by_actor_id = None
  <2>1. input.facts[i] \in Fact
    BY <1>1, <1>4
  <2>2. /\ CandidateSound(Verified(cs[i]), input.facts[i])
        /\ Verified(cs[i]).type = cs[i].type
        /\ Verified(cs[i]).verification_status # "HUMAN_CONFIRMED"
        /\ Verified(cs[i]).confirmed_by_actor_id = None
    BY <1>3, <1>4, <2>1, VerifiedIsSound
  <2> QED
    BY <2>2 DEF Backed
<1>6. /\ CandidatesSound(verified_candidates(cs), input.facts)
      /\ \A i \in DOMAIN cs : verified_candidates(cs)[i] = Verified(cs[i])
  BY <1>4, <1>5, VerifiedSequence
<1>7. PICK vs : vs = verified_candidates(cs)
  OBVIOUS
<1>8. AllBacked(vs, {}) /\ \A i \in DOMAIN vs : vs[i].confirmed_by_actor_id = None
  BY <1>4, <1>5, <1>6, <1>7 DEF AllBacked, CandidatesSound
<1>9. verify(input) = _build_report(vs, input.missing, _conflicts(input) # {})
  BY <1>7 DEF verify
<1>10. /\ ReportSound(_build_report(vs, input.missing, _conflicts(input) # {}), input)
       /\ _build_report(vs, input.missing, _conflicts(input) # {}).candidates = vs
  <2>1. (_conflicts(input) # {}) \in BOOLEAN
    OBVIOUS
  <2> QED
    BY <1>1, <1>6, <1>7, <2>1, BuiltIsSound
<1> QED
  BY <1>8, <1>9, <1>10


\* The report is sound and what the request decided is the only thing in it that
\* is not yet on record.
Decided(report, old, input, fact, rows, request) ==
    /\ ReportSound(report, input)
    /\ fact \in DOMAIN report.candidates
    /\ \A i \in DOMAIN report.candidates \ {fact} : Backed(report.candidates[i], i, rows)
    /\ Pending(report.candidates[fact], request)
    /\ report.candidates[fact].confirmed_by_actor_id = request.actor
    /\ \A i \in DOMAIN report.candidates \ {fact} :
          /\ i \in DOMAIN old.candidates
          /\ report.candidates[i].confirmed_by_actor_id = old.candidates[i].confirmed_by_actor_id

\* A report stays sound when a human decides about one of its facts and it is
\* verified again.  What changed is what that human decided; the rest is as it
\* was backed before.
LEMMA ReverifyIsSound ==
    ASSUME NEW input \in Inputs, NEW old, ReportSound(old, input),
           NEW fact \in DOMAIN old.candidates, NEW action \in {"CONFIRM", "CORRECT", "REJECT"},
           NEW new_value, action = "CORRECT" => new_value \in Values,
           NEW a \in Actors, NEW rows, AllBacked(old.candidates, rows),
           NEW report, report = reverify(confirm_fact(old, fact, action, new_value, a))
    PROVE  Decided(report, old, input, fact, rows, [actor |-> a, action |-> action])
<1> PICK cs : cs = old.candidates
    OBVIOUS
<1> PICK mid : mid = confirm_fact(old, fact, action, new_value, a)
    OBVIOUS
<1> PICK decided : decided = updated_fact(old.candidates[fact], action, new_value, a)
    OBVIOUS
<1>1. /\ input.facts \in Seq(Fact)
      /\ cs \in Seq(Candidate) /\ DOMAIN cs = DOMAIN input.facts
      /\ \A i \in DOMAIN cs : CandidateSound(cs[i], input.facts[i])
      /\ old \in Report
      /\ fact \in DOMAIN cs
  BY IntakeAssumption DEF ReportSound, CandidatesSound
<1>2. /\ mid.candidates = [cs EXCEPT ![fact] = decided]
      /\ mid.reason_codes = old.reason_codes
      /\ mid.unresolved_requirement_refs = old.unresolved_requirement_refs
  <2>1. mid = [old EXCEPT !.candidates[fact] = decided]
    BY Zenon DEF confirm_fact
  <2>2. mid.candidates = [cs EXCEPT ![fact] = decided]
    BY <1>1, <2>1 DEF Report
  <2>3. /\ mid.reason_codes = old.reason_codes
        /\ mid.unresolved_requirement_refs = old.unresolved_requirement_refs
    BY <1>1, <2>1 DEF Report
  <2> QED
    BY <2>2, <2>3
<1>3. /\ decided \in Candidate
      /\ decided.type = cs[fact].type /\ decided.embedded = cs[fact].embedded
      /\ decided.verification_status = IF action = "REJECT" THEN "REJECTED" ELSE "HUMAN_CONFIRMED"
      /\ decided.confirmed_by_actor_id = a
  <2>1. PICK x \in Candidate : x = cs[fact]
    BY <1>1
  <2>2. decided = updated_fact(x, action, new_value, a)
    BY <2>1
  <2> QED
    BY <2>1, <2>2 DEF updated_fact, Candidate, VerificationStatus
<1>4. PICK ms : ms = mid.candidates
  OBVIOUS
<1>5. /\ ms \in Seq(Candidate) /\ DOMAIN ms = DOMAIN input.facts
      /\ ms[fact] = decided
      /\ \A i \in DOMAIN ms \ {fact} : ms[i] = cs[i]
  BY <1>1, <1>2, <1>3, <1>4
<1>6. ASSUME NEW i \in DOMAIN ms
      PROVE  /\ CandidateSound(Verified(ms[i]), input.facts[i])
             /\ i # fact => /\ Backed(Verified(ms[i]), i, rows)
                            /\ Verified(ms[i]).confirmed_by_actor_id = cs[i].confirmed_by_actor_id
             /\ i = fact => /\ Pending(Verified(ms[i]), [actor |-> a, action |-> action])
                            /\ Verified(ms[i]).confirmed_by_actor_id = a
  <2>1. input.facts[i] \in Fact /\ ms[i] \in Candidate
    BY <1>1, <1>5
  <2>2. CASE i = fact
    <3>1. /\ ms[i].type = input.facts[i].type /\ ms[i].embedded = input.facts[i].embedded
          /\ ms[i].verification_status \in {"REJECTED", "HUMAN_CONFIRMED"}
          /\ ms[i].verification_status = "HUMAN_CONFIRMED" <=> action # "REJECT"
          /\ ms[i].confirmed_by_actor_id = a
      BY <1>1, <1>3, <1>5, <2>2 DEF CandidateSound
    <3>2. /\ CandidateSound(Verified(ms[i]), input.facts[i])
          /\ Verified(ms[i]).type = ms[i].type
          /\ Verified(ms[i]).confirmed_by_actor_id = a
          /\ Verified(ms[i]).verification_status = "HUMAN_CONFIRMED" => action # "REJECT"
      BY <2>1, <3>1, VerifiedIsSound
    <3> QED
      BY <2>2, <3>2 DEF Pending
  <2>3. CASE i # fact
    <3>1. ms[i] = cs[i] /\ CandidateSound(ms[i], input.facts[i]) /\ Backed(ms[i], i, rows)
      BY <1>1, <1>5, <2>3 DEF AllBacked
    <3>2. /\ CandidateSound(Verified(ms[i]), input.facts[i])
          /\ Verified(ms[i]).type = ms[i].type
          /\ Verified(ms[i]).value = ms[i].value
          /\ Verified(ms[i]).confirmed_by_actor_id = ms[i].confirmed_by_actor_id
          /\ Verified(ms[i]).verification_status = "HUMAN_CONFIRMED"
                => ms[i].verification_status = "HUMAN_CONFIRMED"
      BY <2>1, <3>1, VerifiedIsSound DEF CandidateSound
    <3> QED
      BY <2>3, <3>1, <3>2 DEF Backed
  <2> QED
    BY <2>2, <2>3
<1>7. PICK vs : vs = verified_candidates(ms)
  OBVIOUS
<1>8. /\ CandidatesSound(vs, input.facts)
      /\ \A i \in DOMAIN ms : vs[i] = Verified(ms[i])
  BY <1>5, <1>6, <1>7, VerifiedSequence
<1>9. PICK unresolved : unresolved = IF Confirmed(vs, "APPROVAL_CLAIM") # {}
                             THEN old.unresolved_requirement_refs \ {"APPROVAL_CLAIM"}
                             ELSE old.unresolved_requirement_refs
  OBVIOUS
<1> DEFINE conflicts == "CONFLICTS_UNRESOLVED" \in old.reason_codes
<1>10. conflicts \in BOOLEAN
  OBVIOUS
<1>11. /\ unresolved \subseteq {"MARGIN_PERCENT", "APPROVAL_CLAIM"}
       /\ _conflicts(input) # {} => conflicts
  BY <1>1, <1>9, <1>10 DEF ReportSound, Report
<1>12. report = reverify(mid)
  OBVIOUS
<1>13. report = _build_report(vs, unresolved, conflicts)
  BY <1>2, <1>4, <1>7, <1>9, <1>10, <1>12 DEF reverify
<1>14. ReportSound(report, input) /\ report.candidates = vs
  <2>1. /\ ReportSound(_build_report(vs, unresolved, conflicts), input)
        /\ _build_report(vs, unresolved, conflicts).candidates = vs
    BY <1>8, <1>10, <1>11, BuiltIsSound
  <2> QED
    BY <1>13, <2>1
<1>15. DOMAIN vs = DOMAIN ms /\ fact \in DOMAIN vs
  BY <1>1, <1>5, <1>8 DEF CandidatesSound
<1>16. \A i \in DOMAIN vs \ {fact} :
          /\ Backed(vs[i], i, rows) /\ i \in DOMAIN cs
          /\ vs[i].confirmed_by_actor_id = cs[i].confirmed_by_actor_id
  BY <1>1, <1>5, <1>6, <1>8, <1>15
<1>17. /\ Pending(vs[fact], [actor |-> a, action |-> action])
       /\ vs[fact].confirmed_by_actor_id = a
  BY <1>6, <1>8, <1>15
<1> QED
  BY <1>14, <1>15, <1>16, <1>17 DEF Decided


--------------------------------------------------------------------------------
(* The audit table *)

\* The greatest sequence of the rows.
LastOf(audit) ==
    CHOOSE n \in {0} \cup {row.sequence : row \in audit} : \A row \in audit : row.sequence <= n

\* A gapless table to n has n as its greatest sequence.
LEMMA LastNumber ==
    ASSUME NEW n \in Nat, NEW audit, AuditTo(audit, n)
    PROVE  LastOf(audit) = n
<1> PICK S : S = {0} \cup {row.sequence : row \in audit}
    OBVIOUS
<1>1. \A row \in audit : row.sequence \in 1..n
  BY DEF AuditTo
<1>2. S \subseteq 0..n
  BY <1>1
<1>3. n \in S
  <2>1. CASE n = 0
    BY <2>1
  <2>2. CASE n # 0
    <3>1. PICK x \in audit : x.number = n
      BY <2>2 DEF AuditTo
    <3>2. x.sequence = n
      BY <3>1 DEF AuditTo
    <3> QED
      BY <3>2
  <2> QED
    BY <2>1, <2>2
<1>4. \A row \in audit : row.sequence <= n
  BY <1>1
<1>5. ASSUME NEW m \in S, \A row \in audit : row.sequence <= m PROVE m = n
  <2>1. m \in 0..n
    BY <1>2
  <2>2. CASE n = 0
    BY <2>1, <2>2
  <2>3. CASE n # 0
    <3>1. PICK x \in audit : x.number = n
      BY <2>3 DEF AuditTo
    <3>2. x.sequence = n
      BY <3>1 DEF AuditTo
    <3> QED
      BY <1>5, <2>1, <3>2
  <2> QED
    BY <2>2, <2>3
<1>6. LastOf(audit) = CHOOSE m \in S : \A row \in audit : row.sequence <= m
  BY DEF LastOf
<1> QED
  BY <1>3, <1>4, <1>5, <1>6

\* The rows that the events of a list after the first k add to a table of n rows.
NewRows(events, k, n) ==
    {[number |-> j, sequence |-> n + (j - k), event |-> events[j],
      previous |-> IF j = 1 THEN None ELSE events[j - 1]] : j \in (k + 1 .. Len(events)) \ (1..n)}

\* The model's events are those rows.
LEMMA EventsOfCall ==
    ASSUME AuditInv, NEW c
    PROVE  new_events(c) = NewRows(calls[c].record.events, StoredEvents(c), LastSequence)
<1>1. Numbers = 1..LastSequence
  BY DEF AuditInv, AuditTo, Numbers
<1> QED
  BY <1>1, Zenon DEF new_events, NewRows

\* A new row holds the event of its number and the one before it.
LEMMA RowOfEvent ==
    ASSUME NEW events, NEW k, NEW n, NEW x \in NewRows(events, k, n)
    PROVE  \E j \in (k + 1 .. Len(events)) \ (1..n) :
              /\ x.number = j /\ x.sequence = n + (j - k) /\ x.event = events[j]
              /\ x.previous = IF j = 1 THEN None ELSE events[j - 1]
BY DEF NewRows

\* The events that follow the rows of the table, or that are there already, keep
\* the table gapless.
LEMMA NextEvents ==
    ASSUME NEW n \in Nat, NEW k \in Nat, NEW events \in Seq(RequestKeys), NEW audit,
           AuditTo(audit, n), k < Len(events), n = k \/ Len(events) <= n
    PROVE  \E m \in Nat : /\ AuditTo(audit \cup NewRows(events, k, n), m)
                          /\ n <= m /\ Len(events) <= m
<1> PICK l \in Nat : l = Len(events)
    OBVIOUS
<1> PICK rows : rows = NewRows(events, k, n)
    OBVIOUS
<1>1. CASE l <= n
  <2>1. (k + 1 .. l) \ (1..n) = {}
    BY <1>1
  <2>2. rows = {}
    BY <2>1, Zenon DEF NewRows
  <2>3. audit \cup rows = audit
    BY <2>2
  <2>4. AuditTo(audit \cup NewRows(events, k, n), n)
    BY <2>3
  <2>5. n <= n /\ Len(events) <= n
    BY <1>1
  <2> QED
    BY <2>4, <2>5, Zenon
<1>2. CASE n = k
  <2>1. (k + 1 .. l) \ (1..n) = k + 1 .. l
    BY <1>2
  <2>2. ASSUME NEW x \in rows
        PROVE  /\ x.number \in k + 1 .. l /\ x.sequence = x.number
               /\ x.event \in RequestKeys /\ x.previous \in RequestKeys \cup {None}
    <3>1. PICK j \in k + 1 .. l :
              /\ x.number = j /\ x.sequence = n + (j - k) /\ x.event = events[j]
              /\ x.previous = IF j = 1 THEN None ELSE events[j - 1]
      BY <2>1, RowOfEvent
    <3>2. j \in 1..l /\ n + (j - k) = j /\ (j # 1 => j - 1 \in 1..l)
      BY <1>2
    <3>3. events[j] \in RequestKeys /\ (j # 1 => events[j - 1] \in RequestKeys)
      BY <3>2
    <3> QED
      BY <3>1, <3>2, <3>3
  <2>3. ASSUME NEW x \in rows, NEW y \in rows, x.number = y.number PROVE x = y
    <3>1. PICK i \in k + 1 .. l :
              x = [number |-> i, sequence |-> n + (i - k), event |-> events[i],
                   previous |-> IF i = 1 THEN None ELSE events[i - 1]]
      BY <2>1 DEF NewRows
    <3>2. PICK j \in k + 1 .. l :
              y = [number |-> j, sequence |-> n + (j - k), event |-> events[j],
                   previous |-> IF j = 1 THEN None ELSE events[j - 1]]
      BY <2>1 DEF NewRows
    <3>3. i = j
      BY <2>3, <3>1, <3>2
    <3> QED
      BY <3>1, <3>2, <3>3
  <2>4. ASSUME NEW j \in k + 1 .. l PROVE \E x \in rows : x.number = j
    <3>1. PICK x : x = [number |-> j, sequence |-> n + (j - k), event |-> events[j],
                        previous |-> IF j = 1 THEN None ELSE events[j - 1]]
      OBVIOUS
    <3>2. x \in rows
      BY <2>1, <3>1 DEF NewRows
    <3> QED
      BY <3>1, <3>2
  <2>5. AuditTo(audit \cup rows, l)
    <3>1. \A x \in audit : /\ x.number \in 1..k /\ x.sequence = x.number
                           /\ x.event \in RequestKeys /\ x.previous \in RequestKeys \cup {None}
      BY <1>2 DEF AuditTo
    <3>2. \A x \in audit \cup rows : /\ x.number \in 1..l /\ x.sequence = x.number
                           /\ x.event \in RequestKeys /\ x.previous \in RequestKeys \cup {None}
      BY <2>2, <3>1
    <3>3. \A j \in 1..l : \E x \in audit \cup rows : x.number = j
      BY <1>2, <2>4 DEF AuditTo
    <3>4. \A x, y \in audit \cup rows : x.number = y.number => x = y
      BY <2>2, <2>3, <3>1 DEF AuditTo
    <3> QED
      BY <3>2, <3>3, <3>4 DEF AuditTo
  <2> QED
    BY <1>2, <2>5
<1> QED
  BY <1>1, <1>2


--------------------------------------------------------------------------------
(* Histories *)

\* A history stays one when others save events of requests that are new to it.
LEMMA HistoryGrows ==
    ASSUME NEW events, NEW k \in Nat, NEW used, NEW more, used \subseteq more,
           NEW audit, NEW rows, \A x \in rows : x.event \notin used,
           History(events, k, used, audit)
    PROVE  History(events, k, more, audit \cup rows)
<1>1. \A x \in rows : x.number \in 2..k => events[x.number] # x.event
  BY DEF History
<1> QED
  BY <1>1 DEF History

\* Events of a new request follow the first k of the list.
Follows(events, k, used, audit, key) ==
    /\ Len(events) \in Nat /\ k \in Nat /\ k <= Len(events)
    /\ key \notin used
    /\ \A x \in audit : x.event \in used
    /\ \A j \in (k + 1)..Len(events) : events[j] = key
    /\ History(events, k, used, audit)

\* The list is a history once the rows of its new events are there.
Recorded(events, used, audit, rows, key) ==
    /\ History(events, Len(events), used \cup {key}, audit \cup rows)
    /\ \A x \in rows : x.event = key

\* The history that a request saves: what it read, and events of its own that
\* are linked to it.
LEMMA HistorySaved ==
    ASSUME NEW events, NEW k, NEW n, NEW used, NEW audit, NEW key,
           Follows(events, k, used, audit, key)
    PROVE  Recorded(events, used, audit, NewRows(events, k, n), key)
<1> USE DEF Follows, Recorded
<1> PICK l \in Nat : l = Len(events)
    OBVIOUS
<1> PICK rows : rows = NewRows(events, k, n)
    OBVIOUS
<1>1. ASSUME NEW x \in rows
      PROVE  x.event = key /\ (x.number \in 2..l => x.previous = events[x.number - 1])
  <2>1. PICK j \in k + 1 .. l :
            /\ x.number = j /\ x.event = events[j]
            /\ x.previous = IF j = 1 THEN None ELSE events[j - 1]
    BY RowOfEvent
  <2> QED
    BY <2>1
<1>2. ASSUME NEW x \in audit, x.number \in 2..l, events[x.number] = x.event
      PROVE  x.previous = events[x.number - 1]
  <2>1. x.number \in 2..k
    <3>1. ~(x.number \in (k + 1)..l)
      BY <1>2
    <3> QED
      BY <1>2, <3>1
  <2> QED
    BY <1>2, <2>1 DEF History
<1>3. \A j \in 1..l : events[j] \in used \cup {key}
  <2>1. \A j \in 1..l : j \in 1..k \/ j \in (k + 1)..l
    OBVIOUS
  <2> QED
    BY <2>1 DEF History
<1> QED
  BY <1>1, <1>2, <1>3 DEF History


--------------------------------------------------------------------------------
(* Rows are only added *)

\* A confirmation that is on record stays on record when rows are added.
LEMMA BackedGrows ==
    ASSUME NEW x, NEW f, NEW rows, NEW more, rows \subseteq more, Backed(x, f, rows)
    PROVE  Backed(x, f, more)
BY DEF Backed

\* The same for all confirmed candidates.
LEMMA AllBackedGrows ==
    ASSUME NEW cs, NEW rows, NEW more, rows \subseteq more, AllBacked(cs, rows)
    PROVE  AllBacked(cs, more)
BY BackedGrows DEF AllBacked

\* A request stays sound while others save their rows and events.
LEMMA CallGrows ==
    ASSUME NEW q, NEW rows, NEW more, rows \subseteq more,
           NEW n \in Nat, NEW m \in Nat, n <= m, NEW d, NEW e, d => e,
           CallSound(q, rows, n, d)
    PROVE  CallSound(q, more, m, e)
<1>1. CASE q = Idle
  BY <1>1 DEF CallSound
<1>2. CASE RecordSound(q.record) /\ Creating(q)
  BY <1>2 DEF CallSound
<1>3. CASE RecordSound(q.record) /\ (Confirming(q, rows, n) \/ Compiling(q, rows, n, d))
  <2>1. Appends(q, n) /\ Len(q.record.events) \in Nat
    BY <1>3 DEF Confirming, Compiling, RecordSound, Record
  <2>2. Appends(q, m)
    BY <2>1 DEF Appends
  <2>3. ASSUME Confirming(q, rows, n) PROVE Confirming(q, more, m)
    BY <2>2, <2>3, BackedGrows DEF Confirming
  <2>4. ASSUME Compiling(q, rows, n, d) PROVE Compiling(q, more, m, e)
    BY <2>2, <2>4, AllBackedGrows DEF Compiling
  <2> QED
    BY <1>3, <2>3, <2>4 DEF CallSound
<1> QED
  BY <1>1, <1>2, <1>3 DEF CallSound

\* The people who confirmed are finitely many, and remain so.
LEMMA ApproversFinite ==
    ASSUME NEW input, NEW rows, IsFiniteSet(rows)
    PROVE  IsFiniteSet(Approvers(input, rows)) /\ Cardinality(Approvers(input, rows)) \in Nat
<1> DEFINE kept == {x \in rows : /\ x.action # "REJECT"
                                /\ x.fact \in DOMAIN input.facts
                                /\ input.facts[x.fact].type = "APPROVAL_CLAIM"
                                /\ RoleOf[x.actor] = "APPROVER"}
<1>1. IsFiniteSet(kept)
  BY FS_Subset
<1> DEFINE f == [row \in kept |-> row.actor]
<1>2. f \in Surjection(kept, Approvers(input, rows))
  BY DEF Surjection, Approvers
<1>3. IsFiniteSet(Approvers(input, rows))
  BY <1>1, <1>2, FS_Surjection
<1> QED
  BY <1>3, FS_CardinalityType

\* Approvals on record stay on record.
LEMMA ApprovedGrows ==
    ASSUME NEW d, NEW rows, NEW more, rows \subseteq more, IsFiniteSet(more),
           policy.required_approval_count \in Nat, Approved(d, rows)
    PROVE  Approved(d, more)
<1> PICK old : old = Approvers(d.source, rows)
    OBVIOUS
<1> PICK new : new = Approvers(d.source, more)
    OBVIOUS
<1>1. old \subseteq new
  BY DEF Approvers
<1>2. IsFiniteSet(new) /\ Cardinality(new) \in Nat
  BY ApproversFinite
<1>3. IsFiniteSet(old) /\ Cardinality(old) <= Cardinality(new)
  BY <1>1, <1>2, FS_Subset
<1>4. Cardinality(old) \in Nat
  BY <1>3, FS_CardinalityType
<1> QED
  BY <1>2, <1>3, <1>4 DEF Approved

\* A claim that is grounded stays grounded.
LEMMA GroundedGrows ==
    ASSUME NEW d, NEW rows, NEW more, rows \subseteq more, Grounded(d, rows)
    PROVE  Grounded(d, more)
BY DEF Grounded


--------------------------------------------------------------------------------
(* The compiled decision *)

\* A set of numbers has a first one.
LEMMA First ==
    ASSUME NEW S, S \subseteq Nat, S # {}
    PROVE  \E i \in S : \A j \in S : i <= j
<1>1. PICK i \in S : \A j \in S : ~(<<j, i>> \in OpToRel(<, Nat))
  BY NatLessThanWellFounded, WFMin
<1>2. ASSUME NEW j \in S PROVE i <= j
  <2>1. i \in Nat /\ j \in Nat
    OBVIOUS
  <2>2. ~(j < i)
    BY <1>1, <2>1 DEF OpToRel
  <2> QED
    BY <2>1, <2>2
<1> QED
  BY <1>2

\* The claims of a decision are the verified candidates of the report.
LEMMA ClaimsAreVerified ==
    ASSUME NEW rep, NEW source, NEW claim \in compile(rep, source).claims
    PROVE  \E i \in DOMAIN rep.candidates :
              /\ claim.fact = i /\ claim.type = rep.candidates[i].type
              /\ claim.value = rep.candidates[i].value
              /\ rep.candidates[i].verification_status \in {"VERIFIED", "HUMAN_CONFIRMED"}
              /\ claim = [fact |-> i, type |-> rep.candidates[i].type,
                          value |-> rep.candidates[i].value]
<1>1. PICK i \in verified_facts(rep) :
          claim = [fact |-> i, type |-> rep.candidates[i].type, value |-> rep.candidates[i].value]
  BY DEF compile
<1> QED
  BY <1>1 DEF verified_facts

\* A decision that is compiled from a report that is ready rests on what the
\* rows say, and its approvals are real.
LEMMA CompiledIsSound ==
    ASSUME NEW input \in Inputs, NEW rep, ReportSound(rep, input), rep.ready,
           NEW rows, IsFiniteSet(rows), \A row \in rows : RowSound(row),
           AllBacked(rep.candidates, rows)
    PROVE  DecisionSound(compile(rep, input), rows)
<1> PICK cs : cs = rep.candidates
    OBVIOUS
<1> PICK d : d = compile(rep, input)
    OBVIOUS
<1>1. /\ cs \in Seq(Candidate) /\ DOMAIN cs = DOMAIN input.facts
      /\ \A i \in DOMAIN cs : CandidateSound(cs[i], input.facts[i])
      /\ DOMAIN cs \subseteq Nat
      /\ rep.findings \subseteq ResultCode
  BY DEF ReportSound, CandidatesSound, Report
<1>2. policy # None /\ rep.findings = _compare_policy(cs)
  BY DEF ReportSound, Settled
<1>3. d.constraints = _compare_policy(cs) /\ d.source = input
  BY <1>2 DEF compile
<1>4. \A claim \in d.claims : \E i \in DOMAIN cs :
          /\ claim.fact = i /\ claim.type = cs[i].type /\ claim.value = cs[i].value
          /\ cs[i].verification_status \in {"VERIFIED", "HUMAN_CONFIRMED"}
          /\ claim = [fact |-> i, type |-> cs[i].type, value |-> cs[i].value]
  BY ClaimsAreVerified
<1>5. d \in Decision
  <2>1. d.claims \subseteq [fact : Nat, type : Objective \cup Claims, value : Values]
    <3> SUFFICES ASSUME NEW claim \in d.claims
                 PROVE  claim \in [fact : Nat, type : Objective \cup Claims, value : Values]
      OBVIOUS
    <3>1. PICK i \in DOMAIN cs :
              claim = [fact |-> i, type |-> cs[i].type, value |-> cs[i].value]
      BY <1>4
    <3>2. PICK x \in Candidate : x = cs[i]
      BY <1>1
    <3>3. cs[i].type \in Objective \cup Claims /\ cs[i].value \in Values
      BY <3>2 DEF Candidate
    <3>4. i \in Nat
      BY <1>1
    <3> QED
      BY <3>1, <3>3, <3>4
  <2>2. d = [created_by |-> "system:intake-compiler", source |-> input,
             claims |-> d.claims, constraints |-> d.constraints]
    BY DEF compile
  <2>3. d.constraints \subseteq ResultCode
    BY <1>1, <1>2, <1>3
  <2> QED
    BY <2>1, <2>2, <2>3 DEF Decision
<1>6. Grounded(d, rows)
  <2> SUFFICES ASSUME NEW claim \in d.claims
               PROVE  /\ claim.fact \in DOMAIN input.facts
                      /\ claim.type = input.facts[claim.fact].type
                      /\ \/ claim.type \in Objective /\ claim.value = input.facts[claim.fact].value
                         \/ \E row \in rows :
                               /\ row.fact = claim.fact /\ row.value = claim.value
                               /\ row.action # "REJECT" /\ KindOf[row.actor] = "HUMAN"
                      /\ claim.type \in {"POLICY_CLAIM", "APPROVAL_CLAIM", "ROLE_CLAIM"}
                             => ~input.facts[claim.fact].embedded
                      /\ claim.type = "POLICY_CLAIM" => claim.value # "beyond"
    BY <1>3 DEF Grounded
  <2>1. PICK i \in DOMAIN cs :
          /\ claim.fact = i /\ claim.type = cs[i].type /\ claim.value = cs[i].value
          /\ cs[i].verification_status \in {"VERIFIED", "HUMAN_CONFIRMED"}
    BY <1>4
  <2>2. CandidateSound(cs[i], input.facts[i]) /\ Backed(cs[i], i, rows)
    BY <1>1 DEF AllBacked
  <2>3. claim.fact \in DOMAIN input.facts /\ claim.type = input.facts[claim.fact].type
    BY <1>1, <2>1, <2>2 DEF CandidateSound
  <2>4. Admitted(cs[i]) /\ cs[i].embedded = input.facts[i].embedded
    BY <2>1, <2>2 DEF CandidateSound
  <2>5. /\ claim.type \in {"POLICY_CLAIM", "APPROVAL_CLAIM", "ROLE_CLAIM"}
               => ~input.facts[claim.fact].embedded
        /\ claim.type = "POLICY_CLAIM" => claim.value # "beyond"
    BY <1>2, <2>1, <2>4 DEF Admitted
  <2>6. CASE cs[i].verification_status = "VERIFIED"
    <3>1. cs[i].type \in Objective /\ input.facts[i].value = cs[i].value
      BY <2>2, <2>6 DEF CandidateSound
    <3> QED
      BY <2>1, <2>3, <2>5, <3>1
  <2>7. CASE cs[i].verification_status = "HUMAN_CONFIRMED"
    <3>1. PICK row \in rows : row.fact = i /\ row.value = cs[i].value /\ row.action # "REJECT"
      BY <2>2, <2>7 DEF Backed
    <3>2. KindOf[row.actor] = "HUMAN"
      BY DEF RowSound
    <3> QED
      BY <2>1, <2>3, <2>5, <3>1, <3>2
  <2> QED
    BY <2>1, <2>6, <2>7
<1>7. Approved(d, rows)
  <2> SUFFICES ASSUME NeedsApproval(d), "REQUIRED_APPROVAL_MISSING" \notin d.constraints
               PROVE  Cardinality(Approvers(input, rows)) >= policy.required_approval_count
    BY <1>3 DEF Approved
  <2>1. PICK claim \in d.claims :
          /\ claim.type = "AMOUNT" /\ claim.value = "beyond"
          /\ \A f \in DOMAIN input.facts : f < claim.fact => input.facts[f].type # "AMOUNT"
    BY <1>3 DEF NeedsApproval
  <2>2. PICK i \in DOMAIN cs : claim.fact = i /\ claim.type = cs[i].type /\ claim.value = cs[i].value
    BY <1>4
  <2>3. \A j \in OfType(cs, "AMOUNT") : j \in DOMAIN input.facts /\ input.facts[j].type = "AMOUNT"
    BY <1>1 DEF OfType, CandidateSound
  <2>4. i \in OfType(cs, "AMOUNT") /\ cs[i].value = "beyond"
    BY <2>1, <2>2 DEF OfType
  <2>5. \A j \in OfType(cs, "AMOUNT") : i <= j
    <3>1. SUFFICES ASSUME NEW j \in OfType(cs, "AMOUNT") PROVE i <= j
      OBVIOUS
    <3>2. i \in Nat /\ j \in Nat /\ ~(j < i)
      BY <1>1, <2>1, <2>2, <2>3
    <3> QED
      BY <3>2
  <2>6. beyond(cs, "AMOUNT")
    BY <2>4, <2>5 DEF beyond
  <2>7. ~(Cardinality(distinct_approvers(cs)) < policy.required_approval_count)
    BY <1>3, <2>6 DEF _compare_policy, found
  <2>8. distinct_approvers(cs) \subseteq Approvers(input, rows)
    <3> SUFFICES ASSUME NEW x \in distinct_approvers(cs)
                 PROVE  x \in Approvers(input, rows)
      OBVIOUS
    <3>1. PICK j \in Confirmed(cs, "APPROVAL_CLAIM") :
              x = cs[j].confirmed_by_actor_id /\ RoleOf[x] = "APPROVER"
      BY DEF distinct_approvers
    <3>2. /\ j \in DOMAIN cs /\ cs[j].verification_status = "HUMAN_CONFIRMED"
          /\ cs[j].type = "APPROVAL_CLAIM"
      BY DEF Confirmed, OfType
    <3>3. j \in DOMAIN input.facts /\ input.facts[j].type = "APPROVAL_CLAIM"
      BY <1>1, <3>2 DEF CandidateSound
    <3>4. PICK row \in rows : row.fact = j /\ row.actor = x /\ row.action # "REJECT"
      BY <3>1, <3>2 DEF AllBacked, Backed
    <3> QED
      BY <3>1, <3>3, <3>4 DEF Approvers
  <2>9. IsFiniteSet(Approvers(input, rows)) /\ Cardinality(Approvers(input, rows)) \in Nat
    BY ApproversFinite
  <2>10. /\ IsFiniteSet(distinct_approvers(cs))
         /\ Cardinality(distinct_approvers(cs)) <= Cardinality(Approvers(input, rows))
    BY <2>8, <2>9, FS_Subset
  <2>11. Cardinality(distinct_approvers(cs)) \in Nat
    BY <2>10, FS_CardinalityType
  <2>12. policy.required_approval_count \in Nat
    BY <1>2, IntakeAssumption
  <2> QED
    BY <2>7, <2>9, <2>10, <2>11, <2>12
<1> QED
  BY <1>2, <1>5, <1>6, <1>7 DEF DecisionSound


--------------------------------------------------------------------------------
(* The steps of the routes *)

\* Empty tables satisfy the invariant.
LEMMA InitKeeps == Init => IInv
<1> SUFFICES ASSUME Init PROVE IInv
    OBVIOUS
<1>1. AuditTo({}, 0)
  <2>1. 1..0 = {}
    OBVIOUS
  <2> QED
    BY <2>1 DEF AuditTo
<1>2. LastSequence = 0
  BY <1>1, LastNumber DEF Init, LastSequence, LastOf
<1>3. AuditInv
  BY <1>1, <1>2 DEF Init, AuditInv
<1>4. RowsInv
  BY FS_EmptySet DEF Init, RowsInv
<1>5. RecordInv /\ DecisionInv
  BY DEF Init, RecordInv, DecisionInv
<1>6. CallsInv
  BY DEF Init, CallsInv, CallSound
<1>7. HistoryInv
  BY DEF Init, HistoryInv, CallHistory
<1> QED
  BY <1>3, <1>4, <1>5, <1>6, <1>7 DEF IInv

\* A step that touches only what one request remembers.
LEMMA CallChanges ==
    ASSUME IInv, NEW c \in Calls, NEW q, calls' = [calls EXCEPT ![c] = q],
           CallSound(q, intake_confirmations, LastSequence, decision # None),
           CallHistory(q, intake_idempotency, intake_audit_events),
           UNCHANGED <<intake_record, intake_confirmations, intake_audit_events,
                       intake_idempotency, decision>>
    PROVE  IInv'
<1>1. LastSequence' = LastSequence
  BY DEF LastSequence
<1>2. AuditInv' /\ RowsInv' /\ RecordInv' /\ DecisionInv'
  BY <1>1 DEF IInv, AuditInv, RowsInv, RecordInv, DecisionInv
<1>3. CallsInv'
  <2>1. DOMAIN calls = Calls /\ DOMAIN calls' = Calls
    BY DEF IInv, CallsInv
  <2>2. ASSUME NEW o \in Calls
        PROVE  CallSound(calls'[o], intake_confirmations, LastSequence, decision # None)
    <3>1. calls'[o] = IF o = c THEN q ELSE calls[o]
      BY <2>1
    <3> QED
      BY <3>1 DEF IInv, CallsInv
  <2> QED
    BY <1>1, <2>1, <2>2 DEF CallsInv
<1>4. HistoryInv'
  <2>1. DOMAIN calls = Calls
    BY DEF IInv, CallsInv
  <2>2. ASSUME NEW o \in Calls
        PROVE  CallHistory(calls'[o], intake_idempotency, intake_audit_events)
    <3>1. calls'[o] = IF o = c THEN q ELSE calls[o]
      BY <2>1
    <3> QED
      BY <3>1 DEF IInv, HistoryInv
  <2> QED
    BY <2>2 DEF IInv, HistoryInv
<1> QED
  BY <1>2, <1>3, <1>4 DEF IInv

\* A request that reads and computes has the history of what it read and one
\* event of its own.
LEMMA NextHistory ==
    ASSUME NEW q, NEW used, NEW audit, NEW events, NEW key, Len(events) \in Nat,
           q.record.events = Append(events, key), KeyOf(q.request) = key, q.appended = 1,
           events \in Seq(RequestKeys), key \in RequestKeys,
           History(events, Len(events), used, audit)
    PROVE  CallHistory(q, used, audit)
<1> PICK l \in Nat : l = Len(events)
    OBVIOUS
<1> PICK more : more = Append(events, key)
    OBVIOUS
<1>1. /\ Len(more) = l + 1 /\ more[l + 1] = key
      /\ \A n \in 1..l : more[n] = events[n]
  OBVIOUS
<1>2. History(more, l, used, audit)
  <2>1. \A n \in 1..l : more[n] \in used
    BY <1>1 DEF History
  <2>2. ASSUME NEW x \in audit, x.number \in 2..l, more[x.number] = x.event
        PROVE  x.previous = more[x.number - 1]
    <3>1. x.number \in 1..l /\ x.number - 1 \in 1..l
      BY <2>2
    <3>2. events[x.number] = x.event
      BY <1>1, <2>2, <3>1
    <3>3. x.previous = events[x.number - 1]
      BY <2>2, <3>2 DEF History
    <3> QED
      BY <1>1, <3>1, <3>3
  <2> QED
    BY <2>1, <2>2 DEF History
<1>3. Len(more) - 1 = l /\ (Len(more) - 1 + 1)..Len(more) = {l + 1}
  BY <1>1
<1> QED
  BY <1>1, <1>2, <1>3 DEF CallHistory

\* A request stays sound in its history while keys are used.
LEMMA UsedGrows ==
    ASSUME NEW q, NEW used, NEW more, used \subseteq more, NEW audit, CallHistory(q, used, audit)
    PROVE  CallHistory(q, more, audit)
BY DEF CallHistory, History

\* A step that touches none of what the invariant is about, or only uses a key.
LEMMA NothingChanges ==
    ASSUME IInv, intake_idempotency \subseteq intake_idempotency',
           UNCHANGED <<intake_record, intake_confirmations, intake_audit_events, decision, calls>>
    PROVE  IInv'
<1>1. AuditInv' /\ RowsInv' /\ RecordInv' /\ CallsInv' /\ DecisionInv'
  BY DEF IInv, AuditInv, RowsInv, RecordInv, CallsInv, DecisionInv, LastSequence
<1>2. HistoryInv'
  <2>1. \A c \in Calls : CallHistory(calls[c], intake_idempotency', intake_audit_events)
    BY UsedGrows DEF IInv, HistoryInv
  <2>2. intake_record # None => History(intake_record.events, Len(intake_record.events),
                                        intake_idempotency', intake_audit_events)
    BY DEF IInv, HistoryInv, History
  <2> QED
    BY <2>1, <2>2 DEF IInv, HistoryInv
<1> QED
  BY <1>1, <1>2 DEF IInv

\* POST /v1/intakes: the record is built and verified.
LEMMA CreateKeeps ==
    ASSUME IInv, NEW c \in Calls, NEW a \in Actors, NEW input \in Inputs, NEW key \in Keys,
           create_intake(c, a, input, key)
    PROVE  IInv'
<1> PICK rep : rep = verify(input)
    OBVIOUS
<1> PICK request : request = [actor |-> a, operation |-> <<"create">>, key |-> key]
    OBVIOUS
<1> PICK key_of : key_of = KeyOf(request)
    OBVIOUS
<1> PICK record : record = [input |-> input, status |-> target_status(rep), verification |-> rep,
                            events |-> <<key_of, key_of>>, compiled_decision_id |-> FALSE]
    OBVIOUS
<1>1. CASE Proceed(c, "save", request, record, 2)
  <2>1. PICK q : q = [pc |-> "save", request |-> request, record |-> record, appended |-> 2]
    OBVIOUS
  <2>2. /\ ReportSound(rep, input) /\ AllBacked(rep.candidates, {})
        /\ \A i \in DOMAIN rep.candidates : rep.candidates[i].confirmed_by_actor_id = None
    BY VerifyIsSound
  <2>3. rep \in Report /\ target_status(rep) \in {"READY", "NEEDS_CONFIRMATION"}
        /\ (target_status(rep) = "READY" => rep.ready)
    BY <2>2 DEF ReportSound, target_status
  <2>4. key_of = <<a, <<"create">>, key>> /\ key_of \in RequestKeys
    BY DEF KeyOf, RequestKeys
  <2>5. PICK events : events = <<key_of, key_of>>
    OBVIOUS
  <2>6. /\ events \in Seq(RequestKeys) /\ Len(events) = 2 /\ DOMAIN events = 1..2
        /\ \A n \in 1..2 : events[n] = key_of
    BY <2>4, <2>5
  <2>7. AllDecided(rep.candidates, events)
    <3>1. \A f : EventsAbout(f, events) = {}
      BY <2>4, <2>6 DEF EventsAbout
    <3> QED
      BY <2>2, <3>1 DEF AllDecided, LastDecided
  <2>8. record.events = events /\ record.verification = rep /\ record.input = input
        /\ record.status = target_status(rep)
    BY <2>5
  <2>9. RecordSound(record)
    <3>1. record \in Record
      BY <2>3, <2>5, <2>6 DEF Record
    <3>2. /\ Len(record.events) >= 2
          /\ ReportSound(record.verification, record.input)
          /\ AllDecided(record.verification.candidates, record.events)
      BY <2>2, <2>6, <2>7, <2>8
    <3>3. record.status \in {"READY", "COMPILED"} => record.verification.ready
      BY <2>3, <2>8
    <3> QED
      BY <3>1, <3>2, <3>3, Zenon DEF RecordSound
  <2>10. Creating(q)
    BY <2>1, <2>2, <2>3, <2>6, <2>8 DEF Creating
  <2>11. CallSound(q, intake_confirmations, LastSequence, decision # None)
    BY <2>1, <2>9, <2>10 DEF CallSound
  <2>12. CallHistory(q, intake_idempotency, intake_audit_events)
    <3>1. /\ q.record.events = events /\ q.appended = 2 /\ KeyOf(q.request) = key_of
      BY <2>1, <2>8
    <3>2. Len(events) - 2 = 0 /\ 0 + 1 = 1 /\ 1..0 = {} /\ 2..0 = {}
      BY <2>6
    <3>3. History(events, 0, intake_idempotency, intake_audit_events)
      BY <3>2 DEF History
    <3> QED
      BY <2>6, <3>1, <3>2, <3>3 DEF CallHistory
  <2> QED
    BY <1>1, <2>1, <2>11, <2>12, CallChanges DEF Proceed
<1>2. CASE _finish(request)
  BY <1>2, NothingChanges DEF _finish
<1> QED
  BY <1>1, <1>2 DEF create_intake

\* An event about one fact tells who decided about it last and leaves the others
\* as they were.
LEMMA ConfirmDecides ==
    ASSUME NEW events \in Seq(RequestKeys), NEW key \in RequestKeys, NEW fact,
           key[2] = <<"confirm", fact>>
    PROVE  /\ LastDecided(key[1], fact, Append(events, key))
           /\ \A f, who : f # fact /\ LastDecided(who, f, events)
                              => LastDecided(who, f, Append(events, key))
<1> PICK more : more = Append(events, key)
    OBVIOUS
<1> PICK l \in Nat : l = Len(events)
    OBVIOUS
<1>1. /\ DOMAIN more = 1..(l + 1) /\ DOMAIN events = 1..l /\ more[l + 1] = key
      /\ \A n \in 1..l : more[n] = events[n]
  OBVIOUS
<1>2. l + 1 \in EventsAbout(fact, more) /\ \A n \in EventsAbout(fact, more) : n <= l + 1
  BY <1>1 DEF EventsAbout
<1>3. \A n \in EventsAbout(fact, more) :
          (\A k \in EventsAbout(fact, more) : k <= n) => n = l + 1
  BY <1>1, <1>2 DEF EventsAbout
<1>4. LastDecided(key[1], fact, more)
  BY <1>1, <1>2, <1>3 DEF LastDecided
<1>5. ASSUME NEW f, NEW who, f # fact, LastDecided(who, f, events)
      PROVE  LastDecided(who, f, more)
  <2>1. key[2] # <<"confirm", f>>
    <3>1. <<"confirm", f>>[2] = f /\ <<"confirm", fact>>[2] = fact
      OBVIOUS
    <3> QED
      BY <1>5, <3>1
  <2>2. EventsAbout(f, more) = EventsAbout(f, events)
    BY <1>1, <2>1 DEF EventsAbout
  <2>3. \A n \in EventsAbout(f, events) : more[n] = events[n]
    BY <1>1 DEF EventsAbout
  <2> QED
    BY <1>5, <2>2, <2>3 DEF LastDecided
<1> QED
  BY <1>4, <1>5

\* An event about no fact leaves who decided about them as it was.
LEMMA CompileDecides ==
    ASSUME NEW events \in Seq(RequestKeys), NEW key \in RequestKeys, key[2] = <<"compile">>,
           NEW cs, AllDecided(cs, events)
    PROVE  AllDecided(cs, Append(events, key))
<1> PICK more : more = Append(events, key)
    OBVIOUS
<1> PICK l \in Nat : l = Len(events)
    OBVIOUS
<1>1. /\ DOMAIN more = 1..(l + 1) /\ DOMAIN events = 1..l /\ more[l + 1] = key
      /\ \A n \in 1..l : more[n] = events[n]
  OBVIOUS
<1>2. ASSUME NEW f \in DOMAIN cs
      PROVE  LastDecided(cs[f].confirmed_by_actor_id, f, more)
  <2>1. key[2] # <<"confirm", f>>
    OBVIOUS
  <2>2. EventsAbout(f, more) = EventsAbout(f, events)
    BY <1>1, <2>1 DEF EventsAbout
  <2>3. \A n \in EventsAbout(f, events) : more[n] = events[n]
    BY <1>1 DEF EventsAbout
  <2>4. LastDecided(cs[f].confirmed_by_actor_id, f, events)
    BY DEF AllDecided
  <2> QED
    BY <2>2, <2>3, <2>4 DEF LastDecided
<1> QED
  BY <1>2 DEF AllDecided

\* The record that a confirmation computes from the one it read.
NextOf(r, s, rep, key) ==
    [r EXCEPT !.status = s, !.verification = rep, !.events = Append(@, key)]

\* The record that a confirmation or a verification makes of the copy.
LEMMA NextRecord ==
    ASSUME NEW r \in Record, NEW s \in {"NEEDS_CONFIRMATION", "READY", "COMPILED"},
           NEW rep \in Report, NEW key \in RequestKeys,
           NEW record, record = NextOf(r, s, rep, key)
    PROVE  /\ record \in Record /\ record.input = r.input /\ record.status = s
           /\ record.verification = rep /\ record.events = Append(r.events, key)
<1>1. PICK e : e = Append(r.events, key)
  OBVIOUS
<1>2. record = [r EXCEPT !.status = s, !.verification = rep, !.events = e]
  BY <1>1, Zenon DEF NextOf
<1>3. e \in Seq(RequestKeys)
  BY <1>1 DEF Record
<1>4. record = [input |-> r.input, status |-> s, verification |-> rep, events |-> e,
                compiled_decision_id |-> r.compiled_decision_id]
  BY <1>2 DEF Record
<1>5. /\ record \in Record /\ record.input = r.input /\ record.status = s
      /\ record.verification = rep /\ record.events = e
  BY <1>3, <1>4 DEF Record
<1> QED
  BY <1>1, <1>5, Zenon

\* The confirmation of a fact, computed on the copy that was read.
LEMMA ConfirmKeeps ==
    ASSUME IInv, NEW c \in Calls, NEW a \in Actors, NEW x \in Confirmations, NEW key \in Keys,
           add_confirmation(c, a, x[1], x[2], x[3], key)
    PROVE  IInv'
<1> PICK fact, action, new_value : fact = x[1] /\ action = x[2] /\ new_value = x[3]
    OBVIOUS
<1> PICK r : r = intake_record
    OBVIOUS
<1>a. PICK rep : rep = reverify(confirm_fact(r.verification, fact, action, new_value, a))
    OBVIOUS
<1>b. PICK request : request = [actor |-> a, operation |-> <<"confirm", fact>>, key |-> key,
                              action |-> action]
    OBVIOUS
<1>k. PICK key_of : key_of = KeyOf(request)
    OBVIOUS
<1>c. PICK record : record = NextOf(r, target_status(rep), rep, key_of)
    OBVIOUS
<1>d. PICK q : q = [pc |-> "save", request |-> request, record |-> record, appended |-> 1]
    OBVIOUS
<1>1. /\ r # None
      /\ fact \in DOMAIN r.verification.candidates
      /\ KindOf[a] = "HUMAN"
      /\ Proceed(c, "save", request, record, 1)
  BY <1>a, <1>b, <1>k, <1>c DEF add_confirmation, NextOf
<1>2. /\ RecordSound(r)
      /\ AllBacked(r.verification.candidates, intake_confirmations)
      /\ LastSequence >= 2 /\ Len(r.events) <= LastSequence
      /\ LastSequence \in Nat
      /\ History(r.events, Len(r.events), intake_idempotency, intake_audit_events)
  BY <1>1 DEF IInv, RecordInv, AuditInv, HistoryInv
<1>3. /\ r \in Record /\ r.input \in Inputs /\ r.events \in Seq(RequestKeys)
      /\ Len(r.events) \in Nat /\ Len(r.events) >= 2
      /\ ReportSound(r.verification, r.input)
      /\ AllDecided(r.verification.candidates, r.events)
  BY <1>2 DEF RecordSound, Record
<1>4. action \in {"CONFIRM", "CORRECT", "REJECT"} /\ (action = "CORRECT" => new_value \in Values)
  BY ConfirmationsAssumption
<1>5. /\ ReportSound(rep, r.input)
      /\ fact \in DOMAIN rep.candidates
      /\ \A i \in DOMAIN rep.candidates \ {fact} :
            /\ Backed(rep.candidates[i], i, intake_confirmations)
            /\ i \in DOMAIN r.verification.candidates
            /\ rep.candidates[i].confirmed_by_actor_id
                  = r.verification.candidates[i].confirmed_by_actor_id
      /\ Pending(rep.candidates[fact], [actor |-> a, action |-> action])
      /\ rep.candidates[fact].confirmed_by_actor_id = a
  <2>1. PICK input \in Inputs : input = r.input
    BY <1>3
  <2>2. PICK old : old = r.verification
    OBVIOUS
  <2>3. /\ ReportSound(old, input) /\ fact \in DOMAIN old.candidates
        /\ AllBacked(old.candidates, intake_confirmations)
    BY <1>1, <1>2, <1>3, <2>1, <2>2
  <2>4. rep = reverify(confirm_fact(old, fact, action, new_value, a))
    BY <1>a, <2>2
  <2>5. Decided(rep, old, input, fact, intake_confirmations, [actor |-> a, action |-> action])
    BY <1>4, <2>3, <2>4, ReverifyIsSound
  <2> QED
    BY <2>1, <2>2, <2>5 DEF Decided
<1>6. rep \in Report /\ target_status(rep) \in {"READY", "NEEDS_CONFIRMATION"}
      /\ (target_status(rep) = "READY" => rep.ready)
  BY <1>5 DEF ReportSound, target_status
<1>7. key_of = <<a, <<"confirm", fact>>, key>> /\ key_of \in RequestKeys
  <2>1. fact \in Nat
    BY <1>5, <1>6 DEF Report
  <2> QED
    BY <1>b, <1>k, <2>1 DEF KeyOf, RequestKeys
<1>8. /\ record \in Record /\ record.input = r.input /\ record.status = target_status(rep)
      /\ record.verification = rep /\ record.events = Append(r.events, key_of)
  <2>1. /\ r \in Record /\ rep \in Report /\ key_of \in RequestKeys
        /\ target_status(rep) \in {"NEEDS_CONFIRMATION", "READY", "COMPILED"}
    BY <1>3, <1>6, <1>7
  <2> QED
    BY <1>c, <2>1, NextRecord
<1>9. AllDecided(rep.candidates, record.events)
  <2>1. PICK events \in Seq(RequestKeys) : events = r.events
    BY <1>3
  <2>2. key_of \in RequestKeys /\ key_of[1] = a /\ key_of[2] = <<"confirm", fact>>
    BY <1>7
  <2>3. /\ LastDecided(key_of[1], fact, Append(events, key_of))
        /\ \A f, who : f # fact /\ LastDecided(who, f, events)
                           => LastDecided(who, f, Append(events, key_of))
    BY <2>2, ConfirmDecides
  <2>4. ASSUME NEW f \in DOMAIN rep.candidates
        PROVE  LastDecided(rep.candidates[f].confirmed_by_actor_id, f, record.events)
    <3>1. CASE f = fact
      BY <1>5, <1>8, <2>1, <2>2, <2>3, <3>1
    <3>2. CASE f # fact
      <4>1. LastDecided(rep.candidates[f].confirmed_by_actor_id, f, events)
        BY <1>3, <1>5, <2>1, <3>2 DEF AllDecided
      <4> QED
        BY <1>8, <2>1, <2>3, <3>2, <4>1
    <3> QED
      BY <3>1, <3>2
  <2> QED
    BY <2>4 DEF AllDecided
<1>10. Len(record.events) = Len(r.events) + 1
  BY <1>3, <1>7, <1>8
<1>11. RecordSound(record)
  <2>1. Len(record.events) >= 2
    BY <1>3, <1>10
  <2>2. record.status \in {"READY", "COMPILED"} => record.verification.ready
    BY <1>6, <1>8
  <2>3. /\ ReportSound(record.verification, record.input)
        /\ AllDecided(record.verification.candidates, record.events)
    BY <1>5, <1>8, <1>9
  <2> QED
    BY <1>8, <2>1, <2>2, <2>3, Zenon DEF RecordSound
<1>12. /\ q.pc = "save" /\ q.request = request /\ q.record = record /\ q.appended = 1
       /\ request.actor = a /\ request.operation = <<"confirm", fact>> /\ request.action = action
  BY <1>b, <1>d
<1>13. Appends(q, LastSequence)
  <2>1. Len(q.record.events) <= LastSequence + 1 /\ Len(q.record.events) >= 3
    BY <1>2, <1>3, <1>10, <1>12
  <2> QED
    BY <1>2, <1>12, <2>1, Zenon DEF Appends
<1>14. Pending(rep.candidates[fact], request)
  BY <1>5, <1>12 DEF Pending
<1>15. Confirming(q, intake_confirmations, LastSequence)
  <2>1. q.record.verification.candidates = rep.candidates /\ q.record.status # "COMPILED"
    BY <1>6, <1>8, <1>12
  <2>2. q.request.actor \in Actors /\ KindOf[q.request.actor] = "HUMAN"
    BY <1>1, <1>12
  <2> QED
    BY <1>5, <1>12, <1>13, <1>14, <2>1, <2>2, Zenon DEF Confirming
<1>16. CallSound(q, intake_confirmations, LastSequence, decision # None)
  BY <1>11, <1>12, <1>15 DEF CallSound
<1>17. CallHistory(q, intake_idempotency, intake_audit_events)
  <2>1. q.record.events = Append(r.events, key_of) /\ KeyOf(q.request) = key_of
    BY <1>8, <1>12, <1>k
  <2> QED
    BY <1>2, <1>3, <1>7, <1>12, <2>1, NextHistory
<1> QED
  <2>1. /\ calls' = [calls EXCEPT ![c] = q]
        /\ UNCHANGED <<intake_record, intake_confirmations, intake_audit_events,
                       intake_idempotency, decision>>
    BY <1>1, <1>d DEF Proceed
  <2> QED
    BY <1>16, <1>17, <2>1, CallChanges


\* The record that a compilation computes from the one it read.
CompiledOf(r, key) ==
    [r EXCEPT !.status = "COMPILED", !.compiled_decision_id = TRUE, !.events = Append(@, key)]

\* The record that compilation makes of the copy.
LEMMA CompiledRecord ==
    ASSUME NEW r \in Record, NEW key \in RequestKeys, NEW record, record = CompiledOf(r, key)
    PROVE  /\ record \in Record /\ record.input = r.input
           /\ record.verification = r.verification /\ record.events = Append(r.events, key)
<1>1. PICK e : e = Append(r.events, key)
  OBVIOUS
<1>2. record = [r EXCEPT !.status = "COMPILED", !.compiled_decision_id = TRUE, !.events = e]
  BY <1>1, Zenon DEF CompiledOf
<1>3. e \in Seq(RequestKeys)
  BY <1>1 DEF Record
<1>4. record = [input |-> r.input, status |-> "COMPILED", verification |-> r.verification,
                events |-> e, compiled_decision_id |-> TRUE]
  BY <1>2 DEF Record
<1>5. /\ record \in Record /\ record.input = r.input
      /\ record.verification = r.verification /\ record.events = e
  BY <1>3, <1>4 DEF Record
<1> QED
  BY <1>1, <1>5, Zenon

\* The compilation of a READY copy into a decision.
LEMMA CompileKeeps ==
    ASSUME IInv, NEW c \in Calls, NEW a \in Actors, NEW key \in Keys, compile_intake(c, a, key)
    PROVE  IInv'
<1> PICK r : r = intake_record
    OBVIOUS
<1>a. PICK request : request = [actor |-> a, operation |-> <<"compile">>, key |-> key]
  OBVIOUS
<1>k. PICK key_of : key_of = KeyOf(request)
  OBVIOUS
<1>b. PICK record : record = CompiledOf(r, key_of)
  OBVIOUS
<1>1. CASE _finish(request)
  BY <1>1, NothingChanges DEF _finish
<1>2. CASE /\ r # None /\ r.status = "READY"
           /\ Proceed(c, "lookup", request, record, 1)
  <2>1. PICK q : q = [pc |-> "lookup", request |-> request, record |-> record, appended |-> 1]
    OBVIOUS
  <2>2. /\ RecordSound(r)
        /\ AllBacked(r.verification.candidates, intake_confirmations)
        /\ LastSequence >= 2 /\ Len(r.events) <= LastSequence
        /\ LastSequence \in Nat
        /\ History(r.events, Len(r.events), intake_idempotency, intake_audit_events)
    BY <1>2 DEF IInv, RecordInv, AuditInv, HistoryInv
  <2>3. /\ r \in Record /\ r.verification.ready
        /\ r.events \in Seq(RequestKeys) /\ Len(r.events) \in Nat /\ Len(r.events) >= 2
        /\ ReportSound(r.verification, r.input)
        /\ AllDecided(r.verification.candidates, r.events)
    BY <1>2, <2>2 DEF RecordSound, Record
  <2>4. key_of \in RequestKeys /\ key_of[2] = <<"compile">>
    BY <1>a, <1>k DEF KeyOf, RequestKeys
  <2>5. /\ record \in Record /\ record.input = r.input
        /\ record.verification = r.verification /\ record.events = Append(r.events, key_of)
    BY <1>b, <2>3, <2>4, CompiledRecord
  <2>6. Len(record.events) = Len(r.events) + 1
    BY <2>3, <2>4, <2>5
  <2>7. RecordSound(record)
    <3>1. AllDecided(r.verification.candidates, Append(r.events, key_of))
      BY <2>3, <2>4, CompileDecides
    <3>2. Len(record.events) >= 2
      BY <2>3, <2>6
    <3>3. /\ ReportSound(record.verification, record.input) /\ record.verification.ready
          /\ AllDecided(record.verification.candidates, record.events)
      BY <2>3, <2>5, <3>1
    <3> QED
      BY <2>5, <3>2, <3>3, Zenon DEF RecordSound
  <2>8. /\ q.pc = "lookup" /\ q.request = request /\ q.request.operation = <<"compile">>
        /\ q.record = record /\ q.appended = 1
    BY <1>a, <2>1
  <2>9. Appends(q, LastSequence)
    <3>1. Len(q.record.events) <= LastSequence + 1 /\ Len(q.record.events) >= 3
      BY <2>2, <2>3, <2>6, <2>8
    <3> QED
      BY <2>2, <2>8, <3>1, Zenon DEF Appends
  <2>10. Compiling(q, intake_confirmations, LastSequence, decision # None)
    BY <2>2, <2>3, <2>5, <2>8, <2>9 DEF Compiling
  <2>11. CallSound(q, intake_confirmations, LastSequence, decision # None)
    BY <2>7, <2>8, <2>10 DEF CallSound
  <2>12. CallHistory(q, intake_idempotency, intake_audit_events)
    <3>1. q.record.events = Append(r.events, key_of) /\ KeyOf(q.request) = key_of
      BY <2>5, <2>8, <1>k
    <3> QED
      BY <2>2, <2>3, <2>4, <2>8, <3>1, NextHistory
  <2>13. /\ calls' = [calls EXCEPT ![c] = q]
         /\ UNCHANGED <<intake_record, intake_confirmations, intake_audit_events,
                        intake_idempotency, decision>>
    BY <1>2, <2>1 DEF Proceed
  <2> QED
    BY <2>11, <2>12, <2>13, CallChanges
<1> QED
  BY <1>1, <1>2, <1>a, <1>k, <1>b DEF compile_intake, CompiledOf

\* The compilation looks for the decision.
LEMMA LookupKeeps ==
    ASSUME IInv, NEW c \in Calls, get_decision(c)
    PROVE  IInv'
<1> PICK q : q = calls[c]
    OBVIOUS
<1> PICK pc : pc = IF decision = None THEN "create" ELSE "save"
    OBVIOUS
<1>a. PICK p : p = [q EXCEPT !.pc = pc]
  OBVIOUS
<1>1. /\ q.pc = "lookup"
      /\ CallSound(q, intake_confirmations, LastSequence, decision # None)
      /\ CallHistory(q, intake_idempotency, intake_audit_events)
      /\ DOMAIN calls = Calls
  BY DEF get_decision, IInv, CallsInv, HistoryInv
<1>2. /\ RecordSound(q.record)
      /\ Compiling(q, intake_confirmations, LastSequence, decision # None)
  BY <1>1 DEF CallSound, Creating, Confirming, Idle
<1>3. calls' = [calls EXCEPT ![c] = p]
  BY <1>1, <1>a DEF get_decision
<1>4. p.record = q.record /\ p.request = q.request /\ p.appended = q.appended
  BY <1>a
<1>5. p.pc = pc
  BY <1>1, <1>a
<1>6. Compiling(p, intake_confirmations, LastSequence, decision # None)
  BY <1>2, <1>4, <1>5 DEF Compiling, Appends
<1>7. CallSound(p, intake_confirmations, LastSequence, decision # None)
  BY <1>2, <1>4, <1>6 DEF CallSound
<1>8. CallHistory(p, intake_idempotency, intake_audit_events)
  BY <1>1, <1>4 DEF CallHistory, Idle
<1> QED
  BY <1>3, <1>7, <1>8, CallChanges DEF get_decision

\* A request ends with an error and saves nothing.
LEMMA FailKeeps ==
    ASSUME IInv, NEW c \in Calls, fail(c)
    PROVE  IInv'
<1>1. CallSound(Idle, intake_confirmations, LastSequence, decision # None)
  BY DEF CallSound
<1>2. CallHistory(Idle, intake_idempotency, intake_audit_events)
  BY DEF CallHistory
<1> QED
  BY <1>1, <1>2, CallChanges DEF fail, Return

\* Decisions other than the compiler's carry no promise.
LEMMA PostKeeps ==
    ASSUME IInv, NEW d \in Posted, post_decision(d)
    PROVE  IInv'
<1>1. decision' # None /\ decision' \in Decision /\ decision'.created_by = "client"
  BY ConfirmationsAssumption DEF post_decision
<1>2. DecisionInv'
  BY <1>1 DEF DecisionInv, DecisionSound
<1>3. AuditInv' /\ RowsInv' /\ RecordInv' /\ HistoryInv'
  BY <1>1 DEF post_decision, IInv, AuditInv, RowsInv, RecordInv, HistoryInv, LastSequence
<1>4. CallsInv'
  <2>1. LastSequence' = LastSequence /\ LastSequence \in Nat
    BY DEF post_decision, LastSequence, IInv, AuditInv
  <2>2. ASSUME NEW o \in Calls
        PROVE  CallSound(calls[o], intake_confirmations, LastSequence, decision' # None)
    <3>1. CallSound(calls[o], intake_confirmations, LastSequence, decision # None)
      BY DEF IInv, CallsInv
    <3>2. LastSequence <= LastSequence
      BY <2>1
    <3> QED
      BY <1>1, <2>1, <3>1, <3>2, CallGrows
  <2> QED
    BY <2>1, <2>2 DEF post_decision, IInv, CallsInv
<1> QED
  BY <1>2, <1>3, <1>4 DEF IInv


\* The decision is compiled from a copy that may be stale by now; what it rests
\* on is still on record.
LEMMA DecideKeeps ==
    ASSUME IInv, NEW c \in Calls, create_decision(c)
    PROVE  IInv'
<1> PICK q : q = calls[c]
    OBVIOUS
<1>a. PICK p : p = [q EXCEPT !.pc = "save"]
  OBVIOUS
<1>1. /\ q.pc = "create"
      /\ CallSound(q, intake_confirmations, LastSequence, decision # None)
      /\ CallHistory(q, intake_idempotency, intake_audit_events)
      /\ DOMAIN calls = Calls
      /\ LastSequence \in Nat
  BY DEF create_decision, IInv, CallsInv, AuditInv, HistoryInv
<1>2. /\ RecordSound(q.record)
      /\ Compiling(q, intake_confirmations, LastSequence, decision # None)
  BY <1>1 DEF CallSound, Creating, Confirming, Idle
<1>3. PICK rep : rep = q.record.verification
  OBVIOUS
<1>4. PICK input \in Inputs : input = q.record.input
  BY <1>2 DEF RecordSound, Record
<1>5. /\ ReportSound(rep, input) /\ rep.ready
      /\ AllBacked(rep.candidates, intake_confirmations)
      /\ IsFiniteSet(intake_confirmations)
      /\ \A row \in intake_confirmations : RowSound(row)
  BY <1>2, <1>3, <1>4 DEF RecordSound, Compiling, IInv, RowsInv
<1>6. DecisionSound(compile(rep, input), intake_confirmations)
  BY <1>5, CompiledIsSound
<1>7. /\ decision' = compile(rep, input)
      /\ calls' = [calls EXCEPT ![c] = p]
      /\ UNCHANGED <<intake_record, intake_confirmations, intake_audit_events, intake_idempotency>>
  BY <1>1, <1>3, <1>4, <1>a DEF create_decision
<1>8. decision' # None
  BY <1>6, <1>7, ConfirmationsAssumption DEF DecisionSound
<1>9. LastSequence' = LastSequence
  BY <1>7 DEF LastSequence
<1>10. AuditInv' /\ RowsInv'
  BY <1>7, <1>9 DEF IInv, AuditInv, RowsInv
<1>11. RecordInv'
  BY <1>7, <1>8, <1>9 DEF IInv, RecordInv
<1>12. DecisionInv'
  BY <1>6, <1>7 DEF DecisionInv
<1>13. CallsInv' /\ HistoryInv'
  <2>1. p.record = q.record /\ p.request = q.request /\ p.appended = q.appended
    BY <1>a
  <2>2. p.pc = "save"
    BY <1>1, <1>a
  <2>3. Compiling(p, intake_confirmations, LastSequence, decision' # None)
    BY <1>2, <1>8, <2>1, <2>2 DEF Compiling, Appends
  <2>4. CallSound(p, intake_confirmations, LastSequence, decision' # None)
    BY <1>2, <2>1, <2>3 DEF CallSound
  <2>5. ASSUME NEW o \in Calls
        PROVE  CallSound(calls'[o], intake_confirmations, LastSequence, decision' # None)
    <3>1. CASE o = c
      BY <1>1, <1>7, <2>4, <3>1
    <3>2. CASE o # c
      <4>1. PICK x : x = calls[o]
        OBVIOUS
      <4>2. CallSound(x, intake_confirmations, LastSequence, decision # None)
        BY <4>1 DEF IInv, CallsInv
      <4>3. CallSound(x, intake_confirmations, LastSequence, decision' # None)
        <5>1. LastSequence <= LastSequence
          BY <1>1
        <5> QED
          BY <1>1, <1>8, <4>2, <5>1, CallGrows
      <4> QED
        BY <1>1, <1>7, <3>2, <4>1, <4>3
    <3> QED
      BY <3>1, <3>2
  <2>6. ASSUME NEW o \in Calls
        PROVE  CallHistory(calls'[o], intake_idempotency, intake_audit_events)
    <3>1. CASE o = c
      <4>1. CallHistory(p, intake_idempotency, intake_audit_events)
        BY <1>1, <2>1 DEF CallHistory, Idle
      <4> QED
        BY <1>1, <1>7, <3>1, <4>1
    <3>2. CASE o # c
      BY <1>1, <1>7, <3>2 DEF IInv, HistoryInv
    <3> QED
      BY <3>1, <3>2
  <2>7. CallsInv'
    BY <1>1, <1>7, <1>9, <2>5 DEF CallsInv
  <2>8. HistoryInv'
    BY <1>7, <2>6 DEF IInv, HistoryInv
  <2> QED
    BY <2>7, <2>8
<1> QED
  BY <1>10, <1>11, <1>12, <1>13 DEF IInv


\* Where the new events of a list of l begin.
LEMMA Place ==
    ASSUME NEW n \in Nat, n # 1, NEW l \in Nat, NEW appended, NEW k, k = l - appended,
           \/ l = 2 /\ appended = 2
           \/ n >= 2 /\ l >= 3 /\ l <= n + 1 /\ appended = 1
    PROVE  l >= 2 /\ k \in Nat /\ k < l /\ (n = k \/ l <= n)
<1>1. CASE l = 2 /\ appended = 2
  BY <1>1
<1>2. CASE n >= 2 /\ l >= 3 /\ l <= n + 1 /\ appended = 1
  BY <1>2
<1> QED
  BY <1>1, <1>2

\* The events of any request that saves keep the table gapless, and the record
\* it saves has no more events than the table.
LEMMA SavedEvents ==
    ASSUME NEW q, NEW n \in Nat, n # 1, NEW audit, AuditTo(audit, n), RecordSound(q.record),
           Creating(q) \/ Appends(q, n),
           NEW k, k = Len(q.record.events) - q.appended
    PROVE  /\ k \in Nat /\ k <= Len(q.record.events)
           /\ \E m \in Nat : /\ AuditTo(audit \cup NewRows(q.record.events, k, n), m)
                             /\ n <= m /\ m >= 2 /\ Len(q.record.events) <= m
<1>1. PICK events \in Seq(RequestKeys) : events = q.record.events
  BY DEF RecordSound, Record
<1>2. PICK l \in Nat : l = Len(events)
  BY <1>1
<1>3. l >= 2 /\ k \in Nat /\ k < l /\ (n = k \/ l <= n)
  <2>1. l = Len(q.record.events) /\ k = l - q.appended
    BY <1>1, <1>2
  <2>2. PICK appended : appended = q.appended
    OBVIOUS
  <2>3. \/ l = 2 /\ appended = 2
        \/ n >= 2 /\ l >= 3 /\ l <= n + 1 /\ appended = 1
    BY <2>1, <2>2 DEF Creating, Appends
  <2>4. k = l - appended
    BY <2>1, <2>2
  <2> QED
    BY <2>3, <2>4, Place
<1>4. PICK m \in Nat : /\ AuditTo(audit \cup NewRows(events, k, n), m)
                       /\ n <= m /\ l <= m
  BY <1>2, <1>3, NextEvents
<1>5. m >= 2 /\ k <= l
  BY <1>3, <1>4
<1> QED
  BY <1>1, <1>2, <1>3, <1>4, <1>5

\* The row a confirmation saves backs what the confirmation decided.
LEMMA SavedRow ==
    ASSUME NEW q, NEW rows, NEW n, RecordSound(q.record), Confirming(q, rows, n),
           NEW row, row.fact = q.request.operation[2], row.action = q.request.action,
           row.actor = q.request.actor,
           row.value = q.record.verification.candidates[q.request.operation[2]].value
    PROVE  /\ AllBacked(q.record.verification.candidates, rows \cup {row})
           /\ RowSound(row)
<1> PICK cs : cs = q.record.verification.candidates
    OBVIOUS
<1>1. PICK f \in DOMAIN cs :
          /\ q.request.operation = <<"confirm", f>>
          /\ Pending(cs[f], q.request)
          /\ \A i \in DOMAIN cs \ {f} : Backed(cs[i], i, rows)
  BY DEF Confirming
<1>2. row.fact = f /\ row.value = cs[f].value
  BY <1>1
<1>3. Backed(cs[f], f, rows \cup {row})
  BY <1>1, <1>2 DEF Pending, Backed
<1>4. ASSUME NEW i \in DOMAIN cs PROVE Backed(cs[i], i, rows \cup {row})
  <2>1. CASE i = f
    BY <1>3, <2>1
  <2>2. CASE i # f
    BY <1>1, <2>2, BackedGrows
  <2> QED
    BY <2>1, <2>2
<1>5. cs[f].value \in Values
  <2>1. PICK x \in Candidate : x = cs[f]
    BY DEF RecordSound, ReportSound, CandidatesSound, CandidateSound
  <2> QED
    BY <2>1 DEF Candidate
<1> QED
  BY <1>2, <1>4, <1>5 DEF AllBacked, Confirming, RowSound

\* The transaction that saves record, rows and event.
LEMMA SaveKeeps ==
    ASSUME IInv, NEW c \in Calls, save_operation(c)
    PROVE  IInv'
<1> PICK q : q = calls[c]
    OBVIOUS
<1> PICK n : n = LastSequence
    OBVIOUS
<1> PICK rows : rows = intake_confirmations
    OBVIOUS
<1> PICK more : more = intake_confirmations'
    OBVIOUS
<1> PICK k : k = StoredEvents(c)
    OBVIOUS
<1> PICK key : key = RequestKey(c)
    OBVIOUS
<1> PICK used : used = intake_idempotency
    OBVIOUS
<1> PICK audit : audit = intake_audit_events
    OBVIOUS
<1>1. /\ q.pc = "save"
      /\ CallSound(q, rows, n, decision # None)
      /\ CallHistory(q, used, audit)
      /\ DOMAIN calls = Calls
      /\ n \in Nat /\ n # 1 /\ AuditTo(audit, n)
      /\ IsFiniteSet(rows)
      /\ \A row \in rows : RowSound(row)
      /\ key \notin used /\ \A x \in audit : x.event \in used
  BY DEF save_operation, IInv, CallsInv, AuditInv, RowsInv, HistoryInv
<1>2. /\ RecordSound(q.record)
      /\ Creating(q) \/ Confirming(q, rows, n) \/ Compiling(q, rows, n, decision # None)
      /\ q # Idle
  BY <1>1 DEF CallSound, Idle
<1>3. /\ intake_record' = q.record /\ calls' = [calls EXCEPT ![c] = Idle]
      /\ decision' = decision
      /\ intake_idempotency' = used \cup {key}
  BY DEF save_operation, Return
<1> PICK events : events = q.record.events
    OBVIOUS
<1> PICK news : news = NewRows(events, k, n)
    OBVIOUS
<1>a. k = Len(events) - q.appended /\ key = KeyOf(q.request)
  BY DEF StoredEvents, RequestKey
<1>b. intake_audit_events' = audit \cup news
  BY EventsOfCall DEF IInv, save_operation
<1>c. Creating(q) \/ Appends(q, n)
  BY <1>2 DEF Confirming, Compiling
<1>d. /\ k \in Nat /\ k <= Len(events)
      /\ \E m \in Nat : /\ AuditTo(audit \cup news, m)
                        /\ n <= m /\ m >= 2 /\ Len(events) <= m
  BY <1>1, <1>2, <1>a, <1>c, SavedEvents
<1>4. PICK m \in Nat : /\ AuditTo(audit \cup news, m)
                       /\ n <= m /\ m >= 2 /\ Len(events) <= m
  BY <1>d
<1>5. LastSequence' = m
  <2>1. LastOf(audit \cup news) = m
    BY <1>4, LastNumber
  <2>2. LastSequence' = LastOf(intake_audit_events')
    BY DEF LastSequence, LastOf
  <2> QED
    BY <1>b, <2>1, <2>2
<1>e. /\ History(events, Len(events), used \cup {key}, audit \cup news)
      /\ \A x \in news : x.event = key
  <2>1. Len(events) \in Nat
    BY <1>2 DEF RecordSound, Record
  <2>2. /\ History(events, k, used, audit)
        /\ \A j \in (k + 1)..Len(events) : events[j] = key
    BY <1>1, <1>2, <1>a DEF CallHistory
  <2> QED
    <3>1. /\ Len(events) \in Nat /\ k \in Nat /\ n \in Nat /\ k <= Len(events)
          /\ key \notin used /\ \A x \in audit : x.event \in used
          /\ \A j \in (k + 1)..Len(events) : events[j] = key
          /\ History(events, k, used, audit)
      BY <1>1, <1>d, <2>1, <2>2
    <3>2. Recorded(events, used, audit, NewRows(events, k, n), key)
      <4>1. Follows(events, k, used, audit, key)
        BY <3>1, Zenon DEF Follows
      <4> QED
        BY <4>1, HistorySaved, Zenon
    <3> QED
      BY <3>2, Zenon DEF Recorded
<1>6. /\ rows \subseteq more
      /\ IsFiniteSet(more)
      /\ \A row \in more : RowSound(row)
      /\ AllBacked(q.record.verification.candidates, more)
  <2>1. CASE Confirming(q, rows, n)
    <3>1. PICK row : row = [confirmation_id |-> RequestKey(c), fact |-> q.request.operation[2],
                            action |-> q.request.action, actor |-> q.request.actor,
                            value |-> q.record.verification.candidates[q.request.operation[2]].value]
      OBVIOUS
    <3>2. q.request.operation[1] = "confirm"
      BY <2>1 DEF Confirming
    <3>3. more = rows \cup {row}
      BY <3>1, <3>2 DEF save_operation
    <3>4. /\ row.fact = q.request.operation[2] /\ row.action = q.request.action
          /\ row.actor = q.request.actor
          /\ row.value = q.record.verification.candidates[q.request.operation[2]].value
      BY <3>1
    <3>5. /\ AllBacked(q.record.verification.candidates, more)
          /\ RowSound(row)
      <4>1. /\ AllBacked(q.record.verification.candidates, rows \cup {row})
            /\ RowSound(row)
        BY <1>2, <2>1, <3>4, SavedRow, Zenon
      <4> QED
        BY <3>3, <4>1
    <3>6. IsFiniteSet(more)
      BY <1>1, <3>3, FS_AddElement
    <3> QED
      BY <1>1, <3>3, <3>5, <3>6
  <2>2. CASE Creating(q) \/ Compiling(q, rows, n, decision # None)
    <3>1. q.request.operation[1] # "confirm"
      BY <2>2 DEF Creating, Compiling
    <3>2. more = rows
      BY <3>1 DEF save_operation
    <3>3. AllBacked(q.record.verification.candidates, rows)
      <4>1. {} \subseteq rows
        OBVIOUS
      <4> QED
        BY <2>2, <4>1, AllBackedGrows DEF Creating, Compiling
    <3> QED
      BY <1>1, <3>2, <3>3
  <2> QED
    BY <1>2, <2>1, <2>2
<1>7. AuditInv'
  <2>1. m # 1
    BY <1>4
  <2> QED
    BY <1>4, <1>5, <1>b, <2>1 DEF AuditInv
<1>8. RowsInv'
  BY <1>6 DEF RowsInv
<1>9. RecordInv'
  <2>1. q.record.status = "COMPILED" => decision # None
    BY <1>1, <1>2 DEF Creating, Confirming, Compiling
  <2> QED
    BY <1>2, <1>3, <1>4, <1>5, <1>6, <2>1 DEF RecordInv
<1>10. DecisionInv'
  <2> SUFFICES ASSUME decision # None PROVE DecisionInv'
    BY <1>3 DEF DecisionInv
  <2>1. PICK d : d = decision
    OBVIOUS
  <2>2. DecisionSound(d, rows)
    BY <2>1 DEF IInv, DecisionInv
  <2>3. ASSUME d.created_by = "system:intake-compiler"
        PROVE  policy # None /\ Grounded(d, more) /\ Approved(d, more)
    <3>1. policy # None /\ Grounded(d, rows) /\ Approved(d, rows)
      BY <2>2, <2>3 DEF DecisionSound
    <3>2. policy.required_approval_count \in Nat
      BY <3>1, IntakeAssumption
    <3> QED
      BY <1>6, <3>1, <3>2, GroundedGrows, ApprovedGrows
  <2>4. DecisionSound(d, more)
    BY <2>2, <2>3 DEF DecisionSound
  <2> QED
    BY <1>3, <2>1, <2>4 DEF DecisionInv
<1>11. CallsInv'
  <2>1. ASSUME NEW o \in Calls
        PROVE  CallSound(calls'[o], more, m, decision # None)
    <3>1. CASE o = c
      BY <1>1, <1>3, <3>1 DEF CallSound
    <3>2. CASE o # c
      <4>1. PICK x : x = calls[o]
        OBVIOUS
      <4>2. CallSound(x, rows, n, decision # None)
        BY <4>1 DEF IInv, CallsInv
      <4>3. CallSound(x, more, m, decision # None)
        BY <1>1, <1>4, <1>6, <4>2, CallGrows
      <4> QED
        BY <1>1, <1>3, <3>2, <4>1, <4>3
    <3> QED
      BY <3>1, <3>2
  <2> QED
    BY <1>1, <1>3, <1>5, <2>1 DEF CallsInv
<1>12. HistoryInv'
  <2>1. ASSUME NEW o \in Calls
        PROVE  CallHistory(calls'[o], used \cup {key}, audit \cup news)
    <3>1. CASE o = c
      BY <1>1, <1>3, <3>1 DEF CallHistory
    <3>2. CASE o # c
      <4>1. PICK x : x = calls[o]
        OBVIOUS
      <4>2. CallHistory(x, used, audit) /\ CallSound(x, rows, n, decision # None)
        BY <4>1 DEF IInv, CallsInv, HistoryInv
      <4>3. CASE x = Idle
        BY <1>1, <1>3, <3>2, <4>1, <4>3 DEF CallHistory
      <4>4. CASE x # Idle
        <5>1. PICK j : j = Len(x.record.events) - x.appended
          OBVIOUS
        <5>2. j \in Nat
          BY <4>2, <4>4, <5>1 DEF CallSound, RecordSound, Record, Creating, Confirming, Compiling,
                                  Appends
        <5>3. History(x.record.events, j, used, audit)
          BY <4>2, <4>4, <5>1 DEF CallHistory
        <5>4. History(x.record.events, j, used \cup {key}, audit \cup news)
          <6>1. used \subseteq used \cup {key} /\ \A y \in news : y.event \notin used
            BY <1>1, <1>e
          <6> QED
            BY <5>2, <5>3, <6>1, HistoryGrows
        <5>5. CallHistory(x, used \cup {key}, audit \cup news)
          BY <4>2, <4>4, <5>1, <5>4 DEF CallHistory
        <5> QED
          BY <1>1, <1>3, <3>2, <4>1, <5>5
      <4> QED
        BY <4>3, <4>4
    <3> QED
      BY <3>1, <3>2
  <2>2. \A row \in audit \cup news : row.event \in used \cup {key}
    BY <1>1, <1>e
  <2> QED
    BY <1>3, <1>b, <1>e, <2>1, <2>2 DEF HistoryInv
<1> QED
  BY <1>7, <1>8, <1>9, <1>10, <1>11, <1>12 DEF IInv


--------------------------------------------------------------------------------
(* The theorems *)

\* Whatever the requests, and however stale the copies they save, the record,
\* the rows, the audit table and the decision keep the invariant.
THEOREM Invariance == Spec => []IInv
<1>1. IInv /\ [Next]_vars => IInv'
  <2> SUFFICES ASSUME IInv, [Next]_vars PROVE IInv'
    OBVIOUS
  <2>1. CASE UNCHANGED vars
    BY <2>1, NothingChanges DEF vars
  <2>2. ASSUME NEW c \in Calls, NEW a \in Actors, NEW k \in Keys, NEW i \in Inputs,
               create_intake(c, a, i, k)
        PROVE  IInv'
    BY <2>2, CreateKeeps
  <2>3. ASSUME NEW c \in Calls, NEW a \in Actors, NEW k \in Keys, NEW x \in Confirmations,
               add_confirmation(c, a, x[1], x[2], x[3], k)
        PROVE  IInv'
    BY <2>3, ConfirmKeeps
  <2>4. ASSUME NEW c \in Calls, NEW a \in Actors, NEW k \in Keys, compile_intake(c, a, k)
        PROVE  IInv'
    BY <2>4, CompileKeeps
  <2>5. ASSUME NEW c \in Calls,
               get_decision(c) \/ create_decision(c) \/ save_operation(c) \/ fail(c)
        PROVE  IInv'
    BY <2>5, LookupKeeps, DecideKeeps, SaveKeeps, FailKeeps
  <2>6. ASSUME NEW d \in Posted, post_decision(d)
        PROVE  IInv'
    BY <2>6, PostKeeps
  <2> QED
    BY <2>1, <2>2, <2>3, <2>4, <2>5, <2>6 DEF Next
<1> QED
  BY <1>1, InitKeeps, PTL DEF Spec

\* The place k that is d > 0 before the place m, and the one after it.
LEMMA Before ==
    ASSUME NEW n \in Nat, NEW m \in 1..n, NEW d \in Nat, d < m, d # 0
    PROVE  \E k \in Nat : /\ k = m - d /\ k + 1 = m - (d - 1)
                          /\ d - 1 \in Nat /\ d - 1 < m
                          /\ k >= 1 /\ k + 1 <= m /\ k + 1 \in 1..n
<1>1. m - d \in Nat /\ m - d >= 1 /\ d - 1 \in Nat
  OBVIOUS
<1> QED
  BY <1>1

\* If an event of the table is the record's and the links up to it hold, then all
\* events up to it are: else take the last that is not.  The next one is the
\* record's, so it is linked to the predecessor it has in the record.
LEMMA LinksTellHistory ==
    ASSUME IInv, intake_record # None, NEW last \in intake_audit_events,
           last.number <= Len(intake_record.events),
           last.event = intake_record.events[last.number],
           Linked(last.number),
           NEW row \in intake_audit_events, row.number <= last.number
    PROVE  row.event = intake_record.events[row.number]
<1> PICK events : events = intake_record.events
    OBVIOUS
<1> PICK audit : audit = intake_audit_events
    OBVIOUS
<1> PICK n : n = LastSequence
    OBVIOUS
<1> PICK m : m = last.number
    OBVIOUS
<1>1. /\ n \in Nat /\ AuditTo(audit, n) /\ Len(events) \in Nat /\ Len(events) <= n
      /\ History(events, Len(events), intake_idempotency, audit)
  BY DEF IInv, AuditInv, RecordInv, HistoryInv, RecordSound, Record
<1>2. m \in 1..n /\ m <= Len(events)
  BY <1>1 DEF AuditTo
<1> DEFINE Told(k) == \A x \in audit : x.number = k => x.event = events[k]
<1> DEFINE Wrong == {d \in Nat : d < m /\ ~Told(m - d)}
<1>3. Told(m)
  BY <1>1 DEF AuditTo
<1>4. Wrong = {}
  <2> SUFFICES ASSUME Wrong # {} PROVE FALSE
    OBVIOUS
  <2>1. PICK d \in Wrong : \A e \in Wrong : d <= e
    <3>1. Wrong \subseteq Nat
      OBVIOUS
    <3> HIDE DEF Wrong
    <3> QED
      BY <3>1, First
  <2>2. d \in Nat /\ d < m /\ ~Told(m - d) /\ d # 0
    BY <1>2, <1>3
  <2>3. PICK k \in Nat : k = m - d /\ k + 1 = m - (d - 1) /\ d - 1 \in Nat /\ d - 1 < m
                        /\ k >= 1 /\ k + 1 <= m /\ k + 1 \in 1..n
    <3>1. n \in Nat /\ m \in 1..n /\ d \in Nat /\ d < m /\ d # 0
      BY <1>1, <1>2, <2>2
    <3> HIDE DEF Told, Wrong
    <3> QED
      BY <3>1, Before
  <2>4. Told(k + 1)
    <3>1. ~(d - 1 \in Wrong)
      BY <2>1, <2>2
    <3> QED
      BY <2>3, <3>1
  <2>5. PICK y \in audit : y.number = k /\ y.event # events[k]
    BY <2>2, <2>3
  <2>6. PICK x \in audit : x.number = k + 1
    BY <1>1, <2>3 DEF AuditTo
  <2>7. x.event = events[k + 1]
    BY <2>4, <2>6
  <2>8. x.previous = events[k]
    <3>1. x.number \in 2..Len(events) /\ x.number - 1 = k
      BY <1>1, <1>2, <2>3, <2>6
    <3> QED
      BY <1>1, <2>6, <2>7, <3>1 DEF History
  <2>9. x.previous = y.event
    BY <2>3, <2>5, <2>6 DEF Linked
  <2> QED
    BY <2>5, <2>8, <2>9
<1>5. PICK j \in Nat : j = m - row.number /\ j < m /\ m - j = row.number
  <2>1. row.number \in 1..n
    BY <1>1 DEF AuditTo
  <2> QED
    BY <1>2, <2>1
<1>6. Told(m - j)
  BY <1>4, <1>5
<1> QED
  BY <1>5, <1>6

\* TablesAgree, for every set of inputs, calls and confirmations: the tables are
\* of their types, a compiled intake has a decision, the audit table is one
\* gapless sequence although the numbers come from stale records, the record
\* agrees with its own events, and where the table has another event than the
\* record a link is broken.
THEOREM TablesStayConsistent == Spec => []TablesAgree
<1>1. IInv => TablesAgree
  <2> SUFFICES ASSUME IInv PROVE TablesAgree
    OBVIOUS
  <2>1. CompiledHasDecision
    BY DEF IInv, RecordInv, CompiledHasDecision
  <2>2. PICK n \in Nat : n = LastSequence /\ AuditTo(intake_audit_events, n)
    BY DEF IInv, AuditInv
  <2>3. AuditGapless
    <3>1. {row.sequence : row \in intake_audit_events} = 1..n
      BY <2>2 DEF AuditTo
    <3>2. \A x, y \in intake_audit_events :
              x.number = x.sequence /\ (x.number = y.number => x = y)
      BY <2>2 DEF AuditTo
    <3>3. intake_record # None => Len(intake_record.events) <= LastSequence
      BY DEF IInv, RecordInv
    <3> QED
      BY <2>2, <3>1, <3>2, <3>3 DEF AuditGapless
  <2>4. TypeOK
    <3>1. intake_record = None \/ IsRecord(intake_record)
      BY DEF IInv, RecordInv, RecordSound, ReportSound, CandidatesSound, IsRecord
    <3>2. \A row \in intake_confirmations : row.actor \in Actors /\ row.value \in Values
      BY DEF IInv, RowsInv, RowSound
    <3>3. \A row \in intake_audit_events :
              /\ row.number \in Nat /\ row.sequence \in Nat
              /\ row.event \in RequestKeys /\ row.previous \in RequestKeys \cup {None}
      BY <2>2 DEF AuditTo
    <3>4. decision = None \/ decision \in Decision
      BY DEF IInv, DecisionInv, DecisionSound
    <3>5. \A c \in Calls : calls[c].pc \in {"idle", "lookup", "create", "save"}
      BY DEF IInv, CallsInv, CallSound, Idle, Creating, Confirming, Compiling
    <3> QED
      BY <3>1, <3>2, <3>3, <3>4, <3>5 DEF TypeOK
  <2>5. EventsTookEffect
    <3>1. ASSUME intake_record # None, NEW k \in DOMAIN intake_record.events
          PROVE  intake_record.events[k] \in intake_idempotency
      <4>1. k \in 1..Len(intake_record.events)
        BY <3>1 DEF IInv, RecordInv, RecordSound, Record
      <4> QED
        BY <3>1, <4>1 DEF IInv, HistoryInv, History
    <3> QED
      BY <3>1 DEF EventsTookEffect, IInv, HistoryInv
  <2>6. AuditTellsHistory
    BY LinksTellHistory DEF AuditTellsHistory
  <2>7. RecordTellsHistory
    BY DEF IInv, RecordInv, RecordSound, AllDecided, LastDecided, RecordTellsHistory
  <2> QED
    BY <2>1, <2>3, <2>4, <2>5, <2>6, <2>7 DEF TablesAgree
<1> QED
  BY <1>1, Invariance, PTL

\* ReadyIsVerified, for every input: a record that is READY or COMPILED has
\* every required fact verified or confirmed, no conflict, no gap and no open
\* governance claim, whichever copy was saved last.
THEOREM ReadyRestsOnFacts == Spec => []ReadyIsVerified
<1>1. IInv => ReadyIsVerified
  <2> SUFFICES ASSUME IInv, intake_record # None,
                      intake_record.status \in {"READY", "COMPILED"}
               PROVE  LET candidates == intake_record.verification.candidates
                      IN  /\ Required \subseteq Present(candidates)
                          /\ _conflicts(intake_record.input) = {}
                          /\ intake_record.verification.unresolved_requirement_refs = {}
                          /\ \A i \in DOMAIN candidates :
                                candidates[i].type \in Governance
                                    => candidates[i].verification_status # "UNRESOLVED"
    BY DEF ReadyIsVerified, Governance
  <2>1. PICK rep : rep = intake_record.verification
    OBVIOUS
  <2>2. ReportSound(rep, intake_record.input) /\ rep.ready
    BY <2>1 DEF IInv, RecordInv, RecordSound
  <2>3. rep.reason_codes = {} /\ Settled(rep) /\ _conflicts(intake_record.input) = {}
    BY <2>2 DEF ReportSound
  <2> QED
    BY <2>1, <2>3 DEF Settled
<1> QED
  BY <1>1, Invariance, PTL

\* DecisionIsGrounded, for every input and confirmation: every claim of a
\* compiled decision is about a fact of its source, with the value found for an
\* objective fact or one that a human confirmed, with the confirmation on
\* record; embedded governance claims and unknown policies stay out.
THEOREM ClaimsAreGrounded == Spec => []DecisionIsGrounded
<1>1. IInv => DecisionIsGrounded
  BY DEF IInv, DecisionInv, DecisionSound, Grounded, Compiled, DecisionIsGrounded
<1> QED
  BY <1>1, Invariance, PTL

\* ApprovalsAreReal, for every input and number of approvals: a compiled decision
\* on an amount that needs approvals, without the missing-approval constraint,
\* has that many approvers of its approval claims on record.
THEOREM ApprovalsAreOnRecord == Spec => []ApprovalsAreReal
<1>1. IInv => ApprovalsAreReal
  BY DEF IInv, DecisionInv, DecisionSound, Approved, NeedsApproval, Compiled, ApprovalsAreReal
<1> QED
  BY <1>1, Invariance, PTL
=============================================================================
