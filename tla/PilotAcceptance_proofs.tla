----------------------- MODULE PilotAcceptance_proofs -----------------------
(***************************************************************************)
(* Proofs about the acceptance of a pilot, for any kinds of evidence,      *)
(* deployments, identities, age limit and number of observations.          *)
(***************************************************************************)
EXTENDS PilotAcceptance, TLAPS

\* What the gate saw of a subject at a time: every required kind observed,
\* recently, successfully and for its commit.
EvidencedAt(s, t) ==
    \A kind \in REQUIRED_EVIDENCE : \E a \in observed :
        /\ a.kind = kind /\ a.subject = s
        /\ a.verified /\ a.source \in {"MEASURED", "REPOSITORY"} /\ a.payload_passes
        /\ kind \in CommitKinds => a.payload_commit = CommitOf[s]
        /\ a.observed_at \in t - max_age .. t

\* A verdict that lets the bundle be reviewed rests on evidence that was
\* observed, and stays so although artifacts are lost afterwards.
VerdictIsEvidenced ==
    \A r \in results :
        r.status = "PILOT_REVIEW_REQUIRED" => EvidencedAt(r.subject, r.at)

IInv == TypeOK /\ VerdictIsEvidenced /\ AcceptedIsEvidenced

\* Observations are never forgotten, so what was evidenced stays evidenced.
LEMMA EvidenceStays ==
    ASSUME observed \subseteq observed', NEW s, NEW t, EvidencedAt(s, t)
    PROVE  EvidencedAt(s, t)'
BY DEF EvidencedAt

\* No reason means that every required kind is there and every item is sound.
LEMMA NoReason ==
    ASSUME reasons = {}
    PROVE  /\ {i.kind : i \in bundle.evidence} = REQUIRED_EVIDENCE
           /\ \A i \in bundle.evidence :
                /\ i.verified /\ i.source # "SELF_DECLARED"
                /\ i.subject = bundle.subject
                /\ _artifact_matches(i)
                /\ ~(now - i.observed_at > max_age) /\ ~(i.observed_at > now)
<1> USE DEF reasons
<1>1. "MISSING_EVIDENCE" \notin reasons /\ "UNVERIFIED_EVIDENCE" \notin reasons
      /\ "SELF_DECLARED_EVIDENCE" \notin reasons /\ "EVIDENCE_BINDING_MISMATCH" \notin reasons
      /\ "EVIDENCE_ARTIFACT_UNRESOLVED" \notin reasons /\ "STALE_REQUIRED_EVIDENCE" \notin reasons
      /\ "FUTURE_REQUIRED_EVIDENCE" \notin reasons
  OBVIOUS
<1>2. {i.kind : i \in bundle.evidence} = REQUIRED_EVIDENCE
  BY <1>1
<1>3. ASSUME NEW i \in bundle.evidence
      PROVE  /\ i.verified /\ i.source # "SELF_DECLARED"
             /\ i.subject = bundle.subject
             /\ _artifact_matches(i)
             /\ ~(now - i.observed_at > max_age) /\ ~(i.observed_at > now)
  <2>1. i.verified
    BY <1>1
  <2>2. i.source # "SELF_DECLARED"
    BY <1>1
  <2>3. i.subject = bundle.subject
    BY <1>1
  <2>4. _artifact_matches(i)
    BY <1>1
  <2>5. ~(now - i.observed_at > max_age)
    BY <1>1
  <2>6. ~(i.observed_at > now)
    BY <1>1
  <2> QED
    BY <2>1, <2>2, <2>3, <2>4, <2>5, <2>6
<1> QED
  BY <1>2, <1>3

\* The gate lets a bundle through only if its subject is evidenced now.
LEMMA GateIsSound ==
    ASSUME TypeOK, bundle # NoBundle, reasons = {}
    PROVE  EvidencedAt(bundle.subject, now)
<1> SUFFICES ASSUME NEW kind \in REQUIRED_EVIDENCE
             PROVE  \E a \in observed :
                      /\ a.kind = kind /\ a.subject = bundle.subject
                      /\ a.verified /\ a.source \in {"MEASURED", "REPOSITORY"} /\ a.payload_passes
                      /\ kind \in CommitKinds => a.payload_commit = CommitOf[bundle.subject]
                      /\ a.observed_at \in now - max_age .. now
  BY DEF EvidencedAt
<1>1. PICK i \in bundle.evidence : i.kind = kind
  BY NoReason
<1>2. /\ i.verified /\ i.source # "SELF_DECLARED" /\ i.subject = bundle.subject
      /\ _artifact_matches(i)
      /\ ~(now - i.observed_at > max_age) /\ ~(i.observed_at > now)
  BY NoReason
<1>3. /\ i.digest \in store /\ i.digest.kind = kind
      /\ i.digest.subject = bundle.subject
      /\ i.digest.verified = i.verified
      /\ i.digest.observed_at = i.observed_at
      /\ i.digest.source = i.source
      /\ i.digest.payload_passes
      /\ kind \in CommitKinds => i.digest.payload_commit = CommitOf[bundle.subject]
  BY <1>1, <1>2 DEF _artifact_matches, _payload_matches
<1>4. i \in EvidenceItem /\ i.digest \in observed
  BY <1>1, <1>3 DEF TypeOK
<1>5. i.source \in {"MEASURED", "REPOSITORY"} /\ i.observed_at \in 0..MaxTime
  BY <1>2, <1>4 DEF EvidenceItem, Sources
<1>6. i.observed_at \in now - max_age .. now
  BY <1>2, <1>5, AcceptanceAssumption DEF TypeOK
<1> QED
  BY <1>2, <1>3, <1>4, <1>5, <1>6

----------------------------------------------------------------------------
(* The induction, action by action.                                        *)

\* Nothing is observed, assembled or accepted at first.
LEMMA InvariantInit == Init => IInv
BY AcceptanceAssumption
   DEF Init, IInv, TypeOK, VerdictIsEvidenced, AcceptedIsEvidenced

\* A step that leaves the ledger alone and forgets no observation leaves what
\* was accepted as it is.
LEMMA AcceptedStays ==
    ASSUME AcceptedIsEvidenced, ledger' = ledger,
           observed \subseteq observed'
    PROVE  AcceptedIsEvidenced'
BY DEF AcceptedIsEvidenced

\* A collector observes a deployment.
LEMMA ObserveKeeps ==
    ASSUME IInv, NEW kind \in REQUIRED_EVIDENCE, NEW s \in Subjects, NEW found \in Findings,
           observe(kind, s, found)
    PROVE  IInv'
<1> DEFINE a == [kind |-> kind, subject |-> s, verified |-> found.verified,
                 observed_at |-> now, source |-> found.source,
                 payload_passes |-> found.passes, payload_commit |-> found.commit]
<1>1. a \in Artifact
  BY FindingsAssumption DEF Artifact, IInv, TypeOK
<1>2. /\ observed' = observed \cup {a} /\ store' = store \cup {a}
      /\ UNCHANGED <<now, bundle, results, ledger>>
  BY DEF observe
<1> HIDE DEF a
<1>3. TypeOK'
  BY <1>1, <1>2 DEF IInv, TypeOK
<1>4. VerdictIsEvidenced'
  BY <1>2, EvidenceStays DEF IInv, VerdictIsEvidenced
<1>5. AcceptedIsEvidenced'
  BY <1>2, AcceptedStays DEF IInv
<1> QED
  BY <1>3, <1>4, <1>5 DEF IInv

\* A bundle is assembled from artifacts.
LEMMA AssembleKeeps ==
    ASSUME IInv, NEW s \in Subjects, NEW creator \in Creators, NEW items \in Bundles(s),
           assemble(s, creator, items)
    PROVE  IInv'
<1> DEFINE b == [subject |-> s, creator |-> creator, created_at |-> now, evidence |-> items]
<1>1. /\ bundle' = b /\ UNCHANGED <<now, observed, store, results, ledger>>
  BY DEF assemble
<1>2. items \subseteq EvidenceItem
  <2>1. \A a \in observed : Labelled(a) \in EvidenceItem /\ Relabelled(a, s) \in EvidenceItem
    BY DEF IInv, TypeOK, Labelled, Relabelled, EvidenceItem, Artifact, Sources
  <2> QED
    BY <2>1 DEF Bundles
<1>3. TypeOK'
  BY <1>1, <1>2, AcceptanceAssumption DEF IInv, TypeOK
<1>4. VerdictIsEvidenced'
  BY <1>1, EvidenceStays DEF IInv, VerdictIsEvidenced
<1>5. AcceptedIsEvidenced'
  BY <1>1, AcceptedStays DEF IInv
<1> QED
  BY <1>3, <1>4, <1>5 DEF IInv

\* An artifact is lost: observations stay made.
LEMMA LoseKeeps ==
    ASSUME IInv, NEW a \in store, lose(a)
    PROVE  IInv'
<1>1. store' \subseteq store /\ UNCHANGED <<now, observed, bundle, results, ledger>>
  BY DEF lose
<1>2. TypeOK'
  BY <1>1 DEF IInv, TypeOK
<1>3. VerdictIsEvidenced'
  BY <1>1, EvidenceStays DEF IInv, VerdictIsEvidenced
<1>4. AcceptedIsEvidenced'
  BY <1>1, AcceptedStays DEF IInv
<1> QED
  BY <1>2, <1>3, <1>4 DEF IInv

\* The gate evaluates a bundle.
LEMMA EvaluateKeeps ==
    ASSUME IInv, evaluate
    PROVE  IInv'
<1> DEFINE r == verdict
<1>1. /\ bundle # NoBundle /\ results' = results \cup {r}
      /\ UNCHANGED <<now, observed, store, bundle, ledger>>
  BY DEF evaluate
<1>2. /\ r.at = now /\ r.subject = bundle.subject
      /\ r.status \in {"PILOT_REVIEW_REQUIRED", "BLOCKED"}
      /\ r.status = "PILOT_REVIEW_REQUIRED" => reasons = {}
  BY DEF verdict
<1> HIDE DEF r
<1>3. TypeOK'
  BY <1>1, <1>2, AcceptanceAssumption DEF IInv, TypeOK
<1>4. VerdictIsEvidenced'
  <2>1. r.status = "PILOT_REVIEW_REQUIRED" => EvidencedAt(r.subject, r.at)
    BY <1>1, <1>2, GateIsSound DEF IInv
  <2>2. \A q \in results \cup {r} :
          q.status = "PILOT_REVIEW_REQUIRED" => EvidencedAt(q.subject, q.at)
    BY <2>1 DEF IInv, VerdictIsEvidenced
  <2> QED
    BY <1>1, <2>2 DEF VerdictIsEvidenced, EvidencedAt
<1>5. AcceptedIsEvidenced'
  BY <1>1, AcceptedStays DEF IInv
<1> QED
  BY <1>3, <1>4, <1>5 DEF IInv

\* A reviewer accepts on an earlier verdict, whichever it is.
LEMMA AcceptKeeps ==
    ASSUME IInv, NEW r \in results, NEW who \in Reviewers, accept(r, who, "first")
    PROVE  IInv'
<1> DEFINE e == [id |-> event_id(who, "first"), who |-> who,
                 subject |-> bundle.subject, creator |-> bundle.creator,
                 evaluated |-> r.subject, evaluated_at |-> r.at]
<1>1. /\ r.status = "PILOT_REVIEW_REQUIRED" /\ ledger' = ledger \cup {e}
      /\ UNCHANGED <<now, observed, store, bundle, results>>
  BY DEF accept, append
<1>2. e.evaluated = r.subject /\ e.evaluated_at = r.at
  OBVIOUS
<1> HIDE DEF e
<1>3. TypeOK'
  BY <1>1, <1>2 DEF IInv, TypeOK
<1>4. VerdictIsEvidenced'
  BY <1>1, EvidenceStays DEF IInv, VerdictIsEvidenced
<1>5. AcceptedIsEvidenced'
  <2>1. EvidencedAt(e.evaluated, e.evaluated_at)
    BY <1>1, <1>2 DEF IInv, VerdictIsEvidenced
  <2>2. \A f \in ledger : EvidencedAt(f.evaluated, f.evaluated_at)
    BY DEF IInv, AcceptedIsEvidenced, EvidencedAt
  <2>3. \A f \in ledger' : EvidencedAt(f.evaluated, f.evaluated_at)
    BY <1>1, <2>1, <2>2
  <2> QED
    BY <1>1, <2>3 DEF AcceptedIsEvidenced, EvidencedAt
<1> QED
  BY <1>3, <1>4, <1>5 DEF IInv

\* Time passes.
LEMMA TickKeeps ==
    ASSUME IInv, Tick
    PROVE  IInv'
<1>1. /\ now < MaxTime /\ now' = now + 1
      /\ UNCHANGED <<observed, store, bundle, results, ledger>>
  BY DEF Tick
<1>2. TypeOK'
  BY <1>1, AcceptanceAssumption DEF IInv, TypeOK
<1>3. VerdictIsEvidenced'
  BY <1>1, EvidenceStays DEF IInv, VerdictIsEvidenced
<1>4. AcceptedIsEvidenced'
  BY <1>1, AcceptedStays DEF IInv
<1> QED
  BY <1>2, <1>3, <1>4 DEF IInv

\* Every step preserves the invariant.
LEMMA InvariantNext == IInv /\ [Next]_vars => IInv'
<1> SUFFICES ASSUME IInv, [Next]_vars PROVE IInv'
  OBVIOUS
<1>1. CASE UNCHANGED vars
  <2>1. UNCHANGED <<now, observed, store, bundle, results, ledger>>
    BY <1>1 DEF vars
  <2>2. TypeOK'
    BY <2>1 DEF IInv, TypeOK
  <2>3. VerdictIsEvidenced'
    BY <2>1, EvidenceStays DEF IInv, VerdictIsEvidenced
  <2>4. AcceptedIsEvidenced'
    BY <2>1, AcceptedStays DEF IInv
  <2> QED
    BY <2>2, <2>3, <2>4 DEF IInv
<1>2. CASE Next
  BY <1>2, ObserveKeeps, AssembleKeeps, LoseKeeps, EvaluateKeeps, AcceptKeeps, TickKeeps DEF Next
<1> QED
  BY <1>1, <1>2

----------------------------------------------------------------------------
\* The inductive invariant (types, what a favourable verdict of the gate rests
\* on, what was accepted) holds in every reachable state.
THEOREM Invariance == Spec => []IInv
BY InvariantInit, InvariantNext, PTL DEF Spec

\* Clock, store, bundle, verdicts and ledger keep their types.
THEOREM TypeCorrect == Spec => []TypeOK
<1>1. IInv => TypeOK
  BY DEF IInv
<1> QED
  BY <1>1, Invariance, PTL

\* Whatever a creator writes on the items of a bundle, and whatever is lost,
\* assembled or evaluated before the review, the verdict that an acceptance
\* rests on had current evidence, none of it self-declared, for every kind.
THEOREM AcceptanceIsEvidenced == Spec => []AcceptedIsEvidenced
<1>1. IInv => AcceptedIsEvidenced
  BY DEF IInv
<1> QED
  BY <1>1, Invariance, PTL
=============================================================================
