-------------------------- MODULE PilotAcceptance --------------------------
(***************************************************************************)
(* Deployment evidence and the acceptance of a pilot                       *)
(* (deployment/evidence.py, deployment/postgresql.py): collectors leave    *)
(* content-addressed artifacts in a protected store, a creator assembles   *)
(* them into a bundle, the technical gate evaluates the bundle, and a      *)
(* human reviewer accepts it later.  Time passes between any two of these  *)
(* steps, artifacts disappear, deployments follow each other, a creator    *)
(* may label an old artifact as evidence for a new deployment, and accept  *)
(* takes whatever verdict of the gate its caller hands over.               *)
(*                                                                         *)
(* The digest of an artifact is the artifact: SHA-256 is taken to be       *)
(* collision free.  A subject is what evidence is bound to, a deployment   *)
(* id with its tenant and commit; the typed payload contract of a kind is  *)
(* whether the payload meets it and the commit the payload itself names.   *)
(***************************************************************************)
EXTENDS Integers, FiniteSets

CONSTANTS
    REQUIRED_EVIDENCE, \* kinds of evidence
    Findings,          \* what an observation may find, see observe
    CommitKinds,       \* kinds whose payload names a commit of its own
    Subjects, TenantOf, CommitOf,
    Creators,
    Reviewers,         \* identities that may call accept
    IdentityOf,        \* reviewer -> [actor, human, reviewer, tenant]
    NoBundle,
    max_age,           \* of the gate, in ticks
    MaxTime,           \* bound: the clock
    MaxArtifacts,      \* bound: observations made
    MaxVerdicts        \* bound: different verdicts of the gate

ASSUME AcceptanceAssumption ==
    /\ CommitKinds \subseteq REQUIRED_EVIDENCE
    /\ max_age \in Nat /\ MaxTime \in Nat

VARIABLES
    now,
    observed,  \* history: every observation that was ever made
    store,     \* the artifacts that can be resolved
    bundle,    \* the bundle under review, or NoBundle
    results,   \* the verdicts the gate has given, see evaluate
    ledger     \* deployment_acceptance_events

vars == <<now, observed, store, bundle, results, ledger>>

Commits == {CommitOf[s] : s \in Subjects}

Sources == {"MEASURED", "REPOSITORY", "SELF_DECLARED"}

\* A collector reports a finding in these terms.
ASSUME FindingsAssumption ==
    Findings \subseteq [verified: BOOLEAN, source: Sources, passes: BOOLEAN, commit: Commits]

Artifact == [kind: REQUIRED_EVIDENCE, subject: Subjects, verified: BOOLEAN,
             observed_at: 0..MaxTime, source: Sources,
             payload_passes: BOOLEAN, payload_commit: Commits]

EvidenceItem == [kind: REQUIRED_EVIDENCE, subject: Subjects, verified: BOOLEAN,
                 observed_at: 0..MaxTime, source: Sources, digest: Artifact]

----------------------------------------------------------------------------
(* Collectors and the creator (outside the service).                       *)

\* A collector observes a subject and stores what it found: whether the
\* check succeeded, how it was made, whether the payload meets the contract
\* of its kind, and the commit a report is about.
observe(kind, s, found) ==
    LET a == [kind |-> kind, subject |-> s, verified |-> found.verified,
              observed_at |-> now, source |-> found.source,
              payload_passes |-> found.passes, payload_commit |-> found.commit]
    IN  /\ Cardinality(observed) < MaxArtifacts
        /\ observed' = observed \cup {a} /\ store' = store \cup {a}
        /\ UNCHANGED <<now, bundle, results, ledger>>

\* An item as its artifact says, and one that says what the creator likes.
Labelled(a) ==
    [kind |-> a.kind, subject |-> a.subject, verified |-> a.verified,
     observed_at |-> a.observed_at, source |-> a.source, digest |-> a]
Relabelled(a, s) ==
    [kind |-> a.kind, subject |-> s, verified |-> TRUE,
     observed_at |-> now, source |-> "MEASURED", digest |-> a]

\* DeploymentBundle: at most one item of a kind.
Bundles(s) ==
    {items \in SUBSET ({Labelled(a) : a \in observed}
                         \cup {Relabelled(a, s) : a \in observed}) :
        \A i, j \in items : i.kind = j.kind => i = j}

\* A bundle is written and loaded (load_deployment_bundle).
assemble(s, creator, items) ==
    /\ items \in Bundles(s)
    /\ bundle' = [subject |-> s, creator |-> creator, created_at |-> now,
                  evidence |-> items]
    /\ UNCHANGED <<now, observed, store, results, ledger>>

lose(a) ==
    /\ a \in store /\ store' = store \ {a}
    /\ UNCHANGED <<now, observed, bundle, results, ledger>>

----------------------------------------------------------------------------
(* PilotAcceptanceGate.                                                    *)

\* The typed contract of the kind; recovery and review reports name the
\* commit they are about, and it must be the item's.
_payload_matches(item) ==
    /\ item.digest.payload_passes
    /\ item.kind \in CommitKinds => item.digest.payload_commit = CommitOf[item.subject]

\* Faulty variant: an artifact that resolves is enough.
artifact_resolves(item) == item.digest \in store

\* The digest resolves, and the artifact says itself what the item says.
_artifact_matches(item) ==
    /\ item.digest \in store
    /\ item.digest.kind = item.kind
    /\ item.digest.subject = item.subject
    /\ item.digest.verified = item.verified
    /\ item.digest.observed_at = item.observed_at
    /\ item.digest.source = item.source
    /\ _payload_matches(item)

\* The reasons evaluate collects; none is the only way to review.
reasons ==
    LET items == bundle.evidence IN
    {reason \in {"MISSING_EVIDENCE", "UNVERIFIED_EVIDENCE",
                 "SELF_DECLARED_EVIDENCE", "EVIDENCE_BINDING_MISMATCH",
                 "EVIDENCE_ARTIFACT_UNRESOLVED", "STALE_REQUIRED_EVIDENCE",
                 "FUTURE_REQUIRED_EVIDENCE", "STALE_DEPLOYMENT_EVIDENCE",
                 "FUTURE_DEPLOYMENT_EVIDENCE"} :
       \/ reason = "MISSING_EVIDENCE" /\ {i.kind : i \in items} # REQUIRED_EVIDENCE
       \/ reason = "UNVERIFIED_EVIDENCE" /\ \E i \in items : ~i.verified
       \/ reason = "SELF_DECLARED_EVIDENCE"
            /\ \E i \in items : i.source = "SELF_DECLARED"
       \/ reason = "EVIDENCE_BINDING_MISMATCH"
            /\ \E i \in items : i.subject # bundle.subject
       \/ reason = "EVIDENCE_ARTIFACT_UNRESOLVED"
            /\ \E i \in items : ~_artifact_matches(i)
       \/ reason = "STALE_REQUIRED_EVIDENCE"
            /\ \E i \in items : now - i.observed_at > max_age
       \/ reason = "FUTURE_REQUIRED_EVIDENCE" /\ \E i \in items : i.observed_at > now
       \/ reason = "STALE_DEPLOYMENT_EVIDENCE" /\ now - bundle.created_at > max_age
       \/ reason = "FUTURE_DEPLOYMENT_EVIDENCE" /\ bundle.created_at > now}

\* A GateResult is a status (and the reasons); the subject it was computed
\* for and the time are history, which the code does not keep.
verdict == [status |-> IF reasons = {} THEN "PILOT_REVIEW_REQUIRED" ELSE "BLOCKED",
            subject |-> bundle.subject, at |-> now]

evaluate ==
    /\ bundle # NoBundle
    /\ Cardinality(results) < MaxVerdicts
    /\ results' = results \cup {verdict}
    /\ UNCHANGED <<now, observed, store, bundle, ledger>>

----------------------------------------------------------------------------
(* PilotAcceptanceTransition.                                              *)

\* A human with the role REVIEWER, of the bundle's tenant, not its creator.
may_accept(who) ==
    /\ IdentityOf[who].human /\ IdentityOf[who].reviewer
    /\ IdentityOf[who].tenant = TenantOf[bundle.subject]
    /\ IdentityOf[who].actor # bundle.creator

\* The event id names deployment, reviewer and correlation; a repeated call
\* with the same correlation fails on the ledger's primary key.
event_id(who, correlation) == <<bundle.subject, IdentityOf[who].actor, correlation>>

\* PostgresAcceptanceAudit: the event id is part of the primary key.
append(event) ==
    /\ \A e \in ledger : e.id # event.id
    /\ ledger' = ledger \cup {event}

\* Nothing compares the bundle with the verdict, which may be that of another
\* bundle, of another deployment or of long ago.  The event names the bundle's
\* subject and creator; which verdict was handed over is history.
accept(technical_result, who, correlation) ==
    /\ bundle # NoBundle
    /\ technical_result.status = "PILOT_REVIEW_REQUIRED"
    /\ may_accept(who)
    /\ append([id |-> event_id(who, correlation), who |-> who,
               subject |-> bundle.subject, creator |-> bundle.creator,
               evaluated |-> technical_result.subject, evaluated_at |-> technical_result.at])
    /\ UNCHANGED <<now, observed, store, bundle, results>>

Tick ==
    /\ now < MaxTime /\ now' = now + 1
    /\ UNCHANGED <<observed, store, bundle, results, ledger>>

----------------------------------------------------------------------------
Init ==
    /\ now = 0
    /\ observed = {} /\ store = {}
    /\ bundle = NoBundle /\ results = {}
    /\ ledger = {}

Next ==
    \/ \E kind \in REQUIRED_EVIDENCE, s \in Subjects, found \in Findings :
         observe(kind, s, found)
    \/ \E s \in Subjects, creator \in Creators : \E items \in Bundles(s) :
         assemble(s, creator, items)
    \/ \E a \in store : lose(a)
    \/ evaluate
    \/ \E r \in results, who \in Reviewers : accept(r, who, "first")
    \/ Tick

Spec == Init /\ [][Next]_vars

----------------------------------------------------------------------------
(* Properties.                                                             *)

\* The type of the state; a bundle holds one item of a kind at most.
TypeOK ==
    /\ now \in 0..MaxTime
    /\ observed \subseteq Artifact /\ store \subseteq observed
    /\ bundle # NoBundle =>
         /\ bundle.subject \in Subjects /\ bundle.creator \in Creators
         /\ bundle.created_at \in 0..now /\ bundle.evidence \subseteq EvidenceItem
    /\ \A r \in results : /\ r.status \in {"PILOT_REVIEW_REQUIRED", "BLOCKED"}
                          /\ r.subject \in Subjects /\ r.at \in 0..now
    /\ \A e \in ledger : e.evaluated \in Subjects /\ e.evaluated_at \in 0..now

\* What was accepted was evidenced, as far as the gate was asked about it: for
\* every required kind somebody really observed the subject of the verdict
\* that was handed to accept, successfully, not by declaration, and with a
\* payload about its commit, at most max_age before the verdict, whatever the
\* creator wrote on the items (relabelled, replayed, stale or self-declared
\* evidence does not get through evaluate) and whatever was assembled, lost
\* or evaluated since.
AcceptedIsEvidenced ==
    \A e \in ledger : \A kind \in REQUIRED_EVIDENCE : \E a \in observed :
        /\ a.kind = kind /\ a.subject = e.evaluated
        /\ a.verified /\ a.source \in {"MEASURED", "REPOSITORY"} /\ a.payload_passes
        /\ kind \in CommitKinds => a.payload_commit = CommitOf[e.evaluated]
        /\ a.observed_at \in e.evaluated_at - max_age .. e.evaluated_at
=============================================================================
