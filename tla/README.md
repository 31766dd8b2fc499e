# Verification of Decision Assurance

Decision Assurance is a control layer for AI-supported decisions: a tenant's *case* (a decision
file) is evaluated, researched and approved or blocked by humans, and finally exported or erased.
The program is a set of stateless Python services (REST API, MCP adapter, pilot UI, worker) around
one PostgreSQL database, so everything that is hard about it happens between transactions: of two
services, of one service that dies half-way, or of a worker and the user who cancels its job.

All paths below are relative to `src/src/decision_assurance/`.

## 1. Inventory

| Component | State | Operations | Interacts with | Correct when |
|---|---|---|---|---|
| Durable job queue (`jobs/postgresql.py`, `jobs/lifecycle.py`) | rows of `research_jobs`, `research_job_events` | submit, claim, heartbeat, complete, fail, cancel, requeue, recover_stale | workers poll it; API and MCP submit, cancel and requeue | one lease holder per job, bounded attempts, every job ends, statuses follow the table |
| Research worker (`jobs/worker.py`, `api/worker_runtime.py`) | claimed job, lease token, `lease_lost`, outcome | run_worker loop, run_once, heartbeat thread | queue, orchestrator | never reports a job it lost; survives or is recovered after crashes |
| Deletion and legal hold (`lifecycle/`) | `deletion_requests`, `lifecycle_audit_events`, `legal_holds`, `legal_hold_audit_events` | request, execute, place and release hold | erases what all other components store | a hold always wins; completion = erasure; linear event chains |
| Research run (`web_research/orchestrator.py`, `lifecycle.py`, `audit.py`) | run JSON with status, attempts, snapshots, audit events | prepare, execute, retry, cancel, handoff | worker, repository, providers, decisions | a run ends; audit chain linear; budget respected; handoff only of a finished run |
| Research persistence (`web_research/postgresql_repository.py`) | `research_*` tables | save (optimistic, by comparison of audit events), reserve_budget, idempotency begin/finish | orchestrator, API, MCP | no lost update; budget never exceeded |
| Evidence compiler and handoff (`web_research/compiler.py`, `evidence_policy.py`, `conflicts.py`) | none / the decision row | attach, policy evaluation | decisions | only DRAFT cases of the expected hash are changed |
| Circuit breaker (`web_research/circuit_breaker.py`) | per provider: failures, opened-at, half-open trial | before_call, success, failure | orchestrator | opens at threshold, one trial when half open |
| MCP adapter and Research API (`mcp/`, `api/routes/research.py`) | `research_idempotency` | start, retry, cancel, handoff under idempotency keys | queue, orchestrator, erasure | a key has one answer, and an answered tool does not act again |
| Decisions (`engine.py`, `transitions.py`, `decision_file.py`, `repositories/`, `api/routes/decisions.py`) | `decisions`, `reports`, `audit_events`, `idempotency` | create, evaluate, transition | everything | approval only by an independent human, on an evaluation that does not block; the audit table keeps what the service did to the document |
| Intake (`intake/`, `api/routes/intakes.py`) | `intake_*` tables | create, verify, confirm, compile | decisions | only verified facts are compiled; approvals are those of different people; the audit sequence has no gaps, and an event lost in a race shows in its hash links |
| Pilot UI (`pilot_ui/`) | login transactions per process, shared sessions | login, callback, proxy, logout, revoke | OIDC provider, API | a login opens one session; an ended session stays ended; critical roles are freshly authenticated |
| OIDC (`oidc/`, `identity.py`, `authorization.py`) | JWKS cache | get key, authenticate | identity provider | a withdrawn key is not served beyond the cache's life |
| Egress (`production/egress.py`) | none | decide | providers | fails closed |
| Export (`export/`, `events/registry.py`) | none | build, sign, validate | lifecycle, decisions | what validates offline is the whole history; every case can be exported |
| Deployment evidence (`deployment/`) | artifacts, bundle, acceptance events | observe, assemble, evaluate, accept | operators, reviewers | the gate passes only what was observed, recently, for the deployment it was asked about |
| Configuration, observability, CLI | none at run time | parsing, counters | all | - |

Behaviours that are hard to test: two transactions of different services that overlap (claim and
claim, hold and erasure, submission and erasure, evaluation and transition); what a call read in one
transaction and uses in the next; processes that die between transactions; leases that expire while
their holder still works; clocks read before they are used. `PROJECT.json` lists them with their
lines under "hazards".

## 2. Plan

Done: the job queue (`JobLifecycle`, `ResearchJobs`), deletion and legal hold (`DataLifecycle`), the
Research run and its composition with its job (`ResearchLifecycle`, `ResearchRun`,
`ResearchPipeline`), the decision file, its routes and its export (`DecisionFile`, `DecisionCase`,
`CaseExport`), intake (`IntakeVerification`, `Intake`), idempotency keys (`ResearchIdempotency`), login
and sessions (`OidcKeys`, `PilotSessions`) and deployment evidence (`PilotAcceptance`), each with a
module of proofs (`*_proofs`; the proofs about `CaseExport` are in `DecisionCase_proofs`, those about
`ResearchPipeline` in `ResearchRun_proofs`). Every invariant and every action property of the passing runs
is proved.

Next: that the job of `ResearchPipeline` follows `JobLifecycle`, as the rows of `ResearchJobs` do; the
circuit breaker and the evidence policy as small modules.

## 3. Modules and how they correspond to the code

### JobLifecycle - the abstract specification of a job
`Allowed` is `_ALLOWED` of `jobs/lifecycle.py` as a set of pairs; `Next` is one insert, one move
along the table, or one `recover_stale`, which moves any number of expired jobs in one transaction.
The repository never calls `transition()`: its SQL writes statuses directly, so conformance is a
theorem and not a tautology.

### ResearchJobs - queue and workers
* One row per job: `status`, `attempt_count`, `available_in`, `lease_token`, `lease_left`, `events`
  are the columns of `research_jobs` and the types of `research_job_events` in sequence order.
* One record of local variables per worker process: `phase` is where `run_worker`/`run_once`
  stands; `token`, `lease_lost` and `outcome` are the local variables of `run_once`.
* A repository method is one transaction that locks the row it changes, hence one action. `claim`
  is two (`ClaimSnapshot`, `ClaimLock`), because under READ COMMITTED its count of RUNNING jobs
  comes from the statement's snapshot while only the locked row is rechecked.
* The order in which `claim` prefers rows is left open: any row that qualifies may be taken.
* Secret lease tokens are the sequence number of the `JOB_CLAIMED` event: all that matters is that a
  new one differs from all earlier ones.
* Time is relative (see the head of the module), so that the state space is finite; `lag` is the age
  of the clock value the code passes in.
* `LeaseRejected` is caught nowhere in `run_once` or `run_worker`; `ReportRejected` therefore ends
  the process. `Restart` is the operator's or the orchestrator's doing.
* The processor is any of its outcomes. (The one that `api/worker_runtime.py` installs raises neither
  `RetryableJobError` nor `NonRetryableJobError`; other exceptions are `Crash`.)

### DataLifecycle - deletion and legal hold
* `exists`, `research`, `hold`, `hold_events`, `status`, `names_case`, `last_event`, `linked` stand
  for the rows of a case, of its holds and of its deletion requests. Event hashes are abstracted to
  what is asked of them: whether the predecessor a call read is still the last event (`fresh` for a
  request's chain, `tip` for a hold's).
* A service call `p` is a program counter and what it has read. Each of its transactions takes an
  advisory lock first and is one action; the reads that precede the first of them and are not used
  again are merged with it. `Crash` ends a call between two transactions.
* `CreateCase` also creates a case id again after its erasure, which the API permits.
* `BeginResearch`/`SubmitResearch` is `POST /v1/research-runs`, which reads the decision in one
  transaction and inserts run and job in another.

### ResearchLifecycle - the abstract specification of a run's status
`Allowed`, `Retry` and `Cancellable` are the tables of `web_research/lifecycle.py`. `transition()`
consults them for the copy of the run in one process's memory; `ResearchRun` shows that the stored
status, which several processes overwrite, follows them too. `EVIDENCE_COMPILED` is passed through in
memory only, so one stored step may span it.

### ResearchRun - one run and the processes that execute, retry and cancel it
* `run` is `research_runs.run_json`, `ledger` the rows of `research_audit_events`, `used_units` the
  budget row; `document`, `attached`, `flagged` and `handoffs` are what the hand-off reads and writes
  of the decision. A decision's version stands for its hash: the document contains its own event
  history, so no version comes back. `EditDocument` is any other writer of the decision: it appends an
  event, so it makes the expected document stale, and since `save_result` overwrites the document with
  what its caller read before, it may drop the evidence of earlier hand-offs or bring it back. What
  stays is the row of `research_handoffs`, and that is what `CompletedIsHandedOver` is about.
* A process is a program counter `pc`, its copy `local` of the run, the candidates left (`todo`) and
  `handoff_failed`. Between two database transactions there is at least one step boundary; a
  transaction is one action. `save()` begins with an UPDATE of the run's row, which serialises
  concurrent saves.
* An audit event carries the operation that appended it in place of timestamp, actor and correlation
  id. Two operations therefore never append equal events, which is what `save()` relies on.
* `_ensure_active` is modelled by `Goto`: if `cancelled()` has begun to answer TRUE (`halted`), a step
  that the code checks first ends the operation; a `Halt` that comes after the check lets the step
  happen and is noticed at the next one (`Stop`).
* The circuit breaker and the retry window depend on other runs and on time: they may refuse at any
  time (`Deny`, `RejectRetry`). A cache hit, the URL policy, the evidence policy and duplicates are
  outcomes of `SearchReturns` and `TakeSnapshot`. Which texts contradict is the constant
  `Contradictions`.
* `handoff()` on a stored run is no action: `HandoffIsDecided` says that `attach` would refuse it
  (if the expected document is the current one, the refusal of the first attempt had a cause in the
  document, which is still there).

### ResearchPipeline - a run and its job
`ResearchRun` plus `research_jobs` reduced to status, attempts and whether a worker's claim is the
current one; `ResearchJobs` has the rest of the queue in detail. `Submit` inserts both rows, `Process`
is `process()` of `api/worker_runtime.py`, `Complete`, `Abandon` and `RecoverStale` end an attempt.
`CancelJob` is the second transaction of MCP's `research_cancel`, `ValidateRequeue` and `Requeue` the
two of its `research_retry`.

### DecisionFile, DecisionCase - a decision and its routes
* `DecisionFile` has the pure part: `assess` is the engine (`_validate`, `_govern`), `transition_allowed`
  the transition policy, `evaluate_decision_file`, `transitioned` and `with_evidence` the documents the
  routes and the hand-off compute. A document keeps what these can tell apart (statuses of evidence,
  severities, required roles, approvals, history); texts, digests and timestamps are left out. An
  event's id is its origin and number, as in the code, and `previous` stands for the predecessor's
  hash.
* `DecisionCase` has the tables: `decision`, `audit_events` (in insertion order), `report` and
  `idempotency`. A route is a record in `calls`: it looks its key up, reads the document, and saves
  what it computed in a later transaction (`save_result`). The UPDATE compares no version, so stale
  saves succeed unless an event id or a key is already taken; then the whole transaction fails
  (`fail`). `attach` is the hand-off's single transaction.
* A client posts any file that `validate_semantics` accepts: `create_decision` does not ask for a DRAFT, so
  a file may come with a status, an outcome, approvals and a history of the client's making (`Files`).
  The list `audit_events` of a document is therefore kept in two parts, what was posted (`submitted`)
  and what the service appended (`audit_events`); only the latter is in the audit table, and the
  properties are about what the service did on top of whatever was posted.

Observed while modelling: a mandatory review requirement for the role REVIEWER can be met by no route,
only by an approval in the posted file; the created event states `to_status` DRAFT of every file; an
update that is lost leaves its event in the table but not in the document; an evaluation that was PASS
before a hand-off stays valid for an approval after it.

### CaseExport - building and validating an export
An export reads one REPEATABLE READ snapshot, so `build` and `validate_export` are operators on a
state of `DecisionCase`. Digests are the contents they are computed from; the signature is left out,
but that a signing service checks event types first is not.

### IntakeVerification, Intake - from facts to a decision
`IntakeVerification` translates verifier, confirmation and compiler into operators on a sequence of
facts; a value is `within` or `beyond` what the tenant's policy permits. `Intake` has the record, the
confirmations, the audit table and the decision. An audit event is the primary key of the request that
appended it, its number is its id, and `previous` stands for the predecessor's hash: `new_events` takes the
number and the predecessor from the record the request read, which may be stale, and the sequence from
the table, so that ON CONFLICT DO NOTHING may drop an event in favour of another writer's. `save_operation`
overwrites the record. `compile_intake` looks for a decision with the intake's id (`get_decision`), takes
whatever it finds for its own, and else creates one (`create_decision`), before it marks the intake;
`post_decision` is `POST /v1/decisions` with that id, with any content.

Observed while modelling: an unresolved conflict and a missing margin can never be cleared; what a race
or a posted decision does to record, audit table and decision is listed in section 4 under "What does not
hold".

### ResearchIdempotency - keys of tools and routes
`idempotency` is `research_idempotency`; a response is the number of the effect it reports, 0 while in
progress. A call is a program counter with key and digest. Tools reserve, act and complete or release;
routes look up, act and store; `First`, `AfterCheck` and `AfterBegin` give each entry point its own
order of checks and lookup. `Die` ends a call between two transactions. `Erase` deletes the rows the
DELETE of `lifecycle/postgresql.py` finds.

### OidcKeys, PilotSessions - login and sessions
`OidcKeys` is the JWKS cache against a provider that rotates keys and may be down. `PilotSessions` has
login transactions per BFF process (in memory, lost on restart), sessions in PostgreSQL, requests under
way (`callback`, `exchange`, `create_session`; `proxy`, `forward`) and MFA policy versions that differ
between processes during an upgrade.

Observed while modelling: a callback that reaches another process than its login fails; a request that
has passed its lookup is served after a logout; `revoke_actor` has no caller; a policy upgrade ends a
session only when an upgraded process looks it up.

### PilotAcceptance - evidence of a deployment
Artifacts are content-addressed facts about a subject (deployment, tenant, commit), measured, taken from
the repository or declared by the creator; a bundle is a set of items that may label them wrongly;
`evaluate` is the gate with `_artifact_matches`, which turns away only declarations, not what comes
from the repository. `accept` takes any verdict the gate ever
gave: the code compares it neither with the bundle nor with the clock, so `results` keeps all of them, each
with the subject and the time it was given for (history the code does not store), and the ledger keeps
which one was handed over. The role map of the identity provider has no REVIEWER, so only identities that
do not come from OIDC can accept.

## 4. Runs

| Run | Result | Question |
|---|---|---|
| `jobs_queue` | pass | leases, attempts, history, status table and that the job ends, with two workers, crash, requeue, cancel, clock lag |
| `lifecycle` | pass | does a hold win, is completion the erasure, are the chains linear, does a repeated execution conclude? |
| `run_safety` | pass | do processes that race on a run and die keep row, audit trail, status table, attempts and hand-off intact? |
| `pipeline_faults` | pass | does the job end whatever happens, and does the run settle until something fails? |
| `decisions_cases` | pass | do overlapping routes keep audit table, keys, approvals and exports right, whatever file was posted? |
| `decisions_terminal` | violation | are APPROVED and BLOCKED terminal? Not if an evaluation read the case before |
| `export_signed` | violation | can every case be exported? Not one with Research evidence, by a service that signs |
| `intake` | pass | is what is compiled verified, grounded in its input and approved by different people, and does a lost audit event show? |
| `idempotency` | pass | does a key have one owner and one answer, and is it settled? |
| `idempotency_erasure` | violation | is every stored answer about an erased case gone? Not those of the MCP tools |
| `sessions` | pass | login, session, key and MFA rules with two processes, two browsers, restarts and rotation |
| `acceptance` | pass | was every verdict that somebody accepted on backed by current evidence? |

Bounds. One job and two workers suffice for what a lease excludes: the rows of different jobs meet only in
the tenant count and in `recover_stale`. `max_attempts` = 2 reaches both sides of the limit, a lease of 2
ticks with a lag of 1 reaches expired, live and stale-clock cases, one requeue starts the attempts again.
In `lifecycle` two calls race in every pair of operations; two requests, two creations and four hold
events let a case be held, released, erased, created and held again. `run_safety` has two workers, since
two that begin at once are the hardest case for the unlocked row, a call that retries or cancels, and two
contradicting sources, of which one may be extracted while the other is not, so that a retry has something
to add; one foreign edit makes the expected document stale and may drop what was attached.
`pipeline_faults` needs one worker (its successor after a crash is the same worker again), two attempts of
the job and one fault. In `decisions_cases` two calls overlap in every pair of routes; three people (a
generator who could approve, a human and an agent who validate and approve), six files (drafts that are
sound, without evidence or blocked, two posted as reviewed with a validation by either validator, one
posted as approved) and six events reach approval after a detour. `intake` has two approvers for two
required approvals; an input with two approval claims, one with a conflict and an unregistered policy, one
with an embedded approval; one decision that a client may post; and four requests that take effect
(`MaxRequests`), so that two that race are followed by a third whose event refers to one of theirs.
`idempotency` has three calls, so that one may hold a key, one wait and one come late, on one key of each
of the four kinds, two digests and one death. `sessions` lets every lifetime end (two ticks, all lifetimes
1 but the token's); it has one request at a time, so that callbacks that overlap are covered by the proof
of `LoginIsSpent` only, for any number. `acceptance` has a deployment and its successor, two kinds of
evidence, one bound to the commit, ages on both sides of the limit, and one verdict (`MaxVerdicts`), which
may be handed over for any later bundle. The proofs remove the bounds of all passing runs for the
properties listed in section 5. The type invariants of `ResearchJobs`, `DataLifecycle`,
`ResearchIdempotency` and `PilotAcceptance` are proved rather than checked in these runs; the other runs
check the type invariant of their module as a part of `AuditTrail` (`ResearchRun`), `TablesAgree`
(`DecisionCase`, `Intake`) or as `TypeOK` (`PilotSessions`), and these are proved, too.

Deadlock is checked in `jobs_queue` only: elsewhere, with all requests over and the bounds used, there
is nothing left to do.

Fairness. Jobs: the steps of a worker that runs are taken (threads are scheduled and every provider
call has a timeout), time passes, and a dead worker is started again. The last is not in the
repository's compose files, which declare no restart policy; `docs/OPERATIONS.md` leaves it to the
operator. Lifecycle: a call that does not crash continues, and an execution is repeated until it is over
(strong fairness: whenever a call is free again and again). `ExecutionConcludes` excepts a contested
request: two who repeat it at the same time can make each other's tip stale for ever, and once
another request has erased the case, each execution records EXECUTING and is rolled back with
CASE_NOT_FOUND. Pipeline: workers and calls that run take their steps, and `recover_stale` is called
again and again; a step of a worker includes claiming the next job, so a dead one is started again here,
too. Idempotency: a call that has arrived and does not die takes its steps (weak fairness per call).

### What does not hold

Three runs show a disagreement between code and documentation (see "findings" in `PROJECT.json`).
`save_result` overwrites whatever is stored: an evaluation saved after an approval reopens the case
(`decisions_terminal`). The event registry does not list `research.evidence-attached` for the decision's
audit trail: a signing exporter refuses the case (`export_signed`); the same list lacks `intake.compiled`
for decisions, and `intake.fact-confirm`, `-correct` and `-reject`, as the routes name them, for intakes.
The erasure looks for `decision_file_id` at the top level of a stored answer: MCP answers survive
(`idempotency_erasure`).

Further behaviours, found with these modules, that no property of a run states because it would not hold:

* two claims whose count of RUNNING jobs precedes each other's commit start two jobs of a tenant whose
  limit is one (`jobs/postgresql.py` 225);
* a Research run submitted by a call that read the decision before its deletion survives the completed
  deletion (`jobs/postgresql.py` 131), and so does the idempotency row of a route that finishes late;
* a retry that finds a source contradicting evidence handed over before leaves that evidence UNVERIFIED
  in the decision (`web_research/compiler.py` 241);
* a run cancelled over REST while its worker is at its end is attached all the same
  (`web_research/orchestrator.py` 581);
* a run whose worker dies in the middle stays SEARCHING or EXTRACTING for ever, since a retry refuses a
  run under way (`web_research/orchestrator.py` 269): `RunSettlesUnlessFaulty` therefore excepts faults;
* a job may be completed while its run is under way when a lease expires under a living worker
  (`web_research/orchestrator.py` 143): `JobDoneMeansRunSettled` therefore excepts faults;
* two administrators who execute one deletion at the same time, again and again, can make each other's last
  event stale for ever (`lifecycle/postgresql.py` 229): `ExecutionConcludes` excepts contested requests;
* a key whose tool call died is IN_PROGRESS for good (`mcp/service.py` 294): `ReservationSettles` excepts
  it;
* a decision need not contain the evidence of a COMPLETED run: a route that read it before the hand-off and
  saves it afterwards overwrites it (`repositories/postgresql.py` 99), and a repeated hand-off finds its row
  in `research_handoffs` and does not attach again. `CompletedIsHandedOver` is about the hand-off;
* a file can be posted as APPROVED, with an outcome that no evaluation gave and approvals that nobody gave:
  `create_decision` (`api/routes/decisions.py` 100) compares `created_by` with the caller and leaves status,
  outcome, approvals and history as they are. A posted REVIEW file with the outcome PASS is approved
  without an evaluation; whether the approvers named in it are human is taken from the file. The posted
  history is in no table, the event of the creation says DRAFT and has no predecessor, and the offline
  validation of an export compares the trail with neither. `ApprovalIsSound` is therefore about the
  approvals that the service recorded, and `TablesAgree` and `ExportTellsHistory` about the events it
  appended;
* two racing saves of a decision leave two audit rows with one predecessor, and every later export of
  the case fails its own chain validation. `ExportTellsHistory` says that it fails rather than pass;
* two intake requests that read one record append events of the same number: the audit table keeps the
  first (`intake/postgresql_repository.py` 146), the record the last, and the record also loses what the
  first one decided about its fact, although its row stays in `intake_confirmations`. No check notices;
  `AuditTellsHistory` says that the link of the next event that both have is then broken, which
  `docs/specifications/DA-INTAKE-v0.3.md` 78-81 does not expect;
* a COMPILED intake may name a decision that is not its own: the route takes any decision with the id
  (`api/routes/intakes.py` 270), also one that a client posted with other claims, or the one of an
  interrupted compile before a correction; and a compile that read the record before a correction compiles
  the uncorrected value. `DecisionIsGrounded` and `ApprovalsAreReal` are about decisions that were compiled,
  relative to the input they name;
* the verifier compares the first candidate of a type with a limit, whatever its status
  (`intake/verification.py` 221): an outdated credit check that a human rejected still puts
  EVIDENCE_OUTDATED into the decision, although `docs/specifications/DA-INTAKE-v0.3.md` 25 says that a
  REJECTED fact drives no finding; and of two equal amounts above the threshold, the first corrected to
  one below it and then rejected, the second is compiled without the missing-approval constraint. The
  attempt to prove `ApprovalsAreReal` showed this: the property is therefore stated for decisions that
  claim the first amount of their input;
* an acceptance may rest on the verdict about another bundle, another deployment or an earlier time
  (`deployment/evidence.py` 268), and on evidence whose source is REPOSITORY, which the gate does not turn
  away. `AcceptedIsEvidenced` is about the subject and the time of the verdict that was handed over.

## 5. What is proved

`ResearchJobs_proofs` proves, for any set of jobs, workers and tenants and any policy that
`JobPolicy.__post_init__` accepts: `TypeCorrect`, `LeaseExclusion`, `AttemptLimit`,
`LostLeaseSilent`, `LeaseSafety`, `LifecycleRefinement` and `HistoryIsTheRow`.

The invariant behind them is `IInv == TypeOK /\ WorkerInv /\ TokenInv /\ AttemptInv`.
`SingleLeaseHolder` is not inductive: nothing in it says that a token that is drawn now is new.
`TokenInv` adds that every token a worker has is the number of an event already in the job's history
and that no two workers have the same one; histories only grow (`EventsGrow`), so a new token is new.
`AttemptsBounded` needs `AttemptInv`: a job that can be claimed has an attempt left, which `fail`,
`recover_stale`, `submit` and `requeue` each establish in their own way. `LostLeaseNotReported`
needs `WorkerInv`. `LeaseSafety` and `LifecycleRefinement` are step lemmas under `IInv`.
`HistoryExplainsRow` has an invariant of its own on top of `IInv`, `HistoryInv`, which adds that a row
that is absent has no history and no attempts. Its core are two lemmas on one more event: `ClaimsAppend`
says what the event does to the set of claims since the last queueing, `ExplainsAppend` that the longer
history explains the new row; each action is then the case of one event.

`DataLifecycle_proofs` proves, for any set of cases, calls and requests: `TypeCorrect`,
`LifecycleChains`, `HoldChains`, `ActiveHoldNeverDeletes` and `CompletionErases`. Its invariant is
`IInv == TypeOK /\ CallInv /\ TombstoneInv /\ LifecycleHistory /\ HoldHistory`. The histories are not
inductive alone, because the decision to append an event is made from what an earlier transaction
read: `CallInv` says that a call which goes on to block or execute a request has not seen it completed,
that a call which saw COMPLETED is right for ever, and that a call about to insert a request has a
current tip as long as the request is absent. `TombstoneInv` carries "the tombstone no longer names
the case" from the erasing transaction to all later states. Each step of the proof is either steady
for a request (its row is untouched, `RequestSteady`) or appends to an up-to-date chain
(`RequestChange`); holds have the same two cases. The two action properties follow from `IInv` and
the guards of the one transaction that erases.

`ResearchIdempotency_proofs` proves, for any set of calls, keys and digests and any number of effects and
deaths: `TypeCorrect`, `ReservationsOwned`, `AnswersAgree` and `NoSecondEffect`. It assumes that the four
kinds of keys are disjoint (their operation names differ). The invariant is
`IInv == TypeOK /\ ReservationIsOwned /\ AnswersAreStored /\ EffectInHand`. `OneAnswer` is not
inductive, because it does not say where a later answer comes from: `AnswersAreStored` adds that every
answer given is the one the row still stores, for tools always and for routes until the erasure.
`EffectInHand` excludes that the number 0 of the placeholder is reported. A row that is absent or in
progress then has no answer (`Unanswered`), so an owner, whose row is in progress, acts only under an
unanswered key: `NoSecondEffect`. Every action either leaves ownership as it is (`OwnershipKept`), ends
it (`OwnershipEnds`) or is the one that begins it (`ReserveKeeps`).

`PilotAcceptance_proofs` proves, for any kinds of evidence, deployments, identities and age limit and any
number of observations and verdicts: `TypeCorrect` and `AcceptanceIsEvidenced`. It assumes
that a collector reports in the terms of `FindingsAssumption`, with any of the three sources. The invariant
is `IInv == TypeOK /\ VerdictIsEvidenced /\ AcceptedIsEvidenced`.
`AcceptedIsEvidenced` is not inductive: a reviewer accepts on a verdict that was given earlier, after which
time passed and artifacts were lost. `VerdictIsEvidenced` carries what the gate saw from `evaluate` to
`accept`; it holds because observations are never unmade (`EvidenceStays`), and `GateIsSound` derives it
from the gate's reasons, one conjunct per reason.

`ResearchRun_proofs` proves, for any set of workers, calls and sources, any attempt limit and any
contradictions: `AuditTrailHolds`, `OneExecutor`, `AttemptLimit`, `CompletionHandsOver`, `HandoffDecided`
and the refinement `LifecycleRefinement`. None of these is inductive, because a process computes on its
copy of the run and `save()` takes no lock. The invariant says what a copy is: every event of it is stored
or the operation's own (`CopyOf`), no two processes work under one operation's number (`Numbered`,
`Distinct`), its events are a legal chain to its status (`IsChain`), and its status is the one the step of
the process assumes (`StatusAt`); a fresh copy has the status of the row (`FreshAt`), and a process at
work has a fresh copy unless the run was cancelled (`WorkAt`). The central lemma is `AcceptedIsFresh`:
`save()` succeeds exactly for a copy that contains the whole ledger, and after it no other copy does. So
the second of two processes that begin fails at its first save, which is `SingleExecutor`. `SourcesSound`,
`Decided` and `ConcludeAt` carry what an execution knows of its sources and of the hand-off from step to
step; `Tables` says the same of the row and relates it to requests, document and hand-offs.

The same module proves about `ResearchPipeline`, for any number of workers, calls, attempts, faults and
requeues: `PipelineKeepsRun` (the five invariants above hold when the queue drives the workers),
`PipelineRefinement` and `JobDoneRunSettled`. `PipelineSpec` does not imply `Spec`: the queue starts work
without the bound on starts and cancels several claims at once. So the steps of the pipeline are taken one
by one, with the same lemmas. `PipelineInv` adds to `IInv`: as long as there are no faults, a process is
halted only when the run is cancelled (`HaltedForReason`), only a worker that ended or is halted has lost
its lease (`LostForReason`), and a run that is neither new nor settled is being worked on (`WorkGoesOn`);
and a run whose job was reported is not new (`Begun`). `Progress` is what every step of an execution does:
it goes on, or settles the run, or ends because of a halt. A save at work that fails has met a
cancellation, by `WorkAt`.

`PilotSessions_proofs` proves, for any processes, browsers, keys and lifetimes: `TypesHold`,
`LoginIsSpent`, `KeysAreCurrent` and the action properties `EndedSessionsRest` and `MfaIsFresh`. The
invariant is `IInv == TypeInv /\ KeysInv /\ SessionsInv /\ BindingInv /\ OnceInv`. `LoginOpensOnce` needs
`OnceInv`: a login is in exactly one place, the memory of one process, one callback under way, or one
session. `KeysInv` says that a cached key set expires within `cache_ttl` of the retirement of any key in
it. `SessionsInv` says that an ended session is revoked and that the expiry of a critical actor's session
counts from the multi-factor authentication; the action properties follow because only the proxy takes a
request up, and only with a stored session (`OnlyProxyForwards`). It assumes positive capacities
(`SessionsAssumption`, `SessionBoundsAssumption`).

`DecisionCase_proofs` proves, for any people, files, calls and keys: `TablesTellHistory`,
`RequestsActOnce`, `ApprovalsAreEntitled` and `ValidExportsAreComplete` (about `CaseExport`). The
invariant is `IInv == TypeInv /\ CallsInv /\ DecisionInv /\ RowsInv /\ ChainInv`.
Stale saves do succeed here, so the invariant is about documents rather than about who is current: every
document that is stored or in the hands of a call has a history of the service that is in the table
(`HistoryOf`) and is sound by itself (`SoundDocument`: once the service evaluated it, the outcome is the
last evaluation's, and nothing in a passed document makes the engine block; approvals are of others than
creator and requester; every approval the service recorded is a `SoundApproval`). None of it is said of
what was posted. `ChainInv` is for the export: as
long as the rows form one chain, the stored document has all of them and every copy has a prefix, so that
a stale save is what breaks the chain (`CurrentCopy`) and an archive validates only if nothing was lost.
`NoneAssumption` says that the value for "absent" is no document.

`Intake_proofs` proves, for any inputs, people, calls, confirmations and policy: `TablesStayConsistent`,
`ReadyRestsOnFacts`, `ClaimsAreGrounded` and `ApprovalsAreOnRecord`. The invariant is
`IInv == AuditInv /\ RowsInv /\ RecordInv /\ CallsInv /\ HistoryInv /\ DecisionInv`. A report is sound by
construction (`BuiltIsSound`) and stays so through confirmation and re-verification (`ReverifyIsSound`),
however old the copy: that gives `ReadyIsVerified`. `DecisionIsGrounded` is not inductive: the decision is
compiled from a copy, and nothing in it says that what was confirmed in a copy is on record. `CallsInv`
adds that it is, except for the one fact whose confirmation the request is about to save (`Pending`), and
rows are never removed. `AuditGapless` needs that the event a request appends has a number of at most one
more than the table has rows (`Appends`), so that it is the next one or is skipped. `AuditTellsHistory`
needs `HistoryInv`: an event that is in the table and in a copy is linked to the predecessor it has in that
copy, because a request links its event to what it read and only it appends under its key. Then, going back
from an event that table and record share, the last difference would break a link (`LinksTellHistory`).
`ConfirmationsAssumption` says that a correction names a value, that a posted decision was not made by the
compiler and that "absent" is neither a record, a decision nor a request.

All inductive invariants were checked with TLC on the instances of the runs before they were proved.

Only model-checked: `EveryJobEnds`, `ExecutionConcludes`, `JobEnds`, `RunSettlesUnlessFaulty` and
`ReservationSettles` (liveness under fairness is out of the prover's reach).

## 6. Not modelled

See "components" in `PROJECT.json`. Left out: cryptography (signatures, hashes and encryption are taken
to work), HTTP parsing and provider requests (outcomes of an attempt), text extraction (an input),
archive layout, configuration parsing, wiring, logging, metrics, pages of the user interface, the
command line and the benchmark; the in-memory and SQLite repositories, which are doubles of the
PostgreSQL ones with one process and no transactions to interleave; the provider circuit breaker, whose
refusal is an outcome of an attempt; an intake request that is under way while the lifecycle erases the case;
row-level security, which is a property of PostgreSQL's policies,
so that every module is about one tenant; release verification and recovery evidence, which validate
documents without state.
