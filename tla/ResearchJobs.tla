---------------------------- MODULE ResearchJobs ----------------------------
(***************************************************************************)
(* The durable queue of Research jobs (jobs/postgresql.py) and the worker  *)
(* processes that poll it (jobs/worker.py, api/worker_runtime.py).         *)
(*                                                                         *)
(* Every repository operation is one READ COMMITTED transaction that first *)
(* locks the row it changes, so it is one action here, with one exception: *)
(* claim() counts the tenant's RUNNING jobs in the statement snapshot and  *)
(* rechecks only the row it locks, so it is two actions, ClaimSnapshot and *)
(* ClaimLock, and other transactions may commit between them.              *)
(*                                                                         *)
(* Time is relative: lease_left[j] and available_in[j] are the ticks that  *)
(* remain until lease_expires_at and available_at, and Tick lets one pass. *)
(* The code passes a clock value it read earlier (`now') to each           *)
(* statement; the action's `lag' is how many ticks ago that was, so that   *)
(* "lease_expires_at > now" is "lease_left[j] + lag > 0".                  *)
(***************************************************************************)
EXTENDS Integers, Sequences, FiniteSets

CONSTANTS
    Jobs,                 \* job rows
    Tenants,              \* tenants
    TenantOf,             \* the tenant of each job
    Workers,              \* worker processes
    NoJob,                \* what a worker without a claimed job works on
    max_concurrent_jobs,  \* tenant_runtime_limits of each tenant
    max_attempts,         \* JobPolicy.max_attempts
    lease_seconds,        \* JobPolicy.lease_seconds, in ticks
    base_backoff_seconds, \* JobPolicy.base_backoff_seconds, in ticks
    maximum_backoff_seconds, \* JobPolicy.maximum_backoff_seconds, in ticks
    MaxClockLag,          \* bound: ticks between reading the clock and using it
    MaxRequeues,          \* bound: explicit retries of one job
    MaxCrashes            \* bound: process crashes

ASSUME TenantAssumption == TenantOf \in [Jobs -> Tenants]
ASSUME NoJobAssumption == NoJob \notin Jobs
ASSUME LimitAssumption == max_concurrent_jobs \in [Tenants -> Nat \ {0}]
\* JobPolicy.__post_init__ rejects anything else.
ASSUME PolicyAssumption ==
    /\ max_attempts \in Nat \ {0}
    /\ lease_seconds \in Nat \ {0}
    /\ base_backoff_seconds \in Nat \ {0}
    /\ maximum_backoff_seconds \in Nat \ {0}
    /\ base_backoff_seconds <= maximum_backoff_seconds
ASSUME BoundAssumption ==
    MaxClockLag \in Nat /\ MaxRequeues \in Nat /\ MaxCrashes \in Nat

VARIABLES
    \* rows of research_jobs and research_job_events
    status,        \* status, or "ABSENT" before the insert
    attempt_count, \* attempt_count
    available_in,  \* available_at, as ticks from now
    lease_token,   \* lease_token_hash; 0 is NULL
    lease_left,    \* lease_expires_at, as ticks from now; 0 when NULL
    events,        \* event types of the job, in sequence order
    \* worker processes
    phase,         \* where run_worker / run_once of the worker is
    snapshot,      \* rows that qualify in the snapshot of its claim statement
    job,           \* the claimed job
    token,         \* the lease token of the claim; 0 before a claim
    lease_lost,    \* the lease_lost event of run_once
    outcome,       \* what the processor made of the job
    crashes        \* crashes so far

rowVars == <<status, attempt_count, available_in, lease_token, lease_left, events>>
workerVars == <<phase, snapshot, job, token, lease_lost, outcome>>
vars == <<rowVars, workerVars, crashes>>

-----------------------------------------------------------------------------
L == INSTANCE JobLifecycle

Outcomes == {"complete", "partial", "fail-retryable", "fail-terminal"}
EventTypes == {"JOB_QUEUED", "JOB_CLAIMED", "JOB_REQUEUED", "JOB_CANCELLED",
               "JOB_COMPLETED", "JOB_PARTIAL", "JOB_RETRY_WAIT", "JOB_FAILED",
               "JOB_DEAD_LETTER", "JOB_STALE_LEASE_RECOVERED"}
Phases == {"polling", "recovered", "claiming", "claimed", "processing",
           "processed", "reporting", "down"}
Lags == 0..MaxClockLag
AvailableRange == -MaxClockLag..maximum_backoff_seconds
LeaseRange == -MaxClockLag..lease_seconds

Minimum(a, b) == IF a <= b THEN a ELSE b

\* jobs/lifecycle.py: the base delay doubles with each attempt up to a ceiling.
retry_delay(attempts) ==
    LET delay == base_backoff_seconds * 2 ^ Minimum(attempts - 1, 30)
    IN  IF delay \in 0..maximum_backoff_seconds THEN delay
                                                ELSE maximum_backoff_seconds

\* Mutant: one attempt too many.
RetryStatus_OneMore(j) ==
    IF attempt_count[j] <= max_attempts THEN "RETRY_WAIT" ELSE "DEAD_LETTER"
\* Where a RUNNING job goes when its attempt ends and may be repeated.
RetryStatus(j) ==
    IF attempt_count[j] < max_attempts THEN "RETRY_WAIT" ELSE "DEAD_LETTER"
RetryDelay(j) ==
    IF attempt_count[j] < max_attempts THEN retry_delay(attempt_count[j]) ELSE 0

\* _append_event: the next sequence number of the job.
AppendEvent(j, type) == events' = [events EXCEPT ![j] = Append(@, type)]

Running(t) == {j \in Jobs : TenantOf[j] = t /\ status[j] = "RUNNING"}

\* The conditions of claim() on the job row itself ...
Claimable(j, lag) ==
    status[j] \in {"QUEUED", "RETRY_WAIT"} /\ available_in[j] + lag <= 0
\* ... and on the number of RUNNING jobs of its tenant.
BelowLimit(t) == Cardinality(Running(t)) < max_concurrent_jobs[t]

\* The WHERE clause that heartbeat, complete and fail share.
Owns(w, lag) ==
    /\ status[job[w]] = "RUNNING"
    /\ lease_token[job[w]] = token[w]
    /\ lease_left[job[w]] + lag > 0

\* The worker reads the clock after the lease was last granted or renewed.
ReadAfterGrant(w, lag) ==
    lease_token[job[w]] = token[w] => lease_left[job[w]] + lag <= lease_seconds

NoWork(w, next) ==
    /\ phase' = [phase EXCEPT ![w] = next]
    /\ snapshot' = [snapshot EXCEPT ![w] = {}]
    /\ job' = [job EXCEPT ![w] = NoJob]
    /\ token' = [token EXCEPT ![w] = 0]
    /\ lease_lost' = [lease_lost EXCEPT ![w] = FALSE]
    /\ outcome' = [outcome EXCEPT ![w] = "none"]

-----------------------------------------------------------------------------
Init ==
    /\ status = [j \in Jobs |-> "ABSENT"]
    /\ attempt_count = [j \in Jobs |-> 0]
    /\ available_in = [j \in Jobs |-> 0]
    /\ lease_token = [j \in Jobs |-> 0]
    /\ lease_left = [j \in Jobs |-> 0]
    /\ events = [j \in Jobs |-> <<>>]
    /\ phase = [w \in Workers |-> "polling"]
    /\ snapshot = [w \in Workers |-> {}]
    /\ job = [w \in Workers |-> NoJob]
    /\ token = [w \in Workers |-> 0]
    /\ lease_lost = [w \in Workers |-> FALSE]
    /\ outcome = [w \in Workers |-> "none"]
    /\ crashes = 0

-----------------------------------------------------------------------------
(* Requests of tenants: submit, cancel, requeue. *)

\* submit / enqueue: the insert of the row and its JOB_QUEUED event.  The run
\* is inserted in the same transaction; a replay finds the row and changes
\* nothing.
Submit(j) ==
    /\ status[j] = "ABSENT"
    /\ status' = [status EXCEPT ![j] = "QUEUED"]
    /\ AppendEvent(j, "JOB_QUEUED")
    /\ UNCHANGED <<attempt_count, available_in, lease_token, lease_left,
                   workerVars, crashes>>

\* cancel: terminal jobs are returned as they are.
Cancel(j) ==
    /\ status[j] \in {"QUEUED", "RUNNING", "RETRY_WAIT"}
    /\ status' = [status EXCEPT ![j] = "CANCELLED"]
    /\ lease_token' = [lease_token EXCEPT ![j] = 0]
    /\ lease_left' = [lease_left EXCEPT ![j] = 0]
    /\ AppendEvent(j, "JOB_CANCELLED")
    /\ UNCHANGED <<attempt_count, available_in, workerVars, crashes>>

Requeues(j) == Cardinality({i \in DOMAIN events[j] : events[j][i] = "JOB_REQUEUED"})

\* Mutants: a requeue that takes cancelled jobs too, and one that keeps the
\* attempts.
Requeue_Cancelled(j) ==
    /\ status[j] \in {"COMPLETED", "PARTIAL", "FAILED", "DEAD_LETTER", "CANCELLED"}
    /\ Requeues(j) < MaxRequeues
    /\ status' = [status EXCEPT ![j] = "QUEUED"]
    /\ attempt_count' = [attempt_count EXCEPT ![j] = 0]
    /\ available_in' = [available_in EXCEPT ![j] = 0]
    /\ AppendEvent(j, "JOB_REQUEUED")
    /\ UNCHANGED <<lease_token, lease_left, workerVars, crashes>>
Requeue_KeepsAttempts(j) ==
    /\ status[j] \in {"COMPLETED", "PARTIAL", "FAILED", "DEAD_LETTER"}
    /\ Requeues(j) < MaxRequeues
    /\ status' = [status EXCEPT ![j] = "QUEUED"]
    /\ available_in' = [available_in EXCEPT ![j] = 0]
    /\ AppendEvent(j, "JOB_REQUEUED")
    /\ UNCHANGED <<attempt_count, lease_token, lease_left, workerVars, crashes>>

\* requeue: an explicit retry of a terminal job starts its attempts again.
Requeue(j) ==
    /\ status[j] \in {"COMPLETED", "PARTIAL", "FAILED", "DEAD_LETTER"}
    /\ Requeues(j) < MaxRequeues
    /\ status' = [status EXCEPT ![j] = "QUEUED"]
    /\ attempt_count' = [attempt_count EXCEPT ![j] = 0]
    /\ available_in' = [available_in EXCEPT ![j] = 0]
    /\ lease_token' = [lease_token EXCEPT ![j] = 0]
    /\ lease_left' = [lease_left EXCEPT ![j] = 0]
    /\ AppendEvent(j, "JOB_REQUEUED")
    /\ UNCHANGED <<workerVars, crashes>>

-----------------------------------------------------------------------------
(* One iteration of run_worker: recover_stale, then run_once. *)

\* Mutants: recovery by a clock that runs ahead, and of the wrong status.
Stale_ClockAhead(lag) == {j \in Jobs : status[j] = "RUNNING" /\ lease_left[j] - lag <= 0}
Stale_WrongStatus(lag) == {j \in Jobs : status[j] = "FAILED" /\ lease_left[j] + lag <= 0}
\* RUNNING rows whose lease had expired when the worker read its clock.
Stale(lag) == {j \in Jobs : status[j] = "RUNNING" /\ lease_left[j] + lag <= 0}

\* recover_stale: all of them in one transaction.
RecoverRows(lag) ==
    /\ status' = [j \in Jobs |->
         IF j \in Stale(lag) THEN RetryStatus(j) ELSE status[j]]
    /\ available_in' = [j \in Jobs |->
         IF j \in Stale(lag) THEN RetryDelay(j) - lag ELSE available_in[j]]
    /\ lease_token' = [j \in Jobs |-> IF j \in Stale(lag) THEN 0 ELSE lease_token[j]]
    /\ lease_left' = [j \in Jobs |-> IF j \in Stale(lag) THEN 0 ELSE lease_left[j]]
    /\ events' = [j \in Jobs |->
         IF j \in Stale(lag) THEN Append(events[j], "JOB_STALE_LEASE_RECOVERED")
                             ELSE events[j]]

RecoverStale(w) ==
    /\ phase[w] = "polling"
    /\ \E lag \in Lags : RecoverRows(lag)
    /\ phase' = [phase EXCEPT ![w] = "recovered"]
    /\ UNCHANGED <<attempt_count, snapshot, job, token, lease_lost, outcome, crashes>>

\* claim, first half: the statement reads its snapshot.
ClaimSnapshot(w) ==
    /\ phase[w] = "recovered"
    /\ \E lag \in Lags :
        snapshot' = [snapshot EXCEPT ![w] =
            {j \in Jobs : Claimable(j, lag) /\ BelowLimit(TenantOf[j])}]
    /\ phase' = [phase EXCEPT ![w] = "claiming"]
    /\ UNCHANGED <<rowVars, job, token, lease_lost, outcome, crashes>>

\* Mutant: the lease token is derived from the job instead of drawn afresh.
ClaimRow_FixedToken(w, j, lag) ==
    /\ Claimable(j, lag)
    /\ status' = [status EXCEPT ![j] = "RUNNING"]
    /\ attempt_count' = [attempt_count EXCEPT ![j] = @ + 1]
    /\ lease_token' = [lease_token EXCEPT ![j] = 1]
    /\ lease_left' = [lease_left EXCEPT ![j] = lease_seconds - lag]
    /\ AppendEvent(j, "JOB_CLAIMED")
    /\ job' = [job EXCEPT ![w] = j]
    /\ token' = [token EXCEPT ![w] = 1]

\* claim, second half: FOR UPDATE SKIP LOCKED rechecks the row itself (the
\* count is still the snapshot's), and the row becomes this worker's.  The
\* fresh secret token is the sequence number of the JOB_CLAIMED event.
ClaimRow(w, j, lag) ==
    /\ Claimable(j, lag)
    /\ status' = [status EXCEPT ![j] = "RUNNING"]
    /\ attempt_count' = [attempt_count EXCEPT ![j] = @ + 1]
    /\ lease_token' = [lease_token EXCEPT ![j] = Len(events[j]) + 1]
    /\ lease_left' = [lease_left EXCEPT ![j] = lease_seconds - lag]
    /\ AppendEvent(j, "JOB_CLAIMED")
    /\ job' = [job EXCEPT ![w] = j]
    /\ token' = [token EXCEPT ![w] = Len(events[j]) + 1]

ClaimLock(w) ==
    /\ phase[w] = "claiming"
    /\ \E j \in snapshot[w], lag \in Lags : ClaimRow(w, j, lag)
    /\ phase' = [phase EXCEPT ![w] = "claimed"]
    /\ snapshot' = [snapshot EXCEPT ![w] = {}]
    /\ UNCHANGED <<available_in, lease_lost, outcome, crashes>>

\* claim returns None: no row of the snapshot still qualifies.
ClaimNone(w) ==
    /\ phase[w] = "claiming"
    /\ \E lag \in Lags : \A j \in snapshot[w] : ~Claimable(j, lag)
    /\ NoWork(w, "polling")
    /\ UNCHANGED <<rowVars, crashes>>

-----------------------------------------------------------------------------
(* run_once after a claim. *)

\* Mutant: cancelled() that only asks for the job's status.
cancelled_StatusOnly(w) == status[job[w]] = "CANCELLED"
\* The closure cancelled() of run_once.
cancelled(w) == lease_lost[w] \/ status[job[w]] = "CANCELLED"

\* cancelled() before the processor starts.
StartProcessing(w) ==
    /\ phase[w] = "claimed"
    /\ IF cancelled(w)
       THEN NoWork(w, "polling")
       ELSE /\ phase' = [phase EXCEPT ![w] = "processing"]
            /\ UNCHANGED <<snapshot, job, token, lease_lost, outcome>>
    /\ UNCHANGED <<rowVars, crashes>>

\* One round of the heartbeat thread; a rejection sets lease_lost.
Heartbeat(w) ==
    /\ phase[w] = "processing"
    /\ ~lease_lost[w]
    /\ \E lag \in Lags :
        /\ ReadAfterGrant(w, lag)
        /\ \/ /\ Owns(w, lag)
              /\ lease_left' = [lease_left EXCEPT ![job[w]] = lease_seconds - lag]
              /\ UNCHANGED lease_lost
           \/ /\ ~Owns(w, lag)
              /\ lease_lost' = [lease_lost EXCEPT ![w] = TRUE]
              /\ UNCHANGED lease_left
    /\ UNCHANGED <<status, attempt_count, available_in, lease_token, events,
                   phase, snapshot, job, token, outcome, crashes>>

\* The heartbeat or an is_cancelled query fails: ownership counts as lost.
LeaseCheckUnavailable(w) ==
    /\ phase[w] \in {"claimed", "processing", "processed"}
    /\ ~lease_lost[w]
    /\ lease_lost' = [lease_lost EXCEPT ![w] = TRUE]
    /\ UNCHANGED <<rowVars, phase, snapshot, job, token, outcome, crashes>>

\* The processor returns or raises RetryableJobError / NonRetryableJobError;
\* the heartbeat thread is stopped and joined.
FinishProcessing(w) ==
    /\ phase[w] = "processing"
    /\ \E o \in Outcomes : outcome' = [outcome EXCEPT ![w] = o]
    /\ phase' = [phase EXCEPT ![w] = "processed"]
    /\ UNCHANGED <<rowVars, snapshot, job, token, lease_lost, crashes>>

\* cancelled() after the processor: a lost or cancelled job is not reported.
CheckCancelled(w) ==
    /\ phase[w] = "processed"
    /\ IF cancelled(w)
       THEN NoWork(w, "polling")
       ELSE /\ phase' = [phase EXCEPT ![w] = "reporting"]
            /\ UNCHANGED <<snapshot, job, token, lease_lost, outcome>>
    /\ UNCHANGED <<rowVars, crashes>>

\* The end of an attempt clears the lease and records the event.
EndAttempt(j, target, event) ==
    /\ status' = [status EXCEPT ![j] = target]
    /\ lease_token' = [lease_token EXCEPT ![j] = 0]
    /\ lease_left' = [lease_left EXCEPT ![j] = 0]
    /\ AppendEvent(j, event)

\* complete: only with the current, unexpired lease.
Complete(w) ==
    /\ phase[w] = "reporting"
    /\ outcome[w] \in {"complete", "partial"}
    /\ \E lag \in Lags : ReadAfterGrant(w, lag) /\ Owns(w, lag)
    /\ IF outcome[w] = "partial" THEN EndAttempt(job[w], "PARTIAL", "JOB_PARTIAL")
                                 ELSE EndAttempt(job[w], "COMPLETED", "JOB_COMPLETED")
    /\ NoWork(w, "polling")
    /\ UNCHANGED <<attempt_count, available_in, crashes>>

FailedStatus(w) ==
    IF outcome[w] = "fail-terminal" THEN "FAILED" ELSE RetryStatus(job[w])
FailedDelay(w) ==
    IF outcome[w] = "fail-terminal" THEN 0 ELSE RetryDelay(job[w])
FailedEvent(w) ==
    CASE FailedStatus(w) = "FAILED" -> "JOB_FAILED"
      [] FailedStatus(w) = "RETRY_WAIT" -> "JOB_RETRY_WAIT"
      [] OTHER -> "JOB_DEAD_LETTER"

\* fail: the same condition; the job waits for a retry, dies or fails.
FailRow(w, lag) ==
    /\ ReadAfterGrant(w, lag)
    /\ Owns(w, lag)
    /\ EndAttempt(job[w], FailedStatus(w), FailedEvent(w))
    /\ available_in' = [available_in EXCEPT ![job[w]] = FailedDelay(w) - lag]

Fail(w) ==
    /\ phase[w] = "reporting"
    /\ outcome[w] \in {"fail-retryable", "fail-terminal"}
    /\ \E lag \in Lags : FailRow(w, lag)
    /\ NoWork(w, "polling")
    /\ UNCHANGED <<attempt_count, crashes>>

\* complete or fail raises LeaseRejected, which nothing in run_once or
\* run_worker catches: the worker process ends.
ReportRejected(w) ==
    /\ phase[w] = "reporting"
    /\ \E lag \in Lags : ReadAfterGrant(w, lag) /\ ~Owns(w, lag)
    /\ NoWork(w, "down")
    /\ UNCHANGED <<rowVars, crashes>>

-----------------------------------------------------------------------------
(* The environment. *)

\* The process dies; so does one whose processor raises anything else.
Crash(w) ==
    /\ phase[w] # "down"
    /\ crashes < MaxCrashes
    /\ crashes' = crashes + 1
    /\ NoWork(w, "down")
    /\ UNCHANGED rowVars

Restart(w) ==
    /\ phase[w] = "down"
    /\ phase' = [phase EXCEPT ![w] = "polling"]
    /\ UNCHANGED <<rowVars, snapshot, job, token, lease_lost, outcome, crashes>>

\* One tick passes.  No clock value in use is older than MaxClockLag, so how
\* far a time lies beyond that in the past makes no difference.
Earlier(t) == IF t > -MaxClockLag THEN t - 1 ELSE t

Tick ==
    /\ available_in' = [j \in Jobs |-> Earlier(available_in[j])]
    /\ lease_left' = [j \in Jobs |->
         IF status[j] = "RUNNING" THEN Earlier(lease_left[j]) ELSE lease_left[j]]
    /\ UNCHANGED <<status, attempt_count, lease_token, events, workerVars, crashes>>

-----------------------------------------------------------------------------
WorkerStep(w) ==
    \/ RecoverStale(w)
    \/ ClaimSnapshot(w)
    \/ ClaimLock(w)
    \/ ClaimNone(w)
    \/ StartProcessing(w)
    \/ FinishProcessing(w)
    \/ CheckCancelled(w)
    \/ Complete(w)
    \/ Fail(w)
    \/ ReportRejected(w)

Next ==
    \/ \E j \in Jobs : Submit(j) \/ Cancel(j) \/ Requeue(j)
    \/ \E w \in Workers :
        \/ WorkerStep(w)
        \/ Heartbeat(w)
        \/ LeaseCheckUnavailable(w)
        \/ Crash(w)
        \/ Restart(w)
    \/ Tick

Spec == Init /\ [][Next]_vars

\* The worker threads are scheduled, the processor returns (every provider call
\* has a timeout), time passes, and a dead worker is started again.
Fairness ==
    /\ \A w \in Workers : WF_vars(WorkerStep(w)) /\ WF_vars(Restart(w))
    /\ WF_vars(Tick)

FairSpec == Spec /\ Fairness

-----------------------------------------------------------------------------
(* Properties. *)

\* Types: every row satisfies the constraints of research_jobs, and a worker
\* has a job exactly between its claim and its report.
TypeOK ==
    /\ status \in [Jobs -> L!JobStatus \cup {"ABSENT"}]
    /\ attempt_count \in [Jobs -> Nat]
    /\ available_in \in [Jobs -> AvailableRange]
    /\ lease_token \in [Jobs -> Nat]
    /\ lease_left \in [Jobs -> LeaseRange]
    /\ events \in [Jobs -> Seq(EventTypes)]
    /\ phase \in [Workers -> Phases]
    /\ snapshot \in [Workers -> SUBSET Jobs]
    /\ job \in [Workers -> Jobs \cup {NoJob}]
    /\ token \in [Workers -> Nat]
    /\ lease_lost \in [Workers -> BOOLEAN]
    /\ outcome \in [Workers -> Outcomes \cup {"none"}]
    /\ crashes \in Nat

HoldsLease(w) == job[w] # NoJob /\ lease_token[job[w]] = token[w]

\* Whatever crashes, late heartbeats and recoveries happen, at most one worker
\* holds a token that heartbeat, complete and fail would accept for a job
\* (docs/OPERATIONS.md: "only the current token can complete a job").
SingleLeaseHolder ==
    \A v, w \in Workers :
        HoldsLease(v) /\ HoldsLease(w) /\ job[v] = job[w] => v = w

\* claim() has no test on attempt_count: that no job is attempted more than
\* max_attempts times rests on fail and recover_stale never making a job
\* claimable again whose attempts are used up.
AttemptsBounded == \A j \in Jobs : attempt_count[j] <= max_attempts

\* The strengthening that makes SingleLeaseHolder, AttemptsBounded and
\* LostLeaseNotReported inductive.  A worker has a job exactly between its
\* claim and its report ...
Busy == {"claimed", "processing", "processed", "reporting"}
WorkerInv ==
    \A w \in Workers :
        /\ job[w] # NoJob <=> phase[w] \in Busy
        /\ lease_lost[w] => phase[w] \in {"claimed", "processing", "processed"}
\* ... its token is the number of an event that is already in the job's
\* history, and no two workers ever got the same one, so a token handed out
\* later is always new ...
TokenInv ==
    /\ \A w \in Workers : job[w] # NoJob => token[w] \in 1..Len(events[job[w]])
    /\ \A v, w \in Workers :
         job[w] # NoJob /\ job[v] = job[w] /\ token[v] = token[w] => v = w
\* ... and a job that may still be claimed has an attempt left.
AttemptInv ==
    \A j \in Jobs :
        /\ attempt_count[j] <= max_attempts
        /\ status[j] \in {"ABSENT", "QUEUED", "RETRY_WAIT"} =>
             attempt_count[j] < max_attempts
IInv == TypeOK /\ WorkerInv /\ TokenInv /\ AttemptInv

\* A worker whose heartbeat was rejected, or that could not check, never gets
\* to complete or fail (docs/OPERATIONS.md: "must not write a terminal job
\* state").
LostLeaseNotReported == \A w \in Workers : lease_lost[w] => phase[w] # "reporting"

\* A RUNNING job stops running for one of three reasons only: the worker that
\* holds its lease reports it, its lease has run out, or it is cancelled.  No
\* recovery, however old the clock value it uses, takes a live lease away, and
\* no superseded worker ends somebody else's attempt.
LeaseRespected ==
    [][\A j \in Jobs :
        status[j] = "RUNNING" /\ status'[j] # "RUNNING" =>
            \/ status'[j] = "CANCELLED"
            \/ lease_left[j] <= 0 /\ status'[j] \in {"RETRY_WAIT", "DEAD_LETTER"}
            \/ \E w \in Workers :
                 HoldsLease(w) /\ job[w] = j /\ phase[w] = "reporting"]_vars

\* The repository's SQL moves jobs only along the table of jobs/lifecycle.py;
\* in particular a CANCELLED job stays cancelled.
ImplementsLifecycle == L!Spec

\* The JOB_CLAIMED events since the job was last (re)queued.
ClaimsInLog(j) ==
    LET queued == {i \in DOMAIN events[j] :
                     events[j][i] \in {"JOB_QUEUED", "JOB_REQUEUED"}}
    IN  {i \in DOMAIN events[j] :
           events[j][i] = "JOB_CLAIMED" /\ \A q \in queued : q < i}
LastEvent(j) == events[j][Len(events[j])]

\* The append-only event history accounts for the row: it shows as many claims
\* since the last queueing as the row has attempts, the claim that holds the
\* lease is the last event of a RUNNING job, and the last event of any other
\* job is one that leads to its status.
HistoryExplainsRow ==
    \A j \in Jobs : status[j] # "ABSENT" =>
        /\ Cardinality(ClaimsInLog(j)) = attempt_count[j]
        /\ CASE status[j] = "QUEUED" -> LastEvent(j) \in {"JOB_QUEUED", "JOB_REQUEUED"}
             [] status[j] = "RUNNING" -> /\ LastEvent(j) = "JOB_CLAIMED"
                                         /\ lease_token[j] = Len(events[j])
             [] status[j] = "CANCELLED" -> LastEvent(j) = "JOB_CANCELLED"
             [] status[j] = "COMPLETED" -> LastEvent(j) = "JOB_COMPLETED"
             [] status[j] = "PARTIAL" -> LastEvent(j) = "JOB_PARTIAL"
             [] status[j] = "FAILED" -> LastEvent(j) = "JOB_FAILED"
             [] status[j] = "RETRY_WAIT" ->
                  LastEvent(j) \in {"JOB_RETRY_WAIT", "JOB_STALE_LEASE_RECOVERED"}
             [] OTHER -> LastEvent(j) \in {"JOB_DEAD_LETTER", "JOB_STALE_LEASE_RECOVERED"}

\* Every submitted job reaches a terminal status, although workers crash, lose
\* leases or are rejected: recovery and the attempt limit make it converge.
EveryJobEnds ==
    \A j \in Jobs :
        status[j] \in {"QUEUED", "RUNNING", "RETRY_WAIT"} ~> status[j] \in L!Terminal
=============================================================================
