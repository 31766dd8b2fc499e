------------------------ MODULE ResearchJobs_proofs -------------------------
(***************************************************************************)
(* Proofs about ResearchJobs for any number of jobs, tenants and workers,  *)
(* any job policy and any bounds.                                          *)
(***************************************************************************)
EXTENDS ResearchJobs, FiniteSetTheorems, TLAPS

(***************************************************************************)
(* Lemmas about the operators.                                             *)
(***************************************************************************)

\* jobs/lifecycle.py retry_delay yields a delay within the configured ceiling.
LEMMA RetryDelayBounded ==
    ASSUME NEW n
    PROVE  retry_delay(n) \in 0..maximum_backoff_seconds
BY PolicyAssumption DEF retry_delay

\* Where an attempt that may be repeated leaves the job, and when it is next
\* available.
LEMMA RetryTypes ==
    ASSUME NEW j
    PROVE  /\ RetryStatus(j) \in {"RETRY_WAIT", "DEAD_LETTER"}
           /\ RetryStatus(j) = "RETRY_WAIT" => attempt_count[j] < max_attempts
           /\ RetryDelay(j) \in 0..maximum_backoff_seconds
<1>1. maximum_backoff_seconds \in Nat
  BY PolicyAssumption
<1>2. retry_delay(attempt_count[j]) \in 0..maximum_backoff_seconds
  BY <1>1, RetryDelayBounded
<1> QED
  BY <1>1, <1>2 DEF RetryStatus, RetryDelay

\* Times computed from a clock value that is at most MaxClockLag old, and what
\* is left of them a tick later, stay in range.
LEMMA TimeRanges ==
    /\ 0 \in AvailableRange /\ 0 \in LeaseRange
    /\ \A lag \in Lags : lease_seconds - lag \in LeaseRange
    /\ \A lag \in Lags, d \in 0..maximum_backoff_seconds : d - lag \in AvailableRange
    /\ \A t \in AvailableRange : Earlier(t) \in AvailableRange
    /\ \A t \in LeaseRange : Earlier(t) \in LeaseRange
BY PolicyAssumption, BoundAssumption DEF AvailableRange, LeaseRange, Lags, Earlier

\* Every action that ends the work of a worker leaves the worker's part of the
\* state typed.
LEMMA NoWorkTypes ==
    ASSUME TypeOK, NEW w \in Workers, NEW p \in Phases, NoWork(w, p)
    PROVE  /\ phase' \in [Workers -> Phases]
           /\ snapshot' \in [Workers -> SUBSET Jobs]
           /\ job' \in [Workers -> Jobs \cup {NoJob}]
           /\ token' \in [Workers -> Nat]
           /\ lease_lost' \in [Workers -> BOOLEAN]
           /\ outcome' \in [Workers -> Outcomes \cup {"none"}]
BY DEF TypeOK, NoWork

\* The end of an attempt leaves the job rows typed.
LEMMA EndAttemptTypes ==
    ASSUME TypeOK, NEW j \in Jobs, NEW s \in L!JobStatus, NEW e \in EventTypes,
           EndAttempt(j, s, e)
    PROVE  /\ status' \in [Jobs -> L!JobStatus \cup {"ABSENT"}]
           /\ lease_token' \in [Jobs -> Nat]
           /\ lease_left' \in [Jobs -> LeaseRange]
           /\ events' \in [Jobs -> Seq(EventTypes)]
BY TimeRanges DEF TypeOK, EndAttempt, AppendEvent

\* Empty tables and workers that have just started polling are typed.
LEMMA InitTyped == Init => TypeOK
<1> SUFFICES ASSUME Init PROVE TypeOK
  OBVIOUS
<1>1. <<>> \in Seq(EventTypes)
  OBVIOUS
<1> QED
  BY <1>1, TimeRanges DEF Init, TypeOK, Phases

\* Every operation of the repository and of a worker, taken in a state that
\* satisfies the inductive invariant, leaves rows and workers typed.
LEMMA StepTyped == IInv /\ [Next]_vars => TypeOK'
<1> SUFFICES ASSUME TypeOK, WorkerInv, [Next]_vars
             PROVE  TypeOK'
  BY DEF IInv
<1> USE DEF TypeOK
<1>0. \A w \in Workers : phase[w] \in Busy => job[w] \in Jobs
  BY DEF WorkerInv
<1>1. ASSUME NEW j \in Jobs, Submit(j) PROVE TypeOK'
  BY <1>1 DEF Submit, AppendEvent, EventTypes, workerVars, L!JobStatus, L!Requeueable
<1>2. ASSUME NEW j \in Jobs, Cancel(j) PROVE TypeOK'
  BY <1>2, TimeRanges DEF Cancel, AppendEvent, EventTypes, workerVars, L!JobStatus
<1>3. ASSUME NEW j \in Jobs, Requeue(j) PROVE TypeOK'
  BY <1>3, TimeRanges DEF Requeue, AppendEvent, EventTypes, workerVars, L!JobStatus
<1>4. ASSUME NEW w \in Workers, RecoverStale(w) PROVE TypeOK'
  <2>1. PICK lag \in Lags : RecoverRows(lag)
    BY <1>4 DEF RecoverStale
  <2>3. \A j \in Jobs : RetryStatus(j) \in L!JobStatus /\ RetryDelay(j) - lag \in AvailableRange
    BY RetryTypes, TimeRanges DEF L!JobStatus
  <2>4. status' \in [Jobs -> L!JobStatus \cup {"ABSENT"}] /\ available_in' \in [Jobs -> AvailableRange]
    BY <2>1, <2>3 DEF RecoverRows
  <2>5. events' \in [Jobs -> Seq(EventTypes)]
    BY <2>1 DEF RecoverRows, EventTypes
  <2>6. lease_token' \in [Jobs -> Nat] /\ lease_left' \in [Jobs -> LeaseRange]
    BY <2>1, TimeRanges DEF RecoverRows
  <2> QED
    BY <1>4, <2>4, <2>5, <2>6 DEF RecoverStale, Phases
<1>5. ASSUME NEW w \in Workers, ClaimSnapshot(w) PROVE TypeOK'
  BY <1>5 DEF ClaimSnapshot, rowVars, Phases
<1>6. ASSUME NEW w \in Workers, ClaimLock(w) PROVE TypeOK'
  <2>1. PICK j \in snapshot[w], lag \in Lags : ClaimRow(w, j, lag)
    BY <1>6 DEF ClaimLock
  <2>2. j \in Jobs
    OBVIOUS
  <2>3. Len(events[j]) + 1 \in Nat
    BY <2>2
  <2>4. events' \in [Jobs -> Seq(EventTypes)]
    BY <2>1, <2>2 DEF ClaimRow, AppendEvent, EventTypes
  <2>5. status' \in [Jobs -> L!JobStatus \cup {"ABSENT"}]
    BY <2>1, <2>2 DEF ClaimRow, L!JobStatus
  <2>6. /\ lease_token' \in [Jobs -> Nat]
        /\ lease_left' \in [Jobs -> LeaseRange]
        /\ attempt_count' \in [Jobs -> Nat]
        /\ job' \in [Workers -> Jobs \cup {NoJob}]
        /\ token' \in [Workers -> Nat]
    BY <2>1, <2>2, <2>3, TimeRanges DEF ClaimRow
  <2> QED
    BY <1>6, <2>4, <2>5, <2>6 DEF ClaimLock, Phases
<1>7. ASSUME NEW w \in Workers, ClaimNone(w) PROVE TypeOK'
  BY <1>7, NoWorkTypes DEF ClaimNone, Phases, rowVars
<1>8. ASSUME NEW w \in Workers, StartProcessing(w) PROVE TypeOK'
  BY <1>8, NoWorkTypes DEF StartProcessing, Phases, rowVars
<1>9. ASSUME NEW w \in Workers, FinishProcessing(w) PROVE TypeOK'
  BY <1>9 DEF FinishProcessing, Phases, rowVars
<1>10. ASSUME NEW w \in Workers, CheckCancelled(w) PROVE TypeOK'
  BY <1>10, NoWorkTypes DEF CheckCancelled, Phases, rowVars
<1>11. ASSUME NEW w \in Workers, Complete(w) PROVE TypeOK'
  <2>1. job[w] \in Jobs /\ "polling" \in Phases
    BY <1>11, <1>0 DEF Complete, Busy, Phases
  <2>2. /\ "PARTIAL" \in L!JobStatus /\ "COMPLETED" \in L!JobStatus
        /\ "JOB_PARTIAL" \in EventTypes /\ "JOB_COMPLETED" \in EventTypes
    BY DEF L!JobStatus, EventTypes
  <2>3. /\ status' \in [Jobs -> L!JobStatus \cup {"ABSENT"}]
        /\ lease_token' \in [Jobs -> Nat]
        /\ lease_left' \in [Jobs -> LeaseRange]
        /\ events' \in [Jobs -> Seq(EventTypes)]
    BY <1>11, <2>1, <2>2, EndAttemptTypes DEF Complete
  <2> QED
    BY <1>11, <2>1, <2>3, NoWorkTypes DEF Complete
<1>12. ASSUME NEW w \in Workers, Fail(w) PROVE TypeOK'
  <2>1. job[w] \in Jobs /\ "polling" \in Phases
    BY <1>12, <1>0 DEF Fail, Busy, Phases
  <2>2. PICK lag \in Lags : FailRow(w, lag)
    BY <1>12 DEF Fail
  <2>3. FailedDelay(w) - lag \in AvailableRange
    <3>1. FailedDelay(w) \in 0..maximum_backoff_seconds
      BY RetryTypes, PolicyAssumption DEF FailedDelay
    <3> QED
      BY <3>1, TimeRanges
  <2>4. FailedStatus(w) \in L!JobStatus
    BY <2>1, RetryTypes DEF FailedStatus, L!JobStatus
  <2>5. FailedEvent(w) \in EventTypes
    BY DEF FailedEvent, EventTypes
  <2>6. available_in' \in [Jobs -> AvailableRange]
    BY <2>1, <2>2, <2>3 DEF FailRow
  <2> QED
    BY <1>12, <2>1, <2>2, <2>4, <2>5, <2>6, NoWorkTypes, EndAttemptTypes
       DEF Fail, FailRow
<1>13. ASSUME NEW w \in Workers, ReportRejected(w) PROVE TypeOK'
  BY <1>13, NoWorkTypes DEF ReportRejected, Phases, rowVars
<1>14. ASSUME NEW w \in Workers, Heartbeat(w) PROVE TypeOK'
  <2>1. PICK lag \in Lags : \/ /\ lease_left' = [lease_left EXCEPT ![job[w]] = lease_seconds - lag]
                               /\ lease_lost' = lease_lost
                            \/ /\ lease_lost' = [lease_lost EXCEPT ![w] = TRUE]
                               /\ lease_left' = lease_left
    BY <1>14 DEF Heartbeat
  <2>2. lease_seconds - lag \in LeaseRange
    BY TimeRanges
  <2>3. lease_left' \in [Jobs -> LeaseRange] /\ lease_lost' \in [Workers -> BOOLEAN]
    BY <2>1, <2>2
  <2> QED
    BY <1>14, <2>3 DEF Heartbeat
<1>15. ASSUME NEW w \in Workers, LeaseCheckUnavailable(w) PROVE TypeOK'
  BY <1>15 DEF LeaseCheckUnavailable, rowVars
<1>16. ASSUME NEW w \in Workers, Crash(w) PROVE TypeOK'
  BY <1>16, NoWorkTypes DEF Crash, Phases, rowVars
<1>17. ASSUME NEW w \in Workers, Restart(w) PROVE TypeOK'
  BY <1>17 DEF Restart, Phases, rowVars
<1>18. ASSUME Tick PROVE TypeOK'
  BY <1>18, TimeRanges DEF Tick, workerVars
<1>19. CASE UNCHANGED vars
  BY <1>19 DEF vars, rowVars, workerVars
<1> QED
  BY <1>1, <1>2, <1>3, <1>4, <1>5, <1>6, <1>7, <1>8, <1>9, <1>10, <1>11, <1>12,
     <1>13, <1>14, <1>15, <1>16, <1>17, <1>18, <1>19 DEF Next, WorkerStep

(***************************************************************************)
(* The inductive invariant.                                                *)
(***************************************************************************)

\* A worker has a job exactly between its claim and its report, and one that
\* lost its lease does not get as far as reporting.
LEMMA StepWorkerInv == IInv /\ [Next]_vars => WorkerInv'
<1> SUFFICES ASSUME TypeOK, WorkerInv, [Next]_vars
             PROVE  WorkerInv'
  BY DEF IInv
<1>a. ASSUME NEW w \in Workers, NEW p \in Phases \ Busy, NoWork(w, p)
      PROVE  WorkerInv'
  BY <1>a DEF NoWork, WorkerInv, TypeOK
<1>b. "polling" \in Phases \ Busy /\ "down" \in Phases \ Busy
  BY DEF Phases, Busy
<1>c. ASSUME UNCHANGED workerVars PROVE WorkerInv'
  BY <1>c DEF workerVars, WorkerInv
<1>1. ASSUME NEW j \in Jobs, Submit(j) \/ Cancel(j) \/ Requeue(j) PROVE WorkerInv'
  BY <1>1, <1>c DEF Submit, Cancel, Requeue
<1>2. ASSUME NEW w \in Workers, RecoverStale(w) \/ ClaimSnapshot(w) \/ Restart(w)
      PROVE  WorkerInv'
  BY <1>2 DEF RecoverStale, ClaimSnapshot, Restart, WorkerInv, TypeOK, Busy
<1>3. ASSUME NEW w \in Workers, ClaimLock(w) PROVE WorkerInv'
  <2>1. PICK j \in snapshot[w], lag \in Lags : ClaimRow(w, j, lag)
    BY <1>3 DEF ClaimLock
  <2>2. j \in Jobs /\ j # NoJob
    BY NoJobAssumption DEF TypeOK
  <2> QED
    BY <1>3, <2>1, <2>2 DEF ClaimLock, ClaimRow, WorkerInv, TypeOK, Busy
<1>4. ASSUME NEW w \in Workers, StartProcessing(w) PROVE WorkerInv'
  <2>1. CASE NoWork(w, "polling")
    BY <2>1, <1>a, <1>b
  <2>2. CASE ~cancelled(w)
    BY <1>4, <2>2 DEF StartProcessing, cancelled, WorkerInv, TypeOK, Busy
  <2> QED
    BY <1>4, <2>1, <2>2 DEF StartProcessing
<1>5. ASSUME NEW w \in Workers, CheckCancelled(w) PROVE WorkerInv'
  <2>1. CASE NoWork(w, "polling")
    BY <2>1, <1>a, <1>b
  <2>2. CASE ~cancelled(w)
    BY <1>5, <2>2 DEF CheckCancelled, cancelled, WorkerInv, TypeOK, Busy
  <2> QED
    BY <1>5, <2>1, <2>2 DEF CheckCancelled
<1>6. ASSUME NEW w \in Workers, FinishProcessing(w) PROVE WorkerInv'
  BY <1>6 DEF FinishProcessing, WorkerInv, TypeOK, Busy
<1>7. ASSUME NEW w \in Workers,
             ClaimNone(w) \/ Complete(w) \/ Fail(w) \/ ReportRejected(w) \/ Crash(w)
      PROVE  WorkerInv'
  BY <1>7, <1>a, <1>b DEF ClaimNone, Complete, Fail, ReportRejected, Crash
<1>8. ASSUME NEW w \in Workers, Heartbeat(w) PROVE WorkerInv'
  BY <1>8 DEF Heartbeat, WorkerInv, TypeOK, Busy
<1>9. ASSUME NEW w \in Workers, LeaseCheckUnavailable(w) PROVE WorkerInv'
  BY <1>9 DEF LeaseCheckUnavailable, WorkerInv, TypeOK, Busy
<1>10. CASE Tick \/ UNCHANGED vars
  BY <1>10, <1>c DEF Tick, vars
<1> QED
  BY <1>1, <1>2, <1>3, <1>4, <1>5, <1>6, <1>7, <1>8, <1>9, <1>10 DEF Next, WorkerStep

\* No step shortens a job's history.
LEMMA EventsGrow ==
    ASSUME IInv, [Next]_vars, NEW j \in Jobs
    PROVE  Len(events'[j]) >= Len(events[j])
<1> USE DEF IInv, TypeOK
<1>1. events[j] \in Seq(EventTypes) /\ Len(events[j]) \in Nat
  OBVIOUS
<1>2. \A e : Len(Append(events[j], e)) = Len(events[j]) + 1
  BY <1>1
<1>3. ASSUME NEW i, NEW e, AppendEvent(i, e)
      PROVE  Len(events'[j]) >= Len(events[j])
  <2>1. events'[j] = IF i = j THEN Append(events[j], e) ELSE events[j]
    BY <1>3 DEF AppendEvent
  <2> QED
    BY <2>1, <1>1, <1>2
<1>4. CASE UNCHANGED events
  BY <1>1, <1>4
<1>5. ASSUME NEW i \in Jobs, Submit(i) \/ Cancel(i) \/ Requeue(i)
      PROVE  Len(events'[j]) >= Len(events[j])
  BY <1>5, <1>3 DEF Submit, Cancel, Requeue
<1>6. ASSUME NEW w \in Workers, RecoverStale(w)
      PROVE  Len(events'[j]) >= Len(events[j])
  <2>1. \/ events'[j] = Append(events[j], "JOB_STALE_LEASE_RECOVERED")
        \/ events'[j] = events[j]
    BY <1>6 DEF RecoverStale, RecoverRows
  <2> QED
    BY <2>1, <1>1, <1>2
<1>7. ASSUME NEW w \in Workers, ClaimLock(w) \/ Complete(w) \/ Fail(w)
      PROVE  Len(events'[j]) >= Len(events[j])
  BY <1>7, <1>3 DEF ClaimLock, ClaimRow, Complete, Fail, FailRow, EndAttempt
<1>8. ASSUME NEW w \in Workers,
             \/ ClaimSnapshot(w) \/ ClaimNone(w) \/ StartProcessing(w)
             \/ FinishProcessing(w) \/ CheckCancelled(w) \/ ReportRejected(w)
             \/ Heartbeat(w) \/ LeaseCheckUnavailable(w) \/ Crash(w) \/ Restart(w)
      PROVE  UNCHANGED events
  BY <1>8 DEF ClaimSnapshot, ClaimNone, StartProcessing, FinishProcessing,
     CheckCancelled, ReportRejected, Heartbeat, LeaseCheckUnavailable, Crash,
     Restart, rowVars
<1>9. ASSUME Tick \/ UNCHANGED vars PROVE UNCHANGED events
  BY <1>9 DEF Tick, vars, rowVars
<1> QED
  BY <1>4, <1>5, <1>6, <1>7, <1>8, <1>9 DEF Next, WorkerStep

\* Tokens stay within the history, and a new one differs from all others.
LEMMA StepTokenInv == IInv /\ [Next]_vars => TokenInv'
<1> SUFFICES ASSUME IInv, [Next]_vars
             PROVE  TokenInv'
  OBVIOUS
<1>t. TypeOK /\ TypeOK' /\ TokenInv
  BY StepTyped DEF IInv
<1>g. \A j \in Jobs : /\ Len(events[j]) \in Nat /\ Len(events'[j]) \in Nat
                      /\ Len(events'[j]) >= Len(events[j])
  BY <1>t, EventsGrow DEF TypeOK
<1>a. ASSUME UNCHANGED <<job, token>> PROVE TokenInv'
  BY <1>a, <1>t, <1>g DEF TokenInv, TypeOK
<1>b. ASSUME NEW w \in Workers, NEW p, NoWork(w, p) PROVE TokenInv'
  <2>1. \A v \in Workers : job'[v] # NoJob => job'[v] = job[v] /\ token'[v] = token[v]
    BY <1>b, <1>t DEF NoWork, TypeOK
  <2> QED
    BY <2>1, <1>t, <1>g DEF TokenInv, TypeOK
<1>1. ASSUME NEW j \in Jobs, Submit(j) \/ Cancel(j) \/ Requeue(j) PROVE TokenInv'
  BY <1>1, <1>a DEF Submit, Cancel, Requeue, workerVars
<1>2. ASSUME NEW w \in Workers,
             \/ RecoverStale(w) \/ ClaimSnapshot(w) \/ Restart(w) \/ Heartbeat(w)
             \/ LeaseCheckUnavailable(w) \/ FinishProcessing(w)
      PROVE  TokenInv'
  BY <1>2, <1>a DEF RecoverStale, ClaimSnapshot, Restart, Heartbeat,
     LeaseCheckUnavailable, FinishProcessing
<1>3. ASSUME NEW w \in Workers,
             ClaimNone(w) \/ Complete(w) \/ Fail(w) \/ ReportRejected(w) \/ Crash(w)
      PROVE  TokenInv'
  BY <1>3, <1>b DEF ClaimNone, Complete, Fail, ReportRejected, Crash
<1>4. ASSUME NEW w \in Workers, StartProcessing(w) \/ CheckCancelled(w) PROVE TokenInv'
  BY <1>4, <1>a, <1>b DEF StartProcessing, CheckCancelled
<1>5. ASSUME NEW w \in Workers, ClaimLock(w) PROVE TokenInv'
  <2>1. PICK j \in snapshot[w], lag \in Lags : ClaimRow(w, j, lag)
    BY <1>5 DEF ClaimLock
  <2>2. j \in Jobs
    BY <1>t DEF TypeOK
  <2>3. Len(events'[j]) = Len(events[j]) + 1
    BY <2>1, <2>2, <1>t DEF ClaimRow, AppendEvent, TypeOK
  <2>4. /\ job'[w] = j /\ token'[w] = Len(events[j]) + 1
        /\ \A v \in Workers \ {w} : job'[v] = job[v] /\ token'[v] = token[v]
    BY <2>1, <1>t DEF ClaimRow, TypeOK
  <2>5. ASSUME NEW v \in Workers, job[v] = j
        PROVE  token[v] # Len(events[j]) + 1
    <3>1. token[v] \in 1..Len(events[j])
      BY <2>2, <2>5, <1>t, NoJobAssumption DEF TokenInv
    <3> QED
      BY <3>1, <2>2, <1>g
  <2>6. ASSUME NEW v \in Workers, job'[v] # NoJob
        PROVE  token'[v] \in 1..Len(events'[job'[v]])
    <3>1. CASE v = w
      BY <3>1, <2>2, <2>3, <2>4, <1>g
    <3>2. CASE v # w
      <4>1. job'[v] = job[v] /\ token'[v] = token[v] /\ job[v] \in Jobs
        BY <3>2, <2>4, <2>6, <1>t DEF TypeOK
      <4>2. token[v] \in 1..Len(events[job[v]])
        BY <4>1, <2>6, <1>t DEF TokenInv
      <4> QED
        BY <4>1, <4>2, <1>g
    <3> QED
      BY <3>1, <3>2
  <2>7. ASSUME NEW v \in Workers, NEW u \in Workers,
               job'[u] # NoJob, job'[v] = job'[u], token'[v] = token'[u]
        PROVE  v = u
    BY <2>4, <2>5, <2>7, <1>t DEF TokenInv, TypeOK
  <2> QED
    BY <2>6, <2>7 DEF TokenInv
<1>6. CASE Tick \/ UNCHANGED vars
  BY <1>6, <1>a DEF Tick, vars, workerVars
<1> QED
  BY <1>1, <1>2, <1>3, <1>4, <1>5, <1>6 DEF Next, WorkerStep

\* A job that may be claimed has an attempt left.
LEMMA StepAttemptInv == IInv /\ [Next]_vars => AttemptInv'
<1> SUFFICES ASSUME TypeOK, WorkerInv, AttemptInv, [Next]_vars
             PROVE  AttemptInv'
  BY DEF IInv
<1> USE DEF TypeOK
<1>m. max_attempts \in Nat /\ 0 < max_attempts
  BY PolicyAssumption
<1>a. ASSUME UNCHANGED <<status, attempt_count>> PROVE AttemptInv'
  BY <1>a DEF AttemptInv
<1>b. ASSUME NEW i \in Jobs, NEW s, NEW e, EndAttempt(i, s, e), UNCHANGED attempt_count,
             s = "RETRY_WAIT" => attempt_count[i] < max_attempts,
             s \notin {"QUEUED", "ABSENT"}
      PROVE  AttemptInv'
  BY <1>b DEF EndAttempt, AttemptInv
<1>1. ASSUME NEW j \in Jobs, Submit(j) PROVE AttemptInv'
  BY <1>1 DEF Submit, AttemptInv
<1>2. ASSUME NEW j \in Jobs, Cancel(j) PROVE AttemptInv'
  BY <1>2 DEF Cancel, AttemptInv
<1>3. ASSUME NEW j \in Jobs, Requeue(j) PROVE AttemptInv'
  BY <1>3, <1>m DEF Requeue, AttemptInv
<1>4. ASSUME NEW w \in Workers, RecoverStale(w) PROVE AttemptInv'
  <2>1. \A j \in Jobs : status'[j] = status[j] \/ status'[j] = RetryStatus(j)
    BY <1>4 DEF RecoverStale, RecoverRows
  <2> QED
    BY <2>1, <1>4, RetryTypes DEF RecoverStale, AttemptInv
<1>5. ASSUME NEW w \in Workers, ClaimLock(w) PROVE AttemptInv'
  <2>1. PICK j \in snapshot[w], lag \in Lags : ClaimRow(w, j, lag)
    BY <1>5 DEF ClaimLock
  <2>2. j \in Jobs /\ attempt_count[j] < max_attempts
    BY <2>1 DEF ClaimRow, Claimable, AttemptInv
  <2> QED
    BY <2>1, <2>2, <1>m DEF ClaimRow, AttemptInv
<1>6. ASSUME NEW w \in Workers, Complete(w) PROVE AttemptInv'
  <2>1. job[w] \in Jobs
    BY <1>6 DEF Complete, WorkerInv, Busy
  <2> QED
    <3>1. CASE EndAttempt(job[w], "PARTIAL", "JOB_PARTIAL")
      BY <1>6, <2>1, <3>1 DEF Complete, EndAttempt, AttemptInv
    <3>2. CASE EndAttempt(job[w], "COMPLETED", "JOB_COMPLETED")
      BY <1>6, <2>1, <3>2 DEF Complete, EndAttempt, AttemptInv
    <3> QED
      BY <1>6, <3>1, <3>2 DEF Complete
<1>7. ASSUME NEW w \in Workers, Fail(w) PROVE AttemptInv'
  <2>1. job[w] \in Jobs
    BY <1>7 DEF Fail, WorkerInv, Busy
  <2>2. /\ FailedStatus(w) = "RETRY_WAIT" => attempt_count[job[w]] < max_attempts
        /\ FailedStatus(w) \notin {"QUEUED", "ABSENT"}
    BY RetryTypes DEF FailedStatus
  <2> QED
    BY <1>7, <2>1, <2>2, <1>b DEF Fail, FailRow
<1>8. ASSUME NEW w \in Workers,
             \/ ClaimSnapshot(w) \/ ClaimNone(w) \/ StartProcessing(w)
             \/ FinishProcessing(w) \/ CheckCancelled(w) \/ ReportRejected(w)
             \/ Heartbeat(w) \/ LeaseCheckUnavailable(w) \/ Crash(w) \/ Restart(w)
      PROVE  AttemptInv'
  BY <1>8, <1>a DEF ClaimSnapshot, ClaimNone, StartProcessing, FinishProcessing,
     CheckCancelled, ReportRejected, Heartbeat, LeaseCheckUnavailable, Crash,
     Restart, rowVars
<1>9. CASE Tick \/ UNCHANGED vars
  BY <1>9, <1>a DEF Tick, vars, rowVars
<1> QED
  BY <1>1, <1>2, <1>3, <1>4, <1>5, <1>6, <1>7, <1>8, <1>9 DEF Next, WorkerStep

\* The initial state satisfies the invariant and every step preserves it.
THEOREM Invariance == Spec => []IInv
<1>1. Init => IInv
  <2> SUFFICES ASSUME Init PROVE IInv
    OBVIOUS
  <2>1. WorkerInv
    BY DEF Init, WorkerInv, Busy
  <2>2. TokenInv
    BY DEF Init, TokenInv
  <2>3. AttemptInv
    BY PolicyAssumption DEF Init, AttemptInv
  <2> QED
    BY <2>1, <2>2, <2>3, InitTyped DEF IInv
<1>2. IInv /\ [Next]_vars => IInv'
  BY StepTyped, StepWorkerInv, StepTokenInv, StepAttemptInv DEF IInv
<1> QED
  BY <1>1, <1>2, PTL DEF Spec

(***************************************************************************)
(* What follows from it.                                                   *)
(***************************************************************************)

\* The rows and the workers of jobs/postgresql.py and jobs/worker.py keep
\* their types.
THEOREM TypeCorrect == Spec => []TypeOK
<1>1. IInv => TypeOK
  BY DEF IInv
<1> QED
  BY <1>1, Invariance, PTL

\* However many workers poll, crash and are superseded, at most one holds a
\* token that heartbeat, complete and fail accept for a job.
THEOREM LeaseExclusion == Spec => []SingleLeaseHolder
<1>1. IInv => SingleLeaseHolder
  BY DEF IInv, TokenInv, SingleLeaseHolder, HoldsLease
<1> QED
  BY <1>1, Invariance, PTL

\* No job is attempted more often than its policy allows, although claim()
\* does not look at attempt_count.
THEOREM AttemptLimit == Spec => []AttemptsBounded
<1>1. IInv => AttemptsBounded
  BY DEF IInv, AttemptInv, AttemptsBounded
<1> QED
  BY <1>1, Invariance, PTL

\* A worker that lost its lease never reaches complete or fail.
THEOREM LostLeaseSilent == Spec => []LostLeaseNotReported
<1>1. IInv => LostLeaseNotReported
  BY DEF IInv, WorkerInv, LostLeaseNotReported
<1> QED
  BY <1>1, Invariance, PTL

\* A RUNNING job stops running only because the holder of its lease reports
\* it, because its lease has run out, or because it is cancelled: neither
\* recover_stale with an old clock value nor a superseded worker interferes.
LEMMA StepLeaseRespected ==
    ASSUME IInv, [Next]_vars, NEW j \in Jobs,
           status[j] = "RUNNING", status'[j] # "RUNNING"
    PROVE  \/ status'[j] = "CANCELLED"
           \/ lease_left[j] <= 0 /\ status'[j] \in {"RETRY_WAIT", "DEAD_LETTER"}
           \/ \E w \in Workers :
                HoldsLease(w) /\ job[w] = j /\ phase[w] = "reporting"
<1> DEFINE Goal == \/ status'[j] = "CANCELLED"
                   \/ lease_left[j] <= 0 /\ status'[j] \in {"RETRY_WAIT", "DEAD_LETTER"}
                   \/ \E w \in Workers :
                        HoldsLease(w) /\ job[w] = j /\ phase[w] = "reporting"
<1>t. TypeOK /\ WorkerInv
  BY DEF IInv
<1>1. ASSUME NEW i \in Jobs, Submit(i) \/ Cancel(i) \/ Requeue(i) PROVE Goal
  BY <1>1, <1>t DEF Submit, Cancel, Requeue, TypeOK
<1>2. ASSUME NEW w \in Workers, RecoverStale(w) PROVE Goal
  <2>1. PICK lag \in Lags : RecoverRows(lag)
    BY <1>2 DEF RecoverStale
  <2>2. j \in Stale(lag) /\ status'[j] = RetryStatus(j)
    BY <2>1, <1>t DEF RecoverRows, TypeOK
  <2>3. lease_left[j] \in Int /\ lag \in Nat /\ lease_left[j] + lag <= 0
    BY <2>2, <1>t, BoundAssumption, PolicyAssumption DEF Stale, TypeOK, Lags, LeaseRange
  <2> QED
    BY <2>2, <2>3, RetryTypes
<1>3. ASSUME NEW w \in Workers, ClaimLock(w) PROVE Goal
  BY <1>3, <1>t DEF ClaimLock, ClaimRow, TypeOK
<1>4. ASSUME NEW w \in Workers, Complete(w) \/ Fail(w) PROVE Goal
  <2>1. job[w] \in Jobs /\ phase[w] = "reporting"
    BY <1>4, <1>t DEF Complete, Fail, WorkerInv, Busy, TypeOK
  <2>2. HoldsLease(w)
    BY <1>4, <2>1, NoJobAssumption DEF Complete, Fail, FailRow, Owns, HoldsLease
  <2>3. status'[j] # status[j] => job[w] = j
    BY <1>4, <2>1, <1>t DEF Complete, Fail, FailRow, EndAttempt, TypeOK
  <2> QED
    BY <2>1, <2>2, <2>3
<1>5. ASSUME NEW w \in Workers,
             \/ ClaimSnapshot(w) \/ ClaimNone(w) \/ StartProcessing(w)
             \/ FinishProcessing(w) \/ CheckCancelled(w) \/ ReportRejected(w)
             \/ Heartbeat(w) \/ LeaseCheckUnavailable(w) \/ Crash(w) \/ Restart(w)
      PROVE  Goal
  BY <1>5 DEF ClaimSnapshot, ClaimNone, StartProcessing, FinishProcessing,
     CheckCancelled, ReportRejected, Heartbeat, LeaseCheckUnavailable, Crash,
     Restart, rowVars
<1>6. CASE Tick \/ UNCHANGED vars
  BY <1>6 DEF Tick, vars, rowVars
<1> QED
  BY <1>1, <1>2, <1>3, <1>4, <1>5, <1>6 DEF Next, WorkerStep

\* A RUNNING job stops running only by its lease holder's report, an expired
\* lease or a cancellation: the step lemma, in every behaviour.
THEOREM LeaseSafety == Spec => LeaseRespected
<1>1. IInv /\ [Next]_vars =>
        [\A j \in Jobs :
            status[j] = "RUNNING" /\ status'[j] # "RUNNING" =>
                \/ status'[j] = "CANCELLED"
                \/ lease_left[j] <= 0 /\ status'[j] \in {"RETRY_WAIT", "DEAD_LETTER"}
                \/ \E w \in Workers :
                     HoldsLease(w) /\ job[w] = j /\ phase[w] = "reporting"]_vars
  BY StepLeaseRespected
<1> QED
  BY <1>1, Invariance, PTL DEF Spec, LeaseRespected

\* The SQL of jobs/postgresql.py moves jobs along the table of
\* jobs/lifecycle.py, which it never consults: every step of the repository is
\* a step of JobLifecycle or leaves the statuses alone.
LEMMA StepLifecycle == IInv /\ [Next]_vars => [L!Next]_status
<1> SUFFICES ASSUME IInv, [Next]_vars
             PROVE  [L!Next]_status
  OBVIOUS
<1>t. TypeOK /\ WorkerInv
  BY DEF IInv
<1>a. ASSUME NEW j \in Jobs, NEW s \in L!JobStatus, <<status[j], s>> \in L!Allowed,
             status' = [status EXCEPT ![j] = s]
      PROVE  L!Next
  BY <1>a DEF L!Next, L!Transition
<1>1. ASSUME NEW j \in Jobs, Submit(j) PROVE L!Next
  BY <1>1 DEF Submit, L!Next, L!Enqueue, L!Absent
<1>2. ASSUME NEW j \in Jobs, Cancel(j) PROVE L!Next
  <2>1. <<status[j], "CANCELLED">> \in L!Allowed /\ "CANCELLED" \in L!JobStatus
    BY <1>2 DEF Cancel, L!Allowed, L!JobStatus
  <2> QED
    BY <1>2, <2>1, <1>a DEF Cancel
<1>3. ASSUME NEW j \in Jobs, Requeue(j) PROVE L!Next
  <2>1. <<status[j], "QUEUED">> \in L!Allowed /\ "QUEUED" \in L!JobStatus
    BY <1>3 DEF Requeue, L!Allowed, L!Requeueable, L!JobStatus
  <2> QED
    BY <1>3, <2>1, <1>a DEF Requeue
<1>4. ASSUME NEW w \in Workers, RecoverStale(w) PROVE L!Next
  <2>1. PICK lag \in Lags : RecoverRows(lag)
    BY <1>4 DEF RecoverStale
  <2> DEFINE S == Stale(lag)
             target == [j \in S |-> RetryStatus(j)]
  <2>2. S \in SUBSET {j \in Jobs : status[j] = "RUNNING"}
    BY DEF Stale
  <2>3. target \in [S -> {"RETRY_WAIT", "DEAD_LETTER"}]
    BY RetryTypes
  <2>4. status' = [j \in Jobs |-> IF j \in S THEN target[j] ELSE status[j]]
    BY <2>1 DEF RecoverRows
  <2> HIDE DEF S, target
  <2> QED
    BY <2>2, <2>3, <2>4 DEF L!Next, L!RecoverMany
<1>5. ASSUME NEW w \in Workers, ClaimLock(w) PROVE L!Next
  <2>1. PICK j \in snapshot[w], lag \in Lags : ClaimRow(w, j, lag)
    BY <1>5 DEF ClaimLock
  <2>2. j \in Jobs
    BY <1>t DEF TypeOK
  <2>3. <<status[j], "RUNNING">> \in L!Allowed /\ "RUNNING" \in L!JobStatus
    BY <2>1 DEF ClaimRow, Claimable, L!Allowed, L!JobStatus
  <2> QED
    BY <2>1, <2>2, <2>3, <1>a DEF ClaimRow
<1>6. ASSUME NEW w \in Workers, Complete(w) \/ Fail(w) PROVE L!Next
  <2>1. job[w] \in Jobs /\ status[job[w]] = "RUNNING"
    BY <1>6, <1>t DEF Complete, Fail, FailRow, Owns, WorkerInv, Busy, TypeOK
  <2>2. PICK s \in {"COMPLETED", "PARTIAL", "RETRY_WAIT", "FAILED", "DEAD_LETTER"} :
          status' = [status EXCEPT ![job[w]] = s]
    <3>1. FailedStatus(w) \in {"RETRY_WAIT", "FAILED", "DEAD_LETTER"}
      BY RetryTypes DEF FailedStatus
    <3> QED
      BY <1>6, <3>1 DEF Complete, Fail, FailRow, EndAttempt
  <2>3. s \in L!JobStatus /\ <<status[job[w]], s>> \in L!Allowed
    BY <2>1 DEF L!Allowed, L!JobStatus
  <2> QED
    BY <2>1, <2>2, <2>3, <1>a
<1>7. ASSUME NEW w \in Workers,
             \/ ClaimSnapshot(w) \/ ClaimNone(w) \/ StartProcessing(w)
             \/ FinishProcessing(w) \/ CheckCancelled(w) \/ ReportRejected(w)
             \/ Heartbeat(w) \/ LeaseCheckUnavailable(w) \/ Crash(w) \/ Restart(w)
      PROVE  UNCHANGED status
  BY <1>7 DEF ClaimSnapshot, ClaimNone, StartProcessing, FinishProcessing,
     CheckCancelled, ReportRejected, Heartbeat, LeaseCheckUnavailable, Crash,
     Restart, rowVars
<1>8. ASSUME Tick \/ UNCHANGED vars PROVE UNCHANGED status
  BY <1>8 DEF Tick, vars, rowVars
<1> QED
  BY <1>1, <1>2, <1>3, <1>4, <1>5, <1>6, <1>7, <1>8 DEF Next, WorkerStep

\* The job queue implements the status table of jobs/lifecycle.py.
THEOREM LifecycleRefinement == Spec => ImplementsLifecycle
<1>1. Init => L!Init
  BY DEF Init, L!Init, L!Absent
<1> QED
  BY <1>1, StepLifecycle, Invariance, PTL DEF Spec, ImplementsLifecycle, L!Spec


(***************************************************************************)
(* The event history accounts for the row.                                 *)
(***************************************************************************)

\* The claims since the last (re)queueing in a history ...
ClaimsOf(log) ==
    {i \in DOMAIN log : /\ log[i] = "JOB_CLAIMED"
                        /\ \A q \in DOMAIN log :
                             log[q] \in {"JOB_QUEUED", "JOB_REQUEUED"} => q < i}
\* ... the events that lead to a status ...
LeadingTo(s) ==
    CASE s = "QUEUED" -> {"JOB_QUEUED", "JOB_REQUEUED"}
      [] s = "RUNNING" -> {"JOB_CLAIMED"}
      [] s = "CANCELLED" -> {"JOB_CANCELLED"}
      [] s = "COMPLETED" -> {"JOB_COMPLETED"}
      [] s = "PARTIAL" -> {"JOB_PARTIAL"}
      [] s = "FAILED" -> {"JOB_FAILED"}
      [] s = "RETRY_WAIT" -> {"JOB_RETRY_WAIT", "JOB_STALE_LEASE_RECOVERED"}
      [] OTHER -> {"JOB_DEAD_LETTER", "JOB_STALE_LEASE_RECOVERED"}
\* ... and a history that explains a row with status s, n attempts and token t.
Explains(log, s, n, t) ==
    /\ Cardinality(ClaimsOf(log)) = n
    /\ log[Len(log)] \in LeadingTo(s)
    /\ s = "RUNNING" => t = Len(log)

\* HistoryExplainsRow with what it needs to be inductive: a row that is not
\* there yet has no history and no attempts.
RowExplained(j) ==
    IF status[j] = "ABSENT"
    THEN events[j] = <<>> /\ attempt_count[j] = 0
    ELSE Explains(events[j], status[j], attempt_count[j], lease_token[j])
HistoryInv == \A j \in Jobs : RowExplained(j)

\* What one more event does to the claims of a history: queueing starts the
\* count again, a claim is counted, anything else leaves the count alone.
LEMMA ClaimsAppend ==
    ASSUME NEW log \in Seq(EventTypes), NEW e \in EventTypes
    PROVE  /\ e \in {"JOB_QUEUED", "JOB_REQUEUED"} => ClaimsOf(Append(log, e)) = {}
           /\ e = "JOB_CLAIMED" =>
                ClaimsOf(Append(log, e)) = ClaimsOf(log) \cup {Len(log) + 1}
           /\ e \notin {"JOB_QUEUED", "JOB_REQUEUED", "JOB_CLAIMED"} =>
                ClaimsOf(Append(log, e)) = ClaimsOf(log)
           /\ Len(log) + 1 \notin ClaimsOf(log)
<1> DEFINE new == Append(log, e)
<1>1. /\ Len(log) \in Nat
      /\ DOMAIN log = 1..Len(log)
      /\ DOMAIN new = 1..(Len(log) + 1)
      /\ new[Len(log) + 1] = e
      /\ \A i \in 1..Len(log) : new[i] = log[i]
  OBVIOUS
<1> HIDE DEF new
<1>2. ASSUME e \in {"JOB_QUEUED", "JOB_REQUEUED"}
      PROVE  ClaimsOf(new) = {}
  BY <1>1, <1>2 DEF ClaimsOf
<1>3. ASSUME e = "JOB_CLAIMED"
      PROVE  ClaimsOf(new) = ClaimsOf(log) \cup {Len(log) + 1}
  <2>1. ASSUME NEW i \in ClaimsOf(new) PROVE i \in ClaimsOf(log) \cup {Len(log) + 1}
    BY <1>1, <2>1 DEF ClaimsOf
  <2>2. ASSUME NEW i \in ClaimsOf(log) PROVE i \in ClaimsOf(new)
    BY <1>1, <1>3, <2>2 DEF ClaimsOf
  <2>3. Len(log) + 1 \in ClaimsOf(new)
    BY <1>1, <1>3 DEF ClaimsOf
  <2> QED
    BY <2>1, <2>2, <2>3
<1>4. ASSUME e \notin {"JOB_QUEUED", "JOB_REQUEUED", "JOB_CLAIMED"}
      PROVE  ClaimsOf(new) = ClaimsOf(log)
  <2>1. ASSUME NEW i \in ClaimsOf(new) PROVE i \in ClaimsOf(log)
    BY <1>1, <1>4, <2>1 DEF ClaimsOf
  <2>2. ASSUME NEW i \in ClaimsOf(log) PROVE i \in ClaimsOf(new)
    BY <1>1, <1>4, <2>2 DEF ClaimsOf
  <2> QED
    BY <2>1, <2>2
<1>5. Len(log) + 1 \notin ClaimsOf(log)
  BY <1>1 DEF ClaimsOf
<1> QED
  BY <1>2, <1>3, <1>4, <1>5 DEF new

\* There are finitely many claims in a history.
LEMMA ClaimsFinite ==
    ASSUME NEW log \in Seq(EventTypes)
    PROVE  IsFiniteSet(ClaimsOf(log))
<1>1. Len(log) \in Nat /\ ClaimsOf(log) \subseteq 1..Len(log)
  BY DEF ClaimsOf
<1>2. IsFiniteSet(1..Len(log))
  BY <1>1, FS_Interval
<1> QED
  BY <1>1, <1>2, FS_Subset

\* A history that is extended by an event that leads to the row's new status
\* explains the new row: a queueing starts the attempts again, a claim counts
\* one and is the new token, anything else keeps the attempts.
LEMMA ExplainsAppend ==
    ASSUME NEW log \in Seq(EventTypes), NEW e \in EventTypes, NEW s, NEW n, NEW t,
           e \in LeadingTo(s),
           \/ e \in {"JOB_QUEUED", "JOB_REQUEUED"} /\ s = "QUEUED" /\ n = 0
           \/ /\ e = "JOB_CLAIMED" /\ t = Len(log) + 1
              /\ n = Cardinality(ClaimsOf(log)) + 1
           \/ /\ e \notin {"JOB_QUEUED", "JOB_REQUEUED", "JOB_CLAIMED"}
              /\ s # "RUNNING" /\ n = Cardinality(ClaimsOf(log))
    PROVE  Explains(Append(log, e), s, n, t)
<1>1. Append(log, e)[Len(Append(log, e))] = e /\ Len(Append(log, e)) = Len(log) + 1
  OBVIOUS
<1>2. Cardinality(ClaimsOf(Append(log, e))) = n
  <2>1. CASE e \in {"JOB_QUEUED", "JOB_REQUEUED"}
    BY <2>1, ClaimsAppend, FS_EmptySet
  <2>2. CASE e = "JOB_CLAIMED"
    BY <2>2, ClaimsAppend, ClaimsFinite, FS_AddElement
  <2>3. CASE e \notin {"JOB_QUEUED", "JOB_REQUEUED", "JOB_CLAIMED"}
    BY <2>3, ClaimsAppend
  <2> QED
    BY <2>1, <2>2, <2>3
<1>3. s = "RUNNING" => t = Len(Append(log, e))
  BY <1>1 DEF LeadingTo
<1> QED
  BY <1>1, <1>2, <1>3 DEF Explains


\* The history of every row is what its claims and its last event say.
LEMMA ExplainedCounts ==
    ASSUME NEW j \in Jobs, TypeOK, RowExplained(j)
    PROVE  /\ status[j] # "ABSENT" => Cardinality(ClaimsOf(events[j])) = attempt_count[j]
           /\ status[j] = "ABSENT" => attempt_count[j] = 0
BY DEF RowExplained, Explains

\* Every operation that changes the status of a row appends the event that
\* leads there, in the same transaction.
LEMMA StepHistory == IInv /\ HistoryInv /\ [Next]_vars => HistoryInv'
<1> SUFFICES ASSUME IInv, HistoryInv, [Next]_vars, NEW j \in Jobs
             PROVE  RowExplained(j)'
  BY DEF HistoryInv
<1>t. TypeOK /\ WorkerInv
  BY DEF IInv
<1>x. RowExplained(j)
  BY DEF HistoryInv
<1>l. events[j] \in Seq(EventTypes)
  BY <1>t DEF TypeOK
<1>a. ASSUME status'[j] = status[j], events'[j] = events[j],
             attempt_count'[j] = attempt_count[j], lease_token'[j] = lease_token[j]
      PROVE  RowExplained(j)'
  BY <1>a, <1>x DEF RowExplained
<1>b. ASSUME NEW e \in EventTypes, events'[j] = Append(events[j], e),
             status'[j] # "ABSENT", e \in LeadingTo(status'[j]),
             \/ /\ e \in {"JOB_QUEUED", "JOB_REQUEUED"} /\ status'[j] = "QUEUED"
                /\ attempt_count'[j] = 0
             \/ /\ e = "JOB_CLAIMED" /\ status[j] # "ABSENT"
                /\ lease_token'[j] = Len(events[j]) + 1
                /\ attempt_count'[j] = attempt_count[j] + 1
             \/ /\ e \notin {"JOB_QUEUED", "JOB_REQUEUED", "JOB_CLAIMED"}
                /\ status[j] # "ABSENT" /\ status'[j] # "RUNNING"
                /\ attempt_count'[j] = attempt_count[j]
      PROVE  RowExplained(j)'
  <2>1. status[j] # "ABSENT" => Cardinality(ClaimsOf(events[j])) = attempt_count[j]
    BY <1>x, <1>t, ExplainedCounts
  <2>2. Explains(Append(events[j], e), status'[j], attempt_count'[j], lease_token'[j])
    BY <1>b, <1>l, <2>1, ExplainsAppend
  <2> QED
    BY <1>b, <2>2 DEF RowExplained
<1>c. ASSUME NEW i \in Jobs, NEW s, NEW e \in EventTypes, EndAttempt(i, s, e),
             UNCHANGED attempt_count, status[i] # "ABSENT",
             s \notin {"ABSENT", "RUNNING"}, e \in LeadingTo(s),
             e \notin {"JOB_QUEUED", "JOB_REQUEUED", "JOB_CLAIMED"}
      PROVE  RowExplained(j)'
  <2>1. CASE i = j
    BY <1>b, <1>c, <1>t, <2>1 DEF EndAttempt, AppendEvent, TypeOK
  <2>2. CASE i # j
    BY <1>a, <1>c, <1>t, <2>2 DEF EndAttempt, AppendEvent, TypeOK
  <2> QED
    BY <2>1, <2>2
<1>1. ASSUME NEW i \in Jobs, Submit(i) PROVE RowExplained(j)'
  <2>1. CASE i = j
    <3>1. /\ events'[j] = Append(events[j], "JOB_QUEUED")
          /\ status'[j] = "QUEUED" /\ status[j] = "ABSENT"
          /\ attempt_count'[j] = attempt_count[j]
      BY <1>1, <1>t, <2>1 DEF Submit, AppendEvent, TypeOK
    <3>2. attempt_count[j] = 0
      BY <3>1, <1>x, <1>t, ExplainedCounts
    <3> QED
      BY <1>b, <3>1, <3>2 DEF EventTypes, LeadingTo
  <2>2. CASE i # j
    BY <1>a, <1>1, <1>t, <2>2 DEF Submit, AppendEvent, TypeOK
  <2> QED
    BY <2>1, <2>2
<1>2. ASSUME NEW i \in Jobs, Cancel(i) PROVE RowExplained(j)'
  <2>1. EndAttempt(i, "CANCELLED", "JOB_CANCELLED")
    BY <1>2 DEF Cancel, EndAttempt
  <2>2. "JOB_CANCELLED" \in LeadingTo("CANCELLED") /\ "JOB_CANCELLED" \in EventTypes
    BY DEF LeadingTo, EventTypes
  <2> QED
    BY <1>2, <1>c, <2>1, <2>2 DEF Cancel
<1>3. ASSUME NEW i \in Jobs, Requeue(i) PROVE RowExplained(j)'
  <2>1. CASE i = j
    <3>1. /\ events'[j] = Append(events[j], "JOB_REQUEUED")
          /\ status'[j] = "QUEUED" /\ attempt_count'[j] = 0
      BY <1>3, <1>t, <2>1 DEF Requeue, AppendEvent, TypeOK
    <3> QED
      BY <1>b, <3>1 DEF EventTypes, LeadingTo
  <2>2. CASE i # j
    BY <1>a, <1>3, <1>t, <2>2 DEF Requeue, AppendEvent, TypeOK
  <2> QED
    BY <2>1, <2>2
<1>4. ASSUME NEW w \in Workers, RecoverStale(w) PROVE RowExplained(j)'
  <2>1. PICK lag \in Lags : RecoverRows(lag)
    BY <1>4 DEF RecoverStale
  <2>2. CASE j \in Stale(lag)
    <3>1. /\ events'[j] = Append(events[j], "JOB_STALE_LEASE_RECOVERED")
          /\ status'[j] = RetryStatus(j) /\ status[j] = "RUNNING"
          /\ attempt_count'[j] = attempt_count[j]
      BY <1>4, <2>1, <2>2 DEF RecoverStale, RecoverRows, Stale
    <3>2. status'[j] \in {"RETRY_WAIT", "DEAD_LETTER"}
      BY <3>1, RetryTypes
    <3> QED
      BY <1>b, <3>1, <3>2 DEF EventTypes, LeadingTo
  <2>3. CASE j \notin Stale(lag)
    BY <1>4, <1>a, <2>1, <2>3 DEF RecoverStale, RecoverRows
  <2> QED
    BY <2>2, <2>3
<1>5. ASSUME NEW w \in Workers, ClaimLock(w) PROVE RowExplained(j)'
  <2>1. PICK i \in snapshot[w], lag \in Lags : ClaimRow(w, i, lag)
    BY <1>5 DEF ClaimLock
  <2>2. CASE i = j
    <3>1. /\ events'[j] = Append(events[j], "JOB_CLAIMED")
          /\ status'[j] = "RUNNING" /\ status[j] # "ABSENT"
          /\ attempt_count'[j] = attempt_count[j] + 1
          /\ lease_token'[j] = Len(events[j]) + 1
      BY <1>t, <2>1, <2>2 DEF ClaimRow, Claimable, AppendEvent, TypeOK
    <3> QED
      BY <1>b, <3>1 DEF EventTypes, LeadingTo
  <2>3. CASE i # j
    BY <1>a, <1>t, <2>1, <2>3 DEF ClaimRow, AppendEvent, TypeOK
  <2> QED
    BY <2>2, <2>3
<1>6. ASSUME NEW w \in Workers, Complete(w) PROVE RowExplained(j)'
  <2>1. job[w] \in Jobs /\ status[job[w]] = "RUNNING" /\ UNCHANGED attempt_count
    BY <1>6, <1>t DEF Complete, Owns, WorkerInv, Busy, TypeOK
  <2>2. /\ "JOB_PARTIAL" \in LeadingTo("PARTIAL") /\ "JOB_PARTIAL" \in EventTypes
        /\ "JOB_COMPLETED" \in LeadingTo("COMPLETED") /\ "JOB_COMPLETED" \in EventTypes
    BY DEF LeadingTo, EventTypes
  <2>3. CASE EndAttempt(job[w], "PARTIAL", "JOB_PARTIAL")
    BY <1>c, <2>1, <2>2, <2>3
  <2>4. CASE EndAttempt(job[w], "COMPLETED", "JOB_COMPLETED")
    BY <1>c, <2>1, <2>2, <2>4
  <2> QED
    BY <1>6, <2>3, <2>4 DEF Complete
<1>7. ASSUME NEW w \in Workers, Fail(w) PROVE RowExplained(j)'
  <2>1. job[w] \in Jobs /\ status[job[w]] = "RUNNING" /\ UNCHANGED attempt_count
    BY <1>7, <1>t DEF Fail, FailRow, Owns, WorkerInv, Busy, TypeOK
  <2>2. FailedStatus(w) \in {"RETRY_WAIT", "FAILED", "DEAD_LETTER"}
    BY RetryTypes DEF FailedStatus
  <2>3. /\ FailedEvent(w) \in LeadingTo(FailedStatus(w))
        /\ FailedEvent(w) \in {"JOB_FAILED", "JOB_RETRY_WAIT", "JOB_DEAD_LETTER"}
    BY <2>2 DEF FailedEvent, LeadingTo
  <2>4. EndAttempt(job[w], FailedStatus(w), FailedEvent(w))
    BY <1>7 DEF Fail, FailRow
  <2>5. FailedEvent(w) \in EventTypes
    BY <2>3 DEF EventTypes
  <2> QED
    BY <1>c, <2>1, <2>2, <2>3, <2>4, <2>5
<1>8. ASSUME NEW w \in Workers,
             \/ ClaimSnapshot(w) \/ ClaimNone(w) \/ StartProcessing(w)
             \/ FinishProcessing(w) \/ CheckCancelled(w) \/ ReportRejected(w)
             \/ Heartbeat(w) \/ LeaseCheckUnavailable(w) \/ Crash(w) \/ Restart(w)
      PROVE  RowExplained(j)'
  BY <1>8, <1>a DEF ClaimSnapshot, ClaimNone, StartProcessing, FinishProcessing,
     CheckCancelled, ReportRejected, Heartbeat, LeaseCheckUnavailable, Crash,
     Restart, rowVars
<1>9. CASE Tick \/ UNCHANGED vars
  BY <1>9, <1>a DEF Tick, vars, rowVars
<1> QED
  BY <1>1, <1>2, <1>3, <1>4, <1>5, <1>6, <1>7, <1>8, <1>9 DEF Next, WorkerStep

\* The append-only events of a job account for its row: they count the attempts
\* since the last queueing, name the claim that holds the lease, and end with
\* the event that led to the status.
THEOREM HistoryIsTheRow == Spec => []HistoryExplainsRow
<1>1. Init => HistoryInv
  BY DEF Init, HistoryInv, RowExplained
<1>2. IInv /\ HistoryInv => HistoryExplainsRow
  <2> SUFFICES ASSUME IInv, HistoryInv, NEW j \in Jobs, status[j] # "ABSENT"
               PROVE  /\ Cardinality(ClaimsInLog(j)) = attempt_count[j]
                      /\ LastEvent(j) \in LeadingTo(status[j])
                      /\ status[j] = "RUNNING" => lease_token[j] = Len(events[j])
    BY DEF HistoryExplainsRow, LeadingTo
  <2>1. ClaimsInLog(j) = ClaimsOf(events[j])
    BY DEF ClaimsInLog, ClaimsOf
  <2> QED
    BY <2>1 DEF HistoryInv, RowExplained, Explains, LastEvent
<1> QED
  BY <1>1, <1>2, StepHistory, Invariance, PTL DEF Spec
=============================================================================
