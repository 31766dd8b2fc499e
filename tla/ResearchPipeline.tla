--------------------------- MODULE ResearchPipeline ---------------------------
(***************************************************************************)
(* A Research run and the job that brings it to the workers: module        *)
(* ResearchRun composed with the queue.  Of the queue only its interface   *)
(* is left (module ResearchJobs has its details and shows that at most one *)
(* worker holds the lease and that attempts are bounded): a status, the    *)
(* attempts, and whether a worker's claim is still the current one.        *)
(*                                                                         *)
(* Run and job are rows of different tables.  They are created in one      *)
(* transaction, but cancelled and retried in two, and the worker reports   *)
(* the job after it has saved the run.                                     *)
(***************************************************************************)
EXTENDS ResearchRun

CONSTANTS
    max_attempts,   \* JobPolicy.max_attempts
    MaxFaults,      \* bound: processes that die and leases that are lost
    MaxRequeues     \* bound: calls of research_retry of the MCP adapter

ASSUME QueueAssumption ==
    /\ max_attempts \in Nat \ {0}
    /\ MaxFaults \in Nat
    /\ MaxRequeues \in Nat

VARIABLES
    job,            \* research_jobs.status
    attempt_count,  \* research_jobs.attempt_count
    lease,          \* per worker: "none", or its claim is "held" or "lost"
    validated,      \* MCP retries between validate_retry and requeue
    requeues,       \* MCP retries begun
    faults          \* processes that died and leases that were lost so far

jobVars == <<job, attempt_count, lease, validated, requeues, faults>>
pipelineVars == <<vars, jobVars>>

J == INSTANCE JobLifecycle WITH Jobs <- {"job"}, status <- [j \in {"job"} |-> job]

Idle(w) == pc[w] = "idle" /\ lease[w] = "none"

PipelineInit ==
    /\ Init
    /\ job = "ABSENT"
    /\ attempt_count = 0
    /\ lease = [w \in Workers |-> "none"]
    /\ validated = 0
    /\ requeues = 0
    /\ faults = 0

\* PostgresJobRepository.submit inserts run and job.
Submit ==
    /\ job = "ABSENT"
    /\ job' = "QUEUED"
    /\ UNCHANGED <<vars, attempt_count, lease, validated, requeues, faults>>

\* Mutant: a job that waits for its retry is overlooked.
Claim_QueuedOnly(w) ==
    /\ Idle(w)
    /\ job = "QUEUED"
    /\ job' = "RUNNING"
    /\ attempt_count' = attempt_count + 1
    /\ lease' = [lease EXCEPT ![w] = "held"]
    /\ UNCHANGED <<vars, validated, requeues, faults>>

\* claim
Claim(w) ==
    /\ Idle(w)
    /\ job \in {"QUEUED", "RETRY_WAIT"}
    /\ job' = "RUNNING"
    /\ attempt_count' = attempt_count + 1
    /\ lease' = [lease EXCEPT ![w] = "held"]
    /\ UNCHANGED <<vars, validated, requeues, faults>>

\* run_once calls process().
Process(w) ==
    /\ lease[w] # "none"
    /\ StartWork(w)
    /\ UNCHANGED jobVars

\* Lease tokens of an earlier claim are not accepted any more.
Outdated == [w \in Workers |-> IF lease[w] = "held" THEN "lost" ELSE lease[w]]

\* A process that has ended no longer renews its lease.
Renewed ==
    \E w \in Workers : lease[w] = "held" /\ pc[w] \notin {"stopped", "dead"} /\ ~halted[w]

\* Something goes wrong that no step of the system causes.
Fault == faults < MaxFaults /\ faults' = faults + 1

\* The effect of recover_stale on the job.
Recovered ==
    /\ job = "RUNNING"
    /\ job' = IF attempt_count >= max_attempts THEN "DEAD_LETTER" ELSE "RETRY_WAIT"
    /\ lease' = Outdated
    /\ UNCHANGED <<vars, attempt_count, validated, requeues>>

\* recover_stale, once a lease that nobody renews has expired
RecoverStale == ~Renewed /\ Recovered /\ UNCHANGED faults

\* The lease of a worker that is alive expires: its heartbeat came too late.
LoseLease == Renewed /\ Recovered /\ Fault

\* The heartbeat finds the lease lost; a lease check that fails because the
\* database is away counts as a lost lease.
Notice(w) ==
    /\ Halt(w)
    /\ \/ lease[w] = "lost" /\ UNCHANGED faults
       \/ lease[w] # "lost" /\ Fault
    /\ UNCHANGED <<job, attempt_count, lease, validated, requeues>>

\* A process dies half-way.
Crash(e) ==
    /\ Die(e)
    /\ Fault
    /\ UNCHANGED <<job, attempt_count, lease, validated, requeues>>

\* The end of run_once: complete() accepts the current lease only.
Complete(w) ==
    /\ pc[w] = "returned" /\ lease[w] = "held" /\ ~halted[w]
    /\ job' = IF local[w].status = "PARTIALLY_COMPLETED" THEN "PARTIAL" ELSE "COMPLETED"
    /\ lease' = [lease EXCEPT ![w] = "none"]
    /\ Leave(w)
    /\ UNCHANGED <<attempt_count, validated, requeues, faults>>

\* Otherwise the worker goes on to its next job, if need be as a new process,
\* and reports nothing; a lease it still has is left to expire.
Abandon(w) ==
    /\ pc[w] \in Ended
    /\ lease[w] = "lost"
    /\ lease' = [lease EXCEPT ![w] = "none"]
    /\ Leave(w)
    /\ UNCHANGED <<job, attempt_count, validated, requeues, faults>>

\* The statuses of a job that can be cancelled.
CancellableJob == {"QUEUED", "RETRY_WAIT", "RUNNING"}

\* research_cancel of the MCP adapter cancels the run and then, in a second
\* transaction, the job; the REST route cancels only the run.  From then on
\* is_cancelled() is TRUE for every worker that has claimed the job.
CancelJob ==
    /\ run.status = "CANCELLED"
    /\ job \in CancellableJob
    /\ job' = "CANCELLED"
    /\ lease' = Outdated
    /\ halted' = [e \in Processes |->
         halted[e] \/ (e \in Workers /\ lease[e] # "none")]
    /\ UNCHANGED <<dbVars, pc, local, todo, handoff_failed, operation, starts,
                   provider_calls, attempt_count, validated, requeues, faults>>

\* research_retry of the MCP adapter validates the run ...
ValidateRequeue ==
    /\ Retryable(run)
    /\ requeues < MaxRequeues
    /\ requeues' = requeues + 1
    /\ validated' = validated + 1
    /\ UNCHANGED <<vars, job, attempt_count, lease, faults>>

\* ... and queues its job again, unless that is not over.
Requeue ==
    /\ validated > 0
    /\ validated' = validated - 1
    /\ \/ /\ job \in J!Requeueable
          /\ job' = "QUEUED"
          /\ attempt_count' = 0
       \/ /\ job \notin J!Requeueable
          /\ UNCHANGED <<job, attempt_count>>
    /\ UNCHANGED <<vars, lease, requeues, faults>>

-----------------------------------------------------------------------------
\* The steps of a worker that runs; a step of the run leaves the job alone.
WorkerStep(w) ==
    \/ Claim(w) \/ Process(w) \/ Complete(w) \/ Abandon(w)
    \/ (Prepare(w) \/ Step(w) \/ Stop(w)) /\ UNCHANGED jobVars

CallStep(c) == (CancelRun(c) \/ Step(c) \/ Leave(c)) /\ UNCHANGED jobVars

StartCall(c) ==
    /\ job # "ABSENT" /\ starts < MaxStarts
    /\ StartRetry(c) \/ StartCancel(c)
    /\ UNCHANGED jobVars

PipelineNext ==
    \/ Submit
    \/ \E w \in Workers : WorkerStep(w) \/ Notice(w)
    \/ \E c \in Calls : CallStep(c) \/ StartCall(c)
    \/ \E e \in Processes : Crash(e)
    \/ EditDocument /\ UNCHANGED jobVars
    \/ RecoverStale \/ LoseLease \/ CancelJob \/ ValidateRequeue \/ Requeue

PipelineSpec == PipelineInit /\ [][PipelineNext]_pipelineVars

\* Processes that run take their steps (every provider call has a timeout), a
\* worker polls and recovers again and again, and one that died is restarted.
PipelineFairness ==
    /\ \A w \in Workers : WF_pipelineVars(WorkerStep(w))
    /\ \A c \in Calls : WF_pipelineVars(CallStep(c))
    /\ WF_pipelineVars(RecoverStale)

FairPipelineSpec == PipelineSpec /\ PipelineFairness

-----------------------------------------------------------------------------
(* Properties. *)

Settled == {"COMPLETED", "PARTIALLY_COMPLETED", "FAILED", "CANCELLED"}
Busy == \E e \in Processes : pc[e] \in Working

\* A job that is over has left nothing half-done: its run is settled, unless
\* a retry is at work on it or something failed.  (docs/specifications/DA-
\* PRODUCTION-FOUNDATION-v0.5.md: crash, duplicate delivery, cancellation,
\* budget exhaustion and stale lease recovery converge.)
JobDoneMeansRunSettled ==
    faults = 0 /\ job \in {"COMPLETED", "PARTIAL"} /\ ~Busy => run.status \in Settled

\* A job does not stay under way for ever, whatever happens to its workers and
\* to its run.
JobEnds == job \notin J!Terminal \cup {"ABSENT"} ~> job \in J!Terminal

UnderWay == run.status \in {"SEARCHING", "SOURCES_DISCOVERED", "EXTRACTING"}

\* A run that is under way settles, cancelled, retried and requeued as it may
\* be, unless a process dies or a lease is lost.
RunSettlesUnlessFaulty == UnderWay ~> run.status \in Settled \/ faults > 0
=============================================================================
