---------------------------- MODULE JobLifecycle ----------------------------
(***************************************************************************)
(* What the durable job table promises about one Research job: the status  *)
(* table of jobs/lifecycle.py.  The repository that changes the rows       *)
(* (jobs/postgresql.py) writes its statuses in SQL and never consults this *)
(* table, so that the SQL conforms to it is something to check: module     *)
(* ResearchJobs is shown to implement Spec.                                *)
(***************************************************************************)
CONSTANT Jobs               \* the job rows the table may hold

VARIABLE status             \* research_jobs.status of each job

\* "ABSENT" stands for a row that has not been inserted yet.
Absent == "ABSENT"
JobStatus == {"QUEUED", "RUNNING", "RETRY_WAIT", "COMPLETED", "PARTIAL",
              "FAILED", "CANCELLED", "DEAD_LETTER"}

\* The terminal statuses an explicit retry may leave again, and all of them.
Requeueable == {"COMPLETED", "PARTIAL", "FAILED", "DEAD_LETTER"}
Terminal == Requeueable \cup {"CANCELLED"}

\* _ALLOWED: the pairs of statuses of which the second may follow the first.
Allowed ==
    ({"QUEUED", "RETRY_WAIT"} \X {"RUNNING", "CANCELLED"})
      \cup ({"RUNNING"} \X {"COMPLETED", "PARTIAL", "RETRY_WAIT", "FAILED",
                            "CANCELLED", "DEAD_LETTER"})
      \cup (Requeueable \X {"QUEUED"})

Init == status = [j \in Jobs |-> Absent]

\* A row is inserted QUEUED, and then moves along the table only.
Enqueue(j) == status[j] = Absent /\ status' = [status EXCEPT ![j] = "QUEUED"]

Transition(j, target) ==
    /\ <<status[j], target>> \in Allowed
    /\ status' = [status EXCEPT ![j] = target]

\* One transaction of recover_stale moves any number of RUNNING jobs at once.
RecoverMany ==
    \E S \in SUBSET {j \in Jobs : status[j] = "RUNNING"} :
    \E target \in [S -> {"RETRY_WAIT", "DEAD_LETTER"}] :
        status' = [j \in Jobs |-> IF j \in S THEN target[j] ELSE status[j]]

Next ==
    \/ \E j \in Jobs : Enqueue(j) \/ \E t \in JobStatus : Transition(j, t)
    \/ RecoverMany

Spec == Init /\ [][Next]_status
=============================================================================
