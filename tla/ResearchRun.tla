----------------------------- MODULE ResearchRun -----------------------------
(***************************************************************************)
(* One Research run (web_research/orchestrator.py) and the processes that  *)
(* execute, retry and cancel it.                                           *)
(*                                                                         *)
(* A process reads the whole run from research_runs.run_json, works on the *)
(* copy in its memory while it calls providers, and writes the whole copy  *)
(* back with save().  No lock is held in between and the row has no        *)
(* version: what keeps a stale copy from overwriting a newer one is that   *)
(* save() also stores the copy's audit events, and fails if an event of    *)
(* that number is already there with other content.                        *)
(*                                                                         *)
(* An audit event is [by, from, to]: the operation that appended it and    *)
(* its two statuses, which are equal in the event of an egress decision.   *)
(* `by' stands for timestamp, actor and correlation id, in which events of *)
(* different operations differ.  The index of an event is its sequence     *)
(* number; hashes of predecessors are implied by it.                       *)
(***************************************************************************)
EXTENDS Integers, Sequences, FiniteSets, FiniteSetsExt

CONSTANTS
    Workers,                    \* worker processes
    Calls,                      \* calls of the API: retry and cancel
    max_search_results,         \* sources a search may return
    max_sources_to_extract,     \* sources selected for extraction
    provider_budget,            \* ResearchPolicy.provider_budget
    max_attempts_per_operation, \* ResearchPolicy.max_attempts_per_operation
    Contradictions,             \* pairs of sources whose texts contradict
    ProcessesDie,               \* whether processes may die half-way
    MaxStarts,                  \* bound: operations begun on the run
    MaxDocument                 \* bound: version up to which others edit the decision

\* ResearchPolicy.__post_init__
ASSUME PolicyAssumption ==
    /\ max_search_results \in Nat \ {0}
    /\ max_sources_to_extract \in 1..max_search_results
    /\ provider_budget \in Nat \ {0}
    /\ max_attempts_per_operation \in Nat \ {0}
ASSUME ContradictionAssumption ==
    \A C \in Contradictions : C \subseteq 1..max_search_results /\ Cardinality(C) = 2
ASSUME ProcessAssumption == Workers \cap Calls = {} /\ ProcessesDie \in BOOLEAN
ASSUME BoundAssumption == MaxStarts \in Nat /\ MaxDocument \in Nat

VARIABLES
    \* the database
    run,            \* research_runs.run_json
    ledger,         \* research_audit_events by sequence number
    used_units,     \* research_budget_usage.used_units
    document,       \* version of the decision document; its hash
    attached,       \* sources whose evidence the decision document contains
    flagged,        \* those of them whose evidence is CONFLICTING there
    handoffs,       \* research_handoffs: what was handed over
    \* the processes
    pc,             \* where the process is
    local,          \* its copy of the run
    todo,           \* sources of `candidates' it has not come to yet
    handoff_failed, \* handoff_failed of _extract_and_finalize
    operation,      \* number of the operation it executes
    halted,         \* what cancelled() answers to the worker
    \* history
    starts,         \* operations begun
    provider_calls  \* requests sent to providers, by operation

documentVars == <<document, attached, flagged, handoffs>>
dbVars == <<run, ledger, used_units, documentVars>>
processVars == <<pc, local, todo, handoff_failed, operation, halted>>
vars == <<dbVars, processVars, starts, provider_calls>>

L == INSTANCE ResearchLifecycle WITH status <- run.status

Processes == Workers \cup Calls
\* A source is its rank in the search result; operation 0 is the search.
Sources == 1..max_search_results
Search == 0
Operations == {Search} \cup Sources

\* SourceCandidate.status; "NONE" is a rank the search did not return.
SourceStatus == {"NONE", "DISCOVERED", "BLOCKED", "SKIPPED_LIMIT", "SELECTED",
                 "CITATION_ONLY", "DUPLICATE_CONTENT", "EXTRACTED", "REVIEW_REQUIRED"}
Event == [by : Nat, from : L!ResearchStatus, to : L!ResearchStatus]
Run == [status : L!ResearchStatus,
        log : Seq(Event),                    \* audit_events
        sources : [Sources -> SourceStatus], \* sources, and whether they have a snapshot
        usable : SUBSET Sources,             \* evidence that is usable_for_decision
        conflicting : SUBSET Sources,        \* evidence whose conflict_status is CONFLICTING
        attempts : [Operations -> Nat],      \* attempts, by operation
        expected : Nat,                      \* expected_document_hash
        handed : BOOLEAN]                    \* compiled_decision_file_id is set

\* Where a process is.  Before the steps of Checked the orchestrator calls
\* _ensure_active.
Ended == {"returned", "stopped", "dead"}
Checked == {"execute", "retry", "begin", "search", "egress", "call", "refused",
            "discovered", "select", "reselect", "extract", "conclude"}
Steps == Checked \cup Ended \cup {"idle", "resume", "cancel"}

\* A run as propose() makes it.
NewRun == [status |-> "CREATED", log |-> << >>,
           sources |-> [s \in Sources |-> "NONE"], usable |-> {}, conflicting |-> {},
           attempts |-> [o \in Operations |-> 0],
           expected |-> 0, handed |-> FALSE]

\* The run has been submitted (module ResearchPipeline says how it comes to
\* the workers).
Init ==
    /\ run = NewRun
    /\ ledger = << >>
    /\ used_units = 0
    /\ document = 0
    /\ attached = {}
    /\ flagged = {}
    /\ handoffs = {}
    /\ pc = [e \in Processes |-> "idle"]
    /\ local = [e \in Processes |-> NewRun]
    /\ todo = [e \in Processes |-> {}]
    /\ handoff_failed = [e \in Processes |-> FALSE]
    /\ operation = [e \in Processes |-> 0]
    /\ halted = [e \in Processes |-> FALSE]
    /\ starts = 0
    /\ provider_calls = [o \in Operations |-> 0]

-----------------------------------------------------------------------------
(* Helpers *)

\* The operation ends at the next _ensure_active if the worker is halted.
Goto(e, step) ==
    pc' = [pc EXCEPT ![e] = IF step \in Checked /\ halted[e] THEN "stopped" ELSE step]

\* apply_transition and append_egress_decision on a copy r of the run.
AppendEvent(e, r, target) ==
    [r EXCEPT !.status = target,
              !.log = Append(@, [by |-> operation[e], from |-> r.status, to |-> target])]

\* Mutant: the event is inserted without a look at what is there.
Accepts_Always(log) == TRUE

\* save() refuses a log that contradicts the stored events, and otherwise
\* overwrites the row and adds the events that are new.
Accepts(log) == \A i \in DOMAIN log \cap DOMAIN ledger : log[i] = ledger[i]

Store(r) ==
    /\ run' = r
    /\ ledger' = [i \in DOMAIN ledger \cup DOMAIN r.log |->
                    IF i \in DOMAIN ledger THEN ledger[i] ELSE r.log[i]]

\* save(), with what the caller does when it succeeds; an AUDIT_EVENT_CONFLICT
\* is caught nowhere and ends the operation.
Save(e, r, step) ==
    /\ local' = [local EXCEPT ![e] = r]
    /\ \/ Accepts(r.log) /\ Store(r) /\ Goto(e, step)
       \/ /\ ~Accepts(r.log)
          /\ pc' = [pc EXCEPT ![e] = "dead"]
          /\ UNCHANGED <<run, ledger>>

HasStatus(r, S) == \E s \in Sources : r.sources[s] \in S
Discovered(r) == HasStatus(r, SourceStatus \ {"NONE"})
Snapshots(r) == {s \in Sources : r.sources[s] \in {"EXTRACTED", "REVIEW_REQUIRED"}}

\* The operation a process that searches or extracts is at: the search, or the
\* best-ranked candidate left.
Current(e) == IF local[e].status = "SEARCHING" THEN Search ELSE Min(todo[e])

\* A copy of the run in which source s has another status.
Marked(r, s, status) == [r EXCEPT !.sources[s] = status]

\* SourceSelectionPolicy.select: the best-ranked eligible sources.
Select(r, statuses) ==
    LET eligible == {s \in Sources : r.sources[s] \in statuses} IN
    {s \in eligible :
        Cardinality({t \in eligible : t < s}) < max_sources_to_extract}

-----------------------------------------------------------------------------
(* Operations begin *)

Start(e) ==
    /\ pc[e] = "idle"
    /\ starts' = starts + 1
    /\ operation' = [operation EXCEPT ![e] = starts + 1]
    /\ UNCHANGED <<dbVars, todo, handoff_failed, provider_calls>>

\* process() of the worker: a CREATED run is executed, any other is retried.
StartWork(w) ==
    /\ Start(w)
    /\ Goto(w, IF run.status = "CREATED" THEN "execute" ELSE "retry")
    /\ UNCHANGED <<local, halted>>

\* POST /v1/research-runs/{id}/retry
StartRetry(c) ==
    /\ Start(c)
    /\ pc' = [pc EXCEPT ![c] = "retry"]
    /\ UNCHANGED <<local, halted>>

\* Mutant: only a run that is cancelled already is left alone.
MayCancel_Completed(r) == r.status # "CANCELLED"

\* cancel() reads the run; a run that cannot be cancelled is left as it is.
MayCancel(r) == r.status \in L!Cancellable

StartCancel(c) ==
    /\ Start(c)
    /\ MayCancel(run)
    /\ pc' = [pc EXCEPT ![c] = "cancel"]
    /\ local' = [local EXCEPT ![c] = run]
    /\ UNCHANGED halted

CancelRun(c) ==
    /\ pc[c] = "cancel"
    /\ Save(c, AppendEvent(c, local[c], "CANCELLED"), "returned")
    /\ UNCHANGED <<used_units, documentVars, todo, handoff_failed,
                   operation, halted, starts, provider_calls>>

\* execute() gets the run that create_or_get finds; if someone has begun to
\* work on it in the meantime, execute() returns it as it is.
Prepare(w) ==
    /\ pc[w] = "execute"
    /\ local' = [local EXCEPT ![w] = run]
    /\ Goto(w, IF run.log = << >> /\ run.status = "CREATED" THEN "begin" ELSE "returned")
    /\ UNCHANGED <<dbVars, todo, handoff_failed, operation, halted, starts, provider_calls>>

\* Mutant: a run that is under way may be retried, too.
Retryable_Running(r) == r.status \notin {"CREATED", "COMPLETED", "CANCELLED"}

\* validate_retry: a failed or partial run whose provider does not ask to wait
\* (a retry_after of a failed attempt, which lies over or not).
Retryable(r) == r.status \in {"FAILED", "PARTIALLY_COMPLETED"}

ValidateRetry(e) ==
    /\ pc[e] = "retry"
    /\ Retryable(run)
    /\ local' = [local EXCEPT ![e] = run]
    /\ pc' = [pc EXCEPT ![e] = "resume"]
    /\ UNCHANGED <<dbVars, todo, handoff_failed, operation, halted, starts, provider_calls>>

RejectRetry(e) ==
    /\ pc[e] = "retry"
    /\ ~Retryable(run) \/ \E o \in Operations : run.attempts[o] > 0
    /\ pc' = [pc EXCEPT ![e] = "dead"]
    /\ UNCHANGED <<dbVars, local, todo, handoff_failed, operation, halted,
                   starts, provider_calls>>

\* The first transition: to the search, or for a retry of a run whose sources
\* are known to their extraction.
Begin(e) ==
    /\ pc[e] \in {"begin", "resume"}
    /\ IF Discovered(local[e])
         THEN Save(e, AppendEvent(e, local[e], "EXTRACTING"), "reselect")
         ELSE Save(e, AppendEvent(e, local[e], "SEARCHING"), "search")
    /\ UNCHANGED <<used_units, documentVars, todo, handoff_failed,
                   operation, halted, starts, provider_calls>>

-----------------------------------------------------------------------------
(* One provider operation, of _discover or _obtain_snapshot *)

AtOperation(e) == pc[e] = "search" \/ (pc[e] = "extract" /\ todo[e] # {})

\* Mutant: the failed run is returned but not saved.
FailRun_Unsaved(e) ==
    /\ local' = [local EXCEPT ![e] = AppendEvent(e, @, "FAILED")]
    /\ Goto(e, "returned")
    /\ UNCHANGED <<run, ledger, todo>>

\* _fail_run
FailRun(e) ==
    /\ Save(e, AppendEvent(e, local[e], "FAILED"), "returned")
    /\ UNCHANGED todo

\* _mark_citation_only, and on to the next candidate.
CitationOnly(e) ==
    /\ local' = [local EXCEPT ![e] = Marked(@, Current(e), "CITATION_ONLY")]
    /\ todo' = [todo EXCEPT ![e] = @ \ {Current(e)}]
    /\ Goto(e, "extract")
    /\ UNCHANGED <<run, ledger>>

GiveUp(e) == IF Current(e) = Search THEN FailRun(e) ELSE CitationOnly(e)

\* The attempts or the budget are used up, or the circuit breaker is open (it
\* counts failures of all runs of the tenant, so it may be open at any time).
Deny(e) ==
    /\ AtOperation(e)
    /\ GiveUp(e)
    /\ UNCHANGED <<used_units, documentVars, handoff_failed, operation,
                   halted, starts, provider_calls>>

\* Mutant: the limit is off by one.
CanAttempt_OneMore(e) == local[e].attempts[Current(e)] <= max_attempts_per_operation

\* _can_attempt
CanAttempt(e) == local[e].attempts[Current(e)] < max_attempts_per_operation

\* One conditional UPDATE; no row updated is BUDGET_EXCEEDED.
reserve_budget == used_units < provider_budget /\ used_units' = used_units + 1

\* One more attempt of operation o; a source that is attempted is SELECTED.
Attempted(r, o) ==
    [r EXCEPT !.attempts[o] = @ + 1,
              !.sources = IF o = Search THEN @ ELSE [@ EXCEPT ![o] = "SELECTED"]]

\* _reserve: the budget in the database, the attempt in the copy of the run.
Reserve(e) ==
    /\ AtOperation(e)
    /\ CanAttempt(e)
    /\ reserve_budget
    /\ local' = [local EXCEPT ![e] = Attempted(@, Current(e))]
    /\ Goto(e, "egress")
    /\ UNCHANGED <<run, ledger, documentVars, todo, handoff_failed,
                   operation, halted, starts, provider_calls>>

\* The egress guard records its decision in the run before the request leaves;
\* the request is sent only if that succeeds and the decision is ALLOWED.
Authorize(e) ==
    LET r == AppendEvent(e, local[e], local[e].status) IN
    /\ pc[e] = "egress"
    /\ local' = [local EXCEPT ![e] = r]
    /\ \/ /\ Accepts(r.log) /\ Store(r)
          /\ Goto(e, "call")
          /\ provider_calls' = [provider_calls EXCEPT ![Current(e)] = @ + 1]
       \/ /\ Accepts(r.log) /\ Store(r)
          /\ Goto(e, "refused")
          /\ UNCHANGED provider_calls
       \/ /\ ~Accepts(r.log) /\ UNCHANGED <<run, ledger>>
          /\ Goto(e, "refused")
          /\ UNCHANGED provider_calls
    /\ UNCHANGED <<used_units, documentVars, todo, handoff_failed,
                   operation, halted, starts>>

\* The provider or the guard raised an exception, or its answer is unusable.
OperationFails(e) ==
    /\ pc[e] \in {"call", "refused"}
    /\ GiveUp(e)
    /\ UNCHANGED <<used_units, documentVars, handoff_failed, operation,
                   halted, starts, provider_calls>>

\* _store_discovery: each rank is new, blocked by the URL policy, or dropped as
\* a duplicate or missing.
SearchReturns(e) ==
    /\ pc[e] = "call" /\ Current(e) = Search
    /\ \E found \in [Sources -> {"NONE", "DISCOVERED", "BLOCKED"}] :
        Save(e, AppendEvent(e, [local[e] EXCEPT !.sources = found], "SOURCES_DISCOVERED"),
             "discovered")
    /\ UNCHANGED <<used_units, documentVars, todo, handoff_failed,
                   operation, halted, starts, provider_calls>>

\* _start_extraction after a search.
StartExtraction(e) ==
    /\ pc[e] = "discovered"
    /\ Save(e, AppendEvent(e, local[e], "EXTRACTING"), "select")
    /\ UNCHANGED <<used_units, documentVars, todo, handoff_failed,
                   operation, halted, starts, provider_calls>>

\* The sources that were discovered and not selected.
Skipped(r, selected) ==
    [r EXCEPT !.sources = [s \in Sources |->
        IF @[s] = "DISCOVERED" /\ s \notin selected THEN "SKIPPED_LIMIT" ELSE @[s]]]

\* The head of _extract_and_finalize; a retry comes back to citations only.
SelectSources(e) ==
    /\ \/ /\ pc[e] = "select"
          /\ LET selected == Select(local[e], {"DISCOVERED"}) IN
             /\ todo' = [todo EXCEPT ![e] = selected]
             /\ local' = [local EXCEPT ![e] = Skipped(@, selected)]
       \/ /\ pc[e] = "reselect"
          /\ todo' = [todo EXCEPT ![e] = Select(local[e], {"FAILED", "CITATION_ONLY"})]
          /\ UNCHANGED local
    /\ handoff_failed' = [handoff_failed EXCEPT ![e] = FALSE]
    /\ Goto(e, "extract")
    /\ UNCHANGED <<dbVars, operation, halted, starts, provider_calls>>

\* EvidencePolicy.assess: the content is usable or one of the blocking reasons
\* applies (provenance, length, log-in page, paywall, language, injection).
assess(r, s, usable) ==
    [r EXCEPT !.sources[s] = IF usable THEN "EXTRACTED" ELSE "REVIEW_REQUIRED",
              !.usable = IF usable THEN @ \cup {s} ELSE @]

\* A snapshot from the extractor or from another run's cache: its content is a
\* duplicate, or it is assessed by the evidence policy.
TakeSnapshot(e) ==
    LET s == Current(e) IN
    /\ \/ pc[e] = "call" /\ s # Search
       \/ pc[e] = "extract" /\ todo[e] # {}
    /\ \/ /\ Snapshots(local[e]) # {}
          /\ local' = [local EXCEPT ![e] = Marked(@, s, "DUPLICATE_CONTENT")]
       \/ \E usable \in BOOLEAN : local' = [local EXCEPT ![e] = assess(@, s, usable)]
    /\ todo' = [todo EXCEPT ![e] = @ \ {s}]
    /\ Goto(e, "extract")
    /\ UNCHANGED <<dbVars, handoff_failed, operation, halted, starts, provider_calls>>

-----------------------------------------------------------------------------
(* The end of _extract_and_finalize *)

AtEnd(e) == pc[e] = "extract" /\ todo[e] = {}

NoContent(e) ==
    /\ AtEnd(e)
    /\ Snapshots(local[e]) = {}
    /\ IF HasStatus(local[e], {"CITATION_ONLY"})
         THEN Save(e, AppendEvent(e, local[e], "PARTIALLY_COMPLETED"), "returned")
         ELSE Save(e, AppendEvent(e, local[e], "FAILED"), "returned")
    /\ UNCHANGED <<used_units, documentVars, todo, handoff_failed,
                   operation, halted, starts, provider_calls>>

\* mark_conflicting_evidence
MarkConflicting(r) ==
    LET conflicting == UNION {C \in Contradictions : C \subseteq Snapshots(r)} IN
    [r EXCEPT !.sources = [s \in Sources |->
                IF s \in conflicting THEN "REVIEW_REQUIRED" ELSE @[s]],
              !.conflicting = conflicting]

\* compile(): the evidence to hand over and which of it is CONFLICTING.
Compiled(r) == <<r.usable, r.usable \cap r.conflicting>>

\* attach(), in a transaction that locks the decision.  What was handed over
\* before is not handed over again; otherwise the document must be the expected
\* one, and evidence it contains already is left as it is.
Replayed(r) == Compiled(r) \in handoffs
MayAttach(r) == document = r.expected

\* Mutant: a hand-off that succeeds is not recorded in the run.
HandedOver_Unrecorded(r) == [r EXCEPT !.expected = document']

\* The run expects the document it was handed over to.
HandedOver(r) == [r EXCEPT !.expected = document', !.handed = TRUE]

Attach(e, r) ==
    \/ /\ r.usable = {}
       /\ local' = [local EXCEPT ![e] = r]
       /\ UNCHANGED <<documentVars, handoff_failed>>
    \/ /\ r.usable # {} /\ Replayed(r)
       /\ UNCHANGED <<documentVars, handoff_failed>>
       /\ local' = [local EXCEPT ![e] = HandedOver(r)]
    \/ /\ r.usable # {} /\ ~Replayed(r) /\ MayAttach(r)
       /\ document' = document + 1
       /\ attached' = attached \cup r.usable
       /\ flagged' = flagged \cup (r.conflicting \cap (r.usable \ attached))
       /\ handoffs' = handoffs \cup {Compiled(r)}
       /\ local' = [local EXCEPT ![e] = HandedOver(r)]
       /\ UNCHANGED handoff_failed
    \/ /\ r.usable # {} /\ ~Replayed(r) /\ ~MayAttach(r)
       /\ local' = [local EXCEPT ![e] = r]
       /\ handoff_failed' = [handoff_failed EXCEPT ![e] = TRUE]
       /\ UNCHANGED documentVars

Compile(e) ==
    /\ AtEnd(e)
    /\ Snapshots(local[e]) # {}
    /\ Attach(e, MarkConflicting(AppendEvent(e, local[e], "EVIDENCE_COMPILED")))
    /\ Goto(e, "conclude")
    /\ UNCHANGED <<run, ledger, used_units, todo, operation, halted, starts, provider_calls>>

\* Mutant: a failed hand-off does not count.
Partial_SourcesOnly(e) == HasStatus(local[e], {"BLOCKED", "REVIEW_REQUIRED", "CITATION_ONLY"})

\* partial of _extract_and_finalize
Partial(e) ==
    \/ handoff_failed[e]
    \/ HasStatus(local[e], {"BLOCKED", "REVIEW_REQUIRED", "CITATION_ONLY"})

Conclude(e) ==
    /\ pc[e] = "conclude"
    /\ Save(e, AppendEvent(e, local[e],
                           IF Partial(e) THEN "PARTIALLY_COMPLETED" ELSE "COMPLETED"),
            "returned")
    /\ UNCHANGED <<used_units, documentVars, todo, handoff_failed,
                   operation, halted, starts, provider_calls>>

-----------------------------------------------------------------------------
(* Around the operations *)

\* cancelled() begins to answer TRUE: the job was cancelled or its lease lost.
Halt(w) ==
    /\ pc[w] \notin {"idle"} \cup Ended
    /\ ~halted[w]
    /\ halted' = [halted EXCEPT ![w] = TRUE]
    /\ UNCHANGED <<dbVars, pc, local, todo, handoff_failed, operation, starts, provider_calls>>

\* What the process had in memory is gone.
Forget(e) ==
    /\ local' = [local EXCEPT ![e] = NewRun]
    /\ todo' = [todo EXCEPT ![e] = {}]
    /\ operation' = [operation EXCEPT ![e] = 0]
    /\ handoff_failed' = [handoff_failed EXCEPT ![e] = FALSE]
    /\ halted' = [halted EXCEPT ![e] = FALSE]
    /\ UNCHANGED <<dbVars, starts, provider_calls>>

\* _ensure_active raises ResearchExecutionCancelled.
Stop(w) ==
    /\ pc[w] \in Checked
    /\ halted[w]
    /\ pc' = [pc EXCEPT ![w] = "stopped"]
    /\ Forget(w)

\* The process dies; what it has not saved is lost.
Die(e) ==
    /\ ProcessesDie
    /\ pc[e] \notin {"idle"} \cup Ended
    /\ pc' = [pc EXCEPT ![e] = "dead"]
    /\ Forget(e)

\* The operation is over and the process may begin another.
Leave(e) ==
    /\ pc[e] \in Ended
    /\ pc' = [pc EXCEPT ![e] = "idle"]
    /\ Forget(e)

\* Somebody else changes the decision: its content, its status or another run's
\* evidence.  save_result overwrites the document with what its caller has read
\* before, so that the evidence of only some hand-offs H remains in it (and may
\* come back later).  It adds an event of its own, so no version comes back.
EditDocument ==
    /\ document < MaxDocument
    /\ document' = document + 1
    /\ \E H \in SUBSET handoffs :
         /\ attached' = UNION {h[1] : h \in H}
         /\ flagged' \in SUBSET UNION {h[2] : h \in H}
    /\ UNCHANGED <<run, ledger, used_units, handoffs, processVars, starts, provider_calls>>

-----------------------------------------------------------------------------
\* A step of execute() or retry() after the first save.
Continue(e) ==
    \/ Deny(e) \/ Reserve(e) \/ Authorize(e) \/ OperationFails(e)
    \/ SearchReturns(e) \/ StartExtraction(e) \/ SelectSources(e) \/ TakeSnapshot(e)
    \/ NoContent(e) \/ Compile(e) \/ Conclude(e)

Step(e) == ValidateRetry(e) \/ RejectRetry(e) \/ Begin(e) \/ Continue(e)

Next ==
    \/ /\ starts < MaxStarts
       /\ \/ \E w \in Workers : StartWork(w)
          \/ \E c \in Calls : StartRetry(c) \/ StartCancel(c)
    \/ \E w \in Workers : Prepare(w) \/ Halt(w) \/ Stop(w)
    \/ \E c \in Calls : CancelRun(c)
    \/ \E e \in Processes : Step(e) \/ Die(e) \/ Leave(e)
    \/ EditDocument

Spec == Init /\ [][Next]_vars

-----------------------------------------------------------------------------
(* Properties. *)

\* Types of the tables and of the processes' memory.
TypeOK ==
    /\ run \in Run
    /\ ledger \in Seq(Event)
    /\ used_units \in Nat
    /\ document \in Nat
    /\ attached \in SUBSET Sources
    /\ flagged \in SUBSET attached
    /\ handoffs \in SUBSET ((SUBSET Sources) \X (SUBSET Sources))
    /\ pc \in [Processes -> Steps]
    /\ local \in [Processes -> Run]
    /\ todo \in [Processes -> SUBSET Sources]
    /\ handoff_failed \in [Processes -> BOOLEAN]
    /\ operation \in [Processes -> Nat]
    /\ halted \in [Processes -> BOOLEAN]
    /\ starts \in Nat
    /\ provider_calls \in [Operations -> Nat]

\* The row is never behind its audit trail nor ahead of it: however the saves
\* of executions, retries and cancellations interleave, none of them overwrites
\* what another has stored.
RowMatchesLedger == run.log = ledger

\* The audit trail tells one story: it begins with CREATED, every event
\* continues where the one before ended, along the lifecycle table (or is an
\* egress decision), and it ends with the status of the row.
LedgerIsChain ==
    /\ \A i \in DOMAIN ledger :
         /\ ledger[i].from = IF i = 1 THEN "CREATED" ELSE ledger[i - 1].to
         /\ (<<ledger[i].from, ledger[i].to>> \in L!Moves) \/ ledger[i].from = ledger[i].to
    /\ run.status = IF ledger = << >> THEN "CREATED" ELSE ledger[Len(ledger)].to

\* Row, audit table and the processes' copies are of their types, and row and
\* audit table agree.
AuditTrail == TypeOK /\ RowMatchesLedger /\ LedgerIsChain

\* The stored status implements the lifecycle table; in particular COMPLETED
\* and CANCELLED are terminal (docs/specifications/DA-WEB-RESEARCH-v0.4.md).
ImplementsResearchLifecycle == L!Spec

\* No two processes work on the run at a time, although nothing locks it: of
\* two that begin, the second to save its first transition fails.
Working == {"search", "egress", "call", "refused", "discovered", "select",
            "reselect", "extract", "conclude"}
SingleExecutor ==
    \A e, f \in Processes : pc[e] \in Working /\ pc[f] \in Working => e = f

\* No provider operation is requested more often than the policy permits, over
\* all executions and retries, also of processes that die or are stopped.
AttemptsLimited == \A o \in Operations : provider_calls[o] <= max_attempts_per_operation

\* A COMPLETED run has handed over all its usable evidence, none of it in
\* conflict: one hand-off of exactly this evidence is on record, whatever the
\* other editors of the decision do between compile(), attach() and the last
\* save.  (That the document still contains it is not so: see EditDocument.)
CompletedIsHandedOver ==
    run.status = "COMPLETED" /\ run.usable # {} => <<run.usable, {}>> \in handoffs

\* A finished run whose usable evidence was not handed over cannot be handed
\* over later either (the document it expects is gone): handoff() on a stored
\* run, which saves without an audit event, never gets as far as its save.
HandoffIsDecided ==
    run.status \in {"COMPLETED", "PARTIALLY_COMPLETED"} /\ run.usable # {} /\ ~run.handed
        => ~MayAttach(run) /\ ~Replayed(run)
=============================================================================
