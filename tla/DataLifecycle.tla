---------------------------- MODULE DataLifecycle ----------------------------
(***************************************************************************)
(* Deletion requests and legal holds of decision cases: lifecycle/service  *)
(* and lifecycle/postgresql, with the creation of cases and the submission *)
(* of Research runs that race with a deletion.                             *)
(*                                                                         *)
(* A service call is a sequence of transactions.  Each transaction takes   *)
(* the advisory lock of the request or of the case first, so it is one     *)
(* action; what the service read in an earlier transaction is kept in the  *)
(* state of the call (view, hold_seen, fresh, tip) and may be stale.       *)
(***************************************************************************)
EXTENDS Naturals, Sequences

CONSTANTS
    Cases,          \* decision ids of one tenant
    Requests,       \* deletion request ids: one per actor and idempotency key
    CaseOf,         \* the case of each request
    Calls,          \* service calls that may be in progress at a time
    None,           \* no case, no request
    MaxCreations,   \* bound: how often a case id is created
    MaxCrashes,     \* bound: calls whose process dies
    MaxHoldEvents   \* bound: length of the legal-hold history of a case

ASSUME CaseAssumption == CaseOf \in [Requests -> Cases]
ASSUME NoneAssumption == None \notin Cases \cup Requests
ASSUME BoundAssumption == MaxCreations \in Nat /\ MaxHoldEvents \in Nat /\ MaxCrashes \in Nat

VARIABLES
    exists,      \* the decisions row of the case is there
    creations,   \* how often the case was created
    research,    \* research_runs / research_jobs rows of the case are there
    hold,        \* the case has an active legal_holds row
    hold_events, \* legal_hold_audit_events of the case, oldest first
    status,      \* deletion_requests.status, "ABSENT" before the insert
    names_case,  \* deletion_requests.decision_id is not NULL
    last_event,  \* type of the last lifecycle_audit_events row of the request
    linked,      \* each event of the request names its predecessor's hash
    \* a service call
    pc,          \* its next transaction
    request,     \* the request it is about
    kase,        \* the case it is about
    view,        \* the request status it has seen
    hold_seen,   \* active_hold as it read it
    fresh,       \* the last event it read is still the last one
    tip,         \* length of the hold history when it read its last event
    crashes      \* calls that died so far

dbVars == <<exists, creations, research, hold, hold_events, status, names_case,
            last_event, linked>>
callVars == <<pc, request, kase, view, hold_seen, fresh, tip>>
vars == <<dbVars, callVars, crashes>>

DeletionStatus == {"REQUESTED", "BLOCKED_BY_HOLD", "EXECUTING", "COMPLETED", "FAILED"}
EventTypes == {"requested", "blocked", "executing", "completed"}
Steps == {"idle", "insert", "check", "readtip", "record", "readtip2", "complete",
          "readtip3", "reblock", "place", "release", "submit"}

-----------------------------------------------------------------------------
Init ==
    /\ exists = [c \in Cases |-> FALSE]
    /\ creations = [c \in Cases |-> 0]
    /\ research = [c \in Cases |-> FALSE]
    /\ hold = [c \in Cases |-> FALSE]
    /\ hold_events = [c \in Cases |-> <<>>]
    /\ status = [r \in Requests |-> "ABSENT"]
    /\ names_case = [r \in Requests |-> FALSE]
    /\ last_event = [r \in Requests |-> "none"]
    /\ linked = [r \in Requests |-> TRUE]
    /\ pc = [p \in Calls |-> "idle"]
    /\ request = [p \in Calls |-> None]
    /\ kase = [p \in Calls |-> None]
    /\ view = [p \in Calls |-> "ABSENT"]
    /\ hold_seen = [p \in Calls |-> FALSE]
    /\ fresh = [p \in Calls |-> FALSE]
    /\ tip = [p \in Calls |-> 0]
    /\ crashes = 0

Goto(p, step) == pc' = [pc EXCEPT ![p] = step]

\* The call returns, or raises and is answered with an error.
Return(p) ==
    /\ Goto(p, "idle")
    /\ request' = [request EXCEPT ![p] = None]
    /\ kase' = [kase EXCEPT ![p] = None]
    /\ view' = [view EXCEPT ![p] = "ABSENT"]
    /\ hold_seen' = [hold_seen EXCEPT ![p] = FALSE]
    /\ tip' = [tip EXCEPT ![p] = 0]

Forget(p) == fresh' = [fresh EXCEPT ![p] = FALSE]

\* _append_event: the new row names the hash the call read; from now on nobody
\* else's reading is the last event.
AppendEvent(p, r, type) ==
    /\ last_event' = [last_event EXCEPT ![r] = type]
    /\ linked' = [linked EXCEPT ![r] = @ /\ fresh[p]]
    /\ fresh' = [q \in Calls |-> fresh[q] /\ request[q] # r]

\* A case is inserted: by POST /v1/decisions or the compilation of an intake.
CreateCase(c) ==
    /\ ~exists[c] /\ creations[c] < MaxCreations
    /\ exists' = [exists EXCEPT ![c] = TRUE]
    /\ creations' = [creations EXCEPT ![c] = @ + 1]
    /\ UNCHANGED <<research, hold, hold_events, status, names_case, last_event,
                   linked, callVars, crashes>>

-----------------------------------------------------------------------------
(* request_deletion *)

\* get_by_idempotency finds nothing, case_exists, active_hold.  (A replay
\* finds the row and returns it.)
RequestDeletion(p, r) ==
    /\ pc[p] = "idle" /\ status[r] = "ABSENT" /\ exists[CaseOf[r]]
    /\ Goto(p, "insert")
    /\ request' = [request EXCEPT ![p] = r]
    /\ hold_seen' = [hold_seen EXCEPT ![p] = hold[CaseOf[r]]]
    /\ fresh' = [fresh EXCEPT ![p] = TRUE]
    /\ UNCHANGED <<dbVars, kase, view, tip, crashes>>

\* The status of a new request, from the hold the call has read.
InitialStatus(held) == IF held THEN "BLOCKED_BY_HOLD" ELSE "REQUESTED"

\* persist_transition with expected_status None: insert, or return the row of
\* the same request that a concurrent call inserted.
InsertRequest(p) ==
    LET r == request[p] IN
    /\ pc[p] = "insert"
    /\ \/ /\ status[r] # "ABSENT"
          /\ Forget(p)
          /\ UNCHANGED dbVars
       \/ /\ status[r] = "ABSENT"
          /\ status' = [status EXCEPT ![r] = InitialStatus(hold_seen[p])]
          /\ names_case' = [names_case EXCEPT ![r] = TRUE]
          /\ AppendEvent(p, r, "requested")
          /\ UNCHANGED <<exists, creations, research, hold, hold_events>>
    /\ Return(p)
    /\ UNCHANGED crashes

-----------------------------------------------------------------------------
(* execute_deletion *)

\* Mutant: an execution that was begun before is not taken up again.
Executable_NotResumed(r) == status[r] \in {"REQUESTED", "BLOCKED_BY_HOLD"}
\* get_request finds the row; a completed request is returned at once.
Executable(r) == status[r] \notin {"ABSENT", "COMPLETED"}

ExecuteDeletion(p, r) ==
    /\ pc[p] = "idle" /\ Executable(r)
    /\ Goto(p, "check")
    /\ request' = [request EXCEPT ![p] = r]
    /\ view' = [view EXCEPT ![p] = status[r]]
    /\ UNCHANGED <<dbVars, kase, hold_seen, fresh, tip, crashes>>

CheckHold(p) ==
    /\ pc[p] = "check"
    /\ hold_seen' = [hold_seen EXCEPT ![p] = hold[CaseOf[request[p]]]]
    /\ Goto(p, "readtip")
    /\ UNCHANGED <<dbVars, request, kase, view, fresh, tip, crashes>>

\* _event reads the last event of the request to link to it.
ReadTip(p) ==
    /\ \/ pc[p] = "readtip" /\ Goto(p, "record")
       \/ pc[p] = "readtip2" /\ Goto(p, "complete")
       \/ pc[p] = "readtip3" /\ Goto(p, "reblock")
    /\ fresh' = [fresh EXCEPT ![p] = TRUE]
    /\ UNCHANGED <<dbVars, request, kase, view, hold_seen, tip, crashes>>

\* Mutant: the last event is not compared.
PersistTransition_NoTip(p, target, type) ==
    LET r == request[p] IN
    /\ status[r] = view[p]
    /\ status' = [status EXCEPT ![r] = target]
    /\ AppendEvent(p, r, type)
\* Mutant: neither the status nor the last event is compared.
PersistTransition_Unguarded(p, target, type) ==
    LET r == request[p] IN
    /\ status' = [status EXCEPT ![r] = target]
    /\ AppendEvent(p, r, type)
\* persist_transition: compare-and-set on the status and on the last event.
PersistTransition(p, target, type) ==
    LET r == request[p] IN
    /\ status[r] = view[p]
    /\ fresh[p]
    /\ status' = [status EXCEPT ![r] = target]
    /\ AppendEvent(p, r, type)

\* A call that lost the race to a call with the same target, or to one that
\* completed the deletion, is given the current row.
Converges(p, target) ==
    status[request[p]] # view[p] /\ status[request[p]] \in {target, "COMPLETED"}

\* Anything else is a LifecycleTransitionConflict.
Conflicts(p, target) ==
    \/ status[request[p]] # view[p] /\ status[request[p]] \notin {target, "COMPLETED"}
    \/ status[request[p]] = view[p] /\ ~fresh[p]

\* _record of BLOCKED_BY_HOLD: after the hold check, or after LegalHoldActive.
RecordBlocked(p) ==
    /\ (pc[p] = "record" /\ hold_seen[p]) \/ pc[p] = "reblock"
    /\ \/ /\ PersistTransition(p, "BLOCKED_BY_HOLD", "blocked")
          /\ UNCHANGED <<exists, creations, research, hold, hold_events, names_case>>
       \/ /\ Converges(p, "BLOCKED_BY_HOLD") \/ Conflicts(p, "BLOCKED_BY_HOLD")
          /\ Forget(p)
          /\ UNCHANGED dbVars
    /\ Return(p)
    /\ UNCHANGED crashes

\* _record of EXECUTING.
RecordExecuting(p) ==
    /\ pc[p] = "record" /\ ~hold_seen[p]
    /\ \/ /\ PersistTransition(p, "EXECUTING", "executing")
          /\ view' = [view EXCEPT ![p] = "EXECUTING"]
          /\ Goto(p, "readtip2")
          /\ UNCHANGED <<exists, creations, research, hold, hold_events, names_case,
                         request, kase, hold_seen, tip>>
       \/ /\ Converges(p, "EXECUTING")
          /\ view' = [view EXCEPT ![p] = status[request[p]]]
          /\ Goto(p, "readtip2")
          /\ UNCHANGED <<dbVars, request, kase, hold_seen, fresh, tip>>
       \/ /\ Conflicts(p, "EXECUTING")
          /\ Forget(p)
          /\ UNCHANGED dbVars
          /\ Return(p)
    /\ UNCHANGED crashes

\* complete_deletion: under the request's lock the row must still be EXECUTING
\* and its last event the one this call linked to ...
MayComplete(p) == status[request[p]] = "EXECUTING" /\ fresh[p]

\* Mutant: the hold is not checked again under the case's lock.
HoldInTheWay_Unchecked(c) == FALSE
\* ... and _delete_case_data rechecks the hold under the case's lock.
HoldInTheWay(c) == hold[c]

\* The case data, the tombstone and the completion event in one transaction.
Erase(p) ==
    LET r == request[p]
        c == CaseOf[r] IN
    /\ pc[p] = "complete" /\ MayComplete(p)
    /\ ~HoldInTheWay(c) /\ exists[c]
    /\ exists' = [exists EXCEPT ![c] = FALSE]
    /\ research' = [research EXCEPT ![c] = FALSE]
    /\ hold' = [hold EXCEPT ![c] = FALSE]
    /\ status' = [status EXCEPT ![r] = "COMPLETED"]
    /\ names_case' = [names_case EXCEPT ![r] = FALSE]
    /\ AppendEvent(p, r, "completed")
    /\ UNCHANGED <<creations, hold_events>>
    /\ Return(p)
    /\ UNCHANGED crashes

\* LegalHoldActive rolls the transaction back; the service records the block.
EraseBlocked(p) ==
    /\ pc[p] = "complete" /\ MayComplete(p)
    /\ HoldInTheWay(CaseOf[request[p]])
    /\ Goto(p, "readtip3")
    /\ UNCHANGED <<dbVars, request, kase, view, hold_seen, fresh, tip, crashes>>

\* The row is COMPLETED already, there is a conflict, or the decision is gone
\* (KeyError after the last DELETE): nothing changes and the call ends.
EraseReturns(p) ==
    /\ pc[p] = "complete"
    /\ \/ ~MayComplete(p)
       \/ ~HoldInTheWay(CaseOf[request[p]]) /\ ~exists[CaseOf[request[p]]]
    /\ Return(p)
    /\ Forget(p)
    /\ UNCHANGED <<dbVars, crashes>>

-----------------------------------------------------------------------------
(* place_legal_hold, release_legal_hold *)

\* case_exists, and the last hold event to link to.
PlaceHold(p, c) ==
    /\ pc[p] = "idle" /\ exists[c] /\ Len(hold_events[c]) < MaxHoldEvents
    /\ Goto(p, "place")
    /\ kase' = [kase EXCEPT ![p] = c]
    /\ tip' = [tip EXCEPT ![p] = Len(hold_events[c])]
    /\ UNCHANGED <<dbVars, request, view, hold_seen, fresh, crashes>>

\* Mutant: a hold is inserted whether or not one is active.
MayPlace_Always(p) == exists[kase[p]] /\ tip[p] = Len(hold_events[kase[p]])
\* set_hold: no active hold, the history as it was read, and the case's row
\* (the foreign key) are there.
MayPlace(p) ==
    ~hold[kase[p]] /\ exists[kase[p]] /\ tip[p] = Len(hold_events[kase[p]])

SetHold(p) ==
    LET c == kase[p] IN
    /\ pc[p] = "place"
    /\ \/ /\ MayPlace(p)
          /\ hold' = [hold EXCEPT ![c] = TRUE]
          /\ hold_events' = [hold_events EXCEPT ![c] = Append(@, "placed")]
       \/ ~MayPlace(p) /\ UNCHANGED <<hold, hold_events>>
    /\ Return(p)
    /\ UNCHANGED <<exists, creations, research, status, names_case, last_event,
                   linked, fresh, crashes>>

ReleaseHold(p, c) ==
    /\ pc[p] = "idle" /\ Len(hold_events[c]) \in 1..(MaxHoldEvents - 1)
    /\ Goto(p, "release")
    /\ kase' = [kase EXCEPT ![p] = c]
    /\ tip' = [tip EXCEPT ![p] = Len(hold_events[c])]
    /\ UNCHANGED <<dbVars, request, view, hold_seen, fresh, crashes>>

\* release_hold: an active hold, and the history as it was read.
MayRelease(p) == hold[kase[p]] /\ tip[p] = Len(hold_events[kase[p]])

UnsetHold(p) ==
    LET c == kase[p] IN
    /\ pc[p] = "release"
    /\ \/ /\ MayRelease(p)
          /\ hold' = [hold EXCEPT ![c] = FALSE]
          /\ hold_events' = [hold_events EXCEPT ![c] = Append(@, "released")]
       \/ ~MayRelease(p) /\ UNCHANGED <<hold, hold_events>>
    /\ Return(p)
    /\ UNCHANGED <<exists, creations, research, status, names_case, last_event,
                   linked, fresh, crashes>>

-----------------------------------------------------------------------------
(* Submission of a Research run for the case *)

\* POST /v1/research-runs reads the decision ...
BeginResearch(p, c) ==
    /\ pc[p] = "idle" /\ exists[c] /\ ~research[c]
    /\ Goto(p, "submit")
    /\ kase' = [kase EXCEPT ![p] = c]
    /\ UNCHANGED <<dbVars, request, view, hold_seen, fresh, tip, crashes>>

\* ... and inserts the run and its job in a later transaction, which takes no
\* lock of the case; research_runs has no foreign key to decisions.
SubmitResearch(p) ==
    /\ pc[p] = "submit"
    /\ research' = [research EXCEPT ![kase[p]] = TRUE]
    /\ Return(p)
    /\ UNCHANGED <<exists, creations, hold, hold_events, status, names_case,
                   last_event, linked, fresh, crashes>>

\* The process of the call dies between two transactions.
Crash(p) ==
    /\ pc[p] # "idle"
    /\ crashes < MaxCrashes
    /\ crashes' = crashes + 1
    /\ Return(p)
    /\ Forget(p)
    /\ UNCHANGED dbVars

-----------------------------------------------------------------------------
Continue(p) ==
    \/ InsertRequest(p) \/ CheckHold(p) \/ ReadTip(p)
    \/ RecordBlocked(p) \/ RecordExecuting(p)
    \/ Erase(p) \/ EraseBlocked(p) \/ EraseReturns(p)
    \/ SetHold(p) \/ UnsetHold(p) \/ SubmitResearch(p)

Begin(p) ==
    \/ \E r \in Requests : RequestDeletion(p, r) \/ ExecuteDeletion(p, r)
    \/ \E c \in Cases : PlaceHold(p, c) \/ ReleaseHold(p, c) \/ BeginResearch(p, c)

Next ==
    \/ \E c \in Cases : CreateCase(c)
    \/ \E p \in Calls : Begin(p) \/ Continue(p) \/ Crash(p)

Spec == Init /\ [][Next]_vars

\* A call that does not crash goes on, and an administrator repeats the
\* execution of a request until it is over.  (Two administrators who repeat it
\* at the same time can make each other's last event stale for ever.)
Fairness ==
    /\ \A p \in Calls : WF_vars(Continue(p))
    /\ \A r \in Requests : SF_vars(\E p \in Calls : ExecuteDeletion(p, r))

FairSpec == Spec /\ Fairness

-----------------------------------------------------------------------------
(* Properties. *)

\* Types of the tables and of the calls in progress.
TypeOK ==
    /\ exists \in [Cases -> BOOLEAN]
    /\ creations \in [Cases -> Nat]
    /\ research \in [Cases -> BOOLEAN]
    /\ hold \in [Cases -> BOOLEAN]
    /\ hold_events \in [Cases -> Seq({"placed", "released"})]
    /\ status \in [Requests -> DeletionStatus \cup {"ABSENT"}]
    /\ names_case \in [Requests -> BOOLEAN]
    /\ last_event \in [Requests -> EventTypes \cup {"none"}]
    /\ linked \in [Requests -> BOOLEAN]
    /\ pc \in [Calls -> Steps]
    /\ request \in [Calls -> Requests \cup {None}]
    /\ kase \in [Calls -> Cases \cup {None}]
    /\ view \in [Calls -> DeletionStatus \cup {"ABSENT"}]
    /\ hold_seen \in [Calls -> BOOLEAN]
    /\ fresh \in [Calls -> BOOLEAN]
    /\ tip \in [Calls -> Nat]
    /\ crashes \in Nat

\* Whatever a call read before, no row of a case is erased while a legal hold
\* on it is active (docs/specifications/DA-CONTROLLED-PILOT-EDGE-v0.8.md:
\* "active hold never deletes").
HoldWins ==
    [][\A c \in Cases : hold[c] => (exists[c] => exists'[c]) /\ (research[c] => research'[c])]_vars

\* A request becomes COMPLETED only in the transaction that erases its case,
\* and its tombstone then no longer names the case; neither changes later.
CompletionIsErasure ==
    [][\A r \in Requests :
        /\ status[r] # "COMPLETED" /\ status'[r] = "COMPLETED" =>
             /\ exists[CaseOf[r]] /\ ~exists'[CaseOf[r]] /\ ~research'[CaseOf[r]]
             /\ ~hold'[CaseOf[r]] /\ ~names_case'[r]
        /\ status[r] = "COMPLETED" => status'[r] = "COMPLETED" /\ ~names_case'[r]]_vars

\* Concurrent executions, blocks and retries leave one linear hash chain per
\* request, whose last event is the one that led to the request's status.
LifecycleHistory ==
    \A r \in Requests :
        /\ linked[r]
        /\ status[r] = "REQUESTED" => last_event[r] = "requested"
        /\ status[r] = "BLOCKED_BY_HOLD" => last_event[r] \in {"requested", "blocked"}
        /\ status[r] = "EXECUTING" => last_event[r] = "executing"
        /\ status[r] = "COMPLETED" <=> last_event[r] = "completed"

\* The hold history, which outlives the case, alternates between placed and
\* released and ends with "placed" exactly while a hold is active; a hold is
\* active only on a case that exists.
HoldHistory ==
    \A c \in Cases :
        /\ \A i \in DOMAIN hold_events[c] :
             hold_events[c][i] = "placed" <=> i = 1 \/ hold_events[c][i - 1] = "released"
        /\ hold[c] <=> /\ Len(hold_events[c]) > 0
                       /\ hold_events[c][Len(hold_events[c])] = "placed"
        /\ hold[c] => exists[c]

\* Somebody else is after the request: two calls execute it at the same time
\* and may make each other's last event stale for ever, or another request can
\* erase the case first.
Contested(r) ==
    \/ \E p, q \in Calls : p # q /\ request[p] = r /\ request[q] = r
    \/ \E s \in Requests \ {r} : CaseOf[s] = CaseOf[r] /\ status[s] # "ABSENT"

\* docs/specifications/DA-CONTROLLED-PILOT-EDGE-v0.8.md: a request that is
\* EXECUTING goes on to COMPLETED or FAILED (or is blocked by a hold), through
\* crashes, holds and unrelated calls, unless it is contested.
ExecutionConcludes ==
    \A r \in Requests :
        status[r] = "EXECUTING"
            ~> status[r] \in {"COMPLETED", "FAILED", "BLOCKED_BY_HOLD"} \/ Contested(r)

\* The strengthening that makes LifecycleHistory and HoldHistory inductive and
\* gives HoldWins and CompletionIsErasure.  A call knows what it works on, and
\* what it has seen of the request is something that can still be true ...
RequestSteps == {"insert", "check", "readtip", "record", "readtip2", "complete",
                 "readtip3", "reblock"}
CallInv ==
    \A p \in Calls :
        /\ pc[p] \in RequestSteps => request[p] \in Requests
        /\ pc[p] \in {"place", "release", "submit"} => kase[p] \in Cases
        /\ pc[p] = "insert" => fresh[p] \/ status[request[p]] # "ABSENT"
        /\ pc[p] \in {"check", "readtip", "record"} => view[p] \notin {"ABSENT", "COMPLETED"}
        /\ pc[p] \in {"readtip2", "complete"} =>
             \/ view[p] = "EXECUTING"
             \/ view[p] = "COMPLETED" /\ status[request[p]] = "COMPLETED"
        /\ pc[p] \in {"readtip3", "reblock"} => view[p] = "EXECUTING"
\* ... and a completed request is a tombstone.
TombstoneInv == \A r \in Requests : status[r] = "COMPLETED" => ~names_case[r]
IInv == TypeOK /\ CallInv /\ TombstoneInv /\ LifecycleHistory /\ HoldHistory
=============================================================================
