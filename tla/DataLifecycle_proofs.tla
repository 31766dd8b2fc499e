------------------------ MODULE DataLifecycle_proofs ------------------------
(***************************************************************************)
(* Proofs about DataLifecycle, for any cases, requests and concurrent      *)
(* calls.                                                                  *)
(***************************************************************************)
EXTENDS DataLifecycle, TLAPS

\* A call that returns, whatever the outcome, leaves the calls typed.
LEMMA ReturnTypes ==
  ASSUME TypeOK, NEW p \in Calls, Return(p)
  PROVE  /\ pc' \in [Calls -> Steps]
         /\ request' \in [Calls -> Requests \cup {None}]
         /\ kase' \in [Calls -> Cases \cup {None}]
         /\ view' \in [Calls -> DeletionStatus \cup {"ABSENT"}]
         /\ hold_seen' \in [Calls -> BOOLEAN]
         /\ tip' \in [Calls -> Nat]
  BY DEF TypeOK, Return, Goto, Steps

\* So does an event appended to a request's history (_append_event), with the
\* request's rows.
LEMMA AppendTypes ==
  ASSUME TypeOK, NEW p \in Calls, NEW r \in Requests, NEW type \in EventTypes,
         AppendEvent(p, r, type)
  PROVE  /\ last_event' \in [Requests -> EventTypes \cup {"none"}]
         /\ linked' \in [Requests -> BOOLEAN]
         /\ fresh' \in [Calls -> BOOLEAN]
  BY DEF TypeOK, AppendEvent

\* Empty tables and no call in progress satisfy the invariant.
LEMMA InitInv == Init => IInv
<1> SUFFICES ASSUME Init PROVE IInv
  OBVIOUS
<1>1. TypeOK
  BY BoundAssumption DEF Init, TypeOK, Steps
<1>2. CallInv
  BY DEF Init, CallInv, RequestSteps
<1>3. TombstoneInv /\ LifecycleHistory
  BY DEF Init, TombstoneInv, LifecycleHistory
<1>4. HoldHistory
  <2> SUFFICES ASSUME NEW c \in Cases
               PROVE  /\ \A i \in DOMAIN hold_events[c] :
                           hold_events[c][i] = "placed" <=>
                             i = 1 \/ hold_events[c][i - 1] = "released"
                      /\ hold[c] <=> /\ Len(hold_events[c]) > 0
                                     /\ hold_events[c][Len(hold_events[c])] = "placed"
                      /\ hold[c] => exists[c]
    BY DEF HoldHistory
  <2>1. hold_events[c] = <<>> /\ hold[c] = FALSE
    BY DEF Init
  <2>2. Len(<<>>) = 0 /\ DOMAIN <<>> = {} /\ ~(0 > 0)
    OBVIOUS
  <2>3. Len(hold_events[c]) = 0 /\ DOMAIN hold_events[c] = {}
    BY <2>1, <2>2, Zenon
  <2>4. ~(Len(hold_events[c]) > 0)
    BY <2>2, <2>3, Zenon
  <2> QED
    BY <2>1, <2>3, <2>4, Zenon
<1> QED
  BY <1>1, <1>2, <1>3, <1>4 DEF IInv

\* Every transaction of the service leaves the tables and the calls typed.
LEMMA StepTyped == IInv /\ [Next]_vars => TypeOK'
<1> SUFFICES ASSUME IInv, [Next]_vars PROVE TypeOK'
  OBVIOUS
<1> USE DEF EventTypes
<1>0. TypeOK /\ CallInv
  BY DEF IInv
<1>1. ASSUME NEW c \in Cases, CreateCase(c) PROVE TypeOK'
  BY <1>0, <1>1 DEF TypeOK, CreateCase, callVars
<1>2. ASSUME NEW p \in Calls, NEW r \in Requests, RequestDeletion(p, r) PROVE TypeOK'
  BY <1>0, <1>2, CaseAssumption DEF TypeOK, RequestDeletion, Goto, dbVars, Steps
<1>3. ASSUME NEW p \in Calls, InsertRequest(p) PROVE TypeOK'
  <2>1. request[p] \in Requests
    BY <1>0, <1>3 DEF CallInv, RequestSteps, InsertRequest
  <2>2. InitialStatus(hold_seen[p]) \in DeletionStatus
    BY DEF InitialStatus, DeletionStatus
  <2>3. CASE status[request[p]] # "ABSENT"
    BY <1>0, <1>3, <2>3, ReturnTypes DEF TypeOK, InsertRequest, Forget, dbVars
  <2>4. CASE status[request[p]] = "ABSENT"
    <3>1. AppendEvent(p, request[p], "requested") /\ Return(p)
      BY <1>3, <2>4 DEF InsertRequest
    <3> QED
      BY <1>0, <1>3, <2>1, <2>2, <2>4, <3>1, ReturnTypes, AppendTypes
      DEF TypeOK, InsertRequest
  <2> QED
    BY <2>3, <2>4
<1>4. ASSUME NEW p \in Calls, NEW r \in Requests, ExecuteDeletion(p, r) PROVE TypeOK'
  BY <1>0, <1>4 DEF TypeOK, ExecuteDeletion, Goto, dbVars, Steps
<1>5. ASSUME NEW p \in Calls, CheckHold(p) PROVE TypeOK'
  <2>1. request[p] \in Requests
    BY <1>0, <1>5 DEF CallInv, RequestSteps, CheckHold
  <2> QED
    BY <1>0, <1>5, <2>1, CaseAssumption DEF TypeOK, CheckHold, Goto, dbVars, Steps
<1>6. ASSUME NEW p \in Calls, ReadTip(p) PROVE TypeOK'
  BY <1>0, <1>6 DEF TypeOK, ReadTip, Goto, dbVars, Steps
<1>7. ASSUME NEW p \in Calls, RecordBlocked(p) PROVE TypeOK'
  <2>1. request[p] \in Requests
    BY <1>0, <1>7 DEF CallInv, RequestSteps, RecordBlocked
  <2>2. CASE PersistTransition(p, "BLOCKED_BY_HOLD", "blocked")
             /\ UNCHANGED <<exists, creations, research, hold, hold_events, names_case>>
    <3>1. AppendEvent(p, request[p], "blocked") /\ Return(p)
      BY <1>7, <2>2 DEF RecordBlocked, PersistTransition
    <3> QED
      BY <1>0, <1>7, <2>1, <2>2, <3>1, ReturnTypes, AppendTypes
      DEF TypeOK, RecordBlocked, PersistTransition, DeletionStatus
  <2>3. CASE Forget(p) /\ UNCHANGED dbVars
    BY <1>0, <1>7, <2>3, ReturnTypes DEF TypeOK, RecordBlocked, Forget, dbVars
  <2> QED
    BY <1>7, <2>2, <2>3 DEF RecordBlocked
<1>8. ASSUME NEW p \in Calls, RecordExecuting(p) PROVE TypeOK'
  <2>1. request[p] \in Requests
    BY <1>0, <1>8 DEF CallInv, RequestSteps, RecordExecuting
  <2>2. CASE PersistTransition(p, "EXECUTING", "executing")
             /\ view' = [view EXCEPT ![p] = "EXECUTING"] /\ Goto(p, "readtip2")
             /\ UNCHANGED <<exists, creations, research, hold, hold_events, names_case,
                            request, kase, hold_seen, tip>>
    <3>1. AppendEvent(p, request[p], "executing")
      BY <2>2 DEF PersistTransition
    <3> QED
      BY <1>0, <1>8, <2>1, <2>2, <3>1, AppendTypes
      DEF TypeOK, RecordExecuting, PersistTransition, DeletionStatus, Goto, Steps
  <2>3. CASE view' = [view EXCEPT ![p] = status[request[p]]] /\ Goto(p, "readtip2")
             /\ UNCHANGED <<dbVars, request, kase, hold_seen, fresh, tip>>
    BY <1>0, <1>8, <2>1, <2>3 DEF TypeOK, RecordExecuting, Goto, Steps, dbVars
  <2>4. CASE Forget(p) /\ UNCHANGED dbVars /\ Return(p)
    BY <1>0, <1>8, <2>4, ReturnTypes DEF TypeOK, RecordExecuting, Forget, dbVars
  <2> QED
    BY <1>8, <2>2, <2>3, <2>4 DEF RecordExecuting
<1>9. ASSUME NEW p \in Calls, Erase(p) PROVE TypeOK'
  <2>1. request[p] \in Requests
    BY <1>0, <1>9 DEF CallInv, RequestSteps, Erase
  <2>2. AppendEvent(p, request[p], "completed") /\ Return(p)
    BY <1>9 DEF Erase
  <2> QED
    BY <1>0, <1>9, <2>1, <2>2, ReturnTypes, AppendTypes
    DEF TypeOK, Erase, DeletionStatus
<1>10. ASSUME NEW p \in Calls, EraseBlocked(p) PROVE TypeOK'
  BY <1>0, <1>10 DEF TypeOK, EraseBlocked, Goto, dbVars, Steps
<1>11. ASSUME NEW p \in Calls, EraseReturns(p) PROVE TypeOK'
  BY <1>0, <1>11, ReturnTypes DEF TypeOK, EraseReturns, Forget, dbVars
<1>12. ASSUME NEW p \in Calls, NEW c \in Cases, PlaceHold(p, c) PROVE TypeOK'
  BY <1>0, <1>12 DEF TypeOK, PlaceHold, Goto, dbVars, Steps
<1>13. ASSUME NEW p \in Calls, SetHold(p) PROVE TypeOK'
  <2>1. kase[p] \in Cases
    BY <1>0, <1>13 DEF CallInv, SetHold
  <2>2. Append(hold_events[kase[p]], "placed") \in Seq({"placed", "released"})
    BY <1>0, <2>1 DEF TypeOK
  <2>3. hold' \in [Cases -> BOOLEAN] /\ hold_events' \in [Cases -> Seq({"placed", "released"})]
    BY <1>0, <1>13, <2>1, <2>2 DEF TypeOK, SetHold
  <2> QED
    BY <1>0, <1>13, <2>3, ReturnTypes DEF TypeOK, SetHold
<1>14. ASSUME NEW p \in Calls, NEW c \in Cases, ReleaseHold(p, c) PROVE TypeOK'
  BY <1>0, <1>14 DEF TypeOK, ReleaseHold, Goto, dbVars, Steps
<1>15. ASSUME NEW p \in Calls, UnsetHold(p) PROVE TypeOK'
  <2>1. kase[p] \in Cases
    BY <1>0, <1>15 DEF CallInv, UnsetHold
  <2>2. Append(hold_events[kase[p]], "released") \in Seq({"placed", "released"})
    BY <1>0, <2>1 DEF TypeOK
  <2>3. hold' \in [Cases -> BOOLEAN] /\ hold_events' \in [Cases -> Seq({"placed", "released"})]
    BY <1>0, <1>15, <2>1, <2>2 DEF TypeOK, UnsetHold
  <2> QED
    BY <1>0, <1>15, <2>3, ReturnTypes DEF TypeOK, UnsetHold
<1>16. ASSUME NEW p \in Calls, NEW c \in Cases, BeginResearch(p, c) PROVE TypeOK'
  BY <1>0, <1>16 DEF TypeOK, BeginResearch, Goto, dbVars, Steps
<1>17. ASSUME NEW p \in Calls, SubmitResearch(p) PROVE TypeOK'
  BY <1>0, <1>17, ReturnTypes DEF TypeOK, SubmitResearch
<1>18. ASSUME NEW p \in Calls, Crash(p) PROVE TypeOK'
  BY <1>0, <1>18, ReturnTypes, BoundAssumption DEF TypeOK, Crash, Forget, dbVars
<1>19. CASE UNCHANGED vars
  BY <1>0, <1>19 DEF TypeOK, vars, dbVars, callVars
<1> QED
  BY <1>1, <1>2, <1>3, <1>4, <1>5, <1>6, <1>7, <1>8, <1>9, <1>10, <1>11, <1>12,
     <1>13, <1>14, <1>15, <1>16, <1>17, <1>18, <1>19 DEF Next, Begin, Continue
\* A call keeps knowing its request and its case, and what it has seen of the
\* request's status is EXECUTING or final from the moment it was recorded.
LEMMA StepCallInv == IInv /\ [Next]_vars => CallInv'
<1> SUFFICES ASSUME IInv, [Next]_vars PROVE CallInv'
  OBVIOUS
<1> USE DEF CallInv, RequestSteps
<1>0. TypeOK /\ CallInv
  BY DEF IInv
<1>1. ASSUME NEW c \in Cases, CreateCase(c) PROVE CallInv'
  BY <1>0, <1>1 DEF TypeOK, CreateCase, callVars
<1>2. ASSUME NEW p \in Calls, NEW r \in Requests, RequestDeletion(p, r) PROVE CallInv'
  BY <1>0, <1>2 DEF TypeOK, RequestDeletion, Goto, dbVars
<1>3. ASSUME NEW p \in Calls, InsertRequest(p) PROVE CallInv'
  <2>1. InitialStatus(hold_seen[p]) # "ABSENT"
    BY DEF InitialStatus
  <2>2. CASE status[request[p]] # "ABSENT"
    BY <1>0, <1>3, <2>2 DEF TypeOK, InsertRequest, Return, Goto, Forget, dbVars
  <2>3. CASE status[request[p]] = "ABSENT"
    BY <1>0, <1>3, <2>1, <2>3 DEF TypeOK, InsertRequest, Return, Goto, AppendEvent
  <2> QED
    BY <2>2, <2>3
<1>4. ASSUME NEW p \in Calls, NEW r \in Requests, ExecuteDeletion(p, r) PROVE CallInv'
  BY <1>0, <1>4 DEF TypeOK, ExecuteDeletion, Executable, Goto, dbVars
<1>5. ASSUME NEW p \in Calls, CheckHold(p) PROVE CallInv'
  BY <1>0, <1>5 DEF TypeOK, CheckHold, Goto, dbVars
<1>6. ASSUME NEW p \in Calls, ReadTip(p) PROVE CallInv'
  BY <1>0, <1>6 DEF TypeOK, ReadTip, Goto, dbVars
<1>7. ASSUME NEW p \in Calls, RecordBlocked(p) PROVE CallInv'
  <2>1. CASE PersistTransition(p, "BLOCKED_BY_HOLD", "blocked")
    <3>1. request[p] \in Requests /\ status[request[p]] \notin {"ABSENT", "COMPLETED"}
      BY <1>0, <1>7, <2>1 DEF RecordBlocked, PersistTransition
    <3>2. \A r \in Requests : status[r] = "COMPLETED" => status'[r] = "COMPLETED"
      BY <1>0, <2>1, <3>1 DEF TypeOK, PersistTransition
    <3>3. \A r \in Requests : status[r] # "ABSENT" => status'[r] # "ABSENT"
      BY <1>0, <2>1, <3>1 DEF TypeOK, PersistTransition
    <3>4. \A q \in Calls : fresh[q] => fresh'[q] \/ status'[request[q]] # "ABSENT"
      BY <1>0, <2>1, <3>1 DEF TypeOK, PersistTransition, AppendEvent
    <3> QED
      BY <1>0, <1>7, <3>2, <3>3, <3>4 DEF TypeOK, RecordBlocked, Return, Goto
  <2>2. CASE Forget(p) /\ UNCHANGED dbVars
    BY <1>0, <1>7, <2>2 DEF TypeOK, RecordBlocked, Return, Goto, Forget, dbVars
  <2> QED
    BY <1>7, <2>1, <2>2 DEF RecordBlocked
<1>8. ASSUME NEW p \in Calls, RecordExecuting(p) PROVE CallInv'
  BY <1>0, <1>8 DEF TypeOK, RecordExecuting, PersistTransition, Converges, Return, Goto, Forget, AppendEvent, dbVars
<1>9. ASSUME NEW p \in Calls, Erase(p) PROVE CallInv'
  BY <1>0, <1>9 DEF TypeOK, Erase, MayComplete, Return, Goto, AppendEvent
<1>10. ASSUME NEW p \in Calls, EraseBlocked(p) PROVE CallInv'
  BY <1>0, <1>10 DEF TypeOK, EraseBlocked, MayComplete, Goto, dbVars
<1>11. ASSUME NEW p \in Calls, EraseReturns(p) PROVE CallInv'
  BY <1>0, <1>11 DEF TypeOK, EraseReturns, Return, Goto, Forget, dbVars
<1>12. ASSUME NEW p \in Calls, NEW c \in Cases, PlaceHold(p, c) PROVE CallInv'
  BY <1>0, <1>12 DEF TypeOK, PlaceHold, Goto, dbVars
<1>13. ASSUME NEW p \in Calls, SetHold(p) PROVE CallInv'
  BY <1>0, <1>13 DEF TypeOK, SetHold, Return, Goto
<1>14. ASSUME NEW p \in Calls, NEW c \in Cases, ReleaseHold(p, c) PROVE CallInv'
  BY <1>0, <1>14 DEF TypeOK, ReleaseHold, Goto, dbVars
<1>15. ASSUME NEW p \in Calls, UnsetHold(p) PROVE CallInv'
  BY <1>0, <1>15 DEF TypeOK, UnsetHold, Return, Goto
<1>16. ASSUME NEW p \in Calls, NEW c \in Cases, BeginResearch(p, c) PROVE CallInv'
  BY <1>0, <1>16 DEF TypeOK, BeginResearch, Goto, dbVars
<1>17. ASSUME NEW p \in Calls, SubmitResearch(p) PROVE CallInv'
  BY <1>0, <1>17 DEF TypeOK, SubmitResearch, Return, Goto
<1>18. ASSUME NEW p \in Calls, Crash(p) PROVE CallInv'
  BY <1>0, <1>18 DEF TypeOK, Crash, Return, Goto, Forget, dbVars
<1>19. CASE UNCHANGED vars
  BY <1>0, <1>19 DEF vars, dbVars, callVars
<1> QED
  BY <1>1, <1>2, <1>3, <1>4, <1>5, <1>6, <1>7, <1>8, <1>9, <1>10, <1>11, <1>12, <1>13, <1>14, <1>15, <1>16, <1>17, <1>18, <1>19 DEF Next, Begin, Continue
(***************************************************************************)
(* Steps that change a request, a hold or a case.                          *)
(***************************************************************************)

\* Only the four transactions on deletion_requests change a request's row or
\* its history.
LEMMA RequestSteady ==
  ASSUME Next, \A p \in Calls : ~(InsertRequest(p) \/ RecordBlocked(p)
                                    \/ RecordExecuting(p) \/ Erase(p))
  PROVE  UNCHANGED <<status, names_case, last_event, linked>>
  BY DEF Next, Begin, Continue, CreateCase, RequestDeletion, ExecuteDeletion, CheckHold,
         ReadTip, EraseBlocked, EraseReturns, PlaceHold, SetHold, ReleaseHold, UnsetHold,
         BeginResearch, SubmitResearch, Crash, dbVars

\* What each of them does to the rows: nothing, a new REQUESTED or
\* BLOCKED_BY_HOLD row, a compare-and-set of a row that is not final, or the
\* tombstone of an EXECUTING one.
LEMMA RequestChange ==
  ASSUME IInv, NEW p \in Calls,
         InsertRequest(p) \/ RecordBlocked(p) \/ RecordExecuting(p) \/ Erase(p)
  PROVE  \/ UNCHANGED <<status, names_case, last_event, linked>>
         \/ /\ request[p] \in Requests /\ fresh[p]
            /\ \E s \in DeletionStatus, e \in EventTypes, n \in BOOLEAN :
                 /\ status' = [status EXCEPT ![request[p]] = s]
                 /\ names_case' = [names_case EXCEPT ![request[p]] = n]
                 /\ last_event' = [last_event EXCEPT ![request[p]] = e]
                 /\ linked' = [linked EXCEPT ![request[p]] = @ /\ fresh[p]]
                 /\ status[request[p]] # "COMPLETED"
                 /\ \/ s \in {"REQUESTED", "BLOCKED_BY_HOLD"} /\ e = "requested"
                    \/ s = "BLOCKED_BY_HOLD" /\ e = "blocked"
                    \/ s = "EXECUTING" /\ e = "executing"
                    \/ s = "COMPLETED" /\ e = "completed" /\ ~n /\ Erase(p)
<1> USE DEF DeletionStatus, EventTypes
<1>0. TypeOK /\ CallInv
  BY DEF IInv
<1>1. CASE InsertRequest(p)
  <2>1. request[p] \in Requests
    BY <1>0, <1>1 DEF CallInv, RequestSteps, InsertRequest
  <2>2. CASE status[request[p]] # "ABSENT"
    BY <1>1, <2>2 DEF InsertRequest, dbVars
  <2>3. CASE status[request[p]] = "ABSENT"
    <3>1. fresh[p]
      BY <1>0, <1>1, <2>3 DEF CallInv, InsertRequest
    <3>2. InitialStatus(hold_seen[p]) \in {"REQUESTED", "BLOCKED_BY_HOLD"}
      BY DEF InitialStatus
    <3> QED
      BY <1>1, <2>1, <2>3, <3>1, <3>2 DEF InsertRequest, AppendEvent
  <2> QED
    BY <2>2, <2>3
<1>2. CASE RecordBlocked(p)
  <2>1. request[p] \in Requests
    BY <1>0, <1>2 DEF CallInv, RequestSteps, RecordBlocked
  <2>2. CASE PersistTransition(p, "BLOCKED_BY_HOLD", "blocked") /\ UNCHANGED names_case
    <3>1. fresh[p] /\ status[request[p]] # "COMPLETED"
      BY <1>0, <1>2, <2>2 DEF CallInv, RecordBlocked, PersistTransition
    <3>2. names_case' = [names_case EXCEPT ![request[p]] = names_case[request[p]]]
          /\ names_case[request[p]] \in BOOLEAN
      BY <1>0, <2>1, <2>2 DEF TypeOK
    <3> QED
      BY <2>1, <2>2, <3>1, <3>2 DEF PersistTransition, AppendEvent
  <2>3. CASE UNCHANGED dbVars
    BY <2>3 DEF dbVars
  <2> QED
    BY <1>2, <2>2, <2>3 DEF RecordBlocked
<1>3. CASE RecordExecuting(p)
  <2>1. request[p] \in Requests
    BY <1>0, <1>3 DEF CallInv, RequestSteps, RecordExecuting
  <2>2. CASE PersistTransition(p, "EXECUTING", "executing") /\ UNCHANGED names_case
    <3>1. fresh[p] /\ status[request[p]] # "COMPLETED"
      BY <1>0, <1>3, <2>2 DEF CallInv, RecordExecuting, PersistTransition
    <3>2. names_case' = [names_case EXCEPT ![request[p]] = names_case[request[p]]]
          /\ names_case[request[p]] \in BOOLEAN
      BY <1>0, <2>1, <2>2 DEF TypeOK
    <3> QED
      BY <2>1, <2>2, <3>1, <3>2 DEF PersistTransition, AppendEvent
  <2>3. CASE UNCHANGED dbVars
    BY <2>3 DEF dbVars
  <2> QED
    BY <1>3, <2>2, <2>3 DEF RecordExecuting
<1>4. CASE Erase(p)
  <2>1. request[p] \in Requests
    BY <1>0, <1>4 DEF CallInv, RequestSteps, Erase
  <2> QED
    BY <1>4, <2>1 DEF Erase, MayComplete, AppendEvent
<1> QED
  BY <1>1, <1>2, <1>3, <1>4
\* A completed request stays a tombstone, and the history of each request
\* stays one chain that ends in the event of its status.
LEMMA StepRequests ==
  IInv /\ [Next]_vars => TombstoneInv' /\ LifecycleHistory'
<1> SUFFICES ASSUME IInv, [Next]_vars PROVE TombstoneInv' /\ LifecycleHistory'
  OBVIOUS
<1>0. TypeOK /\ TombstoneInv /\ LifecycleHistory
  BY DEF IInv
<1>1. CASE UNCHANGED <<status, names_case, last_event, linked>>
  BY <1>0, <1>1 DEF TombstoneInv, LifecycleHistory
<1>2. CASE Next /\ ~UNCHANGED <<status, names_case, last_event, linked>>
  <2>1. PICK p \in Calls : InsertRequest(p) \/ RecordBlocked(p) \/ RecordExecuting(p) \/ Erase(p)
    BY <1>2, RequestSteady
  <2>2. request[p] \in Requests /\ fresh[p]
    BY <1>2, <2>1, RequestChange
  <2>3. PICK s \in DeletionStatus, e \in EventTypes, n \in BOOLEAN :
          /\ status' = [status EXCEPT ![request[p]] = s]
          /\ names_case' = [names_case EXCEPT ![request[p]] = n]
          /\ last_event' = [last_event EXCEPT ![request[p]] = e]
          /\ linked' = [linked EXCEPT ![request[p]] = @ /\ fresh[p]]
          /\ \/ s \in {"REQUESTED", "BLOCKED_BY_HOLD"} /\ e = "requested"
             \/ s = "BLOCKED_BY_HOLD" /\ e = "blocked"
             \/ s = "EXECUTING" /\ e = "executing"
             \/ s = "COMPLETED" /\ e = "completed" /\ ~n
    BY <1>2, <2>1, RequestChange
  <2>4. TombstoneInv'
    BY <1>0, <2>2, <2>3 DEF TypeOK, TombstoneInv
  <2>5. \A r \in Requests : linked'[r]
    BY <1>0, <2>2, <2>3 DEF TypeOK, LifecycleHistory
  <2> QED
    BY <1>0, <2>2, <2>3, <2>4, <2>5 DEF TypeOK, LifecycleHistory
<1>3. CASE UNCHANGED vars
  BY <1>1, <1>3 DEF vars, dbVars
<1> QED
  BY <1>1, <1>2, <1>3

\* Only set_hold and release_hold change the hold history, and besides them
\* only the erasure removes a hold or a case.
LEMMA HoldSteady ==
  ASSUME Next, \A p \in Calls : ~(SetHold(p) \/ UnsetHold(p) \/ Erase(p))
  PROVE  /\ UNCHANGED <<hold, hold_events>>
         /\ UNCHANGED exists \/ \E c \in Cases : exists' = [exists EXCEPT ![c] = TRUE]
         /\ UNCHANGED research \/ \E p \in Calls : /\ pc[p] = "submit"
                                                  /\ research' = [research EXCEPT ![kase[p]] = TRUE]
  BY DEF Next, Begin, Continue, CreateCase, RequestDeletion, InsertRequest, ExecuteDeletion,
         CheckHold, ReadTip, RecordBlocked, RecordExecuting, EraseBlocked, EraseReturns,
         PlaceHold, ReleaseHold, BeginResearch, SubmitResearch, Crash, dbVars

\* The hold history alternates and ends with the active hold.
LEMMA StepHoldHistory == IInv /\ [Next]_vars => HoldHistory'
<1> SUFFICES ASSUME IInv, [Next]_vars PROVE HoldHistory'
  OBVIOUS
<1>0. TypeOK /\ CallInv /\ HoldHistory
  BY DEF IInv
<1>1. ASSUME NEW p \in Calls, SetHold(p) PROVE HoldHistory'
  <2>1. kase[p] \in Cases /\ UNCHANGED exists
    BY <1>0, <1>1 DEF CallInv, SetHold
  <2>2. CASE UNCHANGED <<hold, hold_events>>
    BY <1>0, <2>1, <2>2 DEF HoldHistory
  <2>3. CASE /\ MayPlace(p)
             /\ hold' = [hold EXCEPT ![kase[p]] = TRUE]
             /\ hold_events' = [hold_events EXCEPT ![kase[p]] = Append(@, "placed")]
    <3>1. hold_events[kase[p]] \in Seq({"placed", "released"})
      BY <1>0, <2>1 DEF TypeOK
    <3> QED
      BY <1>0, <2>1, <2>3, <3>1 DEF TypeOK, HoldHistory, MayPlace
  <2> QED
    BY <1>1, <2>2, <2>3 DEF SetHold
<1>2. ASSUME NEW p \in Calls, UnsetHold(p) PROVE HoldHistory'
  <2>1. kase[p] \in Cases /\ UNCHANGED exists
    BY <1>0, <1>2 DEF CallInv, UnsetHold
  <2>2. CASE UNCHANGED <<hold, hold_events>>
    BY <1>0, <2>1, <2>2 DEF HoldHistory
  <2>3. CASE /\ MayRelease(p)
             /\ hold' = [hold EXCEPT ![kase[p]] = FALSE]
             /\ hold_events' = [hold_events EXCEPT ![kase[p]] = Append(@, "released")]
    <3>1. hold_events[kase[p]] \in Seq({"placed", "released"})
      BY <1>0, <2>1 DEF TypeOK
    <3>2. \A c \in Cases : c # kase[p] => hold_events'[c] = hold_events[c] /\ hold'[c] = hold[c]
      BY <1>0, <2>3 DEF TypeOK
    <3>3. /\ hold_events'[kase[p]] = Append(hold_events[kase[p]], "released")
          /\ hold'[kase[p]] = FALSE
      BY <1>0, <2>1, <2>3 DEF TypeOK
    <3>4. /\ Len(hold_events[kase[p]]) > 0
          /\ hold_events[kase[p]][Len(hold_events[kase[p]])] = "placed"
      BY <1>0, <2>1, <2>3 DEF HoldHistory, MayRelease
    <3>5. \A i \in DOMAIN hold_events'[kase[p]] :
            hold_events'[kase[p]][i] = "placed" <=>
              i = 1 \/ hold_events'[kase[p]][i - 1] = "released"
      BY <1>0, <2>1, <3>1, <3>3, <3>4 DEF HoldHistory
    <3>6. /\ Len(hold_events'[kase[p]]) = Len(hold_events[kase[p]]) + 1
          /\ hold_events'[kase[p]][Len(hold_events[kase[p]]) + 1] = "released"
      BY <3>1, <3>3
    <3>7. ~(/\ Len(hold_events'[kase[p]]) > 0
            /\ hold_events'[kase[p]][Len(hold_events'[kase[p]])] = "placed")
      BY <3>1, <3>6
    <3> SUFFICES ASSUME NEW c \in Cases
                 PROVE  /\ \A i \in DOMAIN hold_events'[c] :
                             hold_events'[c][i] = "placed" <=>
                               i = 1 \/ hold_events'[c][i - 1] = "released"
                        /\ hold'[c] <=> /\ Len(hold_events'[c]) > 0
                                        /\ hold_events'[c][Len(hold_events'[c])] = "placed"
                        /\ hold'[c] => exists'[c]
      BY DEF HoldHistory
    <3>8. CASE c = kase[p]
      BY <3>3, <3>5, <3>7, <3>8, Zenon
    <3>9. CASE c # kase[p]
      BY <1>0, <2>1, <3>2, <3>9 DEF HoldHistory
    <3> QED
      BY <3>8, <3>9
  <2> QED
    BY <1>2, <2>2, <2>3 DEF UnsetHold
<1>3. ASSUME NEW p \in Calls, Erase(p) PROVE HoldHistory'
  <2>1. request[p] \in Requests
    BY <1>0, <1>3 DEF CallInv, RequestSteps, Erase
  <2>2. CaseOf[request[p]] \in Cases /\ ~hold[CaseOf[request[p]]] /\ UNCHANGED hold_events
    BY <1>3, <2>1, CaseAssumption DEF Erase, HoldInTheWay
  <2>3. UNCHANGED hold
    BY <1>0, <1>3, <2>2 DEF TypeOK, Erase
  <2>4. \A c \in Cases : hold[c] => exists'[c]
    BY <1>0, <1>3, <2>2 DEF TypeOK, HoldHistory, Erase
  <2> QED
    BY <1>0, <2>2, <2>3, <2>4 DEF HoldHistory
<1>4. CASE Next /\ \A p \in Calls : ~(SetHold(p) \/ UnsetHold(p) \/ Erase(p))
  <2>1. \A c \in Cases : exists[c] => exists'[c]
    BY <1>0, <1>4, HoldSteady DEF TypeOK
  <2> QED
    BY <1>0, <1>4, <2>1, HoldSteady DEF HoldHistory
<1>5. CASE UNCHANGED vars
  BY <1>0, <1>5 DEF HoldHistory, vars, dbVars
<1> QED
  BY <1>1, <1>2, <1>3, <1>4, <1>5
(***************************************************************************)
(* The theorems.                                                           *)
(***************************************************************************)

\* The invariant holds initially and every transaction, call and crash
\* preserves it.
THEOREM Invariance == Spec => []IInv
<1>1. Init => IInv
  BY InitInv
<1>2. IInv /\ [Next]_vars => IInv'
  BY StepTyped, StepCallInv, StepRequests, StepHoldHistory DEF IInv
<1> QED
  BY <1>1, <1>2, PTL DEF Spec

\* The tables of lifecycle/postgresql.py and the calls in progress keep their
\* types.
THEOREM TypeCorrect == Spec => []TypeOK
<1>1. IInv => TypeOK
  BY DEF IInv
<1> QED
  BY <1>1, Invariance, PTL

\* Executions, blocks and retries of any number of callers leave one linear
\* event chain per deletion request, in step with its status.
THEOREM LifecycleChains == Spec => []LifecycleHistory
<1>1. IInv => LifecycleHistory
  BY DEF IInv
<1> QED
  BY <1>1, Invariance, PTL

\* The hold history of a case alternates and ends with the active hold.
THEOREM HoldChains == Spec => []HoldHistory
<1>1. IInv => HoldHistory
  BY DEF IInv
<1> QED
  BY <1>1, Invariance, PTL

\* No row of a case is erased while a legal hold on it is active, however old
\* the hold check of the executing call is.
THEOREM ActiveHoldNeverDeletes == Spec => HoldWins
<1> DEFINE Kept == \A c \in Cases : hold[c] => (exists[c] => exists'[c])
                                             /\ (research[c] => research'[c])
<1>1. IInv /\ [Next]_vars => [Kept]_vars
  <2> SUFFICES ASSUME IInv, Next PROVE Kept
    OBVIOUS
  <2>0. TypeOK /\ CallInv
    BY DEF IInv
  <2>1. ASSUME NEW p \in Calls, SetHold(p) \/ UnsetHold(p) PROVE Kept
    BY <2>1 DEF SetHold, UnsetHold
  <2>2. ASSUME NEW p \in Calls, Erase(p) PROVE Kept
    <3>1. request[p] \in Requests
      BY <2>0, <2>2 DEF CallInv, RequestSteps, Erase
    <3>2. CaseOf[request[p]] \in Cases /\ ~hold[CaseOf[request[p]]]
      BY <2>2, <3>1, CaseAssumption DEF Erase, HoldInTheWay
    <3> QED
      BY <2>0, <2>2, <3>2 DEF TypeOK, Erase
  <2>3. CASE \A p \in Calls : ~(SetHold(p) \/ UnsetHold(p) \/ Erase(p))
    <3>1. \A c \in Cases : exists[c] => exists'[c]
      BY <2>0, <2>3, HoldSteady DEF TypeOK
    <3>2. \A c \in Cases : research[c] => research'[c]
      BY <2>0, <2>3, HoldSteady DEF TypeOK
    <3> QED
      BY <3>1, <3>2
  <2> QED
    BY <2>1, <2>2, <2>3
<1> QED
  BY <1>1, Invariance, PTL DEF Spec, HoldWins

\* A request becomes COMPLETED exactly in the transaction that erases its case,
\* and its tombstone never changes again.
THEOREM CompletionErases == Spec => CompletionIsErasure
<1> DEFINE Erased(r) ==
      /\ status[r] # "COMPLETED" /\ status'[r] = "COMPLETED" =>
           /\ exists[CaseOf[r]] /\ ~exists'[CaseOf[r]] /\ ~research'[CaseOf[r]]
           /\ ~hold'[CaseOf[r]] /\ ~names_case'[r]
      /\ status[r] = "COMPLETED" => status'[r] = "COMPLETED" /\ ~names_case'[r]
<1>1. IInv /\ [Next]_vars => [\A r \in Requests : Erased(r)]_vars
  <2> SUFFICES ASSUME IInv, Next, NEW r \in Requests PROVE Erased(r)
    OBVIOUS
  <2>0. TypeOK /\ TombstoneInv
    BY DEF IInv
  <2>1. CASE UNCHANGED <<status, names_case, last_event, linked>>
    BY <2>0, <2>1 DEF TombstoneInv
  <2>2. CASE ~UNCHANGED <<status, names_case, last_event, linked>>
    <3>1. PICK p \in Calls : InsertRequest(p) \/ RecordBlocked(p) \/ RecordExecuting(p) \/ Erase(p)
      BY <2>2, RequestSteady
    <3>2. request[p] \in Requests
      BY <2>2, <3>1, RequestChange
    <3>3. PICK s \in DeletionStatus, n \in BOOLEAN :
            /\ status' = [status EXCEPT ![request[p]] = s]
            /\ names_case' = [names_case EXCEPT ![request[p]] = n]
            /\ status[request[p]] # "COMPLETED"
            /\ s = "COMPLETED" => ~n /\ Erase(p)
      BY <2>2, <3>1, RequestChange
    <3>4. CASE r # request[p]
      BY <2>0, <3>2, <3>3, <3>4 DEF TypeOK, TombstoneInv
    <3>5. CASE r = request[p] /\ s = "COMPLETED"
      <4>1. CaseOf[r] \in Cases
        BY CaseAssumption
      <4>2. exists[CaseOf[r]] /\ ~exists'[CaseOf[r]] /\ ~research'[CaseOf[r]] /\ ~hold'[CaseOf[r]]
        BY <2>0, <3>3, <3>5, <4>1 DEF TypeOK, Erase
      <4> QED
        BY <2>0, <3>2, <3>3, <3>5, <4>2 DEF TypeOK
    <3>6. CASE r = request[p] /\ s # "COMPLETED"
      BY <2>0, <3>2, <3>3, <3>6 DEF TypeOK
    <3> QED
      BY <3>4, <3>5, <3>6
  <2> QED
    BY <2>1, <2>2
<1> QED
  BY <1>1, Invariance, PTL DEF Spec, CompletionIsErasure
=============================================================================
