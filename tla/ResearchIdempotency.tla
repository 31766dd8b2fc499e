------------------------ MODULE ResearchIdempotency ------------------------
(***************************************************************************)
(* The idempotency keys of the Research entry points: the table            *)
(* research_idempotency, the MCP tools that reserve a key before they act  *)
(* and complete or release it afterwards, and the REST routes that look a  *)
(* key up, act, and store the answer at the end.  Calls run concurrently   *)
(* in several API processes, every transaction is one step, a call may die *)
(* between two of them, and the case may leave DRAFT or be erased meanwhile.*)
(*                                                                         *)
(* A key of the model is one (tenant, actor, operation, idempotency key)   *)
(* row identity.  What an operation does to the run is ResearchRun and     *)
(* ResearchPipeline; here it is one numbered effect, and the answer a      *)
(* client receives is the number of the effect it reports.                 *)
(***************************************************************************)
EXTENDS Integers, FiniteSets

CONSTANTS
    Calls,        \* the requests that arrive
    StartKeys,    \* keys of the tool research_start
    MutationKeys, \* keys of the tools research_retry, _cancel and _handoff
    CreateKeys,   \* keys of POST /research-runs
    ActionKeys,   \* keys of POST /research-runs/{id}/retry and /cancel
    Hashes,       \* request digests
    MaxEffects,   \* bound: effects performed under one key
    MaxFaults     \* bound: calls that die

ASSUME KeysAssumption ==
    /\ MutationKeys \cap StartKeys = {}
    /\ (StartKeys \cup MutationKeys) \cap (CreateKeys \cup ActionKeys) = {}
    /\ CreateKeys \cap ActionKeys = {}

ASSUME BoundsAssumption == MaxEffects \in Nat /\ MaxFaults \in Nat

McpKeys == StartKeys \cup MutationKeys
RestKeys == CreateKeys \cup ActionKeys
Keys == McpKeys \cup RestKeys

VARIABLES
    idempotency,  \* key -> its row, or NoRow
    call,         \* call -> where it is, and what it was asked
    effects,      \* key -> how often the operation took effect under it
    answers,      \* history: key -> the answers given to clients
    interrupted,  \* history: keys under which a call died
    case,         \* the decision file all the keys are about
    faults        \* history: calls that died

vars == <<idempotency, call, effects, answers, interrupted, case, faults>>

\* The placeholder status of a reserved key; an answered row holds the
\* number of the effect it reports instead.
IDEMPOTENCY_IN_PROGRESS == 0

None == "none"
NoRow == [request_hash |-> None, response |-> -1]
Reserved(h) == [request_hash |-> h, response |-> IDEMPOTENCY_IN_PROGRESS]

Row == [request_hash: Hashes, response: 0..MaxEffects]

Stages == {"new", "check", "begin", "perform", "finish", "release", "done"}

Call == [at: Stages, key: Keys \cup {None}, hash: Hashes \cup {None},
         effect: 0..MaxEffects]
Idle(stage) == [at |-> stage, key |-> None, hash |-> None, effect |-> 0]

----------------------------------------------------------------------------
(* The order in which an entry point does its checks and its lookup.       *)

\* The tools check the target first; so do retry and cancel of the API.
\* POST /research-runs answers a replay before it looks at the decision.
First(k) == IF k \in CreateKeys THEN "begin" ELSE "check"
AfterCheck(k) == IF k \in CreateKeys THEN "perform" ELSE "begin"
AfterBegin(k) == IF k \in CreateKeys THEN "check" ELSE "perform"

\* A run is created only for a DRAFT; a run is acted on while it exists.
Admissible(k) ==
    IF k \in StartKeys \cup CreateKeys THEN case = "DRAFT" ELSE case # "ERASED"

At(c, stage) == call[c].at = stage

Go(c, stage) ==
    call' = [call EXCEPT ![c] = IF stage = "done" THEN Idle("done")
                                ELSE [@ EXCEPT !.at = stage]]

KeyOf(c) == call[c].key
RowOf(c) == idempotency[KeyOf(c)]

\* The client of the call is told of an effect; with the request it sent.
Answer(c, effect) ==
    answers' = [answers EXCEPT ![KeyOf(c)] = @ \cup {<<call[c].hash, effect>>}]

----------------------------------------------------------------------------
(* One call.                                                               *)

Arrive(c, k, h) ==
    /\ At(c, "new")
    /\ call' = [call EXCEPT ![c] = [at |-> First(k), key |-> k, hash |-> h,
                                    effect |-> 0]]
    /\ UNCHANGED <<idempotency, effects, answers, interrupted, case, faults>>

\* The target of the call: NOT_FOUND, DECISION_NOT_DRAFT, or go on.
Check(c) ==
    /\ At(c, "check")
    /\ Go(c, IF Admissible(KeyOf(c)) THEN AfterCheck(KeyOf(c)) ELSE "done")
    /\ UNCHANGED <<idempotency, effects, answers, interrupted, case, faults>>

\* Faulty variant: the in-progress placeholder is replayed like an answer.
replays_placeholder(c) == RowOf(c).request_hash = call[c].hash

\* What an existing row says to a call that finds it: the answer of the
\* first request, or a refusal (another request, or still in progress).
Replays(c) ==
    /\ RowOf(c).request_hash = call[c].hash
    /\ RowOf(c).response # IDEMPOTENCY_IN_PROGRESS

Replay(c) ==
    /\ Go(c, "done")
    /\ IF Replays(c) THEN Answer(c, RowOf(c).response) ELSE UNCHANGED answers

\* Faulty variant: a repeated request takes over a reservation in progress.
reserve_taking_over(c) ==
    /\ At(c, "begin") /\ KeyOf(c) \in McpKeys
    /\ IF RowOf(c) \in {NoRow, Reserved(call[c].hash)}
       THEN /\ idempotency' = [idempotency EXCEPT
                                 ![KeyOf(c)] = Reserved(call[c].hash)]
            /\ Go(c, "perform")
            /\ UNCHANGED answers
       ELSE Replay(c) /\ UNCHANGED idempotency
    /\ UNCHANGED <<effects, interrupted, case, faults>>

\* INSERT ... ON CONFLICT DO NOTHING and the SELECT in one transaction.
reserve_idempotency(c) ==
    /\ At(c, "begin") /\ KeyOf(c) \in McpKeys
    /\ IF RowOf(c) = NoRow
       THEN /\ idempotency' = [idempotency EXCEPT
                                 ![KeyOf(c)] = Reserved(call[c].hash)]
            /\ Go(c, "perform")
            /\ UNCHANGED answers
       ELSE Replay(c) /\ UNCHANGED idempotency
    /\ UNCHANGED <<effects, interrupted, case, faults>>

\* The REST routes only look: nothing marks the key as taken.
get_idempotency(c) ==
    /\ At(c, "begin") /\ KeyOf(c) \in RestKeys
    /\ IF RowOf(c) = NoRow
       THEN Go(c, AfterBegin(KeyOf(c))) /\ UNCHANGED answers
       ELSE Replay(c)
    /\ UNCHANGED <<idempotency, effects, interrupted, case, faults>>

\* The operation is carried out and its result is in hand.  The decision
\* read by Check is not read again; an existing run is, and may be gone.
Perform(c) ==
    /\ At(c, "perform") /\ effects[KeyOf(c)] < MaxEffects
    /\ KeyOf(c) \in MutationKeys \cup ActionKeys => case # "ERASED"
    /\ effects' = [effects EXCEPT ![KeyOf(c)] = @ + 1]
    /\ call' = [call EXCEPT ![c] = [at |-> "finish", key |-> KeyOf(c), hash |-> @.hash,
                                    effect |-> effects[KeyOf(c)] + 1]]
    /\ UNCHANGED <<idempotency, answers, interrupted, case, faults>>

\* Faulty variant: the error path does not give the key back.
reject_keeping_key(c) ==
    /\ At(c, "perform")
    /\ Go(c, "done")
    /\ UNCHANGED <<idempotency, effects, answers, interrupted, case, faults>>

\* The operation raises, before it changed anything or after (submit
\* commits the run and then fails to queue its job).  A tool gives the key
\* back before it answers the error; a route has nothing to give back.
Reject(c) ==
    /\ At(c, "perform")
    /\ \/ UNCHANGED effects
       \/ /\ effects[KeyOf(c)] < MaxEffects
          /\ KeyOf(c) \in MutationKeys \cup ActionKeys => case # "ERASED"
          /\ effects' = [effects EXCEPT ![KeyOf(c)] = @ + 1]
    /\ Go(c, IF KeyOf(c) \in McpKeys THEN "release" ELSE "done")
    /\ UNCHANGED <<idempotency, answers, interrupted, case, faults>>

\* Is the row still this call's reservation?  (The WHERE of both updates.)
Holds(c) == RowOf(c) = Reserved(call[c].hash)

\* UPDATE ... WHERE in progress; no row updated is an error, not an answer.
complete_idempotency(c) ==
    /\ At(c, "finish") /\ KeyOf(c) \in McpKeys
    /\ IF Holds(c)
       THEN /\ idempotency' = [idempotency EXCEPT
                                 ![KeyOf(c)].response = call[c].effect]
            /\ Answer(c, call[c].effect)
       ELSE UNCHANGED <<idempotency, answers>>
    /\ Go(c, "done")
    /\ UNCHANGED <<effects, interrupted, case, faults>>

\* A plain INSERT: of two calls that both acted, the later one fails on the
\* primary key and its client receives an error.
store_idempotency(c) ==
    /\ At(c, "finish") /\ KeyOf(c) \in RestKeys
    /\ IF RowOf(c) = NoRow
       THEN /\ idempotency' = [idempotency EXCEPT
                                 ![KeyOf(c)] = [request_hash |-> call[c].hash,
                                                response |-> call[c].effect]]
            /\ Answer(c, call[c].effect)
       ELSE UNCHANGED <<idempotency, answers>>
    /\ Go(c, "done")
    /\ UNCHANGED <<effects, interrupted, case, faults>>

\* The tool gives the key back: DELETE ... WHERE in progress.
release_idempotency(c) ==
    /\ At(c, "release") /\ KeyOf(c) \in McpKeys
    /\ idempotency' = IF Holds(c) THEN [idempotency EXCEPT ![KeyOf(c)] = NoRow]
                                  ELSE idempotency
    /\ Go(c, "done")
    /\ UNCHANGED <<effects, answers, interrupted, case, faults>>

\* A tool call between its reservation and its completion or release.
Owns(c, k) ==
    KeyOf(c) = k /\ k \in McpKeys /\ call[c].at \in {"perform", "finish", "release"}

\* The process dies, or the database is out of reach, between two steps.
\* No lease and no expiry takes a reservation back.
Die(c) ==
    /\ call[c].at \notin {"new", "done"} /\ faults < MaxFaults
    /\ Go(c, "done")
    /\ interrupted' = interrupted \cup {k \in McpKeys : Owns(c, k)}
    /\ faults' = faults + 1
    /\ UNCHANGED <<idempotency, effects, answers, case>>

----------------------------------------------------------------------------
(* The case.                                                               *)

LeaveDraft ==
    /\ case = "DRAFT" /\ case' = "DECIDED"
    /\ UNCHANGED <<idempotency, call, effects, answers, interrupted, faults>>

\* Faulty variant: an erasure deletes every row.
matches_every_row(k) == k \in Keys

\* The rows an erasure deletes: the ones whose stored answer names the
\* decision file at its top level.  The routes store such an answer; the
\* tools store an envelope that names it one level down, under "result",
\* and the placeholder of a reserved key does not name it at all.
Matched(k) == k \in RestKeys

Erase ==
    /\ case # "ERASED" /\ case' = "ERASED"
    /\ idempotency' = [k \in Keys |-> IF Matched(k) THEN NoRow
                                                    ELSE idempotency[k]]
    /\ UNCHANGED <<call, effects, answers, interrupted, faults>>

----------------------------------------------------------------------------
Init ==
    /\ idempotency = [k \in Keys |-> NoRow]
    /\ call = [c \in Calls |-> Idle("new")]
    /\ effects = [k \in Keys |-> 0]
    /\ answers = [k \in Keys |-> {}]
    /\ interrupted = {}
    /\ case = "DRAFT"
    /\ faults = 0

\* What a call does next, once it has arrived, unless it dies.
Step(c) ==
    \/ Check(c)
    \/ reserve_idempotency(c)
    \/ get_idempotency(c)
    \/ Perform(c)
    \/ Reject(c)
    \/ complete_idempotency(c)
    \/ store_idempotency(c)
    \/ release_idempotency(c)

Next ==
    \/ \E c \in Calls : \/ \E k \in Keys, h \in Hashes : Arrive(c, k, h)
                        \/ Step(c)
                        \/ Die(c)
    \/ LeaveDraft
    \/ Erase

Spec == Init /\ [][Next]_vars

\* A request that a live process is handling goes on: the handlers await
\* nothing but the database and the bounded operation itself.
Fairness == \A c \in Calls : WF_vars(Step(c))

FairSpec == Spec /\ Fairness

----------------------------------------------------------------------------
(* Properties.                                                             *)

\* The type of the state: rows, calls and histories are what the table and
\* the handlers can hold, and a call that has arrived has a key and a digest.
TypeOK ==
    /\ idempotency \in [Keys -> Row \cup {NoRow}]
    /\ call \in [Calls -> Call]
    /\ \A c \in Calls : call[c].at \notin {"new", "done"}
                          => KeyOf(c) \in Keys /\ call[c].hash \in Hashes
    /\ effects \in [Keys -> 0..MaxEffects]
    /\ answers \in [Keys -> SUBSET (Hashes \X (0..MaxEffects))]
    /\ interrupted \in SUBSET McpKeys
    /\ case \in {"DRAFT", "DECIDED", "ERASED"}
    /\ faults \in 0..MaxFaults

InProgress(k) == idempotency[k].response = IDEMPOTENCY_IN_PROGRESS

\* reserve, complete and release of the tools: between its reservation and
\* its completion or release a call is alone under its key and the row is
\* its own (so complete_idempotency never raises
\* IDEMPOTENCY_COMPLETION_FAILED and release never deletes another call's
\* reservation), and a row in progress has such a call, unless that call died.
ReservationIsOwned ==
    \A k \in McpKeys :
        /\ \A c \in Calls : Owns(c, k) => Holds(c)
        /\ \A c, d \in Calls : Owns(c, k) /\ Owns(d, k) => c = d
        /\ InProgress(k) /\ k \notin interrupted => \E c \in Calls : Owns(c, k)

\* Under one key every client that is answered at all receives the same
\* answer and sent the same request: always for the tools, and for the
\* routes, where two calls may both act, until the case is erased.
OneAnswer ==
    \A k \in Keys :
        k \in McpKeys \/ case # "ERASED"
            => \A a, b \in answers[k] : a = b

\* Once a tool has answered under a key, no later call acts under it again,
\* whatever dies and even when the case is erased in between.
AnsweredNeverRepeats ==
    [][\A k \in McpKeys : answers[k] # {} => effects'[k] = effects[k]]_vars

\* A reservation is given back or answered, unless the call that made it
\* died; then the key refuses every replay with
\* IDEMPOTENCY_REQUEST_IN_PROGRESS for good.
ReservationSettles ==
    \A k \in McpKeys : InProgress(k) ~> (~InProgress(k) \/ k \in interrupted)

\* The documented effect of an erasure (idempotency payloads are physically
\* removed with the case): no stored answer about the case is left.
ErasedMeansForgotten ==
    case = "ERASED" => \A k \in Keys : idempotency[k].response <= 0
=============================================================================
