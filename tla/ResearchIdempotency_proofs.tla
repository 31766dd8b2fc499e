--------------------- MODULE ResearchIdempotency_proofs ---------------------
(***************************************************************************)
(* Proofs about the idempotency keys, for any number of calls, keys and    *)
(* request digests, any number of effects and any number of deaths.        *)
(***************************************************************************)
EXTENDS ResearchIdempotency, TLAPS

\* Every answer a client received is the one its row still stores, as long
\* as the row cannot be erased: always for the tools, and for the routes
\* until the case is erased.
AnswersAreStored ==
    \A k \in Keys :
        k \in McpKeys \/ case # "ERASED" =>
            \A a \in answers[k] :
                /\ idempotency[k] = [request_hash |-> a[1], response |-> a[2]]
                /\ a[2] # IDEMPOTENCY_IN_PROGRESS

\* A call that is about to store its answer has an effect to report.
EffectInHand == \A c \in Calls : At(c, "finish") => call[c].effect # 0

IInv == TypeOK /\ ReservationIsOwned /\ AnswersAreStored /\ EffectInHand

\* The keys of the tools and of the routes are different.
LEMMA KeysApart == McpKeys \cap RestKeys = {} /\ McpKeys \subseteq Keys /\ RestKeys \subseteq Keys
BY KeysAssumption DEF McpKeys, RestKeys, Keys

\* A row that exists has a digest and an answer or the placeholder; no row
\* is none of these.
LEMMA RowFacts ==
    /\ NoRow \notin Row
    /\ NoRow.response = -1
    /\ \A h : Reserved(h).response = 0 /\ Reserved(h).request_hash = h /\ Reserved(h) # NoRow
    /\ \A h \in Hashes : Reserved(h) \in Row
BY BoundsAssumption DEF NoRow, Row, Reserved, IDEMPOTENCY_IN_PROGRESS

\* Go moves one call and leaves its key, digest and type.
LEMMA GoMoves ==
    ASSUME TypeOK, NEW c \in Calls, NEW s \in Stages \ {"new"}, Go(c, s),
           ~At(c, "new"), ~At(c, "done")
    PROVE  /\ call' \in [Calls -> Call]
           /\ call'[c].at = s
           /\ s # "done" => call'[c] = [call[c] EXCEPT !.at = s]
           /\ \A d \in Calls \ {c} : call'[d] = call[d]
<1> DEFINE new == IF s = "done" THEN Idle("done") ELSE [call[c] EXCEPT !.at = s]
<1>1. call' = [call EXCEPT ![c] = new]
  BY DEF Go
<1>2. call[c] \in Call
  BY DEF TypeOK
<1>3. Idle("done") \in Call /\ Idle("done").at = "done"
  BY BoundsAssumption DEF Idle, Call, Stages
<1>4. [call[c] EXCEPT !.at = s] \in Call /\ [call[c] EXCEPT !.at = s].at = s
  BY <1>2 DEF Call
<1>5. new \in Call /\ new.at = s
  BY <1>3, <1>4
<1>6. call \in [Calls -> Call]
  BY DEF TypeOK
<1> HIDE DEF new
<1>7. call' \in [Calls -> Call] /\ call'[c] = new /\ \A d \in Calls \ {c} : call'[d] = call[d]
  BY <1>1, <1>5, <1>6
<1> QED
  BY <1>5, <1>7 DEF new

\* The invariant holds initially.
LEMMA InvariantInit == Init => IInv
<1> SUFFICES ASSUME Init PROVE IInv
  OBVIOUS
<1>1. TypeOK
  <2>1. Idle("new") \in Call /\ Idle("new").at = "new"
    BY BoundsAssumption DEF Idle, Call, Stages
  <2>2. call \in [Calls -> Call] /\ \A c \in Calls : call[c].at = "new"
    BY <2>1 DEF Init
  <2> QED
    BY <2>2, BoundsAssumption DEF Init, TypeOK
<1>2. \A c \in Calls : call[c].at = "new"
  BY DEF Init, Idle
<1>3. ReservationIsOwned
  <2>1. \A k \in McpKeys : ~InProgress(k)
    BY KeysApart, RowFacts DEF Init, InProgress, IDEMPOTENCY_IN_PROGRESS
  <2> QED
    BY <1>2, <2>1 DEF ReservationIsOwned, Owns
<1>4. AnswersAreStored
  BY DEF Init, AnswersAreStored
<1>5. EffectInHand
  BY <1>2 DEF EffectInHand, At
<1> QED
  BY <1>1, <1>3, <1>4, <1>5 DEF IInv

----------------------------------------------------------------------------
(* Facts that the cases of the induction step share.                       *)

\* One call moves, and every other call stays where it is.
OnlyMoves(c) == \A d \in Calls \ {c} : call'[d] = call[d]

\* A step that touches no tool's row, ends no ownership but by a death and
\* begins none keeps every reservation owned.
LEMMA OwnershipKept ==
    ASSUME ReservationIsOwned,
           \A k \in McpKeys : idempotency'[k] = idempotency[k],
           interrupted \subseteq interrupted',
           NEW c \in Calls, OnlyMoves(c),
           \A k \in McpKeys : Owns(c, k)' => Owns(c, k) /\ call'[c].hash = call[c].hash,
           \A k \in McpKeys : Owns(c, k) => Owns(c, k)' \/ k \in interrupted'
    PROVE  ReservationIsOwned'
<1> SUFFICES ASSUME NEW k \in McpKeys
             PROVE  /\ \A d \in Calls : Owns(d, k)' => Holds(d)'
                    /\ \A d, e \in Calls : Owns(d, k)' /\ Owns(e, k)' => d = e
                    /\ InProgress(k)' /\ k \notin interrupted' => \E d \in Calls : Owns(d, k)'
  BY DEF ReservationIsOwned
<1>1. \A d \in Calls \ {c} : Owns(d, k)' <=> Owns(d, k)
  BY DEF OnlyMoves, Owns, KeyOf
<1>2. \A d \in Calls : Owns(d, k)' => Owns(d, k) /\ call'[d].hash = call[d].hash
  BY <1>1 DEF OnlyMoves
<1>3. ASSUME NEW d \in Calls, Owns(d, k)' PROVE Holds(d)'
  <2>1. Owns(d, k) /\ Holds(d) /\ call'[d].hash = call[d].hash
    BY <1>2, <1>3 DEF ReservationIsOwned
  <2>2. KeyOf(d) = k /\ KeyOf(d)' = k
    BY <1>3, <2>1 DEF Owns
  <2> QED
    BY <2>1, <2>2 DEF Holds, RowOf, KeyOf, Reserved
<1>4. ASSUME NEW d \in Calls, NEW e \in Calls, Owns(d, k)', Owns(e, k)' PROVE d = e
  BY <1>2, <1>4 DEF ReservationIsOwned
<1>5. ASSUME InProgress(k)', k \notin interrupted' PROVE \E d \in Calls : Owns(d, k)'
  <2>1. InProgress(k) /\ k \notin interrupted
    BY <1>5 DEF InProgress
  <2>2. PICK d \in Calls : Owns(d, k)
    BY <2>1 DEF ReservationIsOwned
  <2> QED
    BY <1>1, <1>5, <2>2
<1> QED
  BY <1>3, <1>4, <1>5

\* The answers stay stored when no answer is given, no row that holds one
\* changes and no erased case comes back.
LEMMA AnswersKept ==
    ASSUME AnswersAreStored, answers' = answers,
           case' # "ERASED" => case # "ERASED",
           \A k \in Keys : (k \in McpKeys \/ case' # "ERASED") /\ answers[k] # {}
                             => idempotency'[k] = idempotency[k]
    PROVE  AnswersAreStored'
BY DEF AnswersAreStored, IDEMPOTENCY_IN_PROGRESS

\* A row that is absent or in progress has no answer yet.
LEMMA Unanswered ==
    ASSUME TypeOK, AnswersAreStored, NEW k \in Keys, k \in McpKeys \/ case # "ERASED",
           idempotency[k] = NoRow \/ \E h : idempotency[k] = Reserved(h)
    PROVE  answers[k] = {}
<1> SUFFICES ASSUME NEW a \in answers[k] PROVE FALSE
  OBVIOUS
<1>0. /\ idempotency[k] = [request_hash |-> a[1], response |-> a[2]]
      /\ a[2] # 0
  BY Zenon DEF AnswersAreStored, IDEMPOTENCY_IN_PROGRESS
<1>1. idempotency[k].response = a[2] /\ a[2] # 0
  BY <1>0
<1>2. a[2] \in 0..MaxEffects
  BY DEF TypeOK
<1> QED
  BY <1>1, <1>2, RowFacts, BoundsAssumption

\* An answer that its row stores, given under a key whose other answers the
\* row stores as well, is one more stored answer.
LEMMA AnswerStored ==
    ASSUME TypeOK, AnswersAreStored, NEW c \in Calls, KeyOf(c) \in Keys, NEW e,
           Answer(c, e), case' = case,
           e # IDEMPOTENCY_IN_PROGRESS,
           idempotency'[KeyOf(c)] = [request_hash |-> call[c].hash, response |-> e],
           \A k \in Keys \ {KeyOf(c)} : idempotency'[k] = idempotency[k],
           \/ idempotency'[KeyOf(c)] = idempotency[KeyOf(c)]
           \/ (KeyOf(c) \in McpKeys \/ case # "ERASED") => answers[KeyOf(c)] = {}
    PROVE  AnswersAreStored'
<1> DEFINE n == KeyOf(c)
           new == <<call[c].hash, e>>
<1> SUFFICES ASSUME NEW k \in Keys, k \in McpKeys \/ case # "ERASED", NEW a \in answers'[k]
             PROVE  /\ idempotency'[k] = [request_hash |-> a[1], response |-> a[2]]
                    /\ a[2] # IDEMPOTENCY_IN_PROGRESS
  BY DEF AnswersAreStored, IDEMPOTENCY_IN_PROGRESS
<1>1. answers' = [answers EXCEPT ![n] = @ \cup {new}]
  BY DEF Answer
<1>2. answers \in [Keys -> SUBSET (Hashes \X (0..MaxEffects))]
  BY DEF TypeOK
<1>3. CASE k # n
  <2>1. a \in answers[k]
    BY <1>1, <1>2, <1>3
  <2> QED
    BY <1>3, <2>1 DEF AnswersAreStored
<1>4. CASE k = n /\ a = new
  BY <1>4
<1>5. CASE k = n /\ a # new
  <2>1. a \in answers[n]
    BY <1>1, <1>2, <1>5
  <2> QED
    BY <1>5, <2>1 DEF AnswersAreStored
<1> QED
  BY <1>3, <1>4, <1>5

\* Every call under way has a key and a digest.
Addressed == \A c \in Calls : call[c].at \notin {"new", "done"}
                                 => KeyOf(c) \in Keys /\ call[c].hash \in Hashes

\* What a move by Go means for the facts above.
LEMMA Move ==
    ASSUME TypeOK, NEW c \in Calls, NEW s \in Stages \ {"new"}, Go(c, s),
           ~At(c, "new"), ~At(c, "done")
    PROVE  /\ call' \in [Calls -> Call] /\ Addressed' /\ OnlyMoves(c)
           /\ call'[c].at = s
           /\ s # "done" => /\ KeyOf(c)' = KeyOf(c)
                            /\ call'[c].hash = call[c].hash
                            /\ call'[c].effect = call[c].effect
           /\ KeyOf(c) \in Keys /\ call[c].hash \in Hashes
<1>1. /\ call' \in [Calls -> Call]
      /\ call'[c].at = s
      /\ s # "done" => call'[c] = [call[c] EXCEPT !.at = s]
      /\ \A d \in Calls \ {c} : call'[d] = call[d]
  BY GoMoves
<1>2. call[c] \in Call /\ KeyOf(c) \in Keys /\ call[c].hash \in Hashes
  BY DEF TypeOK, At
<1>3. s # "done" => /\ call'[c].key = call[c].key
                    /\ call'[c].hash = call[c].hash
                    /\ call'[c].effect = call[c].effect
  BY <1>1, <1>2 DEF Call
<1>4. Addressed'
  <2> SUFFICES ASSUME NEW d \in Calls, call'[d].at \notin {"new", "done"}
               PROVE  call'[d].key \in Keys /\ call'[d].hash \in Hashes
    BY DEF Addressed, KeyOf
  <2>1. CASE d = c
    BY <1>1, <1>2, <1>3, <2>1 DEF KeyOf
  <2>2. CASE d # c
    BY <1>1, <2>2 DEF TypeOK, KeyOf
  <2> QED
    BY <2>1, <2>2
<1> QED
  BY <1>1, <1>2, <1>3, <1>4 DEF OnlyMoves, KeyOf

\* A call that does not come to the end of its work disturbs no effect in hand.
LEMMA HandKept ==
    ASSUME EffectInHand, NEW c \in Calls, OnlyMoves(c), call'[c].at # "finish"
    PROVE  EffectInHand'
BY DEF EffectInHand, OnlyMoves, At

----------------------------------------------------------------------------
(* The induction step, action by action.                                   *)

\* A call arrives with its key.
LEMMA ArriveKeeps ==
    ASSUME IInv, NEW c \in Calls, NEW k \in Keys, NEW h \in Hashes, Arrive(c, k, h)
    PROVE  IInv'
<1> DEFINE new == [at |-> First(k), key |-> k, hash |-> h, effect |-> 0]
<1>1. /\ First(k) \in {"begin", "check"}
      /\ new \in Call /\ new.at = First(k) /\ new.key = k /\ new.hash = h
  BY BoundsAssumption DEF First, Call, Stages
<1>2. call[c].at = "new" /\ call' = [call EXCEPT ![c] = new] /\ call \in [Calls -> Call]
  BY DEF Arrive, At, IInv, TypeOK
<1> HIDE DEF new
<1>3. call' \in [Calls -> Call] /\ call'[c] = new /\ OnlyMoves(c)
  BY <1>1, <1>2 DEF OnlyMoves
<1>4. UNCHANGED <<idempotency, effects, answers, interrupted, case, faults>>
  BY DEF Arrive
<1>5. TypeOK'
  <2>1. Addressed'
    <3> SUFFICES ASSUME NEW d \in Calls, call'[d].at \notin {"new", "done"}
                 PROVE  call'[d].key \in Keys /\ call'[d].hash \in Hashes
      BY DEF Addressed, KeyOf
    <3> QED
      BY <1>1, <1>3 DEF OnlyMoves, IInv, TypeOK, KeyOf
  <2> QED
    BY <1>3, <1>4, <2>1 DEF IInv, TypeOK, Addressed
<1>6. ReservationIsOwned'
  <2>1. \A n \in McpKeys : ~Owns(c, n) /\ ~Owns(c, n)'
    BY <1>1, <1>2, <1>3 DEF Owns
  <2> QED
    BY <1>3, <1>4, <2>1, OwnershipKept DEF IInv
<1>7. AnswersAreStored'
  BY <1>4, AnswersKept DEF IInv
<1>8. EffectInHand'
  BY <1>1, <1>3, HandKept DEF IInv
<1> QED
  BY <1>5, <1>6, <1>7, <1>8 DEF IInv

\* A call looks its target up.
LEMMA CheckKeeps ==
    ASSUME IInv, NEW c \in Calls, Check(c)
    PROVE  IInv'
<1> DEFINE s == IF Admissible(KeyOf(c)) THEN AfterCheck(KeyOf(c)) ELSE "done"
<1>1. /\ s \in {"perform", "begin", "done"} /\ s \in Stages \ {"new"}
      /\ s = "perform" => KeyOf(c) \in CreateKeys
  BY DEF AfterCheck, Stages
<1>2. call[c].at = "check" /\ ~At(c, "new") /\ ~At(c, "done") /\ Go(c, s) /\ TypeOK
  BY DEF Check, At, IInv
<1> HIDE DEF s
<1>3. /\ call' \in [Calls -> Call] /\ Addressed' /\ OnlyMoves(c)
      /\ call'[c].at = s
      /\ s # "done" => KeyOf(c)' = KeyOf(c)
  BY <1>1, <1>2, Move
<1>4. UNCHANGED <<idempotency, effects, answers, interrupted, case, faults>>
  BY DEF Check
<1>5. TypeOK'
  BY <1>3, <1>4 DEF IInv, TypeOK, Addressed
<1>6. ReservationIsOwned'
  <2>1. \A n \in McpKeys : ~Owns(c, n) /\ ~Owns(c, n)'
    BY <1>1, <1>2, <1>3, KeysApart DEF Owns, RestKeys
  <2> QED
    BY <1>3, <1>4, <2>1, OwnershipKept DEF IInv
<1>7. AnswersAreStored'
  BY <1>4, AnswersKept DEF IInv
<1>8. EffectInHand'
  BY <1>1, <1>3, HandKept DEF IInv
<1> QED
  BY <1>5, <1>6, <1>7, <1>8 DEF IInv

\* What an answer does to the type of the history.
LEMMA AnswerTyped ==
    ASSUME TypeOK, NEW c \in Calls, KeyOf(c) \in Keys, call[c].hash \in Hashes,
           NEW e \in 0..MaxEffects, Answer(c, e)
    PROVE  answers' \in [Keys -> SUBSET (Hashes \X (0..MaxEffects))]
<1>1. answers \in [Keys -> SUBSET (Hashes \X (0..MaxEffects))]
  BY DEF TypeOK
<1>2. <<call[c].hash, e>> \in Hashes \X (0..MaxEffects)
  OBVIOUS
<1>3. answers' = [answers EXCEPT ![KeyOf(c)] = @ \cup {<<call[c].hash, e>>}]
  BY DEF Answer
<1> QED
  BY <1>1, <1>2, <1>3

\* A call that finds a row is answered from it, or refused.
LEMMA ReplayKeeps ==
    ASSUME IInv, NEW c \in Calls, At(c, "begin"), RowOf(c) # NoRow, Replay(c),
           UNCHANGED <<idempotency, effects, interrupted, case, faults>>
    PROVE  IInv'
<1>1. call[c].at = "begin" /\ ~At(c, "new") /\ ~At(c, "done") /\ Go(c, "done") /\ TypeOK
  BY DEF Replay, At, IInv
<1>2. /\ call' \in [Calls -> Call] /\ Addressed' /\ OnlyMoves(c)
      /\ call'[c].at = "done"
      /\ KeyOf(c) \in Keys /\ call[c].hash \in Hashes
  BY <1>1, Move DEF Stages
<1>3. RowOf(c) \in Row
  BY <1>2 DEF IInv, TypeOK, RowOf
<1>4. ReservationIsOwned'
  <2>1. \A n \in McpKeys : ~Owns(c, n) /\ ~Owns(c, n)'
    BY <1>1, <1>2 DEF Owns
  <2> QED
    BY <1>2, <2>1, OwnershipKept DEF IInv
<1>5. EffectInHand'
  BY <1>2, HandKept DEF IInv
<1>6. answers' \in [Keys -> SUBSET (Hashes \X (0..MaxEffects))] /\ AnswersAreStored'
  <2>1. CASE ~Replays(c)
    <3>1. answers' = answers
      BY <2>1 DEF Replay
    <3> QED
      BY <3>1, AnswersKept DEF IInv, TypeOK
  <2>2. CASE Replays(c)
    <3> DEFINE e == RowOf(c).response
    <3>1. Answer(c, e) /\ e # IDEMPOTENCY_IN_PROGRESS /\ RowOf(c).request_hash = call[c].hash
      BY <2>2 DEF Replay, Replays
    <3>2. e \in 0..MaxEffects /\ RowOf(c) = [request_hash |-> call[c].hash, response |-> e]
      BY <1>3, <3>1 DEF Row
    <3> HIDE DEF e
    <3>3. answers' \in [Keys -> SUBSET (Hashes \X (0..MaxEffects))]
      BY <1>1, <1>2, <3>1, <3>2, AnswerTyped
    <3>4. /\ idempotency'[KeyOf(c)] = [request_hash |-> call[c].hash, response |-> e]
          /\ idempotency'[KeyOf(c)] = idempotency[KeyOf(c)]
      BY <3>2 DEF RowOf
    <3>5. AnswersAreStored'
      BY <1>1, <1>2, <3>1, <3>4, AnswerStored DEF IInv
    <3> QED
      BY <3>3, <3>5
  <2> QED
    BY <2>1, <2>2
<1>7. TypeOK'
  BY <1>2, <1>6 DEF IInv, TypeOK, Addressed
<1> QED
  BY <1>4, <1>5, <1>6, <1>7 DEF IInv

\* The insert of a placeholder: the action that begins ownership.
LEMMA ReserveKeeps ==
    ASSUME IInv, NEW c \in Calls, reserve_idempotency(c)
    PROVE  IInv'
<1>1. CASE RowOf(c) # NoRow
  BY <1>1, ReplayKeeps DEF reserve_idempotency
<1>2. CASE RowOf(c) = NoRow
  <2> DEFINE n == KeyOf(c)
  <2>1. /\ call[c].at = "begin" /\ ~At(c, "new") /\ ~At(c, "done") /\ Go(c, "perform") /\ TypeOK
        /\ n \in McpKeys /\ answers' = answers
        /\ idempotency' = [idempotency EXCEPT ![n] = Reserved(call[c].hash)]
        /\ UNCHANGED <<effects, interrupted, case, faults>>
    BY <1>2 DEF reserve_idempotency, At, IInv
  <2>2. /\ call' \in [Calls -> Call] /\ Addressed' /\ OnlyMoves(c)
        /\ call'[c].at = "perform" /\ KeyOf(c)' = n /\ call'[c].hash = call[c].hash
        /\ n \in Keys /\ call[c].hash \in Hashes
    BY <2>1, Move DEF Stages
  <2> HIDE DEF n
  <2>3. /\ idempotency' \in [Keys -> Row \cup {NoRow}]
        /\ idempotency'[n] = Reserved(call[c].hash)
        /\ \A k \in Keys \ {n} : idempotency'[k] = idempotency[k]
    BY <2>1, <2>2, RowFacts DEF TypeOK
  <2>4. idempotency[n] = NoRow
    BY <1>2 DEF RowOf, n
  <2>5. TypeOK'
    BY <2>1, <2>2, <2>3 DEF TypeOK, Addressed
  <2>6. ReservationIsOwned'
    <3>1. \A d \in Calls : ~Owns(d, n)
      <4> SUFFICES ASSUME NEW d \in Calls, Owns(d, n) PROVE FALSE
        OBVIOUS
      <4>1. Holds(d) /\ KeyOf(d) = n
        BY <2>1 DEF IInv, ReservationIsOwned, Owns
      <4> QED
        BY <2>4, <4>1, RowFacts DEF Holds, RowOf
    <3>2. \A d \in Calls \ {c}, k \in McpKeys : Owns(d, k)' <=> Owns(d, k)
      BY <2>2 DEF OnlyMoves, Owns, KeyOf
    <3>3. \A k \in McpKeys : ~Owns(c, k) /\ (Owns(c, k)' <=> k = n)
      BY <2>1, <2>2 DEF Owns
    <3> SUFFICES ASSUME NEW k \in McpKeys
                 PROVE  /\ \A d \in Calls : Owns(d, k)' => Holds(d)'
                        /\ \A d, e \in Calls : Owns(d, k)' /\ Owns(e, k)' => d = e
                        /\ InProgress(k)' /\ k \notin interrupted' => \E d \in Calls : Owns(d, k)'
      BY DEF ReservationIsOwned
    <3>4. ASSUME NEW d \in Calls, Owns(d, k)' PROVE Holds(d)'
      <4>1. CASE d = c
        BY <2>2, <2>3, <4>1 DEF Holds, RowOf, Reserved
      <4>2. CASE d # c
        <5>1. Owns(d, k) /\ Holds(d) /\ KeyOf(d) = k /\ k # n /\ call'[d] = call[d] /\ k \in Keys
          BY <2>2, <3>1, <3>2, <3>4, <4>2, KeysApart DEF IInv, ReservationIsOwned, Owns, OnlyMoves
        <5> QED
          BY <2>3, <5>1 DEF Holds, RowOf, KeyOf, Reserved
      <4> QED
        BY <4>1, <4>2
    <3>5. ASSUME NEW d \in Calls, NEW e \in Calls, Owns(d, k)', Owns(e, k)' PROVE d = e
      BY <3>1, <3>2, <3>3, <3>5 DEF IInv, ReservationIsOwned
    <3>6. ASSUME InProgress(k)', k \notin interrupted' PROVE \E d \in Calls : Owns(d, k)'
      <4>1. CASE k = n
        BY <3>3, <4>1
      <4>2. CASE k # n
        <5>1. InProgress(k) /\ k \notin interrupted
          BY <2>1, <2>3, <3>6, <4>2, KeysApart DEF InProgress
        <5>2. PICK d \in Calls : Owns(d, k)
          BY <5>1 DEF IInv, ReservationIsOwned
        <5> QED
          BY <3>2, <3>3, <5>2
      <4> QED
        BY <4>1, <4>2
    <3> QED
      BY <3>4, <3>5, <3>6
  <2>7. AnswersAreStored'
    <3>1. answers[n] = {}
      BY <2>1, <2>2, <2>4, Unanswered DEF IInv
    <3> QED
      BY <2>1, <2>3, <3>1, AnswersKept DEF IInv
  <2>8. EffectInHand'
    BY <2>2, HandKept DEF IInv
  <2> QED
    BY <2>5, <2>6, <2>7, <2>8 DEF IInv
<1> QED
  BY <1>1, <1>2

\* A route looks its key up.
LEMMA GetKeeps ==
    ASSUME IInv, NEW c \in Calls, get_idempotency(c)
    PROVE  IInv'
<1>1. CASE RowOf(c) # NoRow
  BY <1>1, ReplayKeeps DEF get_idempotency
<1>2. CASE RowOf(c) = NoRow
  <2> DEFINE s == AfterBegin(KeyOf(c))
  <2>1. s \in {"perform", "check"} /\ s \in Stages \ {"new"}
    BY DEF AfterBegin, Stages
  <2>2. /\ call[c].at = "begin" /\ ~At(c, "new") /\ ~At(c, "done") /\ Go(c, s) /\ TypeOK
        /\ KeyOf(c) \in RestKeys
        /\ UNCHANGED <<idempotency, effects, answers, interrupted, case, faults>>
    BY <1>2 DEF get_idempotency, At, IInv
  <2> HIDE DEF s
  <2>3. /\ call' \in [Calls -> Call] /\ Addressed' /\ OnlyMoves(c)
        /\ call'[c].at = s /\ KeyOf(c)' = KeyOf(c)
    BY <2>1, <2>2, Move
  <2>4. TypeOK'
    BY <2>2, <2>3 DEF TypeOK, Addressed
  <2>5. ReservationIsOwned'
    <3>1. \A n \in McpKeys : ~Owns(c, n) /\ ~Owns(c, n)'
      BY <2>2, <2>3, KeysApart DEF Owns
    <3> QED
      BY <2>2, <2>3, <3>1, OwnershipKept DEF IInv
  <2>6. AnswersAreStored'
    BY <2>2, AnswersKept DEF IInv
  <2>7. EffectInHand'
    BY <2>1, <2>3, HandKept DEF IInv
  <2> QED
    BY <2>4, <2>5, <2>6, <2>7 DEF IInv
<1> QED
  BY <1>1, <1>2

\* The owner of a key acts.
LEMMA PerformKeeps ==
    ASSUME IInv, NEW c \in Calls, Perform(c)
    PROVE  IInv'
<1> DEFINE n == KeyOf(c)
           new == [at |-> "finish", key |-> n, hash |-> call[c].hash,
                   effect |-> effects[n] + 1]
<1>1. /\ call[c].at = "perform" /\ effects[n] < MaxEffects
      /\ call[c] \in Call /\ call \in [Calls -> Call]
      /\ n \in Keys /\ call[c].hash \in Hashes /\ effects \in [Keys -> 0..MaxEffects]
  BY DEF Perform, At, IInv, TypeOK
<1>2. /\ effects' = [effects EXCEPT ![n] = @ + 1]
      /\ call' = [call EXCEPT ![c] = new]
      /\ UNCHANGED <<idempotency, answers, interrupted, case, faults>>
  BY <1>1 DEF Perform
<1>3. effects[n] + 1 \in 0..MaxEffects /\ effects[n] + 1 # 0
  BY <1>1, BoundsAssumption
<1>4. /\ new \in Call /\ new.at = "finish" /\ new.key = n /\ new.hash = call[c].hash
      /\ new.effect # 0
  BY <1>1, <1>3 DEF Call, Stages
<1> HIDE DEF new, n
<1>5. call' \in [Calls -> Call] /\ call'[c] = new /\ OnlyMoves(c)
  BY <1>1, <1>2, <1>4 DEF OnlyMoves
<1>6. effects' \in [Keys -> 0..MaxEffects]
  BY <1>1, <1>2, <1>3, BoundsAssumption
<1>7. TypeOK'
  <2>1. Addressed'
    <3> SUFFICES ASSUME NEW d \in Calls, call'[d].at \notin {"new", "done"}
                 PROVE  call'[d].key \in Keys /\ call'[d].hash \in Hashes
      BY DEF Addressed, KeyOf
    <3> QED
      BY <1>1, <1>4, <1>5 DEF OnlyMoves, IInv, TypeOK, KeyOf
  <2> QED
    BY <1>2, <1>5, <1>6, <2>1 DEF IInv, TypeOK, Addressed
<1>8. ReservationIsOwned'
  <2>1. \A k \in McpKeys : /\ Owns(c, k)' <=> Owns(c, k)
                           /\ call'[c].hash = call[c].hash
    BY <1>1, <1>4, <1>5 DEF Owns, KeyOf, n
  <2> QED
    BY <1>2, <1>5, <2>1, OwnershipKept DEF IInv
<1>9. AnswersAreStored'
  BY <1>2, AnswersKept DEF IInv
<1>10. EffectInHand'
  BY <1>4, <1>5 DEF IInv, EffectInHand, OnlyMoves, At
<1> QED
  BY <1>7, <1>8, <1>9, <1>10 DEF IInv

\* The operation of a call raises, before or after it has changed something.
LEMMA RejectKeeps ==
    ASSUME IInv, NEW c \in Calls, Reject(c)
    PROVE  IInv'
<1> DEFINE n == KeyOf(c)
           s == IF n \in McpKeys THEN "release" ELSE "done"
<1>1. /\ s \in {"release", "done"} /\ s \in Stages \ {"new"}
      /\ n \in McpKeys <=> s # "done"
  BY DEF Stages
<1>2. /\ call[c].at = "perform" /\ ~At(c, "new") /\ ~At(c, "done") /\ Go(c, s) /\ TypeOK
      /\ UNCHANGED <<idempotency, answers, interrupted, case, faults>>
  BY DEF Reject, At, IInv
<1> HIDE DEF s
<1>3. /\ call' \in [Calls -> Call] /\ Addressed' /\ OnlyMoves(c)
      /\ call'[c].at = s
      /\ s # "done" => KeyOf(c)' = n /\ call'[c].hash = call[c].hash
      /\ n \in Keys
  BY <1>1, <1>2, Move
<1> HIDE DEF n
<1>4. effects' \in [Keys -> 0..MaxEffects]
  <2>1. effects \in [Keys -> 0..MaxEffects]
    BY <1>2 DEF TypeOK
  <2>2. CASE effects' = effects
    BY <2>1, <2>2
  <2>3. CASE effects[n] < MaxEffects /\ effects' = [effects EXCEPT ![n] = @ + 1]
    BY <1>3, <2>1, <2>3, BoundsAssumption
  <2> QED
    BY <2>2, <2>3 DEF Reject, n
<1>5. TypeOK'
  BY <1>2, <1>3, <1>4 DEF TypeOK, Addressed
<1>6. ReservationIsOwned'
  <2>1. \A k \in McpKeys : /\ Owns(c, k)' <=> Owns(c, k)
                           /\ Owns(c, k)' => call'[c].hash = call[c].hash
    BY <1>1, <1>2, <1>3 DEF Owns, n
  <2> QED
    BY <1>2, <1>3, <2>1, OwnershipKept DEF IInv
<1>7. AnswersAreStored'
  BY <1>2, AnswersKept DEF IInv
<1>8. EffectInHand'
  BY <1>1, <1>3, HandKept DEF IInv
<1> QED
  BY <1>5, <1>6, <1>7, <1>8 DEF IInv

\* The owner of a reservation ends it: its row is no longer in progress, no
\* other row of a tool changes, and nobody else becomes an owner.
LEMMA OwnershipEnds ==
    ASSUME ReservationIsOwned, NEW c \in Calls, NEW n \in McpKeys, Owns(c, n),
           OnlyMoves(c), call'[c].at = "done",
           idempotency'[n].response # IDEMPOTENCY_IN_PROGRESS,
           \A k \in McpKeys \ {n} : idempotency'[k] = idempotency[k],
           interrupted' = interrupted
    PROVE  ReservationIsOwned'
<1> SUFFICES ASSUME NEW k \in McpKeys
             PROVE  /\ \A d \in Calls : Owns(d, k)' => Holds(d)'
                    /\ \A d, e \in Calls : Owns(d, k)' /\ Owns(e, k)' => d = e
                    /\ InProgress(k)' /\ k \notin interrupted' => \E d \in Calls : Owns(d, k)'
  BY DEF ReservationIsOwned
<1>1. ~Owns(c, k)' /\ (k # n => ~Owns(c, k))
  BY DEF Owns
<1>2. \A d \in Calls \ {c} : (Owns(d, k)' <=> Owns(d, k)) /\ (Owns(d, k) => k # n)
  BY DEF OnlyMoves, Owns, KeyOf, ReservationIsOwned
<1>3. ASSUME NEW d \in Calls, Owns(d, k)' PROVE Holds(d)'
  <2>1. Owns(d, k) /\ Holds(d) /\ KeyOf(d) = k /\ k # n /\ call'[d] = call[d]
    BY <1>1, <1>2, <1>3 DEF ReservationIsOwned, Owns, OnlyMoves
  <2> QED
    BY <2>1 DEF Holds, RowOf, KeyOf, Reserved
<1>4. ASSUME NEW d \in Calls, NEW e \in Calls, Owns(d, k)', Owns(e, k)' PROVE d = e
  BY <1>1, <1>2, <1>4 DEF ReservationIsOwned
<1>5. ASSUME InProgress(k)', k \notin interrupted' PROVE \E d \in Calls : Owns(d, k)'
  <2>1. k # n /\ InProgress(k) /\ k \notin interrupted
    BY <1>5 DEF InProgress, IDEMPOTENCY_IN_PROGRESS
  <2>2. PICK d \in Calls : Owns(d, k)
    BY <2>1 DEF ReservationIsOwned
  <2> QED
    BY <1>1, <1>2, <2>1, <2>2
<1> QED
  BY <1>3, <1>4, <1>5

\* The owner of a key stores its answer.
LEMMA CompleteKeeps ==
    ASSUME IInv, NEW c \in Calls, complete_idempotency(c)
    PROVE  IInv'
<1> DEFINE n == KeyOf(c)
           e == call[c].effect
<1>1. /\ call[c].at = "finish" /\ ~At(c, "new") /\ ~At(c, "done") /\ Go(c, "done") /\ TypeOK
      /\ n \in McpKeys
      /\ UNCHANGED <<effects, interrupted, case, faults>>
  BY DEF complete_idempotency, At, IInv
<1>2. /\ call' \in [Calls -> Call] /\ Addressed' /\ OnlyMoves(c)
      /\ call'[c].at = "done"
      /\ n \in Keys /\ call[c].hash \in Hashes
  BY <1>1, Move DEF Stages
<1>3. e \in 0..MaxEffects /\ e # 0
  BY <1>1 DEF TypeOK, Call, IInv, EffectInHand, At
<1>4. Owns(c, n) /\ Holds(c)
  BY <1>1 DEF Owns, IInv, ReservationIsOwned
<1>5. idempotency' = [idempotency EXCEPT ![n].response = e] /\ Answer(c, e)
  BY <1>4 DEF complete_idempotency
<1>6. idempotency[n] = Reserved(call[c].hash)
  BY <1>4 DEF Holds, RowOf
<1> HIDE DEF e
<1>7. /\ idempotency' \in [Keys -> Row \cup {NoRow}]
      /\ idempotency'[n] = [request_hash |-> call[c].hash, response |-> e]
      /\ \A k \in Keys \ {n} : idempotency'[k] = idempotency[k]
  <2>1. [idempotency[n] EXCEPT !.response = e] = [request_hash |-> call[c].hash, response |-> e]
    BY <1>6 DEF Reserved
  <2>2. [request_hash |-> call[c].hash, response |-> e] \in Row
    BY <1>2, <1>3 DEF Row
  <2>3. idempotency' = [idempotency EXCEPT ![n] = [request_hash |-> call[c].hash, response |-> e]]
    BY <1>5, <2>1
  <2> QED
    BY <1>1, <1>2, <2>2, <2>3 DEF TypeOK
<1>8. answers' \in [Keys -> SUBSET (Hashes \X (0..MaxEffects))]
  BY <1>1, <1>2, <1>3, <1>5, AnswerTyped
<1>9. TypeOK'
  BY <1>1, <1>2, <1>7, <1>8 DEF TypeOK, Addressed
<1>10. ReservationIsOwned'
  BY <1>1, <1>2, <1>3, <1>4, <1>7, KeysApart, OwnershipEnds DEF IInv, IDEMPOTENCY_IN_PROGRESS
<1>11. AnswersAreStored'
  <2>1. answers[n] = {}
    BY <1>1, <1>2, <1>6, Unanswered DEF IInv
  <2> QED
    BY <1>1, <1>2, <1>3, <1>5, <1>7, <2>1, AnswerStored DEF IInv, IDEMPOTENCY_IN_PROGRESS
<1>12. EffectInHand'
  BY <1>2, HandKept DEF IInv
<1> QED
  BY <1>9, <1>10, <1>11, <1>12 DEF IInv

\* A route stores its answer after it has acted.
LEMMA StoreKeeps ==
    ASSUME IInv, NEW c \in Calls, store_idempotency(c)
    PROVE  IInv'
<1> DEFINE n == KeyOf(c)
           e == call[c].effect
           row == [request_hash |-> call[c].hash, response |-> e]
<1>1. /\ call[c].at = "finish" /\ ~At(c, "new") /\ ~At(c, "done") /\ Go(c, "done") /\ TypeOK
      /\ n \in RestKeys
      /\ UNCHANGED <<effects, interrupted, case, faults>>
  BY DEF store_idempotency, At, IInv
<1>2. /\ call' \in [Calls -> Call] /\ Addressed' /\ OnlyMoves(c)
      /\ call'[c].at = "done"
      /\ n \in Keys /\ call[c].hash \in Hashes
  BY <1>1, Move DEF Stages
<1>3. e \in 0..MaxEffects /\ e # 0
  BY <1>1 DEF TypeOK, Call, IInv, EffectInHand, At
<1>4. row \in Row
  BY <1>2, <1>3 DEF Row
<1> HIDE DEF row, e
<1>7. /\ idempotency' \in [Keys -> Row \cup {NoRow}]
      /\ \A k \in McpKeys : idempotency'[k] = idempotency[k]
      /\ answers' \in [Keys -> SUBSET (Hashes \X (0..MaxEffects))]
      /\ AnswersAreStored'
  <2>1. CASE RowOf(c) = NoRow
    <3>1. idempotency' = [idempotency EXCEPT ![n] = row] /\ Answer(c, e)
      BY <2>1 DEF store_idempotency, row, e
    <3>2. /\ idempotency' \in [Keys -> Row \cup {NoRow}]
          /\ idempotency'[n] = row
          /\ \A k \in Keys \ {n} : idempotency'[k] = idempotency[k]
      BY <1>1, <1>2, <1>4, <3>1 DEF TypeOK
    <3>3. \A k \in McpKeys : idempotency'[k] = idempotency[k]
      BY <1>1, <3>2, KeysApart
    <3>4. answers' \in [Keys -> SUBSET (Hashes \X (0..MaxEffects))]
      BY <1>1, <1>2, <1>3, <3>1, AnswerTyped
    <3>5. case # "ERASED" => answers[n] = {}
      BY <1>1, <1>2, <2>1, Unanswered DEF IInv, RowOf
    <3>6. n \notin McpKeys
      BY <1>1, KeysApart
    <3>7. AnswersAreStored'
      BY <1>1, <1>2, <1>3, <3>1, <3>2, <3>5, <3>6, AnswerStored
         DEF IInv, IDEMPOTENCY_IN_PROGRESS, row
    <3> QED
      BY <3>2, <3>3, <3>4, <3>7
  <2>2. CASE RowOf(c) # NoRow
    <3>1. idempotency' = idempotency /\ answers' = answers
      BY <2>2 DEF store_idempotency
    <3> QED
      BY <1>1, <3>1, AnswersKept DEF IInv, TypeOK
  <2> QED
    BY <2>1, <2>2
<1>8. TypeOK'
  BY <1>1, <1>2, <1>7 DEF TypeOK, Addressed
<1>9. ReservationIsOwned'
  <2>1. \A k \in McpKeys : ~Owns(c, k) /\ ~Owns(c, k)'
    BY <1>1, <1>2, KeysApart DEF Owns
  <2> QED
    BY <1>1, <1>2, <1>7, <2>1, OwnershipKept DEF IInv
<1>10. EffectInHand'
  BY <1>2, HandKept DEF IInv
<1> QED
  BY <1>7, <1>8, <1>9, <1>10 DEF IInv

\* A tool that failed gives its key back.
LEMMA ReleaseKeeps ==
    ASSUME IInv, NEW c \in Calls, release_idempotency(c)
    PROVE  IInv'
<1> DEFINE n == KeyOf(c)
<1>1. /\ call[c].at = "release" /\ ~At(c, "new") /\ ~At(c, "done") /\ Go(c, "done") /\ TypeOK
      /\ n \in McpKeys
      /\ UNCHANGED <<effects, answers, interrupted, case, faults>>
  BY DEF release_idempotency, At, IInv
<1>2. /\ call' \in [Calls -> Call] /\ Addressed' /\ OnlyMoves(c)
      /\ call'[c].at = "done" /\ n \in Keys
  BY <1>1, Move DEF Stages
<1>3. Owns(c, n) /\ Holds(c)
  BY <1>1 DEF Owns, IInv, ReservationIsOwned
<1>4. idempotency' = [idempotency EXCEPT ![n] = NoRow] /\ idempotency[n] = Reserved(call[c].hash)
  BY <1>3 DEF release_idempotency, Holds, RowOf
<1>5. /\ idempotency' \in [Keys -> Row \cup {NoRow}]
      /\ idempotency'[n] = NoRow
      /\ \A k \in Keys \ {n} : idempotency'[k] = idempotency[k]
  BY <1>1, <1>2, <1>4 DEF TypeOK
<1>6. TypeOK'
  BY <1>1, <1>2, <1>5 DEF TypeOK, Addressed
<1>7. ReservationIsOwned'
  <2>1. idempotency'[n].response # IDEMPOTENCY_IN_PROGRESS
    BY <1>5, RowFacts DEF IDEMPOTENCY_IN_PROGRESS
  <2> QED
    BY <1>1, <1>2, <1>3, <1>5, <2>1, KeysApart, OwnershipEnds DEF IInv
<1>8. AnswersAreStored'
  <2>1. answers[n] = {}
    BY <1>1, <1>2, <1>4, Unanswered DEF IInv
  <2> QED
    BY <1>1, <1>5, <2>1, AnswersKept DEF IInv
<1>9. EffectInHand'
  BY <1>2, HandKept DEF IInv
<1> QED
  BY <1>6, <1>7, <1>8, <1>9 DEF IInv

\* A process dies with its key reserved.
LEMMA DieKeeps ==
    ASSUME IInv, NEW c \in Calls, Die(c)
    PROVE  IInv'
<1>1. /\ ~At(c, "new") /\ ~At(c, "done") /\ Go(c, "done") /\ TypeOK
      /\ interrupted' = interrupted \cup {k \in McpKeys : Owns(c, k)}
      /\ faults < MaxFaults /\ faults' = faults + 1
      /\ UNCHANGED <<idempotency, effects, answers, case>>
  BY DEF Die, At, IInv
<1>2. /\ call' \in [Calls -> Call] /\ Addressed' /\ OnlyMoves(c)
      /\ call'[c].at = "done"
  BY <1>1, Move DEF Stages
<1>3. TypeOK'
  <2>1. faults' \in 0..MaxFaults
    BY <1>1, BoundsAssumption DEF TypeOK
  <2>2. interrupted' \in SUBSET McpKeys
    BY <1>1 DEF TypeOK
  <2> QED
    BY <1>1, <1>2, <2>1, <2>2 DEF TypeOK, Addressed
<1>4. ReservationIsOwned'
  <2>1. \A k \in McpKeys : ~Owns(c, k)' /\ (Owns(c, k) => k \in interrupted')
    BY <1>1, <1>2 DEF Owns
  <2>2. interrupted \subseteq interrupted'
    BY <1>1
  <2> QED
    BY <1>1, <1>2, <2>1, <2>2, OwnershipKept DEF IInv
<1>5. AnswersAreStored'
  BY <1>1, AnswersKept DEF IInv
<1>6. EffectInHand'
  BY <1>2, HandKept DEF IInv
<1> QED
  BY <1>3, <1>4, <1>5, <1>6 DEF IInv

\* The case moves on: no call does, and no row of a tool is touched.
LEMMA CaseKeeps ==
    ASSUME IInv, LeaveDraft \/ Erase
    PROVE  IInv'
<1>1. /\ case' \in {"DRAFT", "DECIDED", "ERASED"} /\ (case' # "ERASED" => case # "ERASED")
      /\ UNCHANGED <<call, effects, answers, interrupted, faults>>
  BY DEF LeaveDraft, Erase
<1>2. /\ idempotency' \in [Keys -> Row \cup {NoRow}]
      /\ \A k \in McpKeys : idempotency'[k] = idempotency[k]
      /\ case' # "ERASED" => idempotency' = idempotency
  <2>1. CASE LeaveDraft
    BY <2>1 DEF LeaveDraft, IInv, TypeOK
  <2>2. CASE Erase
    <3>1. idempotency' = [k \in Keys |-> IF Matched(k) THEN NoRow ELSE idempotency[k]]
      BY <2>2 DEF Erase
    <3>2. idempotency \in [Keys -> Row \cup {NoRow}]
      BY DEF IInv, TypeOK
    <3> QED
      BY <2>2, <3>1, <3>2, KeysApart DEF Erase, Matched
  <2> QED
    BY <2>1, <2>2
<1>3. TypeOK'
  BY <1>1, <1>2 DEF IInv, TypeOK, KeyOf
<1>4. ReservationIsOwned'
  <2> SUFFICES ASSUME NEW k \in McpKeys
               PROVE  /\ \A d \in Calls : Owns(d, k)' => Holds(d)'
                      /\ \A d, e \in Calls : Owns(d, k)' /\ Owns(e, k)' => d = e
                      /\ InProgress(k)' /\ k \notin interrupted' => \E d \in Calls : Owns(d, k)'
    BY DEF ReservationIsOwned
  <2>1. \A d \in Calls : Owns(d, k)' <=> Owns(d, k)
    BY <1>1 DEF Owns, KeyOf
  <2>2. ASSUME NEW d \in Calls, Owns(d, k)' PROVE Holds(d)'
    <3>1. Holds(d) /\ KeyOf(d) = k
      BY <2>1, <2>2 DEF IInv, ReservationIsOwned, Owns
    <3> QED
      BY <1>1, <1>2, <3>1 DEF Holds, RowOf, KeyOf, Reserved
  <2>3. InProgress(k)' <=> InProgress(k)
    BY <1>2 DEF InProgress
  <2> QED
    BY <1>1, <2>1, <2>2, <2>3 DEF IInv, ReservationIsOwned
<1>5. AnswersAreStored'
  BY <1>1, <1>2, AnswersKept DEF IInv
<1>6. EffectInHand'
  BY <1>1 DEF IInv, EffectInHand, At
<1> QED
  BY <1>3, <1>4, <1>5, <1>6 DEF IInv

\* Every step, and every stuttering step, preserves the invariant.
LEMMA InvariantNext == IInv /\ [Next]_vars => IInv'
<1> SUFFICES ASSUME IInv, [Next]_vars PROVE IInv'
  OBVIOUS
<1>1. ASSUME NEW c \in Calls, NEW k \in Keys, NEW h \in Hashes, Arrive(c, k, h) PROVE IInv'
  BY <1>1, ArriveKeeps
<1>2. ASSUME NEW c \in Calls, Step(c) PROVE IInv'
  BY <1>2, CheckKeeps, ReserveKeeps, GetKeeps, PerformKeeps, RejectKeeps, CompleteKeeps,
     StoreKeeps, ReleaseKeeps DEF Step
<1>3. ASSUME NEW c \in Calls, Die(c) PROVE IInv'
  BY <1>3, DieKeeps
<1>4. CASE LeaveDraft \/ Erase
  BY <1>4, CaseKeeps
<1>5. CASE UNCHANGED vars
  <2>1. UNCHANGED <<idempotency, call, effects, answers, interrupted, case, faults>>
    BY <1>5 DEF vars
  <2>2. TypeOK'
    BY <2>1 DEF IInv, TypeOK, KeyOf
  <2>3. ReservationIsOwned'
    BY <2>1 DEF IInv, ReservationIsOwned, Owns, Holds, RowOf, KeyOf, InProgress, Reserved
  <2>4. AnswersAreStored' /\ EffectInHand'
    BY <2>1 DEF IInv, AnswersAreStored, EffectInHand, At
  <2> QED
    BY <2>2, <2>3, <2>4 DEF IInv
<1> QED
  BY <1>1, <1>2, <1>3, <1>4, <1>5 DEF Next

----------------------------------------------------------------------------
\* The inductive invariant of the idempotency keys (types, who owns a
\* reservation, what the rows store) holds in every reachable state of the
\* tools and routes.
THEOREM Invariance == Spec => []IInv
BY InvariantInit, InvariantNext, PTL DEF Spec

\* Every row of research_idempotency and every call keeps its type.
THEOREM TypeCorrect == Spec => []TypeOK
<1>1. IInv => TypeOK
  BY DEF IInv
<1> QED
  BY <1>1, Invariance, PTL

\* A tool that reserved a key is alone under it until it completes or
\* releases it, and every reservation in progress has such a call or a dead one.
THEOREM ReservationsOwned == Spec => []ReservationIsOwned
<1>1. IInv => ReservationIsOwned
  BY DEF IInv
<1> QED
  BY <1>1, Invariance, PTL

\* All answers a key gave are one answer to one request: for the tools
\* always, for the routes until the case is erased.
THEOREM AnswersAgree == Spec => []OneAnswer
<1>1. IInv => OneAnswer
  <2> SUFFICES ASSUME IInv, NEW k \in Keys, k \in McpKeys \/ case # "ERASED",
                      NEW a \in answers[k], NEW b \in answers[k]
               PROVE  a = b
    BY DEF OneAnswer
  <2>1. /\ idempotency[k] = [request_hash |-> a[1], response |-> a[2]]
        /\ idempotency[k] = [request_hash |-> b[1], response |-> b[2]]
    BY DEF IInv, AnswersAreStored
  <2>2. a[1] = b[1] /\ a[2] = b[2]
    BY <2>1
  <2>3. a \in Hashes \X (0..MaxEffects) /\ b \in Hashes \X (0..MaxEffects)
    BY DEF IInv, TypeOK
  <2> QED
    BY <2>2, <2>3
<1> QED
  BY <1>1, Invariance, PTL

\* Once a tool has answered under a key, no call has an effect under it again.
THEOREM NoSecondEffect == Spec => AnsweredNeverRepeats
<1> DEFINE Quiet == \A k \in McpKeys : answers[k] # {} => effects'[k] = effects[k]
<1>1. IInv /\ [Next]_vars => [Quiet]_vars
  <2> SUFFICES ASSUME IInv, Next, NEW k \in McpKeys, answers[k] # {}
               PROVE  effects'[k] = effects[k]
    OBVIOUS
  <2>1. CASE effects' = effects
    BY <2>1
  <2>2. ASSUME NEW c \in Calls, At(c, "perform"),
               effects' = [effects EXCEPT ![KeyOf(c)] = @ + 1]
        PROVE  effects'[k] = effects[k]
    <3>1. CASE KeyOf(c) = k
      <4>1. Holds(c)
        BY <2>2, <3>1 DEF Owns, At, IInv, ReservationIsOwned
      <4>2. answers[k] = {}
        BY <3>1, <4>1, KeysApart, Unanswered DEF Holds, RowOf, IInv
      <4> QED
        BY <4>2
    <3>2. CASE KeyOf(c) # k
      BY <2>2, <3>2, KeysApart DEF IInv, TypeOK
    <3> QED
      BY <3>1, <3>2
  <2>3. effects' = effects \/ \E c \in Calls :
            At(c, "perform") /\ effects' = [effects EXCEPT ![KeyOf(c)] = @ + 1]
    BY DEF Next, Step, Arrive, Check, reserve_idempotency, get_idempotency, Perform, Reject,
           complete_idempotency, store_idempotency, release_idempotency, Die, LeaveDraft, Erase
  <2> QED
    BY <2>1, <2>2, <2>3
<1> QED
  BY <1>1, Invariance, PTL DEF Spec, AnsweredNeverRepeats
=============================================================================
