------------------------- MODULE ResearchRun_proofs -------------------------
(***************************************************************************)
(* Proofs about a Research run, for any number of workers and calls, any   *)
(* policy, any contradictions between sources and any number of            *)
(* operations and of edits of the decision.                                *)
(*                                                                         *)
(* Everything rests on one argument.  A save is accepted only if the copy  *)
(* contains the whole audit trail (it is fresh): the event it adds is by   *)
(* its own operation, so an event with the same number that is already     *)
(* stored would have to be one it stored itself.  After an accepted save   *)
(* no other copy is fresh any more.                                        *)
(*                                                                         *)
(* The last part is about the run together with its job, the module        *)
(* ResearchPipeline.                                                       *)
(***************************************************************************)
EXTENDS ResearchPipeline, TLAPS, WellFoundedInduction

\* A process that is at work on an operation, and one that has a copy of
\* the run which it may still save.
Active == Steps \ (Ended \cup {"idle"})
Copying == {"begin", "resume", "cancel"} \cup Working

\* The copy contains the audit trail as it is stored.
Fresh(e) == Len(local[e].log) >= Len(ledger) /\ Accepts(local[e].log)

\* An operation has its number for itself, and only it writes events with it.
Numbered(e) ==
    /\ pc[e] \in Active => operation[e] # 0
    /\ pc[e] = "idle" => operation[e] = 0
    /\ operation[e] = 0 => local[e].log = << >>
    /\ operation[e] <= starts
Distinct == \A e, f \in Processes : operation[e] = operation[f] /\ operation[e] # 0 => e = f

\* An event of a copy is stored or the operation's own, and the operation's
\* own events that are stored are in its copy.
CopyOf(e) ==
    /\ \A i \in 1..Len(local[e].log) :
         \/ i \in 1..Len(ledger) /\ local[e].log[i] = ledger[i]
         \/ local[e].log[i].by = operation[e]
    /\ operation[e] # 0 => \A i \in 1..Len(ledger) :
         ledger[i].by = operation[e] => i <= Len(local[e].log)

\* The events of a run are one chain to its status.
IsMove(event) == <<event.from, event.to>> \in L!Moves \/ event.from = event.to
IsChain(r) ==
    /\ \A i \in 1..Len(r.log) :
         r.log[i].from = (IF i = 1 THEN "CREATED" ELSE r.log[i - 1].to) /\ IsMove(r.log[i])
    /\ r.status = IF Len(r.log) = 0 THEN "CREATED" ELSE r.log[Len(r.log)].to

\* What every copy of the run, and the row itself, says of its sources.
SourcesSound(r) ==
    /\ \A o \in Operations : r.attempts[o] <= max_attempts_per_operation
    /\ r.usable \subseteq Snapshots(r)
    /\ r.status \in {"CREATED", "SEARCHING"} => ~Discovered(r)
    /\ r.status \in {"EVIDENCE_COMPILED", "PARTIALLY_COMPLETED"} => Discovered(r)
Sound(r) == IsChain(r) /\ SourcesSound(r) /\ r.expected <= document

\* The status of the copy at each step, and the candidates that are left.
StatusAt(e) ==
    LET s == local[e].status IN
    /\ pc[e] = "begin" => s = "CREATED"
    /\ pc[e] = "resume" => s \in {"FAILED", "PARTIALLY_COMPLETED"}
    /\ pc[e] = "cancel" => s \in L!Cancellable
    /\ pc[e] = "search" => s = "SEARCHING"
    /\ pc[e] \in {"egress", "call", "refused"} =>
         s = "SEARCHING" \/ (s = "EXTRACTING" /\ todo[e] # {})
    /\ pc[e] = "discovered" => s = "SOURCES_DISCOVERED"
    /\ pc[e] \in {"select", "reselect", "extract"} => s = "EXTRACTING"
    /\ pc[e] = "conclude" => s = "EVIDENCE_COMPILED"
    /\ pc[e] \in {"egress", "call", "refused", "extract"} /\ s = "EXTRACTING"
         => todo[e] \cap Snapshots(local[e]) = {}

\* The hand-off of r was made, or can never be.
Decided(r) == r.usable # {} /\ ~r.handed => ~MayAttach(r) /\ ~Replayed(r)
\* It was made, of evidence without conflict.
Handed(r) == r.usable = {} \/ Replayed(r)
HandedPlain(r) == r.usable = {} \/ <<r.usable, {}>> \in handoffs
Reviewed(r) == \A s \in r.conflicting : r.sources[s] = "REVIEW_REQUIRED"
ConcludeAt(e) ==
    pc[e] = "conclude" => /\ handoff_failed[e] \/ Handed(local[e])
                          /\ Reviewed(local[e])
                          /\ Decided(local[e])

\* A fresh copy has the status and at least the attempts of the row; one that
\* asks for permission has counted the request it is about to send.
FreshAt(e) ==
    pc[e] \in Copying /\ Fresh(e) =>
        /\ run.status = IF pc[e] = "conclude" THEN "EXTRACTING" ELSE local[e].status
        /\ \A o \in Operations : provider_calls[o] <= local[e].attempts[o]
        /\ pc[e] = "egress" => provider_calls[Current(e)] < local[e].attempts[Current(e)]

\* Only a cancellation can have come between a process at work and the row.
WorkAt(e) == pc[e] \in Working => Fresh(e) \/ run.status = "CANCELLED"

Memory(e) == Numbered(e) /\ CopyOf(e) /\ Sound(local[e])
At(e) == StatusAt(e) /\ ConcludeAt(e) /\ FreshAt(e) /\ WorkAt(e)

\* The database.
Tables ==
    /\ RowMatchesLedger
    /\ \A i \in 1..Len(ledger) : ledger[i].by <= starts
    /\ Sound(run)
    /\ \A o \in Operations : provider_calls[o] <= run.attempts[o]
    /\ \A h \in handoffs : h[2] \subseteq h[1]
    /\ run.status \in {"COMPLETED", "PARTIALLY_COMPLETED"} => Decided(run)
    /\ CompletedIsHandedOver

IInv ==
    /\ TypeOK
    /\ Tables
    /\ Distinct
    /\ SingleExecutor
    /\ \A e \in Processes : Memory(e) /\ At(e)

-----------------------------------------------------------------------------
(* Operators of the model. *)

\* A set of ranks has a best one.
LEMMA MinIsMember ==
    ASSUME NEW S \in SUBSET Nat, S # {}
    PROVE  Min(S) \in S
<1> DEFINE R == {ss \in Nat \X Nat : ss[1] < ss[2]}
<1>1. IsWellFoundedOn(R, Nat)
  BY NatLessThanWellFounded, Zenon DEF OpToRel
<1>2. \A x, y \in Nat : y < x => <<y, x>> \in R
  OBVIOUS
<1> HIDE DEF R
<1>3. \E x \in S : \A y \in S : ~(<<y, x>> \in R)
  BY <1>1, WFMin
<1>4. PICK x \in S : \A y \in S : ~(<<y, x>> \in R)
  BY <1>3
<1>5. \A y \in S : ~(y < x)
  BY <1>2, <1>4
<1>6. \A y \in S : x <= y
  BY <1>5
<1> QED
  BY <1>6 DEF Min

\* The fields of a run after apply_transition.
LEMMA AppendFacts ==
    ASSUME NEW e, NEW r \in Run, NEW t \in L!ResearchStatus, operation[e] \in Nat
    PROVE  /\ AppendEvent(e, r, t) \in Run
           /\ AppendEvent(e, r, t).status = t
           /\ AppendEvent(e, r, t).sources = r.sources
           /\ AppendEvent(e, r, t).usable = r.usable
           /\ AppendEvent(e, r, t).conflicting = r.conflicting
           /\ AppendEvent(e, r, t).attempts = r.attempts
           /\ AppendEvent(e, r, t).expected = r.expected
           /\ AppendEvent(e, r, t).handed = r.handed
<1>1. Append(r.log, [by |-> operation[e], from |-> r.status, to |-> t]) \in Seq(Event)
  BY DEF Run, Event
<1>2. AppendEvent(e, r, t) \in Run
  BY <1>1 DEF AppendEvent, Run
<1> QED
  BY <1>2 DEF AppendEvent, Run

\* The log of a run after apply_transition, event by event.
LEMMA AppendedLog ==
    ASSUME NEW e, NEW r \in Run, NEW t \in L!ResearchStatus, operation[e] \in Nat
    PROVE  /\ r.log \in Seq(Event) /\ AppendEvent(e, r, t).log \in Seq(Event)
           /\ Len(AppendEvent(e, r, t).log) = Len(r.log) + 1
           /\ \A i \in 1..Len(r.log) : AppendEvent(e, r, t).log[i] = r.log[i]
           /\ AppendEvent(e, r, t).log[Len(AppendEvent(e, r, t).log)].by = operation[e]
           /\ AppendEvent(e, r, t).log[Len(AppendEvent(e, r, t).log)].from = r.status
           /\ AppendEvent(e, r, t).log[Len(AppendEvent(e, r, t).log)].to = t
<1> DEFINE a == AppendEvent(e, r, t)
           ev == [by |-> operation[e], from |-> r.status, to |-> t]
<1>1. r.log \in Seq(Event) /\ ev \in Event
  BY DEF Run, Event
<1>2. ev.by = operation[e] /\ ev.from = r.status /\ ev.to = t
  OBVIOUS
<1>3. a.log = Append(r.log, ev)
  BY DEF AppendEvent, Run
<1> HIDE DEF a, ev
<1>4. a.log \in Seq(Event) /\ Len(a.log) = Len(r.log) + 1
      /\ (\A i \in 1..Len(r.log) : a.log[i] = r.log[i]) /\ a.log[Len(a.log)] = ev
  BY <1>1, <1>3
<1> QED
  BY <1>1, <1>2, <1>4 DEF a

\* apply_transition along the table continues the chain.
LEMMA ChainAppend ==
    ASSUME NEW e, NEW r \in Run, NEW t \in L!ResearchStatus, operation[e] \in Nat,
           IsChain(r), <<r.status, t>> \in L!Moves \/ r.status = t
    PROVE  IsChain(AppendEvent(e, r, t))
<1> DEFINE a == AppendEvent(e, r, t)
<1>1. a.status = t
  BY AppendFacts
<1>2. /\ r.log \in Seq(Event) /\ a.log \in Seq(Event)
      /\ Len(a.log) = Len(r.log) + 1
      /\ \A i \in 1..Len(r.log) : a.log[i] = r.log[i]
      /\ a.log[Len(a.log)].from = r.status
      /\ a.log[Len(a.log)].to = t
  BY AppendedLog
<1> HIDE DEF a
<1>3. ASSUME NEW i \in 1..Len(a.log)
      PROVE  a.log[i].from = (IF i = 1 THEN "CREATED" ELSE a.log[i - 1].to) /\ IsMove(a.log[i])
  <2>1. CASE i \in 1..Len(r.log)
    <3>1. r.log[i].from = (IF i = 1 THEN "CREATED" ELSE r.log[i - 1].to) /\ IsMove(r.log[i])
      BY <2>1 DEF IsChain
    <3>2. a.log[i] = r.log[i]
      BY <1>2, <2>1
    <3>3. i # 1 => a.log[i - 1] = r.log[i - 1]
      <4>1. i # 1 => i - 1 \in 1..Len(r.log)
        BY <1>2, <2>1
      <4> QED
        BY <1>2, <4>1
    <3> QED
      BY <3>1, <3>2, <3>3
  <2>2. CASE i = Len(a.log)
    <3>1. r.status = IF Len(r.log) = 0 THEN "CREATED" ELSE r.log[Len(r.log)].to
      BY DEF IsChain
    <3>2. IsMove(a.log[i])
      BY <1>2, <2>2 DEF IsMove
    <3> QED
      BY <1>2, <2>2, <3>1, <3>2
  <2> QED
    BY <1>2, <2>1, <2>2
<1>4. a.status = IF Len(a.log) = 0 THEN "CREATED" ELSE a.log[Len(a.log)].to
  BY <1>1, <1>2
<1>5. IsChain(a)
  BY <1>3, <1>4 DEF IsChain
<1> QED
  BY <1>5 DEF a

\* save() compares the events that both logs have.
LEMMA AcceptsAll ==
    ASSUME ledger \in Seq(Event), NEW log \in Seq(Event)
    PROVE  Accepts(log) <=> \A i \in 1..Len(log) : i <= Len(ledger) => log[i] = ledger[i]
BY DEF Accepts

\* What is stored of a log that is longer than the ledger and agrees with it.
LEMMA StoredLog ==
    ASSUME ledger \in Seq(Event), NEW r \in Run, Accepts(r.log),
           Len(r.log) > Len(ledger), Store(r)
    PROVE  run' = r /\ ledger' = r.log
<1>1. r.log \in Seq(Event)
  BY DEF Run
<1>2. \A i \in 1..Len(r.log) : i <= Len(ledger) => r.log[i] = ledger[i]
  BY <1>1, AcceptsAll
<1>3. DOMAIN ledger = 1..Len(ledger) /\ DOMAIN r.log = 1..Len(r.log)
  BY <1>1
<1>4. DOMAIN ledger \cup DOMAIN r.log = 1..Len(r.log)
  BY <1>1, <1>3
<1>5. ledger' = [i \in 1..Len(r.log) |-> IF i \in 1..Len(ledger) THEN ledger[i] ELSE r.log[i]]
  BY <1>3, <1>4 DEF Store
<1>6. \A i \in 1..Len(r.log) : (IF i \in 1..Len(ledger) THEN ledger[i] ELSE r.log[i]) = r.log[i]
  BY <1>1, <1>2
<1>7. ledger' = [i \in 1..Len(r.log) |-> r.log[i]]
  BY <1>5, <1>6, Zenon
<1>8. r.log = [i \in 1..Len(r.log) |-> r.log[i]]
  BY <1>1
<1> QED
  BY <1>7, <1>8 DEF Store

\* The log of the copy with one more event, which is the operation's own.
ExtendsCopy(e, log) ==
    /\ local[e].log \in Seq(Event) /\ log \in Seq(Event)
    /\ Len(log) = Len(local[e].log) + 1
    /\ \A i \in 1..Len(local[e].log) : log[i] = local[e].log[i]
    /\ log[Len(log)].by = operation[e]

\* Such a log is accepted if and only if the copy is fresh, and is then longer
\* than the ledger.
LEMMA AcceptedIsFresh ==
    ASSUME NEW e, ledger \in Seq(Event), NEW log, ExtendsCopy(e, log),
           CopyOf(e), operation[e] # 0
    PROVE  /\ Accepts(log) <=> Fresh(e)
           /\ Fresh(e) => Len(log) > Len(ledger)
<1> USE DEF ExtendsCopy
<1>1. /\ Accepts(log) <=> \A i \in 1..Len(log) : i <= Len(ledger) => log[i] = ledger[i]
      /\ Accepts(local[e].log)
           <=> \A i \in 1..Len(local[e].log) : i <= Len(ledger) => local[e].log[i] = ledger[i]
  BY AcceptsAll
<1>2. Len(log) \in Nat /\ Len(ledger) \in Nat /\ Len(local[e].log) \in Nat
  OBVIOUS
<1>3. ASSUME Accepts(log) PROVE Fresh(e)
  <2>1. ~(Len(log) <= Len(ledger))
    <3>1. SUFFICES ASSUME Len(log) <= Len(ledger) PROVE FALSE
      OBVIOUS
    <3>2. Len(log) \in 1..Len(log) /\ Len(log) \in 1..Len(ledger)
      BY <1>2, <3>1
    <3>3. log[Len(log)] = ledger[Len(log)]
      BY <1>1, <1>3, <3>1, <3>2
    <3>4. Len(log) <= Len(local[e].log)
      BY <3>2, <3>3 DEF CopyOf
    <3> QED
      BY <1>2, <3>4
  <2>2. ASSUME NEW i \in 1..Len(local[e].log), i <= Len(ledger)
        PROVE  local[e].log[i] = ledger[i]
    BY <1>1, <1>2, <1>3, <2>2
  <2>3. Accepts(local[e].log)
    BY <1>1, <2>2
  <2> QED
    BY <1>2, <2>1, <2>3 DEF Fresh
<1>4. ASSUME Fresh(e) PROVE Accepts(log) /\ Len(log) > Len(ledger)
  <2>1. Len(log) > Len(ledger)
    BY <1>2, <1>4 DEF Fresh
  <2>2. ASSUME NEW i \in 1..Len(log), i <= Len(ledger)
        PROVE  log[i] = ledger[i]
    <3>1. i \in 1..Len(local[e].log)
      BY <1>2, <2>1, <2>2
    <3> QED
      BY <1>1, <1>4, <2>2, <3>1 DEF Fresh
  <2> QED
    BY <1>1, <2>1, <2>2
<1> QED
  BY <1>3, <1>4

-----------------------------------------------------------------------------
(* What a step leaves alone. *)

\* The memory of process f is unchanged.
Same(f) ==
    /\ pc'[f] = pc[f] /\ local'[f] = local[f] /\ todo'[f] = todo[f]
    /\ handoff_failed'[f] = handoff_failed[f] /\ operation'[f] = operation[f]

\* Only process e moves, within the types.
OnlyMoves(e) ==
    /\ pc'[e] \in Steps /\ pc' = [pc EXCEPT ![e] = pc'[e]]
    /\ local'[e] \in Run /\ local' = [local EXCEPT ![e] = local'[e]]
    /\ todo'[e] \in SUBSET Sources /\ todo' = [todo EXCEPT ![e] = todo'[e]]
    /\ handoff_failed' \in [Processes -> BOOLEAN]
    /\ \A f \in Processes : f # e => handoff_failed'[f] = handoff_failed[f]
    /\ operation'[e] \in Nat /\ operation' = [operation EXCEPT ![e] = operation'[e]]
    /\ halted' \in [Processes -> BOOLEAN]

\* A step of one process keeps the types and the memory of the others.
LEMMA OthersSame ==
    ASSUME TypeOK, NEW e \in Processes, OnlyMoves(e)
    PROVE  /\ pc' \in [Processes -> Steps]
           /\ local' \in [Processes -> Run]
           /\ todo' \in [Processes -> SUBSET Sources]
           /\ handoff_failed' \in [Processes -> BOOLEAN]
           /\ operation' \in [Processes -> Nat]
           /\ halted' \in [Processes -> BOOLEAN]
           /\ \A f \in Processes : f # e => Same(f)
<1>1. /\ pc \in [Processes -> Steps] /\ pc'[e] \in Steps /\ pc' = [pc EXCEPT ![e] = pc'[e]]
      /\ local \in [Processes -> Run] /\ local'[e] \in Run
      /\ local' = [local EXCEPT ![e] = local'[e]]
      /\ todo \in [Processes -> SUBSET Sources] /\ todo'[e] \in SUBSET Sources
      /\ todo' = [todo EXCEPT ![e] = todo'[e]]
      /\ operation \in [Processes -> Nat] /\ operation'[e] \in Nat
      /\ operation' = [operation EXCEPT ![e] = operation'[e]]
  BY DEF TypeOK, OnlyMoves
<1>2. /\ pc' \in [Processes -> Steps] /\ local' \in [Processes -> Run]
      /\ todo' \in [Processes -> SUBSET Sources] /\ operation' \in [Processes -> Nat]
  BY <1>1
<1>3. ASSUME NEW f \in Processes, f # e PROVE Same(f)
  <2>1. /\ pc'[f] = pc[f] /\ local'[f] = local[f] /\ todo'[f] = todo[f]
        /\ operation'[f] = operation[f]
    BY <1>1, <1>3
  <2> QED
    BY <1>3, <2>1 DEF OnlyMoves, Same
<1> QED
  BY <1>2, <1>3 DEF OnlyMoves

\* A run whose hand-off is decided stays so when only the document moves on.
LEMMA StaysDecided ==
    ASSUME NEW r \in Run, Decided(r), r.expected <= document,
           document \in Nat, document' \in Nat, document <= document', handoffs' = handoffs
    PROVE  r.usable # {} /\ ~r.handed => document' # r.expected /\ Compiled(r) \notin handoffs'
<1>1. r.expected \in Nat
  BY DEF Run
<1> QED
  BY <1>1 DEF Decided, MayAttach, Replayed

\* A process that does not move, in a step that saves nothing.
LEMMA OthersQuiet ==
    ASSUME TypeOK, NEW f \in Processes, Memory(f), At(f), Same(f),
           UNCHANGED <<run, ledger, provider_calls>>,
           document' \in Nat, document <= document',
           starts' \in Nat, starts <= starts',
           pc[f] = "conclude" => handoffs' = handoffs
    PROVE  Memory(f)' /\ At(f)'
<1>0. local[f] \in Run /\ operation[f] \in Nat /\ starts \in Nat /\ document \in Nat
  BY DEF TypeOK
<1>1. Numbered(f)'
  BY <1>0 DEF Memory, Numbered, Same
<1>2. CopyOf(f)'
  BY DEF Memory, CopyOf, Same
<1>3. Sound(local[f])'
  <2>1. local[f].expected \in Nat
    BY <1>0 DEF Run
  <2>2. IsChain(local[f])' /\ SourcesSound(local[f])'
    BY DEF Memory, Sound, Same, IsChain, SourcesSound, IsMove, Snapshots, Discovered, HasStatus
  <2> QED
    BY <1>0, <2>1, <2>2 DEF Memory, Sound, Same
<1>4. StatusAt(f)'
  BY DEF At, StatusAt, Same
<1>5. ConcludeAt(f)'
  <2>1. SUFFICES ASSUME pc'[f] = "conclude" PROVE ConcludeAt(f)'
    BY DEF ConcludeAt
  <2>2. pc[f] = "conclude" /\ handoffs' = handoffs
    BY <2>1 DEF Same
  <2>3. Decided(local[f]) /\ Reviewed(local[f]) /\ (handoff_failed[f] \/ Handed(local[f]))
    BY <2>2 DEF At, ConcludeAt
  <2>4. local[f].expected <= document
    BY DEF Memory, Sound
  <2>5. Decided(local[f])'
    BY <1>0, <2>2, <2>3, <2>4, StaysDecided DEF Decided, MayAttach, Replayed, Same
  <2> QED
    BY <2>2, <2>3, <2>5 DEF ConcludeAt, Same, Handed, Reviewed, Replayed, Compiled
<1>6. Fresh(f)' <=> Fresh(f)
  BY DEF Fresh, Accepts, Same
<1>7. FreshAt(f)'
  BY <1>6 DEF At, FreshAt, Same, Current
<1>8. WorkAt(f)'
  BY <1>6 DEF At, WorkAt, Same
<1> QED
  BY <1>1, <1>2, <1>3, <1>4, <1>5, <1>7, <1>8 DEF Memory, At

\* The events that an accepted save adds are the operation's own.
LEMMA AddedEvents ==
    ASSUME NEW e, ledger \in Seq(Event), NEW log, ExtendsCopy(e, log),
           CopyOf(e), Accepts(log)
    PROVE  \A i \in 1..Len(log) : \/ i \in 1..Len(ledger) /\ log[i] = ledger[i]
                                  \/ i > Len(ledger) /\ log[i].by = operation[e]
<1> USE DEF ExtendsCopy
<1>1. \A i \in 1..Len(log) : i <= Len(ledger) => log[i] = ledger[i]
  BY AcceptsAll
<1>2. Len(log) \in Nat /\ Len(ledger) \in Nat /\ Len(local[e].log) \in Nat
  OBVIOUS
<1>3. ASSUME NEW i \in 1..Len(log), i > Len(ledger)
      PROVE  log[i].by = operation[e]
  <2>1. CASE i = Len(log)
    BY <2>1
  <2>2. CASE i # Len(log)
    <3>1. i \in 1..Len(local[e].log)
      BY <1>2, <2>2
    <3>2. i \notin 1..Len(ledger)
      BY <1>2, <1>3
    <3>3. local[e].log[i].by = operation[e]
      BY <3>1, <3>2 DEF CopyOf
    <3> QED
      BY <3>1, <3>3
  <2> QED
    BY <2>1, <2>2
<1> QED
  BY <1>1, <1>2, <1>3

\* A process that does not move, when the save of another one is accepted: its
\* own copy is not fresh any more.
LEMMA OthersSaved ==
    ASSUME TypeOK, Distinct, NEW e \in Processes, NEW f \in Processes, f # e,
           CopyOf(e), operation[e] # 0, NEW r \in Run, ExtendsCopy(e, r.log),
           Accepts(r.log), run' = r, ledger' = r.log, Len(r.log) > Len(ledger),
           Memory(f), At(f), Same(f), UNCHANGED <<documentVars, starts>>,
           pc[f] \in Working => r.status = "CANCELLED"
    PROVE  Memory(f)' /\ At(f)'
<1>0. /\ local[f] \in Run /\ local[f].log \in Seq(Event) /\ ledger \in Seq(Event)
      /\ r.log \in Seq(Event) /\ operation[f] # operation[e] /\ UNCHANGED <<document, attached, handoffs>>
  BY DEF TypeOK, Distinct, Run, documentVars
<1>1. \A i \in 1..Len(r.log) : \/ i \in 1..Len(ledger) /\ r.log[i] = ledger[i]
                               \/ i > Len(ledger) /\ r.log[i].by = operation[e]
  BY <1>0, AddedEvents
<1>2. Len(r.log) \in Nat /\ Len(ledger) \in Nat /\ Len(local[f].log) \in Nat
  BY <1>0
<1>3. Numbered(f)'
  BY DEF Memory, Numbered, Same
<1>4. CopyOf(f)'
  <2>1. ASSUME NEW i \in 1..Len(local[f].log)
        PROVE  \/ i \in 1..Len(r.log) /\ local[f].log[i] = r.log[i]
               \/ local[f].log[i].by = operation[f]
    <3>1. CASE i \in 1..Len(ledger) /\ local[f].log[i] = ledger[i]
      <4>1. i \in 1..Len(r.log) /\ ~(i > Len(ledger))
        BY <1>2, <3>1
      <4> QED
        BY <1>1, <3>1, <4>1
    <3>2. CASE local[f].log[i].by = operation[f]
      BY <3>2
    <3> QED
      BY <3>1, <3>2 DEF Memory, CopyOf
  <2>2. ASSUME operation[f] # 0, NEW i \in 1..Len(r.log), r.log[i].by = operation[f]
        PROVE  i <= Len(local[f].log)
    <3>1. i \in 1..Len(ledger) /\ r.log[i] = ledger[i]
      BY <1>0, <1>1, <2>2
    <3> QED
      BY <2>2, <3>1 DEF Memory, CopyOf
  <2> QED
    BY <2>1, <2>2 DEF CopyOf, Same
<1>5. Sound(local[f])'
  BY <1>0 DEF Memory, Sound, Same, IsChain, SourcesSound, IsMove, Snapshots, Discovered, HasStatus
<1>6. StatusAt(f)'
  BY DEF At, StatusAt, Same
<1>7. ConcludeAt(f)'
  BY <1>0 DEF At, ConcludeAt, Same, Decided, MayAttach, Replayed, Compiled, Handed, Reviewed
<1>8. ~Fresh(f)'
  <2>1. SUFFICES ASSUME Fresh(f)' PROVE FALSE
    OBVIOUS
  <2>2. Len(local[f].log) >= Len(r.log)
    BY <2>1 DEF Fresh, Same
  <2>3. DOMAIN local[f].log = 1..Len(local[f].log) /\ DOMAIN r.log = 1..Len(r.log)
    BY <1>0
  <2>4. Len(r.log) \in 1..Len(r.log) /\ Len(r.log) \in 1..Len(local[f].log)
    BY <1>2, <2>2
  <2>5. local[f].log[Len(r.log)] = r.log[Len(r.log)]
    BY <2>1, <2>3, <2>4 DEF Fresh, Accepts, Same
  <2>6. local[f].log[Len(r.log)].by = operation[e]
    BY <2>5 DEF ExtendsCopy
  <2>7. Len(r.log) \notin 1..Len(ledger)
    BY <1>2
  <2> QED
    BY <1>0, <2>4, <2>6, <2>7 DEF Memory, CopyOf
<1>9. FreshAt(f)' /\ WorkAt(f)'
  BY <1>8 DEF FreshAt, WorkAt, Same
<1> QED
  BY <1>3, <1>4, <1>5, <1>6, <1>7, <1>9 DEF Memory, At

\* The numbers of operations stay distinct.
LEMMA StaysDistinct ==
    ASSUME TypeOK, Distinct, NEW e \in Processes, OnlyMoves(e),
           \A f \in Processes : operation[f] <= starts,
           operation'[e] \in {0, operation[e], starts + 1}
    PROVE  Distinct'
<1>1. /\ operation \in [Processes -> Nat] /\ starts \in Nat
      /\ \A f \in Processes : f # e => operation'[f] = operation[f]
  BY OthersSame DEF TypeOK, Same
<1>2. \A f \in Processes : operation[f] # starts + 1
  BY <1>1
<1>3. ASSUME NEW f \in Processes, NEW g \in Processes,
             operation'[f] = operation'[g], operation'[f] # 0
      PROVE  f = g
  BY <1>1, <1>2, <1>3 DEF Distinct
<1> QED
  BY <1>3 DEF Distinct

\* No process begins to work.
LEMMA StaysSingle ==
    ASSUME TypeOK, SingleExecutor, NEW e \in Processes, OnlyMoves(e),
           pc'[e] \in Working => \A f \in Processes : pc[f] \in Working => f = e
    PROVE  SingleExecutor'
<1>1. \A f \in Processes : f # e => pc'[f] = pc[f]
  BY OthersSame DEF Same
<1> QED
  BY <1>1 DEF SingleExecutor

\* A step of e that saves nothing.
LEMMA QuietStep ==
    ASSUME IInv, NEW e \in Processes, OnlyMoves(e),
           UNCHANGED <<run, ledger, provider_calls, documentVars>>,
           used_units' \in Nat, starts' \in Nat, starts <= starts',
           operation'[e] \in {0, operation[e], starts + 1},
           pc'[e] \in Working => pc[e] \in Working,
           Memory(e)', At(e)'
    PROVE  IInv'
<1>1. UNCHANGED <<run, ledger, provider_calls, document, attached, flagged, handoffs>>
  BY DEF documentVars
<1>2. TypeOK'
  BY <1>1, OthersSame DEF IInv, TypeOK
<1>3. ASSUME NEW f \in Processes PROVE Memory(f)' /\ At(f)'
  <2>1. CASE f = e
    BY <2>1
  <2>2. CASE f # e
    <3>1. Same(f)
      BY <2>2, OthersSame DEF IInv
    <3>2. document' \in Nat /\ document <= document'
      BY <1>1 DEF IInv, TypeOK
    <3> QED
      BY <1>1, <3>1, <3>2, OthersQuiet DEF IInv
  <2> QED
    BY <2>1, <2>2
<1>4. Tables'
  <2>1. ASSUME NEW i \in 1..Len(ledger) PROVE ledger[i].by <= starts'
    <3>1. ledger[i] \in Event /\ starts \in Nat
      BY DEF IInv, TypeOK
    <3>2. ledger[i].by <= starts /\ ledger[i].by \in Nat
      BY <3>1 DEF IInv, Tables, Event
    <3> QED
      BY <3>1, <3>2
  <2> QED
    BY <1>1, <2>1 DEF IInv, Tables, RowMatchesLedger, Sound, IsChain, SourcesSound, IsMove,
       Snapshots, Discovered, HasStatus, Decided, MayAttach, Replayed, Compiled, CompletedIsHandedOver
<1>5. Distinct'
  <2>1. \A f \in Processes : operation[f] <= starts
    BY DEF IInv, Memory, Numbered
  <2> QED
    BY <2>1, StaysDistinct DEF IInv
<1>6. SingleExecutor'
  BY StaysSingle DEF IInv, SingleExecutor
<1> QED
  BY <1>2, <1>3, <1>4, <1>5, <1>6 DEF IInv

\* The copy of a process with one more event of its own operation.
LEMMA ExtendedCopy ==
    ASSUME NEW e, CopyOf(e), NEW log, ExtendsCopy(e, log), ledger \in Seq(Event)
    PROVE  /\ \A i \in 1..Len(log) : \/ i \in 1..Len(ledger) /\ log[i] = ledger[i]
                                     \/ log[i].by = operation[e]
           /\ operation[e] # 0 => \A i \in 1..Len(ledger) :
                ledger[i].by = operation[e] => i <= Len(log)
<1> USE DEF ExtendsCopy
<1>1. Len(log) \in Nat /\ Len(ledger) \in Nat /\ Len(local[e].log) \in Nat
  OBVIOUS
<1>2. ASSUME NEW i \in 1..Len(log)
      PROVE  (i \in 1..Len(ledger) /\ log[i] = ledger[i]) \/ log[i].by = operation[e]
  <2>1. CASE i = Len(log)
    BY <2>1
  <2>2. CASE i # Len(log)
    <3>1. i \in 1..Len(local[e].log)
      BY <1>1, <2>2
    <3> QED
      BY <3>1 DEF CopyOf
  <2> QED
    BY <2>1, <2>2
<1>3. ASSUME operation[e] # 0, NEW i \in 1..Len(ledger), ledger[i].by = operation[e]
      PROVE  i <= Len(log)
  <2>1. i <= Len(local[e].log)
    BY <1>3 DEF CopyOf
  <2> QED
    BY <1>1, <2>1
<1> QED
  BY <1>2, <1>3

\* An accepted save of e.
LEMMA SaveStep ==
    ASSUME IInv, NEW e \in Processes, OnlyMoves(e), pc[e] \in Copying,
           NEW r \in Run, local'[e] = r, ExtendsCopy(e, r.log), Accepts(r.log), Store(r),
           UNCHANGED <<used_units, documentVars, operation, starts>>,
           provider_calls' \in [Operations -> Nat],
           \A o \in Operations : provider_calls'[o] <= r.attempts[o],
           Sound(r),
           \A f \in Processes : pc[f] \in Working /\ f # e
               => r.status = "CANCELLED" /\ pc'[e] \notin Working,
           pc'[e] \notin {"idle", "begin", "resume", "cancel", "egress", "conclude"},
           pc'[e] \in Copying => StatusAt(e)',
           r.status \in {"COMPLETED", "PARTIALLY_COMPLETED"} => Decided(r),
           r.status = "COMPLETED" => HandedPlain(r)
    PROVE  IInv'
<1>1. /\ TypeOK /\ Memory(e) /\ CopyOf(e) /\ operation[e] # 0 /\ ledger \in Seq(Event)
      /\ UNCHANGED <<document, attached, flagged, handoffs>>
      /\ \A f \in Processes : operation'[f] = operation[f]
  BY DEF IInv, Memory, Numbered, TypeOK, documentVars, Copying, Active, Working, Steps, Checked, Ended
<1>2. Fresh(e) /\ Len(r.log) > Len(ledger)
  BY <1>1, AcceptedIsFresh
<1>3. run' = r /\ ledger' = r.log
  BY <1>1, <1>2, StoredLog
<1>4. r.log \in Seq(Event) /\ Len(r.log) \in Nat /\ Len(r.log) > 0
  BY DEF ExtendsCopy
<1>5. TypeOK'
  BY <1>1, <1>3, <1>4, OthersSame DEF TypeOK
<1>6. ASSUME NEW f \in Processes, f # e PROVE Memory(f)' /\ At(f)'
  <2>1. Same(f)
    BY <1>6, OthersSame DEF IInv
  <2> QED
    BY <1>1, <1>2, <1>3, <1>6, <2>1, OthersSaved DEF IInv
<1>7. Memory(e)'
  <2>1. Numbered(e)'
    BY <1>1 DEF Memory, Numbered
  <2>2. CopyOf(e)'
    BY <1>1, <1>3 DEF CopyOf
  <2>3. Sound(local[e])'
    BY <1>1 DEF Sound, IsChain, SourcesSound, IsMove, Snapshots, Discovered, HasStatus
  <2> QED
    BY <2>1, <2>2, <2>3 DEF Memory
<1>8. At(e)'
  <2>1. StatusAt(e)'
    BY DEF StatusAt, Copying, Working
  <2>2. ConcludeAt(e)'
    BY DEF ConcludeAt
  <2>3. Fresh(e)'
    BY <1>3, <1>4 DEF Fresh, Accepts
  <2>4. FreshAt(e)' /\ WorkAt(e)'
    BY <1>3, <2>3 DEF FreshAt, WorkAt
  <2> QED
    BY <2>1, <2>2, <2>4 DEF At
<1>9. Tables'
  <2>1. ASSUME NEW i \in 1..Len(r.log) PROVE r.log[i].by <= starts
    <3>1. \/ i \in 1..Len(ledger) /\ r.log[i] = ledger[i]
          \/ i > Len(ledger) /\ r.log[i].by = operation[e]
      BY <1>1, AddedEvents
    <3> QED
      BY <1>1, <3>1 DEF IInv, Tables, Memory, Numbered
  <2>2. Sound(run)'
    BY <1>1, <1>3 DEF Sound, IsChain, SourcesSound, IsMove, Snapshots, Discovered, HasStatus
  <2>3. (run.status \in {"COMPLETED", "PARTIALLY_COMPLETED"} => Decided(run))'
    BY <1>1, <1>3 DEF Decided, MayAttach, Replayed, Compiled
  <2>4. CompletedIsHandedOver' /\ RowMatchesLedger'
    BY <1>1, <1>3 DEF CompletedIsHandedOver, RowMatchesLedger, HandedPlain
  <2> QED
    BY <1>1, <1>3, <2>1, <2>2, <2>3, <2>4 DEF IInv, Tables
<1>10. Distinct'
  BY <1>1 DEF IInv, Distinct
<1>11. SingleExecutor'
  BY StaysSingle DEF IInv
<1> QED
  BY <1>5, <1>6, <1>7, <1>8, <1>9, <1>10, <1>11 DEF IInv

-----------------------------------------------------------------------------
(* A transition and its save(). *)

\* A transition along the table leaves a copy sound.
LEMMA SoundAppend ==
    ASSUME NEW e, NEW r \in Run, NEW t \in L!ResearchStatus, operation[e] \in Nat,
           IsChain(r), <<r.status, t>> \in L!Moves \/ r.status = t,
           \A o \in Operations : r.attempts[o] <= max_attempts_per_operation,
           r.usable \subseteq Snapshots(r), r.expected <= document,
           t \in {"CREATED", "SEARCHING"} => ~Discovered(r),
           t \in {"EVIDENCE_COMPILED", "PARTIALLY_COMPLETED"} => Discovered(r)
    PROVE  Sound(AppendEvent(e, r, t))
<1> DEFINE a == AppendEvent(e, r, t)
<1>1. /\ a.status = t /\ a.sources = r.sources /\ a.usable = r.usable
      /\ a.attempts = r.attempts /\ a.expected = r.expected
  BY AppendFacts
<1>2. IsChain(a)
  BY ChainAppend
<1> HIDE DEF a
<1>3. Snapshots(a) = Snapshots(r) /\ (Discovered(a) <=> Discovered(r))
  BY <1>1 DEF Snapshots, Discovered, HasStatus
<1>4. Sound(a)
  BY <1>1, <1>2, <1>3 DEF Sound, SourcesSound
<1> QED
  BY <1>4 DEF a

\* The log of the copy after apply_transition.
LEMMA AppendExtends ==
    ASSUME TypeOK, NEW e \in Processes, NEW r \in Run, r.log = local[e].log,
           NEW t \in L!ResearchStatus
    PROVE  AppendEvent(e, r, t) \in Run /\ ExtendsCopy(e, AppendEvent(e, r, t).log)
<1>1. operation[e] \in Nat /\ local[e] \in Run
  BY DEF TypeOK
<1> QED
  <2>1. AppendEvent(e, r, t) \in Run
    BY <1>1, AppendFacts
  <2>2. /\ r.log \in Seq(Event) /\ AppendEvent(e, r, t).log \in Seq(Event)
        /\ Len(AppendEvent(e, r, t).log) = Len(r.log) + 1
        /\ \A i \in 1..Len(r.log) : AppendEvent(e, r, t).log[i] = r.log[i]
        /\ AppendEvent(e, r, t).log[Len(AppendEvent(e, r, t).log)].by = operation[e]
        /\ AppendEvent(e, r, t).log[Len(AppendEvent(e, r, t).log)].from = r.status
        /\ AppendEvent(e, r, t).log[Len(AppendEvent(e, r, t).log)].to = t
    BY <1>1, AppendedLog, Zenon
  <2> QED
    BY <2>1, <2>2 DEF ExtendsCopy

\* The steps that follow a save, and the status that it has stored then.
AfterSave == {<<"search", "SEARCHING">>, <<"discovered", "SOURCES_DISCOVERED">>,
              <<"select", "EXTRACTING">>, <<"reselect", "EXTRACTING">>}

\* A save, accepted or refused, keeps the invariant: the case of every action
\* that ends with repository.save().
LEMMA SaveKeeps ==
    ASSUME IInv, NEW e \in Processes, pc[e] \in Copying,
           NEW s \in Run, s.log = local[e].log, s.attempts = local[e].attempts,
           NEW t \in L!ResearchStatus, NEW step, step = "returned" \/ <<step, t>> \in AfterSave,
           Save(e, AppendEvent(e, s, t), step),
           UNCHANGED <<used_units, documentVars, todo, handoff_failed,
                       operation, halted, starts, provider_calls>>,
           Sound(AppendEvent(e, s, t)),
           Fresh(e) => \A f \in Processes :
               pc[f] \in Working /\ f # e => t = "CANCELLED" /\ step = "returned",
           t \in {"COMPLETED", "PARTIALLY_COMPLETED"} => Decided(s),
           t = "COMPLETED" => HandedPlain(s)
    PROVE  IInv'
<1> DEFINE r == AppendEvent(e, s, t)
<1>1. /\ r.status = t /\ r.usable = s.usable /\ r.attempts = s.attempts
      /\ r.handed = s.handed /\ r.expected = s.expected /\ r.conflicting = s.conflicting
  BY AppendFacts DEF IInv, TypeOK
<1>2. r \in Run /\ ExtendsCopy(e, r.log)
  BY AppendExtends DEF IInv
<1>3. Sound(r) /\ Save(e, r, step)
  OBVIOUS
<1> HIDE DEF r
<1>4. /\ TypeOK /\ Memory(e) /\ CopyOf(e) /\ operation[e] # 0 /\ ledger \in Seq(Event)
      /\ UNCHANGED <<document, attached, flagged, handoffs>>
      /\ \A f \in Processes : operation'[f] = operation[f]
  BY DEF IInv, Memory, Numbered, TypeOK, documentVars, Copying, Active, Working, Steps, Checked, Ended
<1>5. /\ pc \in [Processes -> Steps] /\ local \in [Processes -> Run]
      /\ local' = [local EXCEPT ![e] = r] /\ local'[e] = r
  BY <1>3, <1>4 DEF TypeOK, Save
<1>6. step \in Steps /\ step \notin {"idle", "begin", "resume", "cancel", "egress", "conclude"}
  BY DEF AfterSave, Steps, Checked, Ended
<1>7. ASSUME pc'[e] \in Steps, pc' = [pc EXCEPT ![e] = pc'[e]] PROVE OnlyMoves(e)
  <2>1. local' = [local EXCEPT ![e] = local'[e]]
    BY <1>5
  <2>2. /\ todo' = [todo EXCEPT ![e] = todo'[e]] /\ todo'[e] \in SUBSET Sources
        /\ operation' = [operation EXCEPT ![e] = operation'[e]] /\ operation'[e] \in Nat
    BY <1>4 DEF TypeOK
  <2> QED
    BY <1>2, <1>4, <1>5, <1>7, <2>1, <2>2 DEF OnlyMoves, TypeOK
<1>8. CASE Accepts(r.log) /\ Store(r) /\ Goto(e, step)
  <2>1. pc'[e] \in {step, "stopped"} /\ pc' = [pc EXCEPT ![e] = pc'[e]]
    BY <1>5, <1>8 DEF Goto
  <2>2. OnlyMoves(e)
    BY <1>6, <1>7, <2>1 DEF Steps, Ended
  <2>3. pc'[e] \notin {"idle", "begin", "resume", "cancel", "egress", "conclude"}
    BY <1>6, <2>1
  <2>4. pc'[e] \in Copying => StatusAt(e)'
    <3>1. SUFFICES ASSUME pc'[e] \in Copying PROVE StatusAt(e)'
      OBVIOUS
    <3>2. pc'[e] = step /\ <<step, t>> \in AfterSave
      BY <2>1, <3>1 DEF Copying, Working
    <3>3. local'[e].status = t
      BY <1>1, <1>5
    <3> QED
      BY <3>2, <3>3 DEF StatusAt, AfterSave
  <2>5. Fresh(e)
    BY <1>2, <1>4, <1>8, AcceptedIsFresh
  <2>6. \A o \in Operations : provider_calls'[o] <= r.attempts[o]
    <3>1. FreshAt(e)
      BY DEF IInv, At
    <3> QED
      BY <1>1, <2>5, <3>1 DEF FreshAt
  <2>7. \A f \in Processes : pc[f] \in Working /\ f # e
               => r.status = "CANCELLED" /\ pc'[e] \notin Working
    BY <1>1, <2>1, <2>5 DEF Working
  <2>8. r.status \in {"COMPLETED", "PARTIALLY_COMPLETED"} => Decided(r)
    BY <1>1 DEF Decided, MayAttach, Replayed, Compiled
  <2>9. provider_calls' \in [Operations -> Nat]
    BY <1>4 DEF TypeOK
  <2>10. r.status = "COMPLETED" => HandedPlain(r)
    BY <1>1 DEF HandedPlain
  <2> QED
    BY <1>1, <1>2, <1>3, <1>5, <1>8, <2>2, <2>3, <2>4, <2>6, <2>7, <2>8, <2>9, <2>10, SaveStep
<1>9. CASE ~Accepts(r.log) /\ pc' = [pc EXCEPT ![e] = "dead"] /\ UNCHANGED <<run, ledger>>
  <2>1. pc'[e] = "dead" /\ pc' = [pc EXCEPT ![e] = pc'[e]]
    BY <1>5, <1>9
  <2>2. OnlyMoves(e)
    BY <1>7, <2>1 DEF Steps, Ended
  <2>3. Memory(e)'
    <3>1. Numbered(e)'
      BY <1>4, <2>1 DEF Memory, Numbered, Active, Ended
    <3>2. CopyOf(e)'
      <4>1. /\ \A i \in 1..Len(r.log) : \/ i \in 1..Len(ledger) /\ r.log[i] = ledger[i]
                                        \/ r.log[i].by = operation[e]
            /\ \A i \in 1..Len(ledger) : ledger[i].by = operation[e] => i <= Len(r.log)
        BY <1>2, <1>4, ExtendedCopy
      <4> QED
        BY <1>4, <1>5, <1>9, <4>1 DEF CopyOf
    <3>3. Sound(local[e])'
      BY <1>3, <1>4, <1>5 DEF Sound, IsChain, SourcesSound, IsMove, Snapshots, Discovered, HasStatus
    <3> QED
      BY <3>1, <3>2, <3>3 DEF Memory
  <2>4. At(e)'
    BY <2>1 DEF At, StatusAt, ConcludeAt, FreshAt, WorkAt, Copying, Working
  <2>5. /\ UNCHANGED <<run, ledger, provider_calls, documentVars>> /\ used_units' \in Nat
        /\ starts' \in Nat /\ starts <= starts' /\ operation'[e] \in {0, operation[e], starts + 1}
        /\ pc'[e] \notin Working
    BY <1>4, <1>9, <2>1 DEF TypeOK, Working
  <2> QED
    BY <2>2, <2>3, <2>4, <2>5, QuietStep
<1> QED
  BY <1>3, <1>8, <1>9 DEF Save

-----------------------------------------------------------------------------
(* What the steps do to the copy of the run. *)

\* The fields that only transitions change.
SameStory(a, r) ==
    /\ a.status = r.status /\ a.log = r.log
    /\ a.expected = r.expected /\ a.handed = r.handed

\* _mark_citation_only and the like change the status of one source.
LEMMA MarkedFacts ==
    ASSUME NEW r \in Run, NEW s \in Sources, NEW v \in SourceStatus
    PROVE  /\ Marked(r, s, v) \in Run /\ SameStory(Marked(r, s, v), r)
           /\ Marked(r, s, v).attempts = r.attempts /\ Marked(r, s, v).usable = r.usable
           /\ Marked(r, s, v).sources = [r.sources EXCEPT ![s] = v]
<1>1. Marked(r, s, v) = [r EXCEPT !.sources = [r.sources EXCEPT ![s] = v]]
  BY DEF Marked
<1>2. [r.sources EXCEPT ![s] = v] \in [Sources -> SourceStatus]
  BY DEF Run
<1> DEFINE sources == [r.sources EXCEPT ![s] = v]
<1> HIDE DEF sources
<1>3. Marked(r, s, v) = [r EXCEPT !.sources = sources]
  BY <1>1 DEF sources
<1>4. sources \in [Sources -> SourceStatus]
  BY <1>2 DEF sources
<1>5. /\ Marked(r, s, v) \in Run /\ SameStory(Marked(r, s, v), r)
      /\ Marked(r, s, v).attempts = r.attempts /\ Marked(r, s, v).usable = r.usable
      /\ Marked(r, s, v).sources = sources
  BY <1>3, <1>4 DEF SameStory, Run
<1> QED
  BY <1>5 DEF sources

\* _store_discovery replaces the sources.
LEMMA FoundFacts ==
    ASSUME NEW r \in Run, NEW found \in [Sources -> SourceStatus]
    PROVE  LET a == [r EXCEPT !.sources = found] IN
           /\ a \in Run /\ SameStory(a, r)
           /\ a.attempts = r.attempts /\ a.usable = r.usable /\ a.sources = found
BY DEF SameStory, Run

\* _reserve counts an attempt and selects the source.
LEMMA AttemptedFacts ==
    ASSUME NEW r \in Run, NEW o \in Operations
    PROVE  /\ Attempted(r, o) \in Run /\ SameStory(Attempted(r, o), r)
           /\ Attempted(r, o).usable = r.usable
           /\ Attempted(r, o).attempts = [r.attempts EXCEPT ![o] = r.attempts[o] + 1]
           /\ o = Search => Attempted(r, o).sources = r.sources
           /\ o # Search => Attempted(r, o).sources = [r.sources EXCEPT ![o] = "SELECTED"]
<1> DEFINE attempts == [r.attempts EXCEPT ![o] = r.attempts[o] + 1]
           sources == IF o = Search THEN r.sources ELSE [r.sources EXCEPT ![o] = "SELECTED"]
<1>1. attempts \in [Operations -> Nat]
  BY DEF Run
<1>2. sources \in [Sources -> SourceStatus]
  BY DEF Run, SourceStatus
<1>3. Attempted(r, o) = [r EXCEPT !.attempts = attempts, !.sources = sources]
  BY DEF Attempted, Run
<1> HIDE DEF attempts, sources
<1>4. /\ Attempted(r, o) \in Run /\ SameStory(Attempted(r, o), r)
      /\ Attempted(r, o).usable = r.usable
      /\ Attempted(r, o).attempts = attempts /\ Attempted(r, o).sources = sources
  BY <1>1, <1>2, <1>3 DEF SameStory, Run
<1> QED
  BY <1>4 DEF attempts, sources

\* The head of _extract_and_finalize skips sources beyond the limit.
LEMMA SkippedFacts ==
    ASSUME NEW r \in Run, NEW S
    PROVE  /\ Skipped(r, S) \in Run /\ SameStory(Skipped(r, S), r)
           /\ Skipped(r, S).attempts = r.attempts /\ Skipped(r, S).usable = r.usable
           /\ \A s \in Sources : Skipped(r, S).sources[s] =
                IF r.sources[s] = "DISCOVERED" /\ s \notin S THEN "SKIPPED_LIMIT" ELSE r.sources[s]
<1> DEFINE sources == [s \in Sources |->
        IF r.sources[s] = "DISCOVERED" /\ s \notin S THEN "SKIPPED_LIMIT" ELSE r.sources[s]]
<1>1. sources \in [Sources -> SourceStatus]
  BY DEF Run, SourceStatus
<1>2. \A s \in Sources : sources[s] =
        IF r.sources[s] = "DISCOVERED" /\ s \notin S THEN "SKIPPED_LIMIT" ELSE r.sources[s]
  OBVIOUS
<1>3. Skipped(r, S) = [r EXCEPT !.sources = sources]
  BY DEF Skipped
<1> HIDE DEF sources
<1>4. /\ Skipped(r, S) \in Run /\ SameStory(Skipped(r, S), r)
      /\ Skipped(r, S).attempts = r.attempts /\ Skipped(r, S).usable = r.usable
      /\ Skipped(r, S).sources = sources
  BY <1>1, <1>3 DEF SameStory, Run
<1> QED
  BY <1>2, <1>4

\* EvidencePolicy.assess makes a snapshot and perhaps usable evidence.
LEMMA AssessFacts ==
    ASSUME NEW r \in Run, NEW s \in Sources, NEW usable \in BOOLEAN
    PROVE  /\ assess(r, s, usable) \in Run /\ SameStory(assess(r, s, usable), r)
           /\ assess(r, s, usable).attempts = r.attempts
           /\ assess(r, s, usable).usable \subseteq r.usable \cup {s}
           /\ assess(r, s, usable).sources[s] \in {"EXTRACTED", "REVIEW_REQUIRED"}
           /\ \A u \in Sources : u # s => assess(r, s, usable).sources[u] = r.sources[u]
<1> DEFINE v == IF usable THEN "EXTRACTED" ELSE "REVIEW_REQUIRED"
           sources == [r.sources EXCEPT ![s] = v]
           uses == IF usable THEN r.usable \cup {s} ELSE r.usable
<1>1. v \in {"EXTRACTED", "REVIEW_REQUIRED"}
  OBVIOUS
<1>2. uses \in SUBSET Sources /\ uses \subseteq r.usable \cup {s}
  BY DEF Run
<1>3. assess(r, s, usable) = [r EXCEPT !.sources = sources, !.usable = uses]
  BY DEF assess, Run
<1> HIDE DEF v, uses
<1>4. sources \in [Sources -> SourceStatus]
  BY <1>1 DEF Run, SourceStatus
<1>5. /\ sources[s] \in {"EXTRACTED", "REVIEW_REQUIRED"}
      /\ \A u \in Sources : u # s => sources[u] = r.sources[u]
  BY <1>1 DEF Run
<1> HIDE DEF sources
<1>6. /\ assess(r, s, usable) \in Run /\ SameStory(assess(r, s, usable), r)
      /\ assess(r, s, usable).attempts = r.attempts
      /\ assess(r, s, usable).usable = uses /\ assess(r, s, usable).sources = sources
  BY <1>2, <1>3, <1>4 DEF SameStory, Run
<1> QED
  BY <1>2, <1>5, <1>6

\* mark_conflicting_evidence keeps the snapshots.
LEMMA ConflictingFacts ==
    ASSUME NEW r \in Run
    PROVE  /\ MarkConflicting(r) \in Run /\ SameStory(MarkConflicting(r), r)
           /\ MarkConflicting(r).attempts = r.attempts
           /\ MarkConflicting(r).usable = r.usable
           /\ Snapshots(MarkConflicting(r)) = Snapshots(r)
           /\ Reviewed(MarkConflicting(r))
<1> DEFINE conflicting == UNION {C \in Contradictions : C \subseteq Snapshots(r)}
           sources == [s \in Sources |->
                IF s \in conflicting THEN "REVIEW_REQUIRED" ELSE r.sources[s]]
<1>1. conflicting \subseteq Snapshots(r) /\ Snapshots(r) \subseteq Sources
  BY DEF Snapshots
<1>2. MarkConflicting(r) = [r EXCEPT !.sources = sources, !.conflicting = conflicting]
  BY DEF MarkConflicting
<1> HIDE DEF conflicting
<1>3. sources \in [Sources -> SourceStatus]
  BY DEF Run, SourceStatus
<1>4. \A s \in Sources : sources[s] = IF s \in conflicting THEN "REVIEW_REQUIRED" ELSE r.sources[s]
  OBVIOUS
<1> HIDE DEF sources
<1>5. conflicting \in SUBSET Sources
  BY <1>1
<1>6. /\ MarkConflicting(r) \in Run /\ SameStory(MarkConflicting(r), r)
      /\ MarkConflicting(r).attempts = r.attempts /\ MarkConflicting(r).usable = r.usable
      /\ MarkConflicting(r).sources = sources /\ MarkConflicting(r).conflicting = conflicting
  BY <1>2, <1>3, <1>5 DEF SameStory, Run
<1>7. Snapshots(MarkConflicting(r)) = Snapshots(r)
  BY <1>1, <1>4, <1>6 DEF Snapshots
<1>8. Reviewed(MarkConflicting(r))
  BY <1>4, <1>5, <1>6 DEF Reviewed
<1> QED
  BY <1>6, <1>7, <1>8

\* A hand-off records itself and the document it was made to.
LEMMA HandedFacts ==
    ASSUME NEW r \in Run, document' \in Nat
    PROVE  /\ HandedOver(r) \in Run /\ HandedOver(r).expected = document' /\ HandedOver(r).handed
           /\ HandedOver(r).status = r.status /\ HandedOver(r).log = r.log
           /\ HandedOver(r).sources = r.sources /\ HandedOver(r).usable = r.usable
           /\ HandedOver(r).attempts = r.attempts /\ HandedOver(r).conflicting = r.conflicting
BY DEF HandedOver, Run

-----------------------------------------------------------------------------
(* The steps that save nothing. *)

\* At a step without a copy that may be saved there is nothing to show.
LEMMA NothingAt ==
    ASSUME NEW e, pc'[e] \notin Copying
    PROVE  At(e)'
BY DEF At, StatusAt, ConcludeAt, FreshAt, WorkAt, Copying, Working

\* A proposed run is sound.
LEMMA NewRunSound ==
    /\ NewRun \in Run /\ NewRun.log = << >> /\ NewRun.status = "CREATED" /\ NewRun.expected = 0
    /\ IsChain(NewRun) /\ SourcesSound(NewRun)
    /\ \A o \in Operations : NewRun.attempts[o] = 0
<1>1. NewRun \in Run
  BY DEF NewRun, Run, L!ResearchStatus, SourceStatus
<1>2. /\ NewRun.status = "CREATED" /\ NewRun.log = << >> /\ NewRun.usable = {} /\ NewRun.expected = 0
      /\ NewRun.sources = [s \in Sources |-> "NONE"] /\ NewRun.attempts = [o \in Operations |-> 0]
  BY DEF NewRun
<1> HIDE DEF NewRun
<1>3. IsChain(NewRun)
  BY <1>2 DEF IsChain
<1>4. \A o \in Operations : NewRun.attempts[o] = 0 /\ NewRun.attempts[o] <= max_attempts_per_operation
  BY <1>2, PolicyAssumption
<1>5. ~Discovered(NewRun)
  BY <1>2 DEF Discovered, HasStatus
<1>6. SourcesSound(NewRun)
  BY <1>2, <1>4, <1>5 DEF SourcesSound
<1> QED
  BY <1>1, <1>2, <1>3, <1>4, <1>6

\* An operation begins.
LEMMA StartMoves ==
    ASSUME IInv, NEW e \in Processes, Start(e), pc'[e] \in Steps,
           pc' = [pc EXCEPT ![e] = pc'[e]], local'[e] \in Run,
           local' = [local EXCEPT ![e] = local'[e]], UNCHANGED halted
    PROVE  /\ OnlyMoves(e)
           /\ UNCHANGED <<run, ledger, provider_calls, documentVars, used_units>>
           /\ starts \in Nat /\ starts' = starts + 1 /\ operation'[e] = starts + 1
           /\ local[e].log = << >>
<1>1. operation[e] = 0 /\ local[e].log = << >>
  BY DEF Start, IInv, Memory, Numbered
<1>2. /\ starts \in Nat /\ starts' = starts + 1 /\ operation \in [Processes -> Nat]
      /\ operation' = [operation EXCEPT ![e] = starts + 1]
  BY DEF Start, IInv, TypeOK
<1>3. /\ operation'[e] = starts + 1 /\ operation'[e] \in Nat
      /\ operation' = [operation EXCEPT ![e] = operation'[e]]
  BY <1>2
<1>4. /\ todo' = [todo EXCEPT ![e] = todo'[e]] /\ todo'[e] \in SUBSET Sources
  BY DEF Start, IInv, TypeOK
<1>5. /\ handoff_failed' \in [Processes -> BOOLEAN] /\ halted' \in [Processes -> BOOLEAN]
      /\ \A f \in Processes : f # e => handoff_failed'[f] = handoff_failed[f]
  BY DEF Start, IInv, TypeOK
<1>6. OnlyMoves(e)
  BY <1>2, <1>3, <1>4, <1>5 DEF OnlyMoves
<1> QED
  BY <1>1, <1>2, <1>3, <1>6 DEF Start, dbVars

\* Beginning an operation gives it a number of its own.
LEMMA StartKeeps ==
    ASSUME IInv, NEW e \in Processes, Start(e), UNCHANGED <<local, halted>>,
           pc'[e] \in {"execute", "retry", "stopped"}, pc' = [pc EXCEPT ![e] = pc'[e]]
    PROVE  IInv'
<1>1. TypeOK /\ Tables /\ Memory(e)
  BY DEF IInv
<1>2. pc'[e] \in Steps /\ local'[e] \in Run /\ local' = [local EXCEPT ![e] = local'[e]]
  BY <1>1 DEF TypeOK, Steps, Checked, Ended
<1>3. /\ OnlyMoves(e)
      /\ UNCHANGED <<run, ledger, provider_calls, documentVars, used_units>>
      /\ starts \in Nat /\ starts' = starts + 1 /\ operation'[e] = starts + 1
      /\ local[e].log = << >>
  BY <1>2, StartMoves
<1>4. Numbered(e)'
  BY <1>3 DEF Numbered
<1>5. CopyOf(e)'
  <2>1. ASSUME NEW i \in 1..Len(ledger) PROVE ledger[i].by # starts + 1
    <3>1. ledger[i] \in Event
      BY <1>1 DEF TypeOK
    <3>2. ledger[i].by \in Nat /\ ledger[i].by <= starts
      BY <1>1, <3>1 DEF Tables, Event
    <3> QED
      BY <1>3, <3>2
  <2> QED
    BY <1>3, <2>1 DEF CopyOf
<1>6. Sound(local[e])'
  BY <1>1, <1>3 DEF Memory, Sound, documentVars, IsChain, SourcesSound, IsMove, Snapshots, Discovered,
     HasStatus
<1>7. At(e)'
  BY NothingAt DEF Copying, Working
<1>8. used_units' \in Nat /\ starts' \in Nat /\ starts <= starts' /\ pc'[e] \notin Working
  BY <1>1, <1>3 DEF TypeOK, Working
<1> QED
  BY <1>3, <1>4, <1>5, <1>6, <1>7, <1>8, QuietStep DEF Memory

\* A process that reads the run has a fresh copy.
LEMMA LoadKeeps ==
    ASSUME IInv, NEW e \in Processes, OnlyMoves(e), local'[e] = run,
           UNCHANGED <<run, ledger, provider_calls, documentVars, used_units>>,
           operation'[e] \in {operation[e], starts + 1}, operation'[e] # 0,
           starts' \in Nat, starts <= starts', operation'[e] <= starts',
           pc'[e] \in {"begin", "resume", "cancel"} \cup Ended,
           pc'[e] = "begin" => run.status = "CREATED",
           pc'[e] = "resume" => run.status \in {"FAILED", "PARTIALLY_COMPLETED"},
           pc'[e] = "cancel" => run.status \in L!Cancellable
    PROVE  IInv'
<1>1. TypeOK /\ Tables /\ run.log = ledger /\ ledger \in Seq(Event) /\ used_units' \in Nat
  BY DEF IInv, Tables, RowMatchesLedger, TypeOK
<1>2. UNCHANGED <<run, ledger, provider_calls, document, attached, handoffs>>
  BY DEF documentVars
<1>3. Numbered(e)'
  BY DEF Numbered, Ended
<1>4. CopyOf(e)'
  BY <1>1, <1>2 DEF CopyOf
<1>5. Sound(local[e])'
  BY <1>1, <1>2 DEF Tables, Sound, IsChain, SourcesSound, IsMove, Snapshots, Discovered, HasStatus
<1>6. StatusAt(e)' /\ ConcludeAt(e)' /\ WorkAt(e)' /\ pc'[e] \notin Working
  BY DEF StatusAt, ConcludeAt, WorkAt, Working, Ended
<1>7. FreshAt(e)'
  BY <1>1, <1>2 DEF FreshAt, Tables, Ended
<1> QED
  BY <1>1, <1>3, <1>4, <1>5, <1>6, <1>7, QuietStep DEF Memory, At

\* What the process had in memory is gone.
LEMMA ForgetKeeps ==
    ASSUME IInv, NEW e \in Processes, Forget(e), NEW step \in {"stopped", "dead", "idle"},
           pc' = [pc EXCEPT ![e] = step]
    PROVE  IInv'
<1>1. /\ TypeOK /\ document' \in Nat /\ UNCHANGED <<run, ledger, provider_calls, documentVars>>
      /\ used_units' \in Nat /\ starts' \in Nat /\ starts <= starts'
      /\ ledger \in Seq(Event) /\ UNCHANGED <<ledger, starts>>
  BY DEF IInv, TypeOK, Forget, dbVars, documentVars
<1>2. /\ NewRun \in Run /\ NewRun.log = << >> /\ NewRun.expected = 0
      /\ IsChain(NewRun) /\ SourcesSound(NewRun)
  BY NewRunSound
<1>3. /\ pc'[e] = step /\ local'[e] = NewRun /\ todo'[e] = {} /\ operation'[e] = 0
      /\ pc' = [pc EXCEPT ![e] = pc'[e]] /\ local' = [local EXCEPT ![e] = local'[e]]
      /\ todo' = [todo EXCEPT ![e] = todo'[e]]
      /\ operation' = [operation EXCEPT ![e] = operation'[e]]
  BY <1>1 DEF TypeOK, Forget
<1>4. /\ handoff_failed' \in [Processes -> BOOLEAN] /\ halted' \in [Processes -> BOOLEAN]
      /\ \A f \in Processes : f # e => handoff_failed'[f] = handoff_failed[f]
  BY <1>1 DEF TypeOK, Forget
<1>5. OnlyMoves(e)
  BY <1>2, <1>3, <1>4 DEF OnlyMoves, Steps, Ended
<1>6. Numbered(e)'
  BY <1>1, <1>2, <1>3 DEF Numbered, Active, Ended
<1>7. CopyOf(e)'
  BY <1>2, <1>3 DEF CopyOf
<1>8. Sound(local[e])'
  <2> DEFINE r == NewRun
  <2>1. IsChain(r) /\ SourcesSound(r) /\ r.expected <= document' /\ local'[e] = r
    BY <1>1, <1>2, <1>3
  <2> HIDE DEF r
  <2> QED
    BY <2>1 DEF Sound, IsChain, SourcesSound, IsMove, Snapshots, Discovered, HasStatus
<1>9. At(e)' /\ pc'[e] \notin Working
  BY <1>3, NothingAt DEF Copying, Working
<1> QED
  BY <1>1, <1>3, <1>5, <1>6, <1>7, <1>8, <1>9, QuietStep DEF Memory

\* While a process works, the run is under way or cancelled.
LEMMA WorkingStatus ==
    ASSUME IInv, NEW e \in Processes, pc[e] \in Working
    PROVE  run.status \in {"SEARCHING", "SOURCES_DISCOVERED", "EXTRACTING", "CANCELLED"}
<1>1. At(e)
  BY DEF IInv
<1>2. Fresh(e) => run.status = IF pc[e] = "conclude" THEN "EXTRACTING" ELSE local[e].status
  BY <1>1 DEF At, FreshAt, Copying
<1>3. pc[e] # "conclude" => local[e].status \in {"SEARCHING", "SOURCES_DISCOVERED", "EXTRACTING"}
  BY <1>1 DEF At, StatusAt, Working
<1> QED
  BY <1>1, <1>2, <1>3 DEF At, WorkAt

\* The operation a process is at.
LEMMA CurrentOperation ==
    ASSUME IInv, NEW e \in Processes,
           AtOperation(e) \/ pc[e] \in {"egress", "call", "refused"}
    PROVE  /\ pc[e] \in Working /\ pc[e] # "conclude"
           /\ Current(e) \in Operations
           /\ \/ local[e].status = "SEARCHING" /\ Current(e) = Search
              \/ /\ local[e].status = "EXTRACTING"
                 /\ Current(e) \in todo[e] /\ Current(e) \in Sources /\ Current(e) # Search
                 /\ Current(e) \notin Snapshots(local[e])
                 /\ todo[e] \cap Snapshots(local[e]) = {}
<1>1. StatusAt(e) /\ todo[e] \in SUBSET Sources
  BY DEF IInv, At, TypeOK
<1>2. pc[e] \in {"search", "extract", "egress", "call", "refused"}
  BY DEF AtOperation
<1>3. pc[e] \in Working /\ pc[e] # "conclude"
  BY <1>2 DEF Working
<1>4. CASE local[e].status = "SEARCHING"
  BY <1>3, <1>4 DEF Current, Operations
<1>5. CASE local[e].status # "SEARCHING"
  <2>1. /\ local[e].status = "EXTRACTING" /\ todo[e] # {} /\ pc[e] # "search"
        /\ todo[e] \cap Snapshots(local[e]) = {}
    BY <1>1, <1>2, <1>5 DEF StatusAt, AtOperation
  <2>2. todo[e] \in SUBSET Nat /\ 0 \notin Sources
    BY <1>1, PolicyAssumption DEF Sources
  <2>3. Current(e) \in todo[e]
    BY <1>5, <2>1, <2>2, MinIsMember DEF Current
  <2> QED
    BY <1>1, <1>3, <2>1, <2>2, <2>3 DEF Operations, Search
<1> QED
  BY <1>4, <1>5

\* A step on the copy of a working process that appends no event.
LEMMA WorkKeeps ==
    ASSUME IInv, NEW e \in Processes, pc[e] \in Working, pc[e] # "conclude",
           NEW a \in Run, SameStory(a, local[e]), SourcesSound(a),
           NEW S \in SUBSET Sources, NEW step \in {"extract", "egress"},
           Goto(e, step), local' = [local EXCEPT ![e] = a], todo' = [todo EXCEPT ![e] = S],
           handoff_failed' \in [Processes -> BOOLEAN],
           \A f \in Processes : f # e => handoff_failed'[f] = handoff_failed[f],
           used_units' \in Nat,
           UNCHANGED <<run, ledger, documentVars, operation, halted, starts, provider_calls>>,
           \A o \in Operations : local[e].attempts[o] <= a.attempts[o],
           step = "extract" => a.status = "EXTRACTING",
           step = "egress" =>
             /\ a.status = "SEARCHING" \/ (a.status = "EXTRACTING" /\ S # {})
             /\ S = todo[e] /\ Current(e) \in Operations
             /\ local[e].attempts[Current(e)] < a.attempts[Current(e)],
           a.status = "EXTRACTING" => S \cap Snapshots(a) = {}
    PROVE  IInv'
<1>1. /\ TypeOK /\ Memory(e) /\ At(e) /\ local[e] \in Run
      /\ UNCHANGED <<run, ledger, document, attached, flagged, handoffs, operation, starts, provider_calls>>
  BY DEF IInv, TypeOK, documentVars
<1>2. /\ pc'[e] \in {step, "stopped"} /\ local'[e] = a /\ todo'[e] = S
      /\ pc' = [pc EXCEPT ![e] = pc'[e]] /\ local' = [local EXCEPT ![e] = local'[e]]
      /\ todo' = [todo EXCEPT ![e] = todo'[e]]
      /\ operation' = [operation EXCEPT ![e] = operation'[e]] /\ operation'[e] \in Nat
  BY <1>1 DEF TypeOK, Goto
<1>3. halted' \in [Processes -> BOOLEAN] /\ starts' \in Nat /\ starts <= starts'
  BY <1>1 DEF TypeOK
<1>4. OnlyMoves(e)
  BY <1>2, <1>3 DEF OnlyMoves, Steps, Checked, Ended
<1>5. a.log = local[e].log /\ a.status = local[e].status /\ a.expected = local[e].expected
  BY DEF SameStory
<1>6. Numbered(e)'
  BY <1>1, <1>2, <1>5 DEF Memory, Numbered, Active, Steps, Checked, Ended, Working
<1>7. CopyOf(e)'
  BY <1>1, <1>2, <1>5 DEF Memory, CopyOf
<1>8. Sound(local[e])'
  <2>1. IsChain(local[e])'
    BY <1>1, <1>2, <1>5 DEF Memory, Sound, IsChain, IsMove
  <2>2. SourcesSound(local[e])'
    BY <1>2 DEF SourcesSound, Snapshots, Discovered, HasStatus
  <2> QED
    BY <1>1, <1>2, <1>5, <2>1, <2>2 DEF Memory, Sound
<1>9. StatusAt(e)' /\ ConcludeAt(e)'
  BY <1>2 DEF StatusAt, ConcludeAt
<1>10. Fresh(e)' <=> Fresh(e)
  BY <1>1, <1>2, <1>5 DEF Fresh, Accepts
<1>11. WorkAt(e)'
  BY <1>1, <1>10 DEF At, WorkAt
<1>12. FreshAt(e)'
  <2>1. SUFFICES ASSUME pc'[e] \in Copying, Fresh(e)' PROVE FreshAt(e)'
    BY DEF FreshAt
  <2>2. pc'[e] = step
    BY <1>2, <2>1 DEF Copying, Working
  <2>3. run.status = local[e].status /\ \A o \in Operations : provider_calls[o] <= local[e].attempts[o]
    BY <1>1, <1>10, <2>1 DEF At, FreshAt, Copying
  <2>4. \A o \in Operations : provider_calls[o] \in Nat /\ local[e].attempts[o] \in Nat /\ a.attempts[o] \in Nat
    BY <1>1 DEF TypeOK, Run
  <2>5. \A o \in Operations : provider_calls[o] <= a.attempts[o]
    BY <2>3, <2>4
  <2>6. step = "egress" => Current(e)' = Current(e) /\ provider_calls[Current(e)] < a.attempts[Current(e)]
    BY <1>2, <1>5, <2>3, <2>4 DEF Current
  <2> QED
    BY <1>1, <1>2, <1>5, <2>2, <2>3, <2>5, <2>6 DEF FreshAt
<1>13. operation'[e] \in {0, operation[e], starts + 1}
  BY <1>1
<1> QED
  BY <1>3, <1>4, <1>6, <1>7, <1>8, <1>9, <1>11, <1>12, <1>13, QuietStep DEF Memory, At

-----------------------------------------------------------------------------
(* The actions. *)

\* The transitions that the orchestrator asks for are in the table.
LEMMA TableMoves ==
    /\ {<<"CREATED", "SEARCHING">>, <<"FAILED", "SEARCHING">>, <<"FAILED", "EXTRACTING">>,
        <<"PARTIALLY_COMPLETED", "EXTRACTING">>, <<"SEARCHING", "SOURCES_DISCOVERED">>,
        <<"SOURCES_DISCOVERED", "EXTRACTING">>, <<"SEARCHING", "FAILED">>,
        <<"EXTRACTING", "FAILED">>, <<"EXTRACTING", "PARTIALLY_COMPLETED">>,
        <<"EXTRACTING", "EVIDENCE_COMPILED">>, <<"EVIDENCE_COMPILED", "PARTIALLY_COMPLETED">>,
        <<"EVIDENCE_COMPILED", "COMPLETED">>} \subseteq L!Moves
    /\ \A s \in L!Cancellable : <<s, "CANCELLED">> \in L!Moves
    /\ L!ResearchStatus = {"CREATED", "SEARCHING", "SOURCES_DISCOVERED", "EXTRACTING",
                           "EVIDENCE_COMPILED", "COMPLETED", "PARTIALLY_COMPLETED",
                           "FAILED", "CANCELLED"}
BY DEF L!Moves, L!Allowed, L!Retry, L!Cancellable, L!ResearchStatus

\* The facts about a process at work that its saves need.
LEMMA WorkerFacts ==
    ASSUME IInv, NEW e \in Processes
    PROVE  /\ TypeOK /\ local[e] \in Run /\ operation[e] \in Nat
           /\ local[e].status \in L!ResearchStatus
           /\ IsChain(local[e]) /\ SourcesSound(local[e]) /\ local[e].expected <= document
           /\ pc[e] \in Working => \A f \in Processes : pc[f] \in Working => f = e
BY DEF IInv, TypeOK, Memory, Sound, SingleExecutor, Run

\* A transition of the unchanged copy is sound.
LEMMA SoundTransition ==
    ASSUME IInv, NEW e \in Processes, NEW t \in L!ResearchStatus,
           <<local[e].status, t>> \in L!Moves,
           t \in {"CREATED", "SEARCHING"} => ~Discovered(local[e]),
           t \in {"EVIDENCE_COMPILED", "PARTIALLY_COMPLETED"} => Discovered(local[e])
    PROVE  Sound(AppendEvent(e, local[e], t))
BY WorkerFacts, SoundAppend DEF SourcesSound

\* The copy of a process with a source that is not extracted.
LEMMA MarkedSound ==
    ASSUME NEW r \in Run, SourcesSound(r), NEW s \in Sources, s \notin Snapshots(r),
           NEW v \in SourceStatus \ {"NONE", "EXTRACTED", "REVIEW_REQUIRED"},
           r.status \notin {"CREATED", "SEARCHING"}
    PROVE  SourcesSound(Marked(r, s, v)) /\ Snapshots(Marked(r, s, v)) = Snapshots(r)
<1> DEFINE a == Marked(r, s, v)
<1>1. /\ a.status = r.status /\ a.attempts = r.attempts /\ a.usable = r.usable
      /\ a.sources = [r.sources EXCEPT ![s] = v]
  BY MarkedFacts DEF SameStory
<1>2. r.sources \in [Sources -> SourceStatus]
  BY DEF Run
<1> HIDE DEF a
<1>3. a.sources[s] = v /\ \A u \in Sources : u # s => a.sources[u] = r.sources[u]
  BY <1>1, <1>2
<1>4. Snapshots(a) = Snapshots(r)
  BY <1>3 DEF Snapshots
<1>5. Discovered(a)
  BY <1>3 DEF Discovered, HasStatus
<1>6. SourcesSound(a)
  BY <1>1, <1>4, <1>5 DEF SourcesSound
<1> QED
  BY <1>4, <1>6 DEF a

\* _fail_run: the search gave up.
LEMMA FailRunKeeps ==
    ASSUME IInv, NEW e \in Processes, pc[e] \in Working,
           local[e].status \in {"SEARCHING", "EXTRACTING"},
           Save(e, AppendEvent(e, local[e], "FAILED"), "returned"),
           UNCHANGED <<used_units, documentVars, todo, handoff_failed,
                       operation, halted, starts, provider_calls>>
    PROVE  IInv'
<1>1. "FAILED" \in L!ResearchStatus /\ <<local[e].status, "FAILED">> \in L!Moves
  BY TableMoves
<1>2. Sound(AppendEvent(e, local[e], "FAILED"))
  BY <1>1, SoundTransition
<1>3. pc[e] \in Copying /\ local[e] \in Run
  BY WorkerFacts DEF Copying
<1>4. \A f \in Processes : pc[f] \in Working /\ f # e => FALSE
  BY WorkerFacts
<1> QED
  BY <1>1, <1>2, <1>3, <1>4, SaveKeeps

\* An operation that is given up fails the run or leaves a citation.
LEMMA GiveUpKeeps ==
    ASSUME IInv, NEW e \in Processes, AtOperation(e) \/ pc[e] \in {"call", "refused"},
           GiveUp(e), UNCHANGED <<used_units, documentVars, handoff_failed, operation,
                                  halted, starts, provider_calls>>
    PROVE  IInv'
<1>1. /\ pc[e] \in Working /\ pc[e] # "conclude"
      /\ \/ local[e].status = "SEARCHING" /\ Current(e) = Search
         \/ /\ local[e].status = "EXTRACTING"
            /\ Current(e) \in todo[e] /\ Current(e) \in Sources /\ Current(e) # Search
            /\ Current(e) \notin Snapshots(local[e])
            /\ todo[e] \cap Snapshots(local[e]) = {}
  BY CurrentOperation
<1>2. CASE Current(e) = Search
  BY <1>1, <1>2, FailRunKeeps DEF GiveUp, FailRun
<1>3. CASE Current(e) # Search
  <2> DEFINE s == Current(e)
             a == Marked(local[e], s, "CITATION_ONLY")
             S == todo[e] \ {s}
  <2>1. local[e] \in Run /\ SourcesSound(local[e]) /\ todo[e] \in SUBSET Sources
    BY WorkerFacts DEF TypeOK
  <2>2. a \in Run /\ SameStory(a, local[e]) /\ a.attempts = local[e].attempts
    BY <1>1, <1>3, <2>1, MarkedFacts DEF SourceStatus
  <2>3. SourcesSound(a) /\ Snapshots(a) = Snapshots(local[e])
    BY <1>1, <1>3, <2>1, MarkedSound DEF SourceStatus
  <2>4. /\ Goto(e, "extract") /\ local' = [local EXCEPT ![e] = a] /\ todo' = [todo EXCEPT ![e] = S]
        /\ UNCHANGED <<run, ledger>>
    BY <1>3 DEF GiveUp, CitationOnly
  <2>5. S \in SUBSET Sources /\ S \cap Snapshots(a) = {}
    BY <1>1, <1>3, <2>1, <2>3
  <2> HIDE DEF s, S, a
  <2>6. /\ handoff_failed' \in [Processes -> BOOLEAN] /\ used_units' \in Nat
        /\ \A f \in Processes : f # e => handoff_failed'[f] = handoff_failed[f]
    BY WorkerFacts DEF TypeOK
  <2>7. a.status = "EXTRACTING" /\ \A o \in Operations : local[e].attempts[o] <= a.attempts[o]
    BY <1>1, <1>3, <2>1, <2>2 DEF SameStory, Run
  <2> QED
    BY <1>1, <2>2, <2>3, <2>4, <2>5, <2>6, <2>7, WorkKeeps
<1> QED
  BY <1>2, <1>3

\* cancel() reads the run.
LEMMA StartCancelKeeps ==
    ASSUME IInv, NEW c \in Processes, StartCancel(c)
    PROVE  IInv'
<1>1. /\ Start(c) /\ run.status \in L!Cancellable /\ pc' = [pc EXCEPT ![c] = "cancel"]
      /\ local' = [local EXCEPT ![c] = run] /\ UNCHANGED halted
  BY DEF StartCancel, MayCancel
<1>2. TypeOK /\ run \in Run /\ local \in [Processes -> Run] /\ pc \in [Processes -> Steps]
  BY DEF IInv, TypeOK
<1>3. /\ pc'[c] = "cancel" /\ pc' = [pc EXCEPT ![c] = pc'[c]]
      /\ local'[c] = run /\ local' = [local EXCEPT ![c] = local'[c]]
  BY <1>1, <1>2
<1>4. pc'[c] \in Steps
  BY <1>3 DEF Steps
<1>5. /\ OnlyMoves(c) /\ UNCHANGED <<run, ledger, provider_calls, documentVars, used_units>>
      /\ starts \in Nat /\ starts' = starts + 1 /\ operation'[c] = starts + 1
  BY <1>1, <1>2, <1>3, <1>4, StartMoves
<1> QED
  BY <1>1, <1>3, <1>5, LoadKeeps DEF Ended

\* cancel() saves what it read, with one more event.
LEMMA CancelRunKeeps ==
    ASSUME IInv, NEW c \in Processes, CancelRun(c)
    PROVE  IInv'
<1>1. /\ pc[c] = "cancel" /\ Save(c, AppendEvent(c, local[c], "CANCELLED"), "returned")
      /\ UNCHANGED <<used_units, documentVars, todo, handoff_failed,
                     operation, halted, starts, provider_calls>>
  BY DEF CancelRun
<1>2. local[c].status \in L!Cancellable
  BY <1>1 DEF IInv, At, StatusAt
<1>3. "CANCELLED" \in L!ResearchStatus /\ <<local[c].status, "CANCELLED">> \in L!Moves
  BY <1>2, TableMoves
<1>4. Sound(AppendEvent(c, local[c], "CANCELLED"))
  BY <1>3, SoundTransition
<1>5. pc[c] \in Copying /\ local[c] \in Run
  BY <1>1, WorkerFacts DEF Copying
<1> QED
  BY <1>1, <1>3, <1>4, <1>5, SaveKeeps

\* What Prepare and ValidateRetry have in common: the process reads the run.
LEMMA ReadKeeps ==
    ASSUME IInv, NEW e \in Processes, pc[e] \in {"execute", "retry"},
           NEW step \in {"begin", "resume", "returned", "stopped"},
           pc' = [pc EXCEPT ![e] = step], local' = [local EXCEPT ![e] = run],
           step = "begin" => run.status = "CREATED",
           step = "resume" => run.status \in {"FAILED", "PARTIALLY_COMPLETED"},
           UNCHANGED <<dbVars, todo, handoff_failed, operation, halted, starts, provider_calls>>
    PROVE  IInv'
<1>1. TypeOK /\ run \in Run /\ Memory(e)
  BY DEF IInv, TypeOK
<1>2. /\ pc'[e] = step /\ pc' = [pc EXCEPT ![e] = pc'[e]]
      /\ local'[e] = run /\ local' = [local EXCEPT ![e] = local'[e]]
      /\ todo' = [todo EXCEPT ![e] = todo'[e]] /\ todo'[e] \in SUBSET Sources
      /\ operation'[e] = operation[e] /\ operation'[e] \in Nat
      /\ operation' = [operation EXCEPT ![e] = operation'[e]]
  BY <1>1 DEF TypeOK
<1>3. OnlyMoves(e)
  BY <1>1, <1>2 DEF TypeOK, OnlyMoves, Steps, Checked, Ended
<1>4. operation[e] # 0 /\ operation[e] <= starts
  BY <1>1 DEF Memory, Numbered, Active, Steps, Checked, Ended
<1>5. /\ UNCHANGED <<run, ledger, provider_calls, documentVars, used_units>>
      /\ starts' \in Nat /\ starts <= starts' /\ operation'[e] <= starts'
  BY <1>1, <1>2, <1>4 DEF dbVars, TypeOK
<1> QED
  BY <1>2, <1>3, <1>4, <1>5, LoadKeeps DEF Ended

\* execute() reads the run.
LEMMA PrepareKeeps ==
    ASSUME IInv, NEW w \in Processes, Prepare(w)
    PROVE  IInv'
<1> DEFINE step == IF run.log = << >> /\ run.status = "CREATED" THEN "begin" ELSE "returned"
           next == IF step \in Checked /\ halted[w] THEN "stopped" ELSE step
<1>1. next \in {"begin", "resume", "returned", "stopped"} /\ (next = "begin" => run.status = "CREATED")
  OBVIOUS
<1>2. pc' = [pc EXCEPT ![w] = next]
  BY DEF Prepare, Goto
<1> HIDE DEF next
<1>3. next # "resume"
  BY DEF next
<1> QED
  BY <1>1, <1>2, <1>3, ReadKeeps DEF Prepare

\* retry() reads the run.
LEMMA ValidateRetryKeeps ==
    ASSUME IInv, NEW e \in Processes, ValidateRetry(e)
    PROVE  IInv'
BY ReadKeeps DEF ValidateRetry, Retryable

\* The process goes on or ends, and its copy stays as it is.
LEMMA PauseKeeps ==
    ASSUME IInv, NEW e \in Processes, NEW step \in Ended,
           pc' = [pc EXCEPT ![e] = step], UNCHANGED <<dbVars, local, todo, handoff_failed,
           operation, halted, starts, provider_calls>>
    PROVE  IInv'
<1>1. TypeOK /\ Memory(e)
  BY DEF IInv
<1>2. /\ pc'[e] = step /\ pc' = [pc EXCEPT ![e] = pc'[e]]
      /\ local'[e] \in Run /\ local' = [local EXCEPT ![e] = local'[e]]
      /\ todo' = [todo EXCEPT ![e] = todo'[e]] /\ todo'[e] \in SUBSET Sources
      /\ operation'[e] = operation[e] /\ operation'[e] \in Nat
      /\ operation' = [operation EXCEPT ![e] = operation'[e]]
  BY <1>1 DEF TypeOK
<1>3. OnlyMoves(e)
  BY <1>1, <1>2 DEF TypeOK, OnlyMoves, Steps, Ended
<1>4. Numbered(e)' /\ CopyOf(e)'
  BY <1>1, <1>2 DEF Memory, Numbered, CopyOf, Active, Ended, dbVars
<1>5. Sound(local[e])'
  BY <1>1 DEF Memory, Sound, dbVars, documentVars, IsChain, SourcesSound, IsMove, Snapshots, Discovered,
     HasStatus
<1>6. At(e)' /\ pc'[e] \notin Working
  BY <1>2, NothingAt DEF Copying, Working, Ended
<1>7. /\ UNCHANGED <<run, ledger, provider_calls, documentVars>> /\ used_units' \in Nat
      /\ starts' \in Nat /\ starts <= starts'
  BY <1>1 DEF dbVars, TypeOK
<1> QED
  BY <1>2, <1>3, <1>4, <1>5, <1>6, <1>7, QuietStep DEF Memory

\* The first save.  While another process works, the status of the row is not
\* one from which to begin, so this one's copy is stale and its save fails.
LEMMA BeginKeeps ==
    ASSUME IInv, NEW e \in Processes, Begin(e)
    PROVE  IInv'
<1>1. /\ pc[e] \in {"begin", "resume"}
      /\ UNCHANGED <<used_units, documentVars, todo, handoff_failed,
                     operation, halted, starts, provider_calls>>
  BY DEF Begin
<1>2. pc[e] \in Copying /\ local[e] \in Run /\ SourcesSound(local[e])
  BY <1>1, WorkerFacts DEF Copying
<1>3. /\ local[e].status \in {"CREATED", "FAILED", "PARTIALLY_COMPLETED"}
      /\ local[e].status = "CREATED" => ~Discovered(local[e])
      /\ local[e].status = "PARTIALLY_COMPLETED" => Discovered(local[e])
  BY <1>1, <1>2 DEF IInv, At, StatusAt, SourcesSound
<1>4. Fresh(e) => \A f \in Processes : pc[f] \notin Working
  BY <1>1, <1>2, <1>3, WorkingStatus DEF IInv, At, FreshAt
<1>5. CASE Discovered(local[e])
  <2>1. Save(e, AppendEvent(e, local[e], "EXTRACTING"), "reselect")
    BY <1>5 DEF Begin
  <2>2. "EXTRACTING" \in L!ResearchStatus /\ <<local[e].status, "EXTRACTING">> \in L!Moves
    BY <1>3, <1>5, TableMoves
  <2>3. Sound(AppendEvent(e, local[e], "EXTRACTING"))
    BY <2>2, SoundTransition
  <2> QED
    BY <1>1, <1>2, <1>4, <2>1, <2>2, <2>3, SaveKeeps DEF AfterSave
<1>6. CASE ~Discovered(local[e])
  <2>1. Save(e, AppendEvent(e, local[e], "SEARCHING"), "search")
    BY <1>6 DEF Begin
  <2>2. "SEARCHING" \in L!ResearchStatus /\ <<local[e].status, "SEARCHING">> \in L!Moves
    BY <1>3, <1>6, TableMoves
  <2>3. Sound(AppendEvent(e, local[e], "SEARCHING"))
    BY <1>6, <2>2, SoundTransition
  <2> QED
    BY <1>1, <1>2, <1>4, <2>1, <2>2, <2>3, SaveKeeps DEF AfterSave
<1> QED
  BY <1>5, <1>6

\* _reserve: one more attempt in the copy, ahead of the request.
LEMMA ReserveKeeps ==
    ASSUME IInv, NEW e \in Processes, Reserve(e)
    PROVE  IInv'
<1> DEFINE o == Current(e)
           r == local[e]
           a == Attempted(r, o)
<1>1. /\ AtOperation(e) /\ r.attempts[o] < max_attempts_per_operation /\ used_units' = used_units + 1
      /\ local' = [local EXCEPT ![e] = a] /\ Goto(e, "egress")
      /\ UNCHANGED <<run, ledger, documentVars, todo, handoff_failed,
                     operation, halted, starts, provider_calls>>
  BY DEF Reserve, CanAttempt, reserve_budget
<1>2. /\ pc[e] \in Working /\ pc[e] # "conclude" /\ o \in Operations
      /\ \/ r.status = "SEARCHING" /\ o = Search
         \/ /\ r.status = "EXTRACTING" /\ o \in todo[e] /\ o \in Sources /\ o # Search
            /\ o \notin Snapshots(r) /\ todo[e] \cap Snapshots(r) = {}
  BY <1>1, CurrentOperation
<1>3. r \in Run /\ SourcesSound(r) /\ TypeOK
  BY WorkerFacts
<1> HIDE DEF o, r
<1>4. /\ a \in Run /\ SameStory(a, r) /\ a.usable = r.usable
      /\ a.attempts = [r.attempts EXCEPT ![o] = r.attempts[o] + 1]
      /\ o = Search => a.sources = r.sources
      /\ o # Search => a.sources = [r.sources EXCEPT ![o] = "SELECTED"]
  BY <1>2, <1>3, AttemptedFacts
<1>5. r.attempts \in [Operations -> Nat] /\ r.sources \in [Sources -> SourceStatus]
  BY <1>3 DEF Run
<1> HIDE DEF a
<1>6. /\ \A q \in Operations : r.attempts[q] <= a.attempts[q] /\ a.attempts[q] <= max_attempts_per_operation
      /\ r.attempts[o] < a.attempts[o]
  BY <1>1, <1>2, <1>3, <1>4, <1>5, PolicyAssumption DEF SourcesSound
<1>7. Snapshots(a) = Snapshots(r)
  BY <1>2, <1>4, <1>5 DEF Snapshots
<1>8. a.status = r.status /\ (o = Search => (Discovered(a) <=> Discovered(r)))
  BY <1>4 DEF SameStory, Discovered, HasStatus
<1>9. SourcesSound(a)
  BY <1>2, <1>3, <1>4, <1>6, <1>7, <1>8 DEF SourcesSound
<1>10. /\ todo' = [todo EXCEPT ![e] = todo[e]] /\ todo[e] \in SUBSET Sources
       /\ handoff_failed' \in [Processes -> BOOLEAN] /\ used_units' \in Nat
       /\ \A f \in Processes : f # e => handoff_failed'[f] = handoff_failed[f]
  BY <1>1, <1>3 DEF TypeOK
<1>11. a.status = "SEARCHING" \/ (a.status = "EXTRACTING" /\ todo[e] # {})
  BY <1>2, <1>8
<1>12. a.status = "EXTRACTING" => todo[e] \cap Snapshots(a) = {}
  BY <1>2, <1>7, <1>8
<1> QED
  BY <1>1, <1>2, <1>4, <1>6, <1>9, <1>10, <1>11, <1>12, WorkKeeps DEF o, r

\* The decision of the egress guard.  A copy whose save is refused is stale,
\* and only a cancellation can have made it so.
LEMMA AuthorizeKeeps ==
    ASSUME IInv, NEW e \in Processes, Authorize(e)
    PROVE  IInv'
<1> DEFINE s == local[e]
           r == AppendEvent(e, s, s.status)
<1>1. /\ pc[e] = "egress" /\ local' = [local EXCEPT ![e] = r]
      /\ UNCHANGED <<used_units, documentVars, todo, handoff_failed, operation, halted, starts>>
  BY DEF Authorize
<1>2. /\ pc[e] \in Working /\ pc[e] # "conclude" /\ Current(e) \in Operations
      /\ \/ s.status = "SEARCHING"
         \/ s.status = "EXTRACTING" /\ todo[e] # {} /\ todo[e] \cap Snapshots(s) = {}
  BY <1>1, CurrentOperation
<1>3. /\ s \in Run /\ operation[e] \in Nat /\ s.status \in L!ResearchStatus
      /\ IsChain(s) /\ SourcesSound(s) /\ s.expected <= document
      /\ \A f \in Processes : pc[f] \in Working => f = e
  BY <1>2, WorkerFacts
<1>4. Sound(r)
  BY <1>2, <1>3, SoundAppend DEF SourcesSound
<1>5. r \in Run /\ ExtendsCopy(e, r.log)
  BY <1>3, AppendExtends DEF IInv
<1>6. r.status = s.status /\ r.attempts = s.attempts /\ r.sources = s.sources
  BY <1>3, AppendFacts
<1>7. \/ /\ Accepts(r.log) /\ Store(r) /\ Goto(e, "call")
         /\ provider_calls' = [provider_calls EXCEPT ![Current(e)] = @ + 1]
      \/ Accepts(r.log) /\ Store(r) /\ Goto(e, "refused") /\ UNCHANGED provider_calls
      \/ ~Accepts(r.log) /\ UNCHANGED <<run, ledger>> /\ Goto(e, "refused") /\ UNCHANGED provider_calls
  BY DEF Authorize
<1> HIDE DEF r
<1>8. /\ TypeOK /\ Memory(e) /\ At(e) /\ CopyOf(e) /\ operation[e] # 0 /\ ledger \in Seq(Event)
      /\ provider_calls \in [Operations -> Nat] /\ UNCHANGED <<document, attached, flagged, handoffs>>
  BY <1>1, <1>2 DEF IInv, Memory, Numbered, TypeOK, documentVars, Active, Working, Steps, Checked, Ended
<1>9. /\ pc'[e] \in {"call", "refused", "stopped"} /\ pc' = [pc EXCEPT ![e] = pc'[e]]
      /\ local'[e] = r /\ local' = [local EXCEPT ![e] = local'[e]]
  <2>1. pc \in [Processes -> Steps] /\ local \in [Processes -> Run]
    BY <1>8 DEF TypeOK
  <2>2. local'[e] = r /\ local' = [local EXCEPT ![e] = local'[e]]
    BY <1>1, <2>1
  <2>3. Goto(e, "call") \/ Goto(e, "refused")
    BY <1>7
  <2> QED
    BY <2>1, <2>2, <2>3 DEF Goto
<1>10. OnlyMoves(e)
  <2>1. /\ todo' = [todo EXCEPT ![e] = todo'[e]] /\ todo'[e] \in SUBSET Sources
        /\ operation' = [operation EXCEPT ![e] = operation'[e]] /\ operation'[e] \in Nat
        /\ halted' \in [Processes -> BOOLEAN] /\ handoff_failed' \in [Processes -> BOOLEAN]
        /\ \A f \in Processes : f # e => handoff_failed'[f] = handoff_failed[f]
    BY <1>1, <1>8 DEF TypeOK
  <2> QED
    BY <1>5, <1>9, <2>1 DEF OnlyMoves, Steps, Checked, Ended
<1>11. StatusAt(e)'
  <2>1. local'[e].status = s.status /\ Snapshots(local'[e]) = Snapshots(s) /\ todo'[e] = todo[e]
    BY <1>1, <1>6, <1>9 DEF Snapshots
  <2> QED
    BY <1>2, <1>9, <2>1 DEF StatusAt, Snapshots
<1>12. CASE Accepts(r.log) /\ Store(r) /\
            (UNCHANGED provider_calls \/ provider_calls' = [provider_calls EXCEPT ![Current(e)] = @ + 1])
  <2>1. Fresh(e)
    BY <1>5, <1>8, <1>12, AcceptedIsFresh
  <2>2. /\ \A o \in Operations : provider_calls[o] <= s.attempts[o]
        /\ provider_calls[Current(e)] < s.attempts[Current(e)]
    BY <1>1, <1>8, <2>1 DEF At, FreshAt, Copying, Working
  <2>3. s.attempts \in [Operations -> Nat]
    BY <1>3 DEF Run
  <2>4. provider_calls' \in [Operations -> Nat] /\ \A o \in Operations : provider_calls'[o] <= r.attempts[o]
    <3> DEFINE c == Current(e)
    <3>1. /\ c \in Operations /\ \A o \in Operations : provider_calls[o] <= s.attempts[o]
          /\ provider_calls[c] < s.attempts[c]
      BY <1>2, <2>2
    <3>2. UNCHANGED provider_calls \/ provider_calls' = [provider_calls EXCEPT ![c] = @ + 1]
      BY <1>12
    <3> DEFINE attempts == s.attempts
    <3>3. /\ attempts \in [Operations -> Nat] /\ r.attempts = attempts
          /\ \A o \in Operations : provider_calls[o] <= attempts[o]
          /\ provider_calls[c] < attempts[c]
      BY <1>6, <2>3, <3>1
    <3>4. provider_calls \in [Operations -> Nat] /\ c \in Operations
      BY <1>8, <3>1
    <3> HIDE DEF s, c, attempts
    <3>5. CASE UNCHANGED provider_calls
      BY <3>3, <3>4, <3>5
    <3>6. CASE provider_calls' = [provider_calls EXCEPT ![c] = @ + 1]
      <4>1. provider_calls' \in [Operations -> Nat]
        BY <3>4, <3>6
      <4>2. ASSUME NEW o \in Operations PROVE provider_calls'[o] <= attempts[o]
        BY <3>3, <3>4, <3>6
      <4> QED
        BY <3>3, <4>1, <4>2
    <3> QED
      BY <3>2, <3>5, <3>6
  <2>5. pc'[e] \notin {"idle", "begin", "resume", "cancel", "egress", "conclude"} /\ pc[e] \in Copying
    BY <1>1, <1>9 DEF Copying, Working
  <2>6. r.status \notin {"COMPLETED", "PARTIALLY_COMPLETED"}
    BY <1>2, <1>6
  <2>7. UNCHANGED <<used_units, documentVars, operation, starts>>
    BY <1>1
  <2>8. \A f \in Processes : pc[f] \in Working /\ f # e
               => r.status = "CANCELLED" /\ pc'[e] \notin Working
    BY <1>3
  <2> HIDE DEF s
  <2> QED
    BY <1>4, <1>5, <1>9, <1>10, <1>11, <1>12, <2>4, <2>5, <2>6, <2>7, <2>8, SaveStep
<1>13. CASE ~Accepts(r.log) /\ UNCHANGED <<run, ledger, provider_calls>>
  <2>1. ~Fresh(e)
    BY <1>5, <1>8, <1>13, AcceptedIsFresh
  <2>2. run.status = "CANCELLED"
    BY <1>2, <1>8, <2>1 DEF At, WorkAt
  <2>3. ~Fresh(e)'
    BY <1>9, <1>13 DEF Fresh, Accepts
  <2>4. At(e)'
    BY <1>9, <1>11, <1>13, <2>2, <2>3 DEF At, ConcludeAt, FreshAt, WorkAt
  <2>5. Numbered(e)'
    BY <1>1, <1>8, <1>9 DEF Memory, Numbered
  <2>6. CopyOf(e)'
    <3>1. /\ \A i \in 1..Len(r.log) : \/ i \in 1..Len(ledger) /\ r.log[i] = ledger[i]
                                      \/ r.log[i].by = operation[e]
          /\ \A i \in 1..Len(ledger) : ledger[i].by = operation[e] => i <= Len(r.log)
      BY <1>5, <1>8, ExtendedCopy
    <3> QED
      BY <1>1, <1>9, <1>13, <3>1 DEF CopyOf
  <2>7. Sound(local[e])'
    BY <1>4, <1>8, <1>9 DEF Sound, IsChain, SourcesSound, IsMove, Snapshots, Discovered, HasStatus
  <2>8. /\ used_units' \in Nat /\ starts' \in Nat /\ starts <= starts'
        /\ operation'[e] \in {0, operation[e], starts + 1}
        /\ UNCHANGED <<run, ledger, provider_calls, documentVars>>
    BY <1>1, <1>8, <1>13 DEF TypeOK
  <2> QED
    BY <1>2, <1>10, <2>4, <2>5, <2>6, <2>7, <2>8, QuietStep DEF Memory
<1> QED
  BY <1>7, <1>12, <1>13

\* _store_discovery saves what the search returned.
LEMMA SearchReturnsKeeps ==
    ASSUME IInv, NEW e \in Processes, SearchReturns(e)
    PROVE  IInv'
<1>1. /\ pc[e] = "call" /\ Current(e) = Search
      /\ UNCHANGED <<used_units, documentVars, todo, handoff_failed,
                     operation, halted, starts, provider_calls>>
  BY DEF SearchReturns
<1>2. PICK found \in [Sources -> {"NONE", "DISCOVERED", "BLOCKED"}] :
        Save(e, AppendEvent(e, [local[e] EXCEPT !.sources = found], "SOURCES_DISCOVERED"), "discovered")
  BY DEF SearchReturns
<1>3. found \in [Sources -> SourceStatus]
  BY DEF SourceStatus
<1> DEFINE s == [local[e] EXCEPT !.sources = found]
<1>4. /\ local[e] \in Run /\ operation[e] \in Nat /\ IsChain(local[e]) /\ SourcesSound(local[e])
      /\ local[e].expected <= document
  BY WorkerFacts
<1>5. local[e].status = "SEARCHING" /\ pc[e] \in Working
  BY <1>1, CurrentOperation
<1>6. /\ s \in Run /\ SameStory(s, local[e]) /\ s.attempts = local[e].attempts
      /\ s.usable = local[e].usable
  BY <1>3, <1>4, FoundFacts
<1>7. Save(e, AppendEvent(e, s, "SOURCES_DISCOVERED"), "discovered")
  BY <1>2
<1> HIDE DEF s
<1>8. s.usable = {}
  BY <1>4, <1>5, <1>6 DEF SourcesSound, Snapshots, Discovered, HasStatus, SourceStatus
<1>9. IsChain(s) /\ s.status = "SEARCHING" /\ s.log = local[e].log /\ s.expected = local[e].expected
  BY <1>4, <1>5, <1>6 DEF SameStory, IsChain
<1>10. Sound(AppendEvent(e, s, "SOURCES_DISCOVERED"))
  <2>1. "SOURCES_DISCOVERED" \in L!ResearchStatus /\ <<s.status, "SOURCES_DISCOVERED">> \in L!Moves
    BY <1>9, TableMoves
  <2>2. s.expected <= document /\ s.usable \subseteq Snapshots(s)
    BY <1>4, <1>8, <1>9
  <2>3. \A o \in Operations : s.attempts[o] <= max_attempts_per_operation
    BY <1>4, <1>6 DEF SourcesSound
  <2> QED
    BY <1>4, <1>6, <1>9, <2>1, <2>2, <2>3, SoundAppend
<1>11. pc[e] \in Copying /\ \A f \in Processes : pc[f] \in Working /\ f # e => FALSE
  BY <1>5, WorkerFacts DEF Copying
<1> QED
  BY <1>1, <1>6, <1>7, <1>9, <1>10, <1>11, SaveKeeps, TableMoves DEF AfterSave

\* _start_extraction saves the transition.
LEMMA StartExtractionKeeps ==
    ASSUME IInv, NEW e \in Processes, StartExtraction(e)
    PROVE  IInv'
<1>1. /\ pc[e] = "discovered" /\ Save(e, AppendEvent(e, local[e], "EXTRACTING"), "select")
      /\ UNCHANGED <<used_units, documentVars, todo, handoff_failed,
                     operation, halted, starts, provider_calls>>
  BY DEF StartExtraction
<1>2. local[e].status = "SOURCES_DISCOVERED"
  BY <1>1 DEF IInv, At, StatusAt
<1>3. "EXTRACTING" \in L!ResearchStatus /\ <<local[e].status, "EXTRACTING">> \in L!Moves
  BY <1>2, TableMoves
<1>4. Sound(AppendEvent(e, local[e], "EXTRACTING"))
  BY <1>3, SoundTransition
<1>5. /\ pc[e] \in Copying /\ local[e] \in Run
      /\ \A f \in Processes : pc[f] \in Working /\ f # e => FALSE
  BY <1>1, WorkerFacts DEF Copying, Working
<1> QED
  BY <1>1, <1>3, <1>4, <1>5, SaveKeeps DEF AfterSave

\* The candidates have no snapshot yet.
LEMMA SelectSourcesKeeps ==
    ASSUME IInv, NEW e \in Processes, SelectSources(e)
    PROVE  IInv'
<1> DEFINE r == local[e]
<1>1. /\ Goto(e, "extract") /\ handoff_failed' = [handoff_failed EXCEPT ![e] = FALSE]
      /\ UNCHANGED <<dbVars, operation, halted, starts, provider_calls>>
      /\ pc[e] \in {"select", "reselect"}
  BY DEF SelectSources
<1>2. r.status = "EXTRACTING" /\ pc[e] \in Working /\ pc[e] # "conclude"
  BY <1>1 DEF IInv, At, StatusAt, Working
<1>3. r \in Run /\ SourcesSound(r) /\ TypeOK
  BY WorkerFacts
<1>4. /\ UNCHANGED <<run, ledger, documentVars>> /\ used_units' \in Nat
      /\ handoff_failed' \in [Processes -> BOOLEAN]
      /\ \A f \in Processes : f # e => handoff_failed'[f] = handoff_failed[f]
  BY <1>1, <1>3 DEF TypeOK, dbVars
<1>5. ASSUME NEW statuses PROVE Select(r, statuses) \in SUBSET {s \in Sources : r.sources[s] \in statuses}
  BY DEF Select
<1>6. \A o \in Operations : r.attempts[o] <= r.attempts[o]
  BY <1>3 DEF Run
<1>7. CASE pc[e] = "select"
  <2> DEFINE S == Select(r, {"DISCOVERED"})
             a == Skipped(r, S)
  <2>1. todo' = [todo EXCEPT ![e] = S] /\ local' = [local EXCEPT ![e] = a]
    BY <1>7 DEF SelectSources
  <2>2. S \in SUBSET {s \in Sources : r.sources[s] \in {"DISCOVERED"}}
    BY <1>5
  <2> HIDE DEF S, r
  <2>3. /\ a \in Run /\ SameStory(a, r) /\ a.attempts = r.attempts /\ a.usable = r.usable
        /\ \A s \in Sources : a.sources[s] =
             IF r.sources[s] = "DISCOVERED" /\ s \notin S THEN "SKIPPED_LIMIT" ELSE r.sources[s]
    BY <1>3, SkippedFacts
  <2> HIDE DEF a
  <2>4. Snapshots(a) = Snapshots(r) /\ S \cap Snapshots(a) = {} /\ S \in SUBSET Sources
    BY <2>2, <2>3 DEF Snapshots
  <2>5. a.status = "EXTRACTING" /\ SourcesSound(a)
    BY <1>2, <1>3, <2>3, <2>4 DEF SourcesSound, SameStory
  <2>6. \A o \in Operations : r.attempts[o] <= a.attempts[o]
    BY <1>6, <2>3
  <2> QED
    BY <1>1, <1>2, <1>4, <2>1, <2>3, <2>4, <2>5, <2>6, WorkKeeps DEF r
<1>8. CASE pc[e] = "reselect"
  <2> DEFINE S == Select(r, {"FAILED", "CITATION_ONLY"})
  <2>1. todo' = [todo EXCEPT ![e] = S] /\ UNCHANGED local
    BY <1>8 DEF SelectSources
  <2>2. S \in SUBSET {s \in Sources : r.sources[s] \in {"FAILED", "CITATION_ONLY"}}
    BY <1>5
  <2>3. local' = [local EXCEPT ![e] = r]
    BY <1>3, <2>1 DEF TypeOK
  <2> HIDE DEF S
  <2>4. S \cap Snapshots(r) = {} /\ S \in SUBSET Sources /\ SameStory(r, r)
    BY <2>2 DEF Snapshots, SameStory
  <2> QED
    BY <1>1, <1>2, <1>3, <1>4, <1>6, <2>1, <2>3, <2>4, WorkKeeps
<1> QED
  BY <1>1, <1>7, <1>8

\* A snapshot is added to the copy and its source is no candidate any more.
LEMMA TakeSnapshotKeeps ==
    ASSUME IInv, NEW e \in Processes, TakeSnapshot(e)
    PROVE  IInv'
<1> DEFINE r == local[e]
           s == Current(e)
           S == todo[e] \ {s}
<1>1. /\ \/ pc[e] = "call" /\ s # Search
         \/ pc[e] = "extract" /\ todo[e] # {}
      /\ todo' = [todo EXCEPT ![e] = S] /\ Goto(e, "extract")
      /\ UNCHANGED <<dbVars, handoff_failed, operation, halted, starts, provider_calls>>
  BY DEF TakeSnapshot
<1>2. pc[e] = "extract" => r.status = "EXTRACTING"
  BY DEF IInv, At, StatusAt
<1>3. /\ pc[e] \in Working /\ pc[e] # "conclude"
      /\ r.status = "EXTRACTING" /\ s \in todo[e] /\ s \in Sources
      /\ s \notin Snapshots(r) /\ todo[e] \cap Snapshots(r) = {}
  BY <1>1, <1>2, CurrentOperation DEF AtOperation
<1>4. r \in Run /\ SourcesSound(r) /\ TypeOK
  BY WorkerFacts
<1>5. /\ UNCHANGED <<run, ledger, documentVars>> /\ used_units' \in Nat
      /\ handoff_failed' \in [Processes -> BOOLEAN] /\ todo[e] \in SUBSET Sources
      /\ \A f \in Processes : f # e => handoff_failed'[f] = handoff_failed[f]
  BY <1>1, <1>4 DEF TypeOK, dbVars
<1>6. \A o \in Operations : r.attempts[o] <= r.attempts[o]
  BY <1>4 DEF Run
<1>7. ASSUME NEW a \in Run, SameStory(a, r), a.attempts = r.attempts, SourcesSound(a),
             S \cap Snapshots(a) = {}, local' = [local EXCEPT ![e] = a]
      PROVE  IInv'
  <2> DEFINE T == S
  <2>1. /\ T \in SUBSET Sources /\ a.status = "EXTRACTING" /\ todo' = [todo EXCEPT ![e] = T]
        /\ T \cap Snapshots(a) = {}
    BY <1>1, <1>3, <1>5, <1>7 DEF SameStory
  <2>2. \A o \in Operations : r.attempts[o] <= a.attempts[o]
    BY <1>6, <1>7
  <2> HIDE DEF S, T, s
  <2> QED
    BY <1>1, <1>3, <1>5, <1>7, <2>1, <2>2, WorkKeeps
<1>8. CASE local' = [local EXCEPT ![e] = Marked(r, s, "DUPLICATE_CONTENT")]
  <2> DEFINE a == Marked(r, s, "DUPLICATE_CONTENT")
  <2>1. a \in Run /\ SameStory(a, r) /\ a.attempts = r.attempts
    BY <1>3, <1>4, MarkedFacts DEF SourceStatus
  <2>2. SourcesSound(a) /\ Snapshots(a) = Snapshots(r)
    BY <1>3, <1>4, MarkedSound DEF SourceStatus
  <2>3. S \cap Snapshots(a) = {}
    BY <1>3, <2>2
  <2> HIDE DEF S
  <2> QED
    BY <1>7, <1>8, <2>1, <2>2, <2>3
<1>9. ASSUME NEW usable \in BOOLEAN, local' = [local EXCEPT ![e] = assess(r, s, usable)]
      PROVE  IInv'
  <2> DEFINE a == assess(r, s, usable)
  <2> HIDE DEF r, s
  <2>1. /\ a \in Run /\ SameStory(a, r) /\ a.attempts = r.attempts /\ a.usable \subseteq r.usable \cup {s}
        /\ a.sources[s] \in {"EXTRACTED", "REVIEW_REQUIRED"}
        /\ \A u \in Sources : u # s => a.sources[u] = r.sources[u]
    BY <1>3, <1>4, AssessFacts
  <2> HIDE DEF a
  <2>2. Snapshots(a) = Snapshots(r) \cup {s}
    BY <1>3, <2>1 DEF Snapshots
  <2>3. SourcesSound(a) /\ S \cap Snapshots(a) = {}
    BY <1>3, <1>4, <2>1, <2>2 DEF SourcesSound, SameStory
  <2>4. local' = [local EXCEPT ![e] = a]
    BY <1>9 DEF a
  <2> HIDE DEF S
  <2> QED
    BY <1>7, <2>1, <2>3, <2>4
<1>10. \/ local' = [local EXCEPT ![e] = Marked(r, s, "DUPLICATE_CONTENT")]
       \/ \E usable \in BOOLEAN : local' = [local EXCEPT ![e] = assess(r, s, usable)]
  BY DEF TakeSnapshot
<1> QED
  BY <1>8, <1>9, <1>10

\* An extraction without content ends partially or fails.
LEMMA NoContentKeeps ==
    ASSUME IInv, NEW e \in Processes, NoContent(e)
    PROVE  IInv'
<1>1. /\ pc[e] = "extract" /\ Snapshots(local[e]) = {}
      /\ UNCHANGED <<used_units, documentVars, todo, handoff_failed,
                     operation, halted, starts, provider_calls>>
  BY DEF NoContent, AtEnd
<1>2. local[e].status = "EXTRACTING" /\ pc[e] \in Working
  BY <1>1 DEF IInv, At, StatusAt, Working
<1>3. CASE HasStatus(local[e], {"CITATION_ONLY"})
  <2>1. Save(e, AppendEvent(e, local[e], "PARTIALLY_COMPLETED"), "returned")
    BY <1>3 DEF NoContent
  <2>2. Discovered(local[e])
    BY <1>3 DEF Discovered, HasStatus, SourceStatus
  <2>3. /\ "PARTIALLY_COMPLETED" \in L!ResearchStatus
        /\ <<local[e].status, "PARTIALLY_COMPLETED">> \in L!Moves
    BY <1>2, TableMoves
  <2>4. Sound(AppendEvent(e, local[e], "PARTIALLY_COMPLETED"))
    BY <2>2, <2>3, SoundTransition
  <2>5. Decided(local[e])
    BY <1>1, WorkerFacts DEF SourcesSound, Decided
  <2>6. /\ pc[e] \in Copying /\ local[e] \in Run
        /\ \A f \in Processes : pc[f] \in Working /\ f # e => FALSE
    BY <1>2, WorkerFacts DEF Copying
  <2> QED
    BY <1>1, <2>1, <2>3, <2>4, <2>5, <2>6, SaveKeeps
<1>4. CASE ~HasStatus(local[e], {"CITATION_ONLY"})
  BY <1>1, <1>2, <1>4, FailRunKeeps DEF NoContent
<1> QED
  BY <1>3, <1>4

\* The last save: by then the hand-off is decided.
LEMMA ConcludeKeeps ==
    ASSUME IInv, NEW e \in Processes, Conclude(e)
    PROVE  IInv'
<1> DEFINE t == IF Partial(e) THEN "PARTIALLY_COMPLETED" ELSE "COMPLETED"
<1>1. /\ pc[e] = "conclude" /\ Save(e, AppendEvent(e, local[e], t), "returned")
      /\ UNCHANGED <<used_units, documentVars, todo, handoff_failed,
                     operation, halted, starts, provider_calls>>
  BY DEF Conclude
<1>2. /\ t \in {"PARTIALLY_COMPLETED", "COMPLETED"}
      /\ t = "COMPLETED" => ~handoff_failed[e] /\ ~HasStatus(local[e], {"REVIEW_REQUIRED"})
  BY DEF Partial, HasStatus
<1> HIDE DEF t
<1>3. /\ local[e].status = "EVIDENCE_COMPILED" /\ Decided(local[e]) /\ Reviewed(local[e])
      /\ handoff_failed[e] \/ Handed(local[e])
  BY <1>1 DEF IInv, At, StatusAt, ConcludeAt
<1>4. Discovered(local[e])
  BY <1>3, WorkerFacts DEF SourcesSound
<1>5. t \in L!ResearchStatus /\ <<local[e].status, t>> \in L!Moves
  BY <1>2, <1>3, TableMoves
<1>6. Sound(AppendEvent(e, local[e], t))
  BY <1>2, <1>4, <1>5, SoundTransition
<1>7. /\ pc[e] \in Copying /\ local[e] \in Run
      /\ \A f \in Processes : pc[f] \in Working /\ f # e => FALSE
  BY <1>1, WorkerFacts DEF Copying, Working
<1>8. ASSUME t = "COMPLETED" PROVE HandedPlain(local[e])
  <2>1. local[e].conflicting \in SUBSET Sources
    BY <1>7 DEF Run
  <2>2. local[e].conflicting = {}
    BY <1>2, <1>3, <1>8, <2>1 DEF Reviewed, HasStatus
  <2>3. local[e].usable \cap local[e].conflicting = {}
    BY <2>2
  <2> QED
    BY <1>2, <1>3, <1>8, <2>3 DEF Handed, HandedPlain, Replayed, Compiled
<1> QED
  BY <1>1, <1>3, <1>5, <1>6, <1>7, <1>8, SaveKeeps

\* attach(): the document only moves on, and the hand-off is decided.
LEMMA AttachFacts ==
    ASSUME TypeOK, \A h \in handoffs : h[2] \subseteq h[1], NEW e \in Processes,
           NEW r \in Run, r.expected <= document, Attach(e, r)
    PROVE  /\ local'[e] \in Run /\ local' = [local EXCEPT ![e] = local'[e]]
           /\ local'[e].status = r.status /\ local'[e].log = r.log /\ local'[e].sources = r.sources
           /\ local'[e].usable = r.usable /\ local'[e].attempts = r.attempts
           /\ local'[e].conflicting = r.conflicting
           /\ local'[e].expected <= document'
           /\ document' \in Nat /\ document <= document'
           /\ attached' \in SUBSET Sources
           /\ flagged' \in SUBSET attached'
           /\ handoffs' \in SUBSET ((SUBSET Sources) \X (SUBSET Sources))
           /\ \A h \in handoffs' : h[2] \subseteq h[1]
           /\ handoff_failed' \in [Processes -> BOOLEAN]
           /\ \A f \in Processes : f # e => handoff_failed'[f] = handoff_failed[f]
           /\ handoff_failed'[e] \/ Handed(local[e])'
           /\ Decided(local[e])'
<1>1. /\ local \in [Processes -> Run] /\ document \in Nat /\ attached \in SUBSET Sources
      /\ flagged \in SUBSET attached /\ handoff_failed \in [Processes -> BOOLEAN]
      /\ handoffs \in SUBSET ((SUBSET Sources) \X (SUBSET Sources))
      /\ r.usable \in SUBSET Sources /\ r.conflicting \in SUBSET Sources /\ r.expected \in Nat
  BY DEF TypeOK, Run
<1>2. CASE /\ r.usable = {}
           /\ local' = [local EXCEPT ![e] = r]
           /\ UNCHANGED <<documentVars, handoff_failed>>
  <2>1. local'[e] = r /\ local' = [local EXCEPT ![e] = local'[e]]
    BY <1>1, <1>2
  <2>2. Decided(local[e])'
    BY <1>2, <2>1 DEF Decided
  <2>3. UNCHANGED <<document, attached, flagged, handoffs, handoff_failed>>
    BY <1>2 DEF documentVars
  <2>4. Handed(local[e])'
    BY <1>2, <2>1 DEF Handed
  <2> QED
    BY <1>1, <1>2, <2>1, <2>2, <2>3, <2>4
<1>3. CASE /\ r.usable # {} /\ Replayed(r)
           /\ UNCHANGED <<documentVars, handoff_failed>>
           /\ local' = [local EXCEPT ![e] = HandedOver(r)]
  <2>1. UNCHANGED <<document, attached, flagged, handoffs, handoff_failed>>
    BY <1>3 DEF documentVars
  <2>2. /\ HandedOver(r) \in Run /\ HandedOver(r).expected = document' /\ HandedOver(r).handed
        /\ HandedOver(r).status = r.status /\ HandedOver(r).log = r.log
        /\ HandedOver(r).sources = r.sources /\ HandedOver(r).usable = r.usable
        /\ HandedOver(r).attempts = r.attempts /\ HandedOver(r).conflicting = r.conflicting
    BY <1>1, <2>1, HandedFacts
  <2>3. local'[e] = HandedOver(r) /\ local' = [local EXCEPT ![e] = local'[e]]
    BY <1>1, <1>3
  <2>4. Decided(local[e])'
    BY <2>2, <2>3 DEF Decided
  <2>5. Handed(local[e])'
    BY <1>3, <2>1, <2>2, <2>3 DEF Handed, Replayed, Compiled
  <2> QED
    BY <1>1, <2>1, <2>2, <2>3, <2>4, <2>5
<1>4. CASE /\ r.usable # {} /\ ~Replayed(r) /\ MayAttach(r)
           /\ document' = document + 1
           /\ attached' = attached \cup r.usable
           /\ flagged' = flagged \cup (r.conflicting \cap (r.usable \ attached))
           /\ handoffs' = handoffs \cup {Compiled(r)}
           /\ local' = [local EXCEPT ![e] = HandedOver(r)]
           /\ UNCHANGED handoff_failed
  <2>1. document' \in Nat /\ document <= document'
    BY <1>1, <1>4
  <2>2. /\ HandedOver(r) \in Run /\ HandedOver(r).expected = document' /\ HandedOver(r).handed
        /\ HandedOver(r).status = r.status /\ HandedOver(r).log = r.log
        /\ HandedOver(r).sources = r.sources /\ HandedOver(r).usable = r.usable
        /\ HandedOver(r).attempts = r.attempts /\ HandedOver(r).conflicting = r.conflicting
    BY <1>1, <2>1, HandedFacts
  <2>3. local'[e] = HandedOver(r) /\ local' = [local EXCEPT ![e] = local'[e]]
    BY <1>1, <1>4
  <2>4. Decided(local[e])'
    BY <2>2, <2>3 DEF Decided
  <2>5. Compiled(r) \in (SUBSET Sources) \X (SUBSET Sources) /\ Compiled(r)[2] \subseteq Compiled(r)[1]
    BY <1>1 DEF Compiled
  <2>6. handoffs' \in SUBSET ((SUBSET Sources) \X (SUBSET Sources))
    BY <1>1, <1>4, <2>5
  <2>7. \A h \in handoffs' : h[2] \subseteq h[1]
    BY <1>4, <2>5
  <2>8. attached' \in SUBSET Sources /\ flagged' \in SUBSET attached'
    BY <1>1, <1>4
  <2>9. local'[e].expected <= document'
    BY <2>1, <2>2, <2>3
  <2>10. Handed(local[e])'
    BY <1>4, <2>2, <2>3 DEF Handed, Replayed, Compiled
  <2> QED
    BY <1>1, <1>4, <2>1, <2>2, <2>3, <2>4, <2>6, <2>7, <2>8, <2>9, <2>10
<1>5. CASE /\ r.usable # {} /\ ~Replayed(r) /\ ~MayAttach(r)
           /\ local' = [local EXCEPT ![e] = r]
           /\ handoff_failed' = [handoff_failed EXCEPT ![e] = TRUE]
           /\ UNCHANGED documentVars
  <2>1. local'[e] = r /\ local' = [local EXCEPT ![e] = local'[e]]
    BY <1>1, <1>5
  <2>2. UNCHANGED <<document, attached, flagged, handoffs>>
    BY <1>5 DEF documentVars
  <2>3. Decided(local[e])'
    BY <1>5, <2>1, <2>2 DEF Decided, MayAttach, Replayed, Compiled
  <2>4. /\ handoff_failed' \in [Processes -> BOOLEAN] /\ handoff_failed'[e]
        /\ \A f \in Processes : f # e => handoff_failed'[f] = handoff_failed[f]
    BY <1>1, <1>5
  <2>5. /\ local'[e] \in Run /\ local' = [local EXCEPT ![e] = local'[e]]
        /\ local'[e].status = r.status /\ local'[e].log = r.log /\ local'[e].sources = r.sources
        /\ local'[e].usable = r.usable /\ local'[e].attempts = r.attempts
        /\ local'[e].conflicting = r.conflicting
        /\ local'[e].expected <= document'
    BY <2>1, <2>2
  <2>6. /\ document' \in Nat /\ document <= document'
        /\ attached' \in SUBSET Sources
        /\ flagged' \in SUBSET attached'
        /\ handoffs' \in SUBSET ((SUBSET Sources) \X (SUBSET Sources))
        /\ \A h \in handoffs' : h[2] \subseteq h[1]
    BY <1>1, <2>2
  <2> QED
    BY <2>3, <2>4, <2>5, <2>6
<1> QED
  BY <1>2, <1>3, <1>4, <1>5 DEF Attach

\* compile() and the hand-off.  Nobody else is at work, and the row is not one
\* of a finished run, so nothing depends on the document as it was.
LEMMA CompileKeeps ==
    ASSUME IInv, NEW e \in Processes, Compile(e)
    PROVE  IInv'
<1> DEFINE s == local[e]
           b == AppendEvent(e, s, "EVIDENCE_COMPILED")
           r == MarkConflicting(b)
           a == local'[e]
<1>1. /\ pc[e] = "extract" /\ Snapshots(s) # {} /\ Attach(e, r) /\ Goto(e, "conclude")
      /\ UNCHANGED <<run, ledger, used_units, todo, operation, halted, starts, provider_calls>>
  BY DEF Compile, AtEnd
<1>2. /\ TypeOK /\ s \in Run /\ operation[e] \in Nat /\ IsChain(s) /\ SourcesSound(s)
      /\ s.expected <= document
  BY WorkerFacts
<1>3. /\ s.status = "EXTRACTING" /\ pc[e] \in Working
      /\ \A f \in Processes : pc[f] \in Working => f = e
  BY <1>1, WorkerFacts DEF IInv, At, StatusAt, Working
<1>4. "EVIDENCE_COMPILED" \in L!ResearchStatus /\ <<s.status, "EVIDENCE_COMPILED">> \in L!Moves
  BY <1>3, TableMoves
<1>5. b \in Run /\ ExtendsCopy(e, b.log)
  BY <1>2, <1>4, AppendExtends
<1>6. IsChain(b)
  BY <1>2, <1>4, ChainAppend
<1>7. /\ b.status = "EVIDENCE_COMPILED" /\ b.sources = s.sources /\ b.usable = s.usable
      /\ b.attempts = s.attempts /\ b.expected = s.expected
  <2>1. s \in Run /\ operation[e] \in Nat /\ "EVIDENCE_COMPILED" \in L!ResearchStatus
    BY <1>2, <1>4
  <2> HIDE DEF s
  <2> QED
    BY <2>1, AppendFacts
<1> HIDE DEF b
<1>8. /\ r \in Run /\ SameStory(r, b) /\ r.attempts = b.attempts /\ r.usable = b.usable
      /\ Snapshots(r) = Snapshots(b) /\ Reviewed(r)
  BY <1>5, ConflictingFacts
<1> HIDE DEF r
<1>9. r.expected <= document /\ \A h \in handoffs : h[2] \subseteq h[1]
  BY <1>2, <1>7, <1>8 DEF SameStory, IInv, Tables
<1>10. /\ a \in Run /\ local' = [local EXCEPT ![e] = a]
       /\ a.status = r.status /\ a.log = r.log /\ a.sources = r.sources
       /\ a.usable = r.usable /\ a.attempts = r.attempts /\ a.expected <= document'
       /\ a.conflicting = r.conflicting
       /\ document' \in Nat /\ document <= document'
       /\ attached' \in SUBSET Sources
       /\ flagged' \in SUBSET attached'
       /\ handoffs' \in SUBSET ((SUBSET Sources) \X (SUBSET Sources))
       /\ \A h \in handoffs' : h[2] \subseteq h[1]
       /\ handoff_failed' \in [Processes -> BOOLEAN]
       /\ \A f \in Processes : f # e => handoff_failed'[f] = handoff_failed[f]
       /\ handoff_failed'[e] \/ Handed(local[e])'
       /\ Decided(local[e])'
  BY <1>1, <1>2, <1>8, <1>9, AttachFacts
<1>11. /\ a.status = "EVIDENCE_COMPILED" /\ a.log = b.log /\ a.usable = s.usable
       /\ a.attempts = s.attempts /\ Snapshots(a) = Snapshots(s)
  BY <1>7, <1>8, <1>10 DEF SameStory, Snapshots
<1>12. /\ pc'[e] \in {"conclude", "stopped"} /\ pc' = [pc EXCEPT ![e] = pc'[e]]
       /\ todo' = [todo EXCEPT ![e] = todo'[e]] /\ todo'[e] \in SUBSET Sources
       /\ operation' = [operation EXCEPT ![e] = operation'[e]] /\ operation'[e] = operation[e]
       /\ operation'[e] \in Nat /\ halted' \in [Processes -> BOOLEAN]
  BY <1>1, <1>2 DEF TypeOK, Goto
<1>13. OnlyMoves(e)
  BY <1>10, <1>12 DEF OnlyMoves, Steps, Checked, Ended
<1>14. TypeOK'
  BY <1>1, <1>2, <1>10, <1>13, OthersSame DEF TypeOK
<1>15. Memory(e) /\ At(e) /\ CopyOf(e) /\ operation[e] # 0 /\ ledger \in Seq(Event)
  BY <1>2, <1>3 DEF IInv, Memory, Numbered, TypeOK, Active, Working, Steps, Checked, Ended
<1>16. Memory(e)'
  <2>1. Numbered(e)'
    BY <1>1, <1>12, <1>15 DEF Memory, Numbered
  <2>2. CopyOf(e)'
    <3>1. /\ \A i \in 1..Len(b.log) : \/ i \in 1..Len(ledger) /\ b.log[i] = ledger[i]
                                      \/ b.log[i].by = operation[e]
          /\ \A i \in 1..Len(ledger) : ledger[i].by = operation[e] => i <= Len(b.log)
      BY <1>5, <1>15, ExtendedCopy
    <3> QED
      BY <1>1, <1>11, <3>1 DEF CopyOf
  <2>3. IsChain(a)
    BY <1>6, <1>7, <1>11 DEF IsChain
  <2>4. SourcesSound(a)
    <3>1. Discovered(a)
      BY <1>1, <1>11 DEF Snapshots, Discovered, HasStatus, SourceStatus
    <3> QED
      BY <1>2, <1>11, <3>1 DEF SourcesSound
  <2>5. Sound(local[e])'
    BY <1>10, <2>3, <2>4 DEF Sound, IsChain, SourcesSound, IsMove, Snapshots, Discovered, HasStatus
  <2> QED
    BY <2>1, <2>2, <2>5 DEF Memory
<1>17. At(e)'
  <2>1. StatusAt(e)' /\ ConcludeAt(e)'
    BY <1>8, <1>10, <1>11, <1>12 DEF StatusAt, ConcludeAt, Reviewed
  <2>2. Fresh(e)' <=> Fresh(e)
    <3>1. /\ Accepts(b.log) <=> Fresh(e)
          /\ Fresh(e) => Len(b.log) > Len(ledger)
      BY <1>5, <1>15, AcceptedIsFresh
    <3>2. Fresh(e)' <=> Len(b.log) >= Len(ledger) /\ Accepts(b.log)
      BY <1>1, <1>11 DEF Fresh, Accepts
    <3>3. Len(b.log) \in Nat /\ Len(ledger) \in Nat
      BY <1>5, <1>15 DEF ExtendsCopy
    <3> QED
      BY <3>1, <3>2, <3>3
  <2>3. WorkAt(e)'
    BY <1>1, <1>3, <1>15, <2>2 DEF At, WorkAt
  <2>4. FreshAt(e)'
    BY <1>1, <1>3, <1>11, <1>12, <1>15, <2>2 DEF At, FreshAt, Copying, Working
  <2> QED
    BY <2>1, <2>3, <2>4 DEF At
<1>18. ASSUME NEW f \in Processes, f # e PROVE Memory(f)' /\ At(f)'
  <2>1. Same(f) /\ pc[f] \notin Working
    BY <1>3, <1>13, <1>18, OthersSame DEF IInv
  <2>2. pc[f] # "conclude" /\ Memory(f) /\ At(f)
    BY <2>1 DEF Working, IInv
  <2>3. starts' \in Nat /\ starts <= starts'
    BY <1>1, <1>2 DEF TypeOK
  <2> QED
    BY <1>1, <1>2, <1>10, <2>1, <2>2, <2>3, OthersQuiet
<1>19. Tables'
  <2>1. run.status \notin {"COMPLETED", "PARTIALLY_COMPLETED"}
    BY <1>3, WorkingStatus
  <2>2. Sound(run)'
    <3>1. run.expected \in Nat /\ document \in Nat
      BY <1>2 DEF TypeOK, Run
    <3>2. Sound(run)
      BY DEF IInv, Tables
    <3>3. IsChain(run)' /\ SourcesSound(run)'
      BY <1>1, <3>2 DEF Sound, IsChain, SourcesSound, IsMove, Snapshots, Discovered, HasStatus
    <3> QED
      BY <1>1, <1>10, <3>1, <3>2, <3>3 DEF Sound
  <2> QED
    BY <1>1, <1>10, <2>1, <2>2 DEF IInv, Tables, RowMatchesLedger, CompletedIsHandedOver
<1>20. Distinct' /\ SingleExecutor'
  <2>1. \A f \in Processes : operation[f] <= starts
    BY DEF IInv, Memory, Numbered
  <2> QED
    BY <1>3, <1>12, <1>13, <2>1, StaysDistinct, StaysSingle DEF IInv
<1> QED
  BY <1>14, <1>16, <1>17, <1>18, <1>19, <1>20 DEF IInv

\* cancelled() begins to answer TRUE.
LEMMA HaltKeeps ==
    ASSUME IInv, NEW w \in Processes, Halt(w)
    PROVE  IInv'
<1>1. /\ UNCHANGED <<run, ledger, used_units, documentVars>>
      /\ UNCHANGED <<pc, local, todo, handoff_failed, operation, starts, provider_calls>>
      /\ halted' = [halted EXCEPT ![w] = TRUE]
  BY DEF Halt, dbVars
<1>2. TypeOK /\ Memory(w) /\ At(w)
  BY DEF IInv
<1>3. /\ pc'[w] = pc[w] /\ pc' = [pc EXCEPT ![w] = pc'[w]]
      /\ local'[w] \in Run /\ local' = [local EXCEPT ![w] = local'[w]]
      /\ todo' = [todo EXCEPT ![w] = todo'[w]] /\ todo'[w] \in SUBSET Sources
      /\ operation' = [operation EXCEPT ![w] = operation'[w]] /\ operation'[w] \in Nat
      /\ pc'[w] \in Steps
  BY <1>1, <1>2 DEF TypeOK
<1>4. halted' \in [Processes -> BOOLEAN] /\ handoff_failed' \in [Processes -> BOOLEAN]
  BY <1>1, <1>2 DEF TypeOK
<1>5. OnlyMoves(w)
  BY <1>1, <1>3, <1>4 DEF OnlyMoves
<1>6. /\ document' \in Nat /\ document <= document'
      /\ handoffs' = handoffs /\ starts' \in Nat /\ starts <= starts' /\ used_units' \in Nat
  BY <1>1, <1>2 DEF TypeOK, documentVars
<1>7. Memory(w)' /\ At(w)'
  BY <1>1, <1>2, <1>6, OthersQuiet DEF Same
<1> QED
  BY <1>1, <1>5, <1>6, <1>7, QuietStep

\* The document moves on: what was expected of it stays in the past.
LEMMA EditDocumentKeeps ==
    ASSUME IInv, EditDocument
    PROVE  IInv'
<1>1. /\ document' = document + 1
      /\ UNCHANGED <<run, ledger, used_units, handoffs, starts, provider_calls>>
      /\ UNCHANGED <<pc, local, todo, handoff_failed, operation, halted>>
  BY DEF EditDocument, processVars
<1>2. TypeOK /\ Tables
  BY DEF IInv
<1>a. attached' \in SUBSET Sources /\ flagged' \in SUBSET attached'
  <2>1. PICK H \in SUBSET handoffs : /\ attached' = UNION {h[1] : h \in H}
                                    /\ flagged' \in SUBSET UNION {h[2] : h \in H}
    BY DEF EditDocument
  <2>2. \A h \in H : h[1] \subseteq Sources /\ h[2] \subseteq h[1]
    BY <1>2, <2>1 DEF TypeOK, Tables
  <2> QED
    BY <2>1, <2>2
<1>3. document \in Nat /\ document' \in Nat /\ document <= document'
  BY <1>1, <1>2 DEF TypeOK
<1>4. TypeOK'
  BY <1>a, <1>1, <1>2, <1>3 DEF TypeOK
<1>5. ASSUME NEW f \in Processes PROVE Memory(f)' /\ At(f)'
  <2>1. Memory(f) /\ At(f) /\ Same(f) /\ starts' \in Nat /\ starts <= starts'
    BY <1>1, <1>2 DEF IInv, Same, TypeOK
  <2> QED
    BY <1>1, <1>2, <1>3, <2>1, OthersQuiet
<1>6. Tables'
  <2>1. run \in Run /\ run.expected \in Nat /\ Sound(run) /\ run.expected <= document
    BY <1>2 DEF TypeOK, Run, Tables, Sound
  <2>2. Sound(run)'
    <3>1. IsChain(run)' /\ SourcesSound(run)'
      BY <1>1, <2>1 DEF Sound, IsChain, SourcesSound, IsMove, Snapshots, Discovered, HasStatus
    <3> QED
      BY <1>1, <1>3, <2>1, <3>1 DEF Sound
  <2>3. Decided(run) => Decided(run)'
    BY <1>1, <1>3, <2>1, StaysDecided DEF Decided, MayAttach, Replayed, Compiled
  <2> QED
    BY <1>1, <1>2, <2>2, <2>3 DEF Tables, RowMatchesLedger, CompletedIsHandedOver
<1>7. Distinct' /\ SingleExecutor'
  BY <1>1 DEF IInv, Distinct, SingleExecutor
<1> QED
  BY <1>4, <1>5, <1>6, <1>7 DEF IInv

\* Every step of execute() and retry().
LEMMA StepKeeps ==
    ASSUME IInv, NEW e \in Processes, Step(e)
    PROVE  IInv'
<1>1. CASE ValidateRetry(e)
  BY <1>1, ValidateRetryKeeps
<1>2. CASE RejectRetry(e)
  BY <1>2, PauseKeeps DEF RejectRetry, Ended
<1>3. CASE Begin(e)
  BY <1>3, BeginKeeps
<1>4. CASE Deny(e)
  BY <1>4, GiveUpKeeps DEF Deny
<1>5. CASE Reserve(e)
  BY <1>5, ReserveKeeps
<1>6. CASE Authorize(e)
  BY <1>6, AuthorizeKeeps
<1>7. CASE OperationFails(e)
  BY <1>7, GiveUpKeeps DEF OperationFails
<1>8. CASE SearchReturns(e)
  BY <1>8, SearchReturnsKeeps
<1>9. CASE StartExtraction(e)
  BY <1>9, StartExtractionKeeps
<1>10. CASE SelectSources(e)
  BY <1>10, SelectSourcesKeeps
<1>11. CASE TakeSnapshot(e)
  BY <1>11, TakeSnapshotKeeps
<1>12. CASE NoContent(e)
  BY <1>12, NoContentKeeps
<1>13. CASE Compile(e)
  BY <1>13, CompileKeeps
<1>14. CASE Conclude(e)
  BY <1>14, ConcludeKeeps
<1> QED
  BY <1>1, <1>2, <1>3, <1>4, <1>5, <1>6, <1>7, <1>8, <1>9, <1>10, <1>11, <1>12, <1>13, <1>14
     DEF Step, Continue

\* process() and the retry route begin an operation.
LEMMA StartWorkKeeps ==
    ASSUME IInv, NEW e \in Processes, StartWork(e) \/ StartRetry(e)
    PROVE  IInv'
<1>1. pc \in [Processes -> Steps]
  BY DEF IInv, TypeOK
<1>2. CASE StartWork(e)
  <2> DEFINE step == IF run.status = "CREATED" THEN "execute" ELSE "retry"
             next == IF step \in Checked /\ halted[e] THEN "stopped" ELSE step
  <2>1. next \in {"execute", "retry", "stopped"}
    OBVIOUS
  <2>2. pc' = [pc EXCEPT ![e] = next]
    BY <1>2 DEF StartWork, Goto
  <2> HIDE DEF next
  <2>3. pc'[e] = next /\ pc' = [pc EXCEPT ![e] = pc'[e]]
    BY <1>1, <2>2
  <2> QED
    BY <1>2, <2>1, <2>3, StartKeeps DEF StartWork
<1>3. CASE StartRetry(e)
  <2>1. pc'[e] = "retry" /\ pc' = [pc EXCEPT ![e] = pc'[e]]
    BY <1>1, <1>3 DEF StartRetry
  <2> QED
    BY <1>3, <2>1, StartKeeps DEF StartRetry
<1> QED
  BY <1>2, <1>3

\* A submitted run satisfies the invariant.
LEMMA InitHolds == Init => IInv
<1> SUFFICES ASSUME Init PROVE IInv
  OBVIOUS
<1> DEFINE r == NewRun
<1>1. /\ r \in Run /\ r.log = << >> /\ r.status = "CREATED" /\ r.expected = 0
      /\ IsChain(r) /\ SourcesSound(r) /\ \A o \in Operations : r.attempts[o] = 0
  BY NewRunSound
<1>2. run = r /\ local = [e \in Processes |-> r]
  BY DEF Init
<1> HIDE DEF r
<1>3. /\ used_units \in Nat /\ document \in Nat /\ attached \in SUBSET Sources
      /\ flagged \in SUBSET attached /\ handoffs \in SUBSET ((SUBSET Sources) \X (SUBSET Sources))
      /\ pc \in [Processes -> Steps] /\ local \in [Processes -> Run] /\ run \in Run
      /\ todo \in [Processes -> SUBSET Sources] /\ operation \in [Processes -> Nat]
      /\ starts \in Nat /\ provider_calls \in [Operations -> Nat]
  BY <1>1, <1>2 DEF Init, Steps
<1>4. /\ handoff_failed \in [Processes -> BOOLEAN] /\ halted \in [Processes -> BOOLEAN]
  BY DEF Init
<1>5. ledger \in Seq(Event) /\ ledger = << >>
  BY DEF Init
<1>6. TypeOK
  BY <1>3, <1>4, <1>5 DEF TypeOK
<1>7. Sound(r)
  BY <1>1 DEF Sound, Init
<1>8. Tables
  <2>1. /\ run.status = "CREATED" /\ provider_calls = [o \in Operations |-> 0] /\ handoffs = {}
        /\ starts = 0
    BY <1>1, <1>2 DEF Init
  <2> QED
    BY <1>1, <1>2, <1>5, <1>7, <2>1 DEF Tables, RowMatchesLedger, CompletedIsHandedOver
<1>9. ASSUME NEW e \in Processes PROVE Memory(e) /\ At(e)
  <2>1. local[e] = r /\ operation[e] = 0 /\ pc[e] = "idle" /\ starts = 0
    BY <1>2 DEF Init
  <2>2. Numbered(e) /\ CopyOf(e)
    BY <1>1, <2>1 DEF Numbered, CopyOf, Active
  <2>3. At(e)
    BY <2>1 DEF At, StatusAt, ConcludeAt, FreshAt, WorkAt, Copying, Working
  <2> QED
    BY <1>7, <2>1, <2>2, <2>3 DEF Memory
<1>10. Distinct /\ SingleExecutor
  BY DEF Init, Distinct, SingleExecutor, Working
<1> QED
  BY <1>6, <1>8, <1>9, <1>10 DEF IInv

\* So does a state in which nothing changes.
LEMMA UnchangedKeeps ==
    ASSUME IInv, UNCHANGED vars
    PROVE  IInv'
<1>1. /\ UNCHANGED <<run, ledger, used_units, document, attached, flagged, handoffs>>
      /\ UNCHANGED <<pc, local, todo, handoff_failed, operation, halted, starts, provider_calls>>
  BY DEF vars, dbVars, documentVars, processVars
<1>2. TypeOK /\ Tables
  BY DEF IInv
<1>3. TypeOK'
  BY <1>1, <1>2 DEF TypeOK
<1>4. Tables'
  BY <1>1, <1>2 DEF Tables, RowMatchesLedger, Sound, IsChain, SourcesSound, IsMove,
       Snapshots, Discovered, HasStatus, Decided, MayAttach, Replayed, Compiled, CompletedIsHandedOver
<1>5. ASSUME NEW f \in Processes PROVE Memory(f)' /\ At(f)'
  <2>1. Memory(f) /\ At(f) /\ Same(f) /\ starts' \in Nat /\ starts <= starts'
        /\ document' \in Nat /\ document <= document'
    BY <1>1, <1>2 DEF IInv, Same, TypeOK
  <2> QED
    BY <1>1, <1>2, <2>1, OthersQuiet
<1>6. Distinct' /\ SingleExecutor'
  BY <1>1 DEF IInv, Distinct, SingleExecutor
<1> QED
  BY <1>3, <1>4, <1>5, <1>6 DEF IInv

\* Every step preserves the invariant.
LEMMA NextKeeps == IInv /\ [Next]_vars => IInv'
<1> SUFFICES ASSUME IInv, [Next]_vars PROVE IInv'
  OBVIOUS
<1>1. ASSUME NEW w \in Workers, StartWork(w) PROVE IInv'
  BY <1>1, StartWorkKeeps DEF Processes
<1>2. ASSUME NEW c \in Calls, StartRetry(c) \/ StartCancel(c) PROVE IInv'
  BY <1>2, StartWorkKeeps, StartCancelKeeps DEF Processes
<1>3. ASSUME NEW w \in Workers, Prepare(w) \/ Halt(w) PROVE IInv'
  BY <1>3, PrepareKeeps, HaltKeeps DEF Processes
<1>4. ASSUME NEW w \in Workers, Stop(w) PROVE IInv'
  BY <1>4, ForgetKeeps DEF Stop, Processes
<1>5. ASSUME NEW c \in Calls, CancelRun(c) PROVE IInv'
  BY <1>5, CancelRunKeeps DEF Processes
<1>6. ASSUME NEW e \in Processes, Step(e) PROVE IInv'
  BY <1>6, StepKeeps
<1>7. ASSUME NEW e \in Processes, Die(e) \/ Leave(e) PROVE IInv'
  BY <1>7, ForgetKeeps DEF Die, Leave
<1>8. CASE EditDocument
  BY <1>8, EditDocumentKeeps
<1>9. CASE UNCHANGED vars
  BY <1>9, UnchangedKeeps
<1> QED
  BY <1>1, <1>2, <1>3, <1>4, <1>5, <1>6, <1>7, <1>8, <1>9 DEF Next

-----------------------------------------------------------------------------
(* The results. *)

\* The inductive invariant holds in every reachable state, whatever processes
\* execute, retry, cancel, die and edit the decision at the same time.
THEOREM Invariance == Spec => []IInv
BY InitHolds, NextKeeps, PTL DEF Spec

\* What the invariant says of the row, its audit events, the executions, the
\* provider calls and the hand-off.
LEMMA InvariantGives ==
    ASSUME IInv
    PROVE  AuditTrail /\ SingleExecutor /\ AttemptsLimited /\ CompletedIsHandedOver /\ HandoffIsDecided
<1>1. AuditTrail
  <2>1. TypeOK /\ run.log = ledger /\ IsChain(run) /\ ledger \in Seq(Event)
    BY DEF IInv, Tables, RowMatchesLedger, Sound, TypeOK
  <2>2. DOMAIN ledger = 1..Len(ledger) /\ (ledger = << >> <=> Len(ledger) = 0)
    BY <2>1
  <2>3. LedgerIsChain
    BY <2>1, <2>2 DEF LedgerIsChain, IsChain, IsMove
  <2> QED
    BY <2>1, <2>3 DEF AuditTrail, RowMatchesLedger
<1>2. SingleExecutor
  BY DEF IInv
<1>3. AttemptsLimited
  <2> SUFFICES ASSUME NEW o \in Operations
               PROVE  provider_calls[o] <= max_attempts_per_operation
    BY DEF AttemptsLimited
  <2>1. provider_calls[o] \in Nat /\ run.attempts[o] \in Nat /\ max_attempts_per_operation \in Nat
    BY PolicyAssumption DEF IInv, TypeOK, Run
  <2>2. provider_calls[o] <= run.attempts[o] /\ run.attempts[o] <= max_attempts_per_operation
    BY DEF IInv, Tables, Sound, SourcesSound
  <2> QED
    BY <2>1, <2>2
<1>4. CompletedIsHandedOver /\ HandoffIsDecided
  BY DEF IInv, Tables, Decided, HandoffIsDecided
<1> QED
  BY <1>1, <1>2, <1>3, <1>4

\* No save ever overwrites what another one stored: research_runs and
\* research_audit_events agree, and the events are one chain along the
\* lifecycle table that ends with the stored status.
THEOREM AuditTrailHolds == Spec => []AuditTrail
BY InvariantGives, Invariance, PTL

\* However many workers and retries begin at once, at most one of them gets
\* past its first save.
THEOREM OneExecutor == Spec => []SingleExecutor
BY InvariantGives, Invariance, PTL

\* _can_attempt counts in the process's copy; over all copies, no operation is
\* requested more often than max_attempts_per_operation.
THEOREM AttemptLimit == Spec => []AttemptsLimited
BY InvariantGives, Invariance, PTL

\* A run is stored as COMPLETED only when a hand-off of exactly its usable
\* evidence, without conflict, is on record.
THEOREM CompletionHandsOver == Spec => []CompletedIsHandedOver
BY InvariantGives, Invariance, PTL

\* The hand-off of a finished run was made or can never be made.
THEOREM HandoffDecided == Spec => []HandoffIsDecided
BY InvariantGives, Invariance, PTL

-----------------------------------------------------------------------------
(* The refinement of ResearchLifecycle. *)

\* A save of a transition along the table moves the stored status along it;
\* the last one may pass through EVIDENCE_COMPILED.
LEMMA SaveMoves ==
    ASSUME IInv, NEW e \in Processes, pc[e] \in Copying,
           NEW s \in Run, s.log = local[e].log, NEW t \in L!ResearchStatus,
           <<local[e].status, t>> \in L!Moves, NEW step, Save(e, AppendEvent(e, s, t), step)
    PROVE  [L!Next]_(run.status)
<1> DEFINE r == AppendEvent(e, s, t)
<1>1. r.status = t
  BY AppendFacts DEF IInv, TypeOK
<1>2. r \in Run /\ ExtendsCopy(e, r.log)
  BY AppendExtends DEF IInv
<1>3. Save(e, r, step)
  OBVIOUS
<1> HIDE DEF r
<1>4. CASE UNCHANGED run
  BY <1>4
<1>5. CASE Accepts(r.log) /\ Store(r)
  <2>1. CopyOf(e) /\ operation[e] # 0 /\ ledger \in Seq(Event)
    BY DEF IInv, Memory, Numbered, TypeOK, Copying, Active, Working, Steps, Checked, Ended
  <2>2. Fresh(e)
    BY <1>2, <1>5, <2>1, AcceptedIsFresh
  <2>3. run' = r
    BY <1>5 DEF Store
  <2>4. run.status = IF pc[e] = "conclude" THEN "EXTRACTING" ELSE local[e].status
    BY <2>2 DEF IInv, At, FreshAt
  <2>5. pc[e] = "conclude" => local[e].status = "EVIDENCE_COMPILED"
    BY DEF IInv, At, StatusAt
  <2>6. L!Transition(t)
    BY <1>1, <2>3, <2>4, <2>5, TableMoves DEF L!Transition
  <2> QED
    BY <2>6 DEF L!Next
<1> QED
  BY <1>3, <1>4, <1>5 DEF Save

\* The record of an egress decision leaves the status alone.
LEMMA AuthorizeMoves ==
    ASSUME IInv, NEW e \in Processes, Authorize(e)
    PROVE  UNCHANGED run.status
<1> DEFINE s == local[e]
           r == AppendEvent(e, s, s.status)
<1>1. s \in Run /\ operation[e] \in Nat /\ s.status \in L!ResearchStatus /\ TypeOK
  BY WorkerFacts
<1>2. r.status = s.status
  BY <1>1, AppendFacts
<1>3. r \in Run /\ ExtendsCopy(e, r.log)
  BY <1>1, AppendExtends
<1>4. (Accepts(r.log) /\ Store(r)) \/ UNCHANGED run
  BY DEF Authorize
<1>5. pc[e] = "egress"
  BY DEF Authorize
<1> HIDE DEF r
<1>6. CASE Accepts(r.log) /\ Store(r)
  <2>1. CopyOf(e) /\ operation[e] # 0 /\ ledger \in Seq(Event)
    BY <1>5 DEF IInv, Memory, Numbered, TypeOK, Active, Steps, Checked, Ended
  <2>2. Fresh(e)
    BY <1>3, <1>6, <2>1, AcceptedIsFresh
  <2>3. run.status = s.status
    BY <1>5, <2>2 DEF IInv, At, FreshAt, Copying, Working
  <2> QED
    BY <1>2, <1>6, <2>3 DEF Store
<1> QED
  BY <1>4, <1>6

\* Giving up fails the run or leaves its status alone.
LEMMA GiveUpMoves ==
    ASSUME IInv, NEW e \in Processes, AtOperation(e) \/ pc[e] \in {"call", "refused"}, GiveUp(e)
    PROVE  [L!Next]_(run.status)
<1>1. pc[e] \in Copying /\ local[e].status \in {"SEARCHING", "EXTRACTING"} /\ local[e] \in Run
  BY CurrentOperation, WorkerFacts DEF Copying
<1>2. "FAILED" \in L!ResearchStatus /\ <<local[e].status, "FAILED">> \in L!Moves
  BY <1>1, TableMoves
<1>3. CASE FailRun(e)
  BY <1>1, <1>2, <1>3, SaveMoves DEF FailRun
<1>4. CASE CitationOnly(e)
  BY <1>4 DEF CitationOnly
<1> QED
  BY <1>3, <1>4 DEF GiveUp

\* Every step of execute() and retry() follows the table.
LEMMA StepMoves ==
    ASSUME IInv, NEW e \in Processes, Step(e)
    PROVE  [L!Next]_(run.status)
<1>0. local[e] \in Run /\ StatusAt(e) /\ SourcesSound(local[e])
  BY WorkerFacts DEF IInv, At
<1>1. CASE ValidateRetry(e) \/ RejectRetry(e)
  BY <1>1 DEF ValidateRetry, RejectRetry, dbVars
<1>2. CASE Begin(e)
  <2>1. /\ pc[e] \in Copying /\ local[e].status \in {"CREATED", "FAILED", "PARTIALLY_COMPLETED"}
        /\ local[e].status = "CREATED" => ~Discovered(local[e])
        /\ local[e].status = "PARTIALLY_COMPLETED" => Discovered(local[e])
    BY <1>0, <1>2 DEF Begin, StatusAt, Copying, SourcesSound
  <2>2. CASE Discovered(local[e])
    <3>1. "EXTRACTING" \in L!ResearchStatus /\ <<local[e].status, "EXTRACTING">> \in L!Moves
      BY <2>1, <2>2, TableMoves
    <3> QED
      BY <1>0, <1>2, <2>1, <2>2, <3>1, SaveMoves DEF Begin
  <2>3. CASE ~Discovered(local[e])
    <3>1. "SEARCHING" \in L!ResearchStatus /\ <<local[e].status, "SEARCHING">> \in L!Moves
      BY <2>1, <2>3, TableMoves
    <3> QED
      BY <1>0, <1>2, <2>1, <2>3, <3>1, SaveMoves DEF Begin
  <2> QED
    BY <2>2, <2>3
<1>3. CASE Deny(e) \/ OperationFails(e)
  BY <1>3, GiveUpMoves DEF Deny, OperationFails
<1>4. CASE Authorize(e)
  BY <1>4, AuthorizeMoves
<1>5. CASE SearchReturns(e)
  <2>1. PICK found \in [Sources -> {"NONE", "DISCOVERED", "BLOCKED"}] :
          Save(e, AppendEvent(e, [local[e] EXCEPT !.sources = found], "SOURCES_DISCOVERED"), "discovered")
    BY <1>5 DEF SearchReturns
  <2> DEFINE s == [local[e] EXCEPT !.sources = found]
  <2>2. s \in Run /\ SameStory(s, local[e])
    BY <1>0, FoundFacts DEF SourceStatus
  <2>3. Save(e, AppendEvent(e, s, "SOURCES_DISCOVERED"), "discovered")
    BY <2>1
  <2> HIDE DEF s
  <2>4. pc[e] \in Copying /\ local[e].status = "SEARCHING" /\ s.log = local[e].log
    BY <1>5, <2>2, CurrentOperation DEF SearchReturns, Copying, SameStory
  <2>5. /\ "SOURCES_DISCOVERED" \in L!ResearchStatus
        /\ <<local[e].status, "SOURCES_DISCOVERED">> \in L!Moves
    BY <2>4, TableMoves
  <2> QED
    BY <2>2, <2>3, <2>4, <2>5, SaveMoves
<1>6. CASE StartExtraction(e)
  <2>1. pc[e] \in Copying /\ local[e].status = "SOURCES_DISCOVERED"
    BY <1>0, <1>6 DEF StartExtraction, StatusAt, Copying, Working
  <2>2. "EXTRACTING" \in L!ResearchStatus /\ <<local[e].status, "EXTRACTING">> \in L!Moves
    BY <2>1, TableMoves
  <2> QED
    BY <1>0, <1>6, <2>1, <2>2, SaveMoves DEF StartExtraction
<1>7. CASE Reserve(e) \/ SelectSources(e) \/ TakeSnapshot(e) \/ Compile(e)
  BY <1>7 DEF Reserve, SelectSources, TakeSnapshot, Compile, dbVars
<1>8. CASE NoContent(e)
  <2>1. pc[e] \in Copying /\ local[e].status = "EXTRACTING"
    BY <1>0, <1>8 DEF NoContent, AtEnd, StatusAt, Copying, Working
  <2>2. /\ {"PARTIALLY_COMPLETED", "FAILED"} \subseteq L!ResearchStatus
        /\ <<local[e].status, "PARTIALLY_COMPLETED">> \in L!Moves
        /\ <<local[e].status, "FAILED">> \in L!Moves
    BY <2>1, TableMoves
  <2> QED
    BY <1>0, <1>8, <2>1, <2>2, SaveMoves DEF NoContent
<1>9. CASE Conclude(e)
  <2> DEFINE t == IF Partial(e) THEN "PARTIALLY_COMPLETED" ELSE "COMPLETED"
  <2>1. pc[e] \in Copying /\ local[e].status = "EVIDENCE_COMPILED"
    BY <1>0, <1>9 DEF Conclude, StatusAt, Copying, Working
  <2>2. t \in {"PARTIALLY_COMPLETED", "COMPLETED"} /\ Save(e, AppendEvent(e, local[e], t), "returned")
    BY <1>9 DEF Conclude
  <2> HIDE DEF t
  <2>3. t \in L!ResearchStatus /\ <<local[e].status, t>> \in L!Moves
    BY <2>1, <2>2, TableMoves
  <2> QED
    BY <1>0, <2>1, <2>2, <2>3, SaveMoves
<1> QED
  BY <1>1, <1>2, <1>3, <1>4, <1>5, <1>6, <1>7, <1>8, <1>9 DEF Step, Continue

\* A cancellation that is accepted finds the run as it was read.
LEMMA CancelMoves ==
    ASSUME IInv, NEW c \in Processes, CancelRun(c)
    PROVE  [L!Next]_(run.status)
<1>1. pc[c] \in Copying /\ Save(c, AppendEvent(c, local[c], "CANCELLED"), "returned")
  BY DEF CancelRun, Copying
<1>2. local[c].status \in L!Cancellable
  BY DEF CancelRun, IInv, At, StatusAt
<1>3. "CANCELLED" \in L!ResearchStatus /\ <<local[c].status, "CANCELLED">> \in L!Moves
  BY <1>2, TableMoves
<1>4. local[c] \in Run
  BY WorkerFacts
<1> QED
  BY <1>1, <1>3, <1>4, SaveMoves

\* The row of a run implements the lifecycle table that each process consults
\* for its own copy only: COMPLETED and CANCELLED are final, and what is
\* retried is a failed or partial run.
THEOREM LifecycleRefinement == Spec => ImplementsResearchLifecycle
<1>1. Init => L!Init
  BY DEF Init, L!Init, NewRun
<1>2. IInv /\ [Next]_vars => [L!Next]_(run.status)
  <2> SUFFICES ASSUME IInv, [Next]_vars PROVE [L!Next]_(run.status)
    OBVIOUS
  <2>1. ASSUME NEW e \in Processes, Start(e) PROVE [L!Next]_(run.status)
    BY <2>1 DEF Start, dbVars
  <2>2. ASSUME NEW w \in Workers, Prepare(w) \/ Halt(w) PROVE [L!Next]_(run.status)
    BY <2>2 DEF Prepare, Halt, dbVars
  <2>3. ASSUME NEW e \in Processes, Forget(e) PROVE [L!Next]_(run.status)
    BY <2>3 DEF Forget, dbVars
  <2>4. ASSUME NEW c \in Calls, CancelRun(c) PROVE [L!Next]_(run.status)
    BY <2>4, CancelMoves DEF Processes
  <2>5. ASSUME NEW e \in Processes, Step(e) PROVE [L!Next]_(run.status)
    BY <2>5, StepMoves
  <2>6. CASE EditDocument \/ UNCHANGED vars
    BY <2>6 DEF EditDocument, vars, dbVars
  <2> QED
    BY <2>1, <2>2, <2>3, <2>4, <2>5, <2>6
       DEF Next, StartWork, StartRetry, StartCancel, Stop, Die, Leave, Processes
<1> QED
  BY <1>1, <1>2, Invariance, PTL DEF Spec, ImplementsResearchLifecycle, L!Spec


-----------------------------------------------------------------------------
(* The run and its job (module ResearchPipeline).                          *)
(*                                                                         *)
(* As long as nothing has failed, a process at work is stopped only when   *)
(* the run is cancelled, so an execution that has begun goes on until it   *)
(* has settled the run; and a worker that reports its job has either done  *)
(* so itself or found the run begun by somebody else.                      *)

\* Without faults, only a cancelled run is halted, and only a worker that has
\* ended or is about to end has lost its lease.
HaltedForReason == \A e \in Processes : halted[e] => run.status = "CANCELLED"
LostForReason ==
    \A w \in Workers : lease[w] = "lost" => pc[w] \in {"stopped", "dead"} \/ halted[w]
\* Without faults, a run that is neither new nor settled is being worked on.
WorkGoesOn == run.status \in {"CREATED"} \cup Settled \/ Busy

\* A run with events, with a process that returned or with a job that was
\* reported is not new any more.
Begun ==
    \/ run.status # "CREATED"
    \/ /\ run.log = << >>
       /\ \A e \in Processes : pc[e] # "returned"
       /\ job \notin {"COMPLETED", "PARTIAL"}

PipelineInv ==
    /\ IInv
    /\ lease \in [Workers -> {"none", "held", "lost"}]
    /\ faults \in Nat
    /\ Begun
    /\ faults = 0 => HaltedForReason /\ LostForReason /\ WorkGoesOn


\* What a step of process e does to the run and to the process, as far as the
\* job is concerned.
Progress(e) ==
    /\ \A f \in Processes : f # e => pc'[f] = pc[f]
    /\ run' = run \/ run'.status # "CREATED"
    /\ pc'[e] = "returned" => run'.status # "CREATED"
    /\ \/ run' = run /\ pc[e] \notin Working
       \/ pc'[e] \in Working
       \/ run'.status \in Settled
       \/ halted[e]

\* The step a process goes to, unless it is halted.
LEMMA GotoProgress ==
    ASSUME TypeOK, NEW e \in Processes, NEW step, Goto(e, step)
    PROVE  /\ \A f \in Processes : f # e => pc'[f] = pc[f]
           /\ pc'[e] = step \/ (halted[e] /\ pc'[e] = "stopped")
BY DEF TypeOK, Goto

\* A save leads to the next step of the execution or settles the run; it fails
\* at work only because the run was cancelled.
LEMMA SaveProgress ==
    ASSUME IInv, NEW e \in Processes, pc[e] \in Copying,
           NEW s \in Run, s.log = local[e].log, NEW t \in L!ResearchStatus \ {"CREATED"},
           NEW step, step \in Working \/ (step = "returned" /\ t \in Settled),
           Save(e, AppendEvent(e, s, t), step)
    PROVE  Progress(e)
<1> DEFINE r == AppendEvent(e, s, t)
<1>1. r.status = t
  BY AppendFacts DEF IInv, TypeOK
<1>2. r \in Run /\ ExtendsCopy(e, r.log)
  BY AppendExtends DEF IInv
<1>3. Save(e, r, step)
  OBVIOUS
<1> HIDE DEF r
<1>4. TypeOK
  BY DEF IInv
<1>5. CASE Accepts(r.log) /\ Store(r) /\ Goto(e, step)
  <2>1. run' = r
    BY <1>5 DEF Store
  <2>2. /\ \A f \in Processes : f # e => pc'[f] = pc[f]
        /\ pc'[e] = step \/ (halted[e] /\ pc'[e] = "stopped")
    BY <1>4, <1>5, GotoProgress
  <2> QED
    BY <1>1, <2>1, <2>2 DEF Progress
<1>6. CASE ~Accepts(r.log) /\ pc' = [pc EXCEPT ![e] = "dead"] /\ UNCHANGED run
  <2>1. CopyOf(e) /\ operation[e] # 0 /\ ledger \in Seq(Event)
    BY DEF IInv, Memory, Numbered, TypeOK, Copying, Active, Working, Steps, Checked, Ended
  <2>2. ~Fresh(e)
    BY <1>2, <1>6, <2>1, AcceptedIsFresh
  <2>3. pc[e] \in Working => run.status = "CANCELLED"
    BY <2>2 DEF IInv, At, WorkAt
  <2>4. pc'[e] = "dead" /\ \A f \in Processes : f # e => pc'[f] = pc[f]
    BY <1>4, <1>6 DEF TypeOK
  <2> QED
    BY <1>6, <2>3, <2>4 DEF Progress, Settled
<1> QED
  BY <1>3, <1>5, <1>6 DEF Save

\* A step within an execution that does not touch the stored run.
LEMMA InnerProgress ==
    ASSUME IInv, NEW e \in Processes, UNCHANGED run, NEW step \in Working, Goto(e, step)
    PROVE  Progress(e)
<1>1. /\ \A f \in Processes : f # e => pc'[f] = pc[f]
      /\ pc'[e] = step \/ (halted[e] /\ pc'[e] = "stopped")
  BY GotoProgress DEF IInv
<1> QED
  BY <1>1 DEF Progress, Working

\* An operation that is given up fails the run or goes on to the next source.
LEMMA GiveUpProgress ==
    ASSUME IInv, NEW e \in Processes, AtOperation(e) \/ pc[e] \in {"call", "refused"}, GiveUp(e)
    PROVE  Progress(e)
<1>1. pc[e] \in Copying /\ local[e] \in Run
  BY CurrentOperation, WorkerFacts DEF Copying
<1>2. "FAILED" \in L!ResearchStatus \ {"CREATED"} /\ "FAILED" \in Settled
  BY DEF L!ResearchStatus, Settled
<1>3. CASE FailRun(e)
  BY <1>1, <1>2, <1>3, SaveProgress DEF FailRun
<1>4. CASE CitationOnly(e)
  BY <1>4, InnerProgress DEF CitationOnly, Working
<1> QED
  BY <1>3, <1>4 DEF GiveUp

\* The record of an egress decision; where it fails the request is refused.
LEMMA AuthorizeProgress ==
    ASSUME IInv, NEW e \in Processes, Authorize(e)
    PROVE  Progress(e)
<1> DEFINE r == AppendEvent(e, local[e], local[e].status)
<1>1. /\ local[e] \in Run /\ operation[e] \in Nat /\ local[e].status \in L!ResearchStatus
      /\ TypeOK /\ StatusAt(e)
  BY WorkerFacts DEF IInv, At
<1>2. r.status = local[e].status
  BY <1>1, AppendFacts
<1>3. local[e].status # "CREATED"
  BY <1>1 DEF Authorize, StatusAt
<1>4. run' = r \/ run' = run
  BY DEF Authorize, Store
<1>5. PICK step \in {"call", "refused"} : Goto(e, step)
  BY DEF Authorize
<1> HIDE DEF r
<1>6. /\ \A f \in Processes : f # e => pc'[f] = pc[f]
      /\ pc'[e] = step \/ (halted[e] /\ pc'[e] = "stopped")
  BY <1>1, <1>5, GotoProgress
<1> QED
  BY <1>2, <1>3, <1>4, <1>6 DEF Progress, Working

\* Every step of execute() and retry().
LEMMA StepProgress ==
    ASSUME IInv, NEW e \in Processes, Step(e)
    PROVE  Progress(e)
<1>0. local[e] \in Run /\ TypeOK
  BY WorkerFacts
<1>s. /\ {"SEARCHING", "SOURCES_DISCOVERED", "EXTRACTING", "PARTIALLY_COMPLETED", "FAILED",
          "COMPLETED"} \subseteq L!ResearchStatus \ {"CREATED"}
      /\ {"PARTIALLY_COMPLETED", "FAILED", "COMPLETED"} \subseteq Settled
  BY DEF L!ResearchStatus, Settled
<1>1. CASE ValidateRetry(e) \/ RejectRetry(e)
  <2>1. /\ run' = run /\ pc[e] = "retry"
        /\ pc' = [pc EXCEPT ![e] = "resume"] \/ pc' = [pc EXCEPT ![e] = "dead"]
    BY <1>1 DEF ValidateRetry, RejectRetry, dbVars
  <2>2. pc'[e] \in {"resume", "dead"} /\ \A f \in Processes : f # e => pc'[f] = pc[f]
    BY <1>0, <2>1 DEF TypeOK
  <2> QED
    BY <2>1, <2>2 DEF Progress, Working
<1>2. CASE Begin(e)
  <2>1. pc[e] \in Copying
    BY <1>2 DEF Begin, Copying
  <2>2. CASE Discovered(local[e])
    BY <1>0, <1>s, <1>2, <2>1, <2>2, SaveProgress DEF Begin, Working
  <2>3. CASE ~Discovered(local[e])
    BY <1>0, <1>s, <1>2, <2>1, <2>3, SaveProgress DEF Begin, Working
  <2> QED
    BY <2>2, <2>3
<1>3. CASE Deny(e) \/ OperationFails(e)
  BY <1>3, GiveUpProgress DEF Deny, OperationFails
<1>4. CASE Authorize(e)
  BY <1>4, AuthorizeProgress
<1>5. CASE SearchReturns(e)
  <2>1. PICK found \in [Sources -> {"NONE", "DISCOVERED", "BLOCKED"}] :
          Save(e, AppendEvent(e, [local[e] EXCEPT !.sources = found], "SOURCES_DISCOVERED"), "discovered")
    BY <1>5 DEF SearchReturns
  <2> DEFINE s == [local[e] EXCEPT !.sources = found]
  <2>2. s \in Run /\ SameStory(s, local[e])
    BY <1>0, FoundFacts DEF SourceStatus
  <2>3. Save(e, AppendEvent(e, s, "SOURCES_DISCOVERED"), "discovered")
    BY <2>1
  <2> HIDE DEF s
  <2>4. pc[e] \in Copying /\ s.log = local[e].log
    BY <1>5, <2>2 DEF SearchReturns, Copying, Working, SameStory
  <2> QED
    BY <1>s, <2>2, <2>3, <2>4, SaveProgress DEF Working
<1>6. CASE StartExtraction(e)
  <2>1. pc[e] \in Copying
    BY <1>6 DEF StartExtraction, Copying, Working
  <2> QED
    BY <1>0, <1>s, <1>6, <2>1, SaveProgress DEF StartExtraction, Working
<1>7. CASE Reserve(e)
  BY <1>7, InnerProgress DEF Reserve, Working
<1>8. CASE SelectSources(e) \/ TakeSnapshot(e)
  <2>1. UNCHANGED run /\ Goto(e, "extract")
    BY <1>8 DEF SelectSources, TakeSnapshot, dbVars
  <2> QED
    BY <2>1, InnerProgress DEF Working
<1>9. CASE Compile(e)
  BY <1>9, InnerProgress DEF Compile, Working
<1>10. CASE NoContent(e)
  <2>1. pc[e] \in Copying
    BY <1>10 DEF NoContent, AtEnd, Copying, Working
  <2> QED
    BY <1>0, <1>s, <1>10, <2>1, SaveProgress DEF NoContent
<1>11. CASE Conclude(e)
  <2> DEFINE t == IF Partial(e) THEN "PARTIALLY_COMPLETED" ELSE "COMPLETED"
  <2>1. pc[e] \in Copying
    BY <1>11 DEF Conclude, Copying, Working
  <2>2. t \in {"PARTIALLY_COMPLETED", "COMPLETED"} /\ Save(e, AppendEvent(e, local[e], t), "returned")
    BY <1>11 DEF Conclude
  <2> HIDE DEF t
  <2> QED
    BY <1>0, <1>s, <2>1, <2>2, SaveProgress
<1> QED
  BY <1>1, <1>2, <1>3, <1>4, <1>5, <1>6, <1>7, <1>8, <1>9, <1>10, <1>11 DEF Step, Continue


\* A new run cannot be reached again, and a cancelled one stays cancelled.
LEMMA MovesForward ==
    ASSUME [L!Next]_(run.status)
    PROVE  /\ run.status # "CREATED" => run'.status # "CREATED"
           /\ run.status = "CANCELLED" => run'.status = "CANCELLED"
BY DEF L!Next, L!Transition, L!Moves, L!Allowed, L!Retry, L!Cancellable, L!ResearchStatus

\* A step of a process that is under way leaves the job consistent with the run.
LEMMA ProgressKeeps ==
    ASSUME PipelineInv, IInv', NEW e \in Processes, Progress(e),
           pc[e] \notin {"stopped", "dead"}, UNCHANGED halted, UNCHANGED jobVars,
           [L!Next]_(run.status)
    PROVE  PipelineInv'
<1>1. /\ \A f \in Processes : f # e => pc'[f] = pc[f]
      /\ run' = run \/ run'.status # "CREATED"
      /\ pc'[e] = "returned" => run'.status # "CREATED"
      /\ \/ run' = run /\ pc[e] \notin Working
         \/ pc'[e] \in Working
         \/ run'.status \in Settled
         \/ halted[e]
  BY DEF Progress
<1>2. /\ run.status # "CREATED" => run'.status # "CREATED"
      /\ run.status = "CANCELLED" => run'.status = "CANCELLED"
  BY MovesForward
<1>3. UNCHANGED <<job, lease, faults, halted>>
  BY DEF jobVars
<1>4. Begun'
  BY <1>1, <1>2, <1>3 DEF PipelineInv, Begun
<1>5. ASSUME faults = 0 PROVE HaltedForReason' /\ LostForReason' /\ WorkGoesOn'
  <2>1. HaltedForReason /\ LostForReason /\ WorkGoesOn
    BY <1>5 DEF PipelineInv
  <2>2. HaltedForReason'
    BY <1>2, <1>3, <2>1 DEF HaltedForReason
  <2>3. LostForReason'
    BY <1>1, <1>3, <2>1 DEF LostForReason, Processes
  <2>4. WorkGoesOn'
    <3>1. CASE run'.status \in Settled
      BY <3>1 DEF WorkGoesOn
    <3>2. CASE pc'[e] \in Working
      BY <3>2 DEF WorkGoesOn, Busy
    <3>3. CASE halted[e]
      BY <1>2, <2>1, <3>3 DEF HaltedForReason, WorkGoesOn, Settled
    <3>4. CASE run' = run /\ pc[e] \notin Working
      <4>1. CASE Busy
        <5>1. PICK f \in Processes : pc[f] \in Working
          BY <4>1 DEF Busy
        <5>2. pc'[f] \in Working
          BY <1>1, <3>4, <5>1
        <5> QED
          BY <5>2 DEF WorkGoesOn, Busy
      <4>2. CASE ~Busy
        BY <2>1, <3>4, <4>2 DEF WorkGoesOn
      <4> QED
        BY <4>1, <4>2
    <3> QED
      BY <1>1, <3>1, <3>2, <3>3, <3>4
  <2> QED
    BY <2>2, <2>3, <2>4
<1> QED
  BY <1>3, <1>4, <1>5 DEF PipelineInv

\* The processes stand still and only the job moves.
LEMMA QueueKeeps ==
    ASSUME PipelineInv, UNCHANGED vars,
           lease' \in [Workers -> {"none", "held", "lost"}],
           faults' \in Nat, faults <= faults',
           job' \notin {"COMPLETED", "PARTIAL"} \/ job' = job,
           faults' = 0 => \A w \in Workers : lease'[w] = "lost" =>
               pc[w] \in {"stopped", "dead"} \/ halted[w]
    PROVE  PipelineInv'
<1>1. UNCHANGED <<run, pc, halted>>
  BY DEF vars, dbVars, processVars
<1>2. IInv'
  BY UnchangedKeeps DEF PipelineInv
<1>3. Begun'
  BY <1>1 DEF PipelineInv, Begun
<1>4. faults' = 0 => faults = 0
  BY DEF PipelineInv
<1>5. ASSUME faults' = 0 PROVE HaltedForReason' /\ LostForReason' /\ WorkGoesOn'
  <2>1. HaltedForReason /\ WorkGoesOn
    BY <1>4, <1>5 DEF PipelineInv
  <2>2. HaltedForReason' /\ WorkGoesOn'
    BY <1>1, <2>1 DEF HaltedForReason, WorkGoesOn, Busy
  <2>3. LostForReason'
    BY <1>1, <1>5 DEF LostForReason
  <2> QED
    BY <2>2, <2>3
<1> QED
  BY <1>2, <1>3, <1>5 DEF PipelineInv

\* A process ends, or makes room for the next operation: what it had in memory
\* is forgotten.
LEMMA EndKeeps ==
    ASSUME PipelineInv, NEW e \in Processes, Forget(e), IInv',
           NEW step \in {"idle", "stopped", "dead"}, pc' = [pc EXCEPT ![e] = step],
           lease' \in [Workers -> {"none", "held", "lost"}],
           faults' \in Nat, faults <= faults',
           job' = job \/ run.status # "CREATED",
           faults' = 0 => /\ pc[e] \in Working => run.status = "CANCELLED"
                          /\ \A w \in Workers : lease'[w] = "lost" => lease[w] = "lost"
                          /\ e \in Workers /\ lease'[e] = "lost" => step # "idle"
    PROVE  PipelineInv'
<1>1. UNCHANGED run /\ TypeOK
  BY DEF Forget, dbVars, PipelineInv, IInv
<1>2. pc'[e] = step /\ \A f \in Processes : f # e => pc'[f] = pc[f]
  BY <1>1 DEF TypeOK
<1>3. ~halted'[e] /\ \A f \in Processes : f # e => halted'[f] = halted[f]
  BY <1>1 DEF Forget, TypeOK
<1>4. Begun'
  BY <1>1, <1>2 DEF PipelineInv, Begun
<1>5. faults' = 0 => faults = 0
  BY DEF PipelineInv
<1>6. ASSUME faults' = 0 PROVE HaltedForReason' /\ LostForReason' /\ WorkGoesOn'
  <2>1. HaltedForReason /\ LostForReason /\ WorkGoesOn
    BY <1>5, <1>6 DEF PipelineInv
  <2>2. HaltedForReason'
    BY <1>1, <1>3, <2>1 DEF HaltedForReason
  <2>3. LostForReason'
    BY <1>2, <1>3, <1>6, <2>1 DEF LostForReason, Processes
  <2>4. WorkGoesOn'
    BY <1>1, <1>2, <1>6, <2>1 DEF WorkGoesOn, Busy, Settled
  <2> QED
    BY <2>2, <2>3, <2>4
<1> QED
  BY <1>4, <1>6 DEF PipelineInv

\* Processes are told to halt because something failed or because the run is
\* cancelled.
LEMMA HaltingKeeps ==
    ASSUME PipelineInv, UNCHANGED <<run, pc>>, IInv',
           halted' \in [Processes -> BOOLEAN], \A f \in Processes : halted[f] => halted'[f],
           lease' \in [Workers -> {"none", "held", "lost"}],
           faults' \in Nat, faults <= faults',
           job' \notin {"COMPLETED", "PARTIAL"} \/ job' = job,
           faults' = 0 => /\ run.status = "CANCELLED"
                          /\ \A w \in Workers : lease'[w] = "lost" => lease[w] = "lost" \/ halted'[w]
    PROVE  PipelineInv'
<1>1. Begun'
  BY DEF PipelineInv, Begun
<1>2. faults' = 0 => faults = 0
  BY DEF PipelineInv
<1>3. ASSUME faults' = 0 PROVE HaltedForReason' /\ LostForReason' /\ WorkGoesOn'
  <2>1. LostForReason
    BY <1>2, <1>3 DEF PipelineInv
  <2> QED
    BY <1>3, <2>1 DEF HaltedForReason, LostForReason, WorkGoesOn, Settled, Processes
<1> QED
  BY <1>1, <1>3 DEF PipelineInv


\* What Start, Prepare and CancelRun do to the run and the process.
LEMMA StartProgress ==
    ASSUME IInv, NEW e \in Processes, StartWork(e) \/ StartRetry(e) \/ StartCancel(e)
    PROVE  /\ Progress(e) /\ pc[e] = "idle"
           /\ UNCHANGED <<halted, run>>
<1>1. pc[e] = "idle" /\ UNCHANGED <<halted, run>> /\ TypeOK
  BY DEF StartWork, StartRetry, StartCancel, Start, dbVars, IInv
<1>2. /\ \A f \in Processes : f # e => pc'[f] = pc[f]
      /\ pc'[e] # "returned"
  BY <1>1 DEF StartWork, StartRetry, StartCancel, Goto, TypeOK
<1> QED
  BY <1>1, <1>2 DEF Progress, Working

\* execute() returns a run that somebody has begun.
LEMMA PrepareProgress ==
    ASSUME IInv, Begun, NEW w \in Processes, Prepare(w)
    PROVE  /\ Progress(w) /\ pc[w] = "execute"
           /\ UNCHANGED <<halted, run>>
<1>1. pc[w] = "execute" /\ UNCHANGED <<halted, run>> /\ TypeOK
  BY DEF Prepare, dbVars, IInv
<1> DEFINE step == IF run.log = << >> /\ run.status = "CREATED" THEN "begin" ELSE "returned"
<1>2. Goto(w, step)
  BY DEF Prepare
<1>3. step = "returned" => run.status # "CREATED"
  BY DEF Begun
<1>4. step \in {"begin", "returned"}
  OBVIOUS
<1> HIDE DEF step
<1>5. /\ \A f \in Processes : f # w => pc'[f] = pc[f]
      /\ pc'[w] = step \/ (halted[w] /\ pc'[w] = "stopped")
  BY <1>1, <1>2, GotoProgress
<1> QED
  BY <1>1, <1>3, <1>4, <1>5 DEF Progress, Working

\* A cancellation settles the run.
LEMMA CancelProgress ==
    ASSUME IInv, NEW c \in Processes, CancelRun(c)
    PROVE  Progress(c) /\ pc[c] = "cancel" /\ UNCHANGED halted
<1>1. /\ pc[c] = "cancel" /\ pc[c] \in Copying /\ UNCHANGED halted
      /\ Save(c, AppendEvent(c, local[c], "CANCELLED"), "returned")
  BY DEF CancelRun, Copying
<1>2. "CANCELLED" \in L!ResearchStatus \ {"CREATED"} /\ "CANCELLED" \in Settled
  BY DEF L!ResearchStatus, Settled
<1>3. local[c] \in Run
  BY WorkerFacts
<1> QED
  BY <1>1, <1>2, <1>3, SaveProgress

\* A process that takes a step is neither stopped nor dead, and steps do not
\* halt anyone.
LEMMA StepGuard ==
    ASSUME NEW e \in Processes, Step(e)
    PROVE  pc[e] \notin {"idle", "stopped", "dead"} /\ UNCHANGED halted
BY DEF Step, Continue, ValidateRetry, RejectRetry, Begin, Deny, Reserve, Authorize,
       OperationFails, SearchReturns, StartExtraction, SelectSources, TakeSnapshot,
       NoContent, Compile, Conclude, AtOperation, AtEnd

\* The steps in which the run moves and the job stands still.
LEMMA RunStepKeeps ==
    ASSUME PipelineInv, NEW e \in Processes, UNCHANGED jobVars,
           \/ StartWork(e) \/ StartRetry(e) \/ StartCancel(e) \/ Prepare(e)
           \/ CancelRun(e) \/ Step(e)
    PROVE  PipelineInv'
<1>0. IInv /\ Begun
  BY DEF PipelineInv
<1>1. CASE StartWork(e) \/ StartRetry(e) \/ StartCancel(e)
  <2>1. IInv'
    BY <1>0, <1>1, StartWorkKeeps, StartCancelKeeps
  <2>2. Progress(e) /\ pc[e] \notin {"stopped", "dead"} /\ UNCHANGED <<halted, run>>
    BY <1>0, <1>1, StartProgress
  <2> QED
    BY <2>1, <2>2, ProgressKeeps
<1>2. CASE Prepare(e)
  <2>1. IInv'
    BY <1>0, <1>2, PrepareKeeps
  <2>2. Progress(e) /\ pc[e] \notin {"stopped", "dead"} /\ UNCHANGED <<halted, run>>
    BY <1>0, <1>2, PrepareProgress
  <2> QED
    BY <2>1, <2>2, ProgressKeeps
<1>3. CASE CancelRun(e)
  <2>1. IInv' /\ [L!Next]_(run.status)
    BY <1>0, <1>3, CancelRunKeeps, CancelMoves
  <2>2. Progress(e) /\ pc[e] \notin {"stopped", "dead"} /\ UNCHANGED halted
    BY <1>0, <1>3, CancelProgress
  <2> QED
    BY <2>1, <2>2, ProgressKeeps
<1>4. CASE Step(e)
  <2>1. IInv' /\ [L!Next]_(run.status)
    BY <1>0, <1>4, StepKeeps, StepMoves
  <2>2. Progress(e) /\ pc[e] \notin {"stopped", "dead"} /\ UNCHANGED halted
    BY <1>0, <1>4, StepProgress, StepGuard
  <2> QED
    BY <2>1, <2>2, ProgressKeeps
<1> QED
  BY <1>1, <1>2, <1>3, <1>4

\* The steps in which a process ends or makes room.
LEMMA WorkerEndKeeps ==
    ASSUME PipelineInv, NEW e \in Processes,
           \/ Stop(e) /\ UNCHANGED jobVars
           \/ Crash(e)
           \/ e \in Workers /\ (Complete(e) \/ Abandon(e))
           \/ e \in Calls /\ Leave(e) /\ UNCHANGED jobVars
    PROVE  PipelineInv'
<1>0. /\ IInv /\ faults \in Nat /\ lease \in [Workers -> {"none", "held", "lost"}]
      /\ faults = 0 => HaltedForReason
      /\ \A f \in Processes : pc[f] = "returned" => run.status # "CREATED"
  BY DEF PipelineInv, Begun
<1>1. CASE Stop(e) /\ UNCHANGED jobVars
  <2>1. /\ Forget(e) /\ pc' = [pc EXCEPT ![e] = "stopped"] /\ halted[e]
        /\ UNCHANGED <<job, lease, faults>>
    BY <1>1 DEF Stop, jobVars
  <2>2. IInv'
    BY <1>0, <1>1, ForgetKeeps DEF Stop
  <2>3. faults = 0 => run.status = "CANCELLED"
    BY <1>0, <2>1 DEF HaltedForReason
  <2>4. /\ faults' \in Nat /\ faults <= faults' /\ lease' \in [Workers -> {"none", "held", "lost"}]
        /\ faults' = 0 => /\ pc[e] \in Working => run.status = "CANCELLED"
                          /\ \A w \in Workers : lease'[w] = "lost" => lease[w] = "lost"
                          /\ e \in Workers /\ lease'[e] = "lost" => "stopped" # "idle"
    BY <1>0, <2>1, <2>3
  <2> QED
    BY <2>1, <2>2, <2>4, EndKeeps
<1>2. CASE Crash(e)
  <2>1. /\ Forget(e) /\ pc' = [pc EXCEPT ![e] = "dead"]
        /\ UNCHANGED <<job, lease>> /\ faults' = faults + 1
    BY <1>2 DEF Crash, Die, Fault
  <2>2. IInv'
    BY <1>0, <1>2, ForgetKeeps DEF Crash, Die
  <2>3. faults' \in Nat /\ faults <= faults' /\ faults' # 0
    BY <1>0, <2>1
  <2> QED
    BY <1>0, <2>1, <2>2, <2>3, EndKeeps
<1>3. CASE e \in Workers /\ (Complete(e) \/ Abandon(e))
  <2>1. /\ Forget(e) /\ pc' = [pc EXCEPT ![e] = "idle"] /\ pc[e] \in Ended /\ Leave(e)
        /\ lease' = [lease EXCEPT ![e] = "none"] /\ UNCHANGED faults
        /\ job' = job \/ pc[e] = "returned"
    BY <1>3 DEF Complete, Abandon, Leave
  <2>2. IInv'
    BY <1>0, <2>1, ForgetKeeps DEF Leave
  <2>3. /\ lease' \in [Workers -> {"none", "held", "lost"}]
        /\ \A w \in Workers : lease'[w] = "lost" => lease[w] = "lost"
        /\ lease'[e] # "lost"
    BY <1>0, <1>3, <2>1
  <2>4. pc[e] \notin Working
    BY <2>1 DEF Ended, Working
  <2>5. faults' \in Nat /\ faults <= faults' /\ (job' = job \/ run.status # "CREATED")
    BY <1>0, <2>1
  <2> QED
    BY <2>1, <2>2, <2>3, <2>4, <2>5, EndKeeps
<1>4. CASE e \in Calls /\ Leave(e) /\ UNCHANGED jobVars
  <2>1. /\ Forget(e) /\ pc' = [pc EXCEPT ![e] = "idle"] /\ pc[e] \in Ended
        /\ UNCHANGED <<job, lease, faults>>
    BY <1>4 DEF Leave, jobVars
  <2>2. IInv'
    BY <1>0, <1>4, ForgetKeeps DEF Leave
  <2>3. pc[e] \notin Working /\ e \notin Workers
    BY <1>4, <2>1, ProcessAssumption DEF Ended, Working
  <2>4. /\ faults' \in Nat /\ faults <= faults' /\ lease' \in [Workers -> {"none", "held", "lost"}]
        /\ \A w \in Workers : lease'[w] = "lost" => lease[w] = "lost"
    BY <1>0, <2>1
  <2> QED
    BY <2>1, <2>2, <2>3, <2>4, EndKeeps
<1> QED
  BY <1>1, <1>2, <1>3, <1>4

\* Halting several workers at once is a matter of their own.
LEMMA CancelJobKeeps ==
    ASSUME PipelineInv, CancelJob
    PROVE  PipelineInv'
<1>0. /\ IInv /\ TypeOK /\ faults \in Nat /\ lease \in [Workers -> {"none", "held", "lost"}]
  BY DEF PipelineInv, IInv
<1>1. /\ run.status = "CANCELLED" /\ job' = "CANCELLED" /\ lease' = Outdated
      /\ UNCHANGED <<run, ledger, used_units, document, attached, flagged, handoffs>>
      /\ UNCHANGED <<pc, local, todo, handoff_failed, operation, starts, provider_calls, faults>>
      /\ halted' = [e \in Processes |-> halted[e] \/ (e \in Workers /\ lease[e] # "none")]
  BY DEF CancelJob, dbVars, documentVars
<1>2. /\ halted' \in [Processes -> BOOLEAN]
      /\ \A f \in Processes : halted[f] => halted'[f]
      /\ \A w \in Workers : lease[w] # "none" => halted'[w]
  <2>1. ASSUME NEW f \in Processes
        PROVE  (halted[f] \/ (f \in Workers /\ lease[f] # "none")) \in BOOLEAN
    OBVIOUS
  <2> QED
    BY <1>1, <2>1, Zenon DEF Processes
<1>3. /\ lease' \in [Workers -> {"none", "held", "lost"}]
      /\ \A w \in Workers : lease'[w] = "lost" => halted'[w]
  BY <1>0, <1>1, <1>2 DEF Outdated
<1>4. TypeOK'
  BY <1>0, <1>1, <1>2 DEF TypeOK
<1>5. Tables'
  BY <1>0, <1>1 DEF IInv, Tables, RowMatchesLedger, Sound, IsChain, SourcesSound, IsMove,
       Snapshots, Discovered, HasStatus, Decided, MayAttach, Replayed, Compiled, CompletedIsHandedOver
<1>6. ASSUME NEW f \in Processes PROVE Memory(f)' /\ At(f)'
  <2>1. Memory(f) /\ At(f) /\ Same(f) /\ starts' \in Nat /\ starts <= starts'
        /\ document' \in Nat /\ document <= document'
    BY <1>0, <1>1 DEF IInv, Same, TypeOK
  <2> QED
    BY <1>0, <1>1, <2>1, OthersQuiet
<1>7. Distinct' /\ SingleExecutor'
  BY <1>0, <1>1 DEF IInv, Distinct, SingleExecutor
<1>8. IInv'
  BY <1>4, <1>5, <1>6, <1>7 DEF IInv
<1> QED
  BY <1>0, <1>1, <1>2, <1>3, <1>8, HaltingKeeps

\* A worker notices that its lease is lost or cannot be checked.  Without
\* faults, a worker that is still at work and has lost its lease knows it.
LEMMA NoticeKeeps ==
    ASSUME PipelineInv, NEW w \in Workers, Notice(w)
    PROVE  PipelineInv'
<1>0. /\ IInv /\ TypeOK /\ faults \in Nat /\ lease \in [Workers -> {"none", "held", "lost"}]
      /\ w \in Processes
  BY DEF PipelineInv, IInv, Processes
<1>1. /\ Halt(w) /\ UNCHANGED <<run, pc, job, lease>> /\ ~halted[w]
      /\ pc[w] \notin {"idle"} \cup Ended /\ halted' = [halted EXCEPT ![w] = TRUE]
      /\ (lease[w] = "lost" /\ faults' = faults) \/ faults' = faults + 1
  BY DEF Notice, Halt, Fault, dbVars
<1>2. IInv'
  BY <1>0, <1>1, HaltKeeps
<1>3. halted' \in [Processes -> BOOLEAN] /\ \A f \in Processes : halted[f] => halted'[f]
  BY <1>0, <1>1 DEF TypeOK
<1>4. faults' \in Nat /\ faults <= faults' /\ (faults' = 0 => faults = 0 /\ lease[w] = "lost")
  BY <1>0, <1>1
<1>5. faults' # 0
  BY <1>1, <1>4 DEF PipelineInv, LostForReason, Ended
<1> QED
  BY <1>0, <1>1, <1>2, <1>3, <1>4, <1>5, HaltingKeeps

\* The steps of the queue.
LEMMA QueueStepKeeps ==
    ASSUME PipelineInv,
           \/ Submit \/ RecoverStale \/ LoseLease \/ ValidateRequeue \/ Requeue
           \/ \E w \in Workers : Claim(w)
    PROVE  PipelineInv'
<1>0. /\ faults \in Nat /\ lease \in [Workers -> {"none", "held", "lost"}]
      /\ faults = 0 => LostForReason
  BY DEF PipelineInv
<1>1. CASE Submit \/ ValidateRequeue \/ Requeue
  <2>1. /\ UNCHANGED <<vars, lease, faults>>
        /\ job' \notin {"COMPLETED", "PARTIAL"} \/ job' = job
    BY <1>1 DEF Submit, ValidateRequeue, Requeue
  <2> QED
    BY <1>0, <2>1, QueueKeeps DEF LostForReason
<1>2. CASE RecoverStale
  <2>1. /\ UNCHANGED <<vars, faults>> /\ lease' = Outdated /\ ~Renewed
        /\ job' \in {"DEAD_LETTER", "RETRY_WAIT"}
    BY <1>2 DEF RecoverStale, Recovered
  <2>2. lease' \in [Workers -> {"none", "held", "lost"}]
    BY <1>0, <2>1 DEF Outdated
  <2>3. faults = 0 => \A w \in Workers : lease'[w] = "lost" =>
          pc[w] \in {"stopped", "dead"} \/ halted[w]
    BY <1>0, <2>1 DEF Outdated, Renewed, LostForReason
  <2> QED
    BY <1>0, <2>1, <2>2, <2>3, QueueKeeps
<1>3. CASE LoseLease
  <2>1. /\ UNCHANGED vars /\ lease' = Outdated /\ faults' = faults + 1
        /\ job' \in {"DEAD_LETTER", "RETRY_WAIT"}
    BY <1>3 DEF LoseLease, Recovered, Fault
  <2>2. lease' \in [Workers -> {"none", "held", "lost"}]
    BY <1>0, <2>1 DEF Outdated
  <2>3. faults' \in Nat /\ faults <= faults' /\ faults' # 0
    BY <1>0, <2>1
  <2> QED
    BY <2>1, <2>2, <2>3, QueueKeeps
<1>4. ASSUME NEW w \in Workers, Claim(w) PROVE PipelineInv'
  <2>1. /\ UNCHANGED <<vars, faults>> /\ lease' = [lease EXCEPT ![w] = "held"]
        /\ job' = "RUNNING"
    BY <1>4 DEF Claim
  <2>2. /\ lease' \in [Workers -> {"none", "held", "lost"}]
        /\ \A v \in Workers : lease'[v] = "lost" => lease[v] = "lost"
    BY <1>0, <2>1
  <2> QED
    BY <1>0, <2>1, <2>2, QueueKeeps DEF LostForReason
<1> QED
  BY <1>1, <1>2, <1>3, <1>4


\* Every step of the run, of the queue and of the adapter.
LEMMA PipelineNextKeeps == PipelineInv /\ [PipelineNext]_pipelineVars => PipelineInv'
<1> SUFFICES ASSUME PipelineInv, [PipelineNext]_pipelineVars PROVE PipelineInv'
  OBVIOUS
<1>1. CASE Submit \/ RecoverStale \/ LoseLease \/ ValidateRequeue \/ Requeue
  BY <1>1, QueueStepKeeps
<1>2. ASSUME NEW w \in Workers, WorkerStep(w) PROVE PipelineInv'
  <2>1. w \in Processes
    BY DEF Processes
  <2>2. CASE Claim(w)
    BY <2>2, QueueStepKeeps
  <2>3. CASE Process(w)
    BY <2>1, <2>3, RunStepKeeps DEF Process
  <2>4. CASE Complete(w) \/ Abandon(w)
    BY <2>1, <2>4, WorkerEndKeeps
  <2>5. CASE (Prepare(w) \/ Step(w)) /\ UNCHANGED jobVars
    BY <2>1, <2>5, RunStepKeeps
  <2>6. CASE Stop(w) /\ UNCHANGED jobVars
    BY <2>1, <2>6, WorkerEndKeeps
  <2> QED
    BY <1>2, <2>2, <2>3, <2>4, <2>5, <2>6 DEF WorkerStep
<1>3. ASSUME NEW w \in Workers, Notice(w) PROVE PipelineInv'
  BY <1>3, NoticeKeeps
<1>4. ASSUME NEW c \in Calls, CallStep(c) \/ StartCall(c) PROVE PipelineInv'
  <2>1. c \in Processes
    BY DEF Processes
  <2>2. CASE (CancelRun(c) \/ Step(c) \/ StartRetry(c) \/ StartCancel(c)) /\ UNCHANGED jobVars
    BY <2>1, <2>2, RunStepKeeps
  <2>3. CASE Leave(c) /\ UNCHANGED jobVars
    BY <2>1, <2>3, WorkerEndKeeps
  <2> QED
    BY <1>4, <2>2, <2>3 DEF CallStep, StartCall
<1>5. ASSUME NEW e \in Processes, Crash(e) PROVE PipelineInv'
  BY <1>5, WorkerEndKeeps
<1>6. CASE EditDocument /\ UNCHANGED jobVars
  <2>1. IInv'
    BY <1>6, EditDocumentKeeps DEF PipelineInv
  <2>2. UNCHANGED <<run, pc, halted, job, lease, faults>>
    BY <1>6 DEF EditDocument, processVars, jobVars
  <2> QED
    BY <2>1, <2>2 DEF PipelineInv, Begun, HaltedForReason, LostForReason, WorkGoesOn, Busy
<1>7. CASE CancelJob
  BY <1>7, CancelJobKeeps
<1>8. CASE UNCHANGED pipelineVars
  <2>1. IInv' /\ UNCHANGED <<run, pc, halted, job, lease, faults>>
    BY <1>8, UnchangedKeeps DEF PipelineInv, pipelineVars, jobVars, vars, dbVars, processVars
  <2> QED
    BY <2>1 DEF PipelineInv, Begun, HaltedForReason, LostForReason, WorkGoesOn, Busy
<1> QED
  BY <1>1, <1>2, <1>3, <1>4, <1>5, <1>6, <1>7, <1>8 DEF PipelineNext

\* Before its job is submitted, the run is new.
LEMMA PipelineInitHolds == PipelineInit => PipelineInv
<1> SUFFICES ASSUME PipelineInit PROVE PipelineInv
  OBVIOUS
<1>1. IInv
  BY InitHolds DEF PipelineInit
<1>2. /\ run.status = "CREATED" /\ run.log = << >> /\ job = "ABSENT" /\ faults = 0
      /\ \A e \in Processes : pc[e] = "idle" /\ ~halted[e]
      /\ lease = [w \in Workers |-> "none"]
  BY DEF PipelineInit, Init, NewRun
<1> QED
  BY <1>1, <1>2 DEF PipelineInv, Begun, HaltedForReason, LostForReason, WorkGoesOn

\* The invariant of the run and what ties its job to it hold in every state of
\* the run, the queue and the MCP adapter together.
THEOREM PipelineInvariance == PipelineSpec => []PipelineInv
BY PipelineInitHolds, PipelineNextKeeps, PTL DEF PipelineSpec

\* As long as no process died and no lease was lost, a job that was reported
\* by jobs/worker.py left its run settled or in the hands of another execution.
THEOREM JobDoneRunSettled == PipelineSpec => []JobDoneMeansRunSettled
<1>1. PipelineInv => JobDoneMeansRunSettled
  BY DEF PipelineInv, Begun, WorkGoesOn, JobDoneMeansRunSettled
<1> QED
  BY <1>1, PipelineInvariance, PTL


\* Leases that are lost, jobs that are delivered twice, cancelled and requeued
\* add no way to break the run: what is proved of it holds when its workers are
\* driven by the queue.
THEOREM PipelineKeepsRun ==
    PipelineSpec => [](AuditTrail /\ SingleExecutor /\ AttemptsLimited
                         /\ CompletedIsHandedOver /\ HandoffIsDecided)
<1>1. PipelineInv => AuditTrail /\ SingleExecutor /\ AttemptsLimited
                       /\ CompletedIsHandedOver /\ HandoffIsDecided
  BY InvariantGives DEF PipelineInv
<1> QED
  BY <1>1, PipelineInvariance, PTL

\* The stored status of a run follows the table of web_research/lifecycle.py,
\* also under the queue.
THEOREM PipelineRefinement == PipelineSpec => ImplementsResearchLifecycle
<1>1. PipelineInit => L!Init
  BY DEF PipelineInit, Init, L!Init, NewRun
<1>2. PipelineInv /\ [PipelineNext]_pipelineVars => [L!Next]_(run.status)
  <2> SUFFICES ASSUME IInv, [PipelineNext]_pipelineVars PROVE [L!Next]_(run.status)
    BY DEF PipelineInv
  <2>1. ASSUME NEW e \in Processes, Step(e) PROVE [L!Next]_(run.status)
    BY <2>1, StepMoves
  <2>2. ASSUME NEW e \in Processes, CancelRun(e) PROVE [L!Next]_(run.status)
    BY <2>2, CancelMoves
  <2>3. ASSUME NEW e \in Processes,
               \/ StartWork(e) \/ StartRetry(e) \/ StartCancel(e) \/ Prepare(e)
               \/ Halt(e) \/ Stop(e) \/ Die(e) \/ Leave(e)
        PROVE  UNCHANGED run
    BY <2>3 DEF StartWork, StartRetry, StartCancel, Start, Prepare, Halt, Stop, Die, Leave,
                Forget, dbVars
  <2>4. ASSUME NEW w \in Workers, WorkerStep(w) \/ Notice(w) PROVE [L!Next]_(run.status)
    <3>1. w \in Processes
      BY DEF Processes
    <3>2. CASE Claim(w)
      BY <3>2 DEF Claim, vars, dbVars
    <3>3. CASE Process(w) \/ Complete(w) \/ Abandon(w) \/ Prepare(w) \/ Stop(w) \/ Notice(w)
      BY <2>3, <3>1, <3>3 DEF Process, Complete, Abandon, Notice
    <3> QED
      BY <2>1, <2>4, <3>1, <3>2, <3>3 DEF WorkerStep
  <2>5. ASSUME NEW c \in Calls, CallStep(c) \/ StartCall(c) PROVE [L!Next]_(run.status)
    BY <2>1, <2>2, <2>3, <2>5 DEF CallStep, StartCall, Processes
  <2>6. ASSUME NEW e \in Processes, Crash(e) PROVE [L!Next]_(run.status)
    BY <2>3, <2>6 DEF Crash
  <2>7. CASE \/ Submit \/ RecoverStale \/ LoseLease \/ CancelJob \/ ValidateRequeue
             \/ Requeue \/ EditDocument \/ UNCHANGED pipelineVars
    BY <2>7 DEF Submit, RecoverStale, LoseLease, Recovered, CancelJob, ValidateRequeue,
         Requeue, EditDocument, pipelineVars, vars, dbVars
  <2> QED
    BY <2>4, <2>5, <2>6, <2>7 DEF PipelineNext
<1> QED
  BY <1>1, <1>2, PipelineInvariance, PTL DEF PipelineSpec, ImplementsResearchLifecycle, L!Spec
=============================================================================
