-------------------------- MODULE ResearchLifecycle --------------------------
(***************************************************************************)
(* What web_research/lifecycle.py promises about the status of one         *)
(* Research run.  The orchestrator consults this table for the copy of the *)
(* run in its own memory; that the status stored in research_runs, which   *)
(* several processes overwrite, also follows it is something to show:      *)
(* module ResearchRun implements Spec.                                     *)
(***************************************************************************)
VARIABLE status             \* research_runs.status

ResearchStatus == {"CREATED", "SEARCHING", "SOURCES_DISCOVERED", "EXTRACTING",
                   "EVIDENCE_COMPILED", "COMPLETED", "PARTIALLY_COMPLETED",
                   "FAILED", "CANCELLED"}

\* _ALLOWED
Allowed ==
    {<<"CREATED", "SEARCHING">>,
     <<"SEARCHING", "SOURCES_DISCOVERED">>,
     <<"SOURCES_DISCOVERED", "EXTRACTING">>,
     <<"EXTRACTING", "EVIDENCE_COMPILED">>,
     <<"EVIDENCE_COMPILED", "COMPLETED">>}
      \cup ({"SEARCHING", "SOURCES_DISCOVERED", "EXTRACTING", "EVIDENCE_COMPILED"}
              \X {"FAILED"})
      \cup ({"EXTRACTING", "EVIDENCE_COMPILED"} \X {"PARTIALLY_COMPLETED"})

\* _RETRY: the moves that only an explicit retry may make.
Retry == ({"FAILED"} \X {"SEARCHING", "EXTRACTING"})
           \cup {<<"PARTIALLY_COMPLETED", "EXTRACTING">>}

\* _CANCELLABLE
Cancellable == ResearchStatus \ {"COMPLETED", "CANCELLED"}

\* transition(): the pairs it accepts.
Moves == Allowed \cup Retry \cup (Cancellable \X {"CANCELLED"})

Init == status = "CREATED"

\* The stored status moves along the table.  A run whose evidence is compiled
\* is not stored until it is complete, so one step may pass through
\* EVIDENCE_COMPILED.
Transition(target) ==
    /\ \/ <<status, target>> \in Moves
       \/ /\ <<status, "EVIDENCE_COMPILED">> \in Moves
          /\ <<"EVIDENCE_COMPILED", target>> \in Moves
    /\ status' = target

Next == \E target \in ResearchStatus : Transition(target)

Spec == Init /\ [][Next]_status
=============================================================================
