\* Two workers and a call of the API on a run with two sources, a retry, an edited
\* decision and processes that die.
CONSTANTS
    Workers = {w1, w2}
    Calls = {c1}
    max_search_results = 2
    max_sources_to_extract = 2
    provider_budget = 3
    max_attempts_per_operation = 1
    Contradictions = {{1, 2}}
    ProcessesDie = TRUE
    MaxStarts = 2
    MaxDocument = 2
SYMMETRY Symmetry
SPECIFICATION Spec
INVARIANTS
    AuditTrail
    SingleExecutor
    AttemptsLimited
    CompletedIsHandedOver
    HandoffIsDecided
PROPERTY ImplementsResearchLifecycle
CHECK_DEADLOCK FALSE
