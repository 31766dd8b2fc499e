\* Cancellations, a retry and a requeue, and processes that die or lose their lease.
CONSTANTS
    Workers = {w1}
    Calls = {c1}
    max_search_results = 1
    max_sources_to_extract = 1
    provider_budget = 2
    max_attempts_per_operation = 1
    Contradictions = {}
    ProcessesDie = TRUE
    MaxStarts = 1
    MaxDocument = 1
    max_attempts = 2
    MaxFaults = 1
    MaxRequeues = 1
SPECIFICATION FairPipelineSpec
INVARIANT JobDoneMeansRunSettled
PROPERTIES
    JobEnds
    RunSettlesUnlessFaulty
CHECK_DEADLOCK FALSE
