SPECIFICATION FairSpec
CONSTANTS
    t1 = t1
    j1 = j1
    j2 = j2
    w1 = w1
    w2 = w2
    NoJob = NoJob
    Tenants = {t1}
    Jobs = {j1}
    Workers = {w1, w2}
    TenantOf <- OneTenant
    max_concurrent_jobs <- LimitOne
    max_attempts = 2
    lease_seconds = 2
    base_backoff_seconds = 1
    maximum_backoff_seconds = 1
    MaxClockLag = 1
    MaxRequeues = 1
    MaxCrashes = 1
INVARIANTS
    SingleLeaseHolder
    AttemptsBounded
    LostLeaseNotReported
    HistoryExplainsRow
PROPERTIES
    LeaseRespected
    ImplementsLifecycle
    EveryJobEnds
