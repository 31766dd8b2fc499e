SPECIFICATION FairSpec
CONSTANTS
    c1 = c1
    r1 = r1
    r2 = r2
    p1 = p1
    p2 = p2
    None = None
    Cases = {c1}
    Requests = {r1, r2}
    CaseOf <- AllForOneCase
    Calls = {p1, p2}
    MaxCrashes = 1
    MaxCreations = 2
    MaxHoldEvents = 4
INVARIANTS
    LifecycleHistory
    HoldHistory
PROPERTIES
    HoldWins
    CompletionIsErasure
    ExecutionConcludes
CHECK_DEADLOCK FALSE
