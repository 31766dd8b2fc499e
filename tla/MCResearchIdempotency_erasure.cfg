\* One tool call, answered, and then the erasure of its case.
SPECIFICATION Spec
CONSTANTS
    Calls = {c1}
    StartKeys = {start}
    MutationKeys = {mutation}
    CreateKeys = {}
    ActionKeys = {}
    Hashes = {h1}
    MaxEffects = 1
    MaxFaults = 0
CHECK_DEADLOCK FALSE
INVARIANT
    ErasedMeansForgotten
