\* Three concurrent calls over one key of each kind.
SPECIFICATION FairSpec
CONSTANTS
    Calls = {c1, c2, c3}
    StartKeys = {start}
    MutationKeys = {mutation}
    CreateKeys = {create}
    ActionKeys = {action}
    Hashes = {h1, h2}
    MaxEffects = 3
    MaxFaults = 1
CHECK_DEADLOCK FALSE
INVARIANTS
    ReservationIsOwned
    OneAnswer
PROPERTIES
    AnsweredNeverRepeats
    ReservationSettles
