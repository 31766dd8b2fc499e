SPECIFICATION Spec
CONSTANTS
    a1 = a1
    a2 = a2
    None = None
    Actors = {a1, a2}
    RoleOf <- MCRoleOf
    KindOf <- MCKindOf
    Inputs <- MCInputs
    policy <- MCPolicy
    Calls = {c1, c2}
    Keys = {k1}
    Confirmations <- MCConfirmations
    Posted <- MCPosted
    MaxRequests = 4
SYMMETRY CallSymmetry
INVARIANTS
    TablesAgree
    ReadyIsVerified
    DecisionIsGrounded
    ApprovalsAreReal
CHECK_DEADLOCK FALSE
