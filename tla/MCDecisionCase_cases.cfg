\* Two requests at a time on one case, and a hand-off of Research evidence.
SPECIFICATION Spec
CONSTANTS
    g = g
    v = v
    w = w
    None = None
    Actors = {g, v, w}
    RolesOf <- MCRolesOf
    PrimaryRole <- MCPrimaryRole
    KindOf <- MCKindOf
    Calls = {c1, c2}
    Keys = {k1}
    Files <- MCFiles
    StatusOf <- MCStatusOf
    Handoffs = {h1}
    MaxEvents = 6
SYMMETRY CallSymmetry
INVARIANTS
    TablesAgree
    OncePerKey
    ApprovalIsSound
    ExportTellsHistory
CHECK_DEADLOCK FALSE
