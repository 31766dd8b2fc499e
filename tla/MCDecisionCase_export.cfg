\* A case with Research evidence is exported by a service that signs.
SPECIFICATION Spec
CONSTANTS
    g = g
    v = v
    w = w
    None = None
    Actors = {g, v, w}
    RolesOf <- MCRolesOf
    PrimaryRole <- MCPrimaryRole
    KindOf <- MCKindOf
    Calls = {c1, c2}
    Keys = {k1}
    Files <- MCDrafts
    StatusOf <- MCStatusOf
    Handoffs = {h1}
    MaxEvents = 6
INVARIANT ExportVerifies
CHECK_DEADLOCK FALSE
