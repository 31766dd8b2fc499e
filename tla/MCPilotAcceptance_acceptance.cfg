\* Two kinds of evidence, a deployment and its successor, four identities.
SPECIFICATION Spec
CONSTANTS
    tls = tls
    recovery = recovery
    old = old
    new = new
    REQUIRED_EVIDENCE = {tls, recovery}
    Findings <- Observations
    CommitKinds = {recovery}
    Subjects = {old, new}
    TenantOf <- Tenants
    CommitOf <- Releases
    Creators = {"creator"}
    Reviewers = {"creator", "reviewer", "outsider", "agent"}
    IdentityOf <- Identities
    NoBundle = NoBundle
    max_age = 1
    MaxTime = 2
    MaxArtifacts = 2
    MaxVerdicts = 1
CHECK_DEADLOCK FALSE
INVARIANTS
    AcceptedIsEvidenced
