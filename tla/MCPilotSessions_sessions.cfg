\* Two BFF processes, two browsers, a key rotation and a policy upgrade.
SPECIFICATION Spec
CONSTANTS
    Kids = {k1, k2}
    EncryptionKids = {e1}
    cache_ttl = 1
    maximum_keys = 3
    clock_skew = 0
    MaxTime = 2
    Bffs = {f1, f2}
    Browsers = {w1, w2}
    Actors = {admin, user}
    CriticalActors = {admin}
    Requests = {r1}
    login_ttl = 1
    login_capacity = 1
    session_ttl = 1
    expires_in = 2
    max_auth_age = 1
    MaxVersion = 2
    MaxLogins = 2
    MaxSessions = 2
SYMMETRY SessionSymmetry
CHECK_DEADLOCK FALSE
INVARIANTS
    TypeOK
    LoginOpensOnce
    ServedKeyIsCurrent
PROPERTIES
    EndedStaysEnded
    CriticalIsFresh
