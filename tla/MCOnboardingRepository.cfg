CONSTANTS
    RequestIds = {r1, r2, r3}
    Users = {u1}
    Targets = {t1}
    Actors = {o1, o2}
    Identities = {i1}
    Accounts = {a1}
    Messages = {m1, m2}
    MaxAttempts = 2
    MaxPosts = 2
    None = None
    NoRow = NoRow
SPECIFICATION RepoSpec
SYMMETRY Symmetry
INVARIANTS
    RepoTypeOK
    SchemaChecks
    OneActiveRequest
    AuditReconstructsRow
PROPERTY DecisionIsFinal
CHECK_DEADLOCK FALSE
