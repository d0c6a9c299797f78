CONSTANTS
    RequestIds = {r1, r2}
    Users = {u1, u2}
    Targets = {t1, t2}
    Actors = {o1}
    Accounts = {a1, a2}
    Messages = {m1, m2}
    Emails = {e1, e2, e3}
    e1 = e1
    e2 = e2
    e3 = e3
    n1 = n1
    n2 = n2
    Identities <- ThreeAddresses
    Username <- Namesakes
    Tasks = {w1, w2}
    Handlers = {"onboard", "approve"}
    Drifts = {}
    MaxAttempts = 1
    MaxPosts = 1
    Registered = {}
    MaxAborts = 0
    MaxLate = 0
    None = None
    NoRow = NoRow
SPECIFICATION Spec
SYMMETRY NamesakeSymmetry
INVARIANT CompletedMeansProvisioned
PROPERTY ImplementsLifecycle
CHECK_DEADLOCK FALSE
