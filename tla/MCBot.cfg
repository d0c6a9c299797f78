CONSTANTS
    u1 = u1
    e1 = e1
    e2 = e2
    RequestIds = {r1}
    Users = {u1}
    Targets = {t1}
    Actors = {o1}
    Accounts = {a1, a2}
    Messages = {m1}
    Emails = {e1, e2}
    Identities <- AllIdentities
    Username <- Namesakes
    Registered = {e2}
    Tasks = {w1}
    Handlers = {"onboard", "approve"}
    Drifts = {"role", "identity"}
    MaxAttempts = 1
    MaxPosts = 1
    MaxAborts = 0
    MaxLate = 0
    Names = {n1}
    Codes = {c1, c2}
    MaxFailedAttempts = 1
    Clerks = {k1, k2}
    Reads <- OwnAddress
    MaxMishaps = 0
    Reserve = 0
    None = None
    NoRow = NoRow
SPECIFICATION BotSpec
SYMMETRY Symmetry
VIEW View
INVARIANTS
    AccessIsProved
    LinkReachesOwner
PROPERTY
    ImplementsOnboarding
