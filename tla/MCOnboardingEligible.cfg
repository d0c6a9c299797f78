CONSTANTS
    RequestIds = {r1}
    Users = {u1}
    Targets = {t1}
    Actors = {o1}
    Accounts = {a1}
    Messages = {m1}
    Emails = {e1}
    e1 = e1
    e2 = e2
    e3 = e3
    n1 = n1
    n2 = n2
    Identities <- TwoNames
    Username <- DistinctUsernames
    Tasks = {w1, w2}
    Handlers = {"onboard", "approve", "retry"}
    Drifts = {"identity"}
    MaxAttempts = 2
    MaxPosts = 1
    Registered = {}
    MaxAborts = 1
    MaxLate = 0
    None = None
    NoRow = NoRow
SPECIFICATION Spec
INVARIANT VerifiedIsEligible
