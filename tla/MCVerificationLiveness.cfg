CONSTANTS
    u1 = u1
    e1 = e1
    e2 = e2
    Users = {u1}
    Addresses = {e1, e2}
    Names = {n1}
    Codes = {c1, c2}
    MaxFailedAttempts = 1
    Tasks = {w1, w2}
    Reads <- OneAddress
    MaxMishaps = 1
    Reserve = 1
    None = None
SPECIFICATION FairSpec
PROPERTY MemberIsSettled
