CONSTANTS
    u1 = u1
    e1 = e1
    e2 = e2
    Users = {u1}
    Addresses = {e1, e2}
    Names = {n1}
    Codes = {c1, c2}
    MaxFailedAttempts = 2
    Tasks = {w1, w2}
    Reads <- TwoOwnAddresses
    MaxMishaps = 0
    Reserve = 0
    None = None
SPECIFICATION Spec
PROPERTY AddressIsKept
