CONSTANTS
    u1 = u1
    e1 = e1
    e2 = e2
    Users = {u1}
    Addresses = {e1, e2}
    Names = {n1}
    Codes = {c1, c2, c3}
    MaxFailedAttempts = 2
    Tasks = {w1, w2}
    Reads <- OneAddress
    MaxMishaps = 1
    Reserve = 0
    None = None
SPECIFICATION Spec
SYMMETRY Symmetry
INVARIANTS
    TypeOK
    GuessesAreLimited
    CodesAreUsedOnce
    IdentityIsProved
PROPERTIES
    StandingIsEarned
    DeliveredCodeStays
    ImplementsVerification
