CONSTANTS
    Callers = {c1, c2}
    MaxTokens = 4
    None = None
SPECIFICATION FairSpec
INVARIANTS
    TypeOK
    RetryUsesNewerToken
PROPERTIES
    GoodTokenStays
    LoginsAreNeeded
    CallsReturn
    ImplementsCalls
