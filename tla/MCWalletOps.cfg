SPECIFICATION ReferralsSpec
CONSTANTS
    Users = {u1}
    References = {}
    Keys = {k1}
    Requests = {r1, r2}
    NoUser = NoUser
    NoKey = NoKey
    TTL = 0
    GrantTimes = {1}
    MaxTime = 1
    MaxRows = 3
    Newcomers = {n1}
    Updates = {m1, m2}
    Rewards = {0, 2}
    Unknown = Unknown
    Changes <- MCChanges
    Prices <- MCPrices
SYMMETRY MCSymmetry
INVARIANTS
    LedgerExplainsBalance
    OpsAreAccountedFor
    ReferralsPayOnce
