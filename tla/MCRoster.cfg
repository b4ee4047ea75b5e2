CONSTANTS
    Users = {a, b}
    AdminIds = {a}
    Sessions = {s1, s2}
    Requests = {r1, r2}
    NoUser = NoUser
    NoCall = NoCall
    LinkTTL = 2
    SessionTTL = 1
    MaxTime = 1
    Calls <- MCCalls
    Starts <- MCStarts
    MaxStops = 1
SYMMETRY Same
SPECIFICATION MCSpec
INVARIANT SignedOutStaysOut
INVARIANT SchemaIsWhole
PROPERTY RosterIsGuarded
CHECK_DEADLOCK FALSE
