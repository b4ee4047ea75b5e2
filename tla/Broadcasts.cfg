SPECIFICATION FairSpec
CONSTANTS
    Jobs = {1}
    Users = {u1, u2}
    Workers = {w1, w2}
    Callers = {c1}
    Audiences = {{u1}, {u1, u2}}
    Outcomes = {"sent", "content", "network", "flood_pause", "unreachable"}
    BatchSize = 2
    MaxAttempts = 2
    MinFailures = 2
    Prompt = TRUE
    MaxFaults = 1
    NoJob = NoJob
INVARIANTS
    ClaimsAndCountersAgree
PROPERTIES
    ResultsAreFinal
    
CHECK_DEADLOCK FALSE
