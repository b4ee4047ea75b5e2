SPECIFICATION FairSpec
CONSTANTS
    Jobs = {1, 2}
    Kinds = {"reload", "unknown"}
    Pollers = {p1, p2}
    Callers = {c1}
    JobTimeout = 1
    LockWait = 1
    StaleAfter = 5
    MaxFaults = 1
    NoJob = NoJob
INVARIANTS
    JobsRunOnce
PROPERTIES
    ResultsAreTrue
    JobsEnd
