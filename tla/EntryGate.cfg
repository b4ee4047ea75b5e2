CONSTANTS
    Users = {u1}
    Channels = {c1}
    Requests = {r1, r2}
    Nobody = Nobody
    OkTTL = 2
    MissingTTL = 2
    DegradedTTL = 1
    Required = 1
    MaxMoves = 2
SPECIFICATION EntryFairSpec
INVARIANT VerdictsAreTrue
PROPERTY AnswersSettle
