SPECIFICATION MCSpec
CONSTANTS
    Requests = {r1, r2}
    Conns = {c1, c2}
    None = None
    PoolSize = 2
    MaxSize = 2
    BatchSize = 2
    MaxEvents = 3
    Rows = {1, 2, 3, 4}
    Keys = {1, 2}
    Null = Null
    Out = Out
    NoCursor = NoCursor
    Lists <- AllLists
    Limit = 2
    ExportMax = 3
    MaxChanges = 2
    Links = {l1}
    Downloads = {d1, d2}
    LinkLife = 2
    ClaimLife = 4
    DownloadTime = 1
    MaxTime = 7
    Categories = {k1, k2}
    Articles = {a1}
    Tips = {t1}
    Editors = {e1, e2}
    Plain = Plain
    Absent = Absent
    MaxWrites = 3
    Vacancies = {v1, v2, v3}
    Savers = {s1, s2}
    FreeLimit = 2
    Storages = {"memory", "redis"}
    Taps = {h1, h2}
    MaxNonce = 2
    MaxDrafts = 2
    Devices = {d3, d4}
    Calls = {q1, q2}
    MaxEdits = 1
    MaxSecond = 2
    MaxReopens = 1
    MaxRepeats = 1
    NoDevice = NoDevice
INVARIANTS
    
    EventsAreAccountedFor
    
    LinksServeOnce
    ContentStandsTogether
    SavesAreLimited
    
    
SYMMETRY MCSymmetry
