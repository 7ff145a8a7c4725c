SPECIFICATION MCSpec
CONSTANTS
    Requests = {r1, r2}
    Tenants = {1, 2}
    Users = {1, 2}
    Members = {1}
    rec1 = rec1
    rec2 = rec2
    rec3 = rec3
    first = first
    second = second
    Clerks = {x, y}
    Records = {rec1, rec2, rec3}
    Files <- FilesDef
    KeyOf <- KeyOfDef
    ChunkSize = 2
    Keys = {1, 2}
    Publications = {1}
    NoFile = NoFile
    Nobody = Nobody
    MaxStarts = 3
    MaxStaff = 3
    MaxEdits = 2
    Values = {1, 2}
    Stopped = {2}
    MaxChanges = 1
    MaxTouches = 1
    MaxRequests = 2
INVARIANTS
    DeadlockNeedsProvisioning
    ImportsAreExact
    FormsSaveWhatWasChanged
PROPERTY
    EveryRequestEnds
CHECK_DEADLOCK FALSE
