SPECIFICATION HistorySpec
CONSTANTS
    t1 = t1
    t2 = t2
    j1 = j1
    j2 = j2
    c1 = c1
    c2 = c2
    k1 = k1
    k2 = k2
    k3 = k3
    ok = ok
    None = None
    NoJob = None
    Tabs <- TwoTabs
    JobIds <- OneJob
    Connections <- OneConnection
    Keys <- OneKey
    Responses <- OneResponse
    ApiOf <- AllV3
    ByteLength <- OneByte
    ConnectionOf <- SameConnection
    MaxJobBytes = 1
    MaxTime = 1
    MaxRevision = 3
    MaxLanes = 1
    MaxRetries = 1
INVARIANTS
    CollectorIsCurrent
PROPERTIES
    NoEarlyFetch
    ImplementsClients
