SPECIFICATION Spec
CONSTANTS
    t1 = t1
    t2 = t2
    j1 = j1
    j2 = j2
    c1 = c1
    c2 = c2
    k1 = k1
    k2 = k2
    k3 = k3
    ok = ok
    None = None
    NoJob = None
    Tabs <- TwoTabs
    JobIds <- TwoJobs
    Connections <- TwoConnections
    Keys <- TwoKeys
    Responses <- OneResponse
    ApiOf <- AllV2
    ByteLength <- OneByte
    ConnectionOf <- OwnConnection
    MaxJobBytes = 2
    MaxTime = 0
    MaxRevision = 4
    MaxLanes = 1
    MaxRetries = 0
INVARIANTS
    TypeOK
    ResultsAreComplete
PROPERTIES
    UnfinishedKept
SYMMETRY SameJobs
