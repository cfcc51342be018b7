SPECIFICATION FairSpec
CONSTANTS
    t1 = t1
    t2 = t2
    j1 = j1
    j2 = j2
    c1 = c1
    c2 = c2
    k1 = k1
    k2 = k2
    k3 = k3
    ok = ok
    None = None
    NoJob = None
    Tabs <- OneTab
    JobIds <- OneJob
    Connections <- OneConnection
    Keys <- ThreeKeys
    Responses <- OneResponse
    ApiOf <- AllV2
    ByteLength <- OneByte
    ConnectionOf <- SameConnection
    MaxJobBytes = 3
    MaxTime = 2
    MaxRevision = 4
    MaxLanes = 2
    MaxRetries = 0
INVARIANTS
    CollectedIsSaved
PROPERTIES
    NoEarlyFetch
    LockIsReleased
