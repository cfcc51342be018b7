SPECIFICATION Spec
CONSTANTS
    j1 = j1
    j2 = j2
    c1 = c1
    c2 = c2
    k1 = k1
    k2 = k2
    small = small
    large = large
    NoJob = NoJob
    JobIds <- MCJobIds
    Connections <- MCConnections
    Keys <- MCKeys
    Responses <- MCResponses
    ApiOf <- MCApiOf
    ByteLength <- MCByteLength
    MaxJobBytes = 3
    MaxTime = 2
    MaxRevision = 2
INVARIANTS
    TypeOK
    CountersMatchJournal
    BytesMatchJournal
    RevisionIdentifiesJob
PROPERTIES
    DeadlinesSurvive
    JournalGrows
    GoneForever
SYMMETRY Symmetry
CHECK_DEADLOCK FALSE
