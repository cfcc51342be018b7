CONSTANTS
    q0 = q0
    q1 = q1
    q2 = q2
    q3 = q3
    a1 = a1
    b1 = b1
    None = None
    Delays = {0}
    Fallback = 2
    MaxRetries = 2
    MaxRetryWait = 2
    MaxCumulativeRetryWait = 3
    Starts <- MCStarts
    Searches = {"term1", "term2"}
    FirstSite <- MCSite
    AnswerList <- MCAnswers
    Candidates <- MCCandidates
    Matches <- MCMatches
    Added <- MCAdded
    Removed = {q0, a1, b1}
    PageSize = 2
    BatchSize = 2
    Capacity = 2
    Faults <- AllFaults
    MaxRev = 8
    MaxRefusals = 3
    MaxEdits = 1
    MaxFaults = 1
SPECIFICATION Spec
INVARIANTS TypeOK NothingMissed InspectedOnce ReadIsBounded
PROPERTIES ScanEnds
CHECK_DEADLOCK FALSE
