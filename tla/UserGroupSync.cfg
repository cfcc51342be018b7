CONSTANTS
    f1 = f1
    f2 = f2
    g1 = g1
    g2 = g2
    u1 = u1
    u2 = u2
    u3 = u3
    u4 = u4
    None = None
    Files = {f1, f2}
    Wanted <- MCWanted
    Blocked = {f2}
    Users = {u1, u2, u3, u4}
    Known = {u1, u2, u3}
    Order <- MCOrder
    FirstGroups <- MCFirst
    Slots = {1, 2}
    Delays = {}
    Fallback = 2
    MaxRetries = 0
    MaxRetryWait = 6
    MaxCumulativeRetryWait = 6
    MaxChoices = 3
    MaxEdits = 1
    MaxRefusals = 2
    MaxFaults = 1
    MaxRequests = 3
SPECIFICATION Spec
INVARIANTS TypeOK WritesWereShown WantedIsKept NoneLostBeforeAdded EveryGroupTried ReportedIsDone
PROPERTIES PanelAnswers
CHECK_DEADLOCK FALSE
