CONSTANTS
    k1 = k1
    k2 = k2
    None = None
    Tabs = {t1}
    Calls = {1, 2}
    Order <- TwoItems
    Texts <- MCTexts
    Rewrite <- MCRewrite
    Before <- OldTwo
    Controls <- PauseControls
    Faults <- ThrottleOnly
    MaxRev = 8
    MaxEdits = 0
    MaxFaults = 1
SPECIFICATION Spec
INVARIANTS RateLimitIsSaved
CHECK_DEADLOCK FALSE
