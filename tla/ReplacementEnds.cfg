CONSTANTS
    k1 = k1
    k2 = k2
    None = None
    Tabs = {t1}
    Calls = {1, 2}
    Order <- OneItem
    Texts <- MCTexts
    Rewrite <- MCRewrite
    Before <- OldOne
    Controls <- AllControls
    Faults <- AllFaults
    MaxRev = 12
    MaxEdits = 1
    MaxFaults = 1
SPECIFICATION Spec
INVARIANTS TypeOK
PROPERTIES ImplementsReview RunEnds
CHECK_DEADLOCK FALSE
