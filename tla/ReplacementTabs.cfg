CONSTANTS
    k1 = k1
    k2 = k2
    None = None
    Tabs = {t1, t2}
    Calls = {1, 2}
    Order <- OneItem
    Texts <- MCTexts
    Rewrite <- MCRewrite
    Before <- OldOne
    Controls <- TabControls
    Faults <- StorageFaults
    MaxRev = 5
    MaxEdits = 1
    MaxFaults = 1
SPECIFICATION Spec
INVARIANTS RevisionIdentifiesJob
PROPERTIES DeletedStays
CHECK_DEADLOCK FALSE
