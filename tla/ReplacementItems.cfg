CONSTANTS
    k1 = k1
    k2 = k2
    None = None
    Tabs = {t1}
    Calls = {1, 2}
    Order <- TwoItems
    Texts <- MCTexts
    Rewrite <- MCRewrite
    Before <- OldTwo
    Controls <- ItemControls
    Faults <- AllFaults
    MaxRev = 12
    MaxEdits = 1
    MaxFaults = 1
SPECIFICATION Spec
INVARIANTS AppliedWasSeen StoppedJobHasNoWork ReplacedIsKnown
CHECK_DEADLOCK FALSE
