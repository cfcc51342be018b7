CONSTANTS
    r1 = r1
    r2 = r2
    d1 = d1
    d2 = d2
    None = None
    Reports = {r1, r2}
    Names = {d1, d2}
    MaxActions = 4
    MaxStamps = 3
    MaxQueue = 2
    MaxFaults = 1
    MaxReloads = 1
SPECIFICATION Spec
INVARIANTS RemovedIsGone
CHECK_DEADLOCK FALSE
