CONSTANTS
    RunIds = {r1}
    NoRun = NoRun
    Approvals = {a1, a2}
    Nobody = Nobody
    AutoMerge = TRUE
    MaxPushes = 1
    MaxLost = 0
    MaxCrashes = 0
SPECIFICATION Spec
CHECK_DEADLOCK FALSE
SYMMETRY Symmetry
INVARIANTS
    PostedOncePerRun
