CONSTANTS
    RunIds = {r1, r2}
    NoRun = NoRun
    Approvals = {a1, a2}
    Nobody = Nobody
    AutoMerge = TRUE
    MaxPushes = 1
    MaxLost = 1
    MaxCrashes = 1
SPECIFICATION Spec
CHECK_DEADLOCK FALSE
SYMMETRY Symmetry
CONSTRAINT OneDisturbance
INVARIANTS
    TypeOK
    ReviewIsReleasedOnce
    OnePostPerApproval
    StagedOncePerLife
    ReviewIsKept
PROPERTIES
    ImplementsLifecycle
    ImplementsPublication
