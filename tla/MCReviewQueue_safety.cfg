CONSTANTS
    RunIds = {r1, r2, r3}
    Workers = {w1, w2}
    PRs = {p1, p2}
    Heads = {h1, h2}
    NoHead = NoHead
    NoRow = NoRow
    NoRun = NoRun
    MaxAttempts = 1
    CapPolls = 1
    MaxCrashes = 1
    MaxBusy = 1
SPECIFICATION Spec
SYMMETRY Symmetry
INVARIANTS
    TypeOK
    QueuedSetIsInQueue
    QueueHasNoDuplicates
    ExecutionIsExclusive
    NoRunIsStranded
    NoLostWakeup
PROPERTIES
    ImplementsLifecycle
    EachRunIsWatched
