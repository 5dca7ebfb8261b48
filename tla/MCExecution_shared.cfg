CONSTANTS
    Workers = {w1, w2}
    Repos = {ra, rb, rc}
    NoRepo = NoRepo
    Heads = {h1, h2}
    NoHead = NoHead
    Fitting <- OneClone
    MaxTime = 1
    Runs = {j1, j2}
    NoRun = NoRun
    MaxAttempts = 1
    MaxCrashes = 1
SPECIFICATION Spec
CHECK_DEADLOCK FALSE
SYMMETRY Symmetry
INVARIANTS
    ReadsItsHead
