CONSTANTS
    RunIds = {r1, r2}
    Workers = {w1, w2}
    PRs = {p1}
    Heads = {h1, h2}
    NoHead = NoHead
    NoRow = NoRow
    NoRun = NoRun
    MaxAttempts = 1
    CapPolls = 1
    MaxCrashes = 1
    MaxBusy = 1
SPECIFICATION FairSpec
PROPERTIES
    EveryRunSettles
