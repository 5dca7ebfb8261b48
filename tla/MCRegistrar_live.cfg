CONSTANTS
    Repos = {"ra", "rb", "rc"}
    Order <- ListOrder
    Reachable = {"rb", "rc"}
    MaxTries = 2
    MaxMoves = 2
    MaxDeleted = 1
    MaxCrashes = 2
SPECIFICATION FairSpec
INVARIANTS
    OneHookEach
    SignedSinceBoot
PROPERTIES
    HooksFollowTheTunnel
