CONSTANTS
    PRs = {1}
    Repos = {"ra"}
    RepoOf <- OneRepo
    Managed = {"ra"}
    Denied = {}
    Own = {1}
    PageSize = 2
    MaxHeads = 1
    MaxChanges = 3
    MaxFaults = 0
    MaxCrashes = 2
SPECIFICATION FairSpec
CHECK_DEADLOCK FALSE
PROPERTIES
    EveryHeadIsRequested
