CONSTANTS
    PRs = {1, 2}
    Repos = {"ra"}
    RepoOf <- OneRepo
    Managed = {"ra"}
    Denied = {}
    Own = {1}
    PageSize = 1
    MaxHeads = 1
    MaxChanges = 3
    MaxFaults = 1
    MaxCrashes = 1
SPECIFICATION Spec
CHECK_DEADLOCK FALSE
INVARIANTS
    NoHeadIsForgotten
    RequestsAreWarranted
    RequestedOnce
PROPERTIES
    EachHeadIsFollowed
