SPECIFICATION FairSpec
CONSTANTS
    Checks = {c1, c2}
    Settle = 1
    Cap = 2
    MaxErrors = 2
    MaxCrashes = 2
INVARIANTS
    CommentMatchesVerdict
    OneComment
    AnnouncedIsPosted
    NoSilentVerdict
    WaitIsBounded
PROPERTIES
    AgreesWithResolveGate
    ImplementsWatch
    GateResolves
