CONSTANTS
    Envelopes = {"approve", "command"}
    NoEnvelope = "none"
    MaxBreaks = 2
    MaxCrashes = 1
SPECIFICATION FairSpec
CHECK_DEADLOCK FALSE
INVARIANTS
    AcknowledgedIsHandled
PROPERTIES
    EveryEnvelopeArrives
