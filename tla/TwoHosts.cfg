SPECIFICATION Spec
CONSTANTS
    LocalHost = "board"
    LocalPort = 1337
    SequenceSpace = 16
    MaxRetries = 1
    RetryPeriod = 1
    Duplicating = TRUE
    FrameResults = {TRUE, FALSE}
    Peers = {"a", "b"}
    Isn <- IsnMixed
    StreamLength = 1
    MaxSegment = 1
    Trailings = {0}
    ProbePorts = {}
    Aborts = {"b"}
INVARIANTS
    DeliveredPayloadStored
    FinishedIsMutual
    ClosedForCause
PROPERTIES
    NeverTakenBack
