SPECIFICATION LiveSpec
CONSTANTS
    LocalHost = "board"
    LocalPort = 1337
    SequenceSpace = 16
    MaxRetries = 1
    RetryPeriod = 1
    Duplicating = FALSE
    FrameResults = {TRUE}
    Peers = {"a"}
    Isn <- IsnLow
    StreamLength = 1
    MaxSegment = 1
    Trailings = {0}
    ProbePorts = {}
    Aborts = {}
    MaxLosses = 2
    FinWithData = FALSE
PROPERTIES
    ClosesAfterRemoteFinishes
