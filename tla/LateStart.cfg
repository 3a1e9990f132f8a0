SPECIFICATION Spec
CONSTANTS
    LocalHost = "board"
    LocalPort = 1337
    SequenceSpace = 16
    MaxRetries = 1
    RetryPeriod = 1
    Duplicating = TRUE
    FrameResults = {TRUE}
    Peers = {"a"}
    Isn <- IsnLow
    StreamLength = 2
    MaxSegment = 2
    Trailings = {0}
    ProbePorts = {}
    Aborts = {}
INVARIANTS
    PayloadAtBufferStart
