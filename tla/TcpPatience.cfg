SPECIFICATION PatienceSpec
CONSTANTS
    LocalHost = "board"
    LocalPort = 1337
    SequenceSpace = 16
    MaxRetries = 5
    RetryPeriod = 2
    Duplicating = TRUE
    FrameResults = {TRUE}
    Peers = {"a"}
    Isn <- IsnLow
    StreamLength = 1
    MaxSegment = 1
    Trailings = {0}
    ProbePorts = {80}
    Aborts = {}
INVARIANTS
    GivesUpLate
    RetriesTakeTime
PROPERTIES
    LeftAloneComesToRest
