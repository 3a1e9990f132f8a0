SPECIFICATION FairSpec
CONSTANTS
    Opening = {"a"}
    ClosesIn <- ListenerCloses
    Prompt = TRUE
    SequenceSpace = 16
    MaxRetries = 5
    RetryPeriod = 1
    Duplicating = FALSE
    FrameResults = {TRUE}
PROPERTIES
    OpenCompletes
    CloseCompletes
