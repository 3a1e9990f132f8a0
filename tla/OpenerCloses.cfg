SPECIFICATION FairSpec
CONSTANTS
    Opening = {"a"}
    ClosesIn <- OpenerCloses
    Prompt = TRUE
    SequenceSpace = 16
    MaxRetries = 5
    RetryPeriod = 1
    Duplicating = FALSE
    FrameResults = {TRUE}
PROPERTIES
    CloseCompletes
