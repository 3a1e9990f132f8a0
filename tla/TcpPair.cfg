SPECIFICATION Spec
CONSTANTS
    Opening = {"a"}
    ClosesIn <- BothClose
    Prompt = FALSE
    SequenceSpace = 16
    MaxRetries = 5
    RetryPeriod = 1
    Duplicating = TRUE
    FrameResults = {TRUE, FALSE}
INVARIANTS
    NumbersAgree
    FinishedMeansClosed
    FinAcknowledgedMeansTaken
