SPECIFICATION Spec
CONSTANTS
    cycleInSeconds = 2
    baseFrequency = 4
    scale = 2
    MaxElapsed = 18
    Leftovers = {0, 3, 20}
    WordSpace = 16
    blockSize = 6
    magicSeed <- MCMagicSeed
    checkSumSeed = 11
    Contents <- MCContents
    Leftover = {0, 1, 15}
INVARIANTS
    BootTypeOK
    FailureReported
    UptimeExact
    VerdictIsRight
CHECK_DEADLOCK FALSE
