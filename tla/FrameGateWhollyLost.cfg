SPECIFICATION TimelySpec
CONSTANTS
    Stream <- TwoEpochs
    MaxBufferedFrames = 3
    RecoveryTimeout = 4
    NackDelay = 3
    NackRetry = 1
    PlainRtp = FALSE
INVARIANT MissingFramesAreRequested
