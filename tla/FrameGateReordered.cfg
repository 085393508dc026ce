SPECIFICATION TimelySpec
CONSTANTS
    Stream <- OneEpoch
    MaxBufferedFrames = 4
    RecoveryTimeout = 4
    NackDelay = 3
    NackRetry = 1
    PlainRtp = FALSE
PROPERTY FreezeOnlyAfterTimeout
