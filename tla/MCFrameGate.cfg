SPECIFICATION FairSpec
CONSTANTS
    Stream <- TwoEpochs
    MaxBufferedFrames = 2
    RecoveryTimeout = 4
    NackDelay = 3
    NackRetry = 1
    PlainRtp = TRUE
INVARIANTS
    TypeOK
    BufferBounded
    BufferOfOneEpoch
    SyncPoint
    HeldOnlyBehindRestart
    ResetAtRestart
    RequestedBeforeExpiry
PROPERTY
    FeedsDecoder
    HeadOfLineReleased
