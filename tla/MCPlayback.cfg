SPECIFICATION FairSpec
CONSTANTS
    Stream <- TwoEpochs
    Pictures = {1, 2, 3, 4, 5, 6}
    MaxQueuedFrames = 2
INVARIANTS
    TypeOK
    NoPictureLeaks
PROPERTY
    OutputDecodable
    ShowsInOrder
    StopReturns
    LastGoodImage
    NeverBlocked
CHECK_DEADLOCK FALSE
