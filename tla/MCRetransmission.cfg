SPECIFICATION FairSpec
CONSTANTS
    Frames <- TwoFrames
    FirstNumber = 6
    Modulus = 8
    MaskBits = 1
INVARIANTS
    TypeOK
    Restored
PROPERTY
    RequestsTheMissing
    Repaired
CHECK_DEADLOCK FALSE
