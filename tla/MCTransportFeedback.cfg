SPECIFICATION FairSpec
CONSTANTS
    Modulus = 8
    MaxPending = 3
    MaxStatuses = 3
    Fresh = 1
    Reach = 4
    MaxPackets = 8
INVARIANTS
    TypeOK
    ReportsTheWindow
PROPERTY
    WindowCloses
