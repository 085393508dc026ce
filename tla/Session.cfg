SPECIFICATION FairSpec
INVARIANTS
    TypeOK
    ThreadsJoined
PROPERTY
    Connects
    Shutdown
    PeerFollows
CHECK_DEADLOCK FALSE
