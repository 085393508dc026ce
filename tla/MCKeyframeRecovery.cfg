SPECIFICATION FairSpec
CONSTANTS
    low = low
    Profiles = {low}
    MaxEpoch = 2
    Cooldown = 1
    InFlight = 1
INVARIANT
    TypeOK
PROPERTY
    OwedKeyframe
    Resyncs
