SPECIFICATION FairSenderSpec
CONSTANTS
    Qualities <- Samples
    MaxVideoKbps = 700
INVARIANTS
    SenderTypeOK
    PacerCarriesEncoder
PROPERTY
    EncoderFollows
    MaximumKept
