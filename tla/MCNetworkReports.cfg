SPECIFICATION FairReportsSpec
CONSTANTS
    Qualities <- Samples
    MaxVideoKbps = 1000
    ReceiverReports <- Reports
    TransportLosses <- Losses
INVARIANTS
    ReportsTypeOK
    Adequate
PROPERTY
    HeldBeforeStepDown
    HeldThroughSilence
    Recovers
