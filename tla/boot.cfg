SPECIFICATION FairSpec
CONSTANTS
    FEED_START = 1
    FEED_PERIOD = 2
    WINDOW = 3
    TRACKCAR_ENABLE_SD_CARD = TRUE
    Versions = 3
    MaxFaults = 3
    MaxResets = 3
INVARIANTS
    CertificateReady
    ChecksumTruthful
    HandsOver
    FedInTime
    SdCardReady
PROPERTY
    Boots
CHECK_DEADLOCK FALSE
