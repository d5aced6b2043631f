SPECIFICATION FairSpec
CONSTANTS
    DevicesMayFail = TRUE
    TRACKCAR_LOW_POWER = TRUE
    LOW_POWER_MODE_ACTIVATED_LENGTH = 2
    HIGH_POWER_MODE_ACTIVATED_LENGTH = 1
    MaxPresses = 2
    MaxReplies = 1
INVARIANTS
    TypeOK
    WholeMode
    TogglesAreClicks
    PatternInBounds
PROPERTIES
    FlashesCounted
    LedGoesOff
CHECK_DEADLOCK FALSE
