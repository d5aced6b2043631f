SPECIFICATION Spec
CONSTANTS
    DevicesMayFail = FALSE
    TRACKCAR_LOW_POWER = TRUE
    LOW_POWER_MODE_ACTIVATED_LENGTH = 2
    HIGH_POWER_MODE_ACTIVATED_LENGTH = 1
    MaxPresses = 2
    MaxReplies = 1
INVARIANT
    PulldownWhenOff
CHECK_DEADLOCK FALSE
