SPECIFICATION Spec
CONSTANTS
    GPS_TIMEOUT = 2
    GPS_RESTART_DELAY = 1
    RATE_LIMIT = 1
    StartMayFail = FALSE
    MaxFixes = 1
PROPERTY
    NoPrematureStop
