SPECIFICATION Spec
CONSTANTS
    GPS_TIMEOUT = 1
    GPS_RESTART_DELAY = 1
    RATE_LIMIT = 0
    StartMayFail = FALSE
    MaxFixes = 2
    Capacity = 1
    MaxPackets = 2
    HOUR = 1
    HourCanPass = FALSE
PROPERTY
    NoRequestDuringSearch
