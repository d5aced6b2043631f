SPECIFICATION FairSpec
CONSTANTS
    GPS_TIMEOUT = 2
    GPS_RESTART_DELAY = 2
    RATE_LIMIT = 1
    StartMayFail = TRUE
    MaxFixes = 3
INVARIANTS
    TypeOK
    RestartPending
    SearchIsWatched
    ReportsInOrder
PROPERTIES
    NoPrematureStop
    NoEarlyRestart
    SearchEnds
    StopEnds
    FirstFixReported
