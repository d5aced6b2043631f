SPECIFICATION Spec
CONSTANTS
    Capacity = 1
    MaxPackets = 2
    HOUR = 1
    HourCanPass = FALSE
    CONFIG_NETWORK_PACKET_SIZE = 512
    LongestServer = 197
PROPERTY
    WaitsForNewEvent
