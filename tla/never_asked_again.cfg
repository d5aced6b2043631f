SPECIFICATION AcceptingSpec
CONSTANTS
    Capacity = 1
    MaxPackets = 1
    HOUR = 1
    HourCanPass = FALSE
    CONFIG_NETWORK_PACKET_SIZE = 512
    LongestServer = 197
PROPERTY
    NetworkAskedFor
