SPECIFICATION FairSpec
CONSTANTS
    Capacity = 2
    MaxPackets = 4
    HOUR = 2
    HourCanPass = TRUE
    CONFIG_NETWORK_PACKET_SIZE = 512
    LongestServer = 197
INVARIANTS
    TypeOK
    NoStrandedPackets
    ConnectedUntilDrained
    SocketsClosed
    ServerVerified
    NoDuplicates
    RequestWhole
    ChargeComparable
PROPERTIES
    ImplementsPacketStore
    WaitingPacketsServed
    
    HandlerReturns
