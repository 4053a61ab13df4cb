SPECIFICATION FairSpec
CONSTANTS
    A = A
    B = B
    R = R
    Nodes = {A, B, R}
    Links <- Triangle
    Routes0 <- ThroughRelay
    NoHop = NoHop
    MaxHops = 3
    MaxFaults = 1
    MaxChunks <- TwoAndOne
    MaxStreams = 2
    QueueCap = 1
INVARIANTS Handshake CloseLast
PROPERTIES ChannelSpec CloseReaches
CHECK_DEADLOCK FALSE
