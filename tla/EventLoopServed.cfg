\* Two connections, three descriptors: a socket or a pipe is always scarce.
CONSTANTS
    Conn = {c1, c2}
    Fd = {f1, f2, f3}
    ListenFd = listen
    NoConn = NoConn
    NoFd = NoFd
    Budget = 1
    MaxEvents = 1
    MaxQueue = 3
    MaxFiles = 0
    MaxLost = 0
    CONNECTION_TIMEOUT_S = 2
    CGI_TIMEOUT_S = 1
    SWEEP_INTERVAL_S = 0
SPECIFICATION LoopFairSpec
PROPERTIES
    Served
    Stops
    CgiAnswered
CHECK_DEADLOCK FALSE
