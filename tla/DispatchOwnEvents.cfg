\* A client, its CGI pipe, and a newcomer on the descriptor of either.
CONSTANTS
    Conn = {c1, c2}
    Fd = {f1, f2, f3}
    ListenFd = listen
    NoConn = NoConn
    NoFd = NoFd
    Budget = 1
    MaxEvents = 3
    MaxQueue = 3
    MaxFiles = 1
    MaxLost = 1
    CONNECTION_TIMEOUT_S = 2
    CGI_TIMEOUT_S = 1
    SWEEP_INTERVAL_S = 1
SPECIFICATION SpecH
SYMMETRY Symmetry
PROPERTY OwnEventsOnly
CHECK_DEADLOCK FALSE
