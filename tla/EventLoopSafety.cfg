\* Two connections, three descriptors: a socket or a pipe is always scarce.
CONSTANTS
    Conn = {c1, c2}
    Fd = {f1, f2, f3}
    ListenFd = listen
    NoConn = NoConn
    NoFd = NoFd
    Budget = 1
    MaxEvents = 3
    MaxQueue = 3
    MaxFiles = 1
    MaxLost = 1
    CONNECTION_TIMEOUT_S = 2
    CGI_TIMEOUT_S = 1
    SWEEP_INTERVAL_S = 1
SPECIFICATION Spec
SYMMETRY Symmetry
CONSTRAINT UntilSecondClose
INVARIANTS
    TypeOK
    NoDanglingPointer
    NoLostWakeup
    CgiRegistration
    EpollCurrent
    DescriptorsOwned
PROPERTIES
    LifecycleSpec
CHECK_DEADLOCK FALSE
