\* Two scripts at once and three numbers: a number is reused while a request
\* still waits for it.
CONSTANTS
    Request = {r1, r2}
    Pid = {p1, p2, p3}
    MaxActive = 2
    PipeSize = 2
    ChunkSize = 1
    NoPid = NoPid
    NoRequest = NoRequest
SPECIFICATION Spec
INVARIANTS
    TypeOK
    ActiveAreChildren
    LimitKept
    NoneLeft
CHECK_DEADLOCK FALSE
