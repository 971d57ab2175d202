CONSTANTS
    Request = {r1}
    Pid = {p1, p2}
    MaxActive = 2
    PipeSize = 2
    ChunkSize = 1
    NoPid = NoPid
    NoRequest = NoRequest
SPECIFICATION Spec
INVARIANTS
    OutputConsumed
CHECK_DEADLOCK FALSE
