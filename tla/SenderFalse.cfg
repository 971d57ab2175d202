CONSTANTS
    HeaderSizes = {1, 3}
    BodySizes = {5}
    WriteBufferSize = 2
    BufferLimit = 3
    MaxFile = 0
    MaxBuilds = 2
    MaxReceived = 10
SPECIFICATION Spec
INVARIANTS
    FalseMeansMore
CHECK_DEADLOCK FALSE
