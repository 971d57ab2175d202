\* A header in one send or in two; bodies of no, of less and of more than one
\* buffer, and one above the limit of the store.
CONSTANTS
    HeaderSizes = {1, 3}
    BodySizes = {0, 1, 3, 5}
    WriteBufferSize = 2
    BufferLimit = 3
    MaxFile = 5
    MaxBuilds = 2
    MaxReceived = 10
SPECIFICATION FairSpec
INVARIANTS
    TypeOK
    CurrentPrefix
    EntireUnlessCut
    LengthKept
PROPERTIES
    Finishes
CHECK_DEADLOCK FALSE
